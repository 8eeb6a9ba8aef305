CONSTANTS
  r1 = r1 r2 = r2 r3 = r3 c1 = c1 c2 = c2 f1 = f1 f2 = f2 e1 = e1 e2 = e2
  Runs = {r1, r2}
  Reconcilers = {p}
  Commands = {c1}
  Fingerprints = {f1}
  Effects = {e1}
  CommandOf <- TwinsCommand
  FingerprintOf <- TwinsPrint
  EffectOf <- TwinsEffect
  Observing = {}
  GateCodes = {"kill_switch_tripped"}
  Prompt = FALSE
  Volatile = FALSE
  MaxFaults = 1
  MaxRestarts = 0
  NoRun = NoRun
SPECIFICATION FairSpec
CHECK_DEADLOCK FALSE
INVARIANTS AtMostOncePerCommand EvidenceNeverVanishes BusInv
PROPERTIES ImplementsFence ReclaimOnlyBeforeDo EvidenceReachesStore NoCommandWedged
