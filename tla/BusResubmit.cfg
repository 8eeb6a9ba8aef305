CONSTANTS
  r1 = r1 r2 = r2 r3 = r3 c1 = c1 c2 = c2 f1 = f1 f2 = f2 e1 = e1 e2 = e2
  Runs = {r1, r2}
  Reconcilers = {}
  Commands = {c1, c2}
  Fingerprints = {f1, f2}
  Effects = {e1, e2}
  CommandOf <- TwinsCommand
  FingerprintOf <- TwinsPrint
  EffectOf <- TwinsEffect
  Observing = {}
  GateCodes = {"kill_switch_tripped"}
  Prompt = TRUE
  Volatile = FALSE
  MaxFaults = 0
  MaxRestarts = 0
  NoRun = NoRun
SPECIFICATION Spec
CHECK_DEADLOCK FALSE
PROPERTY NotRefusedBySelf
