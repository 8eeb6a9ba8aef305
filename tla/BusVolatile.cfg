CONSTANTS
  r1 = r1 r2 = r2 r3 = r3 c1 = c1 c2 = c2 f1 = f1 f2 = f2 e1 = e1 e2 = e2
  Runs = {r1, r2, r3}
  Reconcilers = {}
  Commands = {c1, c2}
  Fingerprints = {f1, f2}
  Effects = {e1, e2}
  CommandOf <- ClashCommand
  FingerprintOf <- ClashPrint
  EffectOf <- ClashEffect
  Observing = {f2}
  GateCodes = {"kill_switch_tripped"}
  Prompt = FALSE
  Volatile = TRUE
  MaxFaults = 0
  MaxRestarts = 2
  NoRun = NoRun
SPECIFICATION Spec
CHECK_DEADLOCK FALSE
PROPERTIES RepeatNeedsSurvivor
SYMMETRY Swap
