\* Two front ends and a sensor are recorded; the run ends in every way, and the
\* file is replayed.
SPECIFICATION Spec
CONSTANTS
  FrontEnds = {f1, f2}
  Bias <- MCBias
  Clouds = {scan}
  loop_closure_enabled = TRUE
  loop_closure_period = 2
  solve_period = 3
  MaxTime = 5
  MaxEntries = 4
SYMMETRY FrontEndSymmetry
INVARIANTS
  RebuildsTheMap
  SolvesAtPeriods
  LogMakesTheMap
CHECK_DEADLOCK FALSE
