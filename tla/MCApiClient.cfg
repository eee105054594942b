\* Two calls at a time; tokens live three lags longer than the buffer.
CONSTANTS
  None = None
  Calls = {a1, a2}
  Lifetime = 5
  Buffer = 2
  DefaultLifetime = 4
  Lag = 1
  Answers = {"expires_in", "silent"}
  MaxTime = 9
  Keys = 2
SYMMETRY Symm
CHECK_DEADLOCK FALSE
SPECIFICATION Spec
INVARIANTS TypeOK TokensArriveInTime WithdrawnTokensAgeOut AdoptsYoungToken DiscoversOnceInSequence
