CONSTANTS
  Readers = {r1}
  Fields = {base_tsc, base_ns, ns_per_tsc}
  SeqMod = 16
  MaxSaves = 3
SPECIFICATION ClockFairSpec
CHECK_DEADLOCK FALSE
INVARIANT OneCalibration
PROPERTY ReadEnds
