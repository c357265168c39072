\* Lists of up to two experiments; Redis and the working directory may be used already.
CONSTANTS
  d1 = d1  d2 = d2
  Dirs = {d1, d2}
  Configs <- MCConfigs
SPECIFICATION Spec
INVARIANTS ExpansionExact StatsOnOwnData NoOrphanHost
PROPERTY BenchmarkEnds
