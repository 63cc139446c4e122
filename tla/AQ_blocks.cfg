SPECIFICATION Spec
CONSTANTS
  MaxBuckets = 2
  BucketSize = 2
  DevCap = 4
  ComputeSize = 3
  StartCounts = {0, 4}
  Tracing = FALSE
  Reports = FALSE
  DrainSlack = 1
  SeekPoints = {0}
  MaxSample = 6
  MaxTrace = 0
  MaxErrors = 0
INVARIANTS FillNeverBlocks
