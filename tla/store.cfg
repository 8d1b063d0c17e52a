\* Two jobs, containers of two chunks, a buffer smaller than one job's output.
CONSTANTS
  Fps = {f1, f2, f3}
  Capacity = 2
  BufferSize = 1
  MaxCount = 3
  MaxJobs = 2
SPECIFICATION FairSpec
INVARIANTS TypeOK ReaderFinds RtmFollowsDisk ClosedComplete
PROPERTIES NeverOverwritten WritersProgress
