SPECIFICATION Spec
CONSTANTS
  Events = {e1, e2}
  Batches = {b1, b2}
  MaxTime = 2
  None = None
SYMMETRY Symmetry
CHECK_DEADLOCK FALSE
INVARIANTS PublishedManifestsVerify CompletedBatchesAreSnapshots FailedBatchesLeaveNoFragment ReportOverlooksNoEvent
