CONSTANTS
  Traces <- AllPolicies
  Jobs <- MCJobs
  Resources <- MCResources
  NumGpuCores = 2
  Running0 = {TRUE, FALSE}
  NoJob = NoJob
SPECIFICATION FairSpec
INVARIANTS NoAbort JobsRunWhole RightFrameAndScene CountedOnce TilesFollowTheCurve
PROPERTIES ImplementsBarrier MeetAtSameCommand BoundariesAreComplete ResourcesAreFound Terminates ReplaysAllFrames
