CONSTANTS
  Traces <- LostTails
  Jobs <- MCJobs
  Resources <- MCResources
  NumGpuCores = 2
  Running0 = {TRUE}
  NoJob = NoJob
SPECIFICATION FairSpec
PROPERTIES ExitsAtEndOfStream
