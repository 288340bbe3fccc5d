SPECIFICATION Spec
CONSTANTS
  VPage = {0, 1}
  ChunkSize = 2
  InitChunks = 0
  Fragmented = TRUE
  Ranges <- MCRanges
  PageBlocks = 2
  CacheLines = 2
  MaxResources = 3
INVARIANT SearchEnds
INVARIANT FreesWhatIsMapped
INVARIANT PagesArePrivate
INVARIANT LinesFollowResources
INVARIANT NoUseIsLost
