SPECIFICATION Spec
CONSTANTS
  Packets <- MCPackets
  Configs <- MCConfigs
  KnownRscs = {0, 1}
  Masks <- MCMasks
  NumSets = 2
  Ways = 2
  SubBlocks = 2
  CtrMax = 2
  NbrRange = 2
  MaxPackets = 4
  MaxFrames = 2
  MaxScenes = 2
CHECK_DEADLOCK FALSE
INVARIANT SceneReuseIsInFrame
