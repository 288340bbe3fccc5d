SPECIFICATION Spec
CONSTANTS
  w1 = w1
  w2 = w2
  Worker = {w1, w2}
  NumAnalyzers = 2
  BufferSize = 2
  Thread <- MCThread
  NoThread = "none"
  Packet <- MCPacket
  Refused <- MCRefused
  FirstFrame = "frame"
  FirstScene = "scene"
  MaxPushed = 3
INVARIANT StartFindsThreadsParked
PROPERTY BufferStaysUnderReaders
PROPERTY DeliversInOrder
