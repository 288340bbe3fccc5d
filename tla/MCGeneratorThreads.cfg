SPECIFICATION Spec
CONSTANTS
  a1 = a1
  a2 = a2
  w1 = w1
  App = {a1, a2}
  Worker = {w1}
  NumAnalyzers = 1
  BufferSize = 2
  Thread <- MCThread
  NoThread = NoThread
  NoJob = NoJob
  Packet <- MCPacket
  Refused <- MCRefused
  Calls <- FlushAndTiles
  MaxCalls = 1
  Frames = 1
PROPERTY RotationDiscardsNothing
