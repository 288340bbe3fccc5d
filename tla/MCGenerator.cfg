SPECIFICATION Spec
CONSTANTS
  a1 = a1
  w1 = w1
  App = {a1}
  Worker = {w1}
  NumAnalyzers = 1
  BufferSize = 2
  Thread <- MCThread
  NoThread = NoThread
  NoJob = NoJob
  Packet <- MCPacket
  Refused <- MCRefused
  Calls <- AllCalls
  MaxCalls = 2
  Frames = 1
INVARIANT PausedMeansDrained
INVARIANT AccessesBelongToRunningJob
INVARIANT StreamKeepsProgramOrder
INVARIANT StopLosesNothing
PROPERTY RotationDiscardsNothing
PROPERTY FollowsProtocol
PROPERTY HandlersReturn
