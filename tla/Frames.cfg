SPECIFICATION Spec
CONSTANTS
  SsrFrames <- MCSsrFrames
  HostFrames <- MCHostFrames
  Peer = Peer
  Self = Self
  WireLimit = 2
  OwnPayloads = 2
  OwnGap = 3
  Burst = 2
INVARIANTS
  FramesLeaveWhole
  CompletionsGoHome
  RingGetsEveryPayload
