SPECIFICATION FramesSpec
CONSTANTS
  Buffers = {b1, b2}
  NoBuffer = NoBuffer
  MaxSets = 2
  MaxUnasked = 1
INVARIANT MapsFollowParameters
CHECK_DEADLOCK FALSE
