CONSTANTS
  Emulator = {1, 2}
  RawFormat <- MCRawFormat
  Hardware = {1}
  Pitch <- MCPitch
  RateOf <- MCRateOf
  Duration <- MCDuration
  Chunk = 2
  Batch = {3}
  Capacity = 2
  RtpCapacity = 1
  Wide = 64
  MaxFrames = 3
  MaxSamples = 9
SPECIFICATION Spec
INVARIANTS TypeOK FramesAreAccountedFor PicturesAreRight AudioIsAccountedFor
CHECK_DEADLOCK FALSE
