CONSTANTS
  Emulator = {1, 2}
  RawFormat <- MCRawFormat
  Hardware = {}
  Pitch <- MCPitch
  RateOf <- MCRateOf
  Duration <- MCDuration
  Chunk = 2
  Batch = {3}
  Capacity = 2
  RtpCapacity = 1
  Wide = 64
  MaxFrames = 1
  MaxSamples = 0
SPECIFICATION Spec
INVARIANTS HeaderNamesTheFormat
CHECK_DEADLOCK FALSE
