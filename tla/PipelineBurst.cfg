CONSTANTS
  Emulator = {1, 2}
  RawFormat <- MCRawFormat
  Hardware = {}
  Pitch <- MCPitch
  RateOf <- MCRateOf
  Duration <- MCDuration
  Chunk = 2
  Batch = {3}
  Capacity = 2
  RtpCapacity = 1
  Wide = 64
  MaxFrames = 0
  MaxSamples = 9
SPECIFICATION Spec
INVARIANTS BurstsAreScheduled
CHECK_DEADLOCK FALSE
