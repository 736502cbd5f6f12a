SPECIFICATION MCSpec
CONSTANTS
  Parts = {"stream", "fresh", "source", "settings", "objects", "frames"}
  Readers = {r1, r2}
  Closers = {c1, c2}
  Capacity = 2
  MaxFrames = 3
  kFrames = 2
  MaximumAges = {0, 1, 2}
  kAgeLimit = 1
  MaxSequence = 3
  MaxFreshClock = 2
  FrameDurations = {0, 1, 3}
  CaptureTimeouts <- MCCaptureTimeouts
  QueueSizes = {0, 10}
  MaxAudioClock = 5
  MaxCaptures = 3
  Qualities = {"HIGH", "LOW"}
  Dimensions <- MCDimensions
  MaxRequests = 4
  MaxChanges = 3
  Objects = {o1, o2, o3}
  MaxHandles = 2
  Word = 32
  Widths <- MCSizes
  Heights <- MCSizes
  Paddings = {0, 1}
CHECK_DEADLOCK FALSE
INVARIANTS QueueHoldsNewest FreshReads QueuedDurationClose SettingsAgree HandlesSafe PlanesInBuffer
PROPERTY EndpointsReturn
