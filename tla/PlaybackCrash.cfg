CONSTANTS
  RingSize = 2
  FrameSize = 3
  RequestSize = 2
  Threshold = 1
  FileSize = 1
  MaxSeeks = 1
  Codecs = {"mp3"}
  LateLoad = TRUE
SPECIFICATION Spec
INVARIANT NeverCallsNull
