CONSTANTS
  RingSize = 2
  FrameSize = 3
  RequestSize = 2
  Threshold = 1
  FileSize = 1
  MaxSeeks = 1
  Codecs = {"mp3", "aac", "m4a"}
  LateLoad = FALSE
SPECIFICATION FairSpec
INVARIANT TypeOK
INVARIANT ConverterOutlivesUse
INVARIANT RequestIsSafe
INVARIANT NoTailLost
INVARIANT PlayerHoldsCodec
PROPERTY PlayEnds
PROPERTY PauseQuiesces
