CONSTANTS
  Warmup = 1
  Quiet = 2
  Timeout = 5
SPECIFICATION FairSpec
INVARIANTS TypeOK DoneAfterSilence DoneInTime DetectionIsSampled
PROPERTIES DetectionEnds ImplementsIPostDetector
