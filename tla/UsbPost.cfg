SPECIFICATION FairSpec
INVARIANTS TypeOK SettlingIsTimed DetectionIsWatched
PROPERTIES DetectionEnds ImplementsIPostDetector
