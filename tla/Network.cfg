CONSTANT
  MaxRetry = 2
SPECIFICATION FairSpec
INVARIANTS TypeOK NetstatAgrees
PROPERTIES AuthNowIsServed InternetIsFound ReconnectsOrGivesUp
