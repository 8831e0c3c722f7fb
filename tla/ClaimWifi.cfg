CONSTANT
  MaxRetry = 2
SPECIFICATION FairSpec
PROPERTY Reconnects
