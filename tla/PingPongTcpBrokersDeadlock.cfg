CONSTANTS
  Messages = 2
  MayCrash = {}
SPECIFICATION FairSpec
PROPERTIES
  BothEnd
CHECK_DEADLOCK FALSE
