SPECIFICATION FairSpec
CONSTANTS
  Bounds <- MCDeaths
  Shutdowns = {FALSE}
  Resets = {TRUE}
PROPERTIES
  EventsRead
CHECK_DEADLOCK FALSE
