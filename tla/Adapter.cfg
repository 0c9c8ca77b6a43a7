SPECIFICATION FairSpec
CONSTANTS
  Fresh = 1
  Stuck = TRUE
  NoJob = nojob
PROPERTIES
  ImplementsCommandLine
  SteersOnLiveLink
  CallsReturn
