CONSTANTS
  Shells = {s1, s2}
  Chunks = 2
  Applets = 3
  Ls = 2
  Entries = 3
  Profile = 2
  ShellWrapper = 3
  MaxKills = 2
SPECIFICATION FairSpec
INVARIANTS TypeOK ExecutableIsWhole MarkersTellTheTruth
PROPERTIES SomeWindowOpens
