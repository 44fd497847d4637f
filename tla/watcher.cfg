SPECIFICATION FairSpec
CONSTANTS
  c1 = c1  c2 = c2
  Paths <- TwoPaths
  Dirs <- TwoDirs
  Ignored = {}
  Contents = {c1, c2}
  Before <- OneFile
  NoFile = NoFile
  Nowhere = Nowhere
  Trackers = {1}
  Styles = {"tracked"}
  MaxChanges = 2
  MaxClient = 1
  MaxFaults = 1
  MaxStops = 1
  MaxDisturbances = 2
INVARIANTS TypeOK HistoryFollowsRename
PROPERTIES RemovesOnlyWhatIsGone EventuallyInSync
