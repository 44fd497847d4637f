SPECIFICATION Spec
CONSTANTS
  c1 = c1  c2 = c2
  Paths <- TwoPaths
  Dirs <- TwoDirs
  Ignored = {}
  Contents = {c1, c2}
  Before <- OneFile
  NoFile = NoFile
  Nowhere = Nowhere
  Trackers = {1}
  Styles = {"both", "any"}
  MaxChanges = 2
  MaxClient = 0
  MaxFaults = 0
  MaxStops = 0
  MaxDisturbances = 2
INVARIANT SavedWhenSettled
