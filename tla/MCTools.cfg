\* Each component on its own; it need not take any more steps.
SPECIFICATION Spec
CONSTANTS
  Components = {"refs", "input", "listeners", "traffic", "macro", "gif", "panel"}
  Absent = Absent
  None = None
  Nothing = Nothing
  Unset = Unset
  m1 = m1
  m2 = m2
  p1 = p1
  p2 = p2
  u1 = u1
  u2 = u2
  t1 = t1
  N = 3
  Tabs = {1}
  Sizes <- MCSizes
  MaxPx = 1400
  MinPx = 100
  Urls = {u1, u2}
  Events = {"Network"}
  Pages = {p1, p2}
  MaxEntries = 2
  MaxCount = 2
  Names = {m1, m2}
  MinCodeSize = 1
  MaxBits = 3
  Palettes = {p1, p2}
  MaxFrames = 2
  Statuses = {"disconnected", "connecting"}
  AutoTabs = {t1}
  MaxHistory = 1
  MaxTools = 2
  MaxOnWay = 2
VIEW View
INVARIANTS
  ListingIsRight GoesWhereSeen LeavesNoTrace InForce TrafficIsTold
  StoreIsTrue ReadsBack ShowsTheWorker
PROPERTIES ActsOnWhatWasTold
CHECK_DEADLOCK FALSE
