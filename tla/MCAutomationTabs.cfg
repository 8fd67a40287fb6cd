\* Stops of one tab and of all, one tab without the content script.
SPECIFICATION Spec
CONSTANTS
  t1 = t1
  t2 = t2
  Tabs = {t1, t2}
  NoTab = NoTab
  StopTargets = {t2, NoTab}
  Unscripted = {t2}
  MaxMessages = 2
INVARIANTS MarksAreUndone OverlayIsRight
PROPERTIES TabIsReleased
CHECK_DEADLOCK FALSE
