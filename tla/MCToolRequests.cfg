SPECIFICATION HandlerSpec
CONSTANTS
  Requests = {1, 2, 3}
  Scripts = {2}
  Tabs = {t1, t2}
  NoTab = NoTab
  Scopes = {a, b}
  NoScope = NoScope
  MaxHistory = 2
INVARIANTS AnsweredAtMostOnce RecordsAreTrue
PROPERTIES EndsAndStops
