SPECIFICATION Spec
CONSTANTS
  loop = loop
  route = route
  reload = reload
  page = page
  health = health
  Readers = {loop, route}
  Endpoints = 2
  Threshold = 2
  Loop = loop
  Boots = {loop, reload}
  Requests = {page, health}
  MaxFaults = 3
INVARIANTS
    JudgedOnItsOwn
PROPERTIES
    ReadsResume
    OutageIsReported
