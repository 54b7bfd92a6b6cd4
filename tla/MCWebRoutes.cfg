SPECIFICATION WebSpec
CONSTANTS
  Valid = {t1, t2, t3}
  Invalid = {bad}
  Feed = feed
  NotFound = none
INVARIANTS
  ShowsItsPage
  LoadingIsUnderWay
