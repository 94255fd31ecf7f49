SPECIFICATION FairSpec
CONSTANTS
  NoCode = NoCode
  BatchSize = 2
  MaxMishaps = 1
  Requests = {r1, r2}
  Sources <- MCSources
  Limits <- MCLimits
  Retries = 2
  BarTicks = 1
  MaxTicks = 1
  NoRow = NoRow
  Asked <- MCAsked
INVARIANTS TypeOK FetchedIsWhole AnnouncedIsStored
PROPERTIES RefusalsAreFinal EntriesAreSettled
CHECK_DEADLOCK FALSE
