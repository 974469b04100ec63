SPECIFICATION CurveSpec
CONSTANTS
  Ask <- MCAsk
  DaysAhead <- MCDaysAhead
INVARIANTS FareTypeOK RoundsHalfEven
PROPERTIES PriceNeverDrops
CHECK_DEADLOCK FALSE
