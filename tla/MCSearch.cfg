SPECIFICATION SearchSpec
CONSTANTS
  Catalog <- MCCatalog
  SearchRequests <- MCRequests
  None = None
  Day = 24
  MINIMUM_LAYOVER = 2
  MAX_PAGE_SIZE = 3
INVARIANTS SearchTypeOK PagesAddUp EveryMatchOnce PagesInOrder
CHECK_DEADLOCK FALSE
