SPECIFICATION Spec
CONSTANTS
  Existing = 2
  MaxId = 3
  PageSize = 1
  MoreSlots = 2
  MaxWork = 2
CHECK_DEADLOCK FALSE
INVARIANTS TypeOK OnlyUploadsRevive ListIsComplete
PROPERTIES ScreenSettles
