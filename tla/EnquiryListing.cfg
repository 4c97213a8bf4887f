SPECIFICATION Spec
CONSTANTS
  Statuses = {"new", "closed"}
  Limit = 2
  MaxId = 5
  Any = Any
  NoCursor = NoCursor
INVARIANTS TypeOK CursorListsOnce CursorMissesNothing PagesMissNothing
CHECK_DEADLOCK FALSE
