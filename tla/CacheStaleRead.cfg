CONSTANTS
  Ways = 2
  Sets = 1
  Tags = 2
  Offs = 1
  Vals = 2
  Uses = {"flush", "request_over_flush"}
SPECIFICATION Spec
INVARIANTS ReadLatest
