CONSTANTS
  Ways = 2
  Sets = 1
  Tags = 3
  Offs = 1
  Vals = 1
  Uses = {"write", "flush", "flush_over_request", "request_over_flush"}
SPECIFICATION Spec
INVARIANTS IInv UniqueTags
PROPERTIES FlushKeepsLines
