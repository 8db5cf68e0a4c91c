CONSTANTS
  Ways = 1
  Sets = 2
  Tags = 2
  Offs = 1
  Vals = 1
  Uses = {"write", "flush", "invalidate", "flush_over_request", "request_over_flush"}
SPECIFICATION FairSpec
INVARIANTS TypeOK InvalidateDoneEmpty
PROPERTIES RequestServed DrainServed
