CONSTANTS
  Ways = 2
  Sets = 1
  Tags = 3
  Offs = 1
  Vals = 2
  Uses = {"write", "flush"}
SPECIFICATION Spec
INVARIANTS ReadLatest OkAnswersRequest
