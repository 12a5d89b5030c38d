CONSTANTS
  Unhandled <- ThirdCell
  Items <- SomeItems
  Requests <- SomeRequests
  Joined <- FewFilters
  MaxOps = 0
SPECIFICATION Spec
INVARIANT EitherOrder
CHECK_DEADLOCK FALSE
