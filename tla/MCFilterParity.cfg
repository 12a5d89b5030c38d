CONSTANTS
  Unhandled <- ThirdCell
  Items <- SomeItems
  Requests <- SomeRequests
  Joined <- FewFilters
  MaxOps = 2
SPECIFICATION Spec
INVARIANT OracleAnswers
INVARIANT SpatialiteFilters
INVARIANT OpenSearchFilters
INVARIANT RewriteKeepsMeaning
INVARIANT DatetimeParameter
INVARIANT SpatialParameters
CHECK_DEADLOCK FALSE
