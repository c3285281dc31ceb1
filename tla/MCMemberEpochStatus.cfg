\* Two records, in either order.
CONSTANTS
  Edit = {1, 2}
  Record <- FullRecords
SPECIFICATION MergerSpec
INVARIANT StatusIssuerOwned
CHECK_DEADLOCK FALSE
