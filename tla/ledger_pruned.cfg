SPECIFICATION UsageSpec
CONSTANTS
  UsageAccount = {"a"}
  RetentionDays = 1
  RowCap = 9
  MaxDay = 3
  MaxRows = 3
INVARIANTS
  DeletedIsAggregated
