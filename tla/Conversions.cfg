\* Every input of each parser up to the bounds.
SPECIFICATION ParserSpec
CONSTANTS
  MaxTags = 7
  MaxLabels = 3
  MaxValue = 2
  MaxText = 7
  MaxSeries = 2
  MaxPoints = 2
  MaxDocs = 4
INVARIANTS TextIsRead RecordsAreOwn
CHECK_DEADLOCK FALSE
