SPECIFICATION Spec
CONSTANTS
  Null = Null
  L = L
  Calls = 3
  Name <- MCName
  Answers <- MCAnswers
  Batches <- MCBatches
  Prices <- MCPrices
  MaxDeclared = 3
  MaxDelivered = 3
CHECK_DEADLOCK FALSE
INVARIANTS
  OneRecordPerCall RetriesAreOneCall BillIsHonest
PROPERTY
  TotalsOnlyGrow
