SPECIFICATION Spec
CONSTANTS
  MaxTransactions = 3
  Requests <- MCRequests
  Responses <- MCResponses
  IdModulus = 256
INVARIANTS
  IndexIsSound
  CountAgrees
  DialogIsMatched
PROPERTIES
  LiveIdsAreStable
