SPECIFICATION CallSpec
CONSTANTS
  MaxRows = 4
  MaxItems = 140
  MaxEpoch = 3
  MaxSlips = 1
  Requests <- MCRequests
  GlobalKeys <- MCGlobalKeys
  Results <- MCResults
  RuntimeErrors <- MCRuntimeErrors
INVARIANTS DecodesExactly RowsAfterAuthority SuccessDelivered
