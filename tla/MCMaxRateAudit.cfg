SPECIFICATION Spec
CONSTANTS
  v1 = v1
  v2 = v2
  d1 = d1
  First = 1
  Last = 4
  Recent = 6
  Limit = 1
  Pages <- MCPages
  Pairs <- MCPairs
  Undelegated = {1, 2}
  Histories <- MCHistories
  TxHistories <- MCTxHistories
  Unlisted = Unlisted
  Unknown = Unknown
  NoFile = NoFile
  Torn = Torn
  MaxDeaths = 2
INVARIANTS
  LedgerIsHistory
  SummaryIsTrue
  SuspectsWerePending
