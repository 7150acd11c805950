SPECIFICATION FairSpec
CONSTANTS
  Txns = {t1, t2}
  Nobody = Nobody
  Rulesets = {a, b}
  Stock = Stock
  Blank = Blank
  NoFile = NoFile
  Backends = {"pf", "nftables"}
  MaxFaults = 1
  MaxOutside = 1
  MaxCrashes = 1
INVARIANTS Recorded RecordedIsCommitted
PROPERTIES EveryTxnEnds
CHECK_DEADLOCK FALSE
