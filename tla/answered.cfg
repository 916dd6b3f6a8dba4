SPECIFICATION FairSpec
CONSTANTS
  t1 = t1 t2 = t2 t3 = t3 t4 = t4
  p1 = p1 p2 = p2 b1 = b1 k1 = k1
  Txns = {t1, t2, t3}
  Payments = {p1, p2}
  Bills = {b1}
  Events <- SuccessTwice
  BillOf <- BillAndAccount
  KeyOf <- SharedKey
  Amount <- EvenAmounts
  Total <- TotalTwo
  Fee = 50
  Clawback = FALSE
  InitiateResults = {"successful", "pending", "timeout"}
  Overlaps = {"payment", "bill"}
  NoTxn = NoTxn NoBill = NoBill NoKey = NoKey NoWrite = NoWrite Absent = Absent
INVARIANT OnePaymentPerKey
PROPERTY EveryRequestEnds
