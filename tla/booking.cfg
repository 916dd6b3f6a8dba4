SPECIFICATION Spec
CONSTANTS
  t1 = t1 t2 = t2 t3 = t3 t4 = t4
  p1 = p1 p2 = p2 b1 = b1 k1 = k1
  Txns = {t1, t2, t3, t4}
  Payments = {p1}
  Bills = {b1}
  Events <- EventsOfP1
  BillOf <- OneBill
  KeyOf <- NoKeys
  Amount <- EvenAmounts
  Total <- TotalTwo
  Fee = 50
  Clawback = TRUE
  InitiateResults = {"successful", "failed", "pending", "timeout", "error"}
  Overlaps = {"bill"}
  NoTxn = NoTxn NoBill = NoBill NoKey = NoKey NoWrite = NoWrite Absent = Absent
SYMMETRY Symmetry
INVARIANTS TypeOK BookedExactlyOnce
PROPERTY ImplementsLifecycle
