SPECIFICATION FairSpec
CONSTANTS
  r1 = r1 r2 = r2 r3 = r3 b1 = b1
  Requests = {r1, r2, r3}
  Payments = {1, 2}
  Bills = {b1}
  BillOf <- SharedBill
  Amount <- OwnAmounts
  Fee = 50
  Started = {"UNKNOWN", "SUCCESSFUL"}
  Jobs <- Desks
  Callbacks = {"successful", "failed"}
  Answers = {"pending", "unknown"}
  NoBatch = NoBatch Nobody = Nobody NoBill = NoBill NoWrite = NoWrite
INVARIANTS TypeOK BatchTotals NothingOverlooked
PROPERTIES ClaimsAreFinal SettledStays EveryRequestEnds
