SPECIFICATION Spec
CONSTANTS
  r1 = r1 r2 = r2 r3 = r3 r4 = r4
  Requests = {r1, r2, r3, r4}
  Refs = {"erp"}
  Numbers = {"x", "y"}
  MaxAttempts = 3
  NoRef = NoRef NoNumber = NoNumber NoRow = NoRow NoRecord = NoRecord Genesis = Genesis
SYMMETRY Symmetry
CHECK_DEADLOCK FALSE
INVARIANTS TypeOK OneRecordPerReference AnsweredOnce ChainVerifies
