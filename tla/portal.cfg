SPECIFICATION Spec
CONSTANTS
  u1 = u1  u2 = u2  u3 = u3  s1 = s1
  n1 = n1  n2 = n2  n3 = n3
  k1 = k1  k2 = k2
  r1 = r1  r2 = r2  r3 = r3
  Users = {u1, u2, u3, s1}
  Tenants = {n1, n2, n3}
  Credentials = {k1, k2}
  Requests = {r1, r2, r3}
  Staff = {s1}
  MaxSecret = 1
  Granted = {"viewer", "tenant_admin", "auditor"}
  Nobody = Nobody  NoTenant = NoTenant
  Rows <- MCRows
  KindOf <- MCKindOf
  Stored <- MCStored
  StoredUnder <- MCStoredUnder
  Hired <- MCHired
  Registered <- MCRegistered
  Signed <- MCSigned
  Issued <- MCIssued
  Calls <- MCCalls
CHECK_DEADLOCK FALSE
INVARIANTS TypeOK TenantsAreSeparate PagesStayInside AdminRemains
PROPERTIES SwitchedOffStaysOff
