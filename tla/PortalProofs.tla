----------------------------- MODULE PortalProofs -----------------------------
(***************************************************************************)
(* Theorems about tenancy, for any users, tenants, rows and requests.      *)
(***************************************************************************)
EXTENDS Portal, TLAPS

RowType        == [tenant : Tenants \cup {NoTenant}, links : SUBSET Rows, active : BOOLEAN]
CredentialType == [tenant : Tenants \cup {NoTenant}, active : BOOLEAN, secret : 0 .. MaxSecret]
PersonType     == [exists : BOOLEAN, staff : BOOLEAN, super : BOOLEAN, roles : SUBSET PlatformRole]
MemberType     == [role : TenantRole \cup {Nobody}, active : BOOLEAN]
Target         == Rows \cup Credentials \cup Users \cup Tenants
View           == {"waiting", "served"} \cup DOMAIN TenantViews \cup DOMAIN PlatformViews \cup ApiViews

\* A request is well-formed: it is for a tenant if its view is a tenant's, and
\* what it has looked up is of the table its view works on.
OnKind(S, kind) == \A x \in S : x \in Rows /\ KindOf[x] = kind

Asks(q) ==
  /\ q.view \in View
  /\ q.by \in Users \cup Credentials \cup {Nobody}
  /\ q.tenant \in Tenants \cup {NoTenant} /\ q.active \in BOOLEAN
  /\ q.on \subseteq Target
  /\ q.view \in DOMAIN TenantViews \cup ApiViews => q.tenant \in Tenants
  /\ q.view \in {"customer_edit", "customer_deactivate", "customer_activate", "account_create",
                 "api_account", "customer_bulk_deactivate"} => OnKind(q.on, "customer")
  /\ q.view \in {"bill_create", "api_bill"} => OnKind(q.on, "account")
  /\ q.view \in {"bill_cancel", "bill_request_control_number", "api_control_number"} => OnKind(q.on, "bill")
  /\ q.view \in {"pay_bill", "api_payment"} => OnKind(q.on, "number")
  /\ q.view \in {"payment_query", "payment_refund", "payment_reverse", "api_payment_query"} =>
       OnKind(q.on, "payment")
  /\ q.view = "resolve_exception_view" => OnKind(q.on, "exception")
  /\ q.view = "mark_completed" => OnKind(q.on, "batch")
  /\ q.view \in {"credential_rotate", "credential_revoke"} => q.on \subseteq Credentials
  /\ q.view \in {"team_member_deactivate", "team_member_activate"} => q.on \subseteq Users
  /\ q.view \in {"approve_tenant", "generate_batch", "platform_user_create"} => q.on \subseteq Tenants

Types ==
  /\ tenant \in [Tenants -> TenantStatus]
  /\ person \in [Users -> PersonType]
  /\ member \in [Tenants -> [Users -> MemberType]]
  /\ chosen \in [Users -> Tenants \cup {NoTenant}]
  /\ row \in [Rows -> RowType]
  /\ credential \in [Credentials -> CredentialType]
  /\ trail \subseteq [tenant : Tenants \cup {NoTenant}, on : Target]
  /\ DOMAIN req = Requests
  /\ \A r \in Requests : Asks(req[r])
  /\ serial \in BOOLEAN

-----------------------------------------------------------------------------
\* The first state is well-typed.
LEMMA InitTypes == Init => Types
<1> SUFFICES ASSUME Init PROVE Types
  OBVIOUS
<1> USE PortalAssumption DEF Init
<1>1. tenant \in [Tenants -> TenantStatus]
  BY DEF TenantStatus
<1>2. person \in [Users -> PersonType]
  BY DEF PersonType
<1>3. member \in [Tenants -> [Users -> MemberType]]
  <2>1. ASSUME NEW n \in Tenants, NEW u \in Users, \E h \in Hired : h.user = u /\ h.tenant = n
        PROVE  (CHOOSE h \in Hired : h.user = u /\ h.tenant = n).role \in TenantRole
    BY <2>1
  <2>2. QED
    BY <2>1 DEF MemberType, NoMember
<1>4. chosen \in [Users -> Tenants \cup {NoTenant}]
  OBVIOUS
<1>5. row \in [Rows -> RowType]
  <2>1. ASSUME NEW x \in DOMAIN Stored
        PROVE  Stored[x] \in Tenants /\ StoredUnder[x] \in SUBSET Rows
    BY <2>1
  <2>2. QED
    BY <2>1 DEF RowType, Absent
<1>6. credential \in [Credentials -> CredentialType]
  BY DEF CredentialType, NoCredential
<1>7. \A r \in Requests : Asks(req[r])
  BY DEF Asks, Waiting, View, TenantViews, ApiViews, OnKind
<1>8. QED
  BY <1>1, <1>2, <1>3, <1>4, <1>5, <1>6, <1>7 DEF Types

\* What a view looks up is of the table it works on.
LEMMA LookupTypes ==
  ASSUME Types, NEW view \in DOMAIN TenantViews \cup ApiViews, NEW n \in Tenants,
         NEW S \in LookedUp(view, n), NEW by \in Users \cup Credentials
  PROVE  Asks([view |-> view, by |-> by, tenant |-> n, on |-> S, active |-> FlagRead(S)])
<1> DEFINE q == [view |-> view, by |-> by, tenant |-> n, on |-> S, active |-> FlagRead(S)]
<1>1. FlagRead(S) \in BOOLEAN
  BY DEF FlagRead
<1>2. ASSUME NEW kind, S \in Singles(kind, n) PROVE S \subseteq Rows /\ OnKind(S, kind)
  BY <1>2 DEF Singles, Owned, OnKind
<1> USE DEF LookedUp, Asks, View, TenantViews, PlatformViews, ApiViews, Target
<1>3. CASE view \in {"customer_edit", "customer_deactivate", "customer_activate", "account_create",
                     "api_account"}
  BY <1>1, <1>2, <1>3
<1>4. CASE view = "customer_bulk_deactivate"
  BY <1>1, <1>4 DEF Owned, OnKind
<1>5. CASE view = "bill_create"
  BY <1>1, <1>5 DEF Owned, OnKind
<1>6. CASE view = "api_bill"
  BY <1>1, <1>2, <1>6
<1>7. CASE view \in {"bill_cancel", "bill_request_control_number", "api_control_number"}
  BY <1>1, <1>2, <1>7
<1>8. CASE view = "pay_bill"
  BY <1>1, <1>8 DEF Under, OnKind
<1>9. CASE view \in {"api_payment", "payment_query", "payment_refund", "payment_reverse", "api_payment_query"}
  BY <1>1, <1>2, <1>9
<1>10. CASE view = "resolve_exception_view"
  BY <1>1, <1>2, <1>10
<1>11. CASE view \in {"credential_rotate", "credential_revoke"}
  BY <1>1, <1>11
<1>12. CASE view \in {"team_member_deactivate", "team_member_activate"}
  BY <1>1, <1>12
<1>13. CASE view \in {"customer_create", "endpoint_create", "trigger_run", "credential_create",
                      "team_member_create", "api_customer", "api_endpoint"}
  BY <1>1, <1>13
<1>14. QED
  BY <1>3, <1>4, <1>5, <1>6, <1>7, <1>8, <1>9, <1>10, <1>11, <1>12, <1>13

LEMMA PlatformLookupTypes ==
  ASSUME Types, NEW view \in DOMAIN PlatformViews, NEW S \in PlatformLookedUp(view), NEW by \in Users
  PROVE  Asks([view |-> view, by |-> by, tenant |-> NoTenant, on |-> S, active |-> FlagRead(S)])
<1>1. FlagRead(S) \in BOOLEAN
  BY DEF FlagRead
<1> USE DEF PlatformLookedUp, Asks, View, TenantViews, PlatformViews, ApiViews, Target
<1>2. CASE view \in {"approve_tenant", "generate_batch", "platform_user_create"}
  BY <1>1, <1>2
<1>3. CASE view = "mark_completed"
  BY <1>1, <1>3 DEF platform_batch_list, OfAll, OnKind
<1>4. CASE view = "platform_create_tenant"
  BY <1>1, <1>4
<1>5. QED
  BY <1>2, <1>3, <1>4

-----------------------------------------------------------------------------
\* Rows hang together within one tenant, in a table T of rows.
Sound(T) ==
  /\ T \in [Rows -> RowType]
  /\ \A x \in Rows : \A y \in T[x].links :
       T[x].tenant # NoTenant /\ T[y].tenant = T[x].tenant /\ KindOf[y] \in LinkKinds[KindOf[x]]

Traced == \A e \in trail :
  /\ e.on \in Rows => row[e.on].tenant = e.tenant /\ e.tenant # NoTenant
  /\ e.on \in Credentials => credential[e.on].tenant = e.tenant /\ e.tenant # NoTenant

Looked == \A r \in Requests : \A x \in req[r].on :
  /\ req[r].view \in DOMAIN TenantViews \cup ApiViews =>
       /\ x \in Rows => row[x].tenant = req[r].tenant
       /\ x \in Credentials => credential[x].tenant = req[r].tenant
  /\ req[r].view = "mark_completed" => row[x].tenant # NoTenant

Separate == Types /\ Sound(row) /\ Traced /\ Looked

\* From T to U rows stay in their tenants, and no flag is switched on.
Stays(T, U) == \A x \in Rows : T[x].tenant # NoTenant => U[x].tenant = T[x].tenant
Grows(T, U) == Stays(T, U) /\ \A x \in Rows : U[x].active => T[x].active

RowsMove == Sound(row') /\ Stays(row, row')

\* what a step may add to the trail
TrailMoves == \A e \in trail' : e \in trail \/
  /\ e \in [tenant : Tenants \cup {NoTenant}, on : Target]
  /\ e.on \in Rows => row'[e.on].tenant = e.tenant /\ e.tenant # NoTenant
  /\ e.on \in Credentials => credential'[e.on].tenant = e.tenant /\ e.tenant # NoTenant

\* An audit record of targets that are the tenant's.
LEMMA AuditMoves ==
  ASSUME NEW n \in Tenants \cup {NoTenant}, NEW S \in SUBSET Target, Audit(n, S),
         \A x \in S : x \in Rows => row'[x].tenant = n /\ n # NoTenant,
         \A x \in S : x \in Credentials => credential'[x].tenant = n /\ n # NoTenant
  PROVE  TrailMoves
BY DEF Audit, TrailMoves

\* What the foreign keys of each table may refer to.
LEMMA LinkFacts ==
  /\ LinkKinds["account"] = {"customer"} /\ LinkKinds["bill"] = {"account"}
  /\ LinkKinds["number"] = {"bill", "account"} /\ LinkKinds["payment"] = {"number", "batch"}
  /\ LinkKinds["receipt"] = {"payment"} /\ LinkKinds["delivery"] = {"endpoint"}
  /\ LinkKinds["exception"] = {"payment", "run"}
BY DEF LinkKinds, Kinds

\* The table with new rows S of tenant n, where x refers to L[x].
With(T, S, L, n) == [x \in Rows |-> IF x \in S THEN NewRow(n, L[x]) ELSE T[x]]

LEMMA NewRowsAreSound ==
  ASSUME NEW T, Sound(T), NEW S \in SUBSET Rows, NEW L \in [S -> SUBSET Rows], NEW n \in Tenants,
         \A x \in S : T[x] = Absent,
         \A x \in S : \A y \in L[x] : (y \in S \/ T[y].tenant = n) /\ KindOf[y] \in LinkKinds[KindOf[x]]
  PROVE  Sound(With(T, S, L, n)) /\ Grows(T, With(T, S, L, n))
<1> DEFINE U == With(T, S, L, n)
<1>1. Absent.tenant = NoTenant /\ Absent.active = TRUE /\ n # NoTenant
  BY PortalAssumption DEF Absent
<1>2. \A K \in SUBSET Rows : /\ NewRow(n, K) \in RowType
                             /\ NewRow(n, K).tenant = n /\ NewRow(n, K).links = K
  BY DEF NewRow, RowType
<1>3. /\ U \in [Rows -> RowType]
      /\ \A x \in S : U[x].tenant = n /\ U[x].links = L[x]
      /\ \A x \in Rows \ S : U[x] = T[x]
  BY <1>2 DEF With, Sound
<1> HIDE DEF U
<1>4. ASSUME NEW x \in Rows, NEW y \in U[x].links
      PROVE  U[x].tenant # NoTenant /\ U[y].tenant = U[x].tenant /\ KindOf[y] \in LinkKinds[KindOf[x]]
  <2>1. y \in Rows
    BY <1>3, <1>4 DEF RowType
  <2>2. CASE x \in S
    BY <1>1, <1>3, <1>4, <2>1, <2>2
  <2>3. CASE x \notin S
    <3>1. T[x].tenant # NoTenant /\ T[y].tenant = T[x].tenant /\ KindOf[y] \in LinkKinds[KindOf[x]]
      BY <1>3, <1>4, <2>3 DEF Sound
    <3>2. y \notin S
      BY <1>1, <3>1
    <3>3. QED
      BY <1>3, <2>1, <2>3, <3>1, <3>2
  <2>4. QED
    BY <2>2, <2>3
<1>5. Sound(U)
  BY <1>3, <1>4 DEF Sound
<1>6. Grows(T, U)
  BY <1>1, <1>3 DEF Grows, Stays
<1>7. QED
  BY <1>5, <1>6 DEF U

\* A table in which only flags differ.
LEMMA FlagsAreSound ==
  ASSUME NEW T, Sound(T), NEW U \in [Rows -> RowType],
         \A x \in Rows : U[x].tenant = T[x].tenant /\ U[x].links = T[x].links
  PROVE  Sound(U) /\ Stays(T, U)
<1>1. \A x \in Rows : U[x].links \subseteq Rows
  BY DEF RowType
<1>2. QED
  BY <1>1 DEF Sound, Stays

\* What services write beside the rows of the view goes to the tenant as well.
LEMMA BesideMoves ==
  ASSUME Separate, NEW n \in Tenants, NEW kinds \in SUBSET Outcome, NEW P \in SUBSET Rows,
         NEW own, Sound(own), Grows(row, own),
         \A x \in Rows : KindOf[x] \in Outcome => own[x] = row[x],
         \A p \in P : KindOf[p] = "payment" /\ own[p].tenant = n,
         Beside(n, kinds, P, own)
  PROVE  RowsMove /\ Grows(own, row') /\ Grows(row, row')
<1>1. PICK S \in SUBSET UNION {Free(k) : k \in kinds} :
        \E to \in [{x \in S : KindOf[x] = "delivery"} -> Owned("endpoint", n)],
           of \in [{x \in S : KindOf[x] = "receipt"} -> P] :
          /\ \A x, y \in {z \in S : KindOf[z] = "receipt"} : of[x] = of[y] => x = y
          /\ \A x \in {z \in S : KindOf[z] = "receipt"} : Under("receipt", {of[x]}) = {}
          /\ row' = [x \in Rows |->
            IF x \in {z \in S : KindOf[z] = "delivery"} THEN NewRow(n, {to[x]})
            ELSE IF x \in {z \in S : KindOf[z] = "receipt"} THEN NewRow(n, {of[x]})
            ELSE IF x \in S THEN NewRow(n, {})
            ELSE own[x]]
  BY Zenon DEF Beside
<1>2. PICK to \in [{x \in S : KindOf[x] = "delivery"} -> Owned("endpoint", n)],
           of \in [{x \in S : KindOf[x] = "receipt"} -> P] :
        row' = [x \in Rows |->
            IF x \in {z \in S : KindOf[z] = "delivery"} THEN NewRow(n, {to[x]})
            ELSE IF x \in {z \in S : KindOf[z] = "receipt"} THEN NewRow(n, {of[x]})
            ELSE IF x \in S THEN NewRow(n, {})
            ELSE own[x]]
  BY <1>1
<1> DEFINE L == [x \in S |-> IF KindOf[x] = "delivery" THEN {to[x]}
                             ELSE IF KindOf[x] = "receipt" THEN {of[x]} ELSE {}]
<1>3. \A x \in S : x \in Rows /\ row[x] = Absent /\ KindOf[x] \in Outcome
  BY DEF Free
<1>4. S \in SUBSET Rows /\ \A x \in S : own[x] = Absent
  BY <1>3
<1>5. NoTenant # n
  BY PortalAssumption
<1>6. \A y \in Owned("endpoint", n) : y \in Rows /\ KindOf[y] = "endpoint" /\ own[y].tenant = n
  BY <1>5 DEF Owned, Grows, Stays
<1>7. ASSUME NEW x \in S, NEW y \in L[x]
      PROVE  y \in Rows /\ own[y].tenant = n /\ KindOf[y] \in LinkKinds[KindOf[x]]
  <2>1. CASE KindOf[x] = "delivery"
    BY <1>6, <1>7, <2>1, LinkFacts
  <2>2. CASE KindOf[x] = "receipt"
    BY <1>7, <2>2, LinkFacts
  <2>3. QED
    BY <1>7, <2>1, <2>2
<1>8. L \in [S -> SUBSET Rows]
  BY <1>7
<1>9. row' = With(own, S, L, n)
  BY <1>2 DEF With
<1> HIDE DEF L
<1>10. Sound(row') /\ Grows(own, row')
  BY <1>4, <1>7, <1>8, <1>9, NewRowsAreSound
<1>11. Grows(row, row')
  BY <1>10 DEF Grows, Stays
<1>12. QED
  BY <1>10, <1>11 DEF RowsMove, Grows

\* what a handler does that switches no flag on
Well == RowsMove /\ Grows(row, row') /\ TrailMoves

\* Rows S are created in tenant n, with what goes beside them, and rows A of
\* the tenant are audited.
LEMMA Created ==
  ASSUME Separate, NEW n \in Tenants, NEW S \in SUBSET Rows, NEW L \in [S -> SUBSET Rows],
         \A x \in S : row[x] = Absent /\ KindOf[x] \notin Outcome,
         \A x \in S : \A y \in L[x] : (y \in S \/ row[y].tenant = n) /\ KindOf[y] \in LinkKinds[KindOf[x]],
         NEW kinds \in SUBSET Outcome, NEW P \in SUBSET Rows,
         \A p \in P : KindOf[p] = "payment" /\ (p \in S \/ row[p].tenant = n),
         NEW own, own = With(row, S, L, n),
         row' = own \/ Beside(n, kinds, P, own),
         NEW A \in SUBSET Rows, Audit(n, A), \A x \in A : x \in S \/ row[x].tenant = n
  PROVE  Well
<1>1. Sound(own) /\ Grows(row, own)
  BY NewRowsAreSound DEF Separate
<1>2. /\ \A x \in Rows : KindOf[x] \in Outcome => own[x] = row[x]
      /\ \A x \in S : own[x].tenant = n
  BY DEF With, NewRow
<1>3. n # NoTenant /\ Rows \cap Credentials = {}
  BY PortalAssumption
<1>4. \A x \in Rows : x \in S \/ row[x].tenant = n => own[x].tenant = n
  BY <1>1, <1>2, <1>3 DEF Grows, Stays
<1>5. RowsMove /\ Grows(own, row') /\ Grows(row, row')
  <2>1. CASE row' = own
    BY <1>1, <2>1 DEF RowsMove, Grows, Stays
  <2>2. CASE Beside(n, kinds, P, own)
    <3>1. \A p \in P : KindOf[p] = "payment" /\ own[p].tenant = n
      BY <1>4
    <3>2. QED
      BY <1>1, <1>2, <2>2, <3>1, BesideMoves
  <2>3. QED
    BY <2>1, <2>2
<1>6. \A x \in A : row'[x].tenant = n
  BY <1>3, <1>4, <1>5 DEF Grows, Stays
<1>7. TrailMoves
  BY <1>3, <1>6, AuditMoves DEF Target
<1>8. QED
  BY <1>5, <1>7 DEF Well

\* One new row of tenant n; nothing is beside it, or what its outcome brings.
LEMMA OneRowIsBorn ==
  ASSUME Separate, NEW n \in Tenants, NEW x \in Rows, row[x] = Absent, KindOf[x] \notin Outcome,
         NEW K \in SUBSET Rows, \A y \in K : row[y].tenant = n /\ KindOf[y] \in LinkKinds[KindOf[x]],
         NEW kinds \in SUBSET Outcome, NEW P \in SUBSET {x}, P = {} \/ KindOf[x] = "payment",
         \/ row' = [row EXCEPT ![x] = NewRow(n, K)]
         \/ Beside(n, kinds, P, [row EXCEPT ![x] = NewRow(n, K)]),
         Audit(n, {x}) \/ trail' = trail
  PROVE  Well
<1> DEFINE S == {x}
           L == [z \in S |-> K]
           own == [row EXCEPT ![x] = NewRow(n, K)]
<1>1. own = With(row, S, L, n)
  BY DEF With, Separate, Sound
<1>2. /\ S \in SUBSET Rows /\ L \in [S -> SUBSET Rows] /\ P \in SUBSET Rows
      /\ \A z \in S : row[z] = Absent /\ KindOf[z] \notin Outcome
      /\ \A z \in S : \A y \in L[z] : row[y].tenant = n /\ KindOf[y] \in LinkKinds[KindOf[z]]
      /\ \A p \in P : KindOf[p] = "payment" /\ p \in S
  OBVIOUS
<1>3. row' = own \/ Beside(n, kinds, P, own)
  OBVIOUS
<1>4. PICK A \in SUBSET S : Audit(n, A)
  <2>1. CASE Audit(n, {x})
    BY <2>1
  <2>2. CASE trail' = trail
    <3>1. Audit(n, {})
      BY <2>2 DEF Audit
    <3>2. QED
      BY <3>1
  <2>3. QED
    BY <2>1, <2>2
<1> HIDE DEF S, L, own
<1>5. A \in SUBSET Rows /\ \A z \in A : z \in S
  BY <1>2
<1>6. QED
  BY <1>1, <1>2, <1>3, <1>4, <1>5, Created

LEMMA OnlyOneRow ==
  ASSUME Separate, NEW n \in Tenants, NEW x \in Rows, row[x] = Absent, KindOf[x] \notin Outcome,
         NEW K \in SUBSET Rows, \A y \in K : row[y].tenant = n /\ KindOf[y] \in LinkKinds[KindOf[x]],
         row' = [row EXCEPT ![x] = NewRow(n, K)],
         Audit(n, {x}) \/ trail' = trail
  PROVE  Well
<1>1. {} \in SUBSET Outcome /\ {} \in SUBSET {x}
  OBVIOUS
<1>2. QED
  BY <1>1, OneRowIsBorn

LEMMA OneRowAndBeside ==
  ASSUME Separate, NEW n \in Tenants, NEW x \in Rows, row[x] = Absent, KindOf[x] \notin Outcome,
         NEW K \in SUBSET Rows, \A y \in K : row[y].tenant = n /\ KindOf[y] \in LinkKinds[KindOf[x]],
         NEW kinds \in SUBSET Outcome,
         Beside(n, kinds, {}, [row EXCEPT ![x] = NewRow(n, K)]),
         Audit(n, {x})
  PROVE  Well
<1>1. {} \in SUBSET {x}
  OBVIOUS
<1>2. QED
  BY <1>1, OneRowIsBorn

\* No row of the view's own.
LEMMA OnlyBeside ==
  ASSUME Separate, NEW n \in Tenants, NEW kinds \in SUBSET Outcome, NEW P \in SUBSET Rows,
         \A p \in P : KindOf[p] = "payment" /\ row[p].tenant = n,
         Beside(n, kinds, P, row),
         NEW A \in SUBSET Rows, Audit(n, A), \A x \in A : row[x].tenant = n
  PROVE  Well
<1> DEFINE L == [z \in {} |-> {}]
<1>1. row = With(row, {}, L, n)
  BY DEF With, Separate, Sound
<1>2. L \in [{} -> SUBSET Rows]
  OBVIOUS
<1> HIDE DEF L
<1>3. QED
  BY <1>1, <1>2, Created

\* A flag is switched off, with what goes beside it.
LEMMA FlagGoesOff ==
  ASSUME Separate, NEW n \in Tenants, NEW x \in Rows, row[x].tenant = n, KindOf[x] \notin Outcome,
         NEW kinds \in SUBSET Outcome,
         \/ row' = [row EXCEPT ![x].active = FALSE]
         \/ Beside(n, kinds, {}, [row EXCEPT ![x].active = FALSE]),
         Audit(n, {x})
  PROVE  Well
<1> DEFINE own == [row EXCEPT ![x].active = FALSE]
<1>1. row \in [Rows -> RowType]
  BY DEF Separate, Sound
<1>2. own[x] = [row[x] EXCEPT !.active = FALSE] /\ \A y \in Rows \ {x} : own[y] = row[y]
  BY <1>1
<1>3. /\ [row[x] EXCEPT !.active = FALSE] \in RowType
      /\ own[x].tenant = row[x].tenant /\ own[x].links = row[x].links /\ ~own[x].active
  <2>1. \A e \in RowType : /\ [e EXCEPT !.active = FALSE] \in RowType
                          /\ [e EXCEPT !.active = FALSE].tenant = e.tenant
                          /\ [e EXCEPT !.active = FALSE].links = e.links
                          /\ ~[e EXCEPT !.active = FALSE].active
    BY DEF RowType
  <2>2. row[x] \in RowType
    BY <1>1
  <2> HIDE DEF own
  <2>3. QED
    BY <1>2, <2>1, <2>2
<1>4. own \in [Rows -> RowType]
  BY <1>1, <1>3
<1>5. row' = own \/ Beside(n, kinds, {}, own)
  OBVIOUS
<1> HIDE DEF own
<1>6. \A y \in Rows : own[y].tenant = row[y].tenant /\ own[y].links = row[y].links
  BY <1>2, <1>3
<1>7. Sound(own) /\ Grows(row, own)
  BY <1>2, <1>3, <1>4, <1>6, FlagsAreSound DEF Separate, Grows
<1>8. \A y \in Rows : KindOf[y] \in Outcome => own[y] = row[y]
  BY <1>2
<1>9. RowsMove /\ Grows(row, row')
  <2>1. CASE row' = own
    BY <1>7, <2>1 DEF RowsMove, Grows
  <2>2. CASE Beside(n, kinds, {}, own)
    BY <1>7, <1>8, <2>2, BesideMoves
  <2>3. QED
    BY <1>5, <2>1, <2>2
<1>10. n # NoTenant /\ Rows \cap Credentials = {}
  BY PortalAssumption
<1>11. row'[x].tenant = n
  BY <1>9, <1>10 DEF Grows, Stays
<1>12. TrailMoves
  BY <1>10, <1>11, AuditMoves DEF Target
<1>13. QED
  BY <1>9, <1>12 DEF Well

\* What a request of a tenant knows when it writes.
LEMMA ServedTenant ==
  ASSUME Separate, NEW r \in Requests, req[r].view \in DOMAIN TenantViews \cup ApiViews
  PROVE  /\ req[r].tenant \in Tenants /\ Asks(req[r])
         /\ \A x \in req[r].on : x \in Rows => row[x].tenant = req[r].tenant
BY DEF Separate, Types, Asks, Looked

\* A bill of the portal is created along with its control number.
LEMMA BillIsBorn ==
  ASSUME Separate, NEW r \in Requests, bill_create(r)
  PROVE  Well
<1>1. req[r].view = "bill_create" /\ "bill_create" \in DOMAIN TenantViews \cup ApiViews
  BY DEF bill_create, Serving, TenantViews
<1>2. PICK n \in Tenants : n = req[r].tenant
  BY <1>1, ServedTenant
<1>3. PICK a \in req[r].on, x \in Free("bill"), y \in Free("number") :
        /\ Beside(n, Compensation, {}, [row EXCEPT ![x] = NewRow(n, {a}), ![y] = NewRow(n, {x})])
        /\ Audit(n, {x, y})
  BY <1>2 DEF bill_create
<1>4. a \in Rows /\ KindOf[a] = "account" /\ row[a].tenant = n
  BY <1>1, <1>2, ServedTenant DEF Asks, OnKind
<1>5. /\ x \in Rows /\ KindOf[x] = "bill" /\ row[x] = Absent
      /\ y \in Rows /\ KindOf[y] = "number" /\ row[y] = Absent
  BY DEF Free
<1> DEFINE S == {x, y}
           L == [z \in S |-> IF z = y THEN {x} ELSE {a}]
           own == [row EXCEPT ![x] = NewRow(n, {a}), ![y] = NewRow(n, {x})]
<1>6. S \in SUBSET Rows /\ L \in [S -> SUBSET Rows] /\ Compensation \in SUBSET Outcome
  BY <1>4, <1>5 DEF Outcome
<1>7. \A z \in S : row[z] = Absent /\ KindOf[z] \notin Outcome
  BY <1>5 DEF Outcome, Compensation, Charges
<1>8. \A z \in S : \A w \in L[z] : (w \in S \/ row[w].tenant = n) /\ KindOf[w] \in LinkKinds[KindOf[z]]
  BY <1>4, <1>5, LinkFacts
<1>9. own = With(row, S, L, n)
  BY <1>5 DEF With, Separate, Sound
<1>10. Beside(n, Compensation, {}, own) /\ Audit(n, S)
  BY <1>3
<1> HIDE DEF S, L, own
<1>11. QED
  BY <1>6, <1>7, <1>8, <1>9, <1>10, Created

\* The exceptions of a run are about payments of its tenant.
LEMMA RunIsBorn ==
  ASSUME Separate, NEW r \in Requests, trigger_run(r)
  PROVE  Well
<1>1. req[r].view = "trigger_run" /\ "trigger_run" \in DOMAIN TenantViews \cup ApiViews
  BY DEF trigger_run, Serving, TenantViews
<1>2. PICK n \in Tenants : n = req[r].tenant
  BY <1>1, ServedTenant
<1>3. PICK x \in Free("run"), found \in SUBSET Free("exception"), queried \in SUBSET Owned("payment", n) :
        \E of \in [found -> Owned("payment", n)] :
          /\ Beside(n, IF queried = {} THEN {} ELSE Outcome, queried,
                    [y \in Rows |-> IF y = x THEN NewRow(n, {})
                                    ELSE IF y \in found THEN NewRow(n, {of[y], x})
                                    ELSE row[y]])
          /\ Audit(n, queried)
  BY <1>2 DEF trigger_run
<1>4. PICK of \in [found -> Owned("payment", n)] :
          /\ Beside(n, IF queried = {} THEN {} ELSE Outcome, queried,
                    [y \in Rows |-> IF y = x THEN NewRow(n, {})
                                    ELSE IF y \in found THEN NewRow(n, {of[y], x})
                                    ELSE row[y]])
          /\ Audit(n, queried)
  BY <1>3
<1>5. /\ x \in Rows /\ row[x] = Absent /\ KindOf[x] = "run"
      /\ \A z \in found : z \in Rows /\ KindOf[z] = "exception" /\ row[z] = Absent
      /\ \A z \in found : of[z] \in Rows /\ KindOf[of[z]] = "payment" /\ row[of[z]].tenant = n
      /\ \A p \in queried : p \in Rows /\ KindOf[p] = "payment" /\ row[p].tenant = n
  BY DEF Free, Owned
<1> DEFINE S == found \cup {x}
           L == [z \in S |-> IF z = x THEN {} ELSE {of[z], x}]
           own == [y \in Rows |-> IF y = x THEN NewRow(n, {})
                                  ELSE IF y \in found THEN NewRow(n, {of[y], x})
                                  ELSE row[y]]
           kinds == IF queried = {} THEN {} ELSE Outcome
<1>6. S \in SUBSET Rows /\ L \in [S -> SUBSET Rows] /\ kinds \in SUBSET Outcome /\ queried \in SUBSET Rows
  BY <1>5
<1>7. \A z \in S : row[z] = Absent /\ KindOf[z] \notin Outcome
  BY <1>5 DEF Outcome, Compensation, Charges
<1>8. \A z \in S : \A w \in L[z] : (w \in S \/ row[w].tenant = n) /\ KindOf[w] \in LinkKinds[KindOf[z]]
  BY <1>5, LinkFacts
<1>9. own = With(row, S, L, n)
  BY <1>5 DEF With
<1>10. Beside(n, kinds, queried, own)
  BY <1>4
<1> HIDE DEF S, L, own, kinds
<1>11. QED
  BY <1>4, <1>5, <1>6, <1>7, <1>8, <1>9, <1>10, Created

\* A batch claims payments of its tenant: they refer to it from now on.
LEMMA BatchIsBorn ==
  ASSUME Separate, NEW r \in Requests, generate_batch(r)
  PROVE  Well
<1>1. PICK n \in req[r].on, x \in Free("batch") :
        \E claimed \in SUBSET {p \in Owned("payment", n) : Over("batch", {p}) = {}} :
          /\ Serving(r, {"generate_batch"})
          /\ row' = [y \in Rows |-> IF y = x THEN NewRow(n, {})
                                    ELSE IF y \in claimed THEN [row[y] EXCEPT !.links = @ \cup {x}]
                                    ELSE row[y]]
          /\ Audit(n, {x})
  BY DEF generate_batch
<1>2. PICK claimed \in SUBSET Owned("payment", n) :
          /\ Serving(r, {"generate_batch"})
          /\ row' = [y \in Rows |-> IF y = x THEN NewRow(n, {})
                                    ELSE IF y \in claimed THEN [row[y] EXCEPT !.links = @ \cup {x}]
                                    ELSE row[y]]
          /\ Audit(n, {x})
  BY <1>1
<1>3. n \in Tenants /\ n # NoTenant /\ Rows \cap Credentials = {}
  BY <1>2, PortalAssumption DEF Separate, Types, Asks, Serving
<1>4. /\ x \in Rows /\ row[x] = Absent /\ KindOf[x] = "batch" /\ row[x].tenant = NoTenant /\ row[x].active
      /\ \A p \in claimed : p \in Rows /\ KindOf[p] = "payment" /\ row[p].tenant = n
      /\ row \in [Rows -> RowType]
  BY DEF Free, Owned, Absent, Separate, Sound
<1>5. /\ \A y \in Rows : row[y].links \subseteq Rows
      /\ \A p \in claimed :
           /\ [row[p] EXCEPT !.links = @ \cup {x}] \in RowType
           /\ [row[p] EXCEPT !.links = @ \cup {x}].tenant = row[p].tenant
           /\ [row[p] EXCEPT !.links = @ \cup {x}].links = row[p].links \cup {x}
           /\ [row[p] EXCEPT !.links = @ \cup {x}].active = row[p].active
  BY <1>4 DEF RowType
<1>6. NewRow(n, {}) \in RowType /\ NewRow(n, {}).tenant = n /\ NewRow(n, {}).links = {}
  BY <1>3 DEF NewRow, RowType
<1>7. /\ row' \in [Rows -> RowType]
      /\ row'[x].tenant = n /\ row'[x].links = {}
      /\ \A y \in Rows \ {x} : /\ row'[y].tenant = row[y].tenant /\ row'[y].active = row[y].active
                               /\ row'[y].links = row[y].links \cup (IF y \in claimed THEN {x} ELSE {})
  BY <1>2, <1>4, <1>5, <1>6
<1>8. Grows(row, row')
  BY <1>4, <1>7 DEF Grows, Stays
<1>9. ASSUME NEW y \in Rows, NEW z \in row'[y].links
      PROVE  row'[y].tenant # NoTenant /\ row'[z].tenant = row'[y].tenant /\ KindOf[z] \in LinkKinds[KindOf[y]]
  <2>1. y # x /\ (z \in row[y].links \/ (y \in claimed /\ z = x))
    BY <1>7, <1>9
  <2>2. CASE z \in row[y].links
    <3>1. row[y].tenant # NoTenant /\ row[z].tenant = row[y].tenant /\ KindOf[z] \in LinkKinds[KindOf[y]] /\ z \in Rows
      BY <1>5, <2>2 DEF Separate, Sound
    <3>2. QED
      BY <1>4, <1>7, <2>1, <3>1
  <2>3. CASE y \in claimed /\ z = x
    BY <1>3, <1>4, <1>7, <2>1, <2>3, LinkFacts
  <2>4. QED
    BY <2>1, <2>2, <2>3
<1>10. RowsMove
  BY <1>7, <1>8, <1>9 DEF RowsMove, Sound, Grows
<1>11. TrailMoves
  BY <1>2, <1>3, <1>4, <1>7, AuditMoves DEF Target
<1>12. QED
  BY <1>8, <1>10, <1>11 DEF Well

\* The handlers that create rows or switch one off.
LEMMA CreatingStep ==
  ASSUME Separate, NEW r \in Requests,
         \/ customer_create(r) \/ account_create(r) \/ bill_create(r) \/ api_bill_create(r)
         \/ bill_cancel(r) \/ bill_request_control_number(r) \/ pay_bill(r)
         \/ payment_query(r) \/ payment_refund(r) \/ payment_reverse(r) \/ endpoint_create(r)
         \/ trigger_run(r) \/ resolve_exception_view(r) \/ generate_batch(r) \/ mark_completed(r)
  PROVE  Well
<1>1. /\ \A kind : \A x \in Free(kind) : x \in Rows /\ row[x] = Absent /\ KindOf[x] = kind
      /\ \A kind \in {"customer", "account", "bill", "number", "payment", "endpoint", "batch", "exception"} :
           kind \notin Outcome
      /\ {"notification", "delivery"} \in SUBSET Outcome /\ Compensation \in SUBSET Outcome
      /\ Charges \in SUBSET Outcome /\ {"revenue"} \in SUBSET Outcome /\ {"delivery"} \in SUBSET Outcome
      /\ Outcome \in SUBSET Outcome /\ {} \in SUBSET Outcome
  BY DEF Free, Outcome, Compensation, Charges
<1>2. CASE customer_create(r)
  <2>1. req[r].view \in DOMAIN TenantViews \cup ApiViews
    BY <1>2 DEF customer_create, Serving, TenantViews, ApiViews
  <2>2. PICK n \in Tenants : n = req[r].tenant
    BY <2>1, ServedTenant
  <2>3. PICK x \in Free("customer") : row' = [row EXCEPT ![x] = NewRow(n, {})] /\ Audit(n, {x})
    BY <1>2, <2>2 DEF customer_create
  <2>4. x \in Rows /\ row[x] = Absent /\ KindOf[x] \notin Outcome
    BY <1>1
  <2>5. {} \in SUBSET Rows /\ \A y \in {} : row[y].tenant = n /\ KindOf[y] \in LinkKinds[KindOf[x]]
    OBVIOUS
  <2>6. QED
    BY <2>3, <2>4, <2>5, OnlyOneRow
<1>3. CASE account_create(r)
  <2>1. /\ req[r].view \in DOMAIN TenantViews \cup ApiViews
        /\ req[r].view \in {"account_create", "api_account"}
    BY <1>3 DEF account_create, Serving, TenantViews, ApiViews
  <2>2. PICK n \in Tenants : n = req[r].tenant
    BY <2>1, ServedTenant
  <2>3. PICK c \in req[r].on, x \in Free("account") : row' = [row EXCEPT ![x] = NewRow(n, {c})] /\ Audit(n, {x})
    BY <1>3, <2>2 DEF account_create
  <2>4. c \in Rows /\ KindOf[c] = "customer" /\ row[c].tenant = n
    BY <2>1, <2>2, ServedTenant DEF Asks, OnKind
  <2>5. {c} \in SUBSET Rows /\ \A y \in {c} : row[y].tenant = n /\ KindOf[y] \in LinkKinds[KindOf[x]]
    BY <1>1, <2>4, LinkFacts
  <2>6. x \in Rows /\ row[x] = Absent /\ KindOf[x] \notin Outcome
    BY <1>1
  <2>7. QED
    BY <2>3, <2>5, <2>6, OnlyOneRow
<1>4. CASE api_bill_create(r)
  <2>1. /\ req[r].view \in DOMAIN TenantViews \cup ApiViews /\ req[r].view = "api_bill"
    BY <1>4 DEF api_bill_create, Serving, ApiViews
  <2>2. PICK n \in Tenants : n = req[r].tenant
    BY <2>1, ServedTenant
  <2>3. PICK a \in req[r].on, x \in Free("bill") :
          /\ Beside(n, {"notification", "delivery"}, {}, [row EXCEPT ![x] = NewRow(n, {a})])
          /\ Audit(n, {x})
    BY <1>4, <2>2 DEF api_bill_create
  <2>4. a \in Rows /\ KindOf[a] = "account" /\ row[a].tenant = n
    BY <2>1, <2>2, ServedTenant DEF Asks, OnKind
  <2>5. {a} \in SUBSET Rows /\ \A y \in {a} : row[y].tenant = n /\ KindOf[y] \in LinkKinds[KindOf[x]]
    BY <1>1, <2>4, LinkFacts
  <2>6. x \in Rows /\ row[x] = Absent /\ KindOf[x] \notin Outcome
    BY <1>1
  <2>7. QED
    BY <1>1, <2>3, <2>5, <2>6, OneRowAndBeside
<1>5. CASE bill_cancel(r) \/ resolve_exception_view(r)
  <2>1. /\ req[r].view \in DOMAIN TenantViews \cup ApiViews
        /\ req[r].view \in {"bill_cancel", "resolve_exception_view"}
    BY <1>5 DEF bill_cancel, resolve_exception_view, Serving, TenantViews
  <2>2. PICK n \in Tenants : n = req[r].tenant
    BY <2>1, ServedTenant
  <2>3. PICK x \in req[r].on :
          /\ \/ row' = [row EXCEPT ![x].active = FALSE]
             \/ Beside(n, {"delivery"}, {}, [row EXCEPT ![x].active = FALSE])
          /\ Audit(n, {x})
    BY <1>5, <2>2 DEF bill_cancel, resolve_exception_view
  <2>4. x \in Rows /\ KindOf[x] \in {"bill", "exception"} /\ row[x].tenant = n
    BY <2>1, <2>2, ServedTenant DEF Asks, OnKind
  <2>5. QED
    BY <1>1, <2>3, <2>4, FlagGoesOff
<1>6. CASE bill_request_control_number(r)
  <2>1. /\ req[r].view \in DOMAIN TenantViews \cup ApiViews
        /\ req[r].view \in {"bill_request_control_number", "api_control_number"}
    BY <1>6 DEF bill_request_control_number, Serving, TenantViews, ApiViews
  <2>2. PICK n \in Tenants : n = req[r].tenant
    BY <2>1, ServedTenant
  <2>3. \A b \in req[r].on : b \in Rows /\ KindOf[b] = "bill" /\ row[b].tenant = n
    BY <2>1, <2>2, ServedTenant DEF Asks, OnKind
  <2>4. ASSUME NEW b \in req[r].on, NEW y \in Free("number"),
               Beside(n, Charges, {}, [row EXCEPT ![y] = NewRow(n, {b})]), Audit(n, {y})
        PROVE  Well
    <3>1. {b} \in SUBSET Rows /\ \A z \in {b} : row[z].tenant = n /\ KindOf[z] \in LinkKinds[KindOf[y]]
      BY <1>1, <2>3, LinkFacts
    <3>2. QED
      BY <1>1, <2>4, <3>1, OneRowAndBeside
  <2>5. ASSUME NEW A, A = Under("number", req[r].on), Beside(n, {"revenue"}, {}, row), Audit(n, A)
        PROVE  Well
    <3>1. A \in SUBSET Rows /\ \A x \in A : row[x].tenant = n
      BY <2>3, <2>5 DEF Under, Separate, Sound
    <3>2. QED
      BY <1>1, <2>5, <3>1, OnlyBeside
  <2>6. QED
    BY <1>6, <2>2, <2>4, <2>5 DEF bill_request_control_number
<1>7. CASE pay_bill(r)
  <2>1. /\ req[r].view \in DOMAIN TenantViews \cup ApiViews
        /\ req[r].view \in {"pay_bill", "api_payment"}
    BY <1>7 DEF pay_bill, Serving, TenantViews, ApiViews
  <2>2. PICK n \in Tenants : n = req[r].tenant
    BY <2>1, ServedTenant
  <2>3. PICK y \in req[r].on, x \in Free("payment") :
          /\ Beside(n, Outcome, {x}, [row EXCEPT ![x] = NewRow(n, {y})])
          /\ Audit(n, {x})
    BY <1>7, <2>2 DEF pay_bill
  <2>4. y \in Rows /\ KindOf[y] = "number" /\ row[y].tenant = n
    BY <2>1, <2>2, ServedTenant DEF Asks, OnKind
  <2>5. {y} \in SUBSET Rows /\ \A z \in {y} : row[z].tenant = n /\ KindOf[z] \in LinkKinds[KindOf[x]]
    BY <1>1, <2>4, LinkFacts
  <2>6. x \in Rows /\ row[x] = Absent /\ KindOf[x] \notin Outcome
    BY <1>1
  <2>7. {x} \in SUBSET {x} /\ KindOf[x] = "payment"
    BY <1>1
  <2>8. QED
    BY <1>1, <2>3, <2>5, <2>6, <2>7, OneRowIsBorn
<1>8. CASE payment_query(r) \/ payment_refund(r) \/ payment_reverse(r)
  <2>1. /\ req[r].view \in DOMAIN TenantViews \cup ApiViews
        /\ req[r].view \in {"payment_query", "payment_refund", "payment_reverse", "api_payment_query"}
    BY <1>8 DEF payment_query, payment_refund, payment_reverse, Serving, TenantViews, ApiViews
  <2>2. PICK n \in Tenants : n = req[r].tenant
    BY <2>1, ServedTenant
  <2>3. PICK p \in req[r].on :
          /\ Beside(n, Outcome, {p}, row) \/ Beside(n, Compensation, {}, row)
          /\ Audit(n, {p})
    BY <1>8, <2>2 DEF payment_query, payment_refund, payment_reverse, Compensate
  <2>4. p \in Rows /\ KindOf[p] = "payment" /\ row[p].tenant = n
    BY <2>1, <2>2, ServedTenant DEF Asks, OnKind
  <2>5. QED
    BY <1>1, <2>3, <2>4, OnlyBeside
<1>9. CASE endpoint_create(r)
  <2>1. req[r].view \in DOMAIN TenantViews \cup ApiViews
    BY <1>9 DEF endpoint_create, Serving, TenantViews, ApiViews
  <2>2. PICK n \in Tenants : n = req[r].tenant
    BY <2>1, ServedTenant
  <2>3. PICK x \in Free("endpoint") : row' = [row EXCEPT ![x] = NewRow(n, {})] /\ trail' = trail
    BY <1>9, <2>2 DEF endpoint_create
  <2>4. x \in Rows /\ row[x] = Absent /\ KindOf[x] \notin Outcome
    BY <1>1
  <2>5. {} \in SUBSET Rows /\ \A y \in {} : row[y].tenant = n /\ KindOf[y] \in LinkKinds[KindOf[x]]
    OBVIOUS
  <2>6. QED
    BY <2>3, <2>4, <2>5, OnlyOneRow
<1>10. CASE mark_completed(r)
  <2>1. req[r].view = "mark_completed"
    BY <1>10 DEF mark_completed, Serving
  <2>2. PICK x \in req[r].on :
          /\ Beside(row[x].tenant, {"delivery"}, {}, [row EXCEPT ![x].active = FALSE])
          /\ Audit(row[x].tenant, {x})
    BY <1>10 DEF mark_completed
  <2>3. x \in Rows /\ KindOf[x] = "batch" /\ row[x].tenant # NoTenant
    BY <2>1 DEF Separate, Types, Asks, OnKind, Looked
  <2>4. PICK n \in Tenants : n = row[x].tenant
    BY <2>3 DEF Separate, Sound, RowType
  <2>5. QED
    BY <1>1, <2>2, <2>3, <2>4, FlagGoesOff
<1>11. QED
  BY <1>2, <1>3, <1>4, <1>5, <1>6, <1>7, <1>8, <1>9, <1>10, BillIsBorn, RunIsBorn, BatchIsBorn

\* Every handler keeps rows in their tenants, and only the views of customers
\* switch a row on.
LEMMA RowsStep ==
  ASSUME Separate, NEW r \in Requests, Handle(r)
  PROVE  RowsMove /\ (Grows(row, row') \/ customer_edit(r) \/ customer_activate(r))
<1>1. ASSUME row' = row PROVE RowsMove /\ Grows(row, row')
  BY <1>1 DEF RowsMove, Grows, Stays, Separate
<1>2. ASSUME NEW S, NEW flag \in BOOLEAN,
             row' = [x \in Rows |-> IF x \in S THEN [row[x] EXCEPT !.active = flag] ELSE row[x]]
      PROVE  RowsMove /\ (flag = FALSE => Grows(row, row'))
  <2>1. row \in [Rows -> RowType]
    BY DEF Separate, Sound
  <2>2. \A x \in Rows : /\ [row[x] EXCEPT !.active = flag] \in RowType
                        /\ [row[x] EXCEPT !.active = flag].tenant = row[x].tenant
                        /\ [row[x] EXCEPT !.active = flag].links = row[x].links
                        /\ [row[x] EXCEPT !.active = flag].active = flag
    BY <2>1 DEF RowType
  <2>3. /\ row' \in [Rows -> RowType]
        /\ \A x \in Rows : row'[x].tenant = row[x].tenant /\ row'[x].links = row[x].links
        /\ flag = FALSE => \A x \in Rows : row'[x].active => row[x].active
    BY <1>2, <2>1, <2>2
  <2>4. QED
    BY <2>3, FlagsAreSound DEF Separate, RowsMove, Grows
<1>3. CASE customer_edit(r)
  <2>1. PICK x \in req[r].on : Serving(r, {"customer_edit"}) /\ row' = [row EXCEPT ![x].active = req[r].active]
    BY <1>3 DEF customer_edit
  <2>2. x \in Rows /\ req[r].active \in BOOLEAN
    BY <2>1 DEF Separate, Types, Serving, Asks, OnKind
  <2>3. PICK flag \in BOOLEAN : flag = req[r].active
    BY <2>2
  <2> DEFINE S == {x}
  <2>4. row' = [y \in Rows |-> IF y \in S THEN [row[y] EXCEPT !.active = flag] ELSE row[y]]
    BY <2>1, <2>2, <2>3 DEF Separate, Sound
  <2> HIDE DEF S
  <2>5. QED
    BY <1>2, <1>3, <2>4
<1>4. CASE customer_deactivate(r) \/ customer_activate(r)
  <2>1. PICK flag \in BOOLEAN :
          row' = [x \in Rows |-> IF x \in req[r].on THEN [row[x] EXCEPT !.active = flag] ELSE row[x]]
          /\ (flag = FALSE \/ customer_activate(r))
    BY <1>4 DEF customer_deactivate, customer_activate, SetCustomers
  <2>2. QED
    BY <1>2, <2>1
<1>5. ASSUME \/ WritesNothing(r) \/ credential_create(r) \/ credential_rotate(r) \/ credential_revoke(r)
             \/ team_member_create(r) \/ team_member_deactivate(r) \/ team_member_activate(r)
             \/ onboard(r) \/ platform_create_tenant(r) \/ approve_tenant(r) \/ platform_user_create(r)
      PROVE  row' = row
  BY <1>5 DEF WritesNothing, credential_create, credential_rotate, credential_revoke,
     team_member_create, team_member_deactivate, team_member_activate, onboard, Register,
     platform_create_tenant, approve_tenant, platform_user_create, data
<1>6. QED
  BY <1>1, <1>3, <1>4, <1>5, CreatingStep DEF Handle, Well

-----------------------------------------------------------------------------
\* what a step may do to a credential: it stays in its tenant, and stays revoked
CredentialsMove ==
  /\ credential' \in [Credentials -> CredentialType]
  /\ \A c \in Credentials : credential[c].tenant # NoTenant =>
       /\ credential'[c].tenant = credential[c].tenant
       /\ ~credential[c].active => ~credential'[c].active

\* A rotation writes only the secret, a revocation only switches off.
LEMMA CredentialsStep ==
  ASSUME Separate, NEW r \in Requests, Handle(r)
  PROVE  CredentialsMove
<1>1. credential \in [Credentials -> CredentialType] /\ Asks(req[r])
  BY DEF Separate, Types
<1>2. ASSUME credential' = credential PROVE CredentialsMove
  BY <1>1, <1>2 DEF CredentialsMove
<1>3. CASE credential_create(r)
  <2>1. PICK c \in {d \in Credentials : credential[d] = NoCredential} :
          /\ Serving(r, {"credential_create"})
          /\ credential' = [credential EXCEPT ![c] = [tenant |-> req[r].tenant, active |-> TRUE, secret |-> 0]]
    BY <1>3 DEF credential_create
  <2>2. [tenant |-> req[r].tenant, active |-> TRUE, secret |-> 0] \in CredentialType
    BY <1>1, PortalAssumption DEF Asks, CredentialType
  <2>3. QED
    BY <1>1, <2>1, <2>2 DEF CredentialsMove, NoCredential
<1>4. CASE credential_rotate(r)
  <2>1. PICK c \in req[r].on :
          /\ Serving(r, {"credential_rotate"}) /\ credential[c].secret < MaxSecret
          /\ credential' = [credential EXCEPT ![c] = Rotated(r, c)]
    BY <1>4 DEF credential_rotate
  <2>2. c \in Credentials
    BY <1>1, <2>1 DEF Asks, Serving
  <2>3. Rotated(r, c) \in CredentialType /\ Rotated(r, c).tenant = credential[c].tenant
        /\ Rotated(r, c).active = credential[c].active
    BY <1>1, <2>1, <2>2, PortalAssumption DEF Rotated, CredentialType
  <2>4. QED
    BY <1>1, <2>1, <2>2, <2>3 DEF CredentialsMove
<1>5. CASE credential_revoke(r)
  <2>1. PICK c \in req[r].on :
          Serving(r, {"credential_revoke"}) /\ credential' = [credential EXCEPT ![c].active = FALSE]
    BY <1>5 DEF credential_revoke
  <2>2. c \in Credentials
    BY <1>1, <2>1 DEF Asks, Serving
  <2>3. QED
    BY <1>1, <2>1, <2>2 DEF CredentialsMove, CredentialType
<1>6. ASSUME ~credential_create(r), ~credential_rotate(r), ~credential_revoke(r)
      PROVE  credential' = credential
  BY <1>6 DEF Handle, WritesNothing, customer_create, customer_edit, customer_deactivate,
     customer_activate, SetCustomers, account_create, bill_create, api_bill_create,
     bill_cancel, bill_request_control_number, pay_bill, payment_query, payment_refund,
     payment_reverse, Compensate, endpoint_create, trigger_run, resolve_exception_view,
     team_member_create, team_member_deactivate, team_member_activate, onboard, Register,
     platform_create_tenant, approve_tenant, platform_user_create, generate_batch, mark_completed, data
<1>7. QED
  BY <1>2, <1>3, <1>4, <1>5, <1>6

\* Whoever is audited belongs to the tenant of the record.
LEMMA TrailStep ==
  ASSUME Separate, NEW r \in Requests, Handle(r)
  PROVE  TrailMoves
<1>1. RowsMove /\ CredentialsMove
  BY RowsStep, CredentialsStep
<1>2. /\ Asks(req[r]) /\ req[r].on \subseteq Target /\ req[r].tenant \in Tenants \cup {NoTenant}
      /\ row \in [Rows -> RowType] /\ credential \in [Credentials -> CredentialType]
  BY DEF Separate, Types, Asks
<1>3. /\ NoTenant \notin Tenants /\ Absent.tenant = NoTenant
      /\ Rows \cap (Credentials \cup Users \cup Tenants) = {} /\ Credentials \cap (Users \cup Tenants) = {}
  BY PortalAssumption DEF Absent
<1>4. /\ \A x \in Rows : row[x].tenant # NoTenant => row'[x].tenant = row[x].tenant
      /\ \A c \in Credentials : credential[c].tenant # NoTenant => credential'[c].tenant = credential[c].tenant
  BY <1>1 DEF RowsMove, Stays, CredentialsMove
<1>5. req[r].view \in DOMAIN TenantViews \cup ApiViews =>
        /\ req[r].tenant \in Tenants
        /\ \A x \in req[r].on : x \in Rows => row[x].tenant = req[r].tenant
        /\ \A x \in req[r].on : x \in Credentials => credential[x].tenant = req[r].tenant
  BY DEF Separate, Types, Asks, Looked
\* what was looked up
<1>6. ASSUME NEW S \in SUBSET req[r].on, Audit(req[r].tenant, S),
             req[r].view \in DOMAIN TenantViews \cup ApiViews
      PROVE  TrailMoves
  BY <1>2, <1>3, <1>4, <1>5, <1>6, AuditMoves
\* a user or a tenant
<1>7. ASSUME NEW n \in Tenants \cup {NoTenant}, NEW u \in Users \cup Tenants, Audit(n, {u})
      PROVE  TrailMoves
  <2>1. {u} \in SUBSET Target
    BY DEF Target
  <2>2. QED
    BY <1>3, <1>7, <2>1, AuditMoves
<1>8. ASSUME trail' = trail PROVE TrailMoves
  BY <1>8 DEF TrailMoves
<1>9. CASE customer_edit(r)
  <2>1. PICK x \in req[r].on : Serving(r, {"customer_edit"}) /\ Audit(req[r].tenant, {x})
    BY <1>9 DEF customer_edit
  <2>2. QED
    BY <1>6, <2>1 DEF Serving, TenantViews
<1>10. CASE customer_deactivate(r) \/ customer_activate(r)
  BY <1>6, <1>10 DEF customer_deactivate, customer_activate, SetCustomers, Serving, TenantViews
<1>11. CASE credential_create(r)
  <2>1. PICK c \in Credentials :
          /\ Serving(r, {"credential_create"}) /\ Audit(req[r].tenant, {c})
          /\ credential' = [credential EXCEPT ![c] = [tenant |-> req[r].tenant, active |-> TRUE, secret |-> 0]]
    BY <1>11 DEF credential_create
  <2>2. credential'[c].tenant = req[r].tenant /\ req[r].tenant \in Tenants
    BY <1>2, <1>5, <2>1 DEF Serving, TenantViews
  <2>3. {c} \in SUBSET Target
    BY DEF Target
  <2>4. QED
    BY <1>3, <2>1, <2>2, <2>3, AuditMoves
<1>12. CASE credential_rotate(r) \/ credential_revoke(r)
  <2>1. PICK c \in req[r].on :
          Serving(r, {"credential_rotate", "credential_revoke"}) /\ Audit(req[r].tenant, {c})
    BY <1>12 DEF credential_rotate, credential_revoke, Serving
  <2>2. QED
    BY <1>6, <2>1 DEF Serving, TenantViews
<1>13. CASE team_member_create(r) \/ team_member_deactivate(r) \/ team_member_activate(r)
  <2>1. PICK u \in Users : Audit(req[r].tenant, {u})
    BY <1>2, <1>13 DEF team_member_create, team_member_deactivate, team_member_activate, Serving, Asks, Newcomers
  <2>2. QED
    BY <1>2, <1>7, <2>1
<1>14. CASE onboard(r) \/ platform_create_tenant(r) \/ approve_tenant(r)
  <2>1. PICK n \in Tenants : Audit(n, {n})
    BY <1>2, <1>14 DEF onboard, platform_create_tenant, approve_tenant, Register, Serving, Asks
  <2>2. QED
    BY <1>7, <2>1
<1>15. CASE platform_user_create(r)
  <2>1. PICK n \in Tenants \cup {NoTenant}, u \in Users : Audit(n, {u})
    BY <1>2, <1>15 DEF platform_user_create, Serving, Asks, Newcomers
  <2>2. QED
    BY <1>7, <2>1
<1>16. CASE WritesNothing(r)
  BY <1>8, <1>16 DEF WritesNothing, data
<1>17. QED
  BY <1>9, <1>10, <1>11, <1>12, <1>13, <1>14, <1>15, <1>16, CreatingStep DEF Handle, Well

-----------------------------------------------------------------------------
\* Every step but an entry serves one request or changes a session only.
LEMMA OtherTypes ==
  ASSUME Separate, NEW r \in Requests, Handle(r)
  PROVE  /\ tenant' \in [Tenants -> TenantStatus]
         /\ person' \in [Users -> PersonType]
         /\ member' \in [Tenants -> [Users -> MemberType]]
         /\ req' = [req EXCEPT ![r] = Served] /\ UNCHANGED <<chosen, serial>>
<1>1. /\ tenant \in [Tenants -> TenantStatus] /\ person \in [Users -> PersonType]
      /\ member \in [Tenants -> [Users -> MemberType]] /\ Asks(req[r])
  BY DEF Separate, Types
<1>2. req' = [req EXCEPT ![r] = Served] /\ UNCHANGED <<chosen, serial>>
  BY DEF Handle, WritesNothing, customer_create, customer_edit, customer_deactivate,
     customer_activate, SetCustomers, account_create, bill_create, api_bill_create,
     bill_cancel, bill_request_control_number, pay_bill, payment_query, payment_refund,
     payment_reverse, Compensate, endpoint_create, trigger_run, resolve_exception_view,
     credential_create, credential_rotate, credential_revoke,
     team_member_create, team_member_deactivate, team_member_activate, onboard, Register,
     platform_create_tenant, approve_tenant, platform_user_create, generate_batch, mark_completed, Done
<1>3. ASSUME NEW u \in Users, NewUser(u) PROVE person' \in [Users -> PersonType]
  BY <1>1, <1>3 DEF NewUser, NoPerson, PersonType
<1>4. ASSUME NEW n \in Tenants, NEW u \in Users, NEW role \in TenantRole, Join(n, u, role)
      PROVE  member' \in [Tenants -> [Users -> MemberType]]
  BY <1>1, <1>4 DEF Join, MemberType
<1>5. ASSUME NEW n \in Tenants, NEW status \in {"pending", "active"}, Register(n, status)
      PROVE  /\ tenant' \in [Tenants -> TenantStatus] /\ person' \in [Users -> PersonType]
             /\ member' \in [Tenants -> [Users -> MemberType]]
  <2>1. PICK u \in Users : NewUser(u) /\ Join(n, u, "tenant_admin")
    BY <1>5 DEF Register, Newcomers
  <2>2. tenant' = [tenant EXCEPT ![n] = status] /\ status \in TenantStatus
    BY <1>5 DEF Register, TenantStatus
  <2>3. QED
    BY <1>1, <1>3, <1>4, <2>1, <2>2 DEF TenantRole
<1>6. CASE onboard(r) \/ platform_create_tenant(r)
  BY <1>2, <1>5, <1>6 DEF onboard, platform_create_tenant
<1>7. CASE team_member_create(r)
  <2>1. PICK u \in Users, role \in TenantRole :
          Serving(r, {"team_member_create"}) /\ NewUser(u) /\ Join(req[r].tenant, u, role) /\ tenant' = tenant
    BY <1>7 DEF team_member_create, Newcomers
  <2>2. req[r].tenant \in Tenants
    BY <1>1, <2>1 DEF Asks, Serving, TenantViews
  <2>3. QED
    BY <1>1, <1>2, <1>3, <1>4, <2>1, <2>2
<1>8. CASE team_member_deactivate(r) \/ team_member_activate(r)
  <2>1. PICK u \in req[r].on, flag \in BOOLEAN :
          /\ Serving(r, {"team_member_deactivate", "team_member_activate"})
          /\ member' = [member EXCEPT ![req[r].tenant][u].active = flag]
    BY <1>8 DEF team_member_deactivate, team_member_activate, Serving
  <2>2. req[r].tenant \in Tenants /\ u \in Users
    BY <1>1, <2>1 DEF Asks, Serving, TenantViews
  <2>3. member[req[r].tenant][u] \in MemberType
    BY <1>1, <2>2
  <2>4. [member[req[r].tenant][u] EXCEPT !.active = flag] \in MemberType
    BY <2>3 DEF MemberType
  <2>5. member' \in [Tenants -> [Users -> MemberType]]
    BY <1>1, <2>1, <2>2, <2>4
  <2>6. UNCHANGED <<tenant, person>>
    BY <1>8 DEF team_member_deactivate, team_member_activate
  <2>7. QED
    BY <1>1, <1>2, <2>5, <2>6
<1>9. CASE approve_tenant(r)
  BY <1>1, <1>2, <1>9 DEF approve_tenant, TenantStatus
<1>10. CASE platform_user_create(r)
  <2>1. PICK u \in Users, n \in req[r].on :
          /\ Serving(r, {"platform_user_create"}) /\ tenant' = tenant
          /\ \/ \E role \in Granted \cap TenantRole : NewUser(u) /\ Join(n, u, role) /\ Audit(n, {u})
             \/ \E role \in Granted \cap PlatformRole :
                  /\ person' = [person EXCEPT ![u] =
                                  [exists |-> TRUE, staff |-> TRUE, super |-> FALSE, roles |-> {role}]]
                  /\ Audit(NoTenant, {u})
                  /\ UNCHANGED member
    BY <1>10 DEF platform_user_create, Newcomers
  <2>2. n \in Tenants
    BY <1>1, <2>1 DEF Asks, Serving
  <2>3. ASSUME NEW role \in TenantRole, NewUser(u) /\ Join(n, u, role)
        PROVE  person' \in [Users -> PersonType] /\ member' \in [Tenants -> [Users -> MemberType]]
    BY <1>3, <1>4, <2>2, <2>3
  <2>4. ASSUME NEW role \in PlatformRole,
               person' = [person EXCEPT ![u] = [exists |-> TRUE, staff |-> TRUE, super |-> FALSE, roles |-> {role}]],
               member' = member
        PROVE  person' \in [Users -> PersonType] /\ member' \in [Tenants -> [Users -> MemberType]]
    BY <1>1, <2>4 DEF PersonType
  <2>5. QED
    BY <1>1, <1>2, <2>1, <2>3, <2>4
<1>11. ASSUME ~onboard(r), ~platform_create_tenant(r), ~team_member_create(r), ~team_member_deactivate(r),
              ~team_member_activate(r), ~approve_tenant(r), ~platform_user_create(r)
       PROVE  UNCHANGED <<tenant, person, member>>
  BY <1>11 DEF Handle, WritesNothing, customer_create, customer_edit, customer_deactivate,
     customer_activate, SetCustomers, account_create, bill_create, api_bill_create,
     bill_cancel, bill_request_control_number, pay_bill, payment_query, payment_refund,
     payment_reverse, Compensate, endpoint_create, trigger_run, resolve_exception_view,
     credential_create, credential_rotate, credential_revoke, generate_batch, mark_completed, data
<1>12. QED
  BY <1>1, <1>2, <1>6, <1>7, <1>8, <1>9, <1>10, <1>11

\* A handler keeps every row, record and lookup inside its tenant.
LEMMA HandleStep ==
  ASSUME Separate, NEW r \in Requests, Handle(r)
  PROVE  Separate'
<1>1. RowsMove /\ CredentialsMove /\ TrailMoves
  BY RowsStep, CredentialsStep, TrailStep
<1>2. req' = [req EXCEPT ![r] = Served] /\ UNCHANGED <<chosen, serial>>
  BY OtherTypes
<1>3. NoTenant \notin Tenants
  BY PortalAssumption
<1>4. \A q \in Requests : q # r => req'[q] = req[q]
  BY <1>2 DEF Separate, Types
<1>5. DOMAIN req' = Requests /\ req'[r] = Served
  BY <1>2 DEF Separate, Types
<1>6. Asks(Served) /\ Served.on = {}
  BY PortalAssumption DEF Asks, Served, Waiting, View, OnKind, TenantViews, ApiViews
<1>7. Types'
  <2>1. \A q \in Requests : Asks(req'[q])
    BY <1>4, <1>5, <1>6 DEF Separate, Types
  <2>2. trail' \subseteq [tenant : Tenants \cup {NoTenant}, on : Target]
    BY <1>1 DEF TrailMoves, Separate, Types
  <2>3. /\ chosen' \in [Users -> Tenants \cup {NoTenant}] /\ serial' \in BOOLEAN
    BY <1>2 DEF Separate, Types
  <2>4. row' \in [Rows -> RowType] /\ credential' \in [Credentials -> CredentialType]
    BY <1>1 DEF RowsMove, Sound, CredentialsMove
  <2>5. (\A q \in Requests : Asks(req[q]))'
    BY <2>1 DEF Asks, OnKind, View, Target
  <2>6. QED
    BY <1>5, <2>2, <2>3, <2>4, <2>5, OtherTypes DEF Types, RowType, CredentialType, PersonType, MemberType, Target
<1>8. \A x \in Rows : row[x].tenant # NoTenant => row'[x].tenant = row[x].tenant
  BY <1>1 DEF RowsMove, Stays
<1>9. Sound(row)'
  BY <1>1 DEF RowsMove, Sound, RowType
<1>10. Traced'
  <2>1. ASSUME NEW e \in trail'
        PROVE  /\ e.on \in Rows => row'[e.on].tenant = e.tenant /\ e.tenant # NoTenant
               /\ e.on \in Credentials => credential'[e.on].tenant = e.tenant /\ e.tenant # NoTenant
    <3>1. CASE e \in trail
      <4>1. /\ e.on \in Rows => row[e.on].tenant = e.tenant /\ e.tenant # NoTenant
            /\ e.on \in Credentials => credential[e.on].tenant = e.tenant /\ e.tenant # NoTenant
        BY <3>1 DEF Separate, Traced
      <4>2. QED
        BY <1>1, <1>8, <4>1 DEF CredentialsMove
    <3>2. CASE e \notin trail
      BY <1>1, <3>2 DEF TrailMoves
    <3>3. QED
      BY <3>1, <3>2
  <2>2. QED
    BY <2>1 DEF Traced
<1>11. Looked'
  <2>1. ASSUME NEW q \in Requests, NEW x \in req'[q].on
        PROVE  /\ req'[q].view \in DOMAIN TenantViews \cup ApiViews =>
                    /\ x \in Rows => row'[x].tenant = req'[q].tenant
                    /\ x \in Credentials => credential'[x].tenant = req'[q].tenant
               /\ req'[q].view = "mark_completed" => row'[x].tenant # NoTenant
    <3>1. q # r /\ req'[q] = req[q]
      BY <1>4, <1>5, <1>6, <2>1
    <3>2. /\ req[q].view \in DOMAIN TenantViews \cup ApiViews =>
               /\ req[q].tenant # NoTenant
               /\ x \in Rows => row[x].tenant = req[q].tenant
               /\ x \in Credentials => credential[x].tenant = req[q].tenant
          /\ req[q].view = "mark_completed" => x \in Rows /\ row[x].tenant # NoTenant
      BY <1>3, <2>1, <3>1 DEF Separate, Types, Looked, Asks, OnKind
    <3>3. QED
      BY <1>1, <1>8, <3>1, <3>2 DEF CredentialsMove
  <2>2. QED
    BY <2>1 DEF Looked
<1>12. QED
  BY <1>7, <1>9, <1>10, <1>11 DEF Separate

\* A request enters with what the lookups of its tenant found.
LEMMA EnterStep ==
  ASSUME Separate, NEW r \in Requests, EnterView(r)
  PROVE  Separate'
<1>1. NoTenant \notin Tenants /\ Rows \cap Credentials = {} /\ Rows \cap Users = {} /\ Credentials \cap Users = {}
  BY PortalAssumption
<1>2. ASSUME NEW view, NEW by, NEW n, NEW S, Enter(r, view, by, n, S),
             Asks([view |-> view, by |-> by, tenant |-> n, on |-> S, active |-> FlagRead(S)]),
             \A x \in S : /\ view \in DOMAIN TenantViews \cup ApiViews =>
                               /\ x \in Rows => row[x].tenant = n
                               /\ x \in Credentials => credential[x].tenant = n
                          /\ view = "mark_completed" => row[x].tenant # NoTenant
      PROVE  Separate'
  <2> DEFINE q == [view |-> view, by |-> by, tenant |-> n, on |-> S, active |-> FlagRead(S)]
  <2>1. Asks(q) /\ q.view = view /\ q.on = S /\ q.tenant = n
    BY <1>2
  <2>2. req' = [req EXCEPT ![r] = q] /\ UNCHANGED <<data, chosen, serial>>
    BY <1>2 DEF Enter
  <2> HIDE DEF q
  <2>3. UNCHANGED <<tenant, person, member, row, credential, trail, chosen, serial>>
    BY <2>2 DEF data
  <2>4. \A p \in Requests : Asks(req'[p])
    BY <2>1, <2>2 DEF Separate, Types
  <2>5. (\A p \in Requests : Asks(req[p]))'
    BY <2>4 DEF Asks, OnKind, View, Target
  <2>6. Types'
    BY <2>2, <2>3, <2>5 DEF Separate, Types
  <2>7. Sound(row)' /\ Traced'
    BY <2>3 DEF Separate, Sound, RowType, Traced
  <2>8. Looked'
    BY <1>2, <2>1, <2>2, <2>3 DEF Separate, Types, Looked
  <2>9. QED
    BY <2>6, <2>7, <2>8 DEF Separate
<1>3. ASSUME NEW view \in DOMAIN TenantViews \cup ApiViews, NEW n \in Tenants, NEW S \in LookedUp(view, n),
             NEW x \in S
      PROVE  /\ x \in Rows => row[x].tenant = n
             /\ x \in Credentials => credential[x].tenant = n
             /\ view # "mark_completed"
  <2>1. view # "mark_completed"
    BY DEF TenantViews, ApiViews
  <2>2. ASSUME NEW kind, S \in Singles(kind, n) PROVE x \in Rows /\ row[x].tenant = n
    BY <2>2 DEF Singles, Owned
  <2>3. CASE view = "pay_bill"
    <3>1. x \in Rows /\ \E b \in row[x].links : row[b].tenant = n
      BY <2>3 DEF LookedUp, Under, Owned
    <3>2. QED
      BY <1>1, <2>1, <3>1 DEF Separate, Sound
  <2>4. CASE view # "pay_bill"
    BY <1>1, <2>1, <2>2, <2>4 DEF LookedUp, Owned, TenantViews, ApiViews
  <2>5. QED
    BY <2>3, <2>4
<1>4. CASE EnterTenantView(r)
  <2>1. PICK u \in Users, view \in DOMAIN TenantViews :
          /\ HasTenantRole(u, Resolve(u), TenantViews[view])
          /\ \E S \in LookedUp(view, Resolve(u)) : Enter(r, view, u, Resolve(u), S)
    BY <1>4 DEF EnterTenantView
  <2>2. PICK S \in LookedUp(view, Resolve(u)) : Enter(r, view, u, Resolve(u), S)
    BY <2>1
  <2>3. Resolve(u) \in Tenants
    BY <2>1 DEF HasTenantRole, IsMember
  <2> DEFINE n == Resolve(u)
  <2>4. n \in Tenants /\ S \in LookedUp(view, n) /\ Enter(r, view, u, n, S)
    BY <2>2, <2>3
  <2> HIDE DEF n
  <2>5. Asks([view |-> view, by |-> u, tenant |-> n, on |-> S, active |-> FlagRead(S)])
    BY <2>4, LookupTypes DEF Separate
  <2>6. QED
    BY <1>2, <1>3, <2>4, <2>5
<1>5. CASE EnterApi(r)
  <2>1. PICK c \in Credentials, view \in ApiViews :
          /\ credential[c].tenant # NoTenant
          /\ \E S \in LookedUp(view, credential[c].tenant) : Enter(r, view, c, credential[c].tenant, S)
    BY <1>5 DEF EnterApi, Authenticates
  <2> DEFINE n == credential[c].tenant
  <2>2. PICK S \in LookedUp(view, n) : Enter(r, view, c, n, S)
    BY <2>1
  <2>3. n \in Tenants
    BY <2>1 DEF Separate, Types, CredentialType
  <2> HIDE DEF n
  <2>4. Asks([view |-> view, by |-> c, tenant |-> n, on |-> S, active |-> FlagRead(S)])
    BY <2>2, <2>3, LookupTypes DEF Separate
  <2>5. QED
    BY <1>2, <1>3, <2>2, <2>3, <2>4
<1>6. CASE EnterPlatformView(r)
  <2>1. PICK u \in Users, view \in DOMAIN PlatformViews :
          \E S \in PlatformLookedUp(view) : Enter(r, view, u, NoTenant, S)
    BY <1>6 DEF EnterPlatformView
  <2>2. view \notin DOMAIN TenantViews \cup ApiViews
    BY DEF PlatformViews, TenantViews, ApiViews
  <2>3. ASSUME NEW S \in PlatformLookedUp(view), NEW x \in S, view = "mark_completed"
        PROVE  row[x].tenant # NoTenant
    BY <2>3 DEF PlatformLookedUp, platform_batch_list, OfAll
  <2>4. QED
    BY <1>2, <2>1, <2>2, <2>3, PlatformLookupTypes DEF Separate
<1>7. QED
  BY <1>4, <1>5, <1>6 DEF EnterView

-----------------------------------------------------------------------------
\* The rows that are there at first hang together.
LEMMA InitSeparate == Init => Separate
<1> SUFFICES ASSUME Init PROVE Separate
  OBVIOUS
<1>1. ASSUME NEW x \in Rows, NEW y \in row[x].links
      PROVE  row[x].tenant # NoTenant /\ row[y].tenant = row[x].tenant /\ KindOf[y] \in LinkKinds[KindOf[x]]
  <2>1. x \in DOMAIN Stored
    BY <1>1 DEF Init, Absent
  <2>2. row[x].tenant = Stored[x] /\ row[x].links = StoredUnder[x] /\ Stored[x] # NoTenant
    BY <2>1, PortalAssumption DEF Init
  <2>3. y \in DOMAIN Stored /\ KindOf[y] \in LinkKinds[KindOf[x]] /\ Stored[y] = Stored[x]
    BY <1>1, <2>1, <2>2, PortalAssumption
  <2>4. row[y].tenant = Stored[y]
    BY <2>3, PortalAssumption DEF Init
  <2>5. QED
    BY <2>2, <2>3, <2>4
<1>2. Traced /\ Looked
  BY DEF Init, Traced, Looked, Waiting
<1>3. QED
  BY <1>1, <1>2, InitTypes DEF Separate, Sound, Types

LEMMA SeparateStep == Separate /\ [Next]_vars => Separate'
<1> SUFFICES ASSUME Separate, [Next]_vars PROVE Separate'
  OBVIOUS
<1>1. ASSUME UNCHANGED <<data, req, serial>>, chosen' \in [Users -> Tenants \cup {NoTenant}] PROVE Separate'
  <2>1. UNCHANGED <<tenant, person, member, row, credential, trail, req, serial>>
    BY <1>1 DEF data
  <2>2. (\A r \in Requests : Asks(req[r])) => (\A r \in Requests : Asks(req[r]))'
    BY <2>1 DEF Asks, OnKind, View, Target
  <2>3. Types'
    BY <1>1, <2>1, <2>2 DEF Separate, Types
  <2>4. Sound(row)' /\ Traced' /\ Looked'
    BY <2>1 DEF Separate, Sound, RowType, Traced, Looked
  <2>5. QED
    BY <2>3, <2>4 DEF Separate
<1>2. chosen \in [Users -> Tenants \cup {NoTenant}]
  BY DEF Separate, Types
<1>3. ASSUME NEW u \in Users, dashboard_router(u) \/ DropStaleSession(u) PROVE Separate'
  BY <1>1, <1>2, <1>3 DEF dashboard_router, DropStaleSession
<1>4. CASE UNCHANGED vars
  BY <1>1, <1>2, <1>4 DEF vars, data
<1>5. QED
  BY <1>3, <1>4, HandleStep, EnterStep DEF Next

LEMMA SeparateInvariance == Spec => []Separate
BY InitSeparate, SeparateStep, PTL DEF Spec

\* The tables and the requests in progress stay well-typed.
THEOREM TypeCorrect == Spec => []TypeOK
<1>1. Separate => TypeOK
  BY DEF Separate, Types, TypeOK, Asks, View, RowType, CredentialType, PersonType, MemberType, Target
<1>2. QED
  BY <1>1, SeparateInvariance, PTL

\* No lookup of any request leads out of its tenant, for any tenants and rows.
THEOREM NoLookupLeavesTheTenant == Spec => []TenantsAreSeparate
<1>1. Separate => TenantsAreSeparate
  BY DEF Separate, Sound, Traced, Looked, TenantsAreSeparate
<1>2. QED
  BY <1>1, SeparateInvariance, PTL

\* What a page collects stays in the tenant: its own rows, those that refer to
\* them, and those they refer to.
In(S, n) == S \subseteq Rows /\ \A x \in S : row[x].tenant = n

LEMMA CollectedInside ==
  ASSUME Separate, NEW n \in Tenants
  PROVE  /\ \A kind : In(Owned(kind, n), n)
         /\ \A kind, S : In(S, n) => In(Under(kind, S), n)
         /\ \A kind, S : In(S, n) => In(Over(kind, S), n)
<1>1. \A kind : In(Owned(kind, n), n)
  BY DEF In, Owned
<1>2. ASSUME NEW kind, NEW S, In(S, n) PROVE In(Under(kind, S), n)
  BY <1>2 DEF In, Under, Separate, Sound
<1>3. ASSUME NEW kind, NEW S, In(S, n) PROVE In(Over(kind, S), n)
  <2>1. ASSUME NEW x \in Over(kind, S) PROVE x \in Rows /\ row[x].tenant = n
    <3>1. PICK y \in S : x \in row[y].links
      BY DEF Over
    <3>2. QED
      BY <1>3, <3>1 DEF In, Separate, Sound, RowType
  <2>2. QED
    BY <2>1 DEF In
<1>4. QED
  BY <1>1, <1>2, <1>3

LEMMA PagesInside ==
  ASSUME Separate, NEW n \in Tenants
  PROVE  In(MemberPages(n), n) /\ In(HookPages(n), n) /\ In(ApiPages(n), n)
<1>1. /\ \A kind : In(Owned(kind, n), n)
      /\ \A kind, S : In(S, n) => In(Under(kind, S), n)
      /\ \A kind, S : In(S, n) => In(Over(kind, S), n)
  BY CollectedInside
<1>2. \A S, T : In(S, n) /\ In(T, n) => In(S \cup T, n)
  BY DEF In
<1>3. \A S : In(S, n) => In(Holders(S), n) /\ In(Paid(S), n)
  BY <1>1, <1>2, Zenon DEF Holders, Paid
<1>4. In(customer_list(n), n) /\ In(customer_detail(n), n) /\ In(search_customers(n), n)
  BY <1>1, <1>2, Zenon DEF customer_list, customer_detail, search_customers
<1>5. /\ In(bill_list(n), n) /\ In(bill_detail(n), n) /\ In(search_bills(n), n)
      /\ In(control_number_list(n), n)
  BY <1>1, <1>2, <1>3, Zenon DEF bill_list, bill_detail, search_bills, control_number_list
<1>6. In(payment_list(n), n) /\ In(payment_detail(n), n)
  BY <1>1, <1>2, Zenon DEF payment_list, payment_detail
<1>7. /\ In(receipt_list(n), n) /\ In(receipt_detail(n), n) /\ In(ledger_list(n), n)
      /\ In(notification_list(n), n) /\ In(run_list(n), n) /\ In(batch_list(n), n)
      /\ In(tenant_revenue_summary(n), n) /\ In(topbar_alerts(n), n)
  BY <1>1, <1>2, Zenon DEF receipt_list, receipt_detail, ledger_list, notification_list, run_list,
     batch_list, tenant_revenue_summary, topbar_alerts
<1>8. In(run_detail(n), n) /\ In(batch_detail(n), n) /\ In(background_jobs(n), n)
  BY <1>1, <1>2, Zenon DEF run_detail, batch_detail, background_jobs
<1>9. In(dashboard(n), n)
  BY <1>1 DEF dashboard, In
<1>10. In(command_palette_search(n), n)
  BY <1>2, <1>4, <1>5 DEF command_palette_search
<1>11. /\ In(bills_report(n), n) /\ In(payments_report(n), n) /\ In(collections_report(n), n)
       /\ In(outstanding_balances_report(n), n)
  BY <1>1, <1>2, <1>3, Zenon DEF bills_report, payments_report, collections_report, outstanding_balances_report
<1>12. In(MemberPages(n), n)
  BY <1>4, <1>5, <1>6, <1>7, <1>8, <1>9, <1>10, <1>11 DEF MemberPages, In
<1>13. In(endpoint_list(n), n) /\ In(endpoint_deliveries(n), n)
  BY <1>1, <1>2, Zenon DEF endpoint_list, endpoint_deliveries
<1>14. In(HookPages(n), n)
  BY <1>2, <1>13 DEF HookPages
<1>15. /\ In(ApiCustomers(n), n) /\ In(ApiAccounts(n), n) /\ In(ApiBills(n), n) /\ In(ApiPayments(n), n)
  BY <1>1, <1>2, <1>3, Zenon DEF ApiCustomers, ApiAccounts, ApiBills, ApiPayments
<1>16. In(ApiRuns(n), n) /\ In(ApiBatches(n), n) /\ In(ApiEndpoints(n), n) /\ In(ApiNotifications(n), n)
  BY <1>1 DEF ApiRuns, ApiBatches, ApiEndpoints, ApiNotifications
<1>17. In(ApiPages(n), n)
  BY <1>15, <1>16 DEF ApiPages, In
<1>18. QED
  BY <1>12, <1>14, <1>17

\* Whatever a page shows to a user or counts for them is their tenant's, unless
\* they are staff or settle, and then of the kinds that those may see; the API
\* and the timelines keep to the tenant.
THEOREM NoPageLeavesTheTenant == Spec => []PagesStayInside
<1>1. ASSUME Separate PROVE PagesStayInside
  <2>1. ASSUME NEW u \in Users, NEW x \in Readable(u)
        PROVE  \/ IsMember(u, TenantOf(x))
               \/ person[u].staff /\ x \in OfAll({"payment", "revenue", "exception"})
               \/ HasPlatformRole(u, CanSettle) /\ x \in OfAll({"batch", "revenue"})
    <3> DEFINE n == Resolve(u)
    <3>1. n # NoTenant => n \in Tenants /\ IsMember(u, n)
      BY DEF Resolve, IsMember
    <3>2. \A roles : HasTenantRole(u, n, roles) => n \in Tenants /\ IsMember(u, n)
      BY DEF HasTenantRole, IsMember
    <3>3. \/ x \in MemberPages(n) /\ n # NoTenant
          \/ x \in HookPages(n) /\ HasTenantRole(u, n, CanHook)
          \/ x \in credential_list(n) /\ HasTenantRole(u, n, AdminOnly)
          \/ x \in platform_dashboard /\ person[u].staff
          \/ x \in platform_batch_list \cup platform_revenue_dashboard /\ HasPlatformRole(u, CanSettle)
      BY <2>1 DEF Readable
    <3>4. ASSUME x \in platform_batch_list \cup platform_revenue_dashboard PROVE x \in OfAll({"batch", "revenue"})
      BY <3>4 DEF platform_batch_list, platform_revenue_dashboard, OfAll
    <3>5. Rows \cap Credentials = {}
      BY PortalAssumption
    <3> HIDE DEF n
    <3>6. x \in MemberPages(n) \cup HookPages(n) /\ n \in Tenants => TenantOf(x) = n
      BY <1>1, <3>5, PagesInside DEF In, TenantOf
    <3>7. x \in credential_list(n) => TenantOf(x) = n
      BY DEF credential_list, TenantOf
    <3>8. QED
      BY <3>1, <3>2, <3>3, <3>4, <3>6, <3>7 DEF platform_dashboard
  <2>2. ASSUME NEW c \in Credentials, credential[c].tenant # NoTenant, NEW x \in ApiPages(credential[c].tenant)
        PROVE  row[x].tenant = credential[c].tenant
    <3>1. credential[c].tenant \in Tenants
      BY <1>1, <2>2 DEF Separate, Types, CredentialType
    <3>2. QED
      BY <1>1, <2>2, <3>1, PagesInside DEF In
  <2>3. ASSUME NEW n \in Tenants PROVE Activity(n) \subseteq audit_report(n)
    BY <1>1 DEF Activity, audit_report, Owned, Separate, Traced
  <2>4. QED
    BY <2>1, <2>2, <2>3 DEF PagesStayInside
<1>2. QED
  BY <1>1, SeparateInvariance, PTL

-----------------------------------------------------------------------------
(* What a request has read still holds when it writes, if no other request  *)
(* is in between.                                                           *)

Busy(r)     == req[r].view \notin {"waiting", "served"}
Admin(u, n) == IsMember(u, n) /\ member[n][u].role = "tenant_admin"

\* a membership is that of a user that exists
Strangers == \A u \in Users : ~person[u].exists => \A n \in Tenants : member[n][u] = NoMember

\* whom and what a request has looked up stays there
Known == \A r \in Requests :
  /\ req[r].view \in {"team_member_deactivate", "team_member_activate"} =>
       \A u \in req[r].on : person[u].exists
  /\ req[r].view = "approve_tenant" => \A n \in req[r].on : tenant[n] # "absent"

Alone == \A r, q \in Requests : Busy(r) /\ Busy(q) => r = q

ReadsHold == \A r \in Requests :
  /\ req[r].view = "team_member_deactivate" => req[r].by \in Users /\ Admin(req[r].by, req[r].tenant)
  /\ req[r].view = "customer_edit" => \A x \in req[r].on : req[r].active => row[x].active

Staffed == \A n \in Tenants : tenant[n] # "absent" => \E u \in Users : Admin(u, n)

Sequential == Separate /\ Strangers /\ Known /\ (serial => Alone /\ ReadsHold /\ Staffed)

LEMMA InitSequential == Init => Sequential
<1> SUFFICES ASSUME Init PROVE Sequential
  OBVIOUS
<1>1. Strangers
  BY DEF Init, Strangers
<1>2. Known /\ Alone /\ ReadsHold
  BY DEF Init, Known, Alone, Busy, ReadsHold, Waiting
<1>3. ASSUME NEW n \in Tenants, tenant[n] # "absent" PROVE \E u \in Users : Admin(u, n)
  <2>1. n \in DOMAIN Registered
    BY <1>3 DEF Init
  <2>2. PICK h \in Hired : h.tenant = n /\ h.role = "tenant_admin"
    BY <2>1, PortalAssumption
  <2>3. h.user \in Users
    BY PortalAssumption
  <2> DEFINE c == CHOOSE g \in Hired : g.user = h.user /\ g.tenant = n
  <2>4. member[n][h.user] = [role |-> c.role, active |-> TRUE]
    BY <2>2, <2>3 DEF Init
  <2>5. \A g \in Hired : g.user = h.user /\ g.tenant = n => g = h
    BY <2>2, PortalAssumption
  <2>6. c = h
    BY <2>2, <2>5
  <2> HIDE DEF c
  <2>7. member[n][h.user].role = "tenant_admin" /\ member[n][h.user].active
    BY <2>2, <2>4, <2>6
  <2>8. Admin(h.user, n)
    BY <2>7 DEF Admin, IsMember
  <2>9. QED
    BY <2>3, <2>8
<1>4. QED
  BY <1>1, <1>2, <1>3, InitSeparate DEF Sequential, Staffed

\* what a writing step may do to users, memberships and tenants
PeopleMove ==
  /\ \A u \in Users : person[u].exists => person'[u].exists
  /\ \A n \in Tenants : tenant[n] # "absent" => tenant'[n] # "absent"
  /\ \A u \in Users : ~person'[u].exists => \A n \in Tenants : member'[n][u] = member[n][u]

LEMMA NewcomerJoins ==
  ASSUME Sequential, NEW u \in Newcomers, NEW n \in Tenants, NEW role \in TenantRole,
         NewUser(u), Join(n, u, role)
  PROVE  /\ \A v \in Users : person[v].exists => person'[v].exists
         /\ \A v \in Users : ~person'[v].exists => \A m \in Tenants : member'[m][v] = member[m][v]
         /\ \A v \in Users, m \in Tenants : Admin(v, m) => Admin(v, m)'
         /\ role = "tenant_admin" => Admin(u, n)'
<1>1. u \in Users /\ ~person[u].exists /\ person'[u].exists
  BY DEF Newcomers, NewUser, NoPerson, Sequential, Separate, Types
<1>2. \A v \in Users : v # u => person'[v] = person[v]
  BY DEF NewUser, Sequential, Separate, Types
<1>3. member' = [member EXCEPT ![n] = [member[n] EXCEPT ![u] = [role |-> role, active |-> TRUE]]]
  BY DEF Join
<1>4. \A v \in Users, m \in Tenants :
        member'[m][v] = IF v = u /\ m = n THEN [role |-> role, active |-> TRUE] ELSE member[m][v]
  BY <1>1, <1>3 DEF Sequential, Separate, Types
<1>5. \A m \in Tenants : ~member[m][u].active
  BY <1>1 DEF Sequential, Strangers, NoMember
<1>6. \A v \in Users, m \in Tenants : Admin(v, m) => Admin(v, m)'
  BY <1>4, <1>5 DEF Admin, IsMember
<1>7. role = "tenant_admin" => Admin(u, n)'
  BY <1>1, <1>4 DEF Admin, IsMember
<1>8. QED
  BY <1>1, <1>2, <1>4, <1>6, <1>7

\* Only these views write users, memberships or tenants.
LEMMA OthersKeepPeople ==
  ASSUME NEW r \in Requests, Handle(r),
         ~team_member_create(r), ~team_member_deactivate(r), ~team_member_activate(r), ~onboard(r),
         ~platform_create_tenant(r), ~approve_tenant(r), ~platform_user_create(r)
  PROVE  UNCHANGED <<tenant, person, member>>
BY DEF Handle, WritesNothing, customer_create, customer_edit, customer_deactivate,
   customer_activate, SetCustomers, account_create, bill_create, api_bill_create,
   bill_cancel, bill_request_control_number, pay_bill, payment_query, payment_refund,
     payment_reverse, Compensate, endpoint_create, trigger_run, resolve_exception_view,
   credential_create, credential_rotate, credential_revoke, generate_batch, mark_completed, data

\* Nobody is forgotten, and no tenant loses its last administrator.
LEMMA PeopleStep ==
  ASSUME Sequential, NEW r \in Requests, Handle(r)
  PROVE  PeopleMove /\ (serial => Staffed')
<1>1. Asks(req[r]) /\ member \in [Tenants -> [Users -> MemberType]]
  BY DEF Sequential, Separate, Types
<1>2. ASSUME UNCHANGED <<tenant, person, member>> PROVE PeopleMove /\ (serial => Staffed')
  BY <1>2 DEF PeopleMove, Sequential, Staffed, Admin, IsMember
<1>3. ASSUME NEW u \in Newcomers, NEW n \in Tenants, NEW role \in TenantRole, NewUser(u), Join(n, u, role),
             tenant' = tenant
      PROVE  PeopleMove /\ (serial => Staffed')
  <2>1. PeopleMove
    BY <1>3, NewcomerJoins DEF PeopleMove
  <2>2. \A v \in Users, m \in Tenants : Admin(v, m) => Admin(v, m)'
    BY <1>3, NewcomerJoins
  <2>3. QED
    BY <1>3, <2>1, <2>2 DEF Sequential, Staffed
<1>4. CASE team_member_create(r)
  <2>1. req[r].tenant \in Tenants
    BY <1>1, <1>4 DEF team_member_create, Serving, Asks, TenantViews
  <2>2. PICK u \in Newcomers, role \in TenantRole : NewUser(u) /\ Join(req[r].tenant, u, role)
    BY <1>4 DEF team_member_create
  <2>3. tenant' = tenant
    BY <1>4 DEF team_member_create
  <2>4. QED
    BY <1>3, <2>1, <2>2, <2>3
<1>5. ASSUME NEW n \in Tenants, NEW status \in {"pending", "active"}, Register(n, status)
      PROVE  PeopleMove /\ (serial => Staffed')
  <2>1. PICK u \in Newcomers : NewUser(u) /\ Join(n, u, "tenant_admin")
    BY <1>5 DEF Register
  <2>2. "tenant_admin" \in TenantRole /\ u \in Users
    BY DEF TenantRole, Newcomers
  <2>3. tenant' = [tenant EXCEPT ![n] = status] /\ status # "absent"
    BY <1>5 DEF Register
  <2>4. \A m \in Tenants : m # n => tenant'[m] = tenant[m]
    BY <2>3 DEF Sequential, Separate, Types
  <2>5. PeopleMove
    <3>1. \A m \in Tenants : tenant[m] # "absent" => tenant'[m] # "absent"
      BY <2>3 DEF Sequential, Separate, Types
    <3>2. QED
      BY <2>1, <2>2, <3>1, NewcomerJoins DEF PeopleMove
  <2>6. Admin(u, n)' /\ \A v \in Users, m \in Tenants : Admin(v, m) => Admin(v, m)'
    BY <2>1, <2>2, NewcomerJoins
  <2>7. QED
    BY <2>2, <2>4, <2>5, <2>6 DEF Sequential, Staffed
<1>6. CASE onboard(r) \/ platform_create_tenant(r)
  BY <1>5, <1>6 DEF onboard, platform_create_tenant
<1>7. CASE platform_user_create(r)
  <2>1. PICK u \in Newcomers, n \in req[r].on :
          \/ \E role \in TenantRole : NewUser(u) /\ Join(n, u, role)
          \/ /\ \E role \in PlatformRole : person' = [person EXCEPT ![u] =
                    [exists |-> TRUE, staff |-> TRUE, super |-> FALSE, roles |-> {role}]]
             /\ UNCHANGED member
    BY <1>7 DEF platform_user_create
  <2>2. n \in Tenants /\ tenant' = tenant
    BY <1>1, <1>7, <2>1 DEF platform_user_create, Serving, Asks
  <2>3. CASE \E role \in TenantRole : NewUser(u) /\ Join(n, u, role)
    BY <1>3, <2>2, <2>3
  <2>4. CASE /\ \E role \in PlatformRole : person' = [person EXCEPT ![u] =
                    [exists |-> TRUE, staff |-> TRUE, super |-> FALSE, roles |-> {role}]]
             /\ UNCHANGED member
    <3>1. \A v \in Users : person[v].exists => person'[v].exists
      BY <2>4 DEF Sequential, Separate, Types
    <3>2. QED
      BY <2>2, <2>4, <3>1 DEF PeopleMove, Sequential, Staffed, Admin, IsMember
  <2>5. QED
    BY <2>1, <2>3, <2>4
<1>8. CASE approve_tenant(r)
  <2>1. PICK n \in req[r].on : Serving(r, {"approve_tenant"}) /\ tenant' = [tenant EXCEPT ![n] = "active"]
    BY <1>8 DEF approve_tenant
  <2>2. n \in Tenants /\ tenant[n] # "absent"
    BY <1>1, <2>1 DEF Serving, Asks, Sequential, Known
  <2>3. \A m \in Tenants : tenant'[m] # "absent" <=> tenant[m] # "absent"
    BY <2>1, <2>2 DEF Sequential, Separate, Types
  <2>4. UNCHANGED <<person, member>>
    BY <1>8 DEF approve_tenant
  <2>5. QED
    BY <2>3, <2>4 DEF PeopleMove, Sequential, Staffed, Admin, IsMember
<1>9. ASSUME NEW u \in req[r].on, NEW flag \in BOOLEAN, UNCHANGED <<tenant, person>>,
             member' = [member EXCEPT ![req[r].tenant][u].active = flag],
             req[r].view \in {"team_member_deactivate", "team_member_activate"}
      PROVE  /\ u \in Users /\ req[r].tenant \in Tenants
             /\ \A v \in Users, m \in Tenants : member'[m][v] =
                  IF v = u /\ m = req[r].tenant THEN [member[m][v] EXCEPT !.active = flag] ELSE member[m][v]
             /\ PeopleMove
  <2>1. u \in Users /\ req[r].tenant \in Tenants /\ person[u].exists
    BY <1>1, <1>9 DEF Asks, TenantViews, Sequential, Known
  <2> DEFINE n == req[r].tenant
             e == [member[n][u] EXCEPT !.active = flag]
  <2>2. member' = [member EXCEPT ![n] = [member[n] EXCEPT ![u] = e]]
    BY <1>9
  <2> HIDE DEF n, e
  <2>3. \A v \in Users, m \in Tenants : member'[m][v] = IF v = u /\ m = n THEN e ELSE member[m][v]
    BY <1>1, <2>1, <2>2 DEF n
  <2>4. \A v \in Users : ~person'[v].exists => v # u
    BY <1>9, <2>1
  <2>5. PeopleMove
    BY <1>9, <2>3, <2>4 DEF PeopleMove
  <2>6. QED
    BY <2>1, <2>3, <2>5 DEF n, e
<1>10. CASE team_member_deactivate(r)
  <2>1. PICK u \in req[r].on :
          /\ Serving(r, {"team_member_deactivate"}) /\ u # req[r].by
          /\ member' = [member EXCEPT ![req[r].tenant][u].active = FALSE]
    BY <1>10 DEF team_member_deactivate, MayDeactivate
  <2>2. UNCHANGED <<tenant, person>>
    BY <1>10 DEF team_member_deactivate
  <2>3. FALSE \in BOOLEAN /\ req[r].view \in {"team_member_deactivate", "team_member_activate"}
    BY <2>1 DEF Serving
  <2>4. /\ PeopleMove
        /\ \A v \in Users, m \in Tenants : member'[m][v] =
             IF v = u /\ m = req[r].tenant THEN [member[m][v] EXCEPT !.active = FALSE] ELSE member[m][v]
    BY <1>9, <2>1, <2>2, <2>3, Zenon
  <2>5. /\ PeopleMove
        /\ \A v \in Users, m \in Tenants : v # u \/ m # req[r].tenant => member'[m][v] = member[m][v]
    BY <2>4
  <2>6. ASSUME serial PROVE Staffed'
    <3>1. req[r].by \in Users /\ Admin(req[r].by, req[r].tenant)
      BY <2>1, <2>6 DEF Serving, Sequential, ReadsHold
    <3>2. \A v \in Users, m \in Tenants : v # u \/ m # req[r].tenant =>
            (IsMember(v, m) /\ member[m][v].role = "tenant_admin" =>
               member'[m][v].active /\ member'[m][v].role = "tenant_admin")
      BY <2>5 DEF IsMember
    <3>3. ASSUME NEW m \in Tenants, tenant'[m] # "absent"
          PROVE  \E v \in Users : member'[m][v].active /\ member'[m][v].role = "tenant_admin"
      <4>1. CASE m = req[r].tenant
        BY <2>1, <3>1, <3>2, <4>1 DEF Admin
      <4>2. CASE m # req[r].tenant
        BY <2>2, <2>6, <3>2, <3>3, <4>2 DEF Sequential, Staffed, Admin
      <4>3. QED
        BY <4>1, <4>2
    <3>4. QED
      BY <3>3 DEF Staffed, Admin, IsMember
  <2>7. QED
    BY <2>5, <2>6
<1>11. CASE team_member_activate(r)
  <2>1. PICK u \in req[r].on :
          /\ Serving(r, {"team_member_activate"})
          /\ member' = [member EXCEPT ![req[r].tenant][u].active = TRUE]
    BY <1>11 DEF team_member_activate
  <2>2. UNCHANGED <<tenant, person>>
    BY <1>11 DEF team_member_activate
  <2>3. TRUE \in BOOLEAN /\ req[r].view \in {"team_member_deactivate", "team_member_activate"}
    BY <2>1 DEF Serving
  <2>4. /\ PeopleMove
        /\ \A v \in Users, m \in Tenants : member'[m][v] =
             IF v = u /\ m = req[r].tenant THEN [member[m][v] EXCEPT !.active = TRUE] ELSE member[m][v]
    BY <1>9, <2>1, <2>2, <2>3, Zenon
  <2>5. /\ PeopleMove
        /\ \A v \in Users, m \in Tenants : member'[m][v] \in {member[m][v], [member[m][v] EXCEPT !.active = TRUE]}
    BY <2>4
  <2>6. \A v \in Users, m \in Tenants : Admin(v, m) => Admin(v, m)'
    BY <1>1, <2>5 DEF Admin, IsMember, MemberType
  <2>7. QED
    BY <2>2, <2>5, <2>6 DEF Sequential, Staffed
<1>12. QED
  BY <1>2, <1>4, <1>6, <1>7, <1>8, <1>10, <1>11, OthersKeepPeople

\* A flag is switched on by an activation, or by an edit that has read it on.
LEMMA FlagsStep ==
  ASSUME Separate, NEW r \in Requests, Handle(r), NEW x \in Rows, ~row[x].active, row'[x].active
  PROVE  \/ req[r].view = "customer_activate"
         \/ req[r].view = "customer_edit" /\ x \in req[r].on /\ req[r].active
<1>1. row \in [Rows -> RowType]
  BY DEF Separate, Types
<1>2. customer_edit(r) \/ customer_activate(r)
  BY RowsStep DEF Grows
<1>3. CASE customer_activate(r)
  BY <1>3 DEF customer_activate, Serving
<1>4. CASE customer_edit(r)
  <2>1. PICK y \in req[r].on : Serving(r, {"customer_edit"}) /\ row' = [row EXCEPT ![y].active = req[r].active]
    BY <1>4 DEF customer_edit
  <2>2. y = x
    BY <1>1, <2>1
  <2>3. row'[x].active = req[r].active
    BY <1>1, <2>1, <2>2 DEF RowType
  <2>4. QED
    BY <2>1, <2>2, <2>3 DEF Serving
<1>5. QED
  BY <1>2, <1>3, <1>4

\* While a request writes no other is open, if they come one at a time.
LEMMA OthersWait ==
  ASSUME Sequential, serial, NEW r \in Requests, Handle(r), NEW q \in Requests, q # r
  PROVE  ~Busy(q)
<1>1. Busy(r) \/ \A p \in Requests : ~Busy(p)
  BY DEF Busy, Handle, WritesNothing, customer_create, customer_edit, customer_deactivate,
     customer_activate, SetCustomers, account_create, bill_create, api_bill_create,
     bill_cancel, bill_request_control_number, pay_bill, payment_query, payment_refund,
     payment_reverse, Compensate, endpoint_create, trigger_run, resolve_exception_view,
     credential_create, credential_rotate, credential_revoke,
     team_member_create, team_member_deactivate, team_member_activate, onboard, MayEnter,
     platform_create_tenant, approve_tenant, platform_user_create, generate_batch, mark_completed, Serving
<1>2. QED
  BY <1>1 DEF Sequential, Alone

LEMMA HandleSequential ==
  ASSUME Sequential, NEW r \in Requests, Handle(r)
  PROVE  Sequential'
<1>1. Separate' /\ PeopleMove /\ (serial => Staffed')
  BY HandleStep, PeopleStep DEF Sequential
<1>2. req' = [req EXCEPT ![r] = Served] /\ serial' = serial
  BY OtherTypes DEF Sequential
<1>3. req'[r] = Served /\ \A q \in Requests : q # r => req'[q] = req[q]
  BY <1>2 DEF Sequential, Separate, Types
<1>4. Served.view = "served"
  BY DEF Served, Waiting
<1>5. Strangers'
  BY <1>1 DEF PeopleMove, Sequential, Strangers
<1>6. Known'
  <2>1. ASSUME NEW q \in Requests, q # r
        PROVE  /\ req'[q].view \in {"team_member_deactivate", "team_member_activate"} =>
                    \A u \in req'[q].on : person'[u].exists
               /\ req'[q].view = "approve_tenant" => \A n \in req'[q].on : tenant'[n] # "absent"
    <3>1. /\ req[q].view \in {"team_member_deactivate", "team_member_activate"} => req[q].on \subseteq Users
          /\ req[q].view = "approve_tenant" => req[q].on \subseteq Tenants
      BY DEF Sequential, Separate, Types, Asks
    <3>2. QED
      BY <1>1, <1>3, <2>1, <3>1 DEF PeopleMove, Sequential, Known
  <2>2. QED
    BY <1>3, <1>4, <2>1 DEF Known
<1>7. ASSUME serial PROVE Alone' /\ ReadsHold'
  <2>1. \A q \in Requests : req'[q].view \in {"waiting", "served"}
    BY <1>3, <1>4, <1>7, OthersWait DEF Busy
  <2>2. QED
    BY <2>1 DEF Alone, Busy, ReadsHold
<1>8. QED
  BY <1>1, <1>2, <1>5, <1>6, <1>7 DEF Sequential

LEMMA EnterSequential ==
  ASSUME Sequential, NEW r \in Requests, EnterView(r)
  PROVE  Sequential'
<1>1. Separate'
  BY EnterStep DEF Sequential
<1>2. PICK view, by, n, S : Enter(r, view, by, n, S) /\ MayEnter(r)
  BY DEF EnterView, EnterTenantView, EnterPlatformView, EnterApi
<1> DEFINE q == [view |-> view, by |-> by, tenant |-> n, on |-> S, active |-> FlagRead(S)]
<1>3. req' = [req EXCEPT ![r] = q] /\ UNCHANGED <<tenant, person, member, row, serial>>
  BY <1>2 DEF Enter, data
<1>4. q.view = view /\ q.by = by /\ q.tenant = n /\ q.on = S /\ q.active = FlagRead(S)
  OBVIOUS
<1> HIDE DEF q
<1>5. req'[r] = q /\ \A p \in Requests : p # r => req'[p] = req[p]
  BY <1>3 DEF Sequential, Separate, Types
<1>6. /\ view \in {"team_member_deactivate", "team_member_activate"} => \A u \in S : person[u].exists
      /\ view = "approve_tenant" => \A m \in S : tenant[m] # "absent"
      /\ view = "team_member_deactivate" => by \in Users /\ Admin(by, n)
      /\ view = "customer_edit" => \A x \in S : FlagRead(S) => row[x].active
  <2>1. ASSUME NEW v, NEW b, NEW m, NEW T, Enter(r, v, b, m, T)
        PROVE  v = view /\ b = by /\ m = n /\ T = S
    <3>1. req'[r] = [view |-> v, by |-> b, tenant |-> m, on |-> T, active |-> FlagRead(T)]
      BY <2>1 DEF Enter, Sequential, Separate, Types
    <3>2. QED
      BY <1>4, <1>5, <3>1
  <2>2. CASE EnterTenantView(r)
    <3>1. PICK u \in Users, v \in DOMAIN TenantViews :
            /\ HasTenantRole(u, Resolve(u), TenantViews[v])
            /\ \E T \in LookedUp(v, Resolve(u)) : Enter(r, v, u, Resolve(u), T)
      BY <2>2 DEF EnterTenantView
    <3>2. u = by /\ v = view /\ Resolve(u) = n /\ S \in LookedUp(view, n)
      BY <2>1, <3>1
    <3>3. n \in Tenants /\ HasTenantRole(by, n, TenantViews[view])
      BY <3>1, <3>2 DEF HasTenantRole, IsMember
    <3>4. view \in DOMAIN TenantViews /\ view # "approve_tenant"
      BY <3>1, <3>2 DEF TenantViews
    <3>5. view \in {"team_member_deactivate", "team_member_activate"} => \A w \in S : person[w].exists
      BY <3>2, <3>3 DEF LookedUp, Sequential, Strangers
    <3>6. view = "team_member_deactivate" => Admin(by, n)
      BY <3>3 DEF HasTenantRole, TenantViews, AdminOnly, Admin
    <3>7. view = "customer_edit" => \A x \in S : FlagRead(S) => row[x].active
      <4>1. ASSUME view = "customer_edit" PROVE S \in Singles("customer", n)
        BY <3>2, <4>1 DEF LookedUp
      <4>2. ASSUME S \in Singles("customer", n), NEW x \in S, FlagRead(S) PROVE row[x].active
        BY <4>2, PortalAssumption DEF Singles, Owned, FlagRead
      <4>3. QED
        BY <4>1, <4>2
    <3>8. QED
      BY <3>1, <3>2, <3>4, <3>5, <3>6, <3>7
  <2>3. CASE EnterApi(r)
    <3>1. view \in ApiViews
      BY <2>1, <2>3 DEF EnterApi
    <3>2. QED
      BY <3>1 DEF ApiViews
  <2>4. CASE EnterPlatformView(r)
    <3>1. view \in DOMAIN PlatformViews /\ S \in PlatformLookedUp(view)
      BY <2>1, <2>4 DEF EnterPlatformView
    <3>2. QED
      BY <3>1 DEF PlatformViews, PlatformLookedUp
  <2>5. QED
    BY <2>2, <2>3, <2>4 DEF EnterView
<1>7. Strangers' /\ (serial => Staffed')
  BY <1>3 DEF Sequential, Strangers, Staffed, Admin, IsMember
<1>8. Known'
  BY <1>3, <1>4, <1>5, <1>6 DEF Sequential, Known
<1>9. ASSUME serial PROVE Alone' /\ ReadsHold'
  <2>1. \A p \in Requests : p # r => req'[p].view \in {"waiting", "served"}
    BY <1>2, <1>5, <1>9 DEF MayEnter
  <2>2. Alone'
    BY <2>1 DEF Alone, Busy
  <2>3. ReadsHold'
    BY <1>3, <1>4, <1>5, <1>6, <2>1 DEF ReadsHold, Admin, IsMember
  <2>4. QED
    BY <2>2, <2>3
<1>10. QED
  BY <1>1, <1>3, <1>7, <1>8, <1>9 DEF Sequential

LEMMA SequentialInvariance == Spec => []Sequential
<1>1. Sequential /\ [Next]_vars => Sequential'
  <2> SUFFICES ASSUME Sequential, [Next]_vars PROVE Sequential'
    OBVIOUS
  <2>1. ASSUME UNCHANGED <<tenant, person, member, row, req, serial>> PROVE Sequential'
    <3>1. Separate'
      BY SeparateStep DEF Sequential
    <3>2. QED
      BY <2>1, <3>1 DEF Sequential, Strangers, Known, Alone, Busy, ReadsHold, Staffed, Admin, IsMember
  <2>2. ASSUME NEW u \in Users, dashboard_router(u) \/ DropStaleSession(u) PROVE Sequential'
    BY <2>1, <2>2 DEF dashboard_router, DropStaleSession, data
  <2>3. CASE UNCHANGED vars
    BY <2>1, <2>3 DEF vars, data
  <2>4. QED
    BY <2>2, <2>3, HandleSequential, EnterSequential DEF Next
<1>2. QED
  BY <1>1, InitSequential, PTL DEF Spec

\* With one writing request at a time no tenant loses its last administrator,
\* however many members it has and in whatever order they come and go.
THEOREM AdministratorsRemain == Spec => []AdminRemains
<1>1. Sequential => AdminRemains
  BY DEF Sequential, Staffed, Admin, AdminRemains
<1>2. QED
  BY <1>1, SequentialInvariance, PTL

\* A revoked credential stays revoked, whatever overlaps; with one writing
\* request at a time only an activation brings a deactivated customer back.
THEOREM WhatIsOffStaysOff == Spec => SwitchedOffStaysOff
<1> DEFINE A ==
  /\ \A c \in Credentials :
       credential[c].tenant # NoTenant /\ ~credential[c].active => ~credential'[c].active
  /\ serial => \A x \in Rows : KindOf[x] = "customer" /\ ~row[x].active /\ row'[x].active =>
       \E r \in Requests : req[r].view = "customer_activate" /\ req'[r] = Served
<1>1. Sequential /\ [Next]_vars => [A]_vars
  <2> SUFFICES ASSUME Sequential, [Next]_vars PROVE A
    OBVIOUS
  <2>1. ASSUME NEW r \in Requests, Handle(r) PROVE A
    <3>1. CredentialsMove
      BY <2>1, CredentialsStep DEF Sequential
    <3>2. req'[r] = Served
      BY <2>1, OtherTypes DEF Sequential, Separate, Types
    <3>3. ASSUME serial, NEW x \in Rows, ~row[x].active, row'[x].active
          PROVE  req[r].view = "customer_activate"
      <4>1. \/ req[r].view = "customer_activate"
            \/ req[r].view = "customer_edit" /\ x \in req[r].on /\ req[r].active
        BY <2>1, <3>3, FlagsStep DEF Sequential
      <4>2. QED
        BY <3>3, <4>1 DEF Sequential, ReadsHold
    <3>4. QED
      BY <3>1, <3>2, <3>3 DEF CredentialsMove
  <2>2. ASSUME UNCHANGED <<row, credential>> PROVE A
    BY <2>2
  <2>3. ASSUME NEW r \in Requests, EnterView(r) PROVE UNCHANGED <<row, credential>>
    BY <2>3 DEF EnterView, EnterTenantView, EnterPlatformView, EnterApi, Enter, data
  <2>4. QED
    BY <2>1, <2>2, <2>3 DEF Next, dashboard_router, DropStaleSession, vars, data
<1>2. QED
  BY <1>1, SequentialInvariance, PTL DEF Spec, SwitchedOffStaysOff
=============================================================================
