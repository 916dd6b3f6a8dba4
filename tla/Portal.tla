-------------------------------- MODULE Portal --------------------------------
(***************************************************************************)
(* Who may do what to whose rows: the tenant portal, the platform pages    *)
(* and the external API, over tenants, memberships, platform roles, API    *)
(* credentials and the rows they guard.                                    *)
(*                                                                         *)
(* A writing request takes two steps, because nothing it reads is locked:  *)
(* the first resolves the tenant, checks the role and reads the instances  *)
(* its view works on, the second writes from them.  A view that only reads *)
(* is the set of rows its page shows or counts.  Operators named like a    *)
(* view stand for that view.                                               *)
(***************************************************************************)
EXTENDS Naturals, FiniteSets

CONSTANTS
  Users, Tenants, Credentials,
  Rows,        \* tenant-scoped rows other than memberships and credentials
  KindOf,      \* the table each of them is in
  Requests,    \* writing requests; each runs once
  Calls,       \* the views that each of them may be for
  Granted,     \* tenant and platform roles that new users are given
  Hired,       \* memberships at first: [user, tenant, role]
  Signed,      \* the tenant in the session of each user at first
  Staff,       \* platform staff at first, a subset of Users
  Stored,      \* rows at first, and the tenant of each: a function
  StoredUnder, \* and the set of rows that each of them refers to
  Registered,  \* tenants at first, and the status of each
  Issued,      \* credentials at first, and the tenant of each
  MaxSecret,   \* bound: times a credential is rotated
  Nobody, NoTenant

Kinds == {"customer", "account", "bill", "number", "payment", "receipt", "entry", "revenue",
          "notification", "endpoint", "delivery", "run", "exception", "batch"}

\* the foreign keys between them; a control number has a bill or an account
LinkKinds == [k \in Kinds |->
  CASE k = "account"   -> {"customer"}
    [] k = "bill"      -> {"account"}
    [] k = "number"    -> {"bill", "account"}
    [] k = "payment"   -> {"number", "batch"}
    [] k = "receipt"   -> {"payment"}
    [] k = "delivery"  -> {"endpoint"}
    [] k = "exception" -> {"payment", "run"}
    [] OTHER           -> {}]

TenantRole   == {"tenant_admin", "finance_manager", "accountant", "billing_officer",
                 "reconciliation_officer", "viewer", "api_client"}
PlatformRole == {"super_admin", "finance_admin", "operations_admin", "compliance_admin",
                 "support_admin", "auditor"}
TenantStatus == {"absent", "pending", "active"}

ASSUME PortalAssumption ==
  /\ Rows \cap (Credentials \cup Users \cup Tenants) = {} /\ Credentials \cap (Users \cup Tenants) = {}
  /\ KindOf \in [Rows -> Kinds]
  /\ Hired \subseteq [user : Users, tenant : DOMAIN Registered, role : TenantRole]
  /\ \A h, g \in Hired : h.user = g.user /\ h.tenant = g.tenant => h = g
  /\ \A n \in DOMAIN Registered : \E h \in Hired : h.tenant = n /\ h.role = "tenant_admin"
  /\ Staff \subseteq Users
  /\ DOMAIN Registered \subseteq Tenants
  /\ Signed \in [Users -> Tenants \cup {NoTenant}]
  /\ \A u \in Users : Signed[u] # NoTenant => \E h \in Hired : h.user = u /\ h.tenant = Signed[u]
  /\ \A n \in DOMAIN Registered : Registered[n] \in {"pending", "active"}
  /\ DOMAIN Stored \subseteq Rows /\ \A x \in DOMAIN Stored : Stored[x] \in DOMAIN Registered
  /\ StoredUnder \in [DOMAIN Stored -> SUBSET DOMAIN Stored]
  /\ \A x \in DOMAIN Stored : \A y \in StoredUnder[x] :
       KindOf[y] \in LinkKinds[KindOf[x]] /\ Stored[y] = Stored[x]
  /\ DOMAIN Issued \subseteq Credentials /\ \A c \in DOMAIN Issued : Issued[c] \in DOMAIN Registered
  /\ MaxSecret \in Nat
  /\ Nobody \notin Users /\ NoTenant \notin Tenants \cup Rows \cup Credentials \cup Users

VARIABLES
  tenant,      \* Tenant.status
  person,      \* User rows: exists, is_staff, is_superuser, platform roles
  member,      \* TenantMembership rows: role and is_active
  chosen,      \* active_tenant_id in the session of each user
  row,         \* tenant, is_active and the rows that it refers to, of each row
  credential,  \* ApiCredential rows: tenant, is_active, the secret that works
  trail,       \* audit records: the tenant and the target
  req,         \* writing requests between their reads and their writes
  serial       \* environment: one writing request at a time

data == <<tenant, person, member, row, credential, trail>>
vars == <<tenant, person, member, chosen, row, credential, trail, req, serial>>

-----------------------------------------------------------------------------
NoMember     == [role |-> Nobody, active |-> FALSE]
NoPerson     == [exists |-> FALSE, staff |-> FALSE, super |-> FALSE, roles |-> {}]
Absent       == [tenant |-> NoTenant, links |-> {}, active |-> TRUE]
NoCredential == [tenant |-> NoTenant, active |-> FALSE, secret |-> 0]
Waiting      == [view |-> "waiting", by |-> Nobody, tenant |-> NoTenant, on |-> {}, active |-> FALSE]
Served       == [Waiting EXCEPT !.view = "served"]

Init ==
  /\ tenant = [n \in Tenants |-> IF n \in DOMAIN Registered THEN Registered[n] ELSE "absent"]
  /\ person = [u \in Users |->
       [exists |-> u \in Staff \/ \E h \in Hired : h.user = u,
        staff |-> u \in Staff, super |-> u \in Staff, roles |-> {}]]
  /\ member = [n \in Tenants |-> [u \in Users |->
       IF \E h \in Hired : h.user = u /\ h.tenant = n
       THEN [role |-> (CHOOSE h \in Hired : h.user = u /\ h.tenant = n).role, active |-> TRUE]
       ELSE NoMember]]
  /\ chosen = Signed
  /\ row = [x \in Rows |-> IF x \in DOMAIN Stored
                           THEN [tenant |-> Stored[x], links |-> StoredUnder[x], active |-> TRUE]
                           ELSE Absent]
  /\ credential = [c \in Credentials |-> IF c \in DOMAIN Issued
       THEN [tenant |-> Issued[c], active |-> TRUE, secret |-> 0] ELSE NoCredential]
  /\ trail = {}
  /\ req = [r \in Requests |-> Waiting]
  /\ serial \in BOOLEAN

-----------------------------------------------------------------------------
(* apps.tenants.permissions and TenantResolutionMiddleware. *)

IsMember(u, n) == n \in Tenants /\ member[n][u].active

\* request.tenant of a user: the session's tenant, if the membership still holds
SessionTenant(u) == chosen[u]
Resolve(u) == IF IsMember(u, chosen[u]) THEN chosen[u] ELSE NoTenant

HasTenantRole(u, n, roles) == IsMember(u, n) /\ member[n][u].role \in roles

HasPlatformRole(u, roles) == person[u].super \/ person[u].roles \cap roles # {}

\* a membership that no longer holds is dropped from the session by the next request
DropStaleSession(u) ==
  /\ chosen[u] # NoTenant /\ ~IsMember(u, chosen[u])
  /\ chosen' = [chosen EXCEPT ![u] = NoTenant]
  /\ UNCHANGED <<data, req, serial>>

\* where dashboard_router sends a user who has signed in
Landing(u) ==
  IF person[u].staff THEN {"platform"}
  ELSE IF \E n \in Tenants : IsMember(u, n) THEN {n \in Tenants : IsMember(u, n)}
  ELSE {"no_access"}

dashboard_router(u) ==
  /\ person[u].exists
  /\ \E n \in Landing(u) \cap Tenants : chosen' = [chosen EXCEPT ![u] = n]
  /\ UNCHANGED <<data, req, serial>>

CanManage     == {"tenant_admin", "finance_manager", "billing_officer", "accountant"}
CanHook       == {"tenant_admin", "finance_manager"}
CanReconcile  == {"tenant_admin", "finance_manager", "reconciliation_officer"}
AdminOnly     == {"tenant_admin"}
CanSettle     == {"super_admin", "finance_admin"}
CanOperate    == {"super_admin", "operations_admin"}

-----------------------------------------------------------------------------
(* Pages.  The rows that a page shows or counts for tenant n; a filter, a   *)
(* search or a page number shows a part of them.  Where the code follows a  *)
(* foreign key it does not look at the tenant again, and neither do Over    *)
(* and Under.  A form shows what its view looks up (LookedUp).              *)

Owned(kind, n) == {x \in Rows : KindOf[x] = kind /\ row[x].tenant = n}
Under(kind, S) == {x \in Rows : KindOf[x] = kind /\ row[x].links \cap S # {}}
Over(kind, S)  == {x \in UNION {row[y].links : y \in S} : KindOf[x] = kind}

\* the account and the customer of bills or numbers, and what was paid of bills
Holders(S) == LET A == Over("account", S) IN A \cup Over("customer", A)
Paid(S)    == Under("payment", Under("number", S))

customer_list(n) == LET S == Owned("customer", n) IN S \cup Under("account", S)
customer_detail(n) ==
  LET S == Owned("customer", n)
      A == Under("account", S)
  IN  S \cup A \cup Under("bill", A)
search_customers(n)    == Owned("customer", n)
bill_list(n)           == LET S == Owned("bill", n) IN S \cup Holders(S) \cup Under("number", S)
bill_detail(n) ==
  LET S == Owned("bill", n) IN S \cup Holders(S) \cup Under("number", S) \cup Paid(S)
search_bills(n)        == LET S == Owned("bill", n) IN S \cup Holders(S)
control_number_list(n) == LET S == Owned("number", n) IN S \cup Over("bill", S) \cup Holders(S)
payment_list(n)        == LET S == Owned("payment", n) IN S \cup Over("number", S)
payment_detail(n) ==
  LET S == Owned("payment", n)
      N == Over("number", S)
  IN  S \cup N \cup Over("bill", N) \cup Under("receipt", S)
receipt_list(n)        == Owned("receipt", n)
receipt_detail(n)      == Owned("receipt", n)
ledger_list(n)         == Owned("entry", n)
notification_list(n)   == Owned("notification", n)
run_list(n)            == Owned("run", n) \cup Owned("exception", n)
run_detail(n) ==
  LET S == Owned("run", n)
      E == Under("exception", S)
  IN  S \cup E \cup Over("payment", E)
batch_list(n)          == Owned("batch", n)
batch_detail(n)        == LET S == Owned("batch", n) IN S \cup Under("payment", S)
tenant_revenue_summary(n) == Owned("revenue", n)
background_jobs(n) ==
  LET S == Owned("delivery", n) IN S \cup Over("endpoint", S) \cup Owned("notification", n)
dashboard(n) ==
  UNION {Owned(k, n) : k \in {"payment", "revenue", "customer", "bill", "number", "exception"}}
topbar_alerts(n)       == Owned("exception", n)
command_palette_search(n) == search_customers(n) \cup search_bills(n)
bills_report(n)        == LET S == Owned("bill", n) IN S \cup Over("account", S)
payments_report(n)     == LET S == Owned("payment", n) IN S \cup Over("number", S)
collections_report(n)  == Owned("payment", n) \cup Owned("revenue", n)
outstanding_balances_report(n) ==
  LET S == Owned("bill", n) IN S \cup Over("account", S) \cup Paid(S)

\* audit records that a page shows to tenant n
Activity(n)     == {e \in trail : e.on \in Owned("customer", n)}
audit_report(n) == {e \in trail : e.tenant = n}

\* pages behind a role
endpoint_list(n)       == Owned("endpoint", n)
endpoint_deliveries(n) == LET S == Owned("endpoint", n) IN S \cup Under("delivery", S)
credential_list(n)     == {c \in Credentials : credential[c].tenant = n}

MemberPages(n) ==
  customer_list(n) \cup customer_detail(n) \cup bill_list(n) \cup bill_detail(n)
  \cup control_number_list(n) \cup payment_list(n) \cup payment_detail(n)
  \cup receipt_list(n) \cup receipt_detail(n) \cup ledger_list(n) \cup notification_list(n)
  \cup run_list(n) \cup run_detail(n) \cup batch_list(n) \cup batch_detail(n)
  \cup tenant_revenue_summary(n) \cup background_jobs(n) \cup dashboard(n) \cup topbar_alerts(n)
  \cup command_palette_search(n) \cup bills_report(n) \cup payments_report(n)
  \cup collections_report(n) \cup outstanding_balances_report(n)

HookPages(n) == endpoint_list(n) \cup endpoint_deliveries(n)

\* the platform's pages are about every tenant; platform_dashboard asks for
\* is_staff only, and shows totals
OfAll(kinds) == {x \in Rows : KindOf[x] \in kinds /\ row[x].tenant # NoTenant}
platform_dashboard         == OfAll({"payment", "revenue", "exception"})
platform_batch_list        == OfAll({"batch"})
platform_revenue_dashboard == OfAll({"revenue"})

\* all the rows and credentials of tenants that pages show to user u or count
\* for them; team_members, platform_users and pending_tenants list users,
\* memberships and tenants only
Readable(u) ==
  LET n == Resolve(u) IN
  (IF n # NoTenant THEN MemberPages(n) ELSE {})
  \cup (IF HasTenantRole(u, n, CanHook) THEN HookPages(n) ELSE {})
  \cup (IF HasTenantRole(u, n, AdminOnly) THEN credential_list(n) ELSE {})
  \cup (IF person[u].staff THEN platform_dashboard ELSE {})
  \cup (IF HasPlatformRole(u, CanSettle) THEN platform_batch_list \cup platform_revenue_dashboard ELSE {})

TenantOf(x) == IF x \in Credentials THEN credential[x].tenant ELSE row[x].tenant

\* what the API's GET views return for tenant n
ApiCustomers(n)     == Owned("customer", n)
ApiAccounts(n)      == LET S == Owned("account", n) IN S \cup Over("customer", S)
ApiBills(n)         == LET S == Owned("bill", n) IN S \cup Under("number", S) \cup Paid(S)
ApiPayments(n) ==
  LET S == Owned("payment", n)
      N == Over("number", S)
  IN  S \cup N \cup Over("bill", N)
ApiRuns(n)          == Owned("run", n)
ApiBatches(n)       == Owned("batch", n)
ApiEndpoints(n)     == Owned("endpoint", n)
ApiNotifications(n) == Owned("notification", n)

ApiPages(n) ==
  ApiCustomers(n) \cup ApiAccounts(n) \cup ApiBills(n) \cup ApiPayments(n) \cup ApiRuns(n)
  \cup ApiBatches(n) \cup ApiEndpoints(n) \cup ApiNotifications(n)

\* ApiKeyAuthentication
Authenticates(c, secret) ==
  /\ credential[c].tenant # NoTenant
  /\ credential[c].active
  /\ credential[c].secret = secret
  /\ tenant[credential[c].tenant] = "active"

-----------------------------------------------------------------------------
(* The first step of a writing request: who it is, for which tenant, and    *)
(* the instances that its view looks up.                                    *)

AnySingles(kind, n) == {{x} : x \in {y \in Rows : KindOf[y] = kind /\ row[y].tenant # NoTenant}}
Singles(kind, n)    == {{x} : x \in Owned(kind, n)}

TenantViews ==
  [customer_create |-> CanManage, customer_edit |-> CanManage, customer_deactivate |-> CanManage,
   customer_activate |-> CanManage, customer_bulk_deactivate |-> CanManage,
   account_create |-> CanManage, bill_create |-> CanManage,
   bill_cancel |-> CanManage, bill_request_control_number |-> CanManage, pay_bill |-> CanManage,
   payment_query |-> CanManage, payment_refund |-> CanManage, payment_reverse |-> CanManage,
   endpoint_create |-> CanHook, trigger_run |-> CanReconcile, resolve_exception_view |-> CanReconcile,
   credential_create |-> AdminOnly, credential_rotate |-> AdminOnly, credential_revoke |-> AdminOnly,
   team_member_create |-> AdminOnly, team_member_deactivate |-> AdminOnly,
   team_member_activate |-> AdminOnly]

PlatformViews ==
  [platform_create_tenant |-> CanOperate, approve_tenant |-> CanOperate,
   platform_user_create |-> CanOperate, generate_batch |-> CanSettle, mark_completed |-> CanSettle]

ApiViews == {"api_customer", "api_account", "api_bill", "api_control_number", "api_payment",
             "api_payment_query", "api_endpoint"}

\* the sets of instances that a tenant's view may look up
LookedUp(view, n) ==
  CASE view \in {"customer_edit", "customer_deactivate", "customer_activate", "account_create",
                 "api_account"} -> Singles("customer", n)
    [] view = "customer_bulk_deactivate" -> SUBSET {x \in Owned("customer", n) : row[x].active}
    [] view = "bill_create" -> {{x} : x \in {y \in Owned("account", n) : row[y].active}}
    [] view = "api_bill"    -> Singles("account", n)
    [] view \in {"bill_cancel", "bill_request_control_number", "api_control_number"} ->
         Singles("bill", n)
    [] view = "pay_bill"    -> {{x} : x \in Under("number", Owned("bill", n))}
    [] view = "api_payment" -> Singles("number", n)
    [] view \in {"payment_query", "payment_refund", "payment_reverse", "api_payment_query"} ->
         Singles("payment", n)
    [] view = "resolve_exception_view" -> Singles("exception", n)
    [] view \in {"credential_rotate", "credential_revoke"} ->
         {{c} : c \in {d \in Credentials : credential[d].tenant = n}}
    [] view \in {"team_member_deactivate", "team_member_activate"} ->
         {{u} : u \in {v \in Users : member[n][v] # NoMember}}
    [] OTHER -> {{}}

\* what a platform view looks up; its forms offer ACTIVE tenants only
PlatformLookedUp(view) ==
  CASE view = "approve_tenant" -> {{n} : n \in {m \in Tenants : tenant[m] # "absent"}}
    [] view \in {"generate_batch", "platform_user_create"} ->
         {{n} : n \in {m \in Tenants : tenant[m] = "active"}}
    [] view = "mark_completed" -> {{x} : x \in platform_batch_list}
    [] OTHER -> {{}}

\* is_active of the instances that were read
FlagRead(S) == \E x \in S :
  (x \in Rows /\ row[x].active) \/ (x \in Credentials /\ credential[x].active)

MayEnter(r) == req[r] = Waiting /\ (serial => \A q \in Requests : req[q].view \in {"waiting", "served"})

Enter(r, view, by, n, S) ==
  /\ req' = [req EXCEPT ![r] = [view |-> view, by |-> by, tenant |-> n, on |-> S,
                               active |-> FlagRead(S)]]
  /\ UNCHANGED <<data, chosen, serial>>

\* login_required, TenantResolutionMiddleware and require_tenant_role
EnterTenantView(r) == \E u \in Users, view \in Calls[r] \cap DOMAIN TenantViews :
  LET n == Resolve(u) IN
  /\ MayEnter(r) /\ person[u].exists
  /\ HasTenantRole(u, n, TenantViews[view])
  /\ \E S \in LookedUp(view, n) : Enter(r, view, u, n, S)

\* require_platform_role
EnterPlatformView(r) == \E u \in Users, view \in Calls[r] \cap DOMAIN PlatformViews :
  /\ MayEnter(r) /\ person[u].exists
  /\ HasPlatformRole(u, PlatformViews[view])
  /\ \E S \in PlatformLookedUp(view) : Enter(r, view, u, NoTenant, S)

EnterApi(r) == \E c \in Credentials, secret \in 0 .. MaxSecret, view \in Calls[r] \cap ApiViews :
  LET n == credential[c].tenant IN
  /\ MayEnter(r) /\ Authenticates(c, secret)
  /\ \E S \in LookedUp(view, n) : Enter(r, view, c, n, S)

-----------------------------------------------------------------------------
(* The second step: what each view writes.                                  *)

Serving(r, views) == req[r].view \in views
Done(r)   == req' = [req EXCEPT ![r] = Served]
Free(kind) == {x \in Rows : KindOf[x] = kind /\ row[x] = Absent}
NewRow(n, links) == [tenant |-> n, links |-> links, active |-> TRUE]
AuditTargetless(n, S) == trail' = trail \cup {[tenant |-> n, on |-> NoTenant]}
Audit(n, S) == trail' = trail \cup {[tenant |-> n, on |-> x] : x \in S}

\* What services write for tenant n beside the rows of the view itself, which
\* are in own: rows of the given kinds, deliveries to endpoints of the tenant,
\* receipts for the payments in P that have none
Beside(n, kinds, P, own) ==
  \E S \in SUBSET UNION {Free(k) : k \in kinds} :
  LET sent     == {x \in S : KindOf[x] = "delivery"}
      receipts == {x \in S : KindOf[x] = "receipt"}
  IN  \E to \in [sent -> Owned("endpoint", n)], of \in [receipts -> P] :
        /\ \A x, y \in receipts : of[x] = of[y] => x = y
        /\ \A x \in receipts : Under("receipt", {of[x]}) = {}
        /\ row' = [x \in Rows |->
             IF x \in sent THEN NewRow(n, {to[x]})
             ELSE IF x \in receipts THEN NewRow(n, {of[x]})
             ELSE IF x \in S THEN NewRow(n, {})
             ELSE own[x]]

\* what a new number costs, and what the outcome and the compensation of a payment bring
Charges      == {"entry", "revenue", "notification"}
Compensation == Charges \cup {"delivery"}
Outcome      == Compensation \cup {"receipt"}

\* a form or a serializer refuses, a reference exists already, a plain GET
WritesNothing(r) ==
  /\ ~Serving(r, {"waiting", "served"})
  /\ Done(r)
  /\ UNCHANGED <<data, chosen, serial>>

customer_create(r) == \E x \in Free("customer") :
  /\ Serving(r, {"customer_create", "api_customer"}) /\ Done(r)
  /\ row' = [row EXCEPT ![x] = NewRow(req[r].tenant, {})]
  /\ Audit(req[r].tenant, {x})
  /\ UNCHANGED <<tenant, person, member, chosen, credential, serial>>

\* form.save() writes every column of the instance that was read
customer_edit(r) == \E x \in req[r].on :
  /\ Serving(r, {"customer_edit"}) /\ Done(r)
  /\ row' = [row EXCEPT ![x].active = req[r].active]
  /\ Audit(req[r].tenant, {x})
  /\ UNCHANGED <<tenant, person, member, chosen, credential, serial>>

SetCustomers(r, flag) ==
  /\ Done(r)
  /\ row' = [x \in Rows |-> IF x \in req[r].on THEN [row[x] EXCEPT !.active = flag] ELSE row[x]]
  /\ Audit(req[r].tenant, req[r].on)
  /\ UNCHANGED <<tenant, person, member, chosen, credential, serial>>

customer_deactivate(r) ==
  Serving(r, {"customer_deactivate", "customer_bulk_deactivate"}) /\ SetCustomers(r, FALSE)
customer_activate(r) == Serving(r, {"customer_activate"}) /\ SetCustomers(r, TRUE)

account_create(r) == \E c \in req[r].on, x \in Free("account") :
  /\ Serving(r, {"account_create", "api_account"}) /\ Done(r)
  /\ row' = [row EXCEPT ![x] = NewRow(req[r].tenant, {c})]
  /\ Audit(req[r].tenant, {x})
  /\ UNCHANGED <<tenant, person, member, chosen, credential, serial>>

\* the portal issues the bill's control number along with the bill
bill_create(r) == \E a \in req[r].on, x \in Free("bill"), y \in Free("number") :
  /\ Serving(r, {"bill_create"}) /\ Done(r)
  /\ Beside(req[r].tenant, Compensation, {},
            [row EXCEPT ![x] = NewRow(req[r].tenant, {a}), ![y] = NewRow(req[r].tenant, {x})])
  /\ Audit(req[r].tenant, {x, y})
  /\ UNCHANGED <<tenant, person, member, chosen, credential, serial>>

api_bill_create(r) == \E a \in req[r].on, x \in Free("bill") :
  /\ Serving(r, {"api_bill"}) /\ Done(r)
  /\ Beside(req[r].tenant, {"notification", "delivery"}, {},
            [row EXCEPT ![x] = NewRow(req[r].tenant, {a})])
  /\ Audit(req[r].tenant, {x})
  /\ UNCHANGED <<tenant, person, member, chosen, credential, serial>>

\* is_active of a bill stands for: not CANCELLED; transition_to checks the instance
bill_cancel(r) == \E b \in req[r].on :
  /\ Serving(r, {"bill_cancel"}) /\ Done(r)
  /\ req[r].active
  /\ Beside(req[r].tenant, {"delivery"}, {}, [row EXCEPT ![b].active = FALSE])
  /\ Audit(req[r].tenant, {b})
  /\ UNCHANGED <<tenant, person, member, chosen, credential, serial>>

\* a number that the bill has already is a reuse, charged nothing
bill_request_control_number(r) == \E b \in req[r].on :
  /\ Serving(r, {"bill_request_control_number", "api_control_number"}) /\ Done(r)
  /\ LET numbers == Under("number", req[r].on) IN
     \/ /\ numbers # {}
        /\ Beside(req[r].tenant, {"revenue"}, {}, row)
        /\ Audit(req[r].tenant, numbers)
     \/ /\ numbers = {}
        /\ \E y \in Free("number") :
             /\ Beside(req[r].tenant, Charges, {}, [row EXCEPT ![y] = NewRow(req[r].tenant, {b})])
             /\ Audit(req[r].tenant, {y})
  /\ UNCHANGED <<tenant, person, member, chosen, credential, serial>>

\* initiate_payment; the provider may answer at once
pay_bill(r) == \E y \in req[r].on, x \in Free("payment") :
  /\ Serving(r, {"pay_bill", "api_payment"}) /\ Done(r)
  /\ Beside(req[r].tenant, Outcome, {x}, [row EXCEPT ![x] = NewRow(req[r].tenant, {y})])
  /\ Audit(req[r].tenant, {x})
  /\ UNCHANGED <<tenant, person, member, chosen, credential, serial>>

payment_query(r) == \E p \in req[r].on :
  /\ Serving(r, {"payment_query", "api_payment_query"}) /\ Done(r)
  /\ Beside(req[r].tenant, Outcome, {p}, row)
  /\ Audit(req[r].tenant, {p})
  /\ UNCHANGED <<tenant, person, member, chosen, credential, serial>>

Compensate(r) == \E p \in req[r].on :
  /\ Done(r)
  /\ Beside(req[r].tenant, Compensation, {}, row)
  /\ Audit(req[r].tenant, {p})
  /\ UNCHANGED <<tenant, person, member, chosen, credential, serial>>

payment_refund(r)  == Serving(r, {"payment_refund"}) /\ Compensate(r)
payment_reverse(r) == Serving(r, {"payment_reverse"}) /\ Compensate(r)

\* an endpoint is not audited
endpoint_create(r) == \E x \in Free("endpoint") :
  /\ Serving(r, {"endpoint_create", "api_endpoint"}) /\ Done(r)
  /\ row' = [row EXCEPT ![x] = NewRow(req[r].tenant, {})]
  /\ UNCHANGED <<tenant, person, member, chosen, credential, trail, serial>>

\* a run, what the queries it makes bring, and the exceptions it records
trigger_run(r) ==
  \E x \in Free("run"), found \in SUBSET Free("exception"),
     queried \in SUBSET Owned("payment", req[r].tenant) :
  \E of \in [found -> Owned("payment", req[r].tenant)] :
  /\ Serving(r, {"trigger_run"}) /\ Done(r)
  /\ Beside(req[r].tenant, IF queried = {} THEN {} ELSE Outcome, queried,
            [y \in Rows |-> IF y = x THEN NewRow(req[r].tenant, {})
                            ELSE IF y \in found THEN NewRow(req[r].tenant, {of[y], x})
                            ELSE row[y]])
  /\ Audit(req[r].tenant, queried)
  /\ UNCHANGED <<tenant, person, member, chosen, credential, serial>>

resolve_exception_view(r) == \E x \in req[r].on :
  /\ Serving(r, {"resolve_exception_view"}) /\ Done(r)
  /\ row' = [row EXCEPT ![x].active = FALSE]
  /\ Audit(req[r].tenant, {x})
  /\ UNCHANGED <<tenant, person, member, chosen, credential, serial>>

credential_create(r) == \E c \in {d \in Credentials : credential[d] = NoCredential} :
  /\ Serving(r, {"credential_create"}) /\ Done(r)
  /\ credential' = [credential EXCEPT ![c] =
                      [tenant |-> req[r].tenant, active |-> TRUE, secret |-> 0]]
  /\ Audit(req[r].tenant, {c})
  /\ UNCHANGED <<tenant, person, member, chosen, row, serial>>

\* a save of the whole instance, and the code's save(update_fields=[secret_hash, ...])
RotatedSave(r, c) == [credential[c] EXCEPT !.secret = @ + 1, !.active = req[r].active]
Rotated(r, c)     == [credential[c] EXCEPT !.secret = @ + 1]

credential_rotate(r) == \E c \in req[r].on :
  /\ Serving(r, {"credential_rotate"}) /\ Done(r)
  /\ credential[c].secret < MaxSecret
  /\ credential' = [credential EXCEPT ![c] = Rotated(r, c)]
  /\ Audit(req[r].tenant, {c})
  /\ UNCHANGED <<tenant, person, member, chosen, row, serial>>

credential_revoke(r) == \E c \in req[r].on :
  /\ Serving(r, {"credential_revoke"}) /\ Done(r)
  /\ credential' = [credential EXCEPT ![c].active = FALSE]
  /\ Audit(req[r].tenant, {c})
  /\ UNCHANGED <<tenant, person, member, chosen, row, serial>>

\* User.objects.create_user
NewUser(u) == person' = [person EXCEPT ![u] = [NoPerson EXCEPT !.exists = TRUE]]
Join(n, u, role) == member' = [member EXCEPT ![n][u] = [role |-> role, active |-> TRUE]]
Newcomers == {u \in Users : ~person[u].exists}

team_member_create(r) == \E u \in Newcomers, role \in Granted \cap TenantRole :
  /\ Serving(r, {"team_member_create"}) /\ Done(r)
  /\ NewUser(u) /\ Join(req[r].tenant, u, role)
  /\ Audit(req[r].tenant, {u})
  /\ UNCHANGED <<tenant, chosen, row, credential, serial>>

\* nobody may deactivate their own membership
MayDeactivateAnyone(r, u) == TRUE
MayDeactivate(r, u) == u # req[r].by

team_member_deactivate(r) == \E u \in req[r].on :
  /\ Serving(r, {"team_member_deactivate"}) /\ Done(r)
  /\ MayDeactivate(r, u)
  /\ member' = [member EXCEPT ![req[r].tenant][u].active = FALSE]
  /\ Audit(req[r].tenant, {u})
  /\ UNCHANGED <<tenant, person, chosen, row, credential, serial>>

team_member_activate(r) == \E u \in req[r].on :
  /\ Serving(r, {"team_member_activate"}) /\ Done(r)
  /\ member' = [member EXCEPT ![req[r].tenant][u].active = TRUE]
  /\ Audit(req[r].tenant, {u})
  /\ UNCHANGED <<tenant, person, chosen, row, credential, serial>>

\* a registration creates the tenant and its administrator
Register(n, status) == \E u \in Newcomers :
  /\ tenant[n] = "absent"
  /\ tenant' = [tenant EXCEPT ![n] = status]
  /\ NewUser(u) /\ Join(n, u, "tenant_admin")
  /\ Audit(n, {n})
  /\ UNCHANGED <<chosen, row, credential, serial>>

onboard(r) == \E n \in Tenants :
  /\ "onboard" \in Calls[r] /\ MayEnter(r)
  /\ Done(r) /\ Register(n, "pending")

platform_create_tenant(r) == \E n \in Tenants :
  /\ Serving(r, {"platform_create_tenant"})
  /\ Done(r) /\ Register(n, "active")

approve_tenant(r) == \E n \in req[r].on :
  /\ Serving(r, {"approve_tenant"}) /\ Done(r)
  /\ tenant' = [tenant EXCEPT ![n] = "active"]
  /\ Audit(n, {n})
  /\ UNCHANGED <<person, member, chosen, row, credential, serial>>

\* a member of one ACTIVE tenant, or platform staff
platform_user_create(r) == \E u \in Newcomers, n \in req[r].on :
  /\ Serving(r, {"platform_user_create"}) /\ Done(r)
  /\ \/ \E role \in Granted \cap TenantRole : NewUser(u) /\ Join(n, u, role) /\ Audit(n, {u})
     \/ \E role \in Granted \cap PlatformRole :
          /\ person' = [person EXCEPT ![u] =
                          [exists |-> TRUE, staff |-> TRUE, super |-> FALSE, roles |-> {role}]]
          /\ Audit(NoTenant, {u})
          /\ UNCHANGED member
  /\ UNCHANGED <<tenant, chosen, row, credential, serial>>

\* the batch claims payments of its tenant that no batch has claimed
generate_batch(r) == \E n \in req[r].on, x \in Free("batch") :
  \E claimed \in SUBSET {p \in Owned("payment", n) : Over("batch", {p}) = {}} :
  /\ Serving(r, {"generate_batch"}) /\ Done(r)
  /\ row' = [y \in Rows |-> IF y = x THEN NewRow(n, {})
                            ELSE IF y \in claimed THEN [row[y] EXCEPT !.links = @ \cup {x}]
                            ELSE row[y]]
  /\ Audit(n, {x})
  /\ UNCHANGED <<tenant, person, member, chosen, credential, serial>>

\* is_active of a batch stands for: not COMPLETED yet
mark_completed(r) == \E x \in req[r].on :
  /\ Serving(r, {"mark_completed"}) /\ Done(r)
  /\ Beside(row[x].tenant, {"delivery"}, {}, [row EXCEPT ![x].active = FALSE])
  /\ Audit(row[x].tenant, {x})
  /\ UNCHANGED <<tenant, person, member, chosen, credential, serial>>

-----------------------------------------------------------------------------
EnterView(r) == EnterTenantView(r) \/ EnterPlatformView(r) \/ EnterApi(r)

Handle(r) ==
  \/ WritesNothing(r)
  \/ customer_create(r) \/ customer_edit(r) \/ customer_deactivate(r) \/ customer_activate(r)
  \/ account_create(r) \/ bill_create(r) \/ api_bill_create(r)
  \/ bill_cancel(r) \/ bill_request_control_number(r) \/ pay_bill(r)
  \/ payment_query(r) \/ payment_refund(r) \/ payment_reverse(r) \/ endpoint_create(r)
  \/ trigger_run(r) \/ resolve_exception_view(r)
  \/ credential_create(r) \/ credential_rotate(r) \/ credential_revoke(r)
  \/ team_member_create(r) \/ team_member_deactivate(r) \/ team_member_activate(r)
  \/ onboard(r) \/ platform_create_tenant(r) \/ approve_tenant(r) \/ platform_user_create(r)
  \/ generate_batch(r) \/ mark_completed(r)

Next ==
  \/ \E r \in Requests : EnterView(r) \/ Handle(r)
  \/ \E u \in Users : dashboard_router(u) \/ DropStaleSession(u)

Spec == Init /\ [][Next]_vars

-----------------------------------------------------------------------------
\* Type correctness of the tables and of the requests in progress.
TypeOK ==
  /\ tenant \in [Tenants -> TenantStatus]
  /\ person \in [Users -> [exists : BOOLEAN, staff : BOOLEAN, super : BOOLEAN,
                           roles : SUBSET PlatformRole]]
  /\ member \in [Tenants -> [Users -> [role : TenantRole \cup {Nobody}, active : BOOLEAN]]]
  /\ chosen \in [Users -> Tenants \cup {NoTenant}]
  /\ row \in [Rows -> [tenant : Tenants \cup {NoTenant}, links : SUBSET Rows, active : BOOLEAN]]
  /\ credential \in [Credentials -> [tenant : Tenants \cup {NoTenant}, active : BOOLEAN,
                                     secret : 0 .. MaxSecret]]
  /\ trail \subseteq [tenant : Tenants \cup {NoTenant}, on : Rows \cup Credentials \cup Users \cup Tenants]
  /\ DOMAIN req = Requests
  /\ \A r \in Requests :
       /\ req[r].view \in {"waiting", "served"} \cup DOMAIN TenantViews \cup DOMAIN PlatformViews \cup ApiViews
       /\ req[r].by \in Users \cup Credentials \cup {Nobody}
       /\ req[r].tenant \in Tenants \cup {NoTenant} /\ req[r].active \in BOOLEAN
       /\ req[r].on \subseteq Rows \cup Credentials \cup Users \cup Tenants
  /\ serial \in BOOLEAN

\* No lookup leads out of the tenant: a row refers to rows of its own tenant, an
\* audit record belongs to the tenant of its target, and what a request of a
\* tenant has looked up is that tenant's (get_object_or_404 with tenant=).
TenantsAreSeparate ==
  /\ \A x \in Rows : \A y \in row[x].links :
       row[y].tenant = row[x].tenant /\ KindOf[y] \in LinkKinds[KindOf[x]]
  /\ \A e \in trail :
       /\ e.on \in Rows => row[e.on].tenant = e.tenant
       /\ e.on \in Credentials => credential[e.on].tenant = e.tenant
  /\ \A r \in Requests : req[r].view \in DOMAIN TenantViews \cup ApiViews =>
       \A x \in req[r].on :
         /\ x \in Rows => row[x].tenant = req[r].tenant
         /\ x \in Credentials => credential[x].tenant = req[r].tenant

\* What pages show or count for a user belongs to a tenant of which the user is
\* an active member now, whatever the session says and whichever foreign keys
\* the page follows.  Beyond that, staff see what platform_dashboard counts, and
\* the settlement roles batches and revenue: no platform role opens a customer,
\* a bill, a receipt or a credential.  The API returns to a credential what its
\* tenant has, and a customer's timeline is part of the tenant's trail.
PagesStayInside ==
  /\ \A u \in Users : \A x \in Readable(u) :
       \/ IsMember(u, TenantOf(x))
       \/ person[u].staff /\ x \in OfAll({"payment", "revenue", "exception"})
       \/ HasPlatformRole(u, CanSettle) /\ x \in OfAll({"batch", "revenue"})
  /\ \A c \in Credentials : credential[c].tenant # NoTenant =>
       \A x \in ApiPages(credential[c].tenant) : row[x].tenant = credential[c].tenant
  /\ \A n \in Tenants : Activity(n) \subseteq audit_report(n)

\* With one writing request at a time a tenant never loses its last active
\* administrator: team_member_deactivate refuses one's own membership.  (Two
\* administrators that deactivate each other at the same time both succeed.)
AdminRemains == serial => \A n \in Tenants : tenant[n] # "absent" =>
  \E u \in Users : IsMember(u, n) /\ member[n][u].role = "tenant_admin"

\* A revoked credential never works again, although a rotation may have read it
\* before (update_fields); with one writing request at a time a deactivated
\* customer returns by customer_activate only, never by an edit.
SwitchedOffStaysOff == [][
  /\ \A c \in Credentials :
       credential[c].tenant # NoTenant /\ ~credential[c].active => ~credential'[c].active
  /\ serial => \A x \in Rows : KindOf[x] = "customer" /\ ~row[x].active /\ row'[x].active =>
       \E r \in Requests : req[r].view = "customer_activate" /\ req'[r] = Served]_vars

=============================================================================
