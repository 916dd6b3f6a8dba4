----------------------------- MODULE Registration -----------------------------
(***************************************************************************)
(* How customers, accounts and bills of one tenant come to exist: the      *)
(* get-or-create services (apps.customers, apps.billing), and the hash     *)
(* chain of audit records (apps.audit) that every creation extends.        *)
(*                                                                         *)
(* A request is one READ COMMITTED transaction: it looks its external      *)
(* reference up, inserts, stamps its audit record and links it to the last *)
(* record it can see.  Rows and records become visible at COMMIT; a unique *)
(* index makes an insert wait for the uncommitted row it conflicts with.   *)
(* A row is named after the request that inserts it.                       *)
(***************************************************************************)
EXTENDS Naturals, FiniteSets

CONSTANTS
  Requests,
  Refs,        \* external references
  Numbers,     \* values that a bill number may take
  MaxAttempts, \* range(3) in get_or_create_bill
  NoRef, NoNumber, NoRow, NoRecord, Genesis

Kinds    == {"customer", "account", "bill"}
ParentOf == [account |-> "customer", bill |-> "account"]

\* rows of the three tables, and audit records
Row == [kind : Kinds, ref : Refs \cup {NoRef}, parent : Requests \cup {NoRow},
        number : Numbers \cup {NoNumber}, status : {"draft", "active"}, told : BOOLEAN]
Record == [created : Nat, previous : Requests \cup {Genesis}]

ASSUME RegistrationAssumption ==
  /\ MaxAttempts \in Nat \ {0}
  /\ NoRef \notin Refs /\ NoNumber \notin Numbers
  /\ NoRow \notin Requests \cup Row /\ NoRecord \notin Record
  /\ Genesis \notin Requests

VARIABLES
  req,     \* what each request asks for, where it is, what it answers
  row,     \* committed rows
  written, \* the uncommitted row of each request
  audit,   \* committed audit records: created_at and the record before
  record,  \* the uncommitted audit record of each request
  clock,   \* timezone.now()
  serial   \* environment: one request at a time

vars == <<req, row, written, audit, record, clock, serial>>

-----------------------------------------------------------------------------
Committed(kind) == {r \in Requests : row[r] # NoRow /\ row[r].kind = kind}
Named(kind, ref) == {r \in Committed(kind) : row[r].ref = ref /\ ref # NoRef}

Init ==
  /\ req = [r \in Requests |-> [at |-> "idle", kind |-> "customer", ref |-> NoRef, parent |-> NoRow,
                                tries |-> 0, answer |-> NoRow]]
  /\ row = [r \in Requests |-> NoRow]
  /\ written = [r \in Requests |-> NoRow]
  /\ audit = [r \in Requests |-> NoRecord]
  /\ record = [r \in Requests |-> NoRecord]
  /\ clock = 0
  /\ serial \in BOOLEAN

Ended == {"idle", "committed", "aborted"}
Open(r) == req[r].at \notin Ended
At(r, at) == req[r].at = at
Goes(r, at) == req' = [req EXCEPT ![r].at = at]

\* the view finds the customer or the account under which it creates
Parents(kind) == IF kind \in DOMAIN ParentOf THEN Committed(ParentOf[kind]) ELSE {NoRow}

Begin(r) == \E kind \in Kinds, ref \in Refs \cup {NoRef}, parent \in Requests \cup {NoRow} :
  /\ At(r, "idle")
  /\ serial => \A q \in Requests : ~Open(q)
  /\ parent \in Parents(kind)
  /\ req' = [req EXCEPT ![r] = [@ EXCEPT !.at = "lookup", !.kind = kind, !.ref = ref,
                                         !.parent = parent]]
  /\ UNCHANGED <<row, written, audit, record, clock, serial>>

\* a record under this reference exists: it is returned as it is
Found(r, at) == \E q \in Named(req[r].kind, req[r].ref) :
  /\ At(r, at)
  /\ req' = [req EXCEPT ![r].at = "answer", ![r].answer = q]
  /\ UNCHANGED <<row, written, audit, record, clock, serial>>

Lookup(r) ==
  \/ Found(r, "lookup")
  \/ /\ At(r, "lookup") /\ Named(req[r].kind, req[r].ref) = {}
     /\ Goes(r, "insert")
     /\ UNCHANGED <<row, written, audit, record, clock, serial>>

\* the row a request inserts; a bill is a DRAFT until its view issues it
NewRow(r, number) == [kind |-> req[r].kind, ref |-> req[r].ref, parent |-> req[r].parent,
                      number |-> number, status |-> IF req[r].kind = "bill" THEN "draft" ELSE "active",
                      told |-> FALSE]

NumbersOf(kind) == IF kind = "bill" THEN Numbers ELSE {NoNumber}

\* one of the unique indexes sees x and y conflict
Conflicts(x, y) ==
  /\ x # NoRow /\ y # NoRow /\ x.kind = y.kind
  /\ (x.ref = y.ref /\ x.ref # NoRef) \/ (x.number = y.number /\ x.number # NoNumber)

WaitsForNobody(x) == FALSE
MustWait(x) == \E q \in Requests : Conflicts(x, written[q])
Taken(x)    == \E q \in Requests : Conflicts(x, row[q])

Insert(r) == \E number \in NumbersOf(req[r].kind) :
  LET x == NewRow(r, number) IN
  /\ At(r, "insert") /\ ~MustWait(x) /\ ~Taken(x)
  /\ written' = [written EXCEPT ![r] = x]
  /\ Goes(r, "stamp")
  /\ UNCHANGED <<row, audit, record, clock, serial>>

\* IntegrityError: nobody catches it for a customer or an account
InsertFails(r) == \E number \in NumbersOf(req[r].kind) :
  LET x == NewRow(r, number) IN
  /\ At(r, "insert") /\ ~MustWait(x) /\ Taken(x)
  /\ IF req[r].kind = "bill" THEN Goes(r, "again") ELSE Goes(r, "aborted")
  /\ UNCHANGED <<row, written, audit, record, clock, serial>>

LookAgainTooOften(r) ==
  \/ Found(r, "again")
  \/ /\ At(r, "again") /\ Named(req[r].kind, req[r].ref) = {}
     /\ req' = [req EXCEPT ![r].tries = @ + 1,
                           ![r].at = IF req[r].tries < MaxAttempts THEN "insert" ELSE "aborted"]
     /\ UNCHANGED <<row, written, audit, record, clock, serial>>

\* get_or_create_bill looks the reference up again, and tries another number
LookAgain(r) ==
  \/ Found(r, "again")
  \/ /\ At(r, "again") /\ Named(req[r].kind, req[r].ref) = {}
     /\ req' = [req EXCEPT ![r].tries = @ + 1,
                           ![r].at = IF req[r].tries + 1 < MaxAttempts THEN "insert" ELSE "aborted"]
     /\ UNCHANGED <<row, written, audit, record, clock, serial>>

-----------------------------------------------------------------------------
(* record_audit_event: created_at is stamped when the record is built;      *)
(* save() then reads the last record that is visible and links to it.       *)

Stamp(r) ==
  /\ At(r, "stamp")
  /\ clock' = clock + 1
  /\ record' = [record EXCEPT ![r] = [created |-> clock + 1, previous |-> Genesis]]
  /\ Goes(r, "link")
  /\ UNCHANGED <<row, written, audit, serial>>

Records == {q \in Requests : audit[q] # NoRecord}

\* order_by("created_at").first()
FirstRecord == IF Records = {} THEN Genesis
               ELSE CHOOSE q \in Records : \A p \in Records : audit[q].created <= audit[p].created

\* order_by("-created_at").first()
LastRecord == IF Records = {} THEN Genesis
              ELSE CHOOSE q \in Records : \A p \in Records : audit[p].created <= audit[q].created

Link(r) ==
  /\ At(r, "link")
  /\ record' = [record EXCEPT ![r].previous = LastRecord]
  /\ Goes(r, IF req[r].kind = "bill" THEN "announce" ELSE "created")
  /\ UNCHANGED <<row, written, audit, clock, serial>>

\* _dispatch_bill_event and _notify_bill_created, then transition_to(ACTIVE) in the view
Announce(r) ==
  /\ At(r, "announce")
  /\ written' = [written EXCEPT ![r].told = TRUE, ![r].status = "active"]
  /\ Goes(r, "created")
  /\ UNCHANGED <<row, audit, record, clock, serial>>

-----------------------------------------------------------------------------
Commit(r) ==
  /\ req[r].at \in {"answer", "created"}
  /\ req' = [req EXCEPT ![r].at = "committed", ![r].answer = IF At(r, "created") THEN r ELSE @]
  /\ row' = [row EXCEPT ![r] = written[r]]
  /\ audit' = [audit EXCEPT ![r] = record[r]]
  /\ written' = [written EXCEPT ![r] = NoRow]
  /\ record' = [record EXCEPT ![r] = NoRecord]
  /\ UNCHANGED <<clock, serial>>

\* a worker that dies keeps what a commit per statement would have written
AbortKeepsRow(r) ==
  /\ Open(r)
  /\ Goes(r, "aborted")
  /\ row' = [row EXCEPT ![r] = written[r]]
  /\ written' = [written EXCEPT ![r] = NoRow]
  /\ record' = [record EXCEPT ![r] = NoRecord]
  /\ UNCHANGED <<audit, clock, serial>>

\* the worker dies, the connection breaks or a statement raises: everything is undone
Abort(r) ==
  /\ Open(r)
  /\ Goes(r, "aborted")
  /\ written' = [written EXCEPT ![r] = NoRow]
  /\ record' = [record EXCEPT ![r] = NoRecord]
  /\ UNCHANGED <<row, audit, clock, serial>>

Next == \E r \in Requests :
  \/ Begin(r) \/ Lookup(r) \/ Insert(r) \/ InsertFails(r) \/ LookAgain(r)
  \/ Stamp(r) \/ Link(r) \/ Announce(r)
  \/ Commit(r) \/ Abort(r)

Spec == Init /\ [][Next]_vars

-----------------------------------------------------------------------------
\* Type correctness of the tables and of the requests in progress.
TypeOK ==
  /\ req \in [Requests ->
       [at : Ended \cup {"lookup", "insert", "again", "stamp", "link", "announce", "answer", "created"},
        kind : Kinds, ref : Refs \cup {NoRef}, parent : Requests \cup {NoRow},
        tries : 0 .. MaxAttempts, answer : Requests \cup {NoRow}]]
  /\ row \in [Requests -> Row \cup {NoRow}] /\ written \in [Requests -> Row \cup {NoRow}]
  /\ audit \in [Requests -> Record \cup {NoRecord}] /\ record \in [Requests -> Record \cup {NoRecord}]
  /\ clock \in Nat /\ serial \in BOOLEAN

\* "An ERP retrying a create call with the same external_reference must get back
\* the existing record, never a duplicate": at most one record per reference and
\* per bill number, however the requests race (the partial unique indexes).
OneRecordPerReference ==
  \A q, r \in Requests : q # r =>
    ~Conflicts(row[q], row[r]) /\ ~Conflicts(row[q], written[r]) /\ ~Conflicts(written[q], written[r])

\* Whoever is answered gets a committed record of the kind and the reference it
\* asked for; its parent is committed too; what was created is audited once and
\* by its creator, a bill also announced and issued; what was only found is not
\* audited again (the savepoint of the loser leaves nothing behind).
AnsweredOnce ==
  /\ \A r \in Requests : At(r, "committed") =>
       /\ req[r].answer # NoRow /\ row[req[r].answer] # NoRow
       /\ row[req[r].answer].kind = req[r].kind /\ row[req[r].answer].ref = req[r].ref
       /\ (audit[r] # NoRecord) <=> (req[r].answer = r)
  /\ \A r \in Requests : row[r] # NoRow =>
       /\ audit[r] # NoRecord /\ row[r].status = "active"
       /\ row[r].kind = "bill" => row[r].told
       /\ row[r].kind \in DOMAIN ParentOf =>
            row[r].parent \in Committed(ParentOf[row[r].kind])
  /\ \A r \in Requests : audit[r] # NoRecord => row[r] # NoRow

\* verify_chain walks the records by created_at
Before(q) == {p \in Records : audit[p].created < audit[q].created}
Previous(q) == IF Before(q) = {} THEN Genesis
               ELSE CHOOSE p \in Before(q) : \A s \in Before(q) : audit[s].created <= audit[p].created

\* No record hangs from one that was rolled back; and with one request at a time
\* the whole chain verifies.  (Two requests that read the same last record fork
\* it: the limitation that the header of apps.audit.models admits.)
ChainVerifies ==
  /\ \A q \in Records : audit[q].previous \in Records \cup {Genesis}
  /\ serial => \A q \in Records : audit[q].previous = Previous(q)
=============================================================================
