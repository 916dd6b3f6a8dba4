---------------------------- MODULE ControlNumbers ----------------------------
(***************************************************************************)
(* The control-number engine (apps.control_numbers.services): get a bill's *)
(* or an account's control number, or create it and charge the creation    *)
(* fee.  A request is one READ COMMITTED transaction; each attempt to      *)
(* insert runs in a savepoint.  The unique indexes on value, on bill and   *)
(* on the account's ACTIVE number make an INSERT wait for an uncommitted   *)
(* row with the same key, and fail on a committed one.                     *)
(***************************************************************************)
EXTENDS Integers, FiniteSets, FiniteSetsExt

CONSTANTS
  Txns,       \* requests; each runs once
  Bills,      \* owners of one-time numbers
  Accounts,   \* owners of persistent numbers
  Values,     \* what generate_value may return
  Fee,        \* revenue.services.CONTROL_NUMBER_CREATION_FEE
  MaxAttempts, \* _MAX_GENERATION_ATTEMPTS
  NoOwner, NoValue

Owners == Bills \cup Accounts

ASSUME NumbersAssumption ==
  /\ Bills \cap Accounts = {}
  /\ NoOwner \notin Owners
  /\ NoValue \notin Values
  /\ Fee \in Nat \ {0}
  /\ MaxAttempts \in Nat \ {0}

VARIABLES
  numbers,   \* committed ControlNumber rows by value: owner (NoOwner: no row) and status
  events,    \* committed RevenueEvent rows, with the LedgerEntry of a creation
  pc,        \* where each request is
  owner,     \* whose number each request asks for
  attempts,  \* how many generated values each request has lost
  work,      \* the value each request has inserted, and its revenue event
  answer     \* the number each request returns, and whether it says created

vars == <<numbers, events, pc, owner, attempts, work, answer>>
db   == <<numbers, events>>

NumberStatus == {"ACTIVE", "EXPIRED", "CANCELLED"}
EventType    == {"CONTROL_NUMBER_CREATED", "CONTROL_NUMBER_REUSED"}
Event        == [type : EventType, number : Values, by : Txns, amt : Int, ledger : BOOLEAN]

NoRow    == [owner |-> NoOwner, status |-> "ACTIVE"]
NoWork   == [value |-> NoValue, events |-> {}]
NoAnswer == [value |-> NoValue, created |-> FALSE]

Issued(v) == numbers[v].owner # NoOwner

Open(t) == pc[t] \in {"insert", "recover", "commit"}

\* record_control_number_created, with its ledger entry; record_control_number_reused
CreationEvents(t, v) ==
  {[type |-> "CONTROL_NUMBER_CREATED", number |-> v, by |-> t, amt |-> Fee, ledger |-> TRUE]}
ReuseEvents(t, v) ==
  {[type |-> "CONTROL_NUMBER_REUSED", number |-> v, by |-> t, amt |-> 0, ledger |-> FALSE]}

-----------------------------------------------------------------------------
Init ==
  /\ numbers = [v \in Values |-> NoRow]
  /\ events = {}
  /\ pc = [t \in Txns |-> "idle"]
  /\ owner = [t \in Txns |-> NoOwner]
  /\ attempts = [t \in Txns |-> 0]
  /\ work = [t \in Txns |-> NoWork]
  /\ answer = [t \in Txns |-> NoAnswer]

-----------------------------------------------------------------------------
AnyOf(o) == {v \in Values : numbers[v].owner = o}

\* the lookup: a bill's number whatever its status, an account's ACTIVE one
Existing(o) ==
  {v \in Values : numbers[v].owner = o /\ (o \in Accounts => numbers[v].status = "ACTIVE")}

Returns(t, v, created) == answer' = [answer EXCEPT ![t] = [value |-> v, created |-> created]]

\* the first lookup; a number that is found is reused, without a fee
Lookup(t, o) ==
  /\ pc[t] = "idle"
  /\ owner' = [owner EXCEPT ![t] = o]
  /\ \/ \E v \in Existing(o) :
          /\ Returns(t, v, FALSE)
          /\ work' = [work EXCEPT ![t] = [value |-> NoValue, events |-> ReuseEvents(t, v)]]
          /\ pc' = [pc EXCEPT ![t] = "commit"]
     \/ /\ Existing(o) = {}
        /\ pc' = [pc EXCEPT ![t] = "insert"]
        /\ UNCHANGED <<work, answer>>
  /\ UNCHANGED <<db, attempts>>

NeverPending(o, v) == FALSE

\* an open request has inserted value v, or a number for o
Pending(o, v) ==
  \E u \in Txns : work[u].value # NoValue /\ (work[u].value = v \/ owner[u] = o)

\* a committed row has value v, or is o's under the unique index of its kind
Conflicts(o, v) == Issued(v) \/ Existing(o) # {}

Insert(t, v) ==
  /\ pc[t] = "insert"
  /\ ~Pending(owner[t], v)
  /\ ~Conflicts(owner[t], v)
  /\ work' = [work EXCEPT ![t] = [value |-> v, events |-> CreationEvents(t, v)]]
  /\ Returns(t, v, TRUE)
  /\ pc' = [pc EXCEPT ![t] = "commit"]
  /\ UNCHANGED <<db, owner, attempts>>

\* IntegrityError: the savepoint is rolled back
InsertFails(t, v) ==
  /\ pc[t] = "insert"
  /\ ~Pending(owner[t], v)
  /\ Conflicts(owner[t], v)
  /\ pc' = [pc EXCEPT ![t] = "recover"]
  /\ UNCHANGED <<db, owner, attempts, work, answer>>

LoserCharges(t, v) == CreationEvents(t, v)

\* the lost race leaves no event: the winner's is the only one
LoserEvents(t, v) == {}

ReturnWinnerAsCreated(t) ==
  /\ pc[t] = "recover"
  /\ \E v \in Existing(owner[t]) :
       /\ Returns(t, v, TRUE)
       /\ work' = [work EXCEPT ![t] = [value |-> NoValue, events |-> LoserEvents(t, v)]]
  /\ pc' = [pc EXCEPT ![t] = "commit"]
  /\ UNCHANGED <<db, owner, attempts>>

\* the second lookup, by a statement of its own: return what the winner created
ReturnWinner(t) ==
  /\ pc[t] = "recover"
  /\ \E v \in Existing(owner[t]) :
       /\ Returns(t, v, FALSE)
       /\ work' = [work EXCEPT ![t] = [value |-> NoValue, events |-> LoserEvents(t, v)]]
  /\ pc' = [pc EXCEPT ![t] = "commit"]
  /\ UNCHANGED <<db, owner, attempts>>

RetryUncounted(t) ==
  /\ pc[t] = "recover"
  /\ Existing(owner[t]) = {}
  /\ pc' = [pc EXCEPT ![t] = "insert"]
  /\ UNCHANGED <<db, owner, attempts, work, answer>>

RetryOnceMore(t) ==
  /\ pc[t] = "recover"
  /\ Existing(owner[t]) = {}
  /\ attempts[t] + 1 <= MaxAttempts
  /\ attempts' = [attempts EXCEPT ![t] = @ + 1]
  /\ pc' = [pc EXCEPT ![t] = "insert"]
  /\ UNCHANGED <<db, owner, work, answer>>

\* a value collision, or the winner's number is not ACTIVE any more: try another value
Retry(t) ==
  /\ pc[t] = "recover"
  /\ Existing(owner[t]) = {}
  /\ attempts[t] + 1 < MaxAttempts
  /\ attempts' = [attempts EXCEPT ![t] = @ + 1]
  /\ pc' = [pc EXCEPT ![t] = "insert"]
  /\ UNCHANGED <<db, owner, work, answer>>

Rollback(t) ==
  /\ pc' = [pc EXCEPT ![t] = "aborted"]
  /\ work' = [work EXCEPT ![t] = NoWork]
  /\ answer' = [answer EXCEPT ![t] = NoAnswer]
  /\ UNCHANGED <<db, owner, attempts>>

\* the attempts are used up and the last IntegrityError reaches the caller
GiveUp(t) ==
  /\ pc[t] = "recover"
  /\ Existing(owner[t]) = {}
  /\ attempts[t] + 1 = MaxAttempts
  /\ Rollback(t)

\* a crash, or an exception from any later statement of the request
Abort(t) == Open(t) /\ Rollback(t)

Commit(t) ==
  /\ pc[t] = "commit"
  /\ numbers' = [v \in Values |-> IF v = work[t].value
                                  THEN [owner |-> owner[t], status |-> "ACTIVE"]
                                  ELSE numbers[v]]
  /\ events' = events \cup work[t].events
  /\ work' = [work EXCEPT ![t] = NoWork]
  /\ pc' = [pc EXCEPT ![t] = "committed"]
  /\ UNCHANGED <<owner, attempts, answer>>

-----------------------------------------------------------------------------
(* cancel saves the status whatever it was; expire_overdue is one UPDATE of *)
(* the ACTIVE numbers that are overdue.  Each is one row update and commit, *)
(* so it takes effect in one step.                                          *)

SetStatus(S, status) ==
  [v \in Values |-> IF v \in S THEN [owner |-> numbers[v].owner, status |-> status]
                               ELSE numbers[v]]

Cancel(v) ==
  /\ Issued(v)
  /\ numbers' = SetStatus({v}, "CANCELLED")
  /\ UNCHANGED <<events, pc, owner, attempts, work, answer>>

ExpireOverdue(overdue) ==
  /\ \A v \in overdue : Issued(v) /\ numbers[v].status = "ACTIVE"
  /\ numbers' = SetStatus(overdue, "EXPIRED")
  /\ UNCHANGED <<events, pc, owner, attempts, work, answer>>

-----------------------------------------------------------------------------
Step(t) ==
  \/ \E v \in Values : Insert(t, v) \/ InsertFails(t, v)
  \/ ReturnWinner(t)
  \/ Retry(t)
  \/ GiveUp(t)
  \/ Commit(t)

AllEnded == (\A t \in Txns : pc[t] \in {"committed", "aborted"}) /\ UNCHANGED vars

Next ==
  \/ \E t \in Txns : (\E o \in Owners : Lookup(t, o)) \/ Step(t) \/ Abort(t)
  \/ \E v \in Values : Cancel(v)
  \/ \E overdue \in SUBSET Values \ {{}} : ExpireOverdue(overdue)
  \/ AllEnded

Spec == Init /\ [][Next]_vars

\* a worker that has begun a request keeps executing it
FairSpec == Spec /\ \A t \in Txns : WF_vars(Step(t))

-----------------------------------------------------------------------------
(* Type invariant: staged rows and answers name values that exist.          *)
TypeOK ==
  /\ numbers \in [Values -> [owner : Owners \cup {NoOwner}, status : NumberStatus]]
  /\ events \subseteq Event
  /\ pc \in [Txns -> {"idle", "insert", "recover", "commit", "committed", "aborted"}]
  /\ owner \in [Txns -> Owners \cup {NoOwner}]
  /\ attempts \in [Txns -> 0 .. MaxAttempts - 1]
  /\ work \in [Txns -> [value : Values \cup {NoValue}, events : SUBSET Event]]
  /\ answer \in [Txns -> [value : Values \cup {NoValue}, created : BOOLEAN]]

(***************************************************************************)
(* A bill never has two control numbers, and an account never two ACTIVE   *)
(* ones, although requests look first and insert later, and numbers are    *)
(* cancelled and expire in between (get_or_create_for_bill/_account).      *)
(***************************************************************************)
OneNumberPerOwner ==
  /\ \A b \in Bills : Cardinality(AnyOf(b)) <= 1
  /\ \A a \in Accounts : Cardinality(Existing(a)) <= 1

(***************************************************************************)
(* The creation fee is charged once for every number that was issued and   *)
(* never otherwise: not for a reuse, not to the loser of a race, not for   *)
(* a value that collided (docs/PRICING_MODEL.md).                          *)
(***************************************************************************)
CreationChargedOnce ==
  \A v \in Values :
    MapThenSumSet(LAMBDA e : e.amt, {e \in events : e.number = v})
      = IF Issued(v) THEN Fee ELSE 0

(***************************************************************************)
(* A request returns a number of the owner it asked for, and says created  *)
(* exactly if it is the request that was charged for it: ERPs retry on     *)
(* that answer (BillControlNumberView.post).                               *)
(***************************************************************************)
AnswersAreTrue ==
  \A t \in Txns : pc[t] = "committed" =>
    LET v == answer[t].value IN
    /\ v \in AnyOf(owner[t])
    /\ answer[t].created <=> CreationEvents(t, v) \subseteq events

(***************************************************************************)
(* Every request that has begun ends: waiting at one of the indexes never  *)
(* forms a cycle, and collisions are retried a bounded number of times.    *)
(***************************************************************************)
EveryRequestEnds == \A t \in Txns : pc[t] # "idle" ~> pc[t] \in {"committed", "aborted"}
=============================================================================
