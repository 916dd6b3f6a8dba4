----------------------------- MODULE NumberProofs -----------------------------
(***************************************************************************)
(* Theorems about the control-number engine, for any requests, bills,      *)
(* accounts, values and number of attempts.                                *)
(***************************************************************************)
EXTENDS ControlNumbers, SumLemmas

(***************************************************************************)
(* What the unique indexes give.  A committed owner has one number under   *)
(* the index of its kind; and what a request has inserted conflicts with   *)
(* no committed row and with nothing another request has inserted, since   *)
(* nobody else could insert meanwhile.  The second conjunct is what makes  *)
(* the first survive a Commit: it is seldom visible in the committed rows. *)
(***************************************************************************)
CommittedUnique ==
  \A v, w \in Values :
    /\ numbers[v].owner # NoOwner
    /\ numbers[v].owner = numbers[w].owner
    /\ numbers[v].owner \in Accounts =>
         numbers[v].status = "ACTIVE" /\ numbers[w].status = "ACTIVE"
    => v = w

StagedFree ==
  \A t \in Txns : work[t].value # NoValue =>
    /\ owner[t] \in Owners
    /\ pc[t] = "commit"
    /\ ~Conflicts(owner[t], work[t].value)
    /\ \A u \in Txns \ {t} : work[u].value # NoValue =>
         work[u].value # work[t].value /\ owner[u] # owner[t]

AskedFor == \A t \in Txns : pc[t] # "idle" => owner[t] \in Owners

NumberInv == TypeOK /\ AskedFor /\ CommittedUnique /\ StagedFree

-----------------------------------------------------------------------------
\* The state of an idle engine satisfies the invariant.
LEMMA InitNumbers == Init => NumberInv
BY NumbersAssumption
DEF Init, NumberInv, TypeOK, AskedFor, CommittedUnique, StagedFree, NoRow, NoWork, NoAnswer,
    NumberStatus, Owners

\* Every step keeps the types.
LEMMA TypeStep ==
  ASSUME NumberInv, [Next]_vars PROVE TypeOK'
<1> USE NumbersAssumption DEF NumberInv, TypeOK
<1>1. ASSUME NEW t \in Txns, NEW o \in Owners, Lookup(t, o) PROVE TypeOK'
  <2>1. ASSUME NEW v \in Existing(o), Returns(t, v, FALSE),
               work' = [work EXCEPT ![t] = [value |-> NoValue, events |-> ReuseEvents(t, v)]],
               pc' = [pc EXCEPT ![t] = "commit"]
        PROVE  TypeOK'
    <3>1. ReuseEvents(t, v) \subseteq Event
      BY <2>1 DEF ReuseEvents, Event, EventType, Existing
    <3>2. work' \in [Txns -> [value : Values \cup {NoValue}, events : SUBSET Event]]
      BY <2>1, <3>1
    <3>3. QED
      BY <1>1, <2>1, <3>2 DEF Lookup, Returns, db, Existing
  <2>2. CASE pc' = [pc EXCEPT ![t] = "insert"] /\ UNCHANGED <<work, answer>>
    BY <1>1, <2>2 DEF Lookup, db
  <2>3. QED
    BY <1>1, <2>1, <2>2 DEF Lookup
<1>2. ASSUME NEW t \in Txns, NEW v \in Values, Insert(t, v) PROVE TypeOK'
  BY <1>2 DEF Insert, Returns, CreationEvents, db, Event, EventType
<1>3. ASSUME NEW t \in Txns, NEW v \in Values, InsertFails(t, v) PROVE TypeOK'
  BY <1>3 DEF InsertFails, db
<1>4. ASSUME NEW t \in Txns, ReturnWinner(t) PROVE TypeOK'
  BY <1>4 DEF ReturnWinner, Returns, LoserEvents, db, Existing
<1>5. ASSUME NEW t \in Txns, Retry(t) PROVE TypeOK'
  BY <1>5 DEF Retry, db
<1>6. ASSUME NEW t \in Txns, Rollback(t) PROVE TypeOK'
  BY <1>6 DEF Rollback, NoWork, NoAnswer, db
<1>7. ASSUME NEW t \in Txns, Commit(t) PROVE TypeOK'
  BY <1>7 DEF Commit, NoWork, NumberStatus, AskedFor
<1>8. ASSUME NEW S \in SUBSET Values, NEW s \in NumberStatus,
             numbers' = SetStatus(S, s), UNCHANGED <<events, pc, owner, attempts, work, answer>>
      PROVE  TypeOK'
  BY <1>8 DEF SetStatus, NumberStatus
<1>9. CASE UNCHANGED vars
  BY <1>9 DEF vars
<1>10. QED
  BY <1>1, <1>2, <1>3, <1>4, <1>5, <1>6, <1>7, <1>8, <1>9
  DEF Next, Step, GiveUp, Abort, Cancel, ExpireOverdue, AllEnded, NumberStatus

-----------------------------------------------------------------------------
Unique == AskedFor /\ CommittedUnique /\ StagedFree

\* A step of one request that neither commits nor inserts disturbs nothing.
LEMMA QuietStep ==
  ASSUME NumberInv, NEW t \in Txns, numbers' = numbers,
         \A u \in Txns \ {t} : work'[u] = work[u] /\ owner'[u] = owner[u] /\ pc'[u] = pc[u],
         work'[t].value = NoValue, owner'[t] \in Owners
  PROVE  Unique'
<1>1. AskedFor'
  BY DEF NumberInv, AskedFor
<1>2. CommittedUnique'
  BY DEF NumberInv, CommittedUnique
<1>3. StagedFree'
  BY DEF NumberInv, StagedFree, Conflicts, Issued, Existing
<1>4. QED
  BY <1>1, <1>2, <1>3 DEF Unique

\* An INSERT that neither waits nor fails is free of conflicts.
LEMMA InsertStep ==
  ASSUME NumberInv, NEW t \in Txns, NEW v \in Values, Insert(t, v)
  PROVE  Unique'
<1>1. /\ pc[t] = "insert"
      /\ ~Pending(owner[t], v)
      /\ ~Conflicts(owner[t], v)
      /\ numbers' = numbers /\ owner' = owner
      /\ work'[t].value = v
      /\ pc'[t] = "commit"
      /\ \A u \in Txns \ {t} : work'[u] = work[u] /\ pc'[u] = pc[u]
  BY DEF Insert, db, NumberInv, TypeOK
<1>2. AskedFor'
  BY <1>1 DEF NumberInv, AskedFor
<1>3. CommittedUnique'
  BY <1>1 DEF NumberInv, CommittedUnique
<1>4. StagedFree'
  <2>1. \A o, w : Conflicts(o, w)' <=> Conflicts(o, w)
    BY <1>1 DEF Conflicts, Issued, Existing
  <2>2. \A u \in Txns \ {t} : work[u].value # NoValue =>
          work[u].value # v /\ owner[u] # owner[t]
    BY <1>1 DEF Pending
  <2>3. owner[t] \in Owners
    BY <1>1 DEF NumberInv, AskedFor
  <2>4. QED
    BY <1>1, <2>1, <2>2, <2>3 DEF NumberInv, StagedFree
<1>5. QED
  BY <1>2, <1>3, <1>4 DEF Unique

\* A commit publishes a row that conflicts with no other.
LEMMA CommitStep ==
  ASSUME NumberInv, NEW t \in Txns, Commit(t)
  PROVE  Unique'
<1>1. /\ pc[t] = "commit" /\ owner' = owner
      /\ work'[t].value = NoValue
      /\ \A u \in Txns \ {t} : work'[u] = work[u] /\ pc'[u] = pc[u]
      /\ \A v \in Values : numbers'[v] = IF v = work[t].value
                                         THEN [owner |-> owner[t], status |-> "ACTIVE"]
                                         ELSE numbers[v]
  BY DEF Commit, NumberInv, TypeOK, NoWork
<1>2. AskedFor'
  BY <1>1 DEF NumberInv, AskedFor
<1>3. CASE work[t].value = NoValue
  <2>1. \A v \in Values : numbers'[v] = numbers[v]
    BY <1>1, <1>3, NumbersAssumption
  <2>2. numbers' = numbers
    BY <2>1 DEF Commit, NumberInv, TypeOK
  <2>3. QED
    BY <1>1, <2>2, QuietStep DEF NumberInv, AskedFor
<1>4. CASE work[t].value # NoValue
  <2> DEFINE n == work[t].value
  <2>1. n \in Values /\ owner[t] \in Owners /\ ~Conflicts(owner[t], n)
    BY <1>4 DEF NumberInv, TypeOK, StagedFree
  <2>2. owner[t] # NoOwner
    BY <2>1, NumbersAssumption
  <2>3. \A w \in Values : numbers[w].owner = owner[t] =>
          owner[t] \in Accounts /\ numbers[w].status # "ACTIVE"
    BY <2>1 DEF Conflicts, Existing
  <2>4. CommittedUnique'
    BY <1>1, <2>1, <2>3 DEF NumberInv, CommittedUnique
  <2>5. ASSUME NEW u \in Txns, work'[u].value # NoValue
        PROVE  /\ u # t /\ owner'[u] \in Owners /\ pc'[u] = "commit"
               /\ ~Conflicts(owner[u], work[u].value)'
               /\ \A x \in Txns \ {u} : work'[x].value # NoValue =>
                    work'[x].value # work'[u].value /\ owner'[x] # owner'[u]
    <3>1. u # t /\ work'[u] = work[u] /\ pc'[u] = pc[u]
      BY <1>1, <2>5
    <3>2. /\ owner[u] \in Owners /\ pc[u] = "commit"
          /\ ~Conflicts(owner[u], work[u].value)
          /\ n # work[u].value /\ owner[t] # owner[u]
      BY <1>4, <2>5, <3>1 DEF NumberInv, StagedFree
    <3>3. ~Issued(work[u].value)'
      BY <1>1, <3>1, <3>2, <2>5 DEF Conflicts, Issued, NumberInv, TypeOK
    <3>4. Existing(owner[u])' = {}
      BY <1>1, <3>2 DEF Conflicts, Existing
    <3>5. \A x \in Txns \ {u} : work'[x].value # NoValue =>
            work'[x].value # work'[u].value /\ owner'[x] # owner'[u]
      BY <1>1, <2>5, <3>1 DEF NumberInv, StagedFree
    <3>6. QED
      BY <1>1, <3>1, <3>2, <3>3, <3>4, <3>5 DEF Conflicts
  <2>6. StagedFree'
    BY <2>5, <1>1 DEF StagedFree
  <2>7. QED
    BY <1>2, <2>4, <2>6 DEF Unique
<1>5. QED
  BY <1>3, <1>4

\* A number that is cancelled or expires leaves its account's index, and no row enters one.
LEMMA StatusStep ==
  ASSUME NumberInv, NEW S \in SUBSET Values, NEW s \in NumberStatus \ {"ACTIVE"},
         numbers' = SetStatus(S, s), UNCHANGED <<events, pc, owner, attempts, work, answer>>
  PROVE  Unique'
<1>1. \A v \in Values : /\ numbers'[v].owner = numbers[v].owner
                        /\ numbers'[v].status = "ACTIVE" => numbers[v].status = "ACTIVE"
  BY DEF SetStatus, NumberInv, TypeOK, NumberStatus
<1>2. CommittedUnique'
  BY <1>1 DEF NumberInv, CommittedUnique
<1>3. \A o \in Owners, v \in Values : ~Conflicts(o, v) => ~Conflicts(o, v)'
  BY <1>1 DEF Conflicts, Issued, Existing
<1>4. StagedFree'
  BY <1>3 DEF NumberInv, StagedFree, TypeOK
<1>5. QED
  BY <1>2, <1>4 DEF Unique, NumberInv, AskedFor

\* The invariant is inductive.
LEMMA NumberStep == NumberInv /\ [Next]_vars => NumberInv'
<1> SUFFICES ASSUME NumberInv, [Next]_vars PROVE NumberInv'
  OBVIOUS
<1>1. TypeOK'
  BY TypeStep
<1>2. Unique'
  <2>1. ASSUME NEW t \in Txns, NEW o \in Owners, Lookup(t, o) PROVE Unique'
    <3>1. work[t].value = NoValue
      BY <2>1 DEF Lookup, NumberInv, StagedFree
    <3>2. numbers' = numbers /\ owner'[t] = o /\ work'[t].value = NoValue
      <4>1. CASE UNCHANGED <<work, answer>>
        BY <2>1, <3>1, <4>1 DEF Lookup, db, NumberInv, TypeOK
      <4>2. ASSUME NEW v \in Existing(o),
                   work' = [work EXCEPT ![t] = [value |-> NoValue, events |-> ReuseEvents(t, v)]]
            PROVE  work'[t].value = NoValue
        BY <4>2 DEF NumberInv, TypeOK
      <4>3. QED
        BY <2>1, <4>1, <4>2 DEF Lookup, db, NumberInv, TypeOK
    <3>3. \A u \in Txns \ {t} : work'[u] = work[u] /\ owner'[u] = owner[u] /\ pc'[u] = pc[u]
      BY <2>1 DEF Lookup, NumberInv, TypeOK
    <3>4. QED
      BY <3>2, <3>3, QuietStep
  <2>2. ASSUME NEW t \in Txns, NEW v \in Values, InsertFails(t, v) PROVE Unique'
    <3>1. work[t].value = NoValue /\ owner[t] \in Owners
      BY <2>2 DEF InsertFails, NumberInv, StagedFree, AskedFor
    <3>2. QED
      BY <2>2, <3>1, QuietStep DEF InsertFails, db, NumberInv, TypeOK
  <2>3. ASSUME NEW t \in Txns, ReturnWinner(t) PROVE Unique'
    <3>1. owner[t] \in Owners
      BY <2>3 DEF ReturnWinner, NumberInv, AskedFor
    <3>2. QED
      BY <2>3, <3>1, QuietStep DEF ReturnWinner, db, NumberInv, TypeOK
  <2>4. ASSUME NEW t \in Txns, Retry(t) PROVE Unique'
    <3>1. work[t].value = NoValue /\ owner[t] \in Owners
      BY <2>4 DEF Retry, NumberInv, StagedFree, AskedFor
    <3>2. QED
      BY <2>4, <3>1, QuietStep DEF Retry, db, NumberInv, TypeOK
  <2>5. ASSUME NEW t \in Txns, pc[t] # "idle", Rollback(t) PROVE Unique'
    <3>1. owner[t] \in Owners
      BY <2>5 DEF NumberInv, AskedFor
    <3>2. QED
      BY <2>5, <3>1, QuietStep DEF Rollback, NoWork, db, NumberInv, TypeOK
  <2>6. CASE UNCHANGED vars
    BY <2>6 DEF vars, NumberInv, Unique, AskedFor, CommittedUnique, StagedFree,
                Conflicts, Issued, Existing
  <2>7. ASSUME NEW v \in Values, Cancel(v) PROVE Unique'
    BY <2>7, StatusStep DEF Cancel, NumberStatus
  <2>8. ASSUME NEW S \in SUBSET Values, ExpireOverdue(S) PROVE Unique'
    BY <2>8, StatusStep DEF ExpireOverdue, NumberStatus
  <2>9. QED
    BY <2>1, <2>2, <2>3, <2>4, <2>5, <2>6, <2>7, <2>8, InsertStep, CommitStep
    DEF Next, Step, GiveUp, Abort, Open, AllEnded
<1>3. QED
  BY <1>1, <1>2 DEF NumberInv, Unique

\* The invariant says what OneNumberPerOwner counts.
LEMMA UniqueIsOne == NumberInv => OneNumberPerOwner
<1> SUFFICES ASSUME NumberInv PROVE OneNumberPerOwner
  OBVIOUS
<1>1. ASSUME NEW S, \A v, w \in S : v = w PROVE Cardinality(S) <= 1
  <2>1. CASE S = {}
    BY <2>1, FS_EmptySet
  <2>2. CASE S # {}
    <3>1. PICK x \in S : S = {x}
      BY <1>1, <2>2
    <3>2. QED
      BY <3>1, FS_Singleton
  <2>3. QED
    BY <2>1, <2>2
<1>2. \A b \in Bills : \A v, w \in AnyOf(b) : v = w
  BY NumbersAssumption DEF NumberInv, CommittedUnique, AnyOf, Owners
<1>3. \A a \in Accounts : \A v, w \in Existing(a) : v = w
  BY NumbersAssumption DEF NumberInv, CommittedUnique, Existing, Owners
<1>4. QED
  BY <1>1, <1>2, <1>3 DEF OneNumberPerOwner

\* Every reachable state of the engine satisfies the invariant.
LEMMA NumbersInvariant == Spec => []NumberInv
BY InitNumbers, NumberStep, PTL DEF Spec

(***************************************************************************)
(* A bill never has two control numbers and an account never two ACTIVE    *)
(* ones, however many requests race, fail, retry, cancel or expire         *)
(* (get_or_create_for_bill, get_or_create_for_account).                    *)
(***************************************************************************)
THEOREM NumbersAreUnique == Spec => []OneNumberPerOwner
BY NumbersInvariant, UniqueIsOne, PTL

(***************************************************************************)
(* Every reachable state is well typed: what get_or_create_for_bill and    *)
(* get_or_create_for_account have read, staged and answered are values,    *)
(* owners and events that exist, and attempts stay below                   *)
(* _MAX_GENERATION_ATTEMPTS.                                               *)
(***************************************************************************)
THEOREM TypeCorrect == Spec => []TypeOK
<1>1. NumberInv => TypeOK
  BY DEF NumberInv
<1>2. QED
  BY <1>1, NumbersInvariant, PTL

-----------------------------------------------------------------------------
(***************************************************************************)
(* Fees and answers.  An event is about a number that has been issued and  *)
(* was written by a request that has committed; so neither a request in    *)
(* progress nor a value not yet issued has any, and the one event a commit *)
(* adds is new.  What a request is about to commit says the same as what   *)
(* it is about to answer.                                                  *)
(***************************************************************************)
EventsOwned ==
  /\ IsFiniteSet(events)
  /\ \A e \in events : Issued(e.number) /\ pc[e.by] = "committed"

Answering(t) ==
  /\ pc[t] # "commit" => work[t].value = NoValue
  /\ work[t].value # NoValue =>
       /\ work[t].events = CreationEvents(t, work[t].value)
       /\ answer[t].value = work[t].value
       /\ answer[t].created = TRUE
  /\ pc[t] = "commit" /\ work[t].value = NoValue =>
       /\ answer[t].value \in AnyOf(owner[t])
       /\ answer[t].created = FALSE
       /\ work[t].events \subseteq ReuseEvents(t, answer[t].value)

Answered(t) ==
  pc[t] = "committed" =>
    /\ answer[t].value \in AnyOf(owner[t])
    /\ answer[t].created <=> CreationEvents(t, answer[t].value) \subseteq events

\* The fees of one number among the events E.
FeesIn(E, v) == SumOf([e \in Event |-> e.amt], {e \in E : e.number = v})

FeesRight == \A v \in Values : FeesIn(events, v) = IF Issued(v) THEN Fee ELSE 0

FeeInv ==
  /\ EventsOwned
  /\ FeesRight
  /\ \A t \in Txns : Answering(t) /\ Answered(t)

\* CreationChargedOnce says of MapThenSumSet what FeesRight says of FeesIn.
LEMMA FeesAre ==
  ASSUME NEW E \in SUBSET Event, IsFiniteSet(E), NEW v
  PROVE  MapThenSumSet(LAMBDA e : e.amt, {e \in E : e.number = v}) = FeesIn(E, v)
<1>1. IsFiniteSet({e \in E : e.number = v})
  BY FS_Subset
<1>2. {e \in E : e.number = v} \in SUBSET Event
  OBVIOUS
<1>3. QED
  BY <1>1, <1>2, SumOfAmounts DEF FeesIn

\* One event more adds its amount to the number it is about, and to no other.
LEMMA FeesAdd ==
  ASSUME NEW E \in SUBSET Event, IsFiniteSet(E), NEW x \in Event, x \notin E, NEW v
  PROVE  /\ FeesIn(E, v) \in Int
         /\ FeesIn(E \cup {x}, v) = IF x.number = v THEN x.amt + FeesIn(E, v) ELSE FeesIn(E, v)
<1> DEFINE S == {e \in E : e.number = v}
           f == [e \in Event |-> e.amt]
<1>1. IsFiniteSet(S) /\ S \subseteq Event /\ x \notin S
  BY FS_Subset
<1>2. \A e \in Event : f[e] = e.amt /\ f[e] \in Int
  BY DEF Event
<1>3. FeesIn(E, v) = SumOf(f, S)
  BY DEF FeesIn
<1>4. /\ x.number = v => {e \in E \cup {x} : e.number = v} = S \cup {x}
      /\ x.number # v => {e \in E \cup {x} : e.number = v} = S
  OBVIOUS
<1>5. FeesIn(E \cup {x}, v) = SumOf(f, {e \in E \cup {x} : e.number = v})
  BY DEF FeesIn
<1> HIDE DEF S, f
<1>6. SumOf(f, S) \in Int
  BY <1>1, <1>2, SumInt
<1>7. SumOf(f, S \cup {x}) = f[x] + SumOf(f, S)
  <2>1. \A y \in S \cup {x} : f[y] \in Int
    BY <1>1, <1>2
  <2>2. QED
    BY <1>1, <2>1, SumAdd
<1>8. QED
  BY <1>2, <1>3, <1>4, <1>5, <1>6, <1>7

\* A step of request t that issues nothing and ends nothing with a commit.
LEMMA QuietFees ==
  ASSUME NumberInv, FeeInv, NEW t \in Txns, numbers' = numbers, events' = events,
         pc[t] # "committed", pc'[t] # "committed",
         \A u \in Txns \ {t} : /\ work'[u] = work[u] /\ owner'[u] = owner[u]
                               /\ pc'[u] = pc[u] /\ answer'[u] = answer[u],
         Answering(t)'
  PROVE  FeeInv'
<1>1. EventsOwned'
  <2>1. \A e \in events : e.by \in Txns
    BY DEF NumberInv, TypeOK, Event
  <2>2. QED
    BY <2>1 DEF FeeInv, EventsOwned, Issued
<1>2. FeesRight'
  BY DEF FeeInv, FeesRight, Issued
<1>3. ASSUME NEW u \in Txns \ {t} PROVE Answering(u)' /\ Answered(u)'
  BY <1>3 DEF FeeInv, Answering, Answered, AnyOf
<1>4. Answered(t)'
  BY DEF Answered
<1>5. QED
  BY <1>1, <1>2, <1>3, <1>4 DEF FeeInv

\* A change of status changes no owner.
LEMMA StatusFees ==
  ASSUME NumberInv, FeeInv, NEW S \in SUBSET Values, NEW s \in NumberStatus,
         numbers' = SetStatus(S, s), UNCHANGED <<events, pc, owner, attempts, work, answer>>
  PROVE  FeeInv'
<1>1. \A v \in Values : numbers'[v].owner = numbers[v].owner
  BY DEF SetStatus, NumberInv, TypeOK
<1>2. \A o : AnyOf(o)' = AnyOf(o)
  BY <1>1 DEF AnyOf
<1>3. \A v \in Values : Issued(v)' <=> Issued(v)
  BY <1>1 DEF Issued
<1>4. \A e \in events : e.number \in Values
  BY DEF NumberInv, TypeOK, Event
<1>5. EventsOwned'
  BY <1>3, <1>4 DEF FeeInv, EventsOwned
<1>6. FeesRight'
  BY <1>3 DEF FeeInv, FeesRight
<1>7. \A t \in Txns : Answering(t)' /\ Answered(t)'
  BY <1>2 DEF FeeInv, Answering, Answered
<1>8. QED
  BY <1>5, <1>6, <1>7 DEF FeeInv

\* What a commit adds to the fees: the creation fee of the number it issues, or nothing.
LEMMA CommitCharges ==
  ASSUME NumberInv, FeeInv, NEW t \in Txns, Commit(t)
  PROVE  /\ EventsOwned'
         /\ FeesRight'
<1>1. /\ pc[t] = "commit" /\ events' = events \cup work[t].events
      /\ \A u \in Txns : pc'[u] = IF u = t THEN "committed" ELSE pc[u]
      /\ \A v \in Values : numbers'[v] = IF v = work[t].value
                                         THEN [owner |-> owner[t], status |-> "ACTIVE"]
                                         ELSE numbers[v]
  BY DEF Commit, NumberInv, TypeOK
<1>2. events \in SUBSET Event /\ IsFiniteSet(events)
  BY DEF NumberInv, TypeOK, FeeInv, EventsOwned
<1>3. \A e \in events : e.number \in Values /\ e.by \in Txns /\ Issued(e.number) /\ e.by # t
  BY <1>1 DEF NumberInv, TypeOK, Event, FeeInv, EventsOwned
<1>4. owner[t] # NoOwner
  BY <1>1, NumbersAssumption DEF NumberInv, AskedFor
<1>5. \A v \in Values : Issued(v)' <=> (Issued(v) \/ v = work[t].value)
  BY <1>1, <1>4 DEF Issued
<1>6. \A v \in Values : FeesIn(events, v) = IF Issued(v) THEN Fee ELSE 0
  BY DEF FeeInv, FeesRight
<1>7. ASSUME NEW x \in Event, work[t].events = {x}, Issued(x.number)', x.by = t,
             \A v \in Values : (IF Issued(v) THEN Fee ELSE 0)' =
                               IF x.number = v THEN x.amt + FeesIn(events, v) ELSE FeesIn(events, v)
      PROVE  EventsOwned' /\ FeesRight'
  <2>1. events' = events \cup {x} /\ x \notin events
    BY <1>1, <1>3, <1>7
  <2>2. IsFiniteSet(events') /\ events' \in SUBSET Event
    BY <1>2, <2>1, FS_AddElement
  <2>3. EventsOwned'
    BY <1>1, <1>3, <1>5, <1>7, <2>1, <2>2 DEF EventsOwned, FeeInv
  <2>4. ASSUME NEW v \in Values
        PROVE  FeesIn(events', v) = (IF Issued(v) THEN Fee ELSE 0)'
    <3>1. FeesIn(events', v) = IF x.number = v THEN x.amt + FeesIn(events, v)
                                               ELSE FeesIn(events, v)
      BY <1>2, <2>1, FeesAdd
    <3>2. QED
      BY <1>7, <3>1
  <2>5. QED
    BY <2>3, <2>4 DEF FeesRight
<1>8. ASSUME work[t].events = {}, \A v \in Values : Issued(v)' <=> Issued(v)
      PROVE  EventsOwned' /\ FeesRight'
  <2>1. events' = events
    BY <1>1, <1>8
  <2>2. EventsOwned'
    BY <1>2, <1>3, <1>1, <1>8, <2>1 DEF EventsOwned, FeeInv
  <2>3. QED
    BY <1>8, <2>1, <2>2 DEF FeesRight, FeeInv
<1>9. CASE work[t].value # NoValue
  <2>1. PICK v : v = work[t].value
    OBVIOUS
  <2>2. v \in Values /\ ~Issued(v) /\ work[t].events = CreationEvents(t, v)
    BY <1>9, <2>1 DEF NumberInv, TypeOK, StagedFree, Conflicts, FeeInv, Answering
  <2>3. PICK x : x = [type |-> "CONTROL_NUMBER_CREATED", number |-> v, by |-> t,
                      amt |-> Fee, ledger |-> TRUE]
    OBVIOUS
  <2>4. /\ x \in Event /\ work[t].events = {x} /\ x.by = t
        /\ x.number = v /\ x.amt = Fee
    BY <2>2, <2>3, NumbersAssumption DEF CreationEvents, Event, EventType
  <2>5. \A w \in Values : (IF Issued(w) THEN Fee ELSE 0)' =
                            IF x.number = w THEN x.amt + FeesIn(events, w) ELSE FeesIn(events, w)
    BY <1>5, <1>6, <2>1, <2>2, <2>4, NumbersAssumption
  <2>6. Issued(x.number)'
    BY <1>5, <2>1, <2>2, <2>4
  <2>7. QED
    BY <1>7, <2>4, <2>5, <2>6
<1>10. CASE work[t].value = NoValue
  <2>1. PICK v : v = answer[t].value
    OBVIOUS
  <2>2. v \in Values /\ numbers[v].owner = owner[t] /\ work[t].events \subseteq ReuseEvents(t, v)
    BY <1>1, <1>10, <2>1 DEF FeeInv, Answering, AnyOf
  <2>3. \A w \in Values : Issued(w)' <=> Issued(w)
    BY <1>5, <1>10, NumbersAssumption
  <2>4. PICK x : x = [type |-> "CONTROL_NUMBER_REUSED", number |-> v, by |-> t,
                      amt |-> 0, ledger |-> FALSE]
    OBVIOUS
  <2>5. /\ x \in Event /\ x.by = t /\ x.number = v /\ x.amt = 0
        /\ ReuseEvents(t, v) = {x}
    BY <2>2, <2>4 DEF ReuseEvents, Event, EventType
  <2>6. Issued(v)
    BY <1>4, <2>2 DEF Issued
  <2>7. CASE work[t].events = {x}
    <3>1. \A w \in Values : (IF Issued(w) THEN Fee ELSE 0)' =
                              IF x.number = w THEN x.amt + FeesIn(events, w) ELSE FeesIn(events, w)
      BY <1>6, <2>3, <2>5, NumbersAssumption
    <3>2. QED
      BY <1>7, <2>2, <2>3, <2>5, <2>6, <2>7, <3>1
  <2>8. CASE work[t].events = {}
    BY <1>8, <2>3, <2>8
  <2>9. QED
    BY <2>2, <2>5, <2>7, <2>8
<1>11. QED
  BY <1>9, <1>10

\* What a request answers after its commit is what it published.
LEMMA CommitAnswers ==
  ASSUME NumberInv, FeeInv, NEW t \in Txns, Commit(t)
  PROVE  \A u \in Txns : Answering(u)' /\ Answered(u)'
<1>1. /\ pc[t] = "commit" /\ events' = events \cup work[t].events
      /\ pc'[t] = "committed" /\ work'[t].value = NoValue
      /\ \A u \in Txns \ {t} : pc'[u] = pc[u] /\ work'[u] = work[u]
      /\ owner' = owner /\ answer' = answer
      /\ \A v \in Values : numbers'[v] = IF v = work[t].value
                                         THEN [owner |-> owner[t], status |-> "ACTIVE"]
                                         ELSE numbers[v]
  BY DEF Commit, NumberInv, TypeOK, NoWork
<1>2. \A e \in events : e.by # t
  BY <1>1 DEF FeeInv, EventsOwned
<1>3. ASSUME NEW v \in Values, numbers[v].owner # NoOwner
      PROVE  numbers'[v].owner = numbers[v].owner
  <2>1. work[t].value # NoValue => ~Issued(work[t].value)
    BY DEF NumberInv, StagedFree, Conflicts
  <2>2. v # work[t].value
    BY <1>3, <2>1, NumbersAssumption DEF Issued
  <2>3. QED
    BY <1>1, <2>2
<1>4. ASSUME NEW u \in Txns, owner[u] # NoOwner, NEW v \in AnyOf(owner[u])
      PROVE  v \in AnyOf(owner[u])'
  BY <1>1, <1>3, <1>4 DEF AnyOf
<1>5. ASSUME NEW u \in Txns \ {t} PROVE Answering(u)' /\ Answered(u)'
  <2>1. Answering(u)'
    <3>1. pc[u] = "commit" => owner[u] # NoOwner
      BY NumbersAssumption DEF NumberInv, AskedFor
    <3>2. QED
      BY <1>1, <1>4, <3>1 DEF FeeInv, Answering
  <2>2. ASSUME pc[u] = "committed"
        PROVE  /\ answer[u].value \in AnyOf(owner[u])'
               /\ answer[u].created <=> CreationEvents(u, answer[u].value) \subseteq events'
    <3>1. owner[u] # NoOwner
      BY <2>2, NumbersAssumption DEF NumberInv, AskedFor
    <3>2. /\ answer[u].value \in AnyOf(owner[u])
          /\ answer[u].created <=> CreationEvents(u, answer[u].value) \subseteq events
      BY <2>2 DEF FeeInv, Answered
    <3>3. \A e \in work[t].events : e.by = t
      <4>1. CASE work[t].value # NoValue
        BY <4>1 DEF FeeInv, Answering, CreationEvents
      <4>2. CASE work[t].value = NoValue
        BY <1>1, <4>2 DEF FeeInv, Answering, ReuseEvents
      <4>3. QED
        BY <4>1, <4>2
    <3>4. CreationEvents(u, answer[u].value) \cap work[t].events = {}
      BY <3>3 DEF CreationEvents
    <3>5. QED
      BY <1>1, <1>4, <3>1, <3>2, <3>4 DEF CreationEvents
  <2>3. Answered(u)'
    BY <1>1, <2>2 DEF Answered, CreationEvents
  <2>4. QED
    BY <2>1, <2>3
<1>6. Answering(t)'
  BY <1>1 DEF Answering
<1>7. Answered(t)'
  <2>1. PICK v : v = answer[t].value
    OBVIOUS
  <2>2. CASE work[t].value # NoValue
    <3>1. v = work[t].value /\ answer[t].created = TRUE /\ work[t].events = CreationEvents(t, v)
      BY <2>1, <2>2 DEF FeeInv, Answering
    <3>2. v \in Values
      BY <2>2, <3>1 DEF NumberInv, TypeOK
    <3>3. v \in AnyOf(owner[t])'
      BY <1>1, <3>1, <3>2 DEF AnyOf
    <3>4. QED
      BY <1>1, <2>1, <3>1, <3>3 DEF Answered, CreationEvents
  <2>3. CASE work[t].value = NoValue
    <3>1. v \in AnyOf(owner[t]) /\ answer[t].created = FALSE
          /\ work[t].events \subseteq ReuseEvents(t, v)
      BY <1>1, <2>1, <2>3 DEF FeeInv, Answering
    <3>2. v \in AnyOf(owner[t])'
      BY <1>1, <1>4, <3>1, NumbersAssumption DEF NumberInv, AskedFor
    <3>3. \A e \in events' : ~(e.by = t /\ e.type = "CONTROL_NUMBER_CREATED")
      BY <1>1, <1>2, <3>1 DEF ReuseEvents
    <3>4. ~(CreationEvents(t, v) \subseteq events')
      BY <3>3 DEF CreationEvents
    <3>5. QED
      BY <1>1, <2>1, <3>1, <3>2, <3>4 DEF Answered, CreationEvents
  <2>4. QED
    BY <2>2, <2>3
<1>8. QED
  BY <1>5, <1>6, <1>7

\* Fees and answers stay right in every step.
LEMMA FeeStep == NumberInv /\ FeeInv /\ [Next]_vars => FeeInv'
<1> SUFFICES ASSUME NumberInv, FeeInv, [Next]_vars PROVE FeeInv'
  OBVIOUS
<1>1. ASSUME NEW t \in Txns, NEW v \in Values, numbers[v].owner = owner'[t], Returns(t, v, FALSE),
             NEW E \in SUBSET ReuseEvents(t, v),
             work' = [work EXCEPT ![t] = [value |-> NoValue, events |-> E]],
             pc' = [pc EXCEPT ![t] = "commit"], pc[t] # "committed",
             numbers' = numbers, events' = events,
             \A u \in Txns \ {t} : owner'[u] = owner[u]
      PROVE  FeeInv'
  <2>1. /\ \A u \in Txns \ {t} : work'[u] = work[u] /\ pc'[u] = pc[u] /\ answer'[u] = answer[u]
        /\ pc'[t] = "commit"
        /\ work'[t].value = NoValue /\ work'[t].events = E
        /\ answer'[t].value = v /\ answer'[t].created = FALSE
    BY <1>1 DEF Returns, NumberInv, TypeOK
  <2>2. v \in AnyOf(owner[t])'
    BY <1>1 DEF AnyOf
  <2>3. Answering(t)'
    BY <2>1, <2>2 DEF Answering, ReuseEvents
  <2>4. QED
    BY <1>1, <2>1, <2>3, QuietFees
<1>2. ASSUME NEW t \in Txns, NEW place \in {"insert", "recover", "aborted"},
             pc' = [pc EXCEPT ![t] = place], pc[t] # "committed",
             work'[t].value = NoValue,
             numbers' = numbers, events' = events,
             \A u \in Txns \ {t} : /\ owner'[u] = owner[u] /\ work'[u] = work[u]
                                   /\ answer'[u] = answer[u]
      PROVE  FeeInv'
  <2>1. (\A u \in Txns \ {t} : pc'[u] = pc[u]) /\ pc'[t] = place
    BY <1>2 DEF NumberInv, TypeOK
  <2>2. Answering(t)'
    BY <1>2, <2>1 DEF Answering
  <2>3. QED
    BY <1>2, <2>1, <2>2, QuietFees
<1>3. ASSUME NEW t \in Txns, NEW o \in Owners, Lookup(t, o) PROVE FeeInv'
  <2>1. /\ pc[t] = "idle" /\ owner' = [owner EXCEPT ![t] = o]
        /\ numbers' = numbers /\ events' = events
    BY <1>3 DEF Lookup, db
  <2>2. owner'[t] = o /\ \A u \in Txns \ {t} : owner'[u] = owner[u]
    BY <2>1 DEF NumberInv, TypeOK
  <2>3. ASSUME NEW v \in Existing(o), Returns(t, v, FALSE),
               work' = [work EXCEPT ![t] = [value |-> NoValue, events |-> ReuseEvents(t, v)]],
               pc' = [pc EXCEPT ![t] = "commit"]
        PROVE  FeeInv'
    BY <1>1, <2>1, <2>2, <2>3 DEF Existing
  <2>4. CASE pc' = [pc EXCEPT ![t] = "insert"] /\ UNCHANGED <<work, answer>>
    <3>1. work[t].value = NoValue
      BY <2>1 DEF FeeInv, Answering
    <3>2. QED
      BY <1>2, <2>1, <2>2, <2>4, <3>1
  <2>5. QED
    BY <1>3, <2>3, <2>4 DEF Lookup
<1>4. ASSUME NEW t \in Txns, NEW v \in Values, Insert(t, v) PROVE FeeInv'
  <2>1. /\ pc[t] = "insert" /\ numbers' = numbers /\ events' = events /\ owner' = owner
        /\ pc'[t] = "commit"
        /\ work'[t].value = v /\ work'[t].events = CreationEvents(t, v)
        /\ answer'[t].value = v /\ answer'[t].created = TRUE
        /\ \A u \in Txns \ {t} : work'[u] = work[u] /\ pc'[u] = pc[u] /\ answer'[u] = answer[u]
    BY <1>4 DEF Insert, Returns, db, NumberInv, TypeOK
  <2>2. v # NoValue
    BY NumbersAssumption
  <2>3. Answering(t)'
    BY <2>1, <2>2 DEF Answering, CreationEvents
  <2>4. QED
    BY <2>1, <2>3, QuietFees
<1>5. ASSUME NEW t \in Txns, NEW v \in Values, InsertFails(t, v) PROVE FeeInv'
  <2>1. /\ pc[t] = "insert" /\ pc' = [pc EXCEPT ![t] = "recover"]
        /\ UNCHANGED <<numbers, events, owner, work, answer>>
    BY <1>5 DEF InsertFails, db
  <2>2. work[t].value = NoValue
    BY <2>1 DEF FeeInv, Answering
  <2>3. QED
    BY <1>2, <2>1, <2>2
<1>6. ASSUME NEW t \in Txns, ReturnWinner(t) PROVE FeeInv'
  <2>1. PICK v \in Existing(owner[t]) :
          /\ Returns(t, v, FALSE)
          /\ work' = [work EXCEPT ![t] = [value |-> NoValue, events |-> LoserEvents(t, v)]]
    BY <1>6 DEF ReturnWinner
  <2>2. LoserEvents(t, v) \in SUBSET ReuseEvents(t, v)
    BY DEF LoserEvents
  <2>3. /\ v \in Values /\ numbers[v].owner = owner'[t] /\ pc[t] # "committed"
        /\ pc' = [pc EXCEPT ![t] = "commit"]
        /\ numbers' = numbers /\ events' = events /\ owner' = owner
    BY <1>6, <2>1 DEF ReturnWinner, Existing, db
  <2> HIDE DEF LoserEvents
  <2>4. QED
    BY <1>1, <2>1, <2>2, <2>3
<1>7. ASSUME NEW t \in Txns, Retry(t) PROVE FeeInv'
  <2>1. /\ pc[t] = "recover" /\ pc' = [pc EXCEPT ![t] = "insert"]
        /\ UNCHANGED <<numbers, events, owner, work, answer>>
    BY <1>7 DEF Retry, db
  <2>2. work[t].value = NoValue
    BY <2>1 DEF FeeInv, Answering
  <2>3. QED
    BY <1>2, <2>1, <2>2
<1>8. ASSUME NEW t \in Txns, pc[t] # "committed", Rollback(t) PROVE FeeInv'
  BY <1>2, <1>8 DEF Rollback, NoWork, db, NumberInv, TypeOK
<1>9. ASSUME NEW t \in Txns, Commit(t) PROVE FeeInv'
  BY <1>9, CommitCharges, CommitAnswers DEF FeeInv
<1>10. CASE UNCHANGED vars
  <2>1. EventsOwned'
    BY <1>10 DEF vars, FeeInv, EventsOwned, Issued
  <2>2. FeesRight'
    BY <1>10 DEF vars, FeeInv, FeesRight, FeesIn, Issued
  <2>3. \A t \in Txns : Answering(t)' /\ Answered(t)'
    BY <1>10 DEF vars, FeeInv, Answering, Answered, AnyOf, CreationEvents, ReuseEvents
  <2>4. QED
    BY <2>1, <2>2, <2>3 DEF FeeInv
<1>11. ASSUME NEW v \in Values, Cancel(v) PROVE FeeInv'
  BY <1>11, StatusFees DEF Cancel, NumberStatus
<1>12. ASSUME NEW S \in SUBSET Values, ExpireOverdue(S) PROVE FeeInv'
  BY <1>12, StatusFees DEF ExpireOverdue, NumberStatus
<1>13. QED
  BY <1>3, <1>4, <1>5, <1>6, <1>7, <1>8, <1>9, <1>10, <1>11, <1>12
  DEF Next, Step, GiveUp, Abort, Open, AllEnded

\* An idle engine has charged and answered nothing.
LEMMA InitFees == Init => FeeInv
<1> SUFFICES ASSUME Init PROVE FeeInv
  OBVIOUS
<1>1. events = {} /\ \A v \in Values : ~Issued(v)
  BY DEF Init, Issued, NoRow
<1>2. EventsOwned
  BY <1>1, FS_EmptySet DEF EventsOwned
<1>3. \A v \in Values : FeesIn(events, v) = SumOf([e \in Event |-> e.amt], {})
  <2>1. \A v \in Values : {e \in events : e.number = v} = {}
    BY <1>1
  <2>2. QED
    BY <2>1 DEF FeesIn
<1>4. FeesRight
  BY <1>1, <1>3, SumEmpty DEF FeesRight
<1>5. \A t \in Txns : Answering(t) /\ Answered(t)
  BY DEF Init, Answering, Answered, NoWork
<1>6. QED
  BY <1>2, <1>4, <1>5 DEF FeeInv

\* Every reachable state of the engine has its fees and answers right.
LEMMA FeesInvariant == Spec => []FeeInv
BY InitFees, FeeStep, NumbersInvariant, PTL DEF Spec

(***************************************************************************)
(* The events of a number that was issued add up to one creation fee, and  *)
(* those of a value that was not to nothing, for any requests racing,      *)
(* losing, retrying and reusing (record_control_number_created,            *)
(* record_control_number_reused).                                          *)
(***************************************************************************)
THEOREM CreationIsChargedOnce == Spec => []CreationChargedOnce
<1>1. NumberInv /\ FeeInv => CreationChargedOnce
  <2> SUFFICES ASSUME NumberInv, FeeInv PROVE CreationChargedOnce
    OBVIOUS
  <2>1. events \in SUBSET Event /\ IsFiniteSet(events)
    BY DEF NumberInv, TypeOK, FeeInv, EventsOwned
  <2>2. \A v \in Values : MapThenSumSet(LAMBDA e : e.amt, {e \in events : e.number = v})
                            = FeesIn(events, v)
    BY <2>1, FeesAre
  <2>3. \A v \in Values : FeesIn(events, v) = IF Issued(v) THEN Fee ELSE 0
    BY DEF FeeInv, FeesRight
  <2>4. QED
    BY <2>2, <2>3, Zenon DEF CreationChargedOnce
<1>2. QED
  BY <1>1, NumbersInvariant, FeesInvariant, PTL

(***************************************************************************)
(* What a request answers is its owner's number, and it says created       *)
(* exactly if it was the request that was charged (get_or_create_for_bill, *)
(* get_or_create_for_account, BillControlNumberView.post).                 *)
(***************************************************************************)
THEOREM AnswersKeepTrue == Spec => []AnswersAreTrue
<1>1. FeeInv => AnswersAreTrue
  BY DEF FeeInv, Answered, AnswersAreTrue
<1>2. QED
  BY <1>1, FeesInvariant, PTL
=============================================================================
