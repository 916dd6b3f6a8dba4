-------------------------- MODULE RegistrationProofs --------------------------
(***************************************************************************)
(* Theorems about the get-or-create services and the audit chain, for any  *)
(* requests, references, bill numbers and number of attempts.              *)
(***************************************************************************)
EXTENDS Registration, TLAPS

Fresh == {"idle", "lookup", "insert", "again", "answer", "aborted"}

\* what a request has written by the time it is there
Written(r) ==
  /\ req[r].at \in Fresh \cup {"committed"} => written[r] = NoRow /\ record[r] = NoRecord
  /\ req[r].at = "stamp" => record[r] = NoRecord
  /\ req[r].at \in {"link", "announce", "created"} => record[r] # NoRecord
  /\ req[r].at \in {"stamp", "link", "announce", "created"} =>
       /\ written[r] # NoRow
       /\ written[r].kind = req[r].kind /\ written[r].ref = req[r].ref
       /\ written[r].parent = req[r].parent
       /\ req[r].kind # "bill" => written[r].status = "active"
  /\ req[r].at = "announce" => req[r].kind = "bill"
  /\ req[r].at = "created" =>
       written[r].status = "active" /\ (req[r].kind = "bill" => written[r].told)

\* what has been committed under the name of a request
Answered(r) ==
  /\ ~At(r, "committed") => row[r] = NoRow /\ audit[r] = NoRecord
  /\ req[r].at \in {"answer", "committed"} =>
       /\ req[r].answer # NoRow /\ row[req[r].answer] # NoRow
       /\ row[req[r].answer].kind = req[r].kind /\ row[req[r].answer].ref = req[r].ref
  /\ At(r, "committed") => ((audit[r] # NoRecord) <=> (req[r].answer = r))
  /\ row[r] # NoRow =>
       /\ audit[r] # NoRecord /\ row[r].status = "active"
       /\ row[r].kind = "bill" => row[r].told
       /\ row[r].kind \in DOMAIN ParentOf =>
            row[r].parent \in Committed(ParentOf[row[r].kind])
  /\ audit[r] # NoRecord => row[r] # NoRow
  /\ ~At(r, "idle") /\ req[r].kind \in DOMAIN ParentOf =>
       req[r].parent \in Committed(ParentOf[req[r].kind])

\* an insert is tried while attempts are left
TriesLeft == \A r \in Requests : ~At(r, "aborted") => req[r].tries < MaxAttempts

RowInv ==
  /\ TypeOK
  /\ TriesLeft
  /\ \A r \in Requests : Written(r) /\ Answered(r)
  /\ OneRecordPerReference

-----------------------------------------------------------------------------
\* A request's step touches nothing that belongs to another.
Others(r) == \A q \in Requests \ {r} :
  /\ req'[q] = req[q] /\ row'[q] = row[q] /\ written'[q] = written[q]
  /\ audit'[q] = audit[q] /\ record'[q] = record[q]

\* The empty tables satisfy the invariant.
LEMMA InitRows == Init => RowInv
<1> SUFFICES ASSUME Init PROVE RowInv
  OBVIOUS
<1>1. TypeOK
  BY RegistrationAssumption DEF Init, TypeOK, Ended, Kinds
<1>2. TriesLeft
  BY RegistrationAssumption DEF Init, TriesLeft, At
<1>3. \A r \in Requests : Written(r) /\ Answered(r)
  BY DEF Init, Written, Answered, At, Fresh
<1>4. OneRecordPerReference
  BY DEF Init, OneRecordPerReference, Conflicts
<1>5. QED
  BY <1>1, <1>2, <1>3, <1>4 DEF RowInv

\* Whoever steps, the others' entries stay.
LEMMA StepIsLocal ==
  ASSUME TypeOK, NEW r \in Requests,
         \/ Begin(r) \/ Lookup(r) \/ Insert(r) \/ InsertFails(r) \/ LookAgain(r)
         \/ Stamp(r) \/ Link(r) \/ Announce(r) \/ Commit(r) \/ Abort(r)
  PROVE  Others(r)
<1> USE DEF TypeOK, Others
<1>1. CASE Begin(r)
  BY <1>1 DEF Begin
<1>2. CASE Lookup(r)
  BY <1>2 DEF Lookup, Found, Goes
<1>3. CASE Insert(r)
  BY <1>3 DEF Insert, Goes
<1>4. CASE InsertFails(r)
  BY <1>4 DEF InsertFails, Goes
<1>5. CASE LookAgain(r)
  BY <1>5 DEF LookAgain, Found
<1>6. CASE Stamp(r)
  BY <1>6 DEF Stamp, Goes
<1>7. CASE Link(r)
  BY <1>7 DEF Link, Goes
<1>8. CASE Announce(r)
  BY <1>8 DEF Announce, Goes
<1>9. CASE Commit(r)
  BY <1>9 DEF Commit
<1>10. CASE Abort(r)
  BY <1>10 DEF Abort, Goes
<1>11. QED
  BY <1>1, <1>2, <1>3, <1>4, <1>5, <1>6, <1>7, <1>8, <1>9, <1>10

-----------------------------------------------------------------------------
\* what TypeOK says of one request
Entry ==
  [at : Ended \cup {"lookup", "insert", "again", "stamp", "link", "announce", "answer", "created"},
   kind : Kinds, ref : Refs \cup {NoRef}, parent : Requests \cup {NoRow},
   tries : 0 .. MaxAttempts, answer : Requests \cup {NoRow}]

\* Every step keeps the types and counts the attempts.
LEMMA TypeStep ==
  ASSUME RowInv, [Next]_vars, LastRecord \in Requests \cup {Genesis}
  PROVE  TypeOK' /\ TriesLeft'
<1> USE RegistrationAssumption DEF RowInv, TypeOK, TriesLeft, At, Ended
<1>1. ASSUME NEW r \in Requests, Begin(r) PROVE TypeOK' /\ TriesLeft'
  <2>1. PICK kind \in Kinds, ref \in Refs \cup {NoRef}, parent \in Requests \cup {NoRow} :
          req' = [req EXCEPT ![r] = [@ EXCEPT !.at = "lookup", !.kind = kind, !.ref = ref,
                                             !.parent = parent]]
    BY <1>1 DEF Begin
  <2> DEFINE e == [req[r] EXCEPT !.at = "lookup", !.kind = kind, !.ref = ref, !.parent = parent]
  <2>2. req[r] \in Entry
    BY DEF Entry
  <2>3. e \in Entry /\ e.tries = req[r].tries
    BY <1>1, <2>2 DEF Entry, Begin, Kinds
  <2>4. req' = [req EXCEPT ![r] = e]
    BY <2>1
  <2>5. UNCHANGED <<row, written, audit, record, clock, serial>> /\ At(r, "idle")
    BY <1>1 DEF Begin
  <2> HIDE DEF e
  <2>6. QED
    BY <2>3, <2>4, <2>5 DEF Entry
<1>2. ASSUME NEW r \in Requests, NEW at \in {"lookup", "again"}, Found(r, at) PROVE TypeOK' /\ TriesLeft'
  <2>1. PICK q \in Requests : req' = [req EXCEPT ![r].at = "answer", ![r].answer = q]
    BY <1>2 DEF Found, Named, Committed
  <2> DEFINE e == [req[r] EXCEPT !.at = "answer", !.answer = q]
  <2>2. req[r] \in Entry
    BY DEF Entry
  <2>3. e \in Entry /\ e.tries = req[r].tries
    BY <2>2 DEF Entry
  <2>4. req' = [req EXCEPT ![r] = e]
    BY <2>1
  <2>5. UNCHANGED <<row, written, audit, record, clock, serial>> /\ At(r, at)
    BY <1>2 DEF Found
  <2> HIDE DEF e
  <2>6. QED
    BY <2>3, <2>4, <2>5 DEF Entry
<1>3. ASSUME NEW r \in Requests, Lookup(r) PROVE TypeOK' /\ TriesLeft'
  BY <1>2, <1>3 DEF Lookup, Goes
<1>4. ASSUME NEW r \in Requests, Insert(r) PROVE TypeOK' /\ TriesLeft'
  <2>1. PICK number \in NumbersOf(req[r].kind) :
          written' = [written EXCEPT ![r] = NewRow(r, number)]
    BY <1>4 DEF Insert
  <2>2. NewRow(r, number) \in Row
    BY <2>1 DEF NewRow, Row, NumbersOf
  <2>3. QED
    BY <1>4, <2>1, <2>2 DEF Insert, Goes
<1>5. ASSUME NEW r \in Requests, InsertFails(r) PROVE TypeOK' /\ TriesLeft'
  BY <1>5 DEF InsertFails, Goes
<1>6. ASSUME NEW r \in Requests, LookAgain(r) PROVE TypeOK' /\ TriesLeft'
  BY <1>2, <1>6 DEF LookAgain
<1>7. ASSUME NEW r \in Requests, Stamp(r) PROVE TypeOK' /\ TriesLeft'
  BY <1>7 DEF Stamp, Goes, Record
<1>8. ASSUME NEW r \in Requests, Link(r) PROVE TypeOK' /\ TriesLeft'
  <2>1. record[r] \in Record
    BY <1>8 DEF Link, Written
  <2>2. [record[r] EXCEPT !.previous = LastRecord] \in Record
    BY <2>1 DEF Record
  <2>3. QED
    BY <1>8, <2>2 DEF Link, Goes
<1>9. ASSUME NEW r \in Requests, Announce(r) PROVE TypeOK' /\ TriesLeft'
  <2> DEFINE x == [written[r] EXCEPT !.told = TRUE, !.status = "active"]
  <2>1. written[r] \in Row
    BY <1>9 DEF Announce, Written
  <2>2. x \in Row
    BY <2>1 DEF Row
  <2>3. written' = [written EXCEPT ![r] = x]
    BY <1>9 DEF Announce
  <2>4. At(r, "announce") /\ Goes(r, "created") /\ UNCHANGED <<row, audit, record, clock, serial>>
    BY <1>9 DEF Announce
  <2> HIDE DEF x
  <2>5. QED
    BY <2>2, <2>3, <2>4 DEF Goes
<1>10. ASSUME NEW r \in Requests, Commit(r) PROVE TypeOK' /\ TriesLeft'
  <2> DEFINE e == [req[r] EXCEPT !.at = "committed", !.answer = IF At(r, "created") THEN r ELSE @]
  <2>1. req[r] \in Entry
    BY DEF Entry
  <2>2. e \in Entry /\ e.tries = req[r].tries
    BY <2>1 DEF Entry
  <2>3. req' = [req EXCEPT ![r] = e]
    BY <1>10 DEF Commit
  <2>4. /\ row' = [row EXCEPT ![r] = written[r]] /\ audit' = [audit EXCEPT ![r] = record[r]]
        /\ written' = [written EXCEPT ![r] = NoRow] /\ record' = [record EXCEPT ![r] = NoRecord]
        /\ UNCHANGED <<clock, serial>> /\ req[r].at \in {"answer", "created"}
    BY <1>10 DEF Commit
  <2> HIDE DEF e
  <2>5. QED
    BY <2>2, <2>3, <2>4 DEF Entry
<1>11. ASSUME NEW r \in Requests, Abort(r) PROVE TypeOK' /\ TriesLeft'
  BY <1>11 DEF Abort, Goes
<1>12. CASE UNCHANGED vars
  BY <1>12 DEF vars
<1>13. QED
  BY <1>1, <1>3, <1>4, <1>5, <1>6, <1>7, <1>8, <1>9, <1>10, <1>11, <1>12 DEF Next

\* Which of two rows is asked does not matter to a unique index.
LEMMA ConflictsIsSymmetric == \A x, y : Conflicts(x, y) <=> Conflicts(y, x)
BY DEF Conflicts

\* The indexes: an insert conflicts with nothing, and a commit publishes what was free.
LEMMA UniqueStep ==
  ASSUME RowInv, [Next]_vars
  PROVE  OneRecordPerReference'
<1> USE DEF RowInv, OneRecordPerReference
<1>1. ASSUME NEW r \in Requests, row' = row, Others(r),
             \A x : Conflicts(x, written'[r]) => Conflicts(x, written[r])
      PROVE  OneRecordPerReference'
  BY <1>1, ConflictsIsSymmetric DEF Others
<1>2. ASSUME NEW r \in Requests, Insert(r) PROVE OneRecordPerReference'
  <2>1. Others(r)
    BY <1>2, StepIsLocal
  <2>2. PICK number \in NumbersOf(req[r].kind) :
          /\ ~MustWait(NewRow(r, number)) /\ ~Taken(NewRow(r, number))
          /\ written' = [written EXCEPT ![r] = NewRow(r, number)]
    BY <1>2 DEF Insert
  <2>3. /\ written'[r] = NewRow(r, number) /\ row' = row
        /\ \A q \in Requests : ~Conflicts(NewRow(r, number), written[q])
                             /\ ~Conflicts(NewRow(r, number), row[q])
    BY <1>2, <2>2 DEF Insert, MustWait, Taken, TypeOK
  <2>4. QED
    BY <2>1, <2>3, ConflictsIsSymmetric DEF Others
<1>3. ASSUME NEW r \in Requests, Commit(r) PROVE OneRecordPerReference'
  <2>1. Others(r)
    BY <1>3, StepIsLocal
  <2>2. row'[r] = written[r] /\ written'[r] = NoRow
    BY <1>3 DEF Commit, TypeOK
  <2>3. \A x : ~Conflicts(x, NoRow)
    BY DEF Conflicts
  <2>4. QED
    BY <2>1, <2>2, <2>3, ConflictsIsSymmetric DEF Others
<1>4. ASSUME NEW r \in Requests, Announce(r) PROVE OneRecordPerReference'
  <2>1. Others(r) /\ row' = row
    BY <1>4, StepIsLocal DEF Announce
  <2>2. written[r] \in Row /\ written[r] # NoRow
    BY <1>4 DEF Announce, At, TypeOK, Written
  <2>3. /\ written'[r].kind = written[r].kind /\ written'[r].ref = written[r].ref
        /\ written'[r].number = written[r].number
    BY <1>4, <2>2 DEF Announce, TypeOK, Row
  <2>4. QED
    BY <1>1, <2>1, <2>2, <2>3 DEF Conflicts
<1>5. ASSUME NEW r \in Requests, Abort(r) PROVE OneRecordPerReference'
  <2>1. Others(r) /\ row' = row /\ written'[r] = NoRow
    BY <1>5, StepIsLocal DEF Abort, TypeOK
  <2>2. QED
    BY <1>1, <2>1 DEF Conflicts
<1>6. ASSUME UNCHANGED <<row, written>> PROVE OneRecordPerReference'
  BY <1>6
<1>7. QED
  BY <1>2, <1>3, <1>4, <1>5, <1>6
  DEF Next, vars, Begin, Lookup, Found, InsertFails, LookAgain, Stamp, Link

-----------------------------------------------------------------------------
Step(r) ==
  \/ Begin(r) \/ Lookup(r) \/ Insert(r) \/ InsertFails(r) \/ LookAgain(r)
  \/ Stamp(r) \/ Link(r) \/ Announce(r) \/ Commit(r) \/ Abort(r)

Kept == \A q \in Requests : row[q] # NoRow => row'[q] = row[q]

\* A committed row is never written again.
LEMMA RowsStay ==
  ASSUME RowInv, NEW r \in Requests, Step(r)
  PROVE  Kept
<1> USE DEF RowInv, TypeOK, Kept
<1>1. CASE Commit(r)
  BY <1>1 DEF Commit, Answered, At
<1>2. CASE ~Commit(r)
  <2>1. row' = row
    BY <1>2 DEF Step, Begin, Lookup, Found, Insert, InsertFails, LookAgain, Stamp, Link, Announce, Abort
  <2>2. QED
    BY <2>1
<1>3. QED
  BY <1>1, <1>2

\* What the others wrote and were answered is not disturbed by a step.
LEMMA OthersKeep ==
  ASSUME RowInv, NEW r \in Requests, Others(r), Kept, NEW q \in Requests \ {r}
  PROVE  Written(q)' /\ Answered(q)'
<1>1. /\ req'[q] = req[q] /\ row'[q] = row[q] /\ written'[q] = written[q]
      /\ audit'[q] = audit[q] /\ record'[q] = record[q]
  BY DEF Others
<1>2. Written(q) /\ Answered(q)
  BY DEF RowInv
<1>3. Written(q)'
  BY <1>1, <1>2 DEF Written
<1>4. \A kind : Committed(kind) \subseteq Committed(kind)'
  BY DEF Kept, Committed
<1>5. req[q].answer \in Requests \cup {NoRow}
  BY DEF RowInv, TypeOK
<1>6. Answered(q)'
  BY <1>1, <1>2, <1>4, <1>5 DEF Answered, At, Kept
<1>7. QED
  BY <1>3, <1>6

\* Every step leaves written what its place in the transaction says.
LEMMA WrittenStep ==
  ASSUME RowInv, NEW r \in Requests, Step(r), NoRow \notin Row, NoRecord \notin Record,
         LastRecord \in Requests \cup {Genesis}
  PROVE  Written(r)'
<1> USE DEF RowInv, TypeOK, At, Fresh, Written
<1>1. CASE Begin(r)
  <2>1. req'[r].at = "lookup" /\ UNCHANGED <<written, record>> /\ At(r, "idle")
    BY <1>1 DEF Begin
  <2>2. QED
    BY <2>1
<1>2. ASSUME NEW at \in {"lookup", "again"}, Found(r, at) PROVE Written(r)'
  <2>1. req'[r].at = "answer" /\ UNCHANGED <<written, record>> /\ At(r, at)
    BY <1>2 DEF Found
  <2>2. QED
    BY <2>1
<1>3. CASE Lookup(r)
  BY <1>2, <1>3 DEF Lookup, Goes
<1>4. CASE Insert(r)
  <2>1. PICK number \in NumbersOf(req[r].kind) : written' = [written EXCEPT ![r] = NewRow(r, number)]
    BY <1>4 DEF Insert
  <2>2. /\ written'[r] = NewRow(r, number) /\ record' = record /\ At(r, "insert")
        /\ req'[r] = [req[r] EXCEPT !.at = "stamp"]
    BY <1>4, <2>1 DEF Insert, Goes
  <2>3. NewRow(r, number) \in Row
    BY DEF NewRow, Row, NumbersOf
  <2>4. /\ req'[r].at = "stamp" /\ req'[r].kind = req[r].kind /\ req'[r].ref = req[r].ref
        /\ req'[r].parent = req[r].parent
    BY <2>2
  <2>5. /\ NewRow(r, number).kind = req[r].kind /\ NewRow(r, number).ref = req[r].ref
        /\ NewRow(r, number).parent = req[r].parent
        /\ req[r].kind # "bill" => NewRow(r, number).status = "active"
    BY DEF NewRow
  <2>6. QED
    BY <2>2, <2>3, <2>4, <2>5
<1>5. CASE InsertFails(r)
  BY <1>5 DEF InsertFails, Goes
<1>6. CASE LookAgain(r)
  BY <1>2, <1>6 DEF LookAgain
<1>7. CASE Stamp(r)
  <2>1. /\ record'[r] = [created |-> clock + 1, previous |-> Genesis] /\ written' = written
        /\ At(r, "stamp") /\ req'[r] = [req[r] EXCEPT !.at = "link"]
    BY <1>7 DEF Stamp, Goes
  <2>2. record'[r] \in Record
    BY <2>1 DEF Record
  <2>3. QED
    BY <2>1, <2>2
<1>8. CASE Link(r)
  <2>1. /\ record'[r] = [record[r] EXCEPT !.previous = LastRecord] /\ written' = written /\ At(r, "link")
        /\ req'[r] = [req[r] EXCEPT !.at = IF req[r].kind = "bill" THEN "announce" ELSE "created"]
    BY <1>8 DEF Link, Goes
  <2>2. record'[r] \in Record
    BY <2>1 DEF Record
  <2>3. /\ req'[r].at = (IF req[r].kind = "bill" THEN "announce" ELSE "created")
        /\ req'[r].kind = req[r].kind /\ req'[r].ref = req[r].ref /\ req'[r].parent = req[r].parent
    BY <2>1
  <2>4. QED
    BY <2>1, <2>2, <2>3
<1>9. CASE Announce(r)
  <2>1. written[r] \in Row /\ record' = record /\ At(r, "announce")
    BY <1>9 DEF Announce
  <2>2. /\ written'[r] = [written[r] EXCEPT !.told = TRUE, !.status = "active"]
        /\ req'[r] = [req[r] EXCEPT !.at = "created"]
    BY <1>9 DEF Announce, Goes
  <2>3. /\ written'[r] \in Row /\ written'[r].told /\ written'[r].status = "active"
        /\ written'[r].kind = written[r].kind /\ written'[r].ref = written[r].ref
        /\ written'[r].parent = written[r].parent
    BY <2>1, <2>2 DEF Row
  <2>4. req'[r].at = "created" /\ req'[r].kind = req[r].kind /\ req'[r].ref = req[r].ref
        /\ req'[r].parent = req[r].parent
    BY <2>2
  <2>5. QED
    BY <2>1, <2>3, <2>4
<1>10. CASE Commit(r)
  <2>1. req'[r].at = "committed" /\ written'[r] = NoRow /\ record'[r] = NoRecord
    BY <1>10 DEF Commit
  <2>2. QED
    BY <2>1
<1>11. CASE Abort(r)
  BY <1>11 DEF Abort, Goes
<1>12. QED
  BY <1>1, <1>3, <1>4, <1>5, <1>6, <1>7, <1>8, <1>9, <1>10, <1>11 DEF Step

\* A step keeps a request's answer true, and its row and its audit record together.
LEMMA AnsweredStep ==
  ASSUME RowInv, NEW r \in Requests, Step(r), Kept, NoRow \notin Requests
  PROVE  Answered(r)'
<1> USE DEF RowInv, TypeOK, At
<1>1. \A kind : Committed(kind) \subseteq Committed(kind)'
  BY DEF Kept, Committed
<1>2. CASE Begin(r)
  <2>1. PICK kind \in Kinds, ref \in Refs \cup {NoRef}, parent \in Requests \cup {NoRow} :
          /\ parent \in Parents(kind)
          /\ req' = [req EXCEPT ![r] = [@ EXCEPT !.at = "lookup", !.kind = kind, !.ref = ref,
                                             !.parent = parent]]
    BY <1>2 DEF Begin
  <2>2. req'[r].at = "lookup" /\ req'[r].kind = kind /\ req'[r].parent = parent
    BY <2>1
  <2>3. UNCHANGED <<row, audit>> /\ At(r, "idle")
    BY <1>2 DEF Begin
  <2>4. QED
    BY <1>1, <2>1, <2>2, <2>3 DEF Answered, Parents
<1>3. ASSUME NEW at \in {"lookup", "again"}, Found(r, at) PROVE Answered(r)'
  <2>1. PICK q \in Named(req[r].kind, req[r].ref) :
          req'[r] = [req[r] EXCEPT !.at = "answer", !.answer = q]
    BY <1>3 DEF Found
  <2>2. UNCHANGED <<row, audit>> /\ At(r, at)
    BY <1>3 DEF Found
  <2>3. q \in Requests /\ row[q] # NoRow /\ row[q].kind = req[r].kind /\ row[q].ref = req[r].ref
    BY DEF Named, Committed
  <2>4. /\ req'[r].at = "answer" /\ req'[r].answer = q /\ req'[r].kind = req[r].kind
        /\ req'[r].ref = req[r].ref /\ req'[r].parent = req[r].parent
    BY <2>1
  <2>5. QED
    BY <1>1, <2>2, <2>3, <2>4 DEF Answered
<1>4. ASSUME NEW at, at \notin {"idle", "answer", "committed"},
             req'[r].at = at, UNCHANGED <<row, audit>>, ~At(r, "idle"), ~At(r, "committed"),
             req'[r].kind = req[r].kind, req'[r].parent = req[r].parent
      PROVE  Answered(r)'
  BY <1>1, <1>4 DEF Answered
<1>5. CASE Lookup(r)
  BY <1>3, <1>4, <1>5 DEF Lookup, Goes
<1>6. CASE Insert(r)
  BY <1>4, <1>6 DEF Insert, Goes
<1>7. CASE InsertFails(r)
  BY <1>4, <1>7 DEF InsertFails, Goes
<1>8. CASE LookAgain(r)
  BY <1>3, <1>4, <1>8 DEF LookAgain
<1>9. CASE Stamp(r)
  BY <1>4, <1>9 DEF Stamp, Goes
<1>10. CASE Link(r)
  BY <1>4, <1>10 DEF Link, Goes
<1>11. CASE Announce(r)
  BY <1>4, <1>11 DEF Announce, Goes
<1>12. CASE Abort(r)
  BY <1>4, <1>12 DEF Abort, Goes, Open, Ended
<1>13. CASE Commit(r)
  <2>1. /\ row'[r] = written[r] /\ audit'[r] = record[r] /\ req'[r].at = "committed"
        /\ req'[r].answer = (IF At(r, "created") THEN r ELSE req[r].answer)
        /\ req'[r].kind = req[r].kind /\ req'[r].ref = req[r].ref /\ req'[r].parent = req[r].parent
    BY <1>13 DEF Commit
  <2>2. Written(r) /\ Answered(r)
    BY DEF RowInv
  <2>3. CASE At(r, "created")
    BY <1>1, <2>1, <2>2, <2>3 DEF Written, Answered, Kinds
  <2>4. CASE At(r, "answer")
    <3>1. written[r] = NoRow /\ record[r] = NoRecord /\ req[r].answer # r /\ req[r].answer \in Requests
      BY <2>2, <2>4 DEF Written, Answered, Fresh
    <3>2. row'[req[r].answer] = row[req[r].answer]
      BY <2>2, <2>4, <3>1 DEF Answered, Kept
    <3>3. QED
      BY <1>1, <2>1, <2>2, <2>4, <3>1, <3>2 DEF Answered
  <2>5. QED
    BY <1>13, <2>3, <2>4 DEF Commit
<1>14. QED
  BY <1>2, <1>5, <1>6, <1>7, <1>8, <1>9, <1>10, <1>11, <1>12, <1>13 DEF Step

-----------------------------------------------------------------------------
\* The audit chain: no two records were stamped at the same time, and there is a
\* last one.
Clocked ==
  /\ \A q \in Requests : audit[q] # NoRecord => audit[q].created <= clock
  /\ \A q \in Requests : record[q] # NoRecord => record[q].created <= clock
  /\ \A p, q \in Requests : p # q =>
       /\ audit[p] # NoRecord /\ audit[q] # NoRecord => audit[p].created # audit[q].created
       /\ audit[p] # NoRecord /\ record[q] # NoRecord => audit[p].created # record[q].created
       /\ record[p] # NoRecord /\ record[q] # NoRecord => record[p].created # record[q].created
  /\ Records # {} => \E q \in Records : \A p \in Records : audit[p].created <= audit[q].created

Linked == \A r \in Requests :
  /\ req[r].at \in {"announce", "created"} => record[r].previous \in Records \cup {Genesis}
  /\ audit[r] # NoRecord => audit[r].previous \in Records \cup {Genesis}

\* with one request at a time, a request in progress holds the end of the chain
Alone == \A p, q \in Requests : Open(p) /\ Open(q) => p = q
Tail == \A r \in Requests :
  /\ req[r].at \in {"link", "announce", "created"} =>
       \A q \in Records : audit[q].created < record[r].created
  /\ req[r].at \in {"announce", "created"} => record[r].previous = LastRecord

\* the record hangs from the latest one before it
Follows(q) ==
  \/ Before(q) = {} /\ audit[q].previous = Genesis
  \/ /\ audit[q].previous \in Before(q)
     /\ \A s \in Before(q) : audit[s].created <= audit[audit[q].previous].created

ChainInv ==
  /\ Clocked
  /\ Linked
  /\ serial => Alone /\ Tail /\ \A q \in Records : Follows(q)

\* The last record exists whenever there is a record.
LEMMA LastIsLast ==
  ASSUME Clocked
  PROVE  \/ Records = {} /\ LastRecord = Genesis
         \/ LastRecord \in Records /\ \A p \in Records : audit[p].created <= audit[LastRecord].created
BY DEF Clocked, LastRecord

\* The chain invariant says what verify_chain looks for.
LEMMA ChainInvVerifies ==
  ASSUME RowInv, ChainInv
  PROVE  ChainVerifies
<1> USE DEF RowInv, TypeOK, ChainInv
<1>1. ASSUME NEW q \in Records PROVE audit[q].previous \in Records \cup {Genesis}
  BY <1>1 DEF Linked, Records
<1>2. ASSUME serial, NEW q \in Records PROVE audit[q].previous = Previous(q)
  <2>1. Follows(q)
    BY <1>2
  <2>2. CASE Before(q) = {}
    BY <2>1, <2>2 DEF Follows, Previous
  <2>3. CASE Before(q) # {}
    <3>1. /\ audit[q].previous \in Before(q)
          /\ \A s \in Before(q) : audit[s].created <= audit[audit[q].previous].created
      BY <2>1, <2>3 DEF Follows
    <3>2. /\ Previous(q) \in Before(q)
          /\ \A s \in Before(q) : audit[s].created <= audit[Previous(q)].created
      BY <2>3, <3>1 DEF Previous
    <3>3. /\ audit[Previous(q)].created <= audit[audit[q].previous].created
          /\ audit[audit[q].previous].created <= audit[Previous(q)].created
      BY <3>1, <3>2
    <3>4. \A s \in Before(q) : audit[s].created \in Nat
      BY DEF Before, Records, Record
    <3>5. audit[Previous(q)].created = audit[audit[q].previous].created
      <4>1. audit[Previous(q)].created \in Nat /\ audit[audit[q].previous].created \in Nat
        BY <3>1, <3>2, <3>4
      <4>2. \A m, n \in Nat : m <= n /\ n <= m => m = n
        OBVIOUS
      <4>3. QED
        BY <3>3, <4>1, <4>2, Zenon
    <3>6. \A s \in Before(q) : s \in Requests /\ audit[s] # NoRecord
      BY DEF Before, Records
    <3>7. QED
      BY <3>1, <3>2, <3>5, <3>6 DEF Clocked
  <2>4. QED
    BY <2>2, <2>3
<1>3. QED
  BY <1>1, <1>2 DEF ChainVerifies

\* Every step of a request keeps the chain.
LEMMA ChainStep ==
  ASSUME RowInv, ChainInv, RowInv', NEW r \in Requests, Step(r), NoRecord \notin Record,
         Genesis \notin Requests
  PROVE  ChainInv'
<1> USE DEF RowInv, TypeOK
<1>1. Others(r)
  BY StepIsLocal DEF Step
<1>2. Open(r) \/ (Begin(r) /\ (serial => \A q \in Requests : ~Open(q)))
  BY DEF Step, Begin, Lookup, Found, Insert, InsertFails, LookAgain, Stamp, Link, Announce,
         Commit, Abort, Open, At, Ended
<1>3. serial' = serial
  BY DEF Step, Begin, Lookup, Found, Insert, InsertFails, LookAgain, Stamp, Link, Announce,
         Commit, Abort
<1>4. serial => Alone'
  <2>1. \A q \in Requests \ {r} : Open(q)' = Open(q)
    BY <1>1 DEF Others, Open
  <2>2. ASSUME serial, NEW q \in Requests \ {r} PROVE ~Open(q)
    BY <1>2, <2>2 DEF ChainInv, Alone
  <2>3. QED
    BY <2>1, <2>2 DEF Alone
<1>5. Written(r) /\ Answered(r)
  OBVIOUS
<1>6. CASE Stamp(r)
  <2>1. /\ At(r, "stamp") /\ clock' = clock + 1 /\ req' = [req EXCEPT ![r].at = "link"]
        /\ record' = [record EXCEPT ![r] = [created |-> clock + 1, previous |-> Genesis]]
        /\ audit' = audit
    BY <1>6 DEF Stamp, Goes
  <2>2. record'[r].created = clock + 1 /\ Records' = Records /\ LastRecord' = LastRecord
    BY <2>1 DEF Records, LastRecord
  <2>3. \A q \in Requests : /\ audit[q] # NoRecord => audit[q].created \in Nat
                            /\ record[q] # NoRecord => record[q].created \in Nat
    BY DEF Record
  <2>4. Clocked'
    <3>1. ASSUME NEW q \in Requests, audit'[q] # NoRecord PROVE audit'[q].created <= clock'
      BY <2>1, <2>3, <3>1 DEF ChainInv, Clocked
    <3>2. ASSUME NEW q \in Requests, record'[q] # NoRecord PROVE record'[q].created <= clock'
      BY <1>1, <2>1, <2>2, <2>3, <3>2 DEF ChainInv, Clocked, Others
    <3>3. ASSUME NEW p \in Requests, NEW q \in Requests, p # q
          PROVE  /\ audit'[p] # NoRecord /\ audit'[q] # NoRecord => audit'[p].created # audit'[q].created
                 /\ audit'[p] # NoRecord /\ record'[q] # NoRecord => audit'[p].created # record'[q].created
                 /\ record'[p] # NoRecord /\ record'[q] # NoRecord => record'[p].created # record'[q].created
      <4>1. CASE p # r /\ q # r
        BY <1>1, <2>1, <3>3, <4>1 DEF ChainInv, Clocked, Others
      <4>2. CASE q = r
        BY <1>1, <2>1, <2>2, <2>3, <3>3, <4>2 DEF ChainInv, Clocked, Others
      <4>3. CASE p = r
        BY <1>1, <2>1, <2>2, <2>3, <3>3, <4>3 DEF ChainInv, Clocked, Others
      <4>4. QED
        BY <4>1, <4>2, <4>3
    <3>4. Records' # {} => \E q \in Records' : \A p \in Records' : audit'[p].created <= audit'[q].created
      BY <2>1, <2>2 DEF ChainInv, Clocked
    <3>5. QED
      BY <3>1, <3>2, <3>3, <3>4 DEF Clocked
  <2>5. Linked'
    BY <1>1, <2>1, <2>2 DEF ChainInv, Linked, Others
  <2>6. ASSUME serial PROVE Tail'
    <3>1. \A q \in Requests \ {r} : req[q].at \notin {"link", "announce", "created"}
      BY <1>2, <2>1, <2>6 DEF ChainInv, Alone, Open, Ended, Begin, At
    <3>2. \A q \in Records : audit[q].created < record'[r].created
      BY <2>2, <2>3 DEF ChainInv, Clocked, Records
    <3>3. QED
      BY <1>1, <2>1, <2>2, <3>1, <3>2 DEF Tail, Others
  <2>7. ASSUME serial, NEW q \in Records PROVE Follows(q)'
    BY <2>1, <2>2, <2>7 DEF ChainInv, Follows, Before
  <2>8. QED
    BY <1>3, <1>4, <2>2, <2>4, <2>5, <2>6, <2>7 DEF ChainInv
<1>7. CASE Link(r)
  <2>1. /\ At(r, "link") /\ clock' = clock /\ audit' = audit
        /\ req' = [req EXCEPT ![r].at = IF req[r].kind = "bill" THEN "announce" ELSE "created"]
        /\ record' = [record EXCEPT ![r].previous = LastRecord]
    BY <1>7 DEF Link, Goes
  <2>2. record[r] \in Record
    BY <1>5, <2>1 DEF Written, At
  <2>3. record'[r].created = record[r].created /\ record'[r].previous = LastRecord
    BY <2>1, <2>2 DEF Record
  <2>4. Records' = Records /\ LastRecord' = LastRecord
    BY <2>1 DEF Records, LastRecord
  <2>5. record[r] # NoRecord
    BY <2>2
  <2>6. Clocked'
    BY <1>1, <2>1, <2>3, <2>4, <2>5 DEF ChainInv, Clocked, Others
  <2>7. Linked'
    BY <1>1, <2>1, <2>3, <2>4, LastIsLast DEF ChainInv, Linked, Others
  <2>8. ASSUME serial PROVE Tail'
    BY <1>1, <2>1, <2>3, <2>4, <2>8 DEF ChainInv, Tail, Others, At
  <2>9. ASSUME serial, NEW q \in Records PROVE Follows(q)'
    BY <2>1, <2>4, <2>9 DEF ChainInv, Follows, Before
  <2>10. QED
    BY <1>3, <1>4, <2>4, <2>6, <2>7, <2>8, <2>9 DEF ChainInv
<1>8. CASE Abort(r)
  <2>1. /\ req' = [req EXCEPT ![r].at = "aborted"] /\ record' = [record EXCEPT ![r] = NoRecord]
        /\ UNCHANGED <<audit, clock>>
    BY <1>8 DEF Abort, Goes
  <2>2. Records' = Records /\ LastRecord' = LastRecord
    BY <2>1 DEF Records, LastRecord
  <2>3. Clocked'
    BY <1>1, <2>1, <2>2 DEF ChainInv, Clocked, Others
  <2>4. Linked'
    BY <1>1, <2>1, <2>2 DEF ChainInv, Linked, Others
  <2>5. ASSUME serial PROVE Tail'
    BY <1>1, <2>1, <2>2, <2>5 DEF ChainInv, Tail, Others
  <2>6. ASSUME serial, NEW q \in Records PROVE Follows(q)'
    BY <2>1, <2>2, <2>6 DEF ChainInv, Follows, Before
  <2>7. QED
    BY <1>3, <1>4, <2>2, <2>3, <2>4, <2>5, <2>6 DEF ChainInv
<1>9. ASSUME UNCHANGED <<audit, record, clock>>,
             req'[r].at \in {"link", "announce", "created"} => At(r, "announce")
      PROVE  ChainInv'
  <2>1. Records' = Records /\ LastRecord' = LastRecord
    BY <1>9 DEF Records, LastRecord
  <2>2. Clocked'
    BY <1>9, <2>1 DEF ChainInv, Clocked
  <2>3. Linked'
    BY <1>1, <1>9, <2>1 DEF ChainInv, Linked, Others, At
  <2>4. ASSUME serial PROVE Tail'
    BY <1>1, <1>9, <2>1, <2>4 DEF ChainInv, Tail, Others, At
  <2>5. ASSUME serial, NEW q \in Records PROVE Follows(q)'
    BY <1>9, <2>1, <2>5 DEF ChainInv, Follows, Before
  <2>6. QED
    BY <1>3, <1>4, <2>1, <2>2, <2>3, <2>4, <2>5 DEF ChainInv
<1>10. CASE Begin(r)
  <2>1. req'[r].at = "lookup" /\ UNCHANGED <<audit, record, clock>>
    BY <1>10 DEF Begin
  <2>2. QED
    BY <1>9, <2>1
<1>11. ASSUME NEW at \in {"lookup", "again"}, Found(r, at) PROVE ChainInv'
  <2>1. req'[r].at = "answer" /\ UNCHANGED <<audit, record, clock>>
    BY <1>11 DEF Found
  <2>2. QED
    BY <1>9, <2>1
<1>12. CASE Lookup(r)
  BY <1>9, <1>11, <1>12 DEF Lookup, Goes
<1>13. CASE Insert(r)
  BY <1>9, <1>13 DEF Insert, Goes
<1>14. CASE InsertFails(r)
  BY <1>9, <1>14 DEF InsertFails, Goes
<1>15. CASE LookAgain(r)
  BY <1>9, <1>11, <1>15 DEF LookAgain
<1>16. CASE Announce(r)
  BY <1>9, <1>16 DEF Announce, Goes
<1>17. CASE Commit(r)
  <2>1. /\ req'[r].at = "committed" /\ clock' = clock
        /\ audit' = [audit EXCEPT ![r] = record[r]] /\ record' = [record EXCEPT ![r] = NoRecord]
        /\ req[r].at \in {"answer", "created"}
    BY <1>17 DEF Commit
  <2>2. audit[r] = NoRecord
    BY <1>5, <2>1 DEF Answered, At
  <2>3. CASE At(r, "answer")
    <3>1. record[r] = NoRecord
      BY <1>5, <2>3 DEF Written, At, Fresh
    <3>2. UNCHANGED <<audit, record, clock>>
      BY <2>1, <2>2, <3>1
    <3>3. QED
      BY <1>9, <2>1, <3>2
  <2>4. CASE At(r, "created")
    <3>1. record[r] # NoRecord /\ record[r] \in Record
      BY <1>5, <2>4 DEF Written, At
    <3>2. Records' = Records \cup {r} /\ r \notin Records
      BY <2>1, <2>2, <3>1 DEF Records
    <3>3. audit'[r] = record[r] /\ \A q \in Records : audit'[q] = audit[q] /\ q \in Requests
      BY <2>1, <2>2 DEF Records
    <3>4. \A q \in Records' : audit'[q].created \in Nat
      BY <3>1, <3>2, <3>3 DEF Records, Record
    <3>5. Clocked'
      <4>1. \E q \in Records' : \A p \in Records' : audit'[p].created <= audit'[q].created
        BY <3>2, <3>3, <3>4, LastIsLast DEF ChainInv
      <4>2. \A q \in Requests : record'[q] # NoRecord => q # r /\ record'[q] = record[q]
        BY <2>1
      <4>3. \A q \in Requests : audit'[q] = IF q = r THEN record[r] ELSE audit[q]
        BY <2>1
      <4>4. \A q \in Requests : audit'[q] # NoRecord => audit'[q].created <= clock
        BY <3>1, <4>3 DEF ChainInv, Clocked
      <4>5. ASSUME NEW p \in Requests, NEW q \in Requests, p # q
            PROVE  /\ audit'[p] # NoRecord /\ audit'[q] # NoRecord => audit'[p].created # audit'[q].created
                   /\ audit'[p] # NoRecord /\ record'[q] # NoRecord => audit'[p].created # record'[q].created
                   /\ record'[p] # NoRecord /\ record'[q] # NoRecord => record'[p].created # record'[q].created
        BY <3>1, <4>2, <4>3, <4>5 DEF ChainInv, Clocked
      <4>6. QED
        BY <2>1, <4>1, <4>2, <4>4, <4>5 DEF ChainInv, Clocked
    <3>6. Linked'
      BY <1>1, <2>1, <2>4, <3>2, <3>3 DEF ChainInv, Linked, Others, At
    <3>7. ASSUME serial PROVE Tail'
      BY <1>1, <1>2, <2>1, <2>4, <3>7 DEF ChainInv, Alone, Tail, Others, Open, Ended, At, Begin
    <3>8. ASSUME serial PROVE \A q \in Records : audit[q].created < record[r].created
      BY <2>4, <3>8 DEF ChainInv, Tail, At
    <3>9. ASSUME serial, NEW q \in Records PROVE Follows(q)'
      <4>1. Before(q)' = Before(q)
        BY <3>1, <3>2, <3>3, <3>4, <3>8, <3>9 DEF Before, Record
      <4>2. Before(q) \subseteq Records
        BY DEF Before
      <4>3. QED
        BY <3>3, <3>9, <4>1, <4>2 DEF ChainInv, Follows
    <3>10. ASSUME serial PROVE Follows(r)'
      <4>1. Before(r)' = Records
        BY <3>1, <3>2, <3>3, <3>4, <3>8, <3>10 DEF Before, Record
      <4>2. audit'[r].previous = LastRecord
        BY <2>4, <3>3, <3>10 DEF ChainInv, Tail, At
      <4>3. QED
        BY <3>3, <4>1, <4>2, LastIsLast DEF ChainInv, Follows
    <3>11. QED
      BY <1>3, <1>4, <3>2, <3>5, <3>6, <3>7, <3>9, <3>10 DEF ChainInv
  <2>5. QED
    BY <2>1, <2>3, <2>4 DEF At
<1>18. QED
  BY <1>6, <1>7, <1>8, <1>10, <1>12, <1>13, <1>14, <1>15, <1>16, <1>17 DEF Step

-----------------------------------------------------------------------------
\* The two invariants hold together: the chain's gives a last record, whose type
\* the rows' needs.
LEMMA InvInit == Init => RowInv /\ ChainInv
<1> SUFFICES ASSUME Init PROVE ChainInv
  BY InitRows
<1>1. Records = {}
  BY DEF Init, Records
<1>2. QED
  BY <1>1 DEF Init, ChainInv, Clocked, Linked, Alone, Tail, Open, Ended

LEMMA InvStep == RowInv /\ ChainInv /\ [Next]_vars => RowInv' /\ ChainInv'
<1> SUFFICES ASSUME RowInv, ChainInv, [Next]_vars PROVE RowInv' /\ ChainInv'
  OBVIOUS
<1>1. LastRecord \in Requests \cup {Genesis}
  BY LastIsLast DEF ChainInv, Records
<1>2. /\ NoRow \notin Row /\ NoRow \notin Requests /\ NoRecord \notin Record /\ Genesis \notin Requests
  BY RegistrationAssumption
<1>3. TypeOK' /\ TriesLeft' /\ OneRecordPerReference'
  BY <1>1, TypeStep, UniqueStep
<1>4. ASSUME NEW r \in Requests, Step(r) PROVE RowInv' /\ ChainInv'
  <2>1. Others(r)
    BY <1>4, StepIsLocal DEF RowInv, Step
  <2>2. Kept
    BY <1>4, RowsStay
  <2>3. Written(r)' /\ Answered(r)'
    BY <1>1, <1>2, <1>4, <2>2, WrittenStep, AnsweredStep
  <2>4. \A q \in Requests \ {r} : Written(q)' /\ Answered(q)'
    BY <2>1, <2>2, OthersKeep
  <2>5. RowInv'
    BY <1>3, <2>3, <2>4 DEF RowInv
  <2>6. QED
    BY <1>2, <1>4, <2>5, ChainStep
<1>5. CASE UNCHANGED vars
  <2> USE <1>5 DEF vars
  <2>1. \A r \in Requests : Written(r)' = Written(r)
    BY DEF Written
  <2>2. \A r \in Requests : Answered(r)' = Answered(r)
    BY DEF Answered, At, Committed
  <2>3. RowInv'
    BY <1>3, <2>1, <2>2 DEF RowInv
  <2>4. Records' = Records /\ LastRecord' = LastRecord
    BY DEF Records, LastRecord
  <2>5. Clocked' /\ Linked'
    BY <2>4 DEF ChainInv, Clocked, Linked
  <2>6. ASSUME serial PROVE Alone' /\ Tail'
    BY <2>4, <2>6 DEF ChainInv, Alone, Open, Tail
  <2>7. ASSUME serial, NEW q \in Records PROVE Follows(q)'
    BY <2>4, <2>7 DEF ChainInv, Follows, Before
  <2>8. QED
    BY <2>3, <2>4, <2>5, <2>6, <2>7 DEF ChainInv
<1>6. QED
  BY <1>4, <1>5 DEF Next, Step

LEMMA Invariance == Spec => [](RowInv /\ ChainInv)
BY InvInit, InvStep, PTL DEF Spec

\* Requests, rows and audit records stay well-typed: get_or_create_bill never tries a
\* bill more often than its range(3).
THEOREM TypeCorrect == Spec => []TypeOK
<1>1. RowInv => TypeOK
  BY DEF RowInv
<1>2. QED
  BY <1>1, Invariance, PTL

\* However many requests race under one external_reference, at most one record
\* ever carries it, and no two bills carry one number.
THEOREM NeverADuplicate == Spec => []OneRecordPerReference
<1>1. RowInv => OneRecordPerReference
  BY DEF RowInv
<1>2. QED
  BY <1>1, Invariance, PTL

\* Whoever is answered holds a committed record of what it asked for, audited
\* once, by the request that created it.
THEOREM AnswersAreAudited == Spec => []AnsweredOnce
<1>1. RowInv => AnsweredOnce
  <2> SUFFICES ASSUME RowInv PROVE AnsweredOnce
    OBVIOUS
  <2>1. \A r \in Requests : Answered(r)
    BY DEF RowInv
  <2>2. ASSUME NEW r \in Requests, At(r, "committed")
        PROVE  /\ req[r].answer # NoRow /\ row[req[r].answer] # NoRow
               /\ row[req[r].answer].kind = req[r].kind /\ row[req[r].answer].ref = req[r].ref
               /\ (audit[r] # NoRecord) <=> (req[r].answer = r)
    BY <2>1, <2>2 DEF Answered, At
  <2>3. ASSUME NEW r \in Requests, row[r] # NoRow
        PROVE  /\ audit[r] # NoRecord /\ row[r].status = "active"
               /\ row[r].kind = "bill" => row[r].told
               /\ row[r].kind \in DOMAIN ParentOf =>
                    row[r].parent \in Committed(ParentOf[row[r].kind])
    BY <2>1, <2>3 DEF Answered
  <2>4. ASSUME NEW r \in Requests, audit[r] # NoRecord PROVE row[r] # NoRow
    BY <2>1, <2>4 DEF Answered
  <2>5. QED
    BY <2>2, <2>3, <2>4 DEF AnsweredOnce
<1>2. QED
  BY <1>1, Invariance, PTL

\* verify_chain finds an unbroken chain as long as requests come one at a time,
\* and never a link to a record that was rolled back.
THEOREM ChainNeverBreaks == Spec => []ChainVerifies
<1>1. RowInv /\ ChainInv => ChainVerifies
  BY ChainInvVerifies
<1>2. QED
  BY <1>1, Invariance, PTL
=============================================================================
