----------------------------- MODULE WebhookProofs -----------------------------
(***************************************************************************)
(* Theorems about the outbox, for any rows, workers and limits.            *)
(***************************************************************************)
EXTENDS WebhookDelivery, TLAPS

StatusOf(d) == IF d \in Deliveries THEN DeliveryStatus ELSE NotificationStatus

On(w, d)  == task[w] # NoTask /\ task[w].msg.delivery = d
Queued(d) == \E m \in queue : m.delivery = d

\* what holds of a task and of a row even if messages are handed out twice
TaskSound(w) == task[w] # NoTask =>
  LET d == task[w].msg.delivery IN
  /\ row[d].status # "ABSENT"
  /\ task[w].status \in StatusOf(d) \ {"DELIVERED", "SENT"}
  /\ task[w].at = "decide" => d \in Deliveries
  /\ task[w].at = "save" /\ task[w].response = "2xx" => d \in accepted
  /\ d \in Deliveries => task[w].attempts =< IF task[w].at = "post" THEN posts[d] + 1 ELSE posts[d]
  /\ task[w].status = "DEAD_LETTER" => posts[d] >= MaxAttempts

RowSound(d) ==
  /\ request[d] \in {"idle", "open"} => row[d].status = "ABSENT"
  /\ request[d] = "hook" => row[d].status # "ABSENT"
  /\ row[d].status \in {"DELIVERED", "SENT"} => d \in accepted
  /\ row[d].status = "DEAD_LETTER" => posts[d] >= MaxAttempts
  /\ d \in Deliveries => row[d].attempts =< posts[d]

Sound ==
  /\ TypeOK /\ QueuedIsCommitted
  /\ \A w \in Workers : TaskSound(w)
  /\ \A d \in Outbox : RowSound(d)

\* a row whose message was not handed out twice has one carrier at a time, which
\* knows how often the row has been tried
Fresh(d) ==
  /\ ~Queued(d) /\ \A w \in Workers : ~On(w, d)
  /\ posts[d] = 0 /\ row[d].attempts = 0 /\ d \notin accepted
  /\ row[d].status \in {"ABSENT", "PENDING"}

\* a row that is still to be tried, after n tries
Waits(d, n) ==
  /\ d \notin accepted /\ row[d].status \in StatusOf(d) /\ ~Finished(d)
  /\ posts[d] = n
  /\ d \in Deliveries => row[d].attempts = n /\ n < MaxAttempts

\* a row that worker w is trying
Tried(w, d) == LET k == task[w] IN
  /\ k.at = "post" =>
       Waits(d, k.msg.retries) /\ k.status = row[d].status /\ (d \in Deliveries => k.attempts = posts[d] + 1)
  /\ k.at # "post" => posts[d] = k.msg.retries + 1 /\ ~Finished(d)
  /\ k.at = "save" =>
       /\ d \in accepted <=> k.response = "2xx"
       /\ k.status = row[d].status
  /\ k.at \in {"decide", "retry"} => d \notin accepted
  /\ d \in Deliveries /\ k.at # "post" => k.attempts = posts[d] /\ posts[d] =< MaxAttempts
  /\ d \in Deliveries /\ k.at \in {"decide", "retry"} => row[d].attempts = posts[d]
  /\ d \in Deliveries /\ k.at = "retry" => posts[d] < MaxAttempts
  /\ d \in Notices /\ k.at = "retry" => row[d].status = "FAILED"

Sole(d) ==
  /\ request[d] # "ended" => Fresh(d)
  /\ \A m, n \in queue : m.delivery = d /\ n.delivery = d => m = n
  /\ \A m \in queue : m.delivery = d => Waits(d, m.retries) /\ \A w \in Workers : ~On(w, d)
  /\ \A w \in Workers : On(w, d) => Tried(w, d) /\ \A v \in Workers : On(v, d) => v = w
  /\ row[d].status = "DEAD_LETTER" => posts[d] = MaxAttempts /\ d \notin accepted

\* max_retries does not run out before max_attempts
Enough == MaxAttempts =< MaxRetries + 1

NotLost(d) == row[d].status # "ABSENT" /\ ~Finished(d) => Carried(d) \/ GivenUp(d)

Inv ==
  /\ Sound
  /\ \A d \in Outbox \ copied : Sole(d)
  /\ Enough => \A d \in Outbox \ (lost \cup copied) : NotLost(d)

-----------------------------------------------------------------------------
\* What a message is made of, and what the broker and Task.retry make of it.
LEMMA MessageTyped ==
  ASSUME NEW m \in Message
  PROVE  /\ m.delivery \in Outbox
         /\ m.retries \in Nat /\ m.retries =< RetriesOf(m.delivery)
         /\ [m EXCEPT !.copy = 1] \in Message
         /\ [m EXCEPT !.copy = 1].delivery = m.delivery
         /\ m.retries + 1 =< RetriesOf(m.delivery) =>
              [m EXCEPT !.retries = @ + 1] \in Message
         /\ [m EXCEPT !.retries = @ + 1].delivery = m.delivery
         /\ [m EXCEPT !.retries = @ + 1].retries = m.retries + 1
<1>1. PICK d \in Outbox : m \in [delivery : {d}, retries : 0 .. RetriesOf(d), copy : {0, 1}]
  BY DEF Message
<1>2. RetriesOf(d) \in Nat
  BY DeliveryAssumption DEF RetriesOf
<1>3. \A n \in [delivery : {d}, retries : 0 .. RetriesOf(d), copy : {0, 1}] : n \in Message
  BY DEF Message
<1>4. [m EXCEPT !.copy = 1] \in [delivery : {d}, retries : 0 .. RetriesOf(d), copy : {0, 1}]
  BY <1>1
<1>5. m.retries + 1 =< RetriesOf(d) =>
        [m EXCEPT !.retries = @ + 1] \in [delivery : {d}, retries : 0 .. RetriesOf(d), copy : {0, 1}]
  BY <1>1, <1>2
<1> QED
  BY <1>1, <1>2, <1>3, <1>4, <1>5

\* The message an on_commit hook publishes.
LEMMA FirstMessage ==
  ASSUME NEW d \in Outbox
  PROVE  [delivery |-> d, retries |-> 0, copy |-> 0] \in Message
<1>1. RetriesOf(d) \in Nat
  BY DeliveryAssumption DEF RetriesOf
<1>2. [delivery |-> d, retries |-> 0, copy |-> 0]
        \in [delivery : {d}, retries : 0 .. RetriesOf(d), copy : {0, 1}]
  BY <1>1
<1> QED
  BY <1>2 DEF Message

\* no step takes anything back
Grows ==
  /\ accepted \subseteq accepted' /\ lost \subseteq lost' /\ copied \subseteq copied'
  /\ \A d \in Outbox :
       posts[d] =< posts'[d] /\ (row[d].status # "ABSENT" => row'[d].status # "ABSENT")

\* a step on another row
Untouched(e) ==
  /\ request'[e] = request[e] /\ row'[e] = row[e] /\ posts'[e] = posts[e]
  /\ e \in accepted' <=> e \in accepted
  /\ \A m \in Message : m.delivery = e => (m \in queue' <=> m \in queue)
  /\ \A w \in Workers : On(w, e) \/ On(w, e)' => task'[w] = task[w]

\* A task that goes on stays sound while others work.
LEMMA TaskStays ==
  ASSUME TypeOK, TypeOK', Grows, NEW w \in Workers, TaskSound(w), task'[w] = task[w]
  PROVE  TaskSound(w)'
<1> SUFFICES ASSUME task[w] # NoTask PROVE TaskSound(w)'
  BY DEF TaskSound
<1> DEFINE d == task[w].msg.delivery
<1>1. task[w] \in Task
  BY DEF TypeOK
<1>2. d \in Outbox
  BY <1>1, MessageTyped DEF Task
<1>3. posts[d] \in Nat /\ posts'[d] \in Nat /\ posts[d] =< posts'[d]
  BY <1>2 DEF TypeOK, Grows
<1>4. task[w].attempts \in Nat /\ task[w].status \in AnyStatus
  BY <1>1 DEF Task
<1>5. row'[d].status # "ABSENT" /\ (d \in accepted => d \in accepted')
  BY <1>2 DEF TaskSound, Grows
<1>6. MaxAttempts \in Nat
  BY DeliveryAssumption
<1> HIDE DEF d
<1> QED
  BY <1>3, <1>4, <1>5, <1>6 DEF TaskSound, d

\* What is known of a row survives the steps on other rows.
LEMMA RowStays ==
  ASSUME NEW e \in Outbox, RowSound(e), Untouched(e)
  PROVE  RowSound(e)'
BY DEF RowSound, Untouched

\* So does what is known of the one task that tries it.
LEMMA SoleStays ==
  ASSUME TypeOK, TypeOK', NEW e \in Outbox, Sole(e), Untouched(e)
  PROVE  Sole(e)'
<1>1. \A m \in queue \cup queue' : m \in Message
  BY DEF TypeOK
<1>2. Queued(e)' <=> Queued(e)
  BY <1>1 DEF Untouched, Queued
<1>3. \A w \in Workers : /\ On(w, e)' <=> On(w, e)
                         /\ On(w, e) => task'[w] = task[w]
  BY DEF Untouched, On
<1>4. \A n : Waits(e, n)' <=> Waits(e, n)
  BY DEF Waits, Untouched, Finished
<1>5. \A w \in Workers : On(w, e) => (Tried(w, e)' <=> Tried(w, e))
  <2> SUFFICES ASSUME NEW w \in Workers, On(w, e) PROVE Tried(w, e)' <=> Tried(w, e)
    OBVIOUS
  <2>1. task'[w] = task[w] /\ row'[e] = row[e] /\ posts'[e] = posts[e]
        /\ (e \in accepted' <=> e \in accepted)
    BY <1>3 DEF Untouched
  <2> QED
    BY <1>4, <2>1 DEF Tried, Finished
<1>6. Fresh(e)' <=> Fresh(e)
  BY <1>2, <1>3 DEF Fresh, Untouched
<1>7. \A m : m \in queue' /\ m.delivery = e => m \in queue
  BY <1>1 DEF Untouched
<1> QED
  BY <1>3, <1>4, <1>5, <1>6, <1>7 DEF Sole, Untouched

\* And its being on its way.
LEMMA CarriedStays ==
  ASSUME TypeOK, TypeOK', NEW e \in Outbox, NotLost(e), Untouched(e)
  PROVE  NotLost(e)'
<1>1. \A m \in queue \cup queue' : m \in Message
  BY DEF TypeOK
<1>2. Queued(e)' <=> Queued(e)
  BY <1>1 DEF Untouched, Queued
<1>3. \A w \in Workers : On(w, e)' <=> On(w, e)
  BY DEF Untouched, On
<1>4. Carried(e)' <=> Carried(e)
  BY <1>2, <1>3 DEF Carried, Queued, On, Untouched
<1> QED
  BY <1>4 DEF NotLost, Untouched, GivenUp, Finished

\* A step on one row preserves the invariant if it does so for that row.
LEMMA OneRow ==
  ASSUME Inv, NEW d \in Outbox, TypeOK', Grows,
         \A e \in Outbox \ {d} : Untouched(e),
         \A m \in queue' : m \in queue \/ (m.delivery = d /\ row'[d].status # "ABSENT"),
         \A w \in Workers : task'[w] = task[w] \/ TaskSound(w)',
         RowSound(d)',
         d \notin copied' => Sole(d)',
         Enough /\ d \notin lost' \cup copied' => NotLost(d)'
  PROVE  Inv'
<1>1. TypeOK /\ QueuedIsCommitted
  BY DEF Inv, Sound
<1>2. QueuedIsCommitted'
  <2> SUFFICES ASSUME NEW m \in queue' PROVE row'[m.delivery].status # "ABSENT"
    BY DEF QueuedIsCommitted
  <2>1. m.delivery \in Outbox
    BY MessageTyped DEF TypeOK
  <2> QED
    BY <1>1, <2>1 DEF QueuedIsCommitted, Grows
<1>3. \A w \in Workers : TaskSound(w)'
  BY <1>1, TaskStays DEF Inv, Sound
<1>4. \A e \in Outbox : RowSound(e)'
  BY RowStays DEF Inv, Sound
<1>5. \A e \in Outbox \ copied' : Sole(e)'
  BY <1>1, SoleStays DEF Inv, Grows
<1>6. Enough' => \A e \in Outbox \ (lost' \cup copied') : NotLost(e)'
  BY <1>1, CarriedStays DEF Inv, Grows, Enough
<1> QED
  BY <1>2, <1>3, <1>4, <1>5, <1>6 DEF Inv, Sound

\* The empty outbox satisfies the invariant.
LEMMA InitInv == Init => Inv
<1> SUFFICES ASSUME Init PROVE Inv
  OBVIOUS
<1>1. TypeOK
  BY DeliveryAssumption DEF Init, TypeOK
<1>2. QueuedIsCommitted /\ \A w \in Workers : TaskSound(w)
  BY DEF Init, QueuedIsCommitted, TaskSound
<1>3. \A d \in Outbox : /\ row[d].status = "ABSENT" /\ row[d].attempts = 0 /\ posts[d] = 0
                        /\ d \notin accepted /\ request[d] # "hook"
                        /\ ~Queued(d) /\ \A w \in Workers : ~On(w, d)
  BY DEF Init, Queued, On
<1>4. \A d \in Outbox : RowSound(d)
  BY <1>3 DEF RowSound
<1>5. \A d \in Outbox : Sole(d)
  BY <1>3 DEF Sole, Fresh, Queued
<1>6. \A d \in Outbox : NotLost(d)
  BY <1>3 DEF NotLost
<1> QED
  BY <1>1, <1>2, <1>4, <1>5, <1>6 DEF Inv, Sound

-----------------------------------------------------------------------------
\* The request opens: nothing of the row is visible yet.
LEMMA DispatchKeeps ==
  ASSUME Inv, NEW d \in Outbox, DispatchEvent(d)
  PROVE  Inv'
<1>1. TypeOK /\ RowSound(d) /\ request[d] = "idle"
  BY DEF Inv, Sound, DispatchEvent
<1>2. TypeOK'
  BY <1>1 DEF TypeOK, DispatchEvent
<1>3. Grows /\ \A e \in Outbox \ {d} : Untouched(e)
  BY <1>1 DEF TypeOK, DispatchEvent, Grows, Untouched
<1>4. request'[d] = "open" /\ UNCHANGED <<row, queue, task, posts, accepted, lost, copied>>
  BY <1>1 DEF TypeOK, DispatchEvent
<1>5. RowSound(d)'
  BY <1>1, <1>4 DEF RowSound
<1>6. d \notin copied' => Sole(d)'
  <2> SUFFICES ASSUME d \notin copied' PROVE Sole(d)'
    OBVIOUS
  <2>1. Sole(d)
    BY <1>4 DEF Inv
  <2>2. Fresh(d)
    BY <1>1, <2>1 DEF Sole
  <2> QED
    BY <1>4, <2>1, <2>2 DEF Sole, Fresh, Queued, On, Waits, Tried, Finished
<1>7. NotLost(d)'
  BY <1>1, <1>4 DEF RowSound, NotLost
<1> QED
  BY <1>2, <1>3, <1>4, <1>5, <1>6, <1>7, OneRow

\* COMMIT makes the row visible and leaves it to its hook.
LEMMA CommitKeeps ==
  ASSUME Inv, NEW d \in Outbox, RequestCommits(d)
  PROVE  Inv'
<1>1. TypeOK /\ RowSound(d) /\ request[d] = "open"
  BY DEF Inv, Sound, RequestCommits
<1>2. TypeOK'
  BY <1>1 DEF TypeOK, RequestCommits, AnyStatus, DeliveryStatus, NotificationStatus
<1>3. /\ request'[d] = "hook" /\ row'[d].status = "PENDING" /\ row'[d].attempts = row[d].attempts
      /\ UNCHANGED <<queue, task, posts, accepted, lost, copied>>
  BY <1>1 DEF TypeOK, RequestCommits
<1>4. Grows /\ \A e \in Outbox \ {d} : Untouched(e)
  BY <1>1, <1>3 DEF TypeOK, RequestCommits, Grows, Untouched
<1>5. RowSound(d)'
  BY <1>1, <1>3 DEF RowSound
<1>6. d \notin copied' => Sole(d)'
  <2> SUFFICES ASSUME d \notin copied' PROVE Sole(d)'
    OBVIOUS
  <2>1. Sole(d) /\ Fresh(d)
    BY <1>1, <1>3 DEF Inv, Sole
  <2>2. Fresh(d)'
    BY <1>3, <2>1 DEF Fresh, Queued, On
  <2> QED
    BY <1>3, <2>2 DEF Sole, Fresh, Queued, On
<1>7. NotLost(d)'
  BY <1>3 DEF NotLost, Carried
<1> QED
  BY <1>2, <1>3, <1>4, <1>5, <1>6, <1>7, OneRow

\* ROLLBACK leaves no row.
LEMMA RollbackKeeps ==
  ASSUME Inv, NEW d \in Outbox, RequestRollsBack(d)
  PROVE  Inv'
<1>1. TypeOK /\ RowSound(d) /\ request[d] = "open"
  BY DEF Inv, Sound, RequestRollsBack
<1>2. TypeOK'
  BY <1>1 DEF TypeOK, RequestRollsBack
<1>3. request'[d] = "ended" /\ UNCHANGED <<row, queue, task, posts, accepted, lost, copied>>
  BY <1>1 DEF TypeOK, RequestRollsBack
<1>4. Grows /\ \A e \in Outbox \ {d} : Untouched(e)
  BY <1>1, <1>3 DEF TypeOK, RequestRollsBack, Grows, Untouched
<1>5. RowSound(d)'
  BY <1>1, <1>3 DEF RowSound
<1>6. d \notin copied' => Sole(d)'
  <2> SUFFICES ASSUME d \notin copied' PROVE Sole(d)'
    OBVIOUS
  <2>1. Sole(d) /\ Fresh(d)
    BY <1>1, <1>3 DEF Inv, Sole
  <2> QED
    BY <1>1, <1>3, <2>1 DEF Sole, Fresh, Queued, On, RowSound
<1>7. NotLost(d)'
  BY <1>1, <1>3 DEF RowSound, NotLost
<1> QED
  BY <1>2, <1>3, <1>4, <1>5, <1>6, <1>7, OneRow

\* The hook publishes the first try of a row that nobody has tried.
LEMMA HookKeeps ==
  ASSUME Inv, NEW d \in Outbox, HookRuns(d)
  PROVE  Inv'
<1> DEFINE m == [delivery |-> d, retries |-> 0, copy |-> 0]
<1>1. TypeOK /\ RowSound(d) /\ request[d] = "hook"
  BY DEF Inv, Sound, HookRuns
<1>2. m \in Message /\ m.delivery = d /\ m.retries = 0
  BY FirstMessage
<1>3. queue' = queue \cup {m} /\ UNCHANGED <<row, task, posts, accepted, lost, copied>>
  BY DEF HookRuns, Enqueue
<1> HIDE DEF m
<1>4. request'[d] = "ended"
  BY <1>1 DEF TypeOK, HookRuns
<1>5. TypeOK'
  BY <1>1, <1>2, <1>3 DEF TypeOK, HookRuns
<1>6. Grows /\ \A e \in Outbox \ {d} : Untouched(e)
  BY <1>1, <1>2, <1>3 DEF TypeOK, HookRuns, Grows, Untouched
<1>7. RowSound(d)'
  BY <1>1, <1>3, <1>4 DEF RowSound
<1>8. d \notin copied' => Sole(d)'
  <2> SUFFICES ASSUME d \notin copied' PROVE Sole(d)'
    OBVIOUS
  <2>1. Sole(d) /\ Fresh(d)
    BY <1>1, <1>3 DEF Inv, Sole
  <2>2. row[d].status = "PENDING"
    BY <1>1, <2>1 DEF RowSound, Fresh
  <2>3. Waits(d, 0)'
    BY <1>3, <2>1, <2>2, DeliveryAssumption
       DEF Fresh, Waits, Finished, StatusOf, DeliveryStatus, NotificationStatus
  <2>4. \A n \in queue' : n.delivery = d => n = m
    BY <1>3, <2>1 DEF Fresh, Queued
  <2>5. \A w \in Workers : ~On(w, d)'
    BY <1>3, <2>1 DEF Fresh, On
  <2> QED
    BY <1>2, <1>3, <1>4, <2>2, <2>3, <2>4, <2>5 DEF Sole
<1>9. NotLost(d)'
  BY <1>2, <1>3 DEF NotLost, Carried
<1> QED
  BY <1>1, <1>2, <1>3, <1>5, <1>6, <1>7, <1>8, <1>9, OneRow DEF RowSound

\* A hook that is lost takes its row with it.
LEMMA LostHookKeeps ==
  ASSUME Inv, NEW d \in Outbox, HookIsLost(d)
  PROVE  Inv'
<1>1. TypeOK /\ RowSound(d) /\ request[d] = "hook"
  BY DEF Inv, Sound, HookIsLost
<1>2. TypeOK'
  BY <1>1 DEF TypeOK, HookIsLost
<1>3. request'[d] = "ended" /\ d \in lost' /\ UNCHANGED <<row, queue, task, posts, accepted, copied>>
  BY <1>1 DEF TypeOK, HookIsLost
<1>4. Grows /\ \A e \in Outbox \ {d} : Untouched(e)
  BY <1>1, <1>3 DEF TypeOK, HookIsLost, Grows, Untouched
<1>5. RowSound(d)'
  BY <1>1, <1>3 DEF RowSound
<1>6. d \notin copied' => Sole(d)'
  <2> SUFFICES ASSUME d \notin copied' PROVE Sole(d)'
    OBVIOUS
  <2>1. Sole(d) /\ Fresh(d)
    BY <1>1, <1>3 DEF Inv, Sole
  <2> QED
    BY <1>1, <1>3, <2>1 DEF Sole, Fresh, Queued, On, RowSound
<1> QED
  BY <1>2, <1>3, <1>4, <1>5, <1>6, OneRow

\* The broker hands a message out again: its row is copied from here on.
LEMMA CopyKeeps ==
  ASSUME Inv, NEW m \in queue, HandOutAgain(m)
  PROVE  Inv'
<1> DEFINE d == m.delivery
           n == [m EXCEPT !.copy = 1]
<1>1. TypeOK /\ QueuedIsCommitted /\ m \in Message
  BY DEF Inv, Sound, TypeOK
<1>2. d \in Outbox /\ n \in Message /\ n.delivery = d /\ row[d].status # "ABSENT"
  BY <1>1, MessageTyped DEF QueuedIsCommitted
<1>3. /\ queue' = queue \cup {n} /\ d \in Redelivered /\ copied' = copied \cup {d}
      /\ UNCHANGED <<row, request, task, posts, accepted, lost>>
  BY DEF HandOutAgain
<1> HIDE DEF n, d
<1>4. TypeOK'
  BY <1>1, <1>2, <1>3 DEF TypeOK
<1>5. Grows /\ \A e \in Outbox \ {d} : Untouched(e)
  BY <1>1, <1>2, <1>3 DEF TypeOK, Grows, Untouched
<1>6. RowSound(d)'
  BY <1>2, <1>3 DEF Inv, Sound, RowSound
<1> QED
  BY <1>2, <1>3, <1>4, <1>5, <1>6, OneRow

-----------------------------------------------------------------------------
\* What a busy worker has in hand.
LEMMA InHand ==
  ASSUME Inv, NEW w \in Workers, task[w] # NoTask, NEW d, d = task[w].msg.delivery
  PROVE  /\ task[w] \in Task /\ task[w].msg \in Message /\ d \in Outbox
         /\ row[d].status # "ABSENT" /\ request[d] # "open" /\ request[d] # "idle"
         /\ On(w, d) /\ TaskSound(w) /\ RowSound(d)
         /\ d \notin copied =>
              /\ Sole(d) /\ Tried(w, d) /\ request[d] = "ended" /\ ~Queued(d)
              /\ \A v \in Workers : On(v, d) => v = w
<1>1. task[w] \in Task /\ task[w].msg \in Message
  BY DEF Inv, Sound, TypeOK, Task
<1>2. d \in Outbox
  BY <1>1, MessageTyped
<1>3. On(w, d) /\ TaskSound(w) /\ RowSound(d)
  BY <1>2 DEF Inv, Sound, On
<1>4. row[d].status # "ABSENT" /\ request[d] # "open" /\ request[d] # "idle"
  BY <1>3 DEF TaskSound, RowSound, On
<1>5. d \notin copied =>
        /\ Sole(d) /\ Tried(w, d) /\ request[d] = "ended" /\ ~Queued(d)
        /\ \A v \in Workers : On(v, d) => v = w
  <2> SUFFICES ASSUME d \notin copied
               PROVE  /\ Sole(d) /\ Tried(w, d) /\ request[d] = "ended" /\ ~Queued(d)
                      /\ \A v \in Workers : On(v, d) => v = w
    OBVIOUS
  <2>1. Sole(d)
    BY <1>2 DEF Inv
  <2> QED
    BY <1>3, <2>1 DEF Sole, Fresh, Queued
<1> QED
  BY <1>1, <1>2, <1>3, <1>4, <1>5

\* The step of a worker on a row leaves the other rows alone.
LEMMA OthersUntouched ==
  ASSUME Inv, NEW w \in Workers, NEW d \in Outbox, task[w] # NoTask => On(w, d),
         NEW k, task' = [task EXCEPT ![w] = k],
         k = NoTask \/ (k \in Task /\ k.msg.delivery = d),
         \A e \in Outbox \ {d} :
           /\ request'[e] = request[e] /\ row'[e] = row[e] /\ posts'[e] = posts[e]
           /\ e \in accepted' <=> e \in accepted
           /\ \A m \in Message : m.delivery = e => (m \in queue' <=> m \in queue)
  PROVE  \A e \in Outbox \ {d} : Untouched(e)
<1> SUFFICES ASSUME NEW e \in Outbox \ {d} PROVE Untouched(e)
  OBVIOUS
<1>1. task \in [Workers -> Task \cup {NoTask}]
  BY DEF Inv, Sound, TypeOK
<1>2. task'[w] = k /\ \A v \in Workers \ {w} : task'[v] = task[v]
  BY <1>1
<1>3. ~On(w, e) /\ ~On(w, e)'
  BY <1>2, NoTaskAssumption DEF On
<1> QED
  BY <1>2, <1>3 DEF Untouched

\* A task starts: it holds the row as it stands, or ends at once.
LEMMA StartKeeps ==
  ASSUME Inv, NEW w \in Workers, NEW m \in queue, StartTask(w, m)
  PROVE  Inv'
<1> DEFINE d == m.delivery
           k == [msg |-> m, at |-> "post", response |-> "none", status |-> row[d].status,
                 attempts |-> row[d].attempts + (IF d \in Deliveries THEN 1 ELSE 0)]
<1>1. TypeOK /\ m \in Message /\ task[w] = NoTask
  BY DEF Inv, Sound, TypeOK, StartTask
<1>2. d \in Outbox /\ m.retries \in Nat
  BY <1>1, MessageTyped
<1>3. RowSound(d) /\ row[d].status # "ABSENT"
  BY <1>2 DEF Inv, Sound, QueuedIsCommitted
<1>4. /\ row[d].status \in StatusOf(d) /\ row[d].status \in AnyStatus
      /\ row[d].attempts \in Nat /\ posts[d] \in Nat
  BY <1>1, <1>2, <1>3 DEF TypeOK, AnyStatus, StatusOf
<1>5. k \in Task
  BY <1>1, <1>4 DEF Task
<1>6. queue' = queue \ {m} /\ UNCHANGED <<row, request, posts, accepted, lost, copied>>
  BY DEF StartTask
<1>7. \/ row[d].status \in {"DELIVERED", "SENT"} /\ task' = [task EXCEPT ![w] = NoTask]
      \/ row[d].status \notin {"DELIVERED", "SENT"} /\ task' = [task EXCEPT ![w] = k]
  BY <1>1, <1>3 DEF StartTask, TypeOK
<1>8. /\ k.msg.delivery = d /\ k.msg = m /\ k.at = "post" /\ k.status = row[d].status
      /\ d \in Deliveries => k.attempts = row[d].attempts + 1
  BY <1>4
<1> HIDE DEF d, k
<1>9. TypeOK'
  BY <1>1, <1>5, <1>6, <1>7 DEF TypeOK
<1>10. Grows
  BY <1>1, <1>6 DEF TypeOK, Grows
<1>11. \A n \in Message : n.delivery # d => (n \in queue' <=> n \in queue)
  BY <1>6 DEF d
<1>12. \A e \in Outbox \ {d} : Untouched(e)
  <2>1. \A e \in Outbox \ {d} :
           /\ request'[e] = request[e] /\ row'[e] = row[e] /\ posts'[e] = posts[e]
           /\ e \in accepted' <=> e \in accepted
           /\ \A n \in Message : n.delivery = e => (n \in queue' <=> n \in queue)
    BY <1>6, <1>11
  <2> QED
    BY <1>1, <1>2, <1>5, <1>7, <1>8, <2>1, OthersUntouched
<1>13. RowSound(d)'
  BY <1>3, <1>6 DEF RowSound
<1>14. \A v \in Workers \ {w} : task'[v] = task[v]
  BY <1>1, <1>7 DEF TypeOK
<1>15. task'[w] = task[w] \/ (task'[w] = k /\ row[d].status \notin {"DELIVERED", "SENT"})
  BY <1>1, <1>7 DEF TypeOK
<1>16. task'[w] = task[w] \/ TaskSound(w)'
  BY <1>3, <1>4, <1>6, <1>8, <1>15, DeliveryAssumption DEF TaskSound, RowSound
<1>17. d \notin copied' => Sole(d)' /\ NotLost(d)'
  <2> SUFFICES ASSUME d \notin copied PROVE Sole(d)' /\ NotLost(d)'
    BY <1>6
  <2>1. /\ Sole(d) /\ Waits(d, m.retries) /\ (\A v \in Workers : ~On(v, d))
        /\ \A n \in queue : n.delivery = d => n = m
    BY <1>2 DEF Inv, Sole, d
  <2>2. ~Fresh(d) /\ request[d] = "ended"
    BY <2>1 DEF Fresh, Queued, Sole, d
  <2>3. task'[w] = k
    BY <1>1, <1>7, <2>1 DEF Waits, Finished, TypeOK
  <2>4. \A n \in queue' : n.delivery # d
    BY <1>6, <2>1
  <2>5. \A v \in Workers : On(v, d)' <=> v = w
    BY <1>5, <1>8, <1>14, <2>1, <2>3, NoTaskAssumption DEF On
  <2>6. Waits(d, m.retries)'
    BY <1>6, <2>1 DEF Waits, Finished
  <2>7. Tried(w, d)'
    BY <1>6, <1>8, <2>1, <2>3, <2>6 DEF Tried, Waits
  <2>8. Sole(d)'
    BY <1>6, <2>1, <2>2, <2>4, <2>5, <2>7 DEF Sole
  <2>9. Carried(d)'
    BY <2>5 DEF Carried, On
  <2> QED
    BY <2>8, <2>9 DEF NotLost
<1> QED
  BY <1>2, <1>6, <1>9, <1>10, <1>12, <1>13, <1>14, <1>16, <1>17, OneRow

\* A try: the endpoint or the channel counts it, whatever it answers.
LEMMA PostKeeps ==
  ASSUME Inv, NEW w \in Workers, NEW r \in {"2xx", "other", "none"}, Post(w, r)
  PROVE  Inv'
<1>a. PICK d : d = task[w].msg.delivery
  OBVIOUS
<1>b. PICK k : k = [task[w] EXCEPT !.at = "save", !.response = r]
  OBVIOUS
<1>1. TypeOK /\ task[w] # NoTask /\ task[w].at = "post"
  BY DEF Inv, Sound, Post, Busy
<1>2. /\ task[w] \in Task /\ task[w].msg \in Message /\ d \in Outbox
      /\ row[d].status # "ABSENT" /\ On(w, d) /\ TaskSound(w) /\ RowSound(d)
      /\ d \notin copied => /\ Sole(d) /\ Tried(w, d) /\ request[d] = "ended" /\ ~Queued(d)
                            /\ \A v \in Workers : On(v, d) => v = w
  BY <1>1, <1>a, InHand
<1>3. task' = [task EXCEPT ![w] = k]
  BY <1>1, <1>2, <1>b DEF Post, TypeOK
<1>4. /\ k \in Task /\ k.msg = task[w].msg /\ k.at = "save" /\ k.response = r
      /\ k.status = task[w].status /\ k.attempts = task[w].attempts
  BY <1>2, <1>b DEF Task
<1>5. /\ posts' = [posts EXCEPT ![d] = @ + 1]
      /\ accepted' = IF r = "2xx" THEN accepted \cup {d} ELSE accepted
      /\ UNCHANGED <<row, request, queue, lost, copied>>
  BY <1>a DEF Post
<1>6. posts[d] \in Nat /\ posts'[d] = posts[d] + 1
  BY <1>1, <1>2, <1>5 DEF TypeOK
<1>7. k.msg.delivery = d /\ MaxAttempts \in Nat /\ k.attempts \in Nat
      /\ task[w].msg.retries \in Nat
  BY <1>2, <1>4, <1>a, MessageTyped, DeliveryAssumption DEF Task
<1>8. TypeOK'
  <2>1. posts' \in [Outbox -> Nat] /\ task' \in [Workers -> Task \cup {NoTask}]
    BY <1>1, <1>2, <1>3, <1>4, <1>5, <1>6 DEF TypeOK
  <2>2. accepted' \subseteq Outbox
    BY <1>1, <1>2, <1>5 DEF TypeOK
  <2> QED
    BY <1>1, <1>5, <2>1, <2>2 DEF TypeOK
<1>9. Grows
  BY <1>1, <1>5, <1>6 DEF TypeOK, Grows
<1>10. \A e \in Outbox \ {d} : Untouched(e)
  <2>1. \A e \in Outbox \ {d} :
           /\ request'[e] = request[e] /\ row'[e] = row[e] /\ posts'[e] = posts[e]
           /\ e \in accepted' <=> e \in accepted
           /\ \A n \in Message : n.delivery = e => (n \in queue' <=> n \in queue)
    BY <1>1, <1>5 DEF TypeOK
  <2> QED
    BY <1>2, <1>3, <1>4, <1>7, <2>1, OthersUntouched
<1>11. RowSound(d)'
  <2>1. row[d].attempts \in Nat /\ (d \in accepted => d \in accepted')
    BY <1>1, <1>2, <1>5 DEF TypeOK
  <2> QED
    BY <1>2, <1>5, <1>6, <1>7, <2>1 DEF RowSound
<1>12. task'[w] = k /\ \A v \in Workers \ {w} : task'[v] = task[v]
  BY <1>1, <1>3 DEF TypeOK
<1>13. TaskSound(w)'
  <2>1. d = task[w].msg.delivery /\ (r = "2xx" => d \in accepted')
    BY <1>5, <1>a
  <2> QED
    BY <1>1, <1>2, <1>4, <1>5, <1>6, <1>7, <1>12, <2>1 DEF TaskSound
<1>14. d \notin copied' => Sole(d)' /\ NotLost(d)'
  <2> SUFFICES ASSUME d \notin copied PROVE Sole(d)' /\ NotLost(d)'
    BY <1>5
  <2>1. /\ Waits(d, task[w].msg.retries) /\ task[w].status = row[d].status
        /\ d \in Deliveries => task[w].attempts = posts[d] + 1
    BY <1>1, <1>2 DEF Tried
  <2>2. d \in accepted' <=> r = "2xx"
    BY <1>5, <2>1 DEF Waits
  <2>3. Tried(w, d)'
    <3>1. posts'[d] = k.msg.retries + 1 /\ ~Finished(d)'
      BY <1>4, <1>5, <1>6, <2>1 DEF Waits, Finished
    <3>2. d \in Deliveries => k.attempts = posts'[d] /\ posts'[d] =< MaxAttempts
      BY <1>4, <1>6, <1>7, <2>1 DEF Waits
    <3>3. k.status = row'[d].status
      BY <1>4, <1>5, <2>1
    <3> QED
      BY <1>4, <1>12, <2>2, <3>1, <3>2, <3>3 DEF Tried
  <2>4. \A v \in Workers : On(v, d)' <=> v = w
    BY <1>2, <1>4, <1>7, <1>12, NoTaskAssumption DEF On
  <2>5. \A n \in queue' : n.delivery # d
    BY <1>2, <1>5 DEF Queued
  <2>6. row[d].status # "DEAD_LETTER" /\ request'[d] = "ended"
    BY <1>2, <1>5, <2>1 DEF Waits, Finished
  <2>7. Sole(d)'
    BY <1>5, <2>3, <2>4, <2>5, <2>6 DEF Sole
  <2>8. Carried(d)'
    BY <2>4 DEF Carried, On
  <2> QED
    BY <2>7, <2>8 DEF NotLost
<1> QED
  BY <1>2, <1>5, <1>8, <1>9, <1>10, <1>11, <1>12, <1>13, <1>14, OneRow

\* What a worker's save or verdict on a delivery leaves when no step but the
\* row's and the task's own moves.
LEMMA OwnRow ==
  ASSUME Inv, NEW w \in Workers, task[w] # NoTask, NEW d, d = task[w].msg.delivery,
         NEW k, k = NoTask \/ (k \in Task /\ k.msg = task[w].msg),
         task' = [task EXCEPT ![w] = k],
         NEW x, x \in [status : AnyStatus, attempts : Nat], x.status \in StatusOf(d),
         row' = [row EXCEPT ![d] = x],
         UNCHANGED <<request, queue, posts, accepted, lost, copied>>,
         x.status \in {"DELIVERED", "SENT"} => d \in accepted,
         x.status = "DEAD_LETTER" => posts[d] >= MaxAttempts,
         d \in Deliveries => x.attempts =< posts[d],
         k # NoTask => TaskSound(w)',
         d \notin copied => (k # NoTask => Tried(w, d)') /\ (k = NoTask => NotLost(d)'),
         d \notin copied /\ x.status = "DEAD_LETTER" => posts[d] = MaxAttempts /\ d \notin accepted
  PROVE  Inv'
<1>1. /\ task[w] \in Task /\ task[w].msg \in Message /\ d \in Outbox
      /\ row[d].status # "ABSENT" /\ request[d] # "open" /\ request[d] # "idle"
      /\ On(w, d) /\ TaskSound(w) /\ RowSound(d)
      /\ d \notin copied => /\ Sole(d) /\ Tried(w, d) /\ request[d] = "ended" /\ ~Queued(d)
                            /\ \A v \in Workers : On(v, d) => v = w
  BY InHand
<1>2. TypeOK
  BY DEF Inv, Sound
<1>3. row'[d] = x /\ \A e \in Outbox \ {d} : row'[e] = row[e]
  BY <1>1, <1>2 DEF TypeOK
<1>4. x.status # "ABSENT"
  BY DEF StatusOf, DeliveryStatus, NotificationStatus
<1>5. task'[w] = k /\ \A v \in Workers \ {w} : task'[v] = task[v]
  BY <1>2 DEF TypeOK
<1>6. TypeOK'
  <2>1. task' \in [Workers -> Task \cup {NoTask}]
    BY <1>2 DEF TypeOK
  <2>2. row' \in [Outbox -> [status : AnyStatus \cup {"ABSENT"}, attempts : Nat]]
    <3>1. x \in [status : AnyStatus \cup {"ABSENT"}, attempts : Nat]
      OBVIOUS
    <3> QED
      BY <1>2, <3>1 DEF TypeOK
  <2>3. \A e \in Outbox : row'[e].status \in {"ABSENT"}
          \cup (IF e \in Deliveries THEN DeliveryStatus ELSE NotificationStatus)
    BY <1>2, <1>3 DEF TypeOK, StatusOf
  <2> QED
    BY <1>2, <2>1, <2>2, <2>3 DEF TypeOK
<1>7. Grows
  BY <1>2, <1>3, <1>4 DEF TypeOK, Grows
<1>8. \A e \in Outbox \ {d} : Untouched(e)
  <2>1. \A e \in Outbox \ {d} :
           /\ request'[e] = request[e] /\ row'[e] = row[e] /\ posts'[e] = posts[e]
           /\ e \in accepted' <=> e \in accepted
           /\ \A n \in Message : n.delivery = e => (n \in queue' <=> n \in queue)
    BY <1>3
  <2> QED
    BY <1>1, <2>1, OthersUntouched
<1>9. RowSound(d)'
  BY <1>1, <1>3, <1>4 DEF RowSound
<1>10. \A v \in Workers : task'[v] = task[v] \/ TaskSound(v)'
  <2>1. k = NoTask => TaskSound(w)'
    BY <1>5 DEF TaskSound
  <2> QED
    BY <1>5, <2>1
<1>11. d \notin copied' => Sole(d)' /\ NotLost(d)'
  <2> SUFFICES ASSUME d \notin copied PROVE Sole(d)' /\ NotLost(d)'
    OBVIOUS
  <2>1. \A v \in Workers : On(v, d)' <=> (v = w /\ k # NoTask)
    BY <1>1, <1>5, NoTaskAssumption DEF On
  <2>2. \A n \in queue' : n.delivery # d
    BY <1>1 DEF Queued
  <2>3. Sole(d)'
    BY <1>1, <1>3, <2>1, <2>2 DEF Sole
  <2>4. k # NoTask => Carried(d)'
    BY <2>1 DEF Carried, On
  <2> QED
    BY <2>3, <2>4 DEF NotLost
<1> QED
  BY <1>1, <1>6, <1>7, <1>8, <1>9, <1>10, <1>11, OneRow

\* _perform_delivery saves its instance over whatever the row holds by then.
LEMMA SaveKeeps ==
  ASSUME Inv, NEW w \in Workers, SaveResponse(w)
  PROVE  Inv'
<1>a. PICK t : t = task[w]
  OBVIOUS
<1>b. PICK d : d = t.msg.delivery
  OBVIOUS
<1>c. PICK x : x = [status |-> StatusAfter(row[d].status, t.status, t.response),
                    attempts |-> t.attempts]
  OBVIOUS
<1>d. PICK k : k = IF t.response = "2xx" THEN NoTask ELSE [t EXCEPT !.at = "decide"]
  OBVIOUS
<1>1. TypeOK /\ t # NoTask /\ t.at = "save" /\ d \in Deliveries
  BY <1>a, <1>b DEF Inv, Sound, SaveResponse, Busy
<1>2. /\ t \in Task /\ t.msg \in Message /\ d \in Outbox
      /\ row[d].status # "ABSENT" /\ TaskSound(w) /\ RowSound(d)
      /\ d \notin copied => Tried(w, d)
  BY <1>1, <1>a, <1>b, InHand
<1>3. /\ t.status \in StatusOf(d) \ {"DELIVERED", "SENT"} /\ t.attempts =< posts[d]
      /\ t.response = "2xx" => d \in accepted
      /\ t.status = "DEAD_LETTER" => posts[d] >= MaxAttempts
  BY <1>1, <1>2, <1>a, <1>b DEF TaskSound
<1>4. row[d].status \in StatusOf(d) /\ t.attempts \in Nat /\ t.response \in {"2xx", "other", "none"}
  BY <1>1, <1>2 DEF TypeOK, StatusOf, Task
<1>5. /\ x.attempts = t.attempts
      /\ \/ t.response = "2xx" /\ x.status = "DELIVERED"
         \/ t.response = "other" /\ x.status = t.status
         \/ t.response = "none" /\ x.status = row[d].status
  BY <1>4, <1>c DEF StatusAfter
<1>6. x.status \in StatusOf(d)
  BY <1>1, <1>3, <1>4, <1>5 DEF StatusOf, DeliveryStatus
<1>7. x \in [status : AnyStatus, attempts : Nat]
  BY <1>4, <1>6, <1>c DEF StatusOf, AnyStatus
<1>8. task' = [task EXCEPT ![w] = k] /\ row' = [row EXCEPT ![d] = x]
      /\ UNCHANGED <<request, queue, posts, accepted, lost, copied>>
  BY <1>1, <1>2, <1>a, <1>b, <1>c, <1>d DEF SaveResponse, Ends, TypeOK
<1>9. /\ t.response = "2xx" => k = NoTask
      /\ t.response # "2xx" =>
           /\ k \in Task /\ k.msg = t.msg /\ k.at = "decide" /\ k.response = t.response
           /\ k.status = t.status /\ k.attempts = t.attempts
  BY <1>2, <1>d DEF Task
<1>10. row'[d] = x /\ task'[w] = k
  BY <1>1, <1>2, <1>8 DEF TypeOK
<1>11. x.status \in {"DELIVERED", "SENT"} => d \in accepted
  BY <1>2, <1>3, <1>5 DEF RowSound
<1>12. x.status = "DEAD_LETTER" => posts[d] >= MaxAttempts
  BY <1>2, <1>3, <1>5 DEF RowSound
<1>13. k # NoTask => TaskSound(w)'
  <2> SUFFICES ASSUME k # NoTask PROVE TaskSound(w)'
    OBVIOUS
  <2>1. x.status # "ABSENT"
    BY <1>6 DEF StatusOf, DeliveryStatus, NotificationStatus
  <2> QED
    BY <1>1, <1>3, <1>8, <1>9, <1>10, <1>b, <2>1 DEF TaskSound
<1>14. d \notin copied => (k # NoTask => Tried(w, d)') /\ (k = NoTask => NotLost(d)')
  <2> SUFFICES ASSUME d \notin copied
               PROVE (k # NoTask => Tried(w, d)') /\ (k = NoTask => NotLost(d)')
    OBVIOUS
  <2>1. /\ posts[d] = t.msg.retries + 1 /\ ~Finished(d) /\ t.status = row[d].status
        /\ d \in accepted <=> t.response = "2xx"
        /\ t.attempts = posts[d] /\ posts[d] =< MaxAttempts
    BY <1>1, <1>2, <1>a DEF Tried
  <2>2. k # NoTask => Tried(w, d)'
    <3> SUFFICES ASSUME k # NoTask PROVE Tried(w, d)'
      OBVIOUS
    <3>1. x.status = row[d].status /\ x.attempts = posts[d] /\ t.response # "2xx"
      BY <1>5, <1>9, <2>1
    <3>2. ~Finished(d)'
      BY <1>10, <2>1, <3>1 DEF Finished
    <3> QED
      BY <1>1, <1>8, <1>9, <1>10, <2>1, <3>1, <3>2, DeliveryAssumption DEF Tried
  <2>3. k = NoTask => NotLost(d)'
    BY <1>2, <1>5, <1>9, <1>10, NoTaskAssumption DEF NotLost, Finished
  <2> QED
    BY <2>2, <2>3
<1>15. d \notin copied /\ x.status = "DEAD_LETTER" => posts[d] = MaxAttempts /\ d \notin accepted
  BY <1>1, <1>2, <1>5, <1>a DEF Tried, Finished
<1>16. k = NoTask \/ (k \in Task /\ k.msg = t.msg)
  BY <1>9
<1> QED
  BY <1>1, <1>3, <1>5, <1>6, <1>7, <1>8, <1>11, <1>12, <1>13, <1>14, <1>15, <1>16, <1>a, <1>b, OwnRow

\* deliver_webhook gives up when the row has had all its attempts.
LEMMA DeadLetterKeeps ==
  ASSUME Inv, NEW w \in Workers, DeadLetter(w)
  PROVE  Inv'
<1>a. PICK t : t = task[w]
  OBVIOUS
<1>b. PICK d : d = t.msg.delivery
  OBVIOUS
<1>c. PICK x : x = [row[d] EXCEPT !.status = "DEAD_LETTER"]
  OBVIOUS
<1>1. TypeOK /\ t # NoTask /\ t.at = "decide" /\ t.attempts >= MaxAttempts
  BY <1>a, <1>b DEF Inv, Sound, DeadLetter, Busy, Exhausted
<1>2. /\ t \in Task /\ t.msg \in Message /\ d \in Outbox
      /\ row[d].status # "ABSENT" /\ TaskSound(w) /\ RowSound(d)
      /\ d \notin copied => Tried(w, d)
  BY <1>1, <1>a, <1>b, InHand
<1>3. d \in Deliveries /\ t.attempts =< posts[d]
  BY <1>1, <1>2, <1>a, <1>b DEF TaskSound
<1>4. x.status = "DEAD_LETTER" /\ x.attempts = row[d].attempts /\ row[d].attempts \in Nat
      /\ x \in [status : AnyStatus, attempts : Nat]
  BY <1>1, <1>2, <1>c DEF TypeOK, AnyStatus, DeliveryStatus
<1>5. /\ task' = [task EXCEPT ![w] = NoTask] /\ row' = [row EXCEPT ![d] = x]
      /\ UNCHANGED <<request, queue, posts, accepted, lost, copied>>
  BY <1>1, <1>2, <1>a, <1>b, <1>c DEF DeadLetter, Ends, TypeOK
<1>6. posts[d] \in Nat /\ t.attempts \in Nat /\ posts[d] >= MaxAttempts
  BY <1>1, <1>2, <1>3, DeliveryAssumption DEF TypeOK, Task
<1>7. row'[d] = x
  BY <1>1, <1>2, <1>5 DEF TypeOK
<1>8. NotLost(d)'
  BY <1>4, <1>7 DEF NotLost, Finished
<1>9. d \notin copied => posts[d] = MaxAttempts /\ d \notin accepted
  BY <1>1, <1>2, <1>3, <1>6, <1>a, DeliveryAssumption DEF Tried
<1>10. x.status \in StatusOf(d) /\ x.attempts =< posts[d]
  BY <1>2, <1>3, <1>4 DEF StatusOf, DeliveryStatus, RowSound
<1> QED
  BY <1>1, <1>4, <1>5, <1>6, <1>8, <1>9, <1>10, <1>a, <1>b, OwnRow

\* Otherwise it marks the row RETRYING before it calls Task.retry.
LEMMA MarkKeeps ==
  ASSUME Inv, NEW w \in Workers, MarkRetrying(w)
  PROVE  Inv'
<1>a. PICK t : t = task[w]
  OBVIOUS
<1>b. PICK d : d = t.msg.delivery
  OBVIOUS
<1>c. PICK x : x = [row[d] EXCEPT !.status = "RETRYING"]
  OBVIOUS
<1>d. PICK k : k = [t EXCEPT !.at = "retry"]
  OBVIOUS
<1>1. TypeOK /\ t # NoTask /\ t.at = "decide" /\ ~(t.attempts >= MaxAttempts)
  BY <1>a, <1>b DEF Inv, Sound, MarkRetrying, Busy, Exhausted
<1>2. /\ t \in Task /\ t.msg \in Message /\ d \in Outbox
      /\ row[d].status # "ABSENT" /\ TaskSound(w) /\ RowSound(d)
      /\ d \notin copied => Tried(w, d)
  BY <1>1, <1>a, <1>b, InHand
<1>3. /\ d \in Deliveries /\ t.attempts =< posts[d]
      /\ t.status \in StatusOf(d) \ {"DELIVERED", "SENT"}
      /\ t.status = "DEAD_LETTER" => posts[d] >= MaxAttempts
  BY <1>1, <1>2, <1>a, <1>b DEF TaskSound
<1>4. x.status = "RETRYING" /\ x.attempts = row[d].attempts
      /\ x \in [status : AnyStatus, attempts : Nat]
  BY <1>1, <1>2, <1>c DEF TypeOK, AnyStatus, DeliveryStatus
<1>5. /\ k \in Task /\ k.msg = t.msg /\ k.at = "retry" /\ k.response = t.response
      /\ k.status = t.status /\ k.attempts = t.attempts
  BY <1>2, <1>d DEF Task
<1>6. /\ task' = [task EXCEPT ![w] = k] /\ row' = [row EXCEPT ![d] = x]
      /\ UNCHANGED <<request, queue, posts, accepted, lost, copied>>
  BY <1>1, <1>2, <1>a, <1>b, <1>c, <1>d DEF MarkRetrying, TypeOK
<1>7. row'[d] = x /\ task'[w] = k
  BY <1>1, <1>2, <1>6 DEF TypeOK
<1>8. x.status \in StatusOf(d) /\ x.attempts =< posts[d]
  BY <1>2, <1>3, <1>4 DEF StatusOf, DeliveryStatus, RowSound
<1>9. TaskSound(w)'
  BY <1>3, <1>4, <1>5, <1>6, <1>7, <1>b DEF TaskSound
<1>10. k # NoTask
  BY <1>5, NoTaskAssumption
<1>11. d \notin copied => Tried(w, d)'
  <2> SUFFICES ASSUME d \notin copied PROVE Tried(w, d)'
    OBVIOUS
  <2>1. /\ posts[d] = t.msg.retries + 1 /\ d \notin accepted
        /\ t.attempts = posts[d] /\ posts[d] =< MaxAttempts /\ row[d].attempts = posts[d]
    BY <1>1, <1>2, <1>3, <1>a DEF Tried
  <2>2. posts[d] < MaxAttempts
    BY <1>1, <1>2, <2>1, DeliveryAssumption DEF TypeOK
  <2>3. ~Finished(d)'
    BY <1>4, <1>7 DEF Finished
  <2> QED
    BY <1>3, <1>4, <1>5, <1>6, <1>7, <2>1, <2>2, <2>3, DeliveryAssumption DEF Tried
<1> QED
  BY <1>1, <1>4, <1>5, <1>6, <1>8, <1>9, <1>10, <1>11, <1>a, <1>b, OwnRow

\* deliver_notification saves SENT when the handler returns.
LEMMA SentKeeps ==
  ASSUME Inv, NEW w \in Workers, SaveSent(w)
  PROVE  Inv'
<1>a. PICK t : t = task[w]
  OBVIOUS
<1>b. PICK d : d = t.msg.delivery
  OBVIOUS
<1>c. PICK x : x = [row[d] EXCEPT !.status = "SENT"]
  OBVIOUS
<1>1. TypeOK /\ t # NoTask /\ t.at = "save" /\ d \in Notices /\ t.response = "2xx"
  BY <1>a, <1>b DEF Inv, Sound, SaveSent, Busy
<1>2. /\ d \in Outbox /\ row[d].status # "ABSENT" /\ TaskSound(w) /\ RowSound(d)
      /\ d \notin Deliveries
  BY <1>1, <1>a, <1>b, InHand, DeliveryAssumption
<1>3. d \in accepted
  BY <1>1, <1>a, <1>b DEF TaskSound, Inv, Sound
<1>4. x.status = "SENT" /\ x.attempts = row[d].attempts
      /\ x \in [status : AnyStatus, attempts : Nat]
  BY <1>1, <1>2, <1>c DEF TypeOK, AnyStatus, NotificationStatus
<1>5. /\ task' = [task EXCEPT ![w] = NoTask] /\ row' = [row EXCEPT ![d] = x]
      /\ UNCHANGED <<request, queue, posts, accepted, lost, copied>>
  BY <1>1, <1>2, <1>a, <1>b, <1>c DEF SaveSent, Ends, TypeOK
<1>6. row'[d] = x
  BY <1>1, <1>2, <1>5 DEF TypeOK
<1>7. NotLost(d)'
  BY <1>4, <1>6 DEF NotLost, Finished
<1>8. x.status \in StatusOf(d)
  BY <1>2, <1>4 DEF StatusOf, NotificationStatus
<1> QED
  BY <1>1, <1>2, <1>3, <1>4, <1>5, <1>7, <1>8, <1>a, <1>b, OwnRow

\* And FAILED when it raises, before it calls Task.retry.
LEMMA FailedKeeps ==
  ASSUME Inv, NEW w \in Workers, SaveFailed(w)
  PROVE  Inv'
<1>a. PICK t : t = task[w]
  OBVIOUS
<1>b. PICK d : d = t.msg.delivery
  OBVIOUS
<1>c. PICK x : x = [row[d] EXCEPT !.status = "FAILED"]
  OBVIOUS
<1>d. PICK k : k = [t EXCEPT !.at = "retry"]
  OBVIOUS
<1>1. TypeOK /\ t # NoTask /\ t.at = "save" /\ d \in Notices /\ t.response # "2xx"
  BY <1>a, <1>b DEF Inv, Sound, SaveFailed, Busy
<1>2. /\ t \in Task /\ t.msg \in Message /\ d \in Outbox /\ d \notin Deliveries
      /\ row[d].status # "ABSENT" /\ TaskSound(w) /\ RowSound(d)
      /\ d \notin copied => Tried(w, d)
  BY <1>1, <1>a, <1>b, InHand, DeliveryAssumption
<1>3. /\ t.status \in StatusOf(d) \ {"DELIVERED", "SENT"}
      /\ t.status = "DEAD_LETTER" => posts[d] >= MaxAttempts
  BY <1>1, <1>2, <1>a, <1>b DEF TaskSound
<1>4. x.status = "FAILED" /\ x.attempts = row[d].attempts
      /\ x \in [status : AnyStatus, attempts : Nat]
  BY <1>1, <1>2, <1>c DEF TypeOK, AnyStatus, NotificationStatus
<1>5. /\ k \in Task /\ k.msg = t.msg /\ k.at = "retry" /\ k.response = t.response
      /\ k.status = t.status /\ k.attempts = t.attempts
  BY <1>2, <1>d DEF Task
<1>6. /\ task' = [task EXCEPT ![w] = k] /\ row' = [row EXCEPT ![d] = x]
      /\ UNCHANGED <<request, queue, posts, accepted, lost, copied>>
  BY <1>1, <1>2, <1>a, <1>b, <1>c, <1>d DEF SaveFailed, TypeOK
<1>7. row'[d] = x /\ task'[w] = k
  BY <1>1, <1>2, <1>6 DEF TypeOK
<1>8. x.status \in StatusOf(d)
  BY <1>2, <1>4 DEF StatusOf, NotificationStatus
<1>9. TaskSound(w)'
  BY <1>2, <1>3, <1>4, <1>5, <1>6, <1>7, <1>b DEF TaskSound
<1>10. k # NoTask
  BY <1>5, NoTaskAssumption
<1>11. d \notin copied => Tried(w, d)'
  <2> SUFFICES ASSUME d \notin copied PROVE Tried(w, d)'
    OBVIOUS
  <2>1. posts[d] = t.msg.retries + 1 /\ d \notin accepted
    BY <1>1, <1>2, <1>a DEF Tried
  <2>2. ~Finished(d)'
    BY <1>4, <1>7 DEF Finished
  <2> QED
    BY <1>2, <1>4, <1>5, <1>6, <1>7, <2>1, <2>2 DEF Tried
<1> QED
  BY <1>1, <1>2, <1>4, <1>5, <1>6, <1>8, <1>9, <1>10, <1>11, <1>a, <1>b, OwnRow

\* Task.retry publishes the next try, or raises when max_retries is used up.
LEMMA RetryKeeps ==
  ASSUME Inv, NEW w \in Workers, Retry(w)
  PROVE  Inv'
<1>a. PICK t : t = task[w]
  OBVIOUS
<1>b. PICK m : m = t.msg
  OBVIOUS
<1>c. PICK d : d = m.delivery
  OBVIOUS
<1>d. PICK n : n = [m EXCEPT !.retries = @ + 1]
  OBVIOUS
<1>1. TypeOK /\ t # NoTask /\ t.at = "retry"
  BY <1>a DEF Inv, Sound, Retry, Busy
<1>2. /\ m \in Message /\ d \in Outbox /\ row[d].status # "ABSENT" /\ RowSound(d) /\ On(w, d)
      /\ d \notin copied => /\ Sole(d) /\ Tried(w, d) /\ request[d] = "ended" /\ ~Queued(d)
                            /\ \A v \in Workers : On(v, d) => v = w
  BY <1>1, <1>a, <1>b, <1>c, InHand
<1>3. /\ m.retries \in Nat /\ n.delivery = d /\ n.retries = m.retries + 1
      /\ m.retries + 1 =< RetriesOf(d) => n \in Message
  BY <1>2, <1>c, <1>d, MessageTyped
<1>4. /\ task' = [task EXCEPT ![w] = NoTask]
      /\ UNCHANGED <<row, request, posts, accepted, lost, copied>>
  BY DEF Retry, Ends
<1>5. \/ m.retries + 1 =< RetriesOf(d) /\ n \in Message /\ queue' = queue \cup {n}
      \/ ~(m.retries + 1 =< RetriesOf(d)) /\ queue' = queue
  BY <1>3, <1>a, <1>b, <1>c, <1>d DEF Retry, RetryAllowed
<1>6. TypeOK'
  BY <1>1, <1>4, <1>5 DEF TypeOK
<1>7. Grows
  BY <1>1, <1>4 DEF TypeOK, Grows
<1>8. \A e \in Outbox \ {d} : Untouched(e)
  <2>1. \A e \in Outbox \ {d} :
           /\ request'[e] = request[e] /\ row'[e] = row[e] /\ posts'[e] = posts[e]
           /\ e \in accepted' <=> e \in accepted
           /\ \A l \in Message : l.delivery = e => (l \in queue' <=> l \in queue)
    BY <1>3, <1>4, <1>5
  <2> QED
    BY <1>2, <1>4, <2>1, OthersUntouched
<1>9. RowSound(d)'
  BY <1>2, <1>4 DEF RowSound
<1>10. task'[w] = NoTask /\ \A v \in Workers \ {w} : task'[v] = task[v]
  BY <1>1, <1>4 DEF TypeOK
<1>11. TaskSound(w)'
  BY <1>10 DEF TaskSound
<1>12. d \notin copied' => Sole(d)' /\ (Enough => NotLost(d)')
  <2> SUFFICES ASSUME d \notin copied PROVE Sole(d)' /\ (Enough => NotLost(d)')
    BY <1>4
  <2>1. /\ posts[d] = m.retries + 1 /\ ~Finished(d) /\ d \notin accepted
        /\ d \in Deliveries => row[d].attempts = posts[d] /\ posts[d] < MaxAttempts
        /\ d \in Notices => row[d].status = "FAILED"
    BY <1>1, <1>2, <1>a, <1>b DEF Tried
  <2>2. Waits(d, n.retries)'
    <3>1. row[d].status \in StatusOf(d)
      BY <1>1, <1>2 DEF TypeOK, StatusOf
    <3> QED
      BY <1>3, <1>4, <2>1, <3>1 DEF Waits, Finished
  <2>3. \A v \in Workers : ~On(v, d)'
    BY <1>2, <1>10 DEF On
  <2>4. \A l \in queue' : l.delivery = d => l = n
    BY <1>2, <1>5 DEF Queued
  <2>5. Sole(d)'
    BY <1>2, <1>4, <2>1, <2>2, <2>3, <2>4 DEF Sole, Finished
  <2>6. CASE queue' = queue \cup {n}
    BY <1>3, <2>5, <2>6 DEF NotLost, Carried
  <2>7. CASE ~(m.retries + 1 =< RetriesOf(d))
    <3>1. Enough => d \in Notices
      BY <1>2, <1>3, <2>1, <2>7, DeliveryAssumption DEF Enough, RetriesOf, Outbox
    <3>2. d \in Notices => GivenUp(d)'
      BY <1>3, <1>4, <2>1, <2>7, DeliveryAssumption DEF GivenUp, RetriesOf
    <3> QED
      BY <2>5, <3>1, <3>2 DEF NotLost
  <2> QED
    BY <1>5, <2>6, <2>7
<1> QED
  BY <1>2, <1>3, <1>4, <1>5, <1>6, <1>7, <1>8, <1>9, <1>10, <1>11, <1>12, OneRow

\* A task that dies takes its row with it.
LEMMA DeathKeeps ==
  ASSUME Inv, NEW w \in Workers, WorkerDies(w)
  PROVE  Inv'
<1>a. PICK d : d = task[w].msg.delivery
  OBVIOUS
<1>1. TypeOK /\ task[w] # NoTask
  BY DEF Inv, Sound, WorkerDies
<1>2. /\ d \in Outbox /\ row[d].status # "ABSENT" /\ RowSound(d) /\ On(w, d)
      /\ d \notin copied => /\ Sole(d) /\ Tried(w, d) /\ request[d] = "ended" /\ ~Queued(d)
                            /\ \A v \in Workers : On(v, d) => v = w
  BY <1>1, <1>a, InHand
<1>3. /\ task' = [task EXCEPT ![w] = NoTask] /\ lost' = lost \cup {d}
      /\ UNCHANGED <<row, request, queue, posts, accepted, copied>>
  BY <1>a DEF WorkerDies, Ends
<1>4. TypeOK'
  BY <1>1, <1>2, <1>3 DEF TypeOK
<1>5. Grows
  BY <1>1, <1>3 DEF TypeOK, Grows
<1>6. \A e \in Outbox \ {d} : Untouched(e)
  BY <1>2, <1>3, OthersUntouched
<1>7. RowSound(d)'
  BY <1>2, <1>3 DEF RowSound
<1>8. task'[w] = NoTask /\ \A v \in Workers \ {w} : task'[v] = task[v]
  BY <1>1, <1>3 DEF TypeOK
<1>9. TaskSound(w)'
  BY <1>8 DEF TaskSound
<1>10. d \notin copied' => Sole(d)'
  <2> SUFFICES ASSUME d \notin copied PROVE Sole(d)'
    BY <1>3
  <2>1. \A v \in Workers : ~On(v, d)'
    BY <1>2, <1>8 DEF On
  <2>2. \A l \in queue' : l.delivery # d
    BY <1>2, <1>3 DEF Queued
  <2> QED
    BY <1>2, <1>3, <2>1, <2>2 DEF Sole
<1> QED
  BY <1>2, <1>3, <1>4, <1>5, <1>6, <1>7, <1>8, <1>9, <1>10, OneRow

-----------------------------------------------------------------------------
\* A worker's step is one of the above.
LEMMA TaskStepKeeps ==
  ASSUME Inv, NEW w \in Workers, TaskStep(w)
  PROVE  Inv'
<1>1. CASE \E response \in {"2xx", "other", "none"} : Post(w, response)
  BY <1>1, PostKeeps
<1>2. CASE SaveResponse(w)
  BY <1>2, SaveKeeps
<1>3. CASE DeadLetter(w)
  BY <1>3, DeadLetterKeeps
<1>4. CASE MarkRetrying(w)
  BY <1>4, MarkKeeps
<1>5. CASE SaveSent(w) \/ SaveFailed(w)
  BY <1>5, SentKeeps, FailedKeeps
<1>6. CASE Retry(w)
  BY <1>6, RetryKeeps
<1> QED
  BY <1>1, <1>2, <1>3, <1>4, <1>5, <1>6 DEF TaskStep

\* Every step preserves the invariant.
LEMMA StepKeeps == Inv /\ [Next]_vars => Inv'
<1> SUFFICES ASSUME Inv, [Next]_vars PROVE Inv'
  OBVIOUS
<1>1. ASSUME NEW d \in Outbox,
             DispatchEvent(d) \/ RequestCommits(d) \/ RequestRollsBack(d)
               \/ HookRuns(d) \/ HookIsLost(d)
      PROVE  Inv'
  BY <1>1, DispatchKeeps, CommitKeeps, RollbackKeeps, HookKeeps, LostHookKeeps
<1>2. ASSUME NEW m \in queue, HandOutAgain(m) PROVE Inv'
  BY <1>2, CopyKeeps
<1>3. ASSUME NEW w \in Workers, NEW m \in queue, StartTask(w, m) PROVE Inv'
  BY <1>3, StartKeeps
<1>4. ASSUME NEW w \in Workers, TaskStep(w) \/ WorkerDies(w) PROVE Inv'
  BY <1>4, TaskStepKeeps, DeathKeeps
<1>5. CASE UNCHANGED vars
  BY <1>5 DEF vars, Inv, Sound, TypeOK, QueuedIsCommitted, TaskSound, RowSound, Sole, Fresh,
              Waits, Tried, NotLost, Carried, GivenUp, Finished, Queued, On, Enough
<1> QED
  BY <1>1, <1>2, <1>3, <1>4, <1>5 DEF Next, Idle

(***************************************************************************)
(* The invariant holds in every reachable state, whatever the broker and   *)
(* the workers do: no lock and no order of messages is assumed.            *)
(***************************************************************************)
LEMMA Always == Spec => []Inv
<1> QED
  BY InitInv, StepKeeps, PTL DEF Spec

(***************************************************************************)
(* Every reachable state is well typed; in particular a row never leaves   *)
(* the statuses of its own model, whichever tasks save over it.            *)
(***************************************************************************)
THEOREM TypeCorrect == Spec => []TypeOK
<1>1. Inv => TypeOK
  BY DEF Inv, Sound
<1> QED
  BY <1>1, Always, PTL

(***************************************************************************)
(* A queued task always finds its row (dispatch_event's on_commit hook), as*)
(* often as the broker hands a message out and however workers die.        *)
(***************************************************************************)
THEOREM QueueFollowsCommit == Spec => []QueuedIsCommitted
<1>1. Inv => QueuedIsCommitted
  BY DEF Inv, Sound
<1> QED
  BY <1>1, Always, PTL

(***************************************************************************)
(* No row is reported DELIVERED, SENT or DEAD_LETTER without the tries that*)
(* make it so, for any max_attempts and any max_retries.                   *)
(***************************************************************************)
THEOREM NothingIsInvented == Spec => []OutcomesAreEarned
<1>1. Inv => OutcomesAreEarned
  BY DEF Inv, Sound, RowSound, Sole, OutcomesAreEarned
<1> QED
  BY <1>1, Always, PTL

(***************************************************************************)
(* If max_retries of deliver_webhook leaves room for max_attempts of the   *)
(* row, then a row whose process lives and whose message comes once is     *)
(* never forgotten; the condition is the one the two numbers must satisfy. *)
(***************************************************************************)
THEOREM NothingIsForgotten ==
  ASSUME MaxAttempts =< MaxRetries + 1
  PROVE  Spec => []UnfinishedIsCarried
<1>1. Inv => UnfinishedIsCarried
  BY DEF Inv, NotLost, Enough, UnfinishedIsCarried
<1> QED
  BY <1>1, Always, PTL

\* A finished row is on nobody's way, so no step tries it again.
LEMMA StepSparesFinished ==
  ASSUME Inv, [Next]_vars, NEW d \in Outbox \ copied, Finished(d)
  PROVE  row'[d] = row[d] /\ posts'[d] = posts[d]
<1>1. TypeOK /\ Sole(d) /\ RowSound(d)
  BY DEF Inv, Sound
<1>2. request[d] # "open"
  BY <1>1 DEF RowSound, Finished
<1>3. \A w \in Workers : ~On(w, d)
  <2> SUFFICES ASSUME NEW w \in Workers, On(w, d) PROVE FALSE
    OBVIOUS
  <2>1. Tried(w, d)
    BY <1>1 DEF Sole
  <2> QED
    BY <2>1 DEF Tried, Waits
<1>4. ASSUME NEW e \in Outbox,
             DispatchEvent(e) \/ RequestCommits(e) \/ RequestRollsBack(e)
               \/ HookRuns(e) \/ HookIsLost(e)
      PROVE  row'[d] = row[d] /\ posts'[d] = posts[d]
  BY <1>1, <1>2, <1>4
     DEF TypeOK, DispatchEvent, RequestCommits, RequestRollsBack, HookRuns, HookIsLost
<1>5. ASSUME NEW m \in queue, HandOutAgain(m)
      PROVE  row'[d] = row[d] /\ posts'[d] = posts[d]
  BY <1>5 DEF HandOutAgain
<1>6. ASSUME NEW w \in Workers, NEW m \in queue, StartTask(w, m)
      PROVE  row'[d] = row[d] /\ posts'[d] = posts[d]
  BY <1>6 DEF StartTask
<1>7. ASSUME NEW w \in Workers, TaskStep(w) \/ WorkerDies(w)
      PROVE  row'[d] = row[d] /\ posts'[d] = posts[d]
  <2>1. task[w] # NoTask => task[w].msg.delivery # d
    BY <1>3 DEF On
  <2> QED
    BY <1>1, <1>7, <2>1 DEF TypeOK, TaskStep, WorkerDies, Post, SaveResponse, DeadLetter,
                            MarkRetrying, SaveSent, SaveFailed, Retry, Busy
<1>8. CASE UNCHANGED vars
  BY <1>8 DEF vars
<1> QED
  BY <1>4, <1>5, <1>6, <1>7, <1>8 DEF Next, Idle

(***************************************************************************)
(* A finished row is final: no further POST, hand-over or status change    *)
(* after DELIVERED, DEAD_LETTER or SENT, unless its message came twice.    *)
(***************************************************************************)
THEOREM FinishedStays == Spec => FinishedIsFinal
<1>1. Inv /\ [Next]_vars =>
        [\A d \in Outbox \ copied :
           Finished(d) => row'[d] = row[d] /\ posts'[d] = posts[d]]_vars
  BY StepSparesFinished
<1> QED
  BY <1>1, Always, PTL DEF Spec, FinishedIsFinal
=============================================================================
