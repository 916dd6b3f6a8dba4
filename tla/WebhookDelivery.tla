---------------------------- MODULE WebhookDelivery ----------------------------
(***************************************************************************)
(* The outbox: dispatch_event (apps.webhooks) writes a delivery and        *)
(* send_notification (apps.notifications) a notice in the request's        *)
(* transaction, and each enqueues its task on commit.  A Celery task POSTs *)
(* the delivery, saves the response, and retries or dead-letters it;       *)
(* another hands the notice to its channel and saves SENT, or FAILED and   *)
(* retries.  Both share the broker and the workers.  A task runs outside   *)
(* any transaction: each save is a statement of its own, from an instance  *)
(* read when the task started.                                             *)
(*                                                                         *)
(* Celery acknowledges a message before it executes the task, so a worker  *)
(* that dies loses it; a message that waits longer than the broker's       *)
(* visibility timeout is handed out a second time.                         *)
(***************************************************************************)
EXTENDS Integers, FiniteSets

CONSTANTS
  Deliveries,  \* WebhookDelivery rows: one per event and subscribed endpoint
  Notices,     \* Notification rows: one per event and channel with a recipient
  Emails,      \* the e-mails among them: the mock SMS channel never fails
  Bursts,      \* the sets of rows that may be written: one of them is
  Redelivered, \* those whose message the broker may hand out twice, once
  Workers,
  MaxAttempts, \* WebhookDelivery.max_attempts
  MaxRetries,  \* max_retries of deliver_webhook
  MaxNoticeRetries, \* max_retries of deliver_notification
  NoTask

ASSUME DeliveryAssumption ==
  /\ Deliveries \cap Notices = {} /\ Emails \subseteq Notices
  /\ Bursts \subseteq SUBSET (Deliveries \cup Notices)
  /\ Redelivered \subseteq Deliveries \cup Notices
  /\ MaxAttempts \in Nat \ {0}
  /\ MaxRetries \in Nat /\ MaxNoticeRetries \in Nat

VARIABLES
  row,       \* committed rows: status (ABSENT before), attempt_count
  request,   \* the request that writes each row
  queue,     \* messages in the broker
  task,      \* what each worker executes: message, instance, response, where it is
  posts,     \* POSTs each endpoint has received, tries of each channel
  accepted,  \* rows of which a worker has seen a 2xx, or the channel return
  lost,      \* rows whose hook or task died with its process
  copied     \* rows whose message was handed out twice

vars == <<row, request, queue, task, posts, accepted, lost, copied>>

DeliveryStatus     == {"PENDING", "RETRYING", "DELIVERED", "DEAD_LETTER"}
NotificationStatus == {"PENDING", "SENT", "FAILED"}
Outbox             == Deliveries \cup Notices
Finished(d)        == row[d].status \in {"DELIVERED", "DEAD_LETTER", "SENT"}

RetriesOf(d) == IF d \in Deliveries THEN MaxRetries ELSE MaxNoticeRetries

\* copy 1 descends from a message that was handed out twice
Message == UNION {[delivery : {d}, retries : 0 .. RetriesOf(d), copy : {0, 1}] : d \in Outbox}

Init ==
  /\ row = [d \in Outbox |-> [status |-> "ABSENT", attempts |-> 0]]
  /\ \E B \in Bursts : request = [d \in Outbox |-> IF d \in B THEN "idle" ELSE "ended"]
  /\ queue = {}
  /\ task = [w \in Workers |-> NoTask]
  /\ posts = [d \in Outbox |-> 0]
  /\ accepted = {}
  /\ lost = {}
  /\ copied = {}

-----------------------------------------------------------------------------
(* The request: dispatch_event or send_notification, then COMMIT or         *)
(* ROLLBACK, then the hook.                                                 *)

Enqueue(d) == queue' = queue \cup {[delivery |-> d, retries |-> 0, copy |-> 0]}

EnqueueAtOnce(d) ==
  /\ request[d] = "idle"
  /\ request' = [request EXCEPT ![d] = "open"]
  /\ Enqueue(d)
  /\ UNCHANGED <<row, task, posts, accepted, lost, copied>>

\* the row is written (send_notification likewise); _enqueue only registers the on_commit hook
DispatchEvent(d) ==
  /\ request[d] = "idle"
  /\ request' = [request EXCEPT ![d] = "open"]
  /\ UNCHANGED <<row, queue, task, posts, accepted, lost, copied>>

RequestCommits(d) ==
  /\ request[d] = "open"
  /\ request' = [request EXCEPT ![d] = "hook"]
  /\ row' = [row EXCEPT ![d].status = "PENDING"]
  /\ UNCHANGED <<queue, task, posts, accepted, lost, copied>>

RequestRollsBack(d) ==
  /\ request[d] = "open"
  /\ request' = [request EXCEPT ![d] = "ended"]
  /\ UNCHANGED <<row, queue, task, posts, accepted, lost, copied>>

HookRuns(d) ==
  /\ request[d] = "hook"
  /\ request' = [request EXCEPT ![d] = "ended"]
  /\ Enqueue(d)
  /\ UNCHANGED <<row, task, posts, accepted, lost, copied>>

\* the process dies, or the broker is away, between COMMIT and the hook
HookIsLost(d) ==
  /\ request[d] = "hook"
  /\ request' = [request EXCEPT ![d] = "ended"]
  /\ lost' = lost \cup {d}
  /\ UNCHANGED <<row, queue, task, posts, accepted, copied>>

-----------------------------------------------------------------------------
(* The broker hands a waiting message out a second time.                    *)

HandOutAgain(m) ==
  /\ m \in queue
  /\ m.delivery \in Redelivered \ copied
  /\ copied' = copied \cup {m.delivery}
  /\ queue' = queue \cup {[m EXCEPT !.copy = 1]}
  /\ UNCHANGED <<row, request, task, posts, accepted, lost>>

-----------------------------------------------------------------------------
(* deliver_webhook and deliver_notification.                                *)

Busy(w, at) == task[w] # NoTask /\ task[w].at = at
Ends(w)     == task' = [task EXCEPT ![w] = NoTask]

StartTask(w, m) ==
  LET d == m.delivery IN
  /\ task[w] = NoTask
  /\ m \in queue
  /\ queue' = queue \ {m}
  /\ \/ /\ row[d].status \in {"ABSENT", "DELIVERED", "SENT"}
        /\ UNCHANGED task
     \/ /\ row[d].status \notin {"ABSENT", "DELIVERED", "SENT"}
        /\ task' = [task EXCEPT ![w] = [msg |-> m, at |-> "post", response |-> "none",
                                        status |-> row[d].status,
                                        attempts |-> row[d].attempts
                                                      + (IF d \in Deliveries THEN 1 ELSE 0)]]
  /\ UNCHANGED <<row, request, posts, accepted, lost, copied>>

\* a POST is answered by a 2xx, by another status, or not at all although it was
\* received; a channel returns or raises
Responses(d) == CASE d \in Deliveries -> {"2xx", "other", "none"}
                  [] d \in Emails     -> {"2xx", "other"}
                  [] OTHER            -> {"2xx"}

\* the POST of _perform_delivery, or the handler of deliver_notification
Post(w, response) ==
  LET d == task[w].msg.delivery IN
  /\ Busy(w, "post")
  /\ response \in Responses(d)
  /\ posts' = [posts EXCEPT ![d] = @ + 1]
  /\ accepted' = IF response = "2xx" THEN accepted \cup {d} ELSE accepted
  /\ task' = [task EXCEPT ![w].at = "save", ![w].response = response]
  /\ UNCHANGED <<row, request, queue, lost, copied>>

StatusAfterAnyResponse(old, seen, response) ==
  IF response = "none" THEN old ELSE "DELIVERED"

\* the status a save leaves: the exception path does not write the column at all
StatusAfter(old, seen, response) ==
  CASE response = "2xx"   -> "DELIVERED"
    [] response = "other" -> seen
    [] OTHER              -> old

SaveAndDecide(w) ==
  LET d == task[w].msg.delivery IN
  /\ Busy(w, "save") /\ d \in Deliveries
  /\ row' = [row EXCEPT ![d] =
               [status |-> StatusAfter(row[d].status, task[w].status, task[w].response),
                attempts |-> task[w].attempts]]
  /\ task' = [task EXCEPT ![w].at = "decide"]
  /\ UNCHANGED <<request, queue, posts, accepted, lost, copied>>

SaveResponse(w) ==
  LET d == task[w].msg.delivery IN
  /\ Busy(w, "save") /\ d \in Deliveries
  /\ row' = [row EXCEPT ![d] =
               [status |-> StatusAfter(row[d].status, task[w].status, task[w].response),
                attempts |-> task[w].attempts]]
  /\ IF task[w].response = "2xx" THEN Ends(w)
                                 ELSE task' = [task EXCEPT ![w].at = "decide"]
  /\ UNCHANGED <<request, queue, posts, accepted, lost, copied>>

ExhaustedEarly(w) == task[w].attempts + 1 >= MaxAttempts

Exhausted(w) == task[w].attempts >= MaxAttempts

DeadLetter(w) ==
  /\ Busy(w, "decide")
  /\ Exhausted(w)
  /\ row' = [row EXCEPT ![task[w].msg.delivery].status = "DEAD_LETTER"]
  /\ Ends(w)
  /\ UNCHANGED <<request, queue, posts, accepted, lost, copied>>

MarkRetryingOnly(w) ==
  /\ Busy(w, "decide")
  /\ ~Exhausted(w)
  /\ row' = [row EXCEPT ![task[w].msg.delivery].status = "RETRYING"]
  /\ Ends(w)
  /\ UNCHANGED <<request, queue, posts, accepted, lost, copied>>

MarkRetrying(w) ==
  /\ Busy(w, "decide")
  /\ ~Exhausted(w)
  /\ row' = [row EXCEPT ![task[w].msg.delivery].status = "RETRYING"]
  /\ task' = [task EXCEPT ![w].at = "retry"]
  /\ UNCHANGED <<request, queue, posts, accepted, lost, copied>>

\* deliver_notification saves SENT, or FAILED before it retries
SaveSent(w) ==
  LET d == task[w].msg.delivery IN
  /\ Busy(w, "save") /\ d \in Notices
  /\ task[w].response = "2xx"
  /\ row' = [row EXCEPT ![d].status = "SENT"]
  /\ Ends(w)
  /\ UNCHANGED <<request, queue, posts, accepted, lost, copied>>

SaveFailed(w) ==
  LET d == task[w].msg.delivery IN
  /\ Busy(w, "save") /\ d \in Notices
  /\ task[w].response # "2xx"
  /\ row' = [row EXCEPT ![d].status = "FAILED"]
  /\ task' = [task EXCEPT ![w].at = "retry"]
  /\ UNCHANGED <<request, queue, posts, accepted, lost, copied>>

RetryUnbounded(m) == TRUE

\* Task.retry publishes the next try only while max_retries allows it
RetryAllowed(m) == m.retries + 1 <= RetriesOf(m.delivery)

Retry(w) ==
  LET m == task[w].msg IN
  /\ Busy(w, "retry")
  /\ queue' = IF RetryAllowed(m) THEN queue \cup {[m EXCEPT !.retries = @ + 1]} ELSE queue
  /\ Ends(w)
  /\ UNCHANGED <<row, request, posts, accepted, lost, copied>>

\* the worker dies in the middle of a task, whose message is already acknowledged
WorkerDies(w) ==
  /\ task[w] # NoTask
  /\ lost' = lost \cup {task[w].msg.delivery}
  /\ Ends(w)
  /\ UNCHANGED <<row, request, queue, posts, accepted, copied>>

-----------------------------------------------------------------------------
TaskStep(w) ==
  \/ \E response \in {"2xx", "other", "none"} : Post(w, response)
  \/ SaveResponse(w)
  \/ DeadLetter(w)
  \/ MarkRetrying(w)
  \/ SaveSent(w) \/ SaveFailed(w)
  \/ Retry(w)

Idle ==
  /\ \A d \in Outbox : request[d] = "ended"
  /\ queue = {}
  /\ \A w \in Workers : task[w] = NoTask
  /\ UNCHANGED vars

Next ==
  \/ \E d \in Outbox :
       DispatchEvent(d) \/ RequestCommits(d) \/ RequestRollsBack(d) \/ HookRuns(d) \/ HookIsLost(d)
  \/ \E m \in queue : HandOutAgain(m)
  \/ \E w \in Workers, m \in queue : StartTask(w, m)
  \/ \E w \in Workers : TaskStep(w) \/ WorkerDies(w)
  \/ Idle

Spec == Init /\ [][Next]_vars

(***************************************************************************)
(* The hook of a committed request runs unless its process dies, a worker  *)
(* that has started a task goes on, and the workers take what is queued.   *)
(***************************************************************************)
FairSpec ==
  /\ Spec
  /\ \A d \in Outbox : WF_vars(HookRuns(d))
  /\ \A w \in Workers : WF_vars(TaskStep(w))
  /\ \A m \in Message : WF_vars(\E w \in Workers : StartTask(w, m))

-----------------------------------------------------------------------------
(* Type invariant: in particular no task runs for a row that is not there.  *)
AnyStatus == DeliveryStatus \cup NotificationStatus
Task == [msg : Message, at : {"post", "save", "decide", "retry"},
         response : {"2xx", "other", "none"}, status : AnyStatus, attempts : Nat]
ASSUME NoTaskAssumption == NoTask \notin Task

TypeOK ==
  /\ row \in [Outbox -> [status : AnyStatus \cup {"ABSENT"}, attempts : Nat]]
  /\ \A d \in Outbox : row[d].status \in {"ABSENT"}
       \cup (IF d \in Deliveries THEN DeliveryStatus ELSE NotificationStatus)
  /\ request \in [Outbox -> {"idle", "open", "hook", "ended"}]
  /\ queue \subseteq Message
  /\ task \in [Workers -> Task \cup {NoTask}]
  /\ posts \in [Outbox -> Nat]
  /\ accepted \subseteq Outbox /\ lost \subseteq Outbox
  /\ copied \subseteq Redelivered

\* a hook, a message or a task that will go on with row d
Carried(d) ==
  \/ request[d] = "hook"
  \/ \E m \in queue : m.delivery = d
  \/ \E w \in Workers : task[w] # NoTask /\ task[w].msg.delivery = d

\* a notice whose channel has failed on every try
GivenUp(d) == d \in Notices /\ row[d].status = "FAILED" /\ posts[d] > MaxNoticeRetries

(***************************************************************************)
(* A queued task always finds its row committed: nobody is told of a       *)
(* change that is rolled back or not yet visible (dispatch_event's         *)
(* docstring: "can never pick up a delivery task for a row it can't yet    *)
(* see").                                                                  *)
(***************************************************************************)
QueuedIsCommitted == \A m \in queue : row[m.delivery].status # "ABSENT"

(***************************************************************************)
(* What a row reports is what happened.  DELIVERED and SENT are never      *)
(* invented: a worker has seen a 2xx, or the channel return, also when a   *)
(* stale instance is saved over it (_perform_delivery writes the status    *)
(* column of its instance on every response).  DEAD_LETTER comes only after*)
(* max_attempts POSTs, although two tasks may overwrite each other's       *)
(* attempt_count; and after exactly as many, none of them answered with a  *)
(* 2xx, if no message was handed out twice (deliver_webhook).              *)
(***************************************************************************)
OutcomesAreEarned ==
  \A d \in Outbox :
    /\ row[d].status \in {"DELIVERED", "SENT"} => d \in accepted
    /\ row[d].status = "DEAD_LETTER" =>
         /\ posts[d] >= MaxAttempts
         /\ d \notin copied => posts[d] = MaxAttempts /\ d \notin accepted

(***************************************************************************)
(* A row that is committed and not finished is still on its way, unless    *)
(* its process died or its message was handed out twice: max_retries of    *)
(* deliver_webhook never runs out before max_attempts of the row, and a    *)
(* notice is given up only when its channel has failed on every try.       *)
(***************************************************************************)
UnfinishedIsCarried ==
  \A d \in Outbox \ (lost \cup copied) :
    row[d].status # "ABSENT" /\ ~Finished(d) => Carried(d) \/ GivenUp(d)

(***************************************************************************)
(* A finished row is left alone: no POST, no hand-over and no status change*)
(* after DELIVERED, DEAD_LETTER or SENT, if its message was not handed out *)
(* twice.                                                                  *)
(***************************************************************************)
FinishedIsFinal ==
  [][\A d \in Outbox \ copied :
       Finished(d) => row'[d] = row[d] /\ posts'[d] = posts[d]]_vars

(***************************************************************************)
(* Every committed row is finished, or given up after every try of its     *)
(* channel, unless a process dies with it.  If its message was handed out  *)
(* twice, it is at least not retried for ever: stale saves may lower       *)
(* attempt_count until max_retries ends both tasks with the row still      *)
(* RETRYING.                                                               *)
(***************************************************************************)
EventuallyFinished ==
  \A d \in Outbox :
    request[d] = "hook" ~> \/ Finished(d) \/ GivenUp(d) \/ d \in lost
                           \/ d \in copied /\ ~Carried(d)
=============================================================================
