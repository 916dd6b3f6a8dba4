---------------------------- MODULE PaymentStates ----------------------------
(***************************************************************************)
(* The state machines of a Payment and of a Bill, and the vocabulary in    *)
(* which a provider adapter reports an outcome.  Constant operators only:  *)
(* the modules that move a payment or a bill extend this one.              *)
(***************************************************************************)

\* apps.payments.models.PaymentStatus
Status == {"INITIATED", "PENDING", "SUCCESSFUL", "FAILED", "UNKNOWN",
           "EXPIRED", "REVERSED", "REFUNDED"}

TransitionsLeavingSuccess ==
  [s \in Status |->
     CASE s = "INITIATED"  -> {"PENDING", "SUCCESSFUL", "FAILED", "UNKNOWN"}
       [] s = "PENDING"    -> {"SUCCESSFUL", "FAILED", "UNKNOWN", "EXPIRED"}
       [] s = "UNKNOWN"    -> {"SUCCESSFUL", "FAILED"}
       [] s = "SUCCESSFUL" -> {"REVERSED", "REFUNDED", "FAILED"}
       [] OTHER            -> {}]

\* apps.payments.models.ALLOWED_TRANSITIONS
AllowedTransitions ==
  [s \in Status |->
     CASE s = "INITIATED"  -> {"PENDING", "SUCCESSFUL", "FAILED", "UNKNOWN"}
       [] s = "PENDING"    -> {"SUCCESSFUL", "FAILED", "UNKNOWN", "EXPIRED"}
       [] s = "UNKNOWN"    -> {"SUCCESSFUL", "FAILED"}
       [] s = "SUCCESSFUL" -> {"REVERSED", "REFUNDED"}
       [] OTHER            -> {}]

\* apps.providers.base.ProviderOutcome: all the orchestrator sees of a provider
ProviderOutcome == {"pending", "successful", "failed", "unknown"}

\* apps.payments.services.OUTCOME_TO_STATUS, which has no entry for UNKNOWN
OutcomeToStatus ==
  [o \in ProviderOutcome \ {"unknown"} |->
     CASE o = "successful" -> "SUCCESSFUL"
       [] o = "failed"     -> "FAILED"
       [] OTHER            -> "PENDING"]

\* apps.billing.models.BillStatus
BillStatus == {"DRAFT", "ACTIVE", "PARTIALLY_PAID", "PAID", "EXPIRED",
               "CANCELLED", "DISPUTED"}

\* apps.billing.models.ALLOWED_TRANSITIONS
BillTransitions ==
  [s \in BillStatus |->
     CASE s = "DRAFT"          -> {"ACTIVE", "CANCELLED"}
       [] s = "ACTIVE"         -> {"PARTIALLY_PAID", "PAID", "EXPIRED",
                                   "CANCELLED", "DISPUTED"}
       [] s = "PARTIALLY_PAID" -> {"PAID", "DISPUTED", "CANCELLED"}
       [] s = "PAID"           -> {"DISPUTED"}
       [] s = "DISPUTED"       -> {"ACTIVE", "PARTIALLY_PAID", "PAID"}
       [] OTHER                -> {}]

(***************************************************************************)
(* _apply_outcome on an instance whose status field holds s: it does       *)
(* nothing, it raises from transition_to, or it writes NewStatus(o).       *)
(***************************************************************************)
OutcomeAsStatus(o) == o

NewStatus(o) == IF o = "unknown" THEN "UNKNOWN" ELSE OutcomeToStatus[o]

OutcomeIsNoop(s, o) ==
  IF o = "unknown" THEN s \notin {"INITIATED", "PENDING"}
                   ELSE s = OutcomeToStatus[o]

OutcomeRaises(s, o) ==
  /\ ~OutcomeIsNoop(s, o)
  /\ NewStatus(o) \notin AllowedTransitions[s]

OutcomeWrites(s, o) ==
  /\ ~OutcomeIsNoop(s, o)
  /\ NewStatus(o) \in AllowedTransitions[s]
=============================================================================
