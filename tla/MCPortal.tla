------------------------------ MODULE MCPortal ------------------------------
(* Portal with one tenant that has a row of every kind and a number for each *)
(* of bill and account, a second tenant, and a free tenant, user, credential *)
(* and row of most kinds that a view creates.                                *)
EXTENDS Portal, TLC
CONSTANTS u1, u2, u3, s1, n1, n2, n3, k1, k2, r1, r2, r3

\* the rows are numbered: 1 to 15 are there, 16 to 26 are free
MCKindOf ==
  <<"customer", "account", "bill", "number", "number", "batch", "payment", "receipt", "entry",
    "revenue", "notification", "endpoint", "delivery", "run", "exception",
    "customer", "account", "bill", "number", "batch", "payment", "receipt",
    "endpoint", "delivery", "run", "exception">>
MCRows        == DOMAIN MCKindOf
MCStored      == [x \in 1 .. 15 |-> n1]
MCStoredUnder == <<{}, {1}, {2}, {3}, {2}, {}, {4}, {7}, {}, {}, {}, {}, {12}, {}, {7, 14}>>
Member(u, n, role) == [user |-> u, tenant |-> n, role |-> role]
MCHired == {Member(u1, n1, "tenant_admin"), Member(u2, n1, "tenant_admin"),
            Member(u2, n2, "tenant_admin")}
MCRegistered == n1 :> "active" @@ n2 :> "pending"
MCSigned == [u \in {u1, u2, u3, s1} |-> IF u \in {u1, u2} THEN n1 ELSE NoTenant]
MCIssued == k1 :> n1

MCCalls ==
  r1 :> {"customer_create", "account_create", "bill_create", "pay_bill", "customer_edit",
         "credential_rotate", "team_member_deactivate", "onboard", "platform_user_create",
         "endpoint_create", "trigger_run", "credential_create", "payment_reverse",
         "team_member_activate", "generate_batch"}
  @@ r2 :> {"customer_deactivate", "bill_request_control_number", "credential_revoke",
            "team_member_deactivate", "team_member_create", "resolve_exception_view",
            "mark_completed", "approve_tenant", "platform_create_tenant", "api_bill", "api_payment",
            "bill_cancel", "payment_query", "payment_refund", "api_payment_query"}
  @@ r3 :> {"customer_activate"}

=============================================================================
