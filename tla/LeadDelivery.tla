---------------------------- MODULE LeadDelivery ----------------------------
(***************************************************************************)
(* What the outbox promises (agent_server/stages/deliver.py:3-9), with     *)
(* nothing of how: a lead that was queued stays on record, reaches the     *)
(* platform at least once before it is acknowledged, and may reach it      *)
(* again.  An acknowledgement can be withdrawn: a failed attempt that      *)
(* overlapped a successful one puts the row back up for delivery.          *)
(***************************************************************************)
CONSTANT Leads

VARIABLES queued,       \* leads on record
          delivered,    \* leads the platform has stored
          acknowledged  \* leads the sender takes for delivered

deliveryVars == <<queued, delivered, acknowledged>>

Start == queued = {} /\ delivered = {} /\ acknowledged = {}

Queue(l) ==
    /\ l \notin queued
    /\ queued' = queued \cup {l}
    /\ UNCHANGED <<delivered, acknowledged>>

Deliver(l) ==
    /\ l \in queued
    /\ delivered' = delivered \cup {l}
    /\ UNCHANGED <<queued, acknowledged>>

Acknowledge(l) ==
    /\ l \in delivered
    /\ acknowledged' = acknowledged \cup {l}
    /\ UNCHANGED <<queued, delivered>>

Withdraw(l) ==
    /\ acknowledged' = acknowledged \ {l}
    /\ UNCHANGED <<queued, delivered>>

Move == \E l \in Leads : Queue(l) \/ Deliver(l) \/ Acknowledge(l) \/ Withdraw(l)

AtLeastOnce == Start /\ [][Move]_deliveryVars
=============================================================================
