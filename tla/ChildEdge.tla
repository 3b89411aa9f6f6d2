------------------------------ MODULE ChildEdge ------------------------------
(***************************************************************************)
(* What the ledger promises about one parent-to-child edge, without its    *)
(* tables: a phase every reader agrees on, and the outcome the durable     *)
(* evidence has fixed ("none" before).  ChildLedger implements it.         *)
(***************************************************************************)
VARIABLES phase, outcome

Outcomes == {"completed", "failed", "escalated"}
Open == {"preparing", "ready", "claimed", "resumable"}

Init == phase = "absent" /\ outcome = "none"

Attach == phase = "absent" /\ phase' \in {"preparing", "ready"} /\ UNCHANGED outcome

Prepared == phase = "preparing" /\ phase' = "ready" /\ UNCHANGED outcome

Take == phase \in {"ready", "resumable"} /\ phase' = "claimed" /\ UNCHANGED outcome

Release == phase \in {"claimed", "resumable"} /\ phase' = "resumable" /\ UNCHANGED outcome

\* An edge blocks while no evidence has decided it.
Block == phase \in Open \cup {"delivery_pending"} /\ outcome = "none"
         /\ phase' = "blocked" /\ UNCHANGED outcome

\* A taken edge is decided, and then waits for delivery or is terminal.
Defer == phase \in {"claimed", "resumable"} /\ phase' = "delivery_pending"
         /\ outcome' \in Outcomes \cup {"none"}

Settle == phase \in {"claimed", "resumable"} /\ outcome' \in Outcomes /\ phase' = outcome'

Deliver == phase = "delivery_pending" /\ outcome \in Outcomes
           /\ phase' = outcome /\ UNCHANGED outcome

Next == Attach \/ Prepared \/ Take \/ Release \/ Block \/ Defer \/ Settle \/ Deliver

Spec == Init /\ [][Next]_<<phase, outcome>>
=============================================================================
