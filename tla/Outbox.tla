------------------------------- MODULE Outbox -------------------------------
(***************************************************************************)
(* What a dispatcher promises its caller, with no queue, worker, retry or  *)
(* clock in sight: every item that is handed over is accepted or rejected; *)
(* an accepted item is settled once, as shipped or as dropped; only after  *)
(* the outbox has begun to close may an item be abandoned, that is         *)
(* forgotten with no outcome reported.                                     *)
(***************************************************************************)
CONSTANT Items          \* everything that may be handed over

VARIABLES
  status,               \* status[i]: how far item i has come
  closing               \* whether the outbox has begun to close

vars == <<status, closing>>

Status == {"new", "pending", "shipped", "dropped", "abandoned"}
Final  == {"shipped", "dropped", "abandoned"}

TypeOK ==
  /\ status \in [Items -> Status]
  /\ closing \in BOOLEAN

Init ==
  /\ status = [i \in Items |-> "new"]
  /\ closing = FALSE

Move(i, from, to) ==
  /\ status[i] = from
  /\ status' = [status EXCEPT ![i] = to]
  /\ UNCHANGED closing

Accept(i)  == Move(i, "new", "pending")
Reject(i)  == Move(i, "new", "dropped")
Ship(i)    == Move(i, "pending", "shipped")
Drop(i)    == Move(i, "pending", "dropped")
Abandon(i) == closing /\ Move(i, "pending", "abandoned")

Close ==
  /\ closing' = TRUE
  /\ UNCHANGED status

Next ==
  \/ \E i \in Items : Accept(i) \/ Reject(i) \/ Ship(i) \/ Drop(i) \/ Abandon(i)
  \/ Close

Spec == Init /\ [][Next]_vars

-----------------------------------------------------------------------------
\* An outcome is final: whatever was reported for an item stays reported.
OutcomeIsFinal ==
  [][\A i \in Items : status[i] \in Final => status'[i] = status[i]]_vars
=============================================================================
