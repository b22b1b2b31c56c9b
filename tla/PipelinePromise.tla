-------------------------- MODULE PipelinePromise --------------------------
(***************************************************************************)
(* What pipelines promise the process that runs them, with no channel,     *)
(* serializer or dispatcher in sight: a pipeline takes payloads until it   *)
(* has begun to drain, settles every one of them before it returns, gives  *)
(* up on its own only after a number of failures, and ends without an      *)
(* error only when it is told to.                                          *)
(*                                                                         *)
(* A payload that comes when the drain has counted what it will drain is   *)
(* not promised anything, and is not seen here.                            *)
(***************************************************************************)
EXTENDS Integers

CONSTANTS
  Pipelines,
  Patience,     \* the failures of a subscription that a pipeline bears
  MaxPayloads   \* bound: payloads a pipeline has processed and yet to settle

VARIABLES
  at,           \* at[p]: how far p has come
  result,       \* result[p]: what Run returns
  failures,     \* failures[p]: how often its subscription has failed
  backlog,      \* backlog[p]: payloads accepted and not settled
  processed,    \* processed[p]: the counter of the payloads shipped
  cancelled     \* the context given to the pipelines is done

workVars == <<backlog, processed>>
vars == <<at, result, failures, workVars, cancelled>>

Init ==
  /\ at = [p \in Pipelines |-> "running"]
  /\ result = [p \in Pipelines |-> "none"]
  /\ failures = [p \in Pipelines |-> 0]
  /\ backlog = [p \in Pipelines |-> 0]
  /\ processed = [p \in Pipelines |-> 0]
  /\ cancelled = FALSE

GoTo(p, place) == at' = [at EXCEPT ![p] = place]

\* The serializer is not waited for: payloads also come while the workers stop.
Accept(p) ==
  /\ at[p] \in {"running", "stopping"}
  /\ processed[p] + backlog[p] < MaxPayloads
  /\ backlog' = [backlog EXCEPT ![p] = @ + 1]
  /\ UNCHANGED <<at, result, failures, processed, cancelled>>

\* A payload is shipped, or dropped, or abandoned by a worker that is cancelled.
Settle(p) ==
  /\ backlog[p] > 0
  /\ backlog' = [backlog EXCEPT ![p] = @ - 1]
  /\ processed' = [processed EXCEPT ![p] = @ + 1] \/ UNCHANGED processed
  /\ UNCHANGED <<at, result, failures, cancelled>>

\* The subscription fails, and is tried again.  No success is ever counted for it.
Fail(p) ==
  /\ at[p] = "running" /\ failures[p] < Patience
  /\ failures' = [failures EXCEPT ![p] = @ + 1]
  /\ UNCHANGED <<at, result, workVars, cancelled>>

\* The retry loop of Run ends: the subscription has failed once more, or the context is
\* done, which is an error if it is noticed in a backoff.
LoopEnds(p) ==
  /\ at[p] = "running"
  /\ \E r \in {"nil", "error"} :
       /\ cancelled \/ (r = "error" /\ failures[p] = Patience)
       /\ result' = [result EXCEPT ![p] = r]
  /\ GoTo(p, "stopping")
  /\ UNCHANGED <<failures, workVars, cancelled>>

\* The deferred Stop: its workers have exited, and it counts what is left.
Drain(p) ==
  /\ at[p] = "stopping"
  /\ GoTo(p, "draining")
  /\ UNCHANGED <<result, failures, workVars, cancelled>>

\* The queue is drained, and Run returns.
Stopped(p) ==
  /\ at[p] = "draining" /\ backlog[p] = 0
  /\ GoTo(p, "returned")
  /\ UNCHANGED <<result, failures, workVars, cancelled>>

Cancel ==
  /\ cancelled' = TRUE
  /\ UNCHANGED <<at, result, failures, workVars>>

Next ==
  \/ \E p \in Pipelines : Accept(p) \/ Settle(p) \/ Fail(p) \/ LoopEnds(p) \/ Drain(p) \/ Stopped(p)
  \/ Cancel

Spec == Init /\ [][Next]_vars
=============================================================================
