------------------------------- MODULE Retry -------------------------------
(***************************************************************************)
(* queue.RetryBackoff (src/internal/queue/retry.go): call a function until *)
(* it succeeds, fails for good, the context is done while waiting, or the  *)
(* retries are used up.  A wait precedes every call, the first included.   *)
(*                                                                         *)
(* The pipeline, the websocket subscriptions and the environment fetch all *)
(* run on this loop, with different limits; Pipeline composes this module. *)
(***************************************************************************)
EXTENDS Integers

CONSTANTS
  MaxRetries,   \* retries after the first call; a negative number means no limit
  CountTo       \* bound: the attempt counter stops here when there is no limit

VARIABLES
  phase,        \* "wait" in the select, "call" inside fn, "done" when returned
  attempt,      \* the loop counter
  verdict       \* what RetryBackoff has returned

vars == <<phase, attempt, verdict>>

Verdicts == {"none", "nil", "fatal", "exhausted", "cancelled"}

Unlimited   == MaxRetries < 0
HighestTry  == IF Unlimited THEN CountTo ELSE MaxRetries

TypeOK ==
  /\ phase \in {"wait", "call", "done"}
  /\ attempt \in 0 .. HighestTry
  /\ verdict \in Verdicts

Init ==
  /\ phase = "wait"
  /\ attempt = 0
  /\ verdict = "none"

Finish(v) ==
  /\ phase' = "done"
  /\ verdict' = v
  /\ UNCHANGED attempt

\* The backoff timer fires and fn is called.  The select may choose the timer
\* although the context is done as well.
Elapse ==
  /\ phase = "wait"
  /\ phase' = "call"
  /\ UNCHANGED <<attempt, verdict>>

\* The context is done during the wait.
Interrupt == phase = "wait" /\ Finish("cancelled")

\* fn returns nil.
Succeed == phase = "call" /\ Finish("nil")

\* fn returns an error that is not wrapped in Retryable.
FailFatal == phase = "call" /\ Finish("fatal")

Spent == ~Unlimited /\ attempt >= MaxRetries

NextTry == IF Unlimited /\ attempt = CountTo THEN attempt ELSE attempt + 1

\* fn returns a Retryable error: give up, or wait again.
FailRetryable ==
  /\ phase = "call"
  /\ \/ Spent /\ Finish("exhausted")
     \/ /\ ~Spent
        /\ phase' = "wait"
        /\ attempt' = NextTry
        /\ UNCHANGED verdict

-----------------------------------------------------------------------------
(* The delays, in milliseconds; the float multiplications of the code are  *)
(* exact for the numbers it passes.                                        *)

AtMost(d, max) == IF d > max THEN max ELSE d

CalculateBackoff(n, initial, max, multiplier) == AtMost(initial * multiplier ^ n, max)

\* Mistake: the jittered delay is not capped.
ApplyJitterUncapped(d, jitter, max, draw) ==
  (d * (10000 + AtMost(jitter, 100) * (2 * draw - 100))) \div 10000

\* jitter is a percentage, and so is draw, the random number in [0, 1).
ApplyJitter(d, jitter, max, draw) ==
  LET spread == AtMost(jitter, 100) * (2 * draw - 100)
  IN AtMost(IF jitter > 0 THEN (d * (10000 + spread)) \div 10000 ELSE d, max)
=============================================================================
