----------------------------- MODULE Locomotive -----------------------------
(***************************************************************************)
(* The process: run in src/main.go starts the two pipelines in an ErrGroup *)
(* (src/internal/errgroup/errgroup.go) and exits with what Wait returns,   *)
(* while the status reporter (src/status.go) reads the counters.           *)
(*                                                                         *)
(* The steps of a pipeline are those of module PipelinePromise, which      *)
(* module Pipeline implements.                                             *)
(***************************************************************************)
EXTENDS Integers, FiniteSets

CONSTANTS
  Deploy, HttpLogs,   \* the two pipelines
  Patience,           \* the failures of a subscription that a pipeline bears
  MaxPayloads         \* bound: payloads of a pipeline

Pipelines == {Deploy, HttpLogs}

ASSUME LocomotiveAssumption ==
  /\ Deploy # HttpLogs
  /\ Patience \in Nat
  /\ MaxPayloads \in Nat

VARIABLES
  at,         \* at[p]: where the goroutine of pipeline p stands
  result,     \* result[p]: what Run returns
  failures,   \* failures[p]: how often its subscription has failed
  backlog,    \* backlog[p]: payloads accepted and not settled
  processed,  \* processed[p]: the counter of the payloads shipped
  signalled,  \* the context of NotifyContext is done
  groupDone,  \* the context of the group is done
  errCh,      \* errors in the channel of the group, of capacity 1
  closed,     \* that channel is closed
  main,       \* "starting", "waiting" in Wait, or the exit code
  reporter,   \* between two ticks, or between its two loads
  loaded,     \* the count of the deploy logs it has loaded
  prev        \* prev[p]: the counts of its last line

workVars   == <<at, result, failures, backlog, processed>>
groupVars  == <<groupDone, errCh, closed>>
statusVars == <<reporter, loaded, prev>>
vars == <<workVars, signalled, groupVars, main, statusVars>>

TypeOK ==
  /\ at \in [Pipelines -> {"created", "running", "stopping", "draining", "returned", "posting", "finished"}]
  /\ result \in [Pipelines -> {"none", "nil", "error"}]
  /\ failures \in [Pipelines -> 0 .. Patience]
  /\ backlog \in [Pipelines -> 0 .. MaxPayloads]
  /\ processed \in [Pipelines -> 0 .. MaxPayloads]
  /\ signalled \in BOOLEAN /\ groupDone \in BOOLEAN /\ closed \in BOOLEAN
  /\ errCh \in 0 .. 1
  /\ main \in {"starting", "waiting", "exit0", "exit1"}
  /\ reporter \in {"idle", "loading"}
  /\ loaded \in 0 .. MaxPayloads
  /\ prev \in [Pipelines -> 0 .. MaxPayloads]

Init ==
  /\ at = [p \in Pipelines |-> "created"]
  /\ result = [p \in Pipelines |-> "none"]
  /\ failures = [p \in Pipelines |-> 0]
  /\ backlog = [p \in Pipelines |-> 0]
  /\ processed = [p \in Pipelines |-> 0]
  /\ signalled = FALSE /\ groupDone = FALSE /\ closed = FALSE
  /\ errCh = 0
  /\ main = "starting"
  /\ reporter = "idle" /\ loaded = 0
  /\ prev = [p \in Pipelines |-> 0]

-----------------------------------------------------------------------------
(* The start.                                                              *)

\* The services of the environment are queried, once.  The query fails, or one that the
\* configuration names is not among them.
VerificationFails ==
  /\ main = "starting"
  /\ main' = "exit1"
  /\ UNCHANGED <<workVars, signalled, groupVars, statusVars>>

\* The configuration enables one pipeline at least; one that is disabled returns
\* nil at once.
Start ==
  /\ main = "starting"
  /\ \E enabled \in (SUBSET Pipelines) \ {{}} :
       /\ at' = [p \in Pipelines |-> IF p \in enabled THEN "running" ELSE "returned"]
       /\ result' = [p \in Pipelines |-> IF p \in enabled THEN "none" ELSE "nil"]
  /\ main' = "waiting"
  /\ UNCHANGED <<failures, backlog, processed, signalled, groupVars, statusVars>>

-----------------------------------------------------------------------------
(* The pipelines.  Nothing runs once the process has exited.               *)

Alive  == main = "waiting"
Exited == main \in {"exit0", "exit1"}

\* The context that the group gives its functions is the one given to Run.
P == INSTANCE PipelinePromise WITH cancelled <- groupDone

Beside == Alive /\ UNCHANGED <<signalled, errCh, closed, main, statusVars>>

Accept(p)   == P!Accept(p)   /\ Beside
Settle(p)   == P!Settle(p)   /\ Beside
Fail(p)     == P!Fail(p)     /\ Beside
LoopEnds(p) == P!LoopEnds(p) /\ Beside
Drain(p)    == P!Drain(p)    /\ Beside
Stopped(p)  == P!Stopped(p)  /\ Beside

-----------------------------------------------------------------------------
(* The group.                                                              *)

FinishNil(p) ==
  /\ Alive /\ at[p] = "returned" /\ result[p] = "nil"
  /\ P!GoTo(p, "finished")
  /\ UNCHANGED <<result, failures, backlog, processed, signalled, groupVars, main, statusVars>>

\* An error cancels the group first, and is posted unless one is there already.
CancelGroup(p) ==
  /\ Alive /\ at[p] = "returned" /\ result[p] = "error"
  /\ groupDone' = TRUE
  /\ P!GoTo(p, "posting")
  /\ UNCHANGED <<result, failures, backlog, processed, signalled, errCh, closed, main, statusVars>>

\* Mistake: no error is posted.
PostNothing(p) ==
  /\ Alive /\ at[p] = "posting"
  /\ P!GoTo(p, "finished")
  /\ UNCHANGED <<result, failures, backlog, processed, signalled, groupVars, main, statusVars>>

Post(p) ==
  /\ Alive /\ at[p] = "posting"
  /\ errCh' = 1
  /\ P!GoTo(p, "finished")
  /\ UNCHANGED <<result, failures, backlog, processed, signalled, groupDone, closed, main, statusVars>>

\* Mistakes: the channel is closed as soon as the group is cancelled; or when one
\* goroutine has finished.
CloseOnCancel ==
  /\ Alive /\ ~closed
  /\ groupDone
  /\ closed' = TRUE
  /\ UNCHANGED <<workVars, signalled, groupDone, errCh, main, statusVars>>

CloseOnFirst ==
  /\ Alive /\ ~closed
  /\ \E p \in Pipelines : at[p] = "finished"
  /\ closed' = TRUE
  /\ UNCHANGED <<workVars, signalled, groupDone, errCh, main, statusVars>>

\* The goroutine that Wait starts.
Close ==
  /\ Alive /\ ~closed
  /\ \A p \in Pipelines : at[p] = "finished"
  /\ closed' = TRUE
  /\ UNCHANGED <<workVars, signalled, groupDone, errCh, main, statusVars>>

\* Wait returns the first error, or nil from the closed channel.
Exit ==
  /\ Alive
  /\ \/ errCh = 1 /\ main' = "exit1" /\ errCh' = 0
     \/ errCh = 0 /\ closed /\ main' = "exit0" /\ UNCHANGED errCh
  /\ UNCHANGED <<workVars, signalled, groupDone, closed, statusVars>>

\* SIGINT or SIGTERM: the context of NotifyContext, and the group's with it.
Signal ==
  /\ Alive /\ ~signalled
  /\ signalled' = TRUE /\ groupDone' = TRUE
  /\ UNCHANGED <<workVars, errCh, closed, main, statusVars>>

-----------------------------------------------------------------------------
(* The reporter: the counters are loaded one after the other.              *)

LoadDeploy ==
  /\ Alive /\ reporter = "idle" /\ ~signalled
  /\ loaded' = processed[Deploy]
  /\ reporter' = "loading"
  /\ UNCHANGED <<workVars, signalled, groupVars, main, prev>>

\* Mistake: a line needs logs of both kinds.
NothingOfEither(dl, hl) == dl = 0 \/ hl = 0

NothingYet(dl, hl) == dl = 0 /\ hl = 0

Report ==
  /\ Alive /\ reporter = "loading"
  /\ LET hl == processed[HttpLogs]
     IN prev' = IF NothingYet(loaded, hl) THEN prev
                ELSE [p \in Pipelines |-> IF p = Deploy THEN loaded ELSE hl]
  /\ reporter' = "idle" /\ loaded' = 0
  /\ UNCHANGED <<workVars, signalled, groupVars, main>>

-----------------------------------------------------------------------------
Ending(p) == Stopped(p) \/ FinishNil(p) \/ CancelGroup(p) \/ Post(p)

Next ==
  \/ \E p \in Pipelines : Accept(p) \/ Settle(p) \/ Fail(p) \/ LoopEnds(p) \/ Drain(p) \/ Ending(p)
  \/ Close \/ Exit \/ Signal
  \/ LoadDeploy \/ Report
  \/ VerificationFails \/ Start

Spec == Init /\ [][Next]_vars

\* Goroutines that can run do run, a pipeline ends once its context is done, and
\* the ticker ticks.  Nothing makes a payload arrive or a signal be sent.
Fairness ==
  /\ \A p \in Pipelines :
       /\ WF_vars(Settle(p)) /\ WF_vars(Drain(p)) /\ WF_vars(Ending(p))
       /\ WF_vars(groupDone /\ LoopEnds(p))
  /\ WF_vars(Close) /\ WF_vars(Exit)
  /\ WF_vars(LoadDeploy) /\ WF_vars(Report)

FairSpec == Spec /\ Fairness

-----------------------------------------------------------------------------
(* Safety.                                                                 *)

\* Exit code 0 means an orderly end: a signal was received, every pipeline has
\* returned nil, and nothing that was accepted is left unsettled.
ExitZeroIsClean ==
  main = "exit0" =>
    /\ signalled
    /\ \A p \in Pipelines : result[p] = "nil" /\ at[p] = "finished" /\ backlog[p] = 0

\* The process exits under a pipeline that has not drained its queue only when
\* another one has returned an error, after it had drained its own; and unless there
\* was a signal, that one's subscription has failed as often as it bears.
DrainIsCutOnlyByFailure ==
  \A p \in Pipelines :
    Exited /\ at[p] \in {"running", "stopping", "draining"} =>
      \E q \in Pipelines \ {p} :
        /\ result[q] = "error" /\ at[q] = "finished" /\ backlog[q] = 0
        /\ signalled \/ failures[q] = Patience

-----------------------------------------------------------------------------
(* Liveness.                                                               *)

\* After a signal the process exits, and the failure of one pipeline ends it with
\* exit code 1.
SignalOrFailureEnds ==
  /\ signalled ~> Exited
  /\ (\E p \in Pipelines : result[p] = "error") ~> main = "exit1"

\* What has been processed appears in a status line, whichever pipeline it was,
\* as long as the process is not told to stop.
StatusCatchesUp ==
  \A p \in Pipelines, n \in 1 .. MaxPayloads :
    processed[p] >= n ~> (prev[p] >= n \/ signalled \/ Exited)
=============================================================================
