-------------------------- MODULE LocomotiveProofs --------------------------
(***************************************************************************)
(* The exit of the process and its status lines, for any number of         *)
(* payloads, and the process with its two pipelines in full.               *)
(*                                                                         *)
(* What an exit says about the pipelines rests on what the group knows     *)
(* before it: where a result comes from (PlacesInv), that no payload is    *)
(* settled twice (CountsInv), who has cancelled the group and that an      *)
(* error is in the channel until it is taken (GroupInv), and that the      *)
(* channel is closed last (CloseInv).                                      *)
(*                                                                         *)
(* In module Process the pipelines are two instances of Pipeline, with     *)
(* their own theorems.  Each of their steps is one of Locomotive, or a     *)
(* stutter, so that what is proved of the exit is proved of the code of    *)
(* main, errgroup, pipeline and queue together.                            *)
(***************************************************************************)
EXTENDS Process, FiniteSetTheorems, TLAPS

-----------------------------------------------------------------------------
(* The inductive invariant.                                                *)

Failed(p) == result[p] = "error" /\ at[p] = "finished"

\* The pipeline that cancels the group without a signal has borne all it can.
GivenUp(p) ==
  result[p] = "error" /\ at[p] \in {"posting", "finished"} /\ failures[p] = Patience

PlacesInv ==
  \A p \in Pipelines :
    /\ result[p] = "none" <=> at[p] \in {"created", "running"}
    /\ at[p] = "posting" => result[p] = "error"
    /\ at[p] \notin {"running", "stopping", "draining"} => backlog[p] = 0
    /\ result[p] = "error" => groupDone \/ failures[p] = Patience
    /\ at[p] = "created" => main # "waiting"
    /\ main = "starting" => at[p] = "created"

CountsInv == \A p \in Pipelines : processed[p] + backlog[p] <= MaxPayloads

GroupInv ==
  /\ groupDone => signalled \/ \E p \in Pipelines : GivenUp(p)
  /\ main = "waiting" => groupDone \/ \E p \in Pipelines : result[p] # "nil"
  /\ main = "waiting" => (errCh = 1 <=> \E p \in Pipelines : Failed(p))

CloseInv ==
  /\ closed => \A p \in Pipelines : at[p] = "finished"
  /\ main = "starting" => ~closed /\ ~groupDone /\ errCh = 0

IInv ==
  /\ TypeOK /\ PlacesInv /\ CountsInv /\ GroupInv /\ CloseInv
  /\ ExitZeroIsClean /\ DrainIsCutOnlyByFailure

-----------------------------------------------------------------------------
(* Every step preserves it.                                                *)

\* Neither pipeline has been started, so nothing can have gone wrong.
LEMMA InitIInv == Init => IInv
<1> SUFFICES ASSUME Init PROVE IInv
  OBVIOUS
<1>1. TypeOK
  <2>1. signalled \in BOOLEAN /\ groupDone \in BOOLEAN /\ closed \in BOOLEAN
    BY Zenon DEF Init
  <2> QED
    BY <2>1, LocomotiveAssumption DEF LocomotiveAssumption, Init, TypeOK
<1>2. PlacesInv /\ CountsInv /\ GroupInv /\ CloseInv
  BY LocomotiveAssumption
     DEF LocomotiveAssumption, Init, PlacesInv, CountsInv, GroupInv, CloseInv, GivenUp, Failed
<1>3. ExitZeroIsClean /\ DrainIsCutOnlyByFailure
  BY DEF Init, ExitZeroIsClean, DrainIsCutOnlyByFailure, Exited
<1> QED
  BY <1>1, <1>2, <1>3 DEF IInv

\* The two ways to leave the start.
LEMMA StartIInv == IInv /\ (VerificationFails \/ Start) => IInv'
<1> SUFFICES ASSUME IInv, VerificationFails \/ Start PROVE IInv'
  OBVIOUS
<1> USE LocomotiveAssumption DEF LocomotiveAssumption, workVars, groupVars, statusVars
<1>1. CASE VerificationFails
  BY <1>1 DEF VerificationFails, IInv, TypeOK, PlacesInv, CountsInv, GroupInv, CloseInv,
              ExitZeroIsClean, DrainIsCutOnlyByFailure, Exited, Failed, Pipelines
<1>2. CASE Start
  <2>1. TypeOK'
    BY <1>2 DEF Start, IInv, TypeOK
  <2>2. PlacesInv'
    BY <1>2 DEF Start, IInv, TypeOK, PlacesInv
  <2>3. GroupInv'
    BY <1>2 DEF Start, IInv, TypeOK, PlacesInv, CloseInv, GroupInv, GivenUp, Failed, Pipelines
  <2>4. CountsInv' /\ CloseInv' /\ ExitZeroIsClean' /\ DrainIsCutOnlyByFailure'
    BY <1>2 DEF Start, IInv, CountsInv, CloseInv, ExitZeroIsClean, DrainIsCutOnlyByFailure, Exited
  <2> QED
    BY <2>1, <2>2, <2>3, <2>4 DEF IInv
<1> QED
  BY <1>1, <1>2

\* While the process lives, the two properties say nothing.
LEMMA AliveIsSilent == main = "waiting" => ExitZeroIsClean /\ DrainIsCutOnlyByFailure
  BY DEF ExitZeroIsClean, DrainIsCutOnlyByFailure, Exited

\* A pipeline accepts or settles a payload, or its subscription fails: its place and
\* result stay.
LEMMA WorkIInv ==
  ASSUME IInv, NEW p \in Pipelines, Accept(p) \/ Settle(p) \/ Fail(p)
  PROVE  IInv'
<1> USE DEF Alive, Beside, statusVars, P!workVars
<1>1. /\ main' = "waiting" /\ main = "waiting"
      /\ UNCHANGED <<at, result, groupDone, signalled, errCh, closed>>
      /\ at[p] \in {"running", "stopping"} \/ backlog[p] > 0
  BY DEF Accept, P!Accept, Settle, P!Settle, Fail, P!Fail
<1>2. TypeOK' /\ CountsInv'
  <2>1. /\ backlog[p] \in 0 .. MaxPayloads /\ processed[p] \in 0 .. MaxPayloads
        /\ failures[p] \in 0 .. Patience /\ processed[p] + backlog[p] <= MaxPayloads
    BY DEF IInv, TypeOK, CountsInv
  <2>2. CASE Accept(p)
    BY <2>1, <2>2, LocomotiveAssumption DEF LocomotiveAssumption, Accept, P!Accept, IInv, TypeOK, CountsInv
  <2>3. CASE Settle(p)
    BY <2>1, <2>3, LocomotiveAssumption DEF LocomotiveAssumption, Settle, P!Settle, IInv, TypeOK, CountsInv
  <2>4. CASE Fail(p)
    BY <2>1, <2>4, LocomotiveAssumption DEF LocomotiveAssumption, Fail, P!Fail, IInv, TypeOK, CountsInv
  <2> QED
    BY <2>2, <2>3, <2>4
<1>3. /\ failures[p] = Patience => failures' = failures
      /\ \A q \in Pipelines \ {p} : failures'[q] = failures[q] /\ backlog'[q] = backlog[q]
      /\ at[p] \in {"running", "stopping", "draining"}
  <2>1. CASE Accept(p) \/ Settle(p)
    BY <1>1, <2>1 DEF Accept, P!Accept, Settle, P!Settle, IInv, TypeOK, PlacesInv
  <2>2. CASE Fail(p)
    BY <2>2, LocomotiveAssumption DEF LocomotiveAssumption, Fail, P!Fail, IInv, TypeOK
  <2> QED
    BY <2>1, <2>2
<1>4. PlacesInv'
  BY <1>1, <1>3 DEF IInv, PlacesInv
<1>5. GroupInv' /\ CloseInv'
  BY <1>1, <1>3 DEF IInv, GroupInv, CloseInv, Failed, GivenUp
<1> QED
  BY <1>1, <1>2, <1>4, <1>5, AliveIsSilent DEF IInv, ExitZeroIsClean, DrainIsCutOnlyByFailure, Exited

\* A pipeline ends its loop, drains, stops, or returns nil.
LEMMA PipelineIInv ==
  ASSUME IInv, NEW p \in Pipelines, LoopEnds(p) \/ Drain(p) \/ Stopped(p) \/ FinishNil(p)
  PROVE  IInv'
<1> USE DEF Alive, Beside, P!GoTo, P!workVars, groupVars, statusVars
<1>1. /\ main' = "waiting" /\ main = "waiting"
      /\ UNCHANGED <<failures, backlog, processed, groupDone, signalled, errCh, closed>>
      /\ at[p] # "finished"
      /\ \A q \in Pipelines \ {p} : at'[q] = at[q] /\ result'[q] = result[q]
  BY DEF LoopEnds, P!LoopEnds, Drain, P!Drain, Stopped, P!Stopped, FinishNil, IInv, TypeOK
<1>2. CASE LoopEnds(p)
  <2>1. PICK r \in {"nil", "error"} :
          /\ groupDone \/ (r = "error" /\ failures[p] = Patience)
          /\ result' = [result EXCEPT ![p] = r]
    BY <1>2 DEF LoopEnds, P!LoopEnds
  <2>2. at[p] = "running" /\ at' = [at EXCEPT ![p] = "stopping"]
    BY <1>2 DEF LoopEnds, P!LoopEnds
  <2>3. TypeOK' /\ CountsInv'
    BY <1>1, <1>2, <2>1, <2>2 DEF LoopEnds, P!LoopEnds, IInv, TypeOK, CountsInv
  <2>4. PlacesInv'
    BY <1>1, <2>1, <2>2 DEF IInv, TypeOK, PlacesInv
  <2>5. GroupInv'
    <3>1. ~Failed(p) /\ ~Failed(p)' /\ ~GivenUp(p) /\ (groupDone \/ result'[p] # "nil")
      BY <2>1, <2>2 DEF IInv, TypeOK, Failed, GivenUp
    <3> QED
      BY <1>1, <3>1 DEF IInv, GroupInv, Failed, GivenUp
  <2> QED
    BY <1>1, <2>3, <2>4, <2>5, AliveIsSilent
       DEF IInv, CloseInv, ExitZeroIsClean, DrainIsCutOnlyByFailure, Exited
<1>3. CASE Drain(p) \/ Stopped(p) \/ FinishNil(p)
  <2>1. /\ result' = result
        /\ at[p] \in {"stopping", "draining", "returned"}
        /\ at'[p] \in {"draining", "returned", "finished"}
        /\ at'[p] # "draining" => backlog[p] = 0
        /\ at'[p] = "finished" => result[p] = "nil"
        /\ at' = [at EXCEPT ![p] = at'[p]]
    BY <1>3 DEF Drain, P!Drain, Stopped, P!Stopped, FinishNil, IInv, TypeOK, PlacesInv
  <2>2. TypeOK' /\ CountsInv'
    BY <1>1, <1>3, <2>1 DEF Drain, P!Drain, Stopped, P!Stopped, FinishNil, IInv, TypeOK, CountsInv
  <2>3. PlacesInv'
    BY <1>1, <2>1 DEF IInv, TypeOK, PlacesInv
  <2>4. GroupInv'
    <3>1. ~Failed(p) /\ ~Failed(p)' /\ ~GivenUp(p)
      BY <2>1 DEF Failed, GivenUp
    <3> QED
      BY <1>1, <2>1, <3>1 DEF IInv, GroupInv, Failed, GivenUp
  <2> QED
    BY <1>1, <2>2, <2>3, <2>4, AliveIsSilent
       DEF IInv, CloseInv, ExitZeroIsClean, DrainIsCutOnlyByFailure, Exited
<1> QED
  BY <1>2, <1>3

\* A pipeline that has failed cancels the group and posts its error.
LEMMA FailureIInv ==
  ASSUME IInv, NEW p \in Pipelines, CancelGroup(p) \/ Post(p)
  PROVE  IInv'
<1> USE DEF Alive, P!GoTo, groupVars, statusVars
<1>1. /\ main' = "waiting" /\ main = "waiting"
      /\ UNCHANGED <<failures, backlog, result, signalled, closed>>
      /\ at[p] # "finished" /\ result[p] = "error" /\ at'[p] \in {"posting", "finished"}
      /\ \A q \in Pipelines \ {p} : at'[q] = at[q]
  BY DEF CancelGroup, Post, IInv, TypeOK, PlacesInv
<1>2. TypeOK' /\ CountsInv'
  <2>1. CASE CancelGroup(p)
    BY <2>1 DEF CancelGroup, IInv, TypeOK, CountsInv
  <2>2. CASE Post(p)
    BY <2>2 DEF Post, IInv, TypeOK, CountsInv
  <2> QED
    BY <2>1, <2>2
<1>3. PlacesInv'
  BY DEF CancelGroup, Post, IInv, TypeOK, PlacesInv
<1>4. GroupInv'
  <2>1. CASE CancelGroup(p)
    <3>1. GivenUp(p)' \/ groupDone
      BY <1>1, <2>1 DEF IInv, PlacesInv, GivenUp
    <3>2. \A q \in Pipelines : GivenUp(q) => GivenUp(q)'
      BY <1>1, <2>1 DEF CancelGroup, GivenUp
    <3> QED
      BY <1>1, <2>1, <3>1, <3>2 DEF CancelGroup, IInv, GroupInv, Failed
  <2>2. CASE Post(p)
    BY <1>1, <2>2 DEF Post, IInv, TypeOK, GroupInv, GivenUp, Failed
  <2> QED
    BY <2>1, <2>2
<1>5. CloseInv'
  BY <1>1 DEF IInv, CloseInv
<1> QED
  BY <1>1, <1>2, <1>3, <1>4, <1>5 DEF IInv, ExitZeroIsClean, DrainIsCutOnlyByFailure, Exited

\* The channel is closed, a signal arrives, or the reporter does its work.
LEMMA OtherIInv == IInv /\ (Close \/ Signal \/ LoadDeploy \/ Report) => IInv'
<1> SUFFICES ASSUME IInv, Close \/ Signal \/ LoadDeploy \/ Report PROVE IInv'
  OBVIOUS
<1> USE DEF Alive, workVars, groupVars, statusVars
<1>1. /\ main' = "waiting" /\ main = "waiting"
      /\ UNCHANGED <<at, result, failures, backlog, errCh>> /\ (groupDone => groupDone')
  BY DEF Close, Signal, LoadDeploy, Report
<1>2. TypeOK' /\ CountsInv'
  <2>1. CASE Close \/ Signal
    BY <2>1 DEF Close, Signal, IInv, TypeOK, CountsInv
  <2>2. CASE LoadDeploy
    BY <2>2 DEF LoadDeploy, IInv, TypeOK, CountsInv, Pipelines
  <2>3. CASE Report
    BY <2>3, LocomotiveAssumption DEF LocomotiveAssumption, Report, IInv, TypeOK, CountsInv, Pipelines
  <2> QED
    BY <2>1, <2>2, <2>3
<1>3. PlacesInv'
  BY <1>1 DEF IInv, PlacesInv
<1>4. GroupInv' /\ CloseInv'
  BY <1>1 DEF Close, Signal, LoadDeploy, Report, IInv, GroupInv, CloseInv, GivenUp, Failed
<1> QED
  BY <1>1, <1>2, <1>3, <1>4 DEF IInv, ExitZeroIsClean, DrainIsCutOnlyByFailure, Exited

\* The process exits.
LEMMA ExitIInv == IInv /\ Exit => IInv'
<1> SUFFICES ASSUME IInv, Exit PROVE IInv'
  OBVIOUS
<1> USE DEF Alive, workVars, statusVars
<1>1. main = "waiting" /\ UNCHANGED <<at, result, failures, backlog, closed, groupDone, signalled>>
  BY DEF Exit
<1>2. TypeOK' /\ CountsInv'
  BY DEF Exit, IInv, TypeOK, CountsInv
<1>3. PlacesInv' /\ GroupInv' /\ CloseInv'
  BY DEF Exit, IInv, PlacesInv, GroupInv, CloseInv, GivenUp
<1>4. ExitZeroIsClean'
  <2> SUFFICES ASSUME main' = "exit0"
               PROVE  signalled /\ \A p \in Pipelines : result[p] = "nil" /\ at[p] = "finished" /\ backlog[p] = 0
    BY <1>1 DEF ExitZeroIsClean
  <2>1. errCh = 0 /\ \A p \in Pipelines : at[p] = "finished"
    BY DEF Exit, IInv, CloseInv
  <2>2. \A p \in Pipelines : result[p] \in {"nil", "error"}
    BY <2>1 DEF IInv, TypeOK, PlacesInv
  <2>3. \A p \in Pipelines : result[p] = "nil"
    BY <1>1, <2>1, <2>2 DEF IInv, GroupInv, GivenUp, Failed
  <2>4. signalled
    BY <1>1, <2>3 DEF IInv, GroupInv, GivenUp
  <2> QED
    BY <2>1, <2>3, <2>4 DEF IInv, PlacesInv
<1>5. DrainIsCutOnlyByFailure'
  <2> SUFFICES ASSUME NEW p \in Pipelines, at[p] \in {"running", "stopping", "draining"}
               PROVE  \E q \in Pipelines \ {p} :
                        Failed(q) /\ backlog[q] = 0 /\ (signalled \/ failures[q] = Patience)
    BY <1>1 DEF DrainIsCutOnlyByFailure, Failed
  <2>1. errCh = 1
    BY DEF Exit, IInv, CloseInv
  <2>2. PICK q \in Pipelines : Failed(q)
    BY <1>1, <2>1 DEF IInv, GroupInv
  <2>3. q # p /\ backlog[q] = 0
    BY <2>2 DEF IInv, PlacesInv, Failed
  <2>4. signalled \/ failures[q] = Patience
    <3>1. groupDone \/ failures[q] = Patience
      BY <2>2 DEF IInv, PlacesInv, Failed
    <3>2. groupDone => signalled \/ \E o \in Pipelines : GivenUp(o)
      BY DEF IInv, GroupInv
    <3>3. \A o \in Pipelines : GivenUp(o) => o = q /\ failures[q] = Patience
      BY <2>3 DEF GivenUp, Pipelines
    <3> QED
      BY <3>1, <3>2, <3>3
  <2> QED
    BY <2>2, <2>3, <2>4
<1> QED
  BY <1>2, <1>3, <1>4, <1>5 DEF IInv

-----------------------------------------------------------------------------
(* The theorems.                                                           *)

\* Every step of Locomotive keeps the invariant.
LEMMA NextIInv == IInv /\ [Next]_vars => IInv'
<1> SUFFICES ASSUME IInv, [Next]_vars PROVE IInv'
  OBVIOUS
<1>1. CASE Next
  BY <1>1, StartIInv, WorkIInv, PipelineIInv, FailureIInv, OtherIInv, ExitIInv DEF Next, Ending
<1>2. CASE UNCHANGED vars
  BY <1>2 DEF vars, workVars, groupVars, statusVars, IInv, TypeOK, PlacesInv, CountsInv, GroupInv, CloseInv,
              ExitZeroIsClean, DrainIsCutOnlyByFailure, Exited, Failed, GivenUp
<1> QED
  BY <1>1, <1>2

\* What the exit of the process says, and how its goroutines share the group, is kept
\* by every step of errgroup.go and main.go.
THEOREM Inductive == Spec => []IInv
  BY InitIInv, NextIInv, PTL DEF Spec

\* No counter, place or result of the process leaves its type (main.go, errgroup.go).
THEOREM TypeCorrect == Spec => []TypeOK
<1>1. IInv => TypeOK
  BY DEF IInv
<1> QED
  BY Inductive, <1>1, PTL

\* The process exits with code 0 (main.go:118) only after a signal, with both pipelines
\* returned without an error and every payload settled.
THEOREM ExitZeroIsCleanHolds == Spec => []ExitZeroIsClean
<1>1. IInv => ExitZeroIsClean
  BY DEF IInv
<1> QED
  BY Inductive, <1>1, PTL

\* A pipeline that still drains is cut off by the exit (errgroup.go:46) only if the other
\* one has failed and has settled all it had.
THEOREM DrainIsCutOnlyByFailureHolds == Spec => []DrainIsCutOnlyByFailure
<1>1. IInv => DrainIsCutOnlyByFailure
  BY DEF IInv
<1> QED
  BY Inductive, <1>1, PTL

-----------------------------------------------------------------------------
(* The status lines.                                                       *)

\* A line says nothing that has not happened: neither count of it, nor the one that the
\* reporter has loaded for the next, is above the counter, and that one is not below the
\* last line's.
LinesAreBehind ==
  /\ \A p \in Pipelines : prev[p] <= processed[p]
  /\ reporter = "loading" => loaded \in prev[Deploy] .. processed[Deploy]

\* The reporter's steps raise a line to the counters, and nothing lowers a counter.
LEMMA NextLines ==
  ASSUME IInv, LinesAreBehind, [Next]_vars
  PROVE  LinesAreBehind' /\ \A p \in Pipelines : prev[p] <= prev'[p]
<1> USE DEF workVars, statusVars
<1>0. /\ processed \in [Pipelines -> Nat] /\ prev \in [Pipelines -> Nat] /\ loaded \in Nat
      /\ Deploy \in Pipelines /\ HttpLogs \in Pipelines
  BY LocomotiveAssumption DEF LocomotiveAssumption, IInv, TypeOK, Pipelines
<1>1. ASSUME UNCHANGED <<prev, reporter, loaded>>, \A p \in Pipelines : processed[p] <= processed'[p]
      PROVE  LinesAreBehind' /\ \A p \in Pipelines : prev[p] <= prev'[p]
  <2>1. IInv'
    BY NextIInv
  <2>2. processed' \in [Pipelines -> Nat]
    BY <2>1, LocomotiveAssumption DEF LocomotiveAssumption, IInv, TypeOK
  <2> QED
    BY <1>0, <1>1, <2>2 DEF LinesAreBehind
<1>2. ASSUME NEW p \in Pipelines, Accept(p) \/ Settle(p) \/ Fail(p) \/ LoopEnds(p) \/ Drain(p) \/ Ending(p)
      PROVE  UNCHANGED <<prev, reporter, loaded>> /\ \A q \in Pipelines : processed[q] <= processed'[q]
  <2>1. UNCHANGED <<prev, reporter, loaded>>
    BY <1>2 DEF Accept, Settle, Fail, LoopEnds, Drain, Ending, Stopped, FinishNil, CancelGroup,
       Post, Beside
  <2>2. \A q \in Pipelines : processed[q] <= processed[q]
    BY <1>0
  <2>3. CASE Accept(p) \/ Fail(p) \/ LoopEnds(p) \/ Drain(p) \/ Ending(p)
    <3>1. processed' = processed
      BY <2>3 DEF Accept, Fail, LoopEnds, Drain, Ending, Stopped, FinishNil,
         CancelGroup, Post, P!Accept, P!Fail, P!LoopEnds, P!Drain, P!Stopped, P!workVars
    <3> QED
      BY <2>1, <2>2, <3>1
  <2>4. CASE Settle(p)
    <3>1. processed' = [processed EXCEPT ![p] = @ + 1] \/ processed' = processed
      BY <2>4 DEF Settle, P!Settle
    <3>2. CASE processed' = [processed EXCEPT ![p] = @ + 1]
      BY <1>0, <2>1, <3>2
    <3> QED
      BY <2>1, <2>2, <3>1, <3>2
  <2> QED
    BY <1>2, <2>3, <2>4
<1>3. CASE Close \/ Exit \/ Signal \/ VerificationFails \/ Start \/ UNCHANGED vars
  <2>1. UNCHANGED <<prev, reporter, loaded, processed>>
    BY <1>3 DEF Close, Exit, Signal, VerificationFails, Start, vars
  <2> QED
    BY <1>0, <1>1, <2>1
<1>4. CASE LoadDeploy
  BY <1>0, <1>4 DEF LoadDeploy, LinesAreBehind
<1>5. CASE Report
  <2>1. \A p \in Pipelines : prev[p] <= prev'[p] /\ prev'[p] <= processed[p]
    BY <1>0, <1>5 DEF Report, LinesAreBehind, Pipelines
  <2> QED
    BY <1>0, <1>5, <2>1 DEF Report, LinesAreBehind
<1> QED
  BY <1>1, <1>2, <1>3, <1>4, <1>5 DEF Next

\* The two counts of a line are loaded one after the other, and payloads are settled in
\* between: a line may be of no one moment, but it is never ahead of the counters,
\* and neither count is below that of a line before it (status.go:38-48, 67-68, 104-105).
LinesOnlyGrow == [][\A p \in Pipelines : prev[p] <= prev'[p]]_vars

\* What the status reporter prints is true in this sense, however its two loads and the
\* pipelines interleave.
THEOREM LinesAreTrue == Spec => []LinesAreBehind /\ LinesOnlyGrow
<1>1. Init => LinesAreBehind
  BY DEF Init, LinesAreBehind
<1> QED
  BY <1>1, NextLines, Inductive, PTL DEF Spec, LinesOnlyGrow

-----------------------------------------------------------------------------
(* The process over its two pipelines in full.  That the process is right  *)
(* about them (ViewInv) and that each keeps its own invariant (RunsInv)    *)
(* makes every step of theirs one of Locomotive.                           *)

ViewInv ==
  /\ enabled \subseteq Pipelines
  /\ main = "starting" => enabled = {}
  /\ \A p \in Pipelines :
       main = "starting" \/ p \in enabled =>
         /\ failures[p] = TriesOf(p)
         /\ backlog[p] = BacklogOf(p)
         /\ processed[p] = ShippedOf(p)
         /\ main = "starting" => PlaceOf(p) = "running" /\ ResultOf(p) = "none"
  /\ \A p \in enabled :
       /\ result[p] = ResultOf(p)
       /\ at[p] = PlaceOf(p) \/ (at[p] \in InGroup /\ PlaceOf(p) = "returned")

RunsInv ==
  /\ main = "starting" \/ Deploy \in enabled => DeployRun!IInv
  /\ main = "starting" \/ HttpLogs \in enabled => HttpRun!IInv

ProcessIInv == IInv /\ ViewInv /\ RunsInv

\* Nothing that the process sees of p has changed.
Quiet(p) == UNCHANGED <<PlaceOf(p), ResultOf(p), TriesOf(p), BacklogOf(p), ShippedOf(p)>>

\* What the process sees of a step of p, in the order of the steps of Locomotive.
SeenStep(p) ==
  \/ Quiet(p)
  \/ /\ PlaceOf(p) \in {"running", "stopping"}
     /\ ShippedOf(p) + BacklogOf(p) < MaxPayloads
     /\ BacklogOf(p)' = BacklogOf(p) + 1
     /\ UNCHANGED <<PlaceOf(p), ResultOf(p), TriesOf(p), ShippedOf(p)>>
  \/ /\ BacklogOf(p) > 0
     /\ BacklogOf(p)' = BacklogOf(p) - 1
     /\ ShippedOf(p)' = ShippedOf(p) + 1 \/ UNCHANGED ShippedOf(p)
     /\ UNCHANGED <<PlaceOf(p), ResultOf(p), TriesOf(p)>>
  \/ /\ PlaceOf(p) = "running" /\ TriesOf(p) < Patience
     /\ TriesOf(p)' = TriesOf(p) + 1
     /\ UNCHANGED <<PlaceOf(p), ResultOf(p), BacklogOf(p), ShippedOf(p)>>
  \/ /\ PlaceOf(p) = "running" /\ PlaceOf(p)' = "stopping"
     /\ ResultOf(p)' \in {"nil", "error"}
     /\ groupDone \/ (ResultOf(p)' = "error" /\ TriesOf(p) = Patience)
     /\ UNCHANGED <<TriesOf(p), BacklogOf(p), ShippedOf(p)>>
  \/ /\ PlaceOf(p) = "stopping" /\ PlaceOf(p)' = "draining"
     /\ UNCHANGED <<ResultOf(p), TriesOf(p), BacklogOf(p), ShippedOf(p)>>
  \/ /\ PlaceOf(p) = "draining" /\ BacklogOf(p) = 0 /\ PlaceOf(p)' = "returned"
     /\ UNCHANGED <<ResultOf(p), TriesOf(p), BacklogOf(p), ShippedOf(p)>>

\* What keeps a call as it is keeps its variables.
LEMMA RunStutter ==
  /\ UNCHANGED <<deploy, groupDone>> => UNCHANGED DeployRun!vars
  /\ UNCHANGED <<http, groupDone>> => UNCHANGED HttpRun!vars
<1>1. UNCHANGED <<deploy, groupDone>> => UNCHANGED DeployRun!vars
  BY DEF DeployRun!vars, DeployRun!dispatcherVars, DeployRun!retryVars, DeployRun!sourceVars,
         DeployRun!serializerVars, DeployRun!otherVars
<1>2. UNCHANGED <<http, groupDone>> => UNCHANGED HttpRun!vars
  BY DEF HttpRun!vars, HttpRun!dispatcherVars, HttpRun!retryVars, HttpRun!sourceVars,
         HttpRun!serializerVars, HttpRun!otherVars
<1> QED
  BY <1>1, <1>2

\* The assumptions of the proofs of the pipeline.
LEMMA RunAssumption ==
  ASSUME ProcessAssumption
  PROVE  /\ Workers # {} /\ MaxQueueSize \in Nat \ {0} /\ MaxRetries \in Nat
         /\ TrackSize \in Nat \ {0} /\ Patience \in Nat /\ MaxPayloads \in Nat
  BY LocomotiveAssumption DEF ProcessAssumption, LocomotiveAssumption

\* A step of one call, a cancellation or a stutter of both.
LEMMA DeployStep ==
  ASSUME ProcessAssumption, DeployRun!IInv, [DeployRun!Next]_(DeployRun!vars)
  PROVE  DeployRun!IInv' /\ SeenStep(Deploy)
<1>1. DeployRun!IInv'
  BY RunAssumption, DeployRun!NextIInv
<1>2. \/ DeployRun!NothingSeen \/ DeployRun!AcceptSeen \/ DeployRun!SettleSeen
      \/ DeployRun!FailSeen \/ DeployRun!LoopEndsSeen \/ DeployRun!DrainSeen
      \/ DeployRun!StoppedSeen
  BY RunAssumption, DeployRun!StepSeen
<1> QED
  BY <1>1, <1>2
     DEF SeenStep, Quiet, PlaceOf, ResultOf, TriesOf, BacklogOf, ShippedOf, DeployRun!NothingSeen,
         DeployRun!AcceptSeen, DeployRun!SettleSeen, DeployRun!FailSeen, DeployRun!LoopEndsSeen,
         DeployRun!DrainSeen, DeployRun!StoppedSeen

LEMMA HttpStep ==
  ASSUME ProcessAssumption, HttpRun!IInv, [HttpRun!Next]_(HttpRun!vars)
  PROVE  HttpRun!IInv' /\ SeenStep(HttpLogs)
<1>1. HttpRun!IInv'
  BY RunAssumption, HttpRun!NextIInv
<1>2. \/ HttpRun!NothingSeen \/ HttpRun!AcceptSeen \/ HttpRun!SettleSeen
      \/ HttpRun!FailSeen \/ HttpRun!LoopEndsSeen \/ HttpRun!DrainSeen
      \/ HttpRun!StoppedSeen
  BY RunAssumption, HttpRun!StepSeen
<1>3. Deploy # HttpLogs
  BY LocomotiveAssumption DEF LocomotiveAssumption
<1> QED
  BY <1>1, <1>2, <1>3
     DEF SeenStep, Quiet, PlaceOf, ResultOf, TriesOf, BacklogOf, ShippedOf, HttpRun!NothingSeen,
         HttpRun!AcceptSeen, HttpRun!SettleSeen, HttpRun!FailSeen, HttpRun!LoopEndsSeen,
         HttpRun!DrainSeen, HttpRun!StoppedSeen

\* A call that stands still, or is cancelled, looks the same.
LEMMA StillQuiet ==
  ASSUME ProcessAssumption
  PROVE
  /\ UNCHANGED <<deploy, groupDone>> \/ DeployRun!Cancel => Quiet(Deploy)
  /\ UNCHANGED <<http, groupDone>> \/ HttpRun!Cancel => Quiet(HttpLogs)
<1>1. ASSUME UNCHANGED <<deploy, groupDone>> \/ DeployRun!Cancel PROVE Quiet(Deploy)
  <2>1. DeployRun!NothingSeen
    BY <1>1, RunAssumption, RunStutter, DeployRun!UnseenSteps
  <2> QED
    BY <2>1 DEF DeployRun!NothingSeen, Quiet, PlaceOf, ResultOf, TriesOf, BacklogOf, ShippedOf
<1>2. ASSUME UNCHANGED <<http, groupDone>> \/ HttpRun!Cancel PROVE Quiet(HttpLogs)
  <2>1. HttpRun!NothingSeen
    BY <1>2, RunAssumption, RunStutter, HttpRun!UnseenSteps
  <2>2. Deploy # HttpLogs
    BY LocomotiveAssumption DEF LocomotiveAssumption
  <2> QED
    BY <2>1, <2>2 DEF HttpRun!NothingSeen, Quiet, PlaceOf, ResultOf, TriesOf, BacklogOf, ShippedOf
<1> QED
  BY <1>1, <1>2

\* A step of one call keeps the invariants of both, and the other looks the same.
LEMMA CallKept ==
  ASSUME ProcessAssumption, RunsInv, NEW p \in Pipelines, PipelineStep(p)
  PROVE  /\ RunsInv' /\ SeenStep(p)
         /\ \A q \in Pipelines \ {p} : Quiet(q)
<1>1. /\ main = "waiting" /\ main' = "waiting" /\ p \in enabled
      /\ UNCHANGED <<enabled, groupDone>>
  BY DEF PipelineStep, Alive, groupVars
<1>2. Pipelines = {Deploy, HttpLogs} /\ Deploy # HttpLogs
  BY LocomotiveAssumption DEF LocomotiveAssumption, Pipelines
<1>3. CASE p = Deploy
  <2>1. DeployRun!Next /\ UNCHANGED http
    BY <1>3 DEF PipelineStep
  <2>2. DeployRun!IInv' /\ SeenStep(p)
    BY <1>1, <1>3, <2>1, DeployStep DEF RunsInv
  <2>3. HttpLogs \in enabled => HttpRun!IInv'
    BY <1>1, <2>1, RunStutter, HttpStep DEF RunsInv
  <2>4. Quiet(HttpLogs)
    BY <1>1, <2>1, StillQuiet
  <2> QED
    BY <1>1, <1>2, <1>3, <2>2, <2>3, <2>4 DEF RunsInv
<1>4. CASE p = HttpLogs
  <2>1. HttpRun!Next /\ UNCHANGED deploy
    BY <1>2, <1>4 DEF PipelineStep
  <2>2. HttpRun!IInv' /\ SeenStep(p)
    BY <1>1, <1>4, <2>1, HttpStep DEF RunsInv
  <2>3. Deploy \in enabled => DeployRun!IInv'
    BY <1>1, <2>1, RunStutter, DeployStep DEF RunsInv
  <2>4. Quiet(Deploy)
    BY <1>1, <2>1, StillQuiet
  <2> QED
    BY <1>1, <1>2, <1>4, <2>2, <2>3, <2>4 DEF RunsInv
<1> QED
  BY <1>2, <1>3, <1>4

\* What the process has seen of a step is a step of Locomotive.
LEMMA CallIsStep ==
  ASSUME TypeOK, ViewInv, NEW p \in Pipelines, PipelineStep(p), SeenStep(p)
  PROVE  [Next]_vars
<1>1. /\ main = "waiting" /\ p \in enabled
      /\ UNCHANGED <<signalled, groupDone, errCh, closed, main, statusVars>>
  BY DEF PipelineStep, Alive, groupVars
<1>2. /\ failures[p] = TriesOf(p) /\ backlog[p] = BacklogOf(p) /\ processed[p] = ShippedOf(p)
      /\ result[p] = ResultOf(p)
      /\ at[p] = PlaceOf(p) \/ (at[p] \in InGroup /\ PlaceOf(p) = "returned")
  BY <1>1 DEF ViewInv
<1> DEFINE place == IF at[p] \in InGroup THEN at[p] ELSE PlaceOf(p)'
<1>3. /\ at' = [at EXCEPT ![p] = place]
      /\ result' = [result EXCEPT ![p] = ResultOf(p)']
      /\ failures' = [failures EXCEPT ![p] = TriesOf(p)']
      /\ backlog' = [backlog EXCEPT ![p] = BacklogOf(p)']
      /\ processed' = [processed EXCEPT ![p] = ShippedOf(p)']
  BY DEF PipelineStep
<1>4. PlaceOf(p)' = PlaceOf(p) => place = at[p]
  BY <1>2
<1>5. PlaceOf(p) # "returned" => at[p] = PlaceOf(p) /\ (at[p] \notin InGroup => place = PlaceOf(p)')
  BY <1>2
<1>6. PlaceOf(p) \in {"running", "stopping", "draining"} => at[p] \notin InGroup
  BY <1>5 DEF InGroup
<1> HIDE DEF place
<1>7. /\ place = at[p] => at' = at
      /\ ResultOf(p)' = ResultOf(p) => result' = result
      /\ TriesOf(p)' = TriesOf(p) => failures' = failures
      /\ BacklogOf(p)' = BacklogOf(p) => backlog' = backlog
      /\ ShippedOf(p)' = ShippedOf(p) => processed' = processed
  BY <1>2, <1>3 DEF TypeOK
<1> USE DEF Beside, Alive, P!workVars, P!GoTo
<1>8. CASE Quiet(p)
  BY <1>1, <1>4, <1>7, <1>8 DEF Quiet, vars, workVars, groupVars
<1>9. CASE /\ PlaceOf(p) \in {"running", "stopping"}
           /\ ShippedOf(p) + BacklogOf(p) < MaxPayloads
           /\ BacklogOf(p)' = BacklogOf(p) + 1
           /\ UNCHANGED <<PlaceOf(p), ResultOf(p), TriesOf(p), ShippedOf(p)>>
  <2>1. Accept(p)
    BY <1>1, <1>2, <1>3, <1>4, <1>5, <1>7, <1>9 DEF Accept, P!Accept
  <2> QED
    BY <2>1 DEF Next
<1>10. CASE /\ BacklogOf(p) > 0
            /\ BacklogOf(p)' = BacklogOf(p) - 1
            /\ ShippedOf(p)' = ShippedOf(p) + 1 \/ UNCHANGED ShippedOf(p)
            /\ UNCHANGED <<PlaceOf(p), ResultOf(p), TriesOf(p)>>
  <2>1. Settle(p)
    BY <1>1, <1>2, <1>3, <1>4, <1>7, <1>10 DEF Settle, P!Settle
  <2> QED
    BY <2>1 DEF Next
<1>11. CASE /\ PlaceOf(p) = "running" /\ TriesOf(p) < Patience
            /\ TriesOf(p)' = TriesOf(p) + 1
            /\ UNCHANGED <<PlaceOf(p), ResultOf(p), BacklogOf(p), ShippedOf(p)>>
  <2>1. Fail(p)
    BY <1>1, <1>2, <1>3, <1>4, <1>5, <1>7, <1>11 DEF Fail, P!Fail
  <2> QED
    BY <2>1 DEF Next
<1>12. CASE /\ PlaceOf(p) = "running" /\ PlaceOf(p)' = "stopping"
            /\ ResultOf(p)' \in {"nil", "error"}
            /\ groupDone \/ (ResultOf(p)' = "error" /\ TriesOf(p) = Patience)
            /\ UNCHANGED <<TriesOf(p), BacklogOf(p), ShippedOf(p)>>
  <2>1. LoopEnds(p)
    BY <1>1, <1>2, <1>3, <1>5, <1>6, <1>7, <1>12 DEF LoopEnds, P!LoopEnds
  <2> QED
    BY <2>1 DEF Next
<1>13. CASE /\ PlaceOf(p) = "stopping" /\ PlaceOf(p)' = "draining"
            /\ UNCHANGED <<ResultOf(p), TriesOf(p), BacklogOf(p), ShippedOf(p)>>
  <2>1. Drain(p)
    BY <1>1, <1>3, <1>5, <1>6, <1>7, <1>13 DEF Drain, P!Drain
  <2> QED
    BY <2>1 DEF Next
<1>14. CASE /\ PlaceOf(p) = "draining" /\ BacklogOf(p) = 0 /\ PlaceOf(p)' = "returned"
            /\ UNCHANGED <<ResultOf(p), TriesOf(p), BacklogOf(p), ShippedOf(p)>>
  <2>1. Stopped(p)
    BY <1>1, <1>2, <1>3, <1>5, <1>6, <1>7, <1>14 DEF Stopped, P!Stopped
  <2> QED
    BY <2>1 DEF Next, Ending
<1> QED
  BY <1>8, <1>9, <1>10, <1>11, <1>12, <1>13, <1>14 DEF SeenStep

\* What the process knows of its calls stays true.
LEMMA CallView ==
  ASSUME TypeOK, ViewInv, NEW p \in Pipelines, PipelineStep(p), SeenStep(p),
         \A q \in Pipelines \ {p} : Quiet(q)
  PROVE  ViewInv'
<1>1. main = "waiting" /\ main' = "waiting" /\ p \in enabled /\ enabled' = enabled
  BY DEF PipelineStep, Alive
<1> DEFINE place == IF at[p] \in InGroup THEN at[p] ELSE PlaceOf(p)'
<1>2. /\ at' = [at EXCEPT ![p] = place]
      /\ result' = [result EXCEPT ![p] = ResultOf(p)']
      /\ failures' = [failures EXCEPT ![p] = TriesOf(p)']
      /\ backlog' = [backlog EXCEPT ![p] = BacklogOf(p)']
      /\ processed' = [processed EXCEPT ![p] = ShippedOf(p)']
  BY DEF PipelineStep
<1>3. at[p] \in InGroup => PlaceOf(p)' = "returned"
  <2>1. at[p] \in InGroup => PlaceOf(p) = "returned"
    <3>1. at[p] = PlaceOf(p) \/ (at[p] \in InGroup /\ PlaceOf(p) = "returned")
      BY <1>1 DEF ViewInv
    <3>2. PlaceOf(p) \notin InGroup
      BY DEF PlaceOf, InGroup, DeployRun!Place, HttpRun!Place
    <3> QED
      BY <3>1, <3>2
  <2>2. PlaceOf(p) = "returned" => PlaceOf(p)' = "returned"
    BY DEF SeenStep, Quiet
  <2> QED
    BY <2>1, <2>2
<1> HIDE DEF place
<1>4. /\ at'[p] = place /\ result'[p] = ResultOf(p)' /\ failures'[p] = TriesOf(p)'
      /\ backlog'[p] = BacklogOf(p)' /\ processed'[p] = ShippedOf(p)'
  BY <1>2 DEF TypeOK
<1>5. ASSUME NEW q \in Pipelines, q # p
      PROVE  /\ at'[q] = at[q] /\ result'[q] = result[q] /\ failures'[q] = failures[q]
             /\ backlog'[q] = backlog[q] /\ processed'[q] = processed[q]
             /\ Quiet(q)
  BY <1>2, <1>5 DEF TypeOK
<1>6. ASSUME NEW q \in Pipelines, q \in enabled
      PROVE  /\ failures'[q] = TriesOf(q)' /\ backlog'[q] = BacklogOf(q)'
             /\ processed'[q] = ShippedOf(q)' /\ result'[q] = ResultOf(q)'
             /\ at'[q] = PlaceOf(q)' \/ (at'[q] \in InGroup /\ PlaceOf(q)' = "returned")
  <2>1. CASE q = p
    BY <1>3, <1>4, <2>1 DEF place
  <2>2. CASE q # p
    BY <1>5, <1>6, <2>2 DEF ViewInv, Quiet
  <2> QED
    BY <2>1, <2>2
<1> QED
  BY <1>1, <1>6 DEF ViewInv

\* A step of main, the group or the reporter leaves the calls as they are, or cancels them.
LEMMA GroupKept ==
  ASSUME ProcessAssumption, RunsInv, main = "waiting", GroupStep
  PROVE  RunsInv' /\ \A p \in enabled \cap Pipelines : Quiet(p)
<1>1. main' # "starting" /\ enabled' = enabled /\ ContextsFollow
  BY DEF GroupStep, FinishNil, CancelGroup, Post, Close, Exit, Signal, LoadDeploy, Report
<1>2. Deploy \in enabled => UNCHANGED <<deploy, groupDone>> \/ DeployRun!Cancel
  BY <1>1 DEF ContextsFollow
<1>3. HttpLogs \in enabled => UNCHANGED <<http, groupDone>> \/ HttpRun!Cancel
  BY <1>1 DEF ContextsFollow
<1>4. Deploy \in enabled => DeployRun!IInv'
  BY <1>2, RunStutter, DeployStep DEF RunsInv, DeployRun!Next
<1>5. HttpLogs \in enabled => HttpRun!IInv'
  BY <1>3, RunStutter, HttpStep DEF RunsInv, HttpRun!Next
<1>6. RunsInv'
  BY <1>1, <1>4, <1>5 DEF RunsInv
<1>7. \A p \in enabled \cap Pipelines : Quiet(p)
  BY <1>2, <1>3, StillQuiet DEF Pipelines
<1> QED
  BY <1>6, <1>7

\* Nor does it make the process wrong about them: the group takes a call over only when
\* it has returned.
LEMMA GroupView ==
  ASSUME TypeOK, ViewInv, GroupStep, \A p \in enabled : Quiet(p)
  PROVE  ViewInv'
<1>1. /\ main = "waiting" /\ main' # "starting" /\ enabled' = enabled
      /\ UNCHANGED <<result, failures, backlog, processed>>
  BY DEF GroupStep, FinishNil, CancelGroup, Post, Close, Exit, Signal, LoadDeploy, Report, Alive, workVars
<1>2. ASSUME NEW p \in enabled
      PROVE  at'[p] = PlaceOf(p)' \/ (at'[p] \in InGroup /\ PlaceOf(p)' = "returned")
  <2>1. at[p] = PlaceOf(p) \/ (at[p] \in InGroup /\ PlaceOf(p) = "returned")
    BY <1>2 DEF ViewInv
  <2>2. p \in Pipelines /\ PlaceOf(p)' = PlaceOf(p)
    BY <1>2 DEF ViewInv, Quiet
  <2>3. \/ at'[p] = at[p]
        \/ at[p] \in {"returned", "posting"} /\ at'[p] \in InGroup
    <3>1. CASE Close \/ Exit \/ Signal \/ LoadDeploy \/ Report
      BY <3>1 DEF Close, Exit, Signal, LoadDeploy, Report, workVars
    <3>2. ASSUME NEW q \in Pipelines, FinishNil(q) \/ CancelGroup(q) \/ Post(q)
          PROVE  \/ at'[p] = at[p]
                 \/ at[p] \in {"returned", "posting"} /\ at'[p] \in InGroup
      <4>1. /\ at[q] \in {"returned", "posting"}
            /\ \E place \in InGroup : at' = [at EXCEPT ![q] = place]
        BY <3>2 DEF FinishNil, CancelGroup, Post, P!GoTo, InGroup
      <4> QED
        BY <2>2, <4>1 DEF TypeOK
    <3> QED
      BY <3>1, <3>2 DEF GroupStep
  <2>4. at[p] \in {"returned", "posting"} => PlaceOf(p) = "returned"
    <3>1. PlaceOf(p) # "posting"
      BY DEF PlaceOf, DeployRun!Place, HttpRun!Place
    <3> QED
      BY <2>1, <3>1
  <2> QED
    BY <2>1, <2>2, <2>3, <2>4
<1> QED
  BY <1>1, <1>2 DEF ViewInv, Quiet

\* At the start the calls have yet to take a step.
LEMMA BeginKept ==
  ASSUME ProcessAssumption, IInv, ViewInv, RunsInv, Begin
  PROVE  ViewInv' /\ RunsInv'
<1>1. main = "starting" /\ UNCHANGED <<deploy, http, groupDone, failures, backlog, processed>>
  BY DEF Begin, VerificationFails, Start, workVars, groupVars
<1>2. Quiet(Deploy) /\ Quiet(HttpLogs)
  BY <1>1, StillQuiet
<1>3. RunsInv'
  <2>1. DeployRun!IInv' /\ HttpRun!IInv'
    BY <1>1, RunStutter, DeployStep, HttpStep DEF RunsInv
  <2> QED
    BY <2>1 DEF RunsInv
<1>4. \A p \in Pipelines :
        /\ failures'[p] = TriesOf(p)' /\ backlog'[p] = BacklogOf(p)' /\ processed'[p] = ShippedOf(p)'
        /\ PlaceOf(p)' = "running" /\ ResultOf(p)' = "none"
  BY <1>1, <1>2 DEF ViewInv, Quiet, Pipelines
<1>5. /\ main' # "starting" /\ enabled' \subseteq Pipelines
      /\ \A p \in enabled' : at'[p] = "running" /\ result'[p] = "none"
  <2>1. main' # "starting" /\ enabled' = {p \in Pipelines : at'[p] = "running"}
    BY DEF Begin, VerificationFails, Start
  <2>2. ASSUME NEW p \in Pipelines, at'[p] = "running" PROVE result'[p] = "none"
    <3>1. CASE VerificationFails
      BY <1>1, <2>2, <3>1 DEF VerificationFails, workVars, IInv, PlacesInv
    <3>2. CASE Start
      BY <2>2, <3>2 DEF Start
    <3> QED
      BY <3>1, <3>2 DEF Begin
  <2> QED
    BY <2>1, <2>2
<1>6. ViewInv'
  BY <1>4, <1>5 DEF ViewInv
<1> QED
  BY <1>3, <1>6

\* The calls begin with what their proofs begin with.
LEMMA ProcessInitIInv == ASSUME ProcessAssumption, ProcessInit PROVE ProcessIInv
<1>1. IInv /\ main = "starting" /\ enabled = {}
  BY InitIInv DEF ProcessInit, Init
<1>2. RunsInv
  BY RunAssumption, DeployRun!InitIInv, HttpRun!InitIInv DEF ProcessInit, RunsInv
<1>3. ViewInv
  <2>1. /\ DeployRun!Place = "running" /\ DeployRun!Result = "none" /\ deploy.tries = 0
        /\ DeployRun!BacklogSize = 0 /\ DeployRun!ShippedCount = 0
    BY RunAssumption, DeployRun!InitSeen DEF ProcessInit
  <2>2. /\ HttpRun!Place = "running" /\ HttpRun!Result = "none" /\ http.tries = 0
        /\ HttpRun!BacklogSize = 0 /\ HttpRun!ShippedCount = 0
    BY RunAssumption, HttpRun!InitSeen DEF ProcessInit
  <2>3. \A p \in Pipelines : failures[p] = 0 /\ backlog[p] = 0 /\ processed[p] = 0
    BY DEF ProcessInit, Init
  <2> QED
    BY <1>1, <2>1, <2>2, <2>3 DEF ViewInv, PlaceOf, ResultOf, TriesOf, BacklogOf, ShippedOf
<1> QED
  BY <1>1, <1>2, <1>3 DEF ProcessIInv

\* Every step of the process is one of Locomotive.
LEMMA ProcessStep ==
  ASSUME ProcessIInv, ProcessAssumption, ProcessNext
  PROVE  [Next]_vars
<1>1. CASE Begin
  BY <1>1 DEF Begin, Next
<1>2. CASE GroupStep
  BY <1>2 DEF GroupStep, Next, Ending
<1>3. ASSUME NEW p \in Pipelines, PipelineStep(p) PROVE [Next]_vars
  BY <1>3, CallKept, CallIsStep DEF ProcessIInv, IInv
<1> QED
  BY <1>1, <1>2, <1>3 DEF ProcessNext

\* Every step of the process keeps the invariant.
LEMMA ProcessNextIInv ==
  ASSUME ProcessAssumption, ProcessIInv, [ProcessNext]_<<vars, runVars>>
  PROVE  ProcessIInv'
<1>1. CASE UNCHANGED <<vars, runVars>>
  <2>1. /\ UNCHANGED vars /\ UNCHANGED <<enabled, deploy, http>>
    BY <1>1 DEF runVars
  <2>2. UNCHANGED <<at, result, failures, backlog, processed, main, groupDone>>
    BY <2>1 DEF vars, workVars, groupVars
  <2>3. Quiet(Deploy) /\ Quiet(HttpLogs)
    BY <2>1, <2>2, StillQuiet
  <2>4. ViewInv'
    BY <2>1, <2>2, <2>3 DEF ProcessIInv, ViewInv, Quiet, Pipelines
  <2>5. RunsInv'
    BY <2>1, <2>2, RunStutter, DeployStep, HttpStep DEF ProcessIInv, RunsInv
  <2> QED
    BY <2>1, <2>4, <2>5, NextIInv DEF ProcessIInv
<1>2. CASE ProcessNext
  <2>1. IInv'
    BY <1>2, ProcessStep, NextIInv DEF ProcessIInv
  <2>2. CASE Begin
    BY <2>1, <2>2, BeginKept DEF ProcessIInv
  <2>3. CASE GroupStep
    <3>1. main = "waiting" /\ enabled \subseteq Pipelines
      BY <2>3 DEF GroupStep, FinishNil, CancelGroup, Post, Close, Exit, Signal, LoadDeploy, Report,
                  Alive, ProcessIInv, ViewInv
    <3> QED
      BY <2>1, <2>3, <3>1, GroupKept, GroupView DEF ProcessIInv, IInv
  <2>4. ASSUME NEW p \in Pipelines, PipelineStep(p) PROVE ProcessIInv'
    BY <2>1, <2>4, CallKept, CallView DEF ProcessIInv, IInv
  <2> QED
    BY <1>2, <2>2, <2>3, <2>4 DEF ProcessNext
<1> QED
  BY <1>1, <1>2

\* The process and each of its pipelines keep their invariants at the same time, for any
\* number of workers, logs and retries (main.go:66-120, pipeline.go, queue.go).
THEOREM ProcessInductive == ProcessAssumption => (ProcessSpec => []ProcessIInv)
<1> SUFFICES ASSUME ProcessAssumption PROVE ProcessSpec => []ProcessIInv
  OBVIOUS
<1>1. ProcessInit => ProcessIInv
  BY ProcessInitIInv
<1>2. ProcessIInv /\ [ProcessNext]_<<vars, runVars>> => ProcessIInv'
  BY ProcessNextIInv
<1> QED
  BY <1>1, <1>2, PTL DEF ProcessSpec

\* What run does over its two pipelines in full (main.go:72-107) is what Locomotive says it
\* does over what they promise.
THEOREM ProcessRefinement == ProcessAssumption => (ProcessSpec => Spec)
<1> SUFFICES ASSUME ProcessAssumption PROVE ProcessSpec => Spec
  OBVIOUS
<1>1. ProcessSpec => []ProcessIInv
  BY ProcessInductive
<1>2. ProcessInit => Init
  BY DEF ProcessInit
<1>3. ProcessIInv /\ [ProcessNext]_<<vars, runVars>> => [Next]_vars
  BY ProcessStep
<1> QED
  BY <1>1, <1>2, <1>3, PTL DEF ProcessSpec, Spec

\* So exit code 0 (main.go:120) is as clean when the pipelines are the real ones: both have
\* returned nil, and their dispatchers have nothing left that came before the drain.
THEOREM ExitZeroLeavesNothingHolds == ProcessAssumption => (ProcessSpec => []ExitZeroLeavesNothing)
<1> SUFFICES ASSUME ProcessAssumption PROVE ProcessSpec => []ExitZeroLeavesNothing
  OBVIOUS
<1>1. ProcessSpec => []ProcessIInv
  BY ProcessInductive
<1>2. ProcessIInv => ExitZeroLeavesNothing
  <2> SUFFICES ASSUME ProcessIInv, main = "exit0", NEW p \in enabled
               PROVE  PlaceOf(p) = "returned" /\ ResultOf(p) = "nil" /\ LeftOf(p) = {}
    BY DEF ExitZeroLeavesNothing
  <2>1. /\ p \in Pipelines /\ backlog[p] = BacklogOf(p) /\ result[p] = ResultOf(p)
        /\ at[p] = PlaceOf(p) \/ (at[p] \in InGroup /\ PlaceOf(p) = "returned")
    BY DEF ProcessIInv, ViewInv
  <2>2. result[p] = "nil" /\ at[p] = "finished" /\ backlog[p] = 0
    BY <2>1 DEF ProcessIInv, IInv, ExitZeroIsClean
  <2>3. PlaceOf(p) # "finished"
    BY DEF PlaceOf, DeployRun!Place, HttpRun!Place
  <2>4. LeftOf(p) = {}
    <3>1. CASE p = Deploy
      <4>1. DeployRun!DP!IInv /\ DeployRun!BacklogSize = 0
        BY <2>1, <2>2, <3>1 DEF ProcessIInv, RunsInv, DeployRun!IInv, BacklogOf
      <4> QED
        BY <3>1, <4>1, RunAssumption, DeployRun!NoBacklog DEF LeftOf
    <3>2. CASE p # Deploy
      <4>1. p = HttpLogs
        BY <2>1, <3>2 DEF Pipelines
      <4>2. HttpRun!DP!IInv /\ HttpRun!BacklogSize = 0
        BY <2>1, <2>2, <3>2, <4>1 DEF ProcessIInv, RunsInv, HttpRun!IInv, BacklogOf
      <4> QED
        BY <3>2, <4>2, RunAssumption, HttpRun!NoBacklog DEF LeftOf
    <3> QED
      BY <3>1, <3>2
  <2> QED
    BY <2>1, <2>2, <2>3, <2>4
<1> QED
  BY <1>1, <1>2, PTL
=============================================================================
