--------------------------- MODULE LogCursorProofs ---------------------------
(***************************************************************************)
(* Proofs about module LogCursor, for every number of logs and every clock *)
(* and whatever the order of the timestamps: what the channel receives is  *)
(* in the order of the timestamps, and nothing in it comes twice.          *)
(*                                                                         *)
(* The inductive invariant says why the cursor is enough: a log that has   *)
(* been sent as often as it may be is behind the cursor, or before the     *)
(* start of the run (SentInv), also when the run is a new one and the      *)
(* cursor was set back; and what waits for the channel is ahead of all     *)
(* that, and in order in itself (SendingInv).                              *)
(*                                                                         *)
(* Nor is anything lost without a cause: PassedInv follows the logs that a *)
(* stream has handed out to where they are, and the cursor to the log that *)
(* has moved it.                                                           *)
(***************************************************************************)
EXTENDS LogCursor, WellFoundedInduction, TLAPS

Behind(l) == ts[l] <= cursor \/ (http /\ ts[l] < floor)

BackendInv == \A l \in 1 .. count : ts[l] <= now

SentInv ==
  \A l \in Logs :
    /\ sent[l] > 0 => l <= count
    /\ sent[l] <= readds + 1
    /\ sent[l] > readds => Behind(l)

SendingInv ==
  /\ sending # {} => running
  /\ \A l \in sending :
       /\ l <= count
       /\ ts[l] <= cursor
       /\ \A k \in Logs : sent[k] > readds => ts[k] < ts[l]
       /\ \A k \in sending : k < l => ts[k] < ts[l]

IInv ==
  /\ TypeOK
  /\ BackendInv
  /\ SentInv
  /\ SendingInv

-----------------------------------------------------------------------------
(* The handler.                                                            *)

\* What a batch keeps is ahead of the cursor and of the start of the run, and its
\* timestamps grow.
LEMMA KeptFacts ==
  ASSUME TypeOK, NEW batch \in SUBSET Logs
  PROVE  /\ Kept(batch) \subseteq batch
         /\ \A l \in Kept(batch) :
              /\ ts[l] > cursor
              /\ http => ts[l] >= floor
              /\ \A k \in Kept(batch) : k < l => ts[k] < ts[l]
BY DEF Kept

\* A bounded set of natural numbers has a greatest element: where the cursor goes.
LEMMA GreatestNat ==
  ASSUME NEW T \in SUBSET Nat, T # {}, NEW n \in Nat, \A t \in T : t <= n
  PROVE  \E x \in T : \A y \in T : y <= x
<1> DEFINE U == {n - t : t \in T}
           Less == OpToRel(<, Nat)
<1>1. U \in SUBSET Nat
  OBVIOUS
<1>2. U # {}
  <2>1. PICK t \in T : TRUE
    OBVIOUS
  <2>2. n - t \in U
    BY <2>1
  <2> QED
    BY <2>2
<1>3. IsWellFoundedOn(Less, Nat)
  BY NatLessThanWellFounded
<1>4. \E u \in U : \A v \in U : <<v, u>> \notin Less
  <2> HIDE DEF U, Less
  <2> QED
    BY <1>1, <1>2, <1>3, WFMin
<1>5. PICK x \in T : \A v \in U : <<v, n - x>> \notin Less
  BY <1>4
<1>6. ASSUME NEW y \in T PROVE y <= x
  <2>1. n - y \in U /\ n - y \in Nat /\ n - x \in Nat
    OBVIOUS
  <2>2. ~(n - y < n - x)
    BY <1>5, <2>1 DEF OpToRel
  <2> QED
    BY <2>2
<1> QED
  BY <1>6

\* The cursor never goes back within a run, and passes all that is kept.
LEMMA AdvancedFacts ==
  ASSUME TypeOK, NEW kept \in SUBSET Logs, \A l \in kept : ts[l] > cursor
  PROVE  /\ Advanced(kept) \in 0 .. MaxTime
         /\ Advanced(kept) >= cursor
         /\ \A l \in kept : ts[l] <= Advanced(kept)
         /\ IF kept = {} THEN Advanced(kept) = cursor ELSE \E l \in kept : ts[l] = Advanced(kept)
<1>1. CASE kept = {}
  BY <1>1, LogCursorAssumption DEF TypeOK, Advanced
<1>2. CASE kept # {}
  <2> DEFINE T == {ts[l] : l \in kept}
  <2>1. T \in SUBSET Nat /\ \A t \in T : t \in 0 .. MaxTime /\ t > cursor
    BY LogCursorAssumption DEF TypeOK
  <2>2. T # {}
    <3>1. PICK l \in kept : TRUE
      BY <1>2
    <3>2. ts[l] \in T
      BY <3>1
    <3> QED
      BY <3>2
  <2>3. \A t \in T : t <= MaxTime
    BY <2>1, LogCursorAssumption
  <2>4. \E t \in T : \A l \in kept : ts[l] <= t
    <3>1. \E t \in T : \A u \in T : u <= t
      <4> HIDE DEF T
      <4> QED
        BY <2>1, <2>2, <2>3, LogCursorAssumption, GreatestNat
    <3>2. PICK t \in T : \A u \in T : u <= t
      BY <3>1
    <3>3. \A l \in kept : ts[l] \in T
      OBVIOUS
    <3> QED
      BY <3>2, <3>3
  <2>5. /\ Advanced(kept) \in T
        /\ \A l \in kept : ts[l] <= Advanced(kept)
    BY <1>2, <2>4 DEF Advanced
  <2>6. Advanced(kept) \in 0 .. MaxTime /\ Advanced(kept) > cursor
    <3> HIDE DEF T
    <3> QED
      BY <2>1, <2>5
  <2>7. \E l \in kept : ts[l] = Advanced(kept)
    BY <2>5
  <2> QED
    BY <1>2, <2>5, <2>6, <2>7, LogCursorAssumption DEF TypeOK
<1> QED
  BY <1>1, <1>2

-----------------------------------------------------------------------------

\* Nothing has been sent at the start.
LEMMA InitIInv == Init => IInv
<1> SUFFICES ASSUME Init PROVE IInv
  OBVIOUS
<1> USE DEF Init
<1>1. TypeOK
  <2>1. 0 \in 0 .. MaxTime /\ 0 \in 0 .. MaxLogs
    BY LogCursorAssumption
  <2>2. ts \in [Logs -> 0 .. MaxTime] /\ sent \in [Logs -> 0 .. 2]
    BY <2>1
  <2>3. pos \in 0 .. count /\ readds \in 0 .. 1
    OBVIOUS
  <2>4. /\ http \in BOOLEAN /\ running \in BOOLEAN /\ now \in 0 .. MaxTime /\ count \in 0 .. MaxLogs
        /\ floor \in 0 .. MaxTime /\ cursor \in 0 .. MaxTime /\ asked \in 0 .. MaxTime
    BY <2>1
  <2> QED
    BY <2>2, <2>3, <2>4 DEF TypeOK
<1>2. BackendInv /\ SentInv /\ SendingInv
  BY DEF BackendInv, SentInv, SendingInv
<1> QED
  BY <1>1, <1>2 DEF IInv

\* Time passes.
LEMMA TickIInv ==
  ASSUME IInv, Tick
  PROVE  IInv'
<1> USE LogCursorAssumption DEF Tick, stream, history
<1>0. TypeOK /\ BackendInv /\ SentInv /\ SendingInv
  BY DEF IInv
<1>1. TypeOK'
  BY <1>0 DEF TypeOK
<1>2. BackendInv'
  BY <1>0 DEF TypeOK, BackendInv, Logs
<1>3. SentInv' /\ SendingInv'
  BY <1>0 DEF SentInv, SendingInv, Behind
<1> QED
  BY <1>1, <1>2, <1>3 DEF IInv

\* The backend has a new log, with any timestamp of the past.
LEMMA EmitIInv ==
  ASSUME IInv, Emit
  PROVE  IInv'
<1>0. TypeOK /\ BackendInv /\ SentInv /\ SendingInv
  BY DEF IInv
<1>1. PICK t \in 1 .. now : ts' = [ts EXCEPT ![count + 1] = t]
  BY DEF Emit
<1>2. /\ count < MaxLogs /\ now > 0 /\ count' = count + 1
      /\ noise' = noise \/ noise' = noise \cup {count + 1}
      /\ UNCHANGED <<http, now, running, floor, cursor, stream, sending, history, sent, readds>>
  BY DEF Emit
<1>3. /\ count \in 0 .. MaxLogs /\ count + 1 \in Logs /\ t \in 0 .. MaxTime
      /\ count + 1 \in 0 .. MaxLogs /\ \A l \in 0 .. count : l \in 0 .. count + 1
  BY <1>0, <1>1, <1>2, LogCursorAssumption DEF TypeOK, Logs
<1>4. TypeOK'
  BY <1>0, <1>1, <1>2, <1>3 DEF TypeOK, stream, history
<1>5. ts'[count + 1] = t /\ \A l \in Logs : l # count + 1 => ts'[l] = ts[l]
  BY <1>0, <1>1, <1>3 DEF TypeOK
<1>6. BackendInv'
  BY <1>0, <1>1, <1>2, <1>3, <1>5 DEF TypeOK, BackendInv, Logs
<1>7. \A l \in Logs : l <= count => l # count + 1
  BY <1>3 DEF Logs
<1>8. SentInv'
  BY <1>0, <1>2, <1>3, <1>5, <1>7 DEF TypeOK, SentInv, Behind, Logs
<1>9. SendingInv'
  <2>1. \A k \in Logs : sent[k] > readds => sent[k] > 0
    BY <1>0 DEF TypeOK
  <2>2. \A k \in Logs : sent[k] > readds => ts'[k] = ts[k]
    BY <1>0, <1>5, <1>7, <2>1 DEF SentInv
  <2>3. \A l \in sending : l \in Logs /\ ts'[l] = ts[l] /\ l <= count'
    BY <1>0, <1>2, <1>3, <1>5, <1>7 DEF TypeOK, SendingInv, Logs
  <2> QED
    BY <1>0, <1>2, <2>2, <2>3 DEF SendingInv
<1> QED
  BY <1>4, <1>6, <1>8, <1>9 DEF IInv

-----------------------------------------------------------------------------
(* The subscribe function.                                                 *)

\* A new run begins: its start is after every log there is, and so after all that was
\* sent, although its cursor may go back to the start.
LEMMA SubscribeIInv ==
  ASSUME IInv, Subscribe
  PROVE  IInv'
<1> USE LogCursorAssumption DEF Subscribe, SetCursor, StartFrom
<1>0. TypeOK /\ BackendInv /\ SentInv /\ SendingInv
  BY DEF IInv
<1>1. sending = {}
  BY <1>0 DEF SendingInv
<1>2. TypeOK'
  <2>1. now' \in 0 .. MaxTime /\ floor' \in 0 .. MaxTime /\ cursor' \in 0 .. MaxTime
    BY <1>0 DEF TypeOK
  <2>2. pos' \in 0 .. count' /\ asked' \in 0 .. MaxTime
    BY <1>0, <2>1 DEF TypeOK
  <2> QED
    BY <1>0, <2>1, <2>2 DEF TypeOK
<1>3. BackendInv'
  BY <1>0 DEF TypeOK, BackendInv, Logs
<1>4. \A l \in Logs : sent[l] > readds => Behind(l)'
  <2> SUFFICES ASSUME NEW l \in Logs, sent[l] > readds PROVE Behind(l)'
    OBVIOUS
  <2>1. l \in 1 .. count
    BY <1>0 DEF TypeOK, SentInv, Logs
  <2>2. ts[l] <= now
    BY <1>0, <2>1 DEF BackendInv
  <2>3. ts[l] \in Nat /\ now \in Nat
    BY <1>0 DEF TypeOK
  <2> QED
    BY <1>0, <2>2, <2>3 DEF TypeOK, Behind
<1>5. SentInv'
  BY <1>0, <1>4 DEF SentInv
<1>6. SendingInv'
  BY <1>1 DEF SendingInv
<1> QED
  BY <1>2, <1>3, <1>5, <1>6 DEF IInv

\* A new stream begins behind the cursor.
LEMMA ResubscribeIInv ==
  ASSUME IInv, Resubscribe
  PROVE  IInv'
<1> USE LogCursorAssumption DEF Resubscribe, backend, history
<1>0. TypeOK /\ BackendInv /\ SentInv /\ SendingInv
  BY DEF IInv
<1>1. TypeOK'
  BY <1>0 DEF TypeOK
<1>2. BackendInv' /\ SentInv' /\ SendingInv'
  BY <1>0 DEF BackendInv, SentInv, SendingInv, Behind
<1> QED
  BY <1>1, <1>2 DEF IInv

\* A batch is handled: what is kept of it is ahead of everything that was sent.
LEMMA DeliverIInv ==
  ASSUME IInv, NEW last \in pos + 1 .. count, Deliver(last)
  PROVE  IInv'
<1>0. TypeOK /\ BackendInv /\ SentInv /\ SendingInv
  BY DEF IInv
<1> DEFINE kept == Kept(Batch(last))
<1>1. /\ running /\ sending = {} /\ pos' = last
      /\ sending' = kept /\ cursor' = Advanced(kept)
      /\ skipped' = skipped \cup (Batch(last) \ (kept \cup noise))
      /\ UNCHANGED <<backend, running, floor, asked, forwarded, sent, readds>>
  BY DEF Deliver
<1>2. Batch(last) \in SUBSET Logs /\ \A l \in Batch(last) : l <= count
  BY <1>0, LogCursorAssumption DEF TypeOK, Batch, Logs
<1>3. /\ kept \subseteq Batch(last)
      /\ \A l \in kept :
           /\ ts[l] > cursor
           /\ http => ts[l] >= floor
           /\ \A k \in kept : k < l => ts[k] < ts[l]
  BY <1>0, <1>2, KeptFacts
<1> HIDE DEF kept
<1>4. /\ cursor' \in 0 .. MaxTime /\ cursor' >= cursor
      /\ \A l \in kept : ts[l] <= cursor'
  BY <1>0, <1>1, <1>2, <1>3, AdvancedFacts
<1>5. TypeOK'
  <2>1. pos' \in 0 .. count'
    BY <1>0, <1>1 DEF TypeOK, backend
  <2> QED
    BY <1>0, <1>1, <1>2, <1>3, <1>4, <2>1 DEF TypeOK, backend
<1>6. BackendInv'
  BY <1>0, <1>1 DEF BackendInv, backend
<1>7. SentInv'
  <2>1. \A l \in Logs : Behind(l) => Behind(l)'
    BY <1>0, <1>1, <1>4, LogCursorAssumption DEF TypeOK, Behind, backend
  <2> QED
    BY <1>0, <1>1, <2>1 DEF SentInv, backend
<1>8. SendingInv'
  <2>1. \A l \in kept, k \in Logs : sent[k] > readds => ts[k] < ts[l]
    <3> SUFFICES ASSUME NEW l \in kept, NEW k \in Logs, Behind(k) PROVE ts[k] < ts[l]
      BY <1>0 DEF SentInv
    <3>1. l \in Logs
      BY <1>2, <1>3
    <3>2. ts[k] \in Int /\ ts[l] \in Int /\ cursor \in Int /\ floor \in Int
      BY <1>0, <3>1 DEF TypeOK
    <3> QED
      BY <1>3, <3>2 DEF Behind
  <2> QED
    BY <1>1, <1>2, <1>3, <1>4, <2>1 DEF SendingInv, backend
<1> QED
  BY <1>5, <1>6, <1>7, <1>8 DEF IInv

\* The channel takes the batch: each of its logs has been sent once more.
LEMMA PushIInv ==
  ASSUME IInv, Push
  PROVE  IInv'
<1> USE DEF Push, backend, stream
<1>0. TypeOK /\ BackendInv /\ SentInv /\ SendingInv
  BY DEF IInv
<1>1. \A l \in sending : l \in Logs /\ sent[l] <= readds
  <2> SUFFICES ASSUME NEW l \in sending PROVE l \in Logs /\ sent[l] <= readds
    OBVIOUS
  <2>1. l \in Logs /\ ts[l] \in Int /\ sent[l] \in Int /\ readds \in Int
    BY <1>0 DEF TypeOK
  <2>2. ~(sent[l] > readds)
    BY <1>0, <2>1 DEF SendingInv
  <2> QED
    BY <2>1, <2>2
<1>2. \A l \in Logs : sent'[l] = IF l \in sending THEN sent[l] + 1 ELSE sent[l]
  OBVIOUS
<1>3. TypeOK'
  <2>1. sent' \in [Logs -> 0 .. 2]
    BY <1>0, <1>1 DEF TypeOK
  <2> QED
    BY <1>0, <2>1 DEF TypeOK
<1>4. BackendInv'
  BY <1>0 DEF BackendInv
<1>5. SentInv'
  <2> SUFFICES ASSUME NEW l \in Logs
      PROVE  /\ sent'[l] > 0 => l <= count
             /\ sent'[l] <= readds + 1
             /\ sent'[l] > readds => Behind(l)
    BY DEF SentInv, Behind
  <2>1. CASE l \in sending
    BY <1>0, <1>1, <1>2, <2>1 DEF TypeOK, SendingInv, Behind
  <2>2. CASE l \notin sending
    BY <1>0, <1>2, <2>2 DEF SentInv
  <2> QED
    BY <2>1, <2>2
<1>6. SendingInv'
  BY DEF SendingInv
<1> QED
  BY <1>3, <1>4, <1>5, <1>6 DEF IInv

\* A run that fails leaves its cursor behind.
LEMMA FailIInv ==
  ASSUME IInv, Fail
  PROVE  IInv'
<1> USE DEF Fail, backend, stream, history
<1>0. TypeOK /\ BackendInv /\ SentInv /\ SendingInv
  BY DEF IInv
<1>1. TypeOK'
  BY <1>0 DEF TypeOK
<1>2. BackendInv' /\ SentInv' /\ SendingInv'
  BY <1>0 DEF BackendInv, SentInv, SendingInv, Behind
<1> QED
  BY <1>1, <1>2 DEF IInv

\* The cursor is set back for a deployment that has come back: all of it may be sent
\* once more.
LEMMA ReaddIInv ==
  ASSUME IInv, Readd
  PROVE  IInv'
<1> USE LogCursorAssumption DEF Readd, SetCursor, StartFrom, backend
<1>0. TypeOK /\ BackendInv /\ SentInv /\ SendingInv
  BY DEF IInv
<1>1. TypeOK'
  BY <1>0 DEF TypeOK
<1>2. BackendInv'
  BY <1>0 DEF BackendInv
<1>3. SentInv'
  BY <1>0 DEF TypeOK, SentInv
<1>4. SendingInv'
  BY DEF SendingInv
<1> QED
  BY <1>1, <1>2, <1>3, <1>4 DEF IInv

\* A step that changes nothing keeps the invariant.
LEMMA StutterIInv ==
  ASSUME IInv, UNCHANGED vars
  PROVE  IInv'
<1> USE DEF vars, backend, stream, history
<1>0. TypeOK /\ BackendInv /\ SentInv /\ SendingInv
  BY DEF IInv
<1>1. TypeOK'
  BY <1>0 DEF TypeOK
<1>2. BackendInv' /\ SentInv' /\ SendingInv'
  BY <1>0 DEF BackendInv, SentInv, SendingInv, Behind
<1> QED
  BY <1>1, <1>2 DEF IInv

\* Every step keeps the invariant.
LEMMA NextIInv == IInv /\ [Next]_vars => IInv'
BY TickIInv, EmitIInv, SubscribeIInv, ResubscribeIInv, DeliverIInv, PushIInv, FailIInv,
   ReaddIInv, StutterIInv DEF Next

-----------------------------------------------------------------------------
(* The theorems.                                                           *)

\* The invariant holds throughout, whatever the order of the timestamps, wherever a
\* stream ends and however often the subscription starts anew.
THEOREM Inductive == Spec => []IInv
BY InitIInv, NextIInv, PTL DEF Spec

\* The variables keep their types: the cursor stays within the clock of the backend, and a
\* message within what it has stored.
THEOREM TypeCorrect == Spec => []TypeOK
<1>1. IInv => TypeOK
  BY DEF IInv
<1> QED
  BY <1>1, Inductive, PTL

\* No log is sent twice, but once more for every time its deployment has come back and
\* its cursor has been started anew.
OncePerReturn == \A l \in Logs : sent[l] <= readds + 1

\* Resubscribing never repeats a log that the channel has received.
THEOREM SentOncePerReturn == Spec => []OncePerReturn
<1>1. IInv => OncePerReturn
  BY DEF IInv, SentInv, OncePerReturn
<1> QED
  BY <1>1, Inductive, PTL

\* The channel receives the logs in the order of their timestamps, across the messages of
\* a stream, its resubscriptions and the runs of the subscribe function, and none twice;
\* after a deployment has come back, none more than once again.
THEOREM LogsSentInOrder == Spec => SentInOrder
<1> DEFINE Ordered ==
      \A l \in Logs :
        sent'[l] > sent[l] =>
          /\ sent[l] <= readds
          /\ readds = 0 =>
               \A k \in Logs : sent[k] > 0 \/ (k < l /\ sent'[k] > sent[k]) => ts[k] < ts[l]
<1>1. ASSUME IInv, Push PROVE Ordered
  <2> SUFFICES ASSUME NEW l \in Logs, sent'[l] > sent[l]
      PROVE  /\ sent[l] <= readds
             /\ readds = 0 =>
                  \A k \in Logs : sent[k] > 0 \/ (k < l /\ sent'[k] > sent[k]) => ts[k] < ts[l]
    OBVIOUS
  <2>0. TypeOK /\ SendingInv
    BY <1>1 DEF IInv
  <2>1. \A k \in Logs : sent'[k] = IF k \in sending THEN sent[k] + 1 ELSE sent[k]
    BY <1>1 DEF Push
  <2>2. \A k \in Logs : sent[k] \in Int /\ (sent'[k] > sent[k] => k \in sending)
    BY <2>0, <2>1 DEF TypeOK
  <2>3. l \in sending /\ readds \in Int /\ ts[l] \in Int
    BY <2>0, <2>2 DEF TypeOK
  <2>4. \A k \in Logs : sent[k] > readds => ts[k] < ts[l]
    BY <2>0, <2>3 DEF SendingInv
  <2>5. sent[l] <= readds
    BY <2>2, <2>3, <2>4
  <2>6. ASSUME readds = 0, NEW k \in Logs, sent[k] > 0 \/ (k < l /\ sent'[k] > sent[k])
        PROVE  ts[k] < ts[l]
    BY <2>0, <2>2, <2>3, <2>4, <2>6 DEF SendingInv
  <2> QED
    BY <2>5, <2>6
<1>2. ASSUME IInv, UNCHANGED sent PROVE Ordered
  BY <1>2 DEF IInv, TypeOK
<1>3. [Next]_vars => Push \/ UNCHANGED sent
  BY DEF Next, vars, Tick, Emit, Subscribe, Resubscribe, Deliver, Fail, Readd
<1>4. IInv /\ [Next]_vars => [Ordered]_vars
  BY <1>1, <1>2, <1>3
<1> QED
  BY <1>4, Inductive, PTL DEF Spec, SentInOrder

-----------------------------------------------------------------------------
(* What becomes of the logs of a stream.                                   *)

\* Where the run has got to: the cursor is where it began or the time of a log that is
\* forwarded or about to be; all of these are behind it; and a log that the stream has
\* passed is one of them, or behind the cursor, or noise, but never skipped and forwarded.
Taken == forwarded \cup sending

PassedInv ==
  running =>
    /\ asked <= cursor
    /\ cursor = StartFrom(floor) \/ \E k \in Taken : ts[k] = cursor
    /\ \A l \in Taken : l <= count /\ ts[l] <= cursor /\ (l <= pos \/ ts[l] <= asked)
    /\ \A l \in skipped : l <= count /\ Behind(l) /\ l \notin Taken
    /\ \A l \in 1 .. pos : ts[l] > asked => l \in noise \cup Taken \cup skipped

\* Any set of logs has a first one.
LEMMA FirstLog ==
  ASSUME NEW T \in SUBSET Logs, T # {}
  PROVE  \E x \in T : \A y \in T : ~(y < x)
<1> DEFINE Less == OpToRel(<, Nat)
<1>1. T \in SUBSET Nat
  BY DEF Logs
<1>2. IsWellFoundedOn(Less, Nat)
  BY NatLessThanWellFounded
<1>3. \E x \in T : \A y \in T : <<y, x>> \notin Less
  <2> HIDE DEF Less
  <2> QED
    BY <1>1, <1>2, WFMin
<1>4. PICK x \in T : \A y \in T : <<y, x>> \notin Less
  BY <1>3
<1>5. \A y \in T : ~(y < x)
  BY <1>1, <1>4 DEF OpToRel
<1> QED
  BY <1>5

\* A log that a batch loses and that is ahead of the cursor loses to one that is kept.
LEMMA LostToAnother ==
  ASSUME TypeOK, NEW batch \in SUBSET Logs, NEW l \in batch \ noise,
         l \notin Kept(batch), ~Behind(l)
  PROVE  \E k \in Kept(batch) : ts[l] <= ts[k]
<1> DEFINE T == {k \in batch \ noise : ts[l] <= ts[k]}
<1>1. \A k \in Logs : ts[k] \in Int
  BY DEF TypeOK
<1>2. l \in T /\ T \in SUBSET Logs
  BY <1>1
<1>3. PICK x \in T : \A y \in T : ~(y < x)
  BY <1>2, FirstLog
<1>4. ts[x] > cursor /\ (http => ts[x] >= floor)
  <2>1. ts[l] > cursor /\ (http => ts[l] >= floor)
    BY <1>1 DEF TypeOK, Behind
  <2>2. ts[l] <= ts[x] /\ x \in Logs /\ cursor \in Int /\ floor \in Int
    BY DEF TypeOK
  <2> QED
    BY <1>1, <2>1, <2>2
<1>5. \A k \in batch \ noise : k < x => ts[k] < ts[x]
  BY <1>1, <1>3
<1>6. x \in Kept(batch)
  BY <1>4, <1>5 DEF Kept
<1> QED
  BY <1>6

\* The stream moves on: what a batch loses is behind the cursor when the batch is handled.
LEMMA DeliverPassed ==
  ASSUME IInv, PassedInv, NEW last \in pos + 1 .. count, Deliver(last)
  PROVE  PassedInv' /\ cursor <= cursor'
<1>0. TypeOK /\ count \in 0 .. MaxLogs /\ pos \in 0 .. count
  BY DEF IInv, TypeOK
<1> DEFINE batch == Batch(last)  kept == Kept(batch)
<1>1. /\ running /\ sending = {} /\ pos' = last
      /\ sending' = kept /\ cursor' = Advanced(kept)
      /\ skipped' = skipped \cup (batch \ (kept \cup noise))
      /\ UNCHANGED <<backend, running, floor, asked, forwarded, sent, readds>>
  BY DEF Deliver
<1>2. batch \in SUBSET Logs /\ \A l \in batch : l <= last /\ l > pos /\ ts[l] > asked
  BY <1>0, LogCursorAssumption DEF Batch, Logs
<1>3. kept \subseteq batch \ noise /\ \A l \in kept : ts[l] > cursor /\ ~Behind(l)
  <2>1. kept \subseteq batch \ noise /\ \A l \in kept : ts[l] > cursor /\ (http => ts[l] >= floor)
    BY DEF Kept
  <2>2. \A l \in Logs : ts[l] \in Int
    BY <1>0 DEF TypeOK
  <2> QED
    BY <1>0, <1>2, <2>1, <2>2 DEF Behind, TypeOK
<1>4. \A l \in batch \ (noise \cup kept) : Behind(l) \/ \E k \in kept : ts[l] <= ts[k]
  BY <1>0, <1>2, LostToAnother
<1>5. \A l \in Logs : l \in pos + 1 .. last /\ ts[l] > asked => l \in batch
  BY DEF Batch
<1> HIDE DEF batch, kept
<1>6. /\ cursor' \in 0 .. MaxTime /\ cursor <= cursor'
      /\ \A l \in kept : ts[l] <= cursor'
      /\ IF kept = {} THEN cursor' = cursor ELSE \E l \in kept : ts[l] = cursor'
  <2>1. kept \in SUBSET Logs /\ \A l \in kept : ts[l] > cursor
    BY <1>2, <1>3
  <2> QED
    BY <1>0, <1>1, <2>1, AdvancedFacts
<1>7. \A l \in Logs : ts[l] \in Int /\ asked \in Int /\ cursor \in Int /\ floor \in Int
  BY <1>0 DEF TypeOK
<1>8. Taken = forwarded /\ Taken' = forwarded \cup kept /\ Taken \subseteq Logs
  BY <1>0, <1>1 DEF Taken, TypeOK
<1>9. \A l \in Logs : Behind(l) => Behind(l)'
  BY <1>0, <1>1, <1>6, <1>7 DEF Behind, backend, TypeOK
<1>10. UNCHANGED <<ts, http, floor, asked, count, noise>> /\ last \in Int /\ last <= count /\ pos < last
  BY <1>0, <1>1 DEF backend
<1>11. asked' <= cursor' /\ (cursor' = StartFrom(floor)' \/ \E k \in Taken' : ts'[k] = cursor')
  <2>1. asked <= cursor'
    BY <1>1, <1>6, <1>0 DEF PassedInv, TypeOK
  <2> QED
    BY <1>1, <1>6, <1>8, <1>10, <2>1 DEF PassedInv, StartFrom
<1>12. \A l \in Taken' : l <= count' /\ ts'[l] <= cursor' /\ (l <= pos' \/ ts'[l] <= asked')
  <2>1. ASSUME NEW l \in forwarded PROVE l <= count /\ ts[l] <= cursor' /\ (l <= last \/ ts[l] <= asked)
    <3>1. l \in Logs /\ l <= count /\ ts[l] <= cursor /\ (l <= pos \/ ts[l] <= asked)
      BY <1>1, <1>8, <2>1 DEF PassedInv
    <3>2. l \in Int /\ ts[l] \in Int /\ cursor \in Int /\ cursor' \in Int /\ pos \in Int
      BY <1>0, <1>6, <3>1 DEF Logs, TypeOK
    <3> QED
      BY <1>6, <1>10, <3>1, <3>2
  <2>2. ASSUME NEW l \in kept PROVE l <= count /\ ts[l] <= cursor' /\ l <= last
    BY <1>0, <1>2, <1>3, <1>6, <1>10, <2>2 DEF Logs
  <2> QED
    BY <1>1, <1>8, <1>10, <2>1, <2>2
<1>13. \A l \in skipped' : l <= count' /\ Behind(l)' /\ l \notin Taken'
  <2>1. ASSUME NEW l \in skipped PROVE l <= count /\ Behind(l)' /\ l \notin forwarded \cup kept
    BY <1>0, <1>1, <1>3, <1>8, <1>9, <2>1 DEF PassedInv, TypeOK
  <2>2. ASSUME NEW l \in batch \ (kept \cup noise) PROVE l <= count /\ Behind(l)' /\ l \notin forwarded
    <3>1. l \in Logs /\ l <= last /\ l > pos /\ ts[l] > asked
      BY <1>2, <2>2
    <3>2. l \notin forwarded
      BY <1>0, <1>1, <1>7, <1>8, <3>1 DEF PassedInv, Logs
    <3>3. CASE \E k \in kept : ts[l] <= ts[k]
      <4>1. PICK k \in kept : ts[l] <= ts[k]
        BY <3>3
      <4>2. ts[k] <= cursor' /\ k \in Logs
        BY <1>2, <1>3, <1>6
      <4>3. ts[l] <= cursor'
        BY <1>0, <1>6, <1>7, <3>1, <4>1, <4>2 DEF TypeOK
      <4> QED
        BY <1>10, <3>1, <3>2, <4>3, <1>0 DEF Behind, Logs
    <3> QED
      BY <1>0, <1>4, <1>9, <1>10, <2>2, <3>1, <3>2, <3>3 DEF Logs
  <2> QED
    BY <1>1, <1>8, <1>10, <2>1, <2>2
<1>14. \A l \in 1 .. pos' : ts'[l] > asked' => l \in noise' \cup Taken' \cup skipped'
  <2> SUFFICES ASSUME NEW l \in 1 .. last, ts[l] > asked
               PROVE  l \in noise \cup forwarded \cup kept \cup skipped'
    BY <1>1, <1>8, <1>10
  <2>1. CASE l <= pos
    BY <1>0, <1>1, <1>8, <2>1 DEF PassedInv
  <2>2. CASE l > pos
    <3>1. l \in Logs /\ l \in pos + 1 .. last
      BY <1>0, <1>10, <2>2, LogCursorAssumption DEF Logs
    <3> QED
      BY <1>1, <1>5, <3>1
  <2> QED
    BY <1>0, <2>1, <2>2
<1> QED
  BY <1>1, <1>6, <1>11, <1>12, <1>13, <1>14 DEF PassedInv

\* Every other step leaves the stream where it is, or starts it anew.
LEMMA NextPassed ==
  ASSUME IInv, PassedInv, [Next]_vars
  PROVE  PassedInv' /\ (running /\ running' /\ readds' = readds => cursor <= cursor')
<1>0. TypeOK /\ \A l \in Logs : ts[l] \in Int
  BY DEF IInv, TypeOK
<1>1. cursor <= cursor /\ cursor \in Int /\ asked \in Int /\ pos \in Int /\ count \in Int
  BY <1>0 DEF TypeOK
<1>2. CASE Tick \/ UNCHANGED vars
  <2>1. UNCHANGED <<http, count, ts, noise, running, floor, cursor, stream, sending, history>>
    BY <1>2 DEF Tick, vars, backend
  <2> QED
    BY <1>1, <2>1 DEF PassedInv, Taken, Behind, StartFrom, stream, history
<1>3. CASE Emit
  <2>1. /\ \A l \in Logs : l <= count => ts'[l] = ts[l]
        /\ noise \subseteq noise' /\ count <= count'
        /\ UNCHANGED <<http, running, floor, cursor, stream, sending, history>>
    BY <1>0, <1>1, <1>3 DEF Emit, TypeOK, Logs
  <2>2. count' \in Int
    BY <1>1, <1>3 DEF Emit
  <2>3. Taken \subseteq Logs /\ skipped \subseteq Logs /\ 1 .. pos \subseteq Logs /\ \A l \in 1 .. pos : l <= count
    BY <1>0, LogCursorAssumption DEF TypeOK, Taken, Logs
  <2>4. Taken' = Taken /\ UNCHANGED <<asked, pos, skipped>>
    BY <2>1 DEF Taken, stream, history
  <2> SUFFICES ASSUME running PROVE PassedInv'
    BY <1>1, <2>1 DEF PassedInv
  <2>5. \A l \in Taken : l <= count' /\ ts'[l] = ts[l]
    BY <1>1, <2>1, <2>2, <2>3 DEF PassedInv, Logs
  <2>6. \A l \in skipped : l <= count' /\ ts'[l] = ts[l]
    BY <1>1, <2>1, <2>2, <2>3 DEF PassedInv, Logs
  <2>7. \A l \in 1 .. pos : ts'[l] = ts[l]
    BY <2>1, <2>3
  <2> QED
    BY <2>1, <2>4, <2>5, <2>6, <2>7 DEF PassedInv, Behind, StartFrom
<1>4. CASE Subscribe
  <2>1. sending = {} /\ Taken' = {} /\ skipped' = {} /\ pos' = 0
    BY <1>4 DEF Subscribe, SetCursor, IInv, SendingInv, Taken
  <2>2. asked' = cursor' /\ cursor' = StartFrom(floor)' /\ cursor' \in Int /\ ~running
    BY <1>0, <1>4 DEF Subscribe, SetCursor, StartFrom, TypeOK
  <2> QED
    BY <2>1, <2>2 DEF PassedInv
<1>5. CASE Resubscribe
  <2>1. Taken' = Taken /\ pos' = 0 /\ asked' = cursor /\ running
        /\ UNCHANGED <<backend, running, floor, cursor, skipped>>
    BY <1>5 DEF Resubscribe, Taken, history
  <2> QED
    BY <1>1, <2>1 DEF PassedInv, Behind, StartFrom, backend
<1>6. CASE Push
  <2>1. Taken' = Taken /\ UNCHANGED <<backend, running, floor, cursor, stream, skipped>>
    BY <1>6 DEF Push, Taken
  <2> QED
    BY <1>1, <2>1 DEF PassedInv, Behind, StartFrom, backend, stream
<1>7. CASE Fail
  BY <1>7 DEF Fail, PassedInv
<1>8. CASE Readd
  <2>1. Taken' = {} /\ skipped' = {} /\ pos' = 0 /\ readds' # readds
    BY <1>8 DEF Readd, SetCursor, Taken
  <2>2. asked' = cursor' /\ cursor' = StartFrom(floor)' /\ cursor' \in Int
    BY <1>0, <1>8 DEF Readd, SetCursor, StartFrom, TypeOK, backend
  <2> QED
    BY <2>1, <2>2 DEF PassedInv
<1>9. ASSUME NEW last \in pos + 1 .. count, Deliver(last)
      PROVE  PassedInv' /\ cursor <= cursor'
  BY <1>9, DeliverPassed
<1> QED
  BY <1>2, <1>3, <1>4, <1>5, <1>6, <1>7, <1>8, <1>9 DEF Next

\* At the start nothing runs.
LEMMA PassedHolds == Spec => []PassedInv
<1>1. Init => PassedInv
  BY DEF Init, PassedInv
<1> QED
  BY <1>1, NextPassed, Inductive, PTL DEF Spec

\* While a run lasts, a log is skipped only if it was logged before the run began, or if
\* another one, no older, has been forwarded or is about to be: the extent of what the two
\* comparisons with the cursor (environment_logs/subscribe.go:76, http_logs/subscribe.go:262)
\* lose.
SkipHasACause ==
  running =>
    \A l \in skipped :
      \/ ts[l] <= floor
      \/ \E k \in (forwarded \cup sending) \ {l} : ts[l] <= ts[k]

\* No log that the stream has handed out is forgotten: one that is ahead of where the
\* stream began is forwarded or about to be, or has been skipped, and not both.
EachIsAccounted ==
  running =>
    /\ \A l \in (1 .. pos) \ noise : ts[l] > asked => l \in forwarded \cup sending \cup skipped
    /\ (forwarded \cup sending) \cap skipped = {}

\* However the timestamps are ordered and wherever the streams end, nothing is skipped for
\* another reason.
THEOREM SkipsHaveACause == Spec => []SkipHasACause
<1>1. IInv /\ PassedInv => SkipHasACause
  <2> SUFFICES ASSUME IInv, PassedInv, running, NEW l \in skipped
               PROVE  ts[l] <= floor \/ \E k \in Taken \ {l} : ts[l] <= ts[k]
    BY DEF SkipHasACause, Taken
  <2>1. ts[l] \in Int /\ floor \in Int /\ cursor \in Int /\ floor >= 0
    BY DEF IInv, TypeOK
  <2>2. Behind(l) /\ l \notin Taken /\ (cursor = StartFrom(floor) \/ \E k \in Taken : ts[k] = cursor)
    BY DEF PassedInv
  <2>3. CASE http /\ ts[l] < floor
    BY <2>1, <2>3
  <2>4. CASE ts[l] <= cursor /\ cursor = StartFrom(floor)
    BY <2>1, <2>4 DEF StartFrom
  <2>5. CASE ts[l] <= cursor /\ \E k \in Taken : ts[k] = cursor
    BY <2>2, <2>5
  <2> QED
    BY <2>2, <2>3, <2>4, <2>5 DEF Behind
<1> QED
  BY <1>1, PassedHolds, Inductive, PTL

\* Between the logs that the backend sends and those that the channel gets there is no
\* third place, whatever the batches are.
THEOREM LogsAreAccounted == Spec => []EachIsAccounted
<1>1. PassedInv => EachIsAccounted
  BY DEF PassedInv, EachIsAccounted, Taken
<1> QED
  BY <1>1, PassedHolds, PTL

\* The cursor only moves forward, but for a new run or a deployment that has come back, so
\* that a new stream is never asked for what the one before has brought.
CursorMovesForward ==
  [][running /\ running' /\ readds' = readds => cursor <= cursor']_vars

\* No batch sets the cursor back (environment_logs/subscribe.go:80, http_logs/subscribe.go:292).
THEOREM CursorNeverBack == Spec => CursorMovesForward
<1>1. IInv /\ PassedInv /\ [Next]_vars =>
        [running /\ running' /\ readds' = readds => cursor <= cursor']_vars
  BY NextPassed
<1> QED
  BY <1>1, PassedHolds, Inductive, PTL DEF Spec, CursorMovesForward

==============================================================================
