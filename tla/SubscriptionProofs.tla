------------------------- MODULE SubscriptionProofs -------------------------
(***************************************************************************)
(* Proofs about module Subscription, for every number of subscriptions and *)
(* sockets and every size of the limiter: no slot of the limiter and no    *)
(* socket leaks, whatever fails or is cancelled in whichever order.        *)
(*                                                                         *)
(* The inductive invariant IInv adds to the invariants themselves which    *)
(* places of Run go with which sockets (PlaceInv), that a socket has one   *)
(* owner (OwnerInv), and that a socket whose handshake is in progress has  *)
(* no ping loop yet (SocketInv): it may then be closed without stopping    *)
(* one.                                                                    *)
(***************************************************************************)
EXTENDS Subscription, FiniteSetTheorems, TLAPS

Opens == {s \in Subs : at[s] \in Opening}

\* A socket in its handshake is held exactly by a handshake; a stream that is read
\* or established anew has a connection, one that is redialed or has returned none.
PlaceInv ==
  \A s \in Subs :
    /\ raw[s] # NoSocket <=> at[s] = "handshake"
    /\ at[s] \in {"dialslot", "dial", "handshake", "returned"} => conn[s] = NoSocket
    /\ at[s] \in {"reslot", "rewrite", "reading", "handling"} => conn[s] # NoSocket

\* No two subscriptions share a socket.
OwnerInv ==
  \A s, t \in Subs :
    /\ conn[s] = conn[t] /\ conn[s] # NoSocket => s = t
    /\ raw[s] = raw[t] /\ raw[s] # NoSocket => s = t
    /\ conn[s] # NoSocket => conn[s] # raw[t]

Owned(k) == \E s \in Subs : k \in {conn[s], raw[s]}

SocketInv ==
  /\ \A k \in Sockets : link[k] # "closed" \/ ping[k] = "on" => Owned(k)
  /\ \A s \in Subs : raw[s] # NoSocket => ping[raw[s]] = "off"

IInv ==
  /\ TypeOK
  /\ SlotsAreOpens
  /\ FruitlessBacksOff
  /\ PlaceInv
  /\ OwnerInv
  /\ SocketInv

-----------------------------------------------------------------------------
(* Counting the opens in progress.                                         *)

\* There are finitely many opens in progress, so they can be counted.
LEMMA OpensFinite ==
  /\ IsFiniteSet(Opens)
  /\ Cardinality(Opens) \in Nat
BY SubscriptionAssumption, FS_Subset, FS_CardinalityType DEF Opens

\* A move within the opens, or outside them, leaves their number alone.
LEMMA MoveKeepsOpens ==
  ASSUME TypeOK, SlotsAreOpens, NEW s \in Subs, NEW place, GoTo(s, place),
         at[s] \in Opening <=> place \in Opening,
         UNCHANGED slots
  PROVE  SlotsAreOpens'
<1>1. at' = [at EXCEPT ![s] = place] /\ at \in [Subs -> {"wait", "reading", "handling", "returned"} \cup Waiting \cup Opening]
  BY DEF GoTo, TypeOK
<1>2. \A t \in Subs : at'[t] \in Opening <=> at[t] \in Opening
  BY <1>1
<1>3. {t \in Subs : at'[t] \in Opening} = {t \in Subs : at[t] \in Opening}
  BY <1>2
<1> QED
  BY <1>3 DEF SlotsAreOpens

\* AcquireOpenSlot: the open that begins takes the slot that is taken.
LEMMA MoveBeginsOpen ==
  ASSUME TypeOK, SlotsAreOpens, NEW s \in Subs, NEW place, GoTo(s, place),
         at[s] \notin Opening, place \in Opening,
         slots' = slots + 1
  PROVE  SlotsAreOpens'
<1>1. at' = [at EXCEPT ![s] = place] /\ at \in [Subs -> {"wait", "reading", "handling", "returned"} \cup Waiting \cup Opening]
  BY DEF GoTo, TypeOK
<1>2. {t \in Subs : at'[t] \in Opening} = Opens \cup {s} /\ s \notin Opens
  BY <1>1 DEF Opens
<1>3. Cardinality(Opens \cup {s}) = Cardinality(Opens) + 1
  BY <1>2, OpensFinite, FS_AddElement
<1> QED
  BY <1>2, <1>3 DEF SlotsAreOpens, Opens

\* The deferred release: the open that ends gives its slot back.
LEMMA MoveEndsOpen ==
  ASSUME TypeOK, SlotsAreOpens, NEW s \in Subs, NEW place, GoTo(s, place),
         at[s] \in Opening, place \notin Opening,
         Release
  PROVE  SlotsAreOpens' /\ slots' \in 0 .. MaxOpens
<1>1. at' = [at EXCEPT ![s] = place] /\ at \in [Subs -> {"wait", "reading", "handling", "returned"} \cup Waiting \cup Opening]
  BY DEF GoTo, TypeOK
<1>2. {t \in Subs : at'[t] \in Opening} = Opens \ {s} /\ s \in Opens
  BY <1>1 DEF Opens
<1>3. Cardinality(Opens \ {s}) = Cardinality(Opens) - 1 /\ Cardinality(Opens \ {s}) \in Nat
  BY <1>2, OpensFinite, FS_RemoveElement, FS_CardinalityType
<1>4. slots' = Cardinality(Opens \ {s})
  BY <1>3 DEF SlotsAreOpens, Opens, Release
<1>5. slots' \in 0 .. MaxOpens
  BY <1>3, <1>4, SubscriptionAssumption DEF TypeOK, Release
<1> QED
  BY <1>2, <1>4, <1>5 DEF SlotsAreOpens

-----------------------------------------------------------------------------
(* What the helpers of the actions preserve.                               *)

\* CloseNow and the nil that follows it: the socket of the connection is left by its
\* only owner, and left closed, its ping loop stopped.
LEMMA CloseConnKeeps ==
  ASSUME TypeOK, PlaceInv, OwnerInv, SocketInv, NEW s \in Subs, CloseConn(s)
  PROVE  /\ conn' \in [Subs -> Sockets \cup {NoSocket}]
         /\ broken' \in [Subs -> BOOLEAN]
         /\ link' \in [Sockets -> {"open", "dead", "closed"}]
         /\ ping' \in [Sockets -> {"off", "on", "stopping"}]
         /\ conn'[s] = NoSocket
         /\ \A t \in Subs \ {s} : conn'[t] = conn[t]
         /\ OwnerInv'
         /\ SocketInv'
<1> USE DEF CloseConn
<1>1. /\ conn' \in [Subs -> Sockets \cup {NoSocket}]
      /\ conn'[s] = NoSocket
      /\ \A t \in Subs \ {s} : conn'[t] = conn[t]
  BY DEF TypeOK
<1>2. broken' \in [Subs -> BOOLEAN]
  BY DEF TypeOK
<1>3. link' \in [Sockets -> {"open", "dead", "closed"}]
  BY DEF TypeOK
<1>4. ping' \in [Sockets -> {"off", "on", "stopping"}]
  BY DEF TypeOK
<1>5. OwnerInv'
  BY <1>1 DEF OwnerInv
<1>6. ASSUME NEW k \in Sockets, link'[k] # "closed" \/ ping'[k] = "on"
      PROVE  Owned(k)'
  <2>1. k # conn[s] /\ (link[k] # "closed" \/ ping[k] = "on")
    BY <1>6
  <2>2. PICK t \in Subs : k \in {conn[t], raw[t]}
    BY <2>1 DEF SocketInv, Owned
  <2>3. k \in {conn'[t], raw'[t]}
    BY <1>1, <2>1, <2>2
  <2> QED
    BY <2>3 DEF Owned
<1>7. ASSUME NEW t \in Subs, raw'[t] # NoSocket
      PROVE  ping'[raw'[t]] = "off"
  BY <1>7 DEF SocketInv, TypeOK
<1> QED
  BY <1>1, <1>2, <1>3, <1>4, <1>5, <1>6, <1>7 DEF SocketInv

\* An action that touches no socket.
LEMMA SocketsKept ==
  ASSUME OwnerInv, SocketInv, UNCHANGED <<conn, raw, link, ping>>
  PROVE  OwnerInv' /\ SocketInv'
<1>1. OwnerInv'
  BY DEF OwnerInv
<1>2. SocketInv'
  BY DEF SocketInv, Owned
<1> QED
  BY <1>1, <1>2

\* The counter that is cut off stays within its bound.
LEMMA UpType ==
  ASSUME NEW n \in 0 .. MaxTries
  PROVE  Up(n) \in 0 .. MaxTries
BY SubscriptionAssumption DEF Up

\* The end of an attempt: the counter of RetryBackoff and the history agree.
LEMMA EndedCounts ==
  ASSUME TypeOK, FruitlessBacksOff, NEW s \in Subs, Fruitless(s) \/ Ended(s)
  PROVE  /\ GoTo(s, "wait")
         /\ delivered' \in [Subs -> BOOLEAN]
         /\ tries' \in [Subs -> 0 .. MaxTries]
         /\ fruitless' \in [Subs -> 0 .. MaxTries]
         /\ FruitlessBacksOff'
<1>1. tries[s] \in 0 .. MaxTries /\ fruitless[s] \in 0 .. MaxTries /\ tries[s] = fruitless[s]
  BY DEF TypeOK, FruitlessBacksOff
<1>2. \E n \in 0 .. MaxTries :
        /\ tries' = [tries EXCEPT ![s] = n]
        /\ fruitless' = [fruitless EXCEPT ![s] = n]
  <2>1. CASE Fruitless(s)
    BY <1>1, <2>1, UpType DEF Fruitless
  <2>2. CASE Ended(s) /\ ~Fruitless(s)
    <3>1. 0 \in 0 .. MaxTries
      BY SubscriptionAssumption
    <3> QED
      BY <2>2, <3>1 DEF Ended
  <2> QED
    BY <2>1, <2>2
<1>3. GoTo(s, "wait") /\ UNCHANGED delivered
  BY DEF Fruitless, Ended
<1> QED
  BY <1>2, <1>3 DEF TypeOK, FruitlessBacksOff

-----------------------------------------------------------------------------

\* Nobody opens at the start, and nobody has a socket.
LEMMA InitIInv == Init => IInv
<1> SUFFICES ASSUME Init PROVE IInv
  OBVIOUS
<1> USE SubscriptionAssumption DEF Init
<1>1. TypeOK
  BY DEF TypeOK
<1>2. SlotsAreOpens
  <2>1. {s \in Subs : at[s] \in Opening} = {}
    BY DEF Opening
  <2> QED
    BY <2>1, FS_EmptySet DEF SlotsAreOpens
<1>3. FruitlessBacksOff /\ PlaceInv /\ OwnerInv
  BY DEF FruitlessBacksOff, PlaceInv, OwnerInv
<1>4. SocketInv
  BY DEF SocketInv
<1> QED
  BY <1>1, <1>2, <1>3, <1>4 DEF IInv

-----------------------------------------------------------------------------
(* The steps of Run.                                                       *)

\* The stream is to be established anew over the connection: it is there.
LEMMA ResumeIInv ==
  ASSUME IInv, NEW s \in Subs, Resume(s)
  PROVE  IInv'
<1> USE DEF Resume, Reusable, connVars, sockVars
<1>0. TypeOK /\ SlotsAreOpens /\ FruitlessBacksOff /\ PlaceInv /\ OwnerInv /\ SocketInv
  BY DEF IInv
<1>1. SlotsAreOpens'
  BY <1>0, MoveKeepsOpens DEF Opening
<1>2. TypeOK'
  BY <1>0 DEF TypeOK, GoTo, Waiting
<1>3. FruitlessBacksOff'
  BY <1>0 DEF FruitlessBacksOff
<1>4. PlaceInv'
  BY <1>0 DEF TypeOK, PlaceInv, GoTo
<1>5. OwnerInv' /\ SocketInv'
  BY <1>0, SocketsKept
<1> QED
  BY <1>1, <1>2, <1>3, <1>4, <1>5 DEF IInv

\* A slot is taken, and one open more is in progress.
LEMMA AcquireIInv ==
  ASSUME IInv, NEW s \in Subs, Acquire(s)
  PROVE  IInv'
<1> USE DEF Acquire, connVars, sockVars
<1>0. TypeOK /\ SlotsAreOpens /\ FruitlessBacksOff /\ PlaceInv /\ OwnerInv /\ SocketInv
  BY DEF IInv
<1>1. SlotsAreOpens'
  BY <1>0, MoveBeginsOpen DEF Opening, Waiting
<1>2. TypeOK'
  BY <1>0, SubscriptionAssumption DEF TypeOK, GoTo, Waiting, Opening
<1>3. FruitlessBacksOff'
  BY <1>0 DEF FruitlessBacksOff
<1>4. PlaceInv'
  BY <1>0 DEF TypeOK, PlaceInv, GoTo, Waiting
<1>5. OwnerInv' /\ SocketInv'
  BY <1>0, SocketsKept
<1> QED
  BY <1>1, <1>2, <1>3, <1>4, <1>5 DEF IInv

\* The redial is cancelled before it has a slot.
LEMMA RedialCancelledIInv ==
  ASSUME IInv, NEW s \in Subs, RedialCancelled(s)
  PROVE  IInv'
<1> USE DEF RedialCancelled, connVars, sockVars
<1>0. TypeOK /\ SlotsAreOpens /\ FruitlessBacksOff /\ PlaceInv /\ OwnerInv /\ SocketInv
  BY DEF IInv
<1>1. SlotsAreOpens'
  BY <1>0, MoveKeepsOpens DEF Opening, Fruitless
<1>2. TypeOK'
  BY <1>0, EndedCounts DEF TypeOK, GoTo, Waiting
<1>3. FruitlessBacksOff'
  BY <1>0, EndedCounts
<1>4. PlaceInv'
  BY <1>0 DEF TypeOK, PlaceInv, GoTo, Fruitless
<1>5. OwnerInv' /\ SocketInv'
  BY <1>0, SocketsKept
<1> QED
  BY <1>1, <1>2, <1>3, <1>4, <1>5 DEF IInv

\* The subscribe message is written anew, and the slot given back.
LEMMA RewriteOkIInv ==
  ASSUME IInv, NEW s \in Subs, RewriteOk(s)
  PROVE  IInv'
<1> USE DEF RewriteOk, StartReading, connVars, sockVars
<1>0. TypeOK /\ SlotsAreOpens /\ FruitlessBacksOff /\ PlaceInv /\ OwnerInv /\ SocketInv
  BY DEF IInv
<1>1. SlotsAreOpens' /\ slots' \in 0 .. MaxOpens
  BY <1>0, MoveEndsOpen DEF Opening
<1>2. TypeOK'
  BY <1>0, <1>1 DEF TypeOK, GoTo
<1>3. FruitlessBacksOff'
  BY <1>0 DEF FruitlessBacksOff
<1>4. PlaceInv'
  BY <1>0 DEF TypeOK, PlaceInv, GoTo
<1>5. OwnerInv' /\ SocketInv'
  BY <1>0, SocketsKept
<1> QED
  BY <1>1, <1>2, <1>3, <1>4, <1>5 DEF IInv

\* The dial fails, and the slot is given back.
LEMMA DialFailsIInv ==
  ASSUME IInv, NEW s \in Subs, DialFails(s)
  PROVE  IInv'
<1> USE DEF DialFails, connVars, sockVars
<1>0. TypeOK /\ SlotsAreOpens /\ FruitlessBacksOff /\ PlaceInv /\ OwnerInv /\ SocketInv
  BY DEF IInv
<1>1. SlotsAreOpens' /\ slots' \in 0 .. MaxOpens
  BY <1>0, MoveEndsOpen DEF Opening, Fruitless
<1>2. TypeOK'
  BY <1>0, <1>1, EndedCounts DEF TypeOK, GoTo
<1>3. FruitlessBacksOff'
  BY <1>0, EndedCounts
<1>4. PlaceInv'
  BY <1>0 DEF TypeOK, PlaceInv, GoTo, Fruitless
<1>5. OwnerInv' /\ SocketInv'
  BY <1>0, SocketsKept
<1> QED
  BY <1>1, <1>2, <1>3, <1>4, <1>5 DEF IInv

\* A message is read and handed over.
LEMMA ReadNextIInv ==
  ASSUME IInv, NEW s \in Subs, ReadNext(s)
  PROVE  IInv'
<1> USE DEF ReadNext, connVars, sockVars
<1>0. TypeOK /\ SlotsAreOpens /\ FruitlessBacksOff /\ PlaceInv /\ OwnerInv /\ SocketInv
  BY DEF IInv
<1>1. SlotsAreOpens'
  BY <1>0, MoveKeepsOpens DEF Opening
<1>2. TypeOK'
  BY <1>0 DEF TypeOK, GoTo
<1>3. FruitlessBacksOff'
  BY <1>0 DEF FruitlessBacksOff
<1>4. PlaceInv'
  BY <1>0 DEF TypeOK, PlaceInv, GoTo
<1>5. OwnerInv' /\ SocketInv'
  BY <1>0, SocketsKept
<1> QED
  BY <1>1, <1>2, <1>3, <1>4, <1>5 DEF IInv

\* The stream is complete: the connection is kept for the next one.
LEMMA ReadEndIInv ==
  ASSUME IInv, NEW s \in Subs, ReadEnd(s)
  PROVE  IInv'
<1> USE DEF ReadEnd, connVars, sockVars
<1>0. TypeOK /\ SlotsAreOpens /\ FruitlessBacksOff /\ PlaceInv /\ OwnerInv /\ SocketInv
  BY DEF IInv
<1>1. SlotsAreOpens'
  BY <1>0, EndedCounts, MoveKeepsOpens DEF Opening
<1>2. TypeOK'
  BY <1>0, EndedCounts DEF TypeOK, GoTo
<1>3. FruitlessBacksOff'
  BY <1>0, EndedCounts
<1>4. PlaceInv'
  BY <1>0, EndedCounts DEF TypeOK, PlaceInv, GoTo
<1>5. OwnerInv' /\ SocketInv'
  BY <1>0, SocketsKept
<1> QED
  BY <1>1, <1>2, <1>3, <1>4, <1>5 DEF IInv

\* The read fails: the connection is marked broken, and closed when it is redialed.
LEMMA ReadFailsIInv ==
  ASSUME IInv, NEW s \in Subs, ReadFails(s)
  PROVE  IInv'
<1> USE DEF ReadFails, sockVars
<1>0. TypeOK /\ SlotsAreOpens /\ FruitlessBacksOff /\ PlaceInv /\ OwnerInv /\ SocketInv
  BY DEF IInv
<1>1. SlotsAreOpens'
  BY <1>0, EndedCounts, MoveKeepsOpens DEF Opening
<1>2. TypeOK'
  BY <1>0, EndedCounts DEF TypeOK, GoTo
<1>3. FruitlessBacksOff'
  BY <1>0, EndedCounts
<1>4. PlaceInv'
  BY <1>0, EndedCounts DEF TypeOK, PlaceInv, GoTo
<1>5. OwnerInv' /\ SocketInv'
  BY <1>0, SocketsKept
<1> QED
  BY <1>1, <1>2, <1>3, <1>4, <1>5 DEF IInv

\* The handler returns.
LEMMA HandledIInv ==
  ASSUME IInv, NEW s \in Subs, Handled(s)
  PROVE  IInv'
<1> USE DEF Handled, connVars, sockVars
<1>0. TypeOK /\ SlotsAreOpens /\ FruitlessBacksOff /\ PlaceInv /\ OwnerInv /\ SocketInv
  BY DEF IInv
<1>1. SlotsAreOpens'
  BY <1>0, MoveKeepsOpens DEF Opening
<1>2. TypeOK'
  BY <1>0 DEF TypeOK, GoTo
<1>3. FruitlessBacksOff'
  BY <1>0 DEF FruitlessBacksOff
<1>4. PlaceInv'
  BY <1>0 DEF TypeOK, PlaceInv, GoTo
<1>5. OwnerInv' /\ SocketInv'
  BY <1>0, SocketsKept
<1> QED
  BY <1>1, <1>2, <1>3, <1>4, <1>5 DEF IInv

\* Run returns from a backoff, a read or a handler, and its caller closes.
LEMMA ReturnIInv ==
  ASSUME IInv, NEW s \in Subs, Return(s),
         at[s] \in {"wait", "reading", "handling"}
  PROVE  IInv'
<1> USE DEF Return
<1>0. TypeOK /\ SlotsAreOpens /\ FruitlessBacksOff /\ PlaceInv /\ OwnerInv /\ SocketInv
  BY DEF IInv
<1>c. CloseConn(s) /\ UNCHANGED raw
  BY DEF CloseConn
<1>d. /\ conn'[s] = NoSocket
      /\ \A t \in Subs \ {s} : conn'[t] = conn[t]
  BY <1>0, <1>c, CloseConnKeeps
<1>1. SlotsAreOpens'
  BY <1>0, MoveKeepsOpens DEF Opening
<1>2. TypeOK'
  BY <1>0, <1>c, CloseConnKeeps DEF TypeOK, GoTo
<1>3. FruitlessBacksOff'
  BY <1>0 DEF FruitlessBacksOff
<1>4. PlaceInv'
  BY <1>0, <1>c, <1>d DEF TypeOK, PlaceInv, GoTo
<1>5. OwnerInv' /\ SocketInv'
  BY <1>0, <1>c, CloseConnKeeps
<1> QED
  BY <1>1, <1>2, <1>3, <1>4, <1>5 DEF IInv

\* The old connection is closed before the new one is dialed.
LEMMA RedialIInv ==
  ASSUME IInv, NEW s \in Subs, Redial(s)
  PROVE  IInv'
<1> USE DEF Redial
<1>0. TypeOK /\ SlotsAreOpens /\ FruitlessBacksOff /\ PlaceInv /\ OwnerInv /\ SocketInv
  BY DEF IInv
<1>c. CloseConn(s) /\ UNCHANGED raw
  BY DEF CloseConn
<1>d. /\ conn'[s] = NoSocket
      /\ \A t \in Subs \ {s} : conn'[t] = conn[t]
  BY <1>0, <1>c, CloseConnKeeps
<1>1. SlotsAreOpens'
  BY <1>0, MoveKeepsOpens DEF Opening
<1>2. TypeOK'
  BY <1>0, <1>c, CloseConnKeeps DEF TypeOK, GoTo, Waiting
<1>3. FruitlessBacksOff'
  BY <1>0 DEF FruitlessBacksOff
<1>4. PlaceInv'
  BY <1>0, <1>c, <1>d DEF TypeOK, PlaceInv, GoTo
<1>5. OwnerInv' /\ SocketInv'
  BY <1>0, <1>c, CloseConnKeeps
<1> QED
  BY <1>1, <1>2, <1>3, <1>4, <1>5 DEF IInv

\* The reuse is cancelled before it has a slot: it gives none back.
LEMMA ResumeCancelledIInv ==
  ASSUME IInv, NEW s \in Subs, ResumeCancelled(s)
  PROVE  IInv'
<1> USE DEF ResumeCancelled
<1>0. TypeOK /\ SlotsAreOpens /\ FruitlessBacksOff /\ PlaceInv /\ OwnerInv /\ SocketInv
  BY DEF IInv
<1>c. CloseConn(s) /\ UNCHANGED raw
  BY DEF CloseConn
<1>d. /\ conn'[s] = NoSocket
      /\ \A t \in Subs \ {s} : conn'[t] = conn[t]
  BY <1>0, <1>c, CloseConnKeeps
<1>1. SlotsAreOpens'
  BY <1>0, MoveKeepsOpens DEF Opening
<1>2. TypeOK'
  BY <1>0, <1>c, CloseConnKeeps DEF TypeOK, GoTo, Waiting
<1>3. FruitlessBacksOff'
  BY <1>0 DEF FruitlessBacksOff
<1>4. PlaceInv'
  BY <1>0, <1>c, <1>d DEF TypeOK, PlaceInv, GoTo
<1>5. OwnerInv' /\ SocketInv'
  BY <1>0, <1>c, CloseConnKeeps
<1> QED
  BY <1>1, <1>2, <1>3, <1>4, <1>5 DEF IInv

\* The reuse fails: its slot is given back before the redial waits for one.
LEMMA RewriteFailsIInv ==
  ASSUME IInv, NEW s \in Subs, RewriteFails(s)
  PROVE  IInv'
<1> USE DEF RewriteFails
<1>0. TypeOK /\ SlotsAreOpens /\ FruitlessBacksOff /\ PlaceInv /\ OwnerInv /\ SocketInv
  BY DEF IInv
<1>c. CloseConn(s) /\ UNCHANGED raw
  BY DEF CloseConn
<1>d. /\ conn'[s] = NoSocket
      /\ \A t \in Subs \ {s} : conn'[t] = conn[t]
  BY <1>0, <1>c, CloseConnKeeps
<1>1. SlotsAreOpens' /\ slots' \in 0 .. MaxOpens
  BY <1>0, MoveEndsOpen DEF Opening
<1>2. TypeOK'
  BY <1>0, <1>1, <1>c, CloseConnKeeps DEF TypeOK, GoTo, Waiting
<1>3. FruitlessBacksOff'
  BY <1>0 DEF FruitlessBacksOff
<1>4. PlaceInv'
  BY <1>0, <1>c, <1>d DEF TypeOK, PlaceInv, GoTo
<1>5. OwnerInv' /\ SocketInv'
  BY <1>0, <1>c, CloseConnKeeps
<1> QED
  BY <1>1, <1>2, <1>3, <1>4, <1>5 DEF IInv

\* A socket that nobody holds is opened, and held by the handshake alone.
LEMMA DialOkIInv ==
  ASSUME IInv, NEW s \in Subs, DialOk(s)
  PROVE  IInv'
<1>0. TypeOK /\ SlotsAreOpens /\ FruitlessBacksOff /\ PlaceInv /\ OwnerInv /\ SocketInv
  BY DEF IInv
<1>p. PICK k \in Sockets :
        /\ Free(k)
        /\ raw' = [raw EXCEPT ![s] = k]
        /\ link' = [link EXCEPT ![k] = "open"]
  BY DEF DialOk
<1>q. /\ at[s] = "dial" /\ GoTo(s, "handshake")
      /\ UNCHANGED <<tries, delivered, fruitless, conn, broken, slots, ping, ctxDone>>
  BY DEF DialOk
<1>f. k # NoSocket /\ ping[k] = "off" /\ \A t \in Subs : k # conn[t] /\ k # raw[t]
  BY <1>p, SubscriptionAssumption DEF Free
<1>r. raw'[s] = k /\ \A t \in Subs \ {s} : raw'[t] = raw[t]
  BY <1>0, <1>p DEF TypeOK
<1>1. SlotsAreOpens'
  BY <1>0, <1>q, MoveKeepsOpens DEF Opening
<1>2. TypeOK'
  BY <1>0, <1>p, <1>q DEF TypeOK, GoTo, Opening
<1>3. FruitlessBacksOff'
  BY <1>0, <1>q DEF FruitlessBacksOff
<1>4. PlaceInv'
  BY <1>0, <1>q, <1>f, <1>r DEF TypeOK, PlaceInv, GoTo
<1>5. OwnerInv'
  BY <1>0, <1>q, <1>f, <1>r DEF OwnerInv
<1>6. ASSUME NEW j \in Sockets, link'[j] # "closed" \/ ping'[j] = "on"
      PROVE  Owned(j)'
  <2>1. CASE j = k
    BY <1>r, <2>1 DEF Owned
  <2>2. CASE j # k
    <3>1. PICK t \in Subs : j \in {conn[t], raw[t]}
      BY <1>0, <1>p, <1>q, <1>6, <2>2 DEF TypeOK, SocketInv, Owned
    <3>2. raw[s] = NoSocket
      BY <1>0, <1>q DEF PlaceInv
    <3>3. j \in {conn'[t], raw'[t]}
      BY <1>q, <1>r, <3>1, <3>2, SubscriptionAssumption
    <3> QED
      BY <3>3 DEF Owned
  <2> QED
    BY <2>1, <2>2
<1>7. SocketInv'
  BY <1>0, <1>q, <1>f, <1>r, <1>6 DEF SocketInv
<1> QED
  BY <1>1, <1>2, <1>3, <1>4, <1>5, <1>7 DEF IInv

\* NewConn: the socket passes from the handshake to the connection, its ping loop
\* starts, and the slot is given back.
LEMMA HandshakeOkIInv ==
  ASSUME IInv, NEW s \in Subs, HandshakeOk(s)
  PROVE  IInv'
<1> USE DEF HandshakeOk, StartReading
<1>0. TypeOK /\ SlotsAreOpens /\ FruitlessBacksOff /\ PlaceInv /\ OwnerInv /\ SocketInv
  BY DEF IInv
<1>h. raw[s] \in Sockets /\ raw[s] # NoSocket /\ conn[s] = NoSocket
  BY <1>0 DEF TypeOK, PlaceInv
<1>r. /\ raw'[s] = NoSocket /\ conn'[s] = raw[s]
      /\ \A t \in Subs \ {s} : raw'[t] = raw[t] /\ conn'[t] = conn[t]
  BY <1>0 DEF TypeOK
<1>g. /\ ping'[raw[s]] = "on"
      /\ \A k \in Sockets \ {raw[s]} : ping'[k] = ping[k]
  BY <1>0, <1>h DEF TypeOK
<1>1. SlotsAreOpens' /\ slots' \in 0 .. MaxOpens
  BY <1>0, MoveEndsOpen DEF Opening
<1>2. TypeOK'
  <2>1. /\ conn' \in [Subs -> Sockets \cup {NoSocket}]
        /\ raw' \in [Subs -> Sockets \cup {NoSocket}]
        /\ broken' \in [Subs -> BOOLEAN]
        /\ ping' \in [Sockets -> {"off", "on", "stopping"}]
    BY <1>0, <1>h DEF TypeOK
  <2> QED
    BY <1>0, <1>1, <2>1 DEF TypeOK, GoTo
<1>3. FruitlessBacksOff'
  BY <1>0 DEF FruitlessBacksOff
<1>4. PlaceInv'
  BY <1>0, <1>h, <1>r DEF TypeOK, PlaceInv, GoTo
<1>5. OwnerInv'
  BY <1>0, <1>h, <1>r DEF OwnerInv
<1>6. \A k \in Sockets : Owned(k) => Owned(k)'
  BY <1>h, <1>r, SubscriptionAssumption DEF Owned
<1>7. Owned(raw[s])'
  BY <1>r DEF Owned
<1>8. SocketInv'
  <2>1. ASSUME NEW k \in Sockets, link'[k] # "closed" \/ ping'[k] = "on"
        PROVE  Owned(k)'
    BY <1>0, <1>g, <1>6, <1>7, <2>1 DEF SocketInv
  <2>2. ASSUME NEW t \in Subs, raw'[t] # NoSocket
        PROVE  ping'[raw'[t]] = "off"
    BY <1>0, <1>h, <1>r, <1>g, <2>2 DEF TypeOK, SocketInv, OwnerInv
  <2> QED
    BY <2>1, <2>2 DEF SocketInv
<1> QED
  BY <1>1, <1>2, <1>3, <1>4, <1>5, <1>8 DEF IInv

\* The handshake fails: its socket is closed, which has no ping loop yet, and the slot
\* is given back.
LEMMA HandshakeFailsIInv ==
  ASSUME IInv, NEW s \in Subs, HandshakeFails(s)
  PROVE  IInv'
<1> USE DEF HandshakeFails
<1>0. TypeOK /\ SlotsAreOpens /\ FruitlessBacksOff /\ PlaceInv /\ OwnerInv /\ SocketInv
  BY DEF IInv
<1>h. raw[s] \in Sockets /\ raw[s] # NoSocket /\ conn[s] = NoSocket /\ ping[raw[s]] = "off"
  BY <1>0 DEF TypeOK, PlaceInv, SocketInv
<1>r. raw'[s] = NoSocket /\ \A t \in Subs \ {s} : raw'[t] = raw[t]
  BY <1>0 DEF TypeOK
<1>1. SlotsAreOpens' /\ slots' \in 0 .. MaxOpens
  BY <1>0, MoveEndsOpen DEF Opening, Fruitless
<1>2. TypeOK'
  BY <1>0, <1>1, EndedCounts DEF TypeOK, GoTo
<1>3. FruitlessBacksOff'
  BY <1>0, EndedCounts
<1>4. PlaceInv'
  BY <1>0, <1>r DEF TypeOK, PlaceInv, GoTo, Fruitless
<1>5. OwnerInv'
  BY <1>0, <1>r DEF OwnerInv
<1>6. ASSUME NEW k \in Sockets, link'[k] # "closed" \/ ping'[k] = "on"
      PROVE  Owned(k)'
  <2>1. k # raw[s] /\ (link[k] # "closed" \/ ping[k] = "on")
    BY <1>0, <1>h, <1>6 DEF TypeOK
  <2>2. PICK t \in Subs : k \in {conn[t], raw[t]}
    BY <1>0, <2>1 DEF SocketInv, Owned
  <2>3. k \in {conn'[t], raw'[t]}
    BY <1>r, <2>1, <2>2
  <2> QED
    BY <2>3 DEF Owned
<1>7. SocketInv'
  BY <1>0, <1>r, <1>6 DEF SocketInv
<1> QED
  BY <1>1, <1>2, <1>3, <1>4, <1>5, <1>7 DEF IInv

-----------------------------------------------------------------------------
(* The ping loop, the network and the caller.                              *)

\* A ping loop ends, and a link fails, without the knowledge of Run: neither opens a
\* socket or starts a loop.
LEMMA SocketStepIInv ==
  ASSUME IInv, NEW k \in Sockets, PingStep(k) \/ LinkFails(k)
  PROVE  IInv'
<1>0. TypeOK /\ SlotsAreOpens /\ FruitlessBacksOff /\ PlaceInv /\ OwnerInv /\ SocketInv
  BY DEF IInv
<1>1. UNCHANGED <<runVars, connVars, slots, ctxDone>>
  BY DEF PingStep, PingFails, PingExit, LinkFails
<1>2. /\ link' \in [Sockets -> {"open", "dead", "closed"}]
      /\ ping' \in [Sockets -> {"off", "on", "stopping"}]
      /\ \A j \in Sockets : link'[j] # "closed" => link[j] # "closed"
      /\ \A j \in Sockets : ping'[j] = ping[j] \/ ping'[j] = "off"
  <2>1. CASE PingFails(k)
    BY <1>0, <2>1 DEF TypeOK, PingFails
  <2>2. CASE PingExit(k)
    BY <1>0, <2>2 DEF TypeOK, PingExit
  <2>3. CASE LinkFails(k)
    <3>1. PICK state \in {"dead", "closed"} : link' = [link EXCEPT ![k] = state]
      BY <2>3 DEF LinkFails
    <3> QED
      BY <1>0, <2>3, <3>1 DEF TypeOK, LinkFails
  <2> QED
    BY <2>1, <2>2, <2>3 DEF PingStep
<1> USE <1>1 DEF runVars, connVars
<1>3. TypeOK'
  BY <1>0, <1>2 DEF TypeOK
<1>4. SlotsAreOpens' /\ FruitlessBacksOff' /\ PlaceInv' /\ OwnerInv'
  BY <1>0 DEF SlotsAreOpens, FruitlessBacksOff, PlaceInv, OwnerInv
<1>5. SocketInv'
  <2>1. ASSUME NEW j \in Sockets, link'[j] # "closed" \/ ping'[j] = "on"
        PROVE  Owned(j)'
    BY <1>0, <1>2, <2>1 DEF SocketInv, Owned
  <2>2. ASSUME NEW s \in Subs, raw'[s] # NoSocket
        PROVE  ping'[raw'[s]] = "off"
    BY <1>0, <1>2, <2>2 DEF TypeOK, SocketInv
  <2> QED
    BY <2>1, <2>2 DEF SocketInv
<1> QED
  BY <1>3, <1>4, <1>5 DEF IInv

\* A context that is done changes nothing by itself.
LEMMA CancelIInv ==
  ASSUME IInv, NEW s \in Subs, Cancel(s)
  PROVE  IInv'
<1> USE DEF Cancel, runVars, connVars, sockVars
<1>0. TypeOK /\ SlotsAreOpens /\ FruitlessBacksOff /\ PlaceInv /\ OwnerInv /\ SocketInv
  BY DEF IInv
<1>1. TypeOK'
  BY <1>0 DEF TypeOK
<1>2. SlotsAreOpens' /\ FruitlessBacksOff' /\ PlaceInv'
  BY <1>0 DEF SlotsAreOpens, FruitlessBacksOff, PlaceInv
<1> QED
  BY <1>0, <1>1, <1>2, SocketsKept DEF IInv

\* A step that changes nothing keeps the invariant.
LEMMA StutterIInv ==
  ASSUME IInv, UNCHANGED vars
  PROVE  IInv'
<1> USE DEF vars, runVars, connVars, sockVars
<1>0. TypeOK /\ SlotsAreOpens /\ FruitlessBacksOff /\ PlaceInv /\ OwnerInv /\ SocketInv
  BY DEF IInv
<1>1. TypeOK'
  BY <1>0 DEF TypeOK
<1>2. SlotsAreOpens' /\ FruitlessBacksOff' /\ PlaceInv'
  BY <1>0 DEF SlotsAreOpens, FruitlessBacksOff, PlaceInv
<1> QED
  BY <1>0, <1>1, <1>2, SocketsKept DEF IInv

-----------------------------------------------------------------------------

\* Every step of a subscription, of its socket or of a link keeps the invariant.
LEMMA NextIInv == IInv /\ [Next]_vars => IInv'
<1> SUFFICES ASSUME IInv, [Next]_vars PROVE IInv'
  OBVIOUS
<1>1. ASSUME NEW s \in Subs, Interrupt(s) \/ Connect(s) \/ Acquire(s) \/ Cancelled(s)
      PROVE  IInv'
  <2>1. CASE Interrupt(s)
    BY <2>1, ReturnIInv DEF Interrupt
  <2>2. CASE Connect(s)
    BY <2>2, ResumeIInv, RedialIInv DEF Connect
  <2>3. CASE Cancelled(s)
    BY <2>3, ResumeCancelledIInv, RedialCancelledIInv DEF Cancelled
  <2> QED
    BY <1>1, <2>1, <2>2, <2>3, AcquireIInv
<1>2. ASSUME NEW s \in Subs, Open(s)
      PROVE  IInv'
  BY <1>2, RewriteOkIInv, RewriteFailsIInv, DialOkIInv, DialFailsIInv, HandshakeOkIInv,
     HandshakeFailsIInv DEF Open
<1>3. ASSUME NEW s \in Subs, Consume(s)
      PROVE  IInv'
  <2>1. ReadCancelled(s) \/ HandlerFails(s) => IInv'
    BY ReturnIInv DEF ReadCancelled, HandlerFails
  <2> QED
    BY <1>3, <2>1, ReadNextIInv, ReadEndIInv, ReadFailsIInv, HandledIInv DEF Consume
<1> QED
  BY <1>1, <1>2, <1>3, CancelIInv, SocketStepIInv, StutterIInv DEF Next

-----------------------------------------------------------------------------
(* The theorems.                                                           *)

\* The invariant holds throughout, whatever is cancelled, fails or is reset, and when.
THEOREM Inductive == Spec => []IInv
BY InitIInv, NextIInv, PTL DEF Spec

\* The variables keep their types: the counter of the limiter in particular never goes
\* below zero or above maxConcurrentSubscriptionOpens, whichever deferred release runs.
THEOREM TypeCorrect == Spec => []TypeOK
<1>1. IInv => TypeOK
  BY DEF IInv
<1> QED
  BY <1>1, Inductive, PTL

\* Every path of an open gives back the slot it took, once: those taken are exactly those
\* of the opens in progress.
THEOREM SlotsExact == Spec => []SlotsAreOpens
<1>1. IInv => SlotsAreOpens
  BY DEF IInv
<1> QED
  BY <1>1, Inductive, PTL

\* What the limiter is for: it "bounds how many subscriptions may be initializing at once
\* across every subscription type".
OpensBounded == Cardinality(Opens) <= MaxOpens

\* The limiter keeps its bound through every fallback, failure and cancellation.
THEOREM OpensAreBounded == Spec => []OpensBounded
<1>1. IInv => OpensBounded
  BY SubscriptionAssumption DEF IInv, TypeOK, SlotsAreOpens, OpensBounded, Opens
<1> QED
  BY <1>1, Inductive, PTL

\* Every socket that is open, or pinged, can still be closed by the subscription whose
\* connection or handshake it is, which has not returned.
THEOREM SocketsDoNotLeak == Spec => []NoSocketLeaks
<1>1. ASSUME IInv PROVE NoSocketLeaks
  <2> SUFFICES ASSUME NEW k \in Sockets, link[k] # "closed" \/ ping[k] = "on"
      PROVE  \E s \in Subs : at[s] # "returned" /\ k \in {conn[s], raw[s]}
    BY DEF NoSocketLeaks
  <2>1. PICK s \in Subs : k \in {conn[s], raw[s]}
    BY <1>1 DEF IInv, SocketInv, Owned
  <2>2. at[s] # "returned"
    BY <1>1, <2>1, SubscriptionAssumption DEF IInv, PlaceInv
  <2> QED
    BY <2>1, <2>2
<1> QED
  BY <1>1, Inductive, PTL

\* A Subscription owns one socket at a time: a handshake has no connection beside it, a
\* stream that is read has one, which is never nil, and no two subscriptions share a
\* socket, so that to close one never closes the stream of another.
THEOREM SocketsHaveOneOwner == Spec => [](PlaceInv /\ OwnerInv)
<1>1. IInv => PlaceInv /\ OwnerInv
  BY DEF IInv
<1> QED
  BY <1>1, Inductive, PTL

\* The delay before an attempt depends on how many in a row delivered nothing, the opens
\* that failed and the streams that ended empty alike.
THEOREM BackoffCountsFruitless == Spec => []FruitlessBacksOff
<1>1. IInv => FruitlessBacksOff
  BY DEF IInv
<1> QED
  BY <1>1, Inductive, PTL

=============================================================================
