---------------------------- MODULE Subscription ----------------------------
(***************************************************************************)
(* subscribe.Subscription and subscribe.Conn                               *)
(* (src/internal/railway/subscribe/helpers.go), and the dial               *)
(* (src/internal/railway/subscribe.go): every subscription owns one socket *)
(* at a time, reads it, and re-establishes its stream when it ends, over   *)
(* the same socket if it still seems usable and by redialing otherwise.    *)
(* A limiter shared by all of them bounds the opens in progress, and each  *)
(* socket has a ping loop that closes it when the peer is gone.            *)
(*                                                                         *)
(* A link is "open", "dead" when the peer has vanished without a word      *)
(* (writes are swallowed, reads block), or "closed".  What a message says  *)
(* is left to the handler (modules LogCursor and HttpLogs).                *)
(***************************************************************************)
EXTENDS Integers, FiniteSets

CONSTANTS
  Subs,       \* the subscriptions
  Sockets,    \* bound: identities of sockets, reused once a socket is gone
  NoSocket,   \* nil
  MaxOpens,   \* maxConcurrentSubscriptionOpens
  MaxTries    \* bound: the attempt counter of RetryBackoff stops here

ASSUME SubscriptionAssumption ==
  /\ IsFiniteSet(Subs)
  /\ NoSocket \notin Sockets
  /\ MaxOpens \in Nat \ {0}
  /\ MaxTries \in Nat

VARIABLES
  at,         \* at[s]: where Run stands
  tries,      \* tries[s]: the loop counter of RetryBackoff
  delivered,  \* delivered[s]: this stream has delivered a message
  conn,       \* conn[s]: s.conn
  broken,     \* broken[s]: s.conn.broken
  raw,        \* raw[s]: the socket whose handshake is in progress
  slots,      \* slots taken in subscriptionOpenLimiter
  link,       \* link[k]: the state of socket k
  ping,       \* ping[k]: the ping loop of socket k; "stopping" once stopPing was called
  ctxDone,    \* ctxDone[s]: the context of Run is done
  fruitless   \* fruitless[s]: attempts in a row that delivered nothing

runVars  == <<at, tries, delivered, fruitless>>
connVars == <<conn, broken, raw>>
sockVars == <<link, ping>>
vars == <<runVars, connVars, slots, sockVars, ctxDone>>

Waiting == {"reslot", "dialslot"}
Opening == {"rewrite", "dial", "handshake"}

TypeOK ==
  /\ at \in [Subs -> {"wait", "reading", "handling", "returned"} \cup Waiting \cup Opening]
  /\ tries \in [Subs -> 0 .. MaxTries]
  /\ delivered \in [Subs -> BOOLEAN]
  /\ conn \in [Subs -> Sockets \cup {NoSocket}]
  /\ broken \in [Subs -> BOOLEAN]
  /\ raw \in [Subs -> Sockets \cup {NoSocket}]
  /\ slots \in 0 .. MaxOpens
  /\ link \in [Sockets -> {"open", "dead", "closed"}]
  /\ ping \in [Sockets -> {"off", "on", "stopping"}]
  /\ ctxDone \in [Subs -> BOOLEAN]
  /\ fruitless \in [Subs -> 0 .. MaxTries]

Init ==
  /\ at = [s \in Subs |-> "wait"]
  /\ tries = [s \in Subs |-> 0]
  /\ delivered = [s \in Subs |-> FALSE]
  /\ conn = [s \in Subs |-> NoSocket]
  /\ broken = [s \in Subs |-> FALSE]
  /\ raw = [s \in Subs |-> NoSocket]
  /\ slots = 0
  /\ link = [k \in Sockets |-> "closed"]
  /\ ping = [k \in Sockets |-> "off"]
  /\ ctxDone = [s \in Subs |-> FALSE]
  /\ fruitless = [s \in Subs |-> 0]

-----------------------------------------------------------------------------
(* Helpers.                                                                *)

GoTo(s, place) == at' = [at EXCEPT ![s] = place]

Free(k) ==
  /\ link[k] = "closed" /\ ping[k] = "off"
  /\ \A s \in Subs : k \notin {conn[s], raw[s]}

Reusable(s) == conn[s] # NoSocket /\ ~broken[s]

Up(n) == IF n < MaxTries THEN n + 1 ELSE n

\* CloseNow, and the nil that follows it; nothing to do for a nil connection.
CloseConn(s) ==
  /\ link' = [k \in Sockets |-> IF k = conn[s] THEN "closed" ELSE link[k]]
  /\ ping' = [k \in Sockets |->
                IF k = conn[s] /\ ping[k] = "on" THEN "stopping" ELSE ping[k]]
  /\ conn' = [conn EXCEPT ![s] = NoSocket]
  /\ broken' = [broken EXCEPT ![s] = FALSE]
  /\ UNCHANGED raw

\* The attempt has ended without a message: RetryBackoff retries it.
Fruitless(s) ==
  /\ GoTo(s, "wait")
  /\ tries' = [tries EXCEPT ![s] = Up(@)]
  /\ fruitless' = [fruitless EXCEPT ![s] = Up(@)]
  /\ UNCHANGED delivered

\* Mistake: a stream that ends is a success, whatever it has delivered.
EndedWell(s) ==
  /\ GoTo(s, "wait")
  /\ tries' = [tries EXCEPT ![s] = 0]
  /\ fruitless' = [fruitless EXCEPT ![s] = IF delivered[s] THEN 0 ELSE Up(@)]
  /\ UNCHANGED delivered

\* The stream has ended: a productive one makes RetryBackoff return, and Run
\* start it anew.
Ended(s) ==
  \/ ~delivered[s] /\ Fruitless(s)
  \/ /\ delivered[s]
     /\ GoTo(s, "wait")
     /\ tries' = [tries EXCEPT ![s] = 0]
     /\ fruitless' = [fruitless EXCEPT ![s] = 0]
     /\ UNCHANGED delivered

\* Run returns, and the deferred Close of its caller runs.
Return(s) ==
  /\ GoTo(s, "returned")
  /\ CloseConn(s)
  /\ UNCHANGED <<tries, delivered, fruitless, slots, ctxDone>>

StartReading(s) ==
  /\ GoTo(s, "reading")
  /\ delivered' = [delivered EXCEPT ![s] = FALSE]
  /\ UNCHANGED <<tries, fruitless>>

-----------------------------------------------------------------------------
(* RetryBackoff and connect.                                               *)

\* Mistake: the backoff does not look at the context.
InterruptIgnored(s) ==
  /\ at[s] = "wait" /\ ctxDone[s]
  /\ UNCHANGED vars

Interrupt(s) ==
  /\ at[s] = "wait" /\ ctxDone[s]
  /\ Return(s)

Resume(s) ==
  /\ at[s] = "wait" /\ Reusable(s)
  /\ GoTo(s, "reslot")
  /\ UNCHANGED <<tries, delivered, fruitless, connVars, slots, sockVars, ctxDone>>

Redial(s) ==
  /\ at[s] = "wait" /\ ~Reusable(s)
  /\ GoTo(s, "dialslot")
  /\ CloseConn(s)
  /\ UNCHANGED <<tries, delivered, fruitless, slots, ctxDone>>

\* AcquireOpenSlot.
Acquire(s) ==
  /\ at[s] \in Waiting
  /\ slots < MaxOpens
  /\ slots' = slots + 1
  /\ GoTo(s, IF at[s] = "reslot" THEN "rewrite" ELSE "dial")
  /\ UNCHANGED <<tries, delivered, fruitless, connVars, sockVars, ctxDone>>

\* It returns the context's error: the reuse falls back to a redial, and the
\* redial fails.
ResumeCancelled(s) ==
  /\ at[s] = "reslot" /\ ctxDone[s]
  /\ GoTo(s, "dialslot")
  /\ CloseConn(s)
  /\ UNCHANGED <<tries, delivered, fruitless, slots, ctxDone>>

RedialCancelled(s) ==
  /\ at[s] = "dialslot" /\ ctxDone[s]
  /\ Fruitless(s)
  /\ UNCHANGED <<connVars, slots, sockVars, ctxDone>>

Release == slots' = slots - 1

\* A write to a dead link may be swallowed by the kernel; or it blocks.
RewriteOk(s) ==
  /\ at[s] = "rewrite"
  /\ link[conn[s]] # "closed"
  /\ StartReading(s)
  /\ Release
  /\ UNCHANGED <<connVars, sockVars, ctxDone>>

\* Mistakes: the slot is kept for the redial, which takes another; the old socket
\* is forgotten, not closed.
RewriteFailsKeepsSlot(s) ==
  /\ at[s] = "rewrite"
  /\ link[conn[s]] = "closed" \/ ctxDone[s]
  /\ GoTo(s, "dialslot")
  /\ CloseConn(s)
  /\ UNCHANGED <<tries, delivered, fruitless, slots, ctxDone>>

RewriteFailsForgets(s) ==
  /\ at[s] = "rewrite"
  /\ link[conn[s]] = "closed" \/ ctxDone[s]
  /\ GoTo(s, "dialslot")
  /\ conn' = [conn EXCEPT ![s] = NoSocket]
  /\ Release
  /\ UNCHANGED <<tries, delivered, fruitless, broken, raw, sockVars, ctxDone>>

RewriteFails(s) ==
  /\ at[s] = "rewrite"
  /\ link[conn[s]] = "closed" \/ ctxDone[s]
  /\ GoTo(s, "dialslot")
  /\ CloseConn(s)
  /\ Release
  /\ UNCHANGED <<tries, delivered, fruitless, ctxDone>>

-----------------------------------------------------------------------------
(* CreateWebSocketSubscription, with the slot taken.                       *)

DialOk(s) ==
  /\ at[s] = "dial"
  /\ \E k \in Sockets :
       /\ Free(k)
       /\ raw' = [raw EXCEPT ![s] = k]
       /\ link' = [link EXCEPT ![k] = "open"]
  /\ GoTo(s, "handshake")
  /\ UNCHANGED <<tries, delivered, fruitless, conn, broken, slots, ping, ctxDone>>

DialFails(s) ==
  /\ at[s] = "dial"
  /\ Fruitless(s)
  /\ Release
  /\ UNCHANGED <<connVars, sockVars, ctxDone>>

\* The init and the subscribe are written and the ack is read: NewConn.
HandshakeOk(s) ==
  /\ at[s] = "handshake"
  /\ link[raw[s]] # "closed"
  /\ conn' = [conn EXCEPT ![s] = raw[s]]
  /\ raw' = [raw EXCEPT ![s] = NoSocket]
  /\ broken' = [broken EXCEPT ![s] = FALSE]
  /\ ping' = [ping EXCEPT ![raw[s]] = "on"]
  /\ StartReading(s)
  /\ Release
  /\ UNCHANGED <<link, ctxDone>>

\* An error, a wrong ack, or ten seconds have passed.
HandshakeFails(s) ==
  /\ at[s] = "handshake"
  /\ link' = [link EXCEPT ![raw[s]] = "closed"]
  /\ raw' = [raw EXCEPT ![s] = NoSocket]
  /\ Fruitless(s)
  /\ Release
  /\ UNCHANGED <<conn, broken, ping, ctxDone>>

-----------------------------------------------------------------------------
(* consume.                                                                *)

ReadNext(s) ==
  /\ at[s] = "reading" /\ link[conn[s]] = "open"
  /\ delivered' = [delivered EXCEPT ![s] = TRUE]
  /\ GoTo(s, "handling")
  /\ UNCHANGED <<tries, fruitless, connVars, slots, sockVars, ctxDone>>

\* A message that is not a "next": the stream is complete, the socket usable.
ReadEnd(s) ==
  /\ at[s] = "reading" /\ link[conn[s]] = "open"
  /\ Ended(s)
  /\ UNCHANGED <<connVars, slots, sockVars, ctxDone>>

ReadFails(s) ==
  /\ at[s] = "reading" /\ link[conn[s]] = "closed" /\ ~ctxDone[s]
  /\ broken' = [broken EXCEPT ![s] = TRUE]
  /\ Ended(s)
  /\ UNCHANGED <<conn, raw, slots, sockVars, ctxDone>>

ReadCancelled(s) ==
  /\ at[s] = "reading" /\ ctxDone[s]
  /\ Return(s)

\* onNext returns nil, or an error.
Handled(s) ==
  /\ at[s] = "handling"
  /\ GoTo(s, "reading")
  /\ UNCHANGED <<tries, delivered, fruitless, connVars, slots, sockVars, ctxDone>>

HandlerFails(s) ==
  /\ at[s] = "handling"
  /\ Return(s)

-----------------------------------------------------------------------------
(* pingLoop, and the network.                                              *)

\* Mistake: the ping loop ends and leaves the socket as it is.
PingFailsQuietly(k) ==
  /\ ping[k] = "on"
  /\ ping' = [ping EXCEPT ![k] = "off"]
  /\ UNCHANGED <<runVars, connVars, slots, link, ctxDone>>

\* Ten seconds without a pong: the websocket is closed, and the Conn is not told.
\* A ping that succeeds changes nothing.
PingFails(k) ==
  /\ ping[k] = "on"
  /\ link' = [link EXCEPT ![k] = "closed"]
  /\ ping' = [ping EXCEPT ![k] = "off"]
  /\ UNCHANGED <<runVars, connVars, slots, ctxDone>>

\* The loop notices that it was stopped, asleep or in the middle of a ping.
PingExit(k) ==
  /\ ping[k] = "stopping"
  /\ ping' = [ping EXCEPT ![k] = "off"]
  /\ UNCHANGED <<runVars, connVars, slots, link, ctxDone>>

PingStep(k) == PingFails(k) \/ PingExit(k)

\* The pong is seen only while somebody reads the socket.
Answered(k) == link[k] = "open" /\ \E s \in Subs : conn[s] = k /\ at[s] = "reading"

\* The peer vanishes, or the link is reset.
LinkFails(k) ==
  /\ link[k] # "closed"
  /\ \E state \in {"dead", "closed"} :
       link[k] # state /\ link' = [link EXCEPT ![k] = state]
  /\ UNCHANGED <<runVars, connVars, slots, ping, ctxDone>>

Cancel(s) ==
  /\ ~ctxDone[s] /\ at[s] # "returned"
  /\ ctxDone' = [ctxDone EXCEPT ![s] = TRUE]
  /\ UNCHANGED <<runVars, connVars, slots, sockVars>>

-----------------------------------------------------------------------------
Connect(s)   == Resume(s) \/ Redial(s)
Cancelled(s) == ResumeCancelled(s) \/ RedialCancelled(s)
Open(s)      == RewriteOk(s) \/ RewriteFails(s) \/ DialOk(s) \/ DialFails(s)
                \/ HandshakeOk(s) \/ HandshakeFails(s)
Consume(s)   == ReadNext(s) \/ ReadEnd(s) \/ ReadFails(s) \/ ReadCancelled(s)
                \/ Handled(s) \/ HandlerFails(s)

Next ==
  \/ \E s \in Subs :
       Interrupt(s) \/ Connect(s) \/ Acquire(s) \/ Cancelled(s) \/ Open(s) \/ Consume(s) \/ Cancel(s)
  \/ \E k \in Sockets : PingStep(k) \/ LinkFails(k)

Spec == Init /\ [][Next]_vars

\* A write to a dead link need not end.
OpenEnds(s) == Open(s) /\ (RewriteOk(s) => link[conn[s]] = "open")

RunStep(s) == Connect(s) \/ OpenEnds(s) \/ ReadFails(s) \/ Handled(s) \/ HandlerFails(s)

\* Timers fire; an open ends, as the handshake has a timeout; a read of a closed
\* socket fails; a handler returns.  The senders that wait on the limiter's
\* channel are served in turn.  A context that is done wins over a backoff timer,
\* which lasts half a second at least, and over the messages that keep coming, as
\* the websocket is closed under the read.  Nothing makes the backend send a
\* message or end a stream.
Fairness ==
  /\ \A s \in Subs :
       /\ WF_vars(RunStep(s))
       /\ SF_vars(Acquire(s))
       /\ SF_vars(ReadCancelled(s) \/ Interrupt(s))
  /\ \A k \in Sockets : WF_vars(PingStep(k) /\ ~Answered(k))

FairSpec == Spec /\ Fairness

-----------------------------------------------------------------------------
(* Safety.                                                                 *)

\* The slots taken are those of the opens in progress: none leaks on any path of
\* an open that fails, falls back or is cancelled, and an established stream
\* holds none.
SlotsAreOpens == slots = Cardinality({s \in Subs : at[s] \in Opening})

\* No socket leaks: one that is not closed, or whose ping loop has not been
\* stopped, is the current connection of a subscription that has not returned.
NoSocketLeaks ==
  \A k \in Sockets :
    link[k] # "closed" \/ ping[k] = "on" =>
      \E s \in Subs : at[s] # "returned" /\ k \in {conn[s], raw[s]}

\* "consecutive streams that end without delivering anything grow the delay": the
\* attempt counter, which sets the delay, counts them all, failed opens included.
FruitlessBacksOff == \A s \in Subs : tries[s] = fruitless[s]

-----------------------------------------------------------------------------
(* Liveness.                                                               *)

\* Every opener gets its slot, or gives up.
OpenersAreServed == \A s \in Subs : at[s] \in Waiting ~> at[s] \notin Waiting

\* A subscription does not read a dead link for ever.
DeadLinkIsLeft ==
  \A s \in Subs :
    (at[s] = "reading" /\ link[conn[s]] = "dead") ~> at[s] # "reading"

\* Run returns when its context is done, wherever it stands: in a backoff, waiting
\* for a slot, opening, reading a link that is dead or one that is never silent.
CancelReturns ==
  \A s \in Subs : ctxDone[s] ~> at[s] = "returned"
=============================================================================
