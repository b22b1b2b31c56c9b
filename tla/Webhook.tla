------------------------------ MODULE Webhook ------------------------------
(***************************************************************************)
(* SendRawWebhook (internal/webhook): one request with a payload, and the  *)
(* receiver behind it.                                                     *)
(***************************************************************************)
EXTENDS Integers

CONSTANT Payloads
VARIABLE arrived   \* arrived[i]: how often the receiver has taken payload i

\* Nothing comes back from a request that fails, times out or is cancelled.
NoResponse == 0
StatusCodes == {200, 201, 202, 204, 206, 302, 503}
AcceptedStatusCodes == {200, 204, 202, 201}

Init == arrived = [i \in Payloads |-> 0]

\* A receiver that has taken the payload says so with an accepted status, if its answer
\* comes through.
Answer(code, took) ==
  \/ code \in AcceptedStatusCodes /\ took
  \/ code \in StatusCodes \ AcceptedStatusCodes /\ ~took
  \/ code = NoResponse

\* Mistake: whatever is not an error of the request is a success.
AnySuccess(code) == code # NoResponse

Success(code) == code \in AcceptedStatusCodes

\* A request is made if its context is live, and ok if there is a response whose
\* status is accepted; a redirect is not followed.
SendRawWebhook(i, live, ok) ==
  \E code \in StatusCodes \cup {NoResponse}, took \in BOOLEAN :
    /\ Answer(code, took)
    /\ ~live => code = NoResponse /\ ~took
    /\ ok = Success(code)
    /\ arrived' = IF took THEN [arrived EXCEPT ![i] = @ + 1] ELSE arrived
=============================================================================
