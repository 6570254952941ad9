---------------------------- MODULE ResponseTime ----------------------------
(***************************************************************************)
(* How long the facilitator keeps a client waiting, from the arrival of a  *)
(* request to its answer: Facilitator with the seconds each request spends *)
(* on calls to the API, which the timeout of the HTTP client bounds, and   *)
(* on the delays of its loop.  Computing takes no time.                    *)
(***************************************************************************)
EXTENDS Facilitator

CONSTANTS
  SettleRetryDelay,  \* DefaultSettleRetryDelay, in seconds
  VerifyRetryDelay,  \* DefaultVerifyRetryDelay, in seconds
  HTTPTimeout        \* HTTPClientTimeout, in seconds

ASSUME TimeAssumption ==
  SettleRetryDelay \in Nat /\ VerifyRetryDelay \in Nat /\ HTTPTimeout \in Nat

VARIABLE spent  \* history: the seconds r has spent

timedVars == <<vars, spent>>

TimedInit == Init /\ spent = [r \in Request |-> 0]

RetryDelayOf(c) == IF IsSettle(c) THEN SettleRetryDelay ELSE VerifyRetryDelay

\* A step of r that takes one of the times in span.
Taking(r, span) == \E d \in span : spent' = [spent EXCEPT ![r] = @ + d]

\* A POST or a GET, whatever comes of it.
CallsNode(r) ==
  \/ BroadcastAcked(r)
  \/ BroadcastLost(r)
  \/ BroadcastRefused(r)
  \/ PollFails(r)
  \/ PollSees(r)
  \/ FinalFails(r)
  \/ FinalSees(r)

TimedNext ==
  \/ \E r \in Request :
       \/ CallsNode(r) /\ Taking(r, 0 .. HTTPTimeout)
       \/ Wake(r) /\ Taking(r, {RetryDelayOf(cmd[r])})
       \/ SleepCancelled(r) /\ Taking(r, 0 .. RetryDelayOf(cmd[r]))
       \/ /\ (\E c \in Command : Receive(r, c)) \/ Complete(r) \/ Disconnect(r)
          /\ UNCHANGED spent
  \/ (Crash \/ Environment) /\ UNCHANGED spent

TimedSpec == TimedInit /\ [][TimedNext]_timedVars

-----------------------------------------------------------------------------
\* The longest time a request with command c can take.
LongestTime(c) ==
  IF IsSettle(c)
  THEN SettleMaxRetries * (HTTPTimeout + SettleRetryDelay) + 2 * HTTPTimeout
  ELSE IF c.op = "verifyV1"
  THEN VerifyMaxRetries * (HTTPTimeout + VerifyRetryDelay)
  ELSE 0

\* Every answer comes within a time known beforehand, which no field of the
\* request changes: a settlement makes two calls besides those of its rounds,
\* the broadcast and the last fetch.  A resource server that allows less
\* (maxTimeoutSeconds, which the handlers copy and do not read) may be kept
\* waiting longer than it allows, and one that allows as much is not, however
\* slow the API is.  (HTTPClientTimeout and the loops of StacksClientAdapter.)
AnsweredInTime == \A r \in Request : spent[r] <= LongestTime(cmd[r])

\* A connected client whose settlement leaves its payment open, or whose v1
\* verification could not fetch it, was kept waiting for all the delays of the
\* loop, however fast the API answered or failed: the payment had that much
\* time to be mined, or to become known.  A v1 verification that fetches a
\* pending payment answers without a delay, and is not meant.  (The select on
\* time.After in both loops.)
GivesTimeToMine ==
  \A r \in Request :
    pc[r] = "done" /\ live[r] /\ GaveUp(r) =>
      spent[r] >= MaxRetriesOf(cmd[r]) * RetryDelayOf(cmd[r])
=============================================================================
