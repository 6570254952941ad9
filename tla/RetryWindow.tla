----------------------------- MODULE RetryWindow ----------------------------
(***************************************************************************)
(* The polling loops of the blockchain adapter with their clock: how long  *)
(* a request may keep its client waiting once the loop has started.  A     *)
(* fetch takes any time up to the timeout of the HTTP client; the delay    *)
(* follows every fetch that does not end the loop.  What a fetch returns   *)
(* is a free choice here: Facilitator decides it.                          *)
(***************************************************************************)
EXTENDS Naturals

CONSTANTS
  MaxRetries,   \* maxRetries of the loop
  RetryDelay,   \* retryDelay, in seconds
  HTTPTimeout,  \* HTTPClientTimeout, in seconds
  Loop          \* "WaitForConfirmation" or "GetTransactionWithRetry"

ASSUME RetryWindowAssumption ==
  /\ MaxRetries \in Nat
  /\ RetryDelay \in Nat
  /\ HTTPTimeout \in Nat
  /\ Loop \in {"WaitForConfirmation", "GetTransactionWithRetry"}

VARIABLES
  at,       \* where the loop is
  i,        \* its counter
  elapsed,  \* the seconds since it started
  cause     \* why it returned

vars == <<at, i, elapsed, cause>>

\* Mutants: a round too few, and one too many.
LoopHead_OneShort(n) ==
  IF n + 1 < MaxRetries THEN "fetching"
  ELSE IF Loop = "WaitForConfirmation" THEN "final" ELSE "returned"

LoopHead_OneMore(n) ==
  IF n <= MaxRetries THEN "fetching"
  ELSE IF Loop = "WaitForConfirmation" THEN "final" ELSE "returned"

LoopHead(n) ==
  IF n < MaxRetries THEN "fetching"
  ELSE IF Loop = "WaitForConfirmation" THEN "final" ELSE "returned"

CauseAt(n) == IF LoopHead(n) = "returned" THEN "lastError" ELSE "none"

Init ==
  /\ at = LoopHead(0)
  /\ i = 0
  /\ elapsed = 0
  /\ cause = CauseAt(0)

FetchTime == 0 .. HTTPTimeout

Return(why) == at' = "returned" /\ cause' = why

\* A fetch takes d seconds and ends the loop: it found what is waited for.
FetchEnds(d) ==
  /\ at = "fetching"
  /\ elapsed' = elapsed + d
  /\ Return("found")
  /\ UNCHANGED i

\* It does not: an error, or for WaitForConfirmation a pending transaction.
FetchGoesOn(d) ==
  /\ at = "fetching"
  /\ elapsed' = elapsed + d
  /\ at' = "sleeping"
  /\ UNCHANGED <<i, cause>>

\* The whole delay passes, after the last round as after the others.
Sleep ==
  /\ at = "sleeping"
  /\ elapsed' = elapsed + RetryDelay
  /\ i' = i + 1
  /\ at' = LoopHead(i + 1)
  /\ cause' = CauseAt(i + 1)

\* The context is cancelled d seconds into the delay.
SleepCancelled(d) ==
  /\ at = "sleeping"
  /\ elapsed' = elapsed + d
  /\ Return("cancelled")
  /\ UNCHANGED i

\* The fetch after the loop of WaitForConfirmation.
FetchFinal(d) ==
  /\ at = "final"
  /\ elapsed' = elapsed + d
  /\ Return("finalFetch")
  /\ UNCHANGED i

Next ==
  \/ \E d \in FetchTime : FetchEnds(d) \/ FetchGoesOn(d) \/ FetchFinal(d)
  \/ Sleep
  \/ \E d \in 0 .. RetryDelay : SleepCancelled(d)

Spec == Init /\ [][Next]_vars

-----------------------------------------------------------------------------
TypeOK ==
  /\ at \in {"fetching", "sleeping", "final", "returned"}
  /\ i \in 0 .. MaxRetries
  /\ elapsed \in Nat
  /\ cause \in {"none", "found", "lastError", "cancelled", "finalFetch"}

Round == HTTPTimeout + RetryDelay

\* The time n rounds take at most, and the time they take at least.
Rounds(n) == n * Round
Delays(n) == n * RetryDelay

\* The loop is over after MaxRetries rounds of a slow fetch and a delay, and
\* the fetch that WaitForConfirmation adds: the longest a client can wait.
WindowBound ==
  \/ elapsed <= Rounds(MaxRetries)
  \/ /\ Loop = "WaitForConfirmation"
     /\ elapsed <= Rounds(MaxRetries) + HTTPTimeout

\* The loop gives up, leaving the payment unconfirmed or unknown, only after
\* all its delays, whatever the time the fetches took.
GivesUpAfterDelays ==
  cause \in {"lastError", "finalFetch"} => elapsed >= Delays(MaxRetries)

\* "Settle retry defaults: 25 retries x 3s = 75s window."
\* (settle_payment.go:13): the loop returns within that window.
ReturnsWithinWindow == elapsed <= Delays(MaxRetries)
=============================================================================
