---------------------------- MODULE PollingWindow ----------------------------
(***************************************************************************)
(* The polling of the facilitator's requests is the polling RetryWindow    *)
(* describes: one instance of it per request and loop, counting each fetch *)
(* and each delay as one.  What RetryWindow promises of a loop on its own  *)
(* so holds of it among the other requests, the networks, clients that     *)
(* leave and a process that stops.                                         *)
(***************************************************************************)
EXTENDS Facilitator

\* The loop of r, if it runs that loop; otherwise a loop that never starts.
Runs(r, settle) == cmd[r] # NoCommand /\ IsSettle(cmd[r]) = settle

Rounds(settle) == IF settle THEN SettleMaxRetries ELSE VerifyMaxRetries

Counter(r, settle) == IF Runs(r, settle) THEN attempt[r] ELSE 0
Fetches(r, settle) == IF Runs(r, settle) THEN fetches[r] ELSE 0

HasReturned(r, settle) ==
  /\ Fetches(r, settle) > 0
  /\ got[r] # NoTx \/ pc[r] = "done"

\* Where the loop is can be told from what it has counted: a process that
\* stops leaves it there.
PositionOf(r, settle) ==
  IF HasReturned(r, settle) THEN "returned"
  ELSE IF Fetches(r, settle) > Counter(r, settle) THEN "sleeping"
  ELSE IF Counter(r, settle) < Rounds(settle) THEN "fetching"
  ELSE "final"

CauseOf(r, settle) ==
  LET last == Counter(r, settle) = Rounds(settle)
  IN  IF ~HasReturned(r, settle) THEN "none"
      ELSE IF last THEN IF settle THEN "finalFetch" ELSE "lastError"
      ELSE IF got[r] # NoTx THEN "found"
      ELSE "cancelled"

Window(r, settle) ==
  INSTANCE RetryWindow WITH
    MaxRetries  <- Rounds(settle),
    RetryDelay  <- 1,
    HTTPTimeout <- 1,
    Loop        <- IF settle THEN "WaitForConfirmation"
                   ELSE "GetTransactionWithRetry",
    at          <- PositionOf(r, settle),
    i           <- Counter(r, settle),
    elapsed     <- Fetches(r, settle) + Counter(r, settle),
    cause       <- CauseOf(r, settle)

WindowsInit ==
  \A r \in Request, settle \in BOOLEAN : Window(r, settle)!Init

WindowsNext ==
  \A r \in Request, settle \in BOOLEAN :
    Window(r, settle)!Next \/ UNCHANGED Window(r, settle)!vars

\* Every request runs its loop as the adapter writes it: settlements that of
\* WaitForConfirmation with its last fetch, v1 verifications that of
\* GetTransactionWithRetry, each with its own number of rounds, however the
\* requests interleave and whatever interrupts them.
PollsAsTheAdapter == WindowsInit /\ [][WindowsNext]_vars
=============================================================================
