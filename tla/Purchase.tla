------------------------------- MODULE Purchase -------------------------------
(***************************************************************************)
(* A client that makes one purchase and may sign several transactions for  *)
(* it, one after the other: it sends a transaction again whenever it likes *)
(* (it lost an answer, or the answer left the payment open), and signs a   *)
(* new one only when the answers say that the others can no longer pay.    *)
(* The client is external to the facilitator: what it does is what the     *)
(* answers entitle it to.  Nobody else submits its transactions.           *)
(***************************************************************************)
EXTENDS FacilitatorContract, FiniteSets

Outcome(r) == ToldTo(r)

About(t) == {r \in Request : cmd[r] # NoCommand /\ cmd[r].signed = t}

\* The answers exclude that t pays: it failed, or nobody was handed it.
CannotPay(t) ==
  \/ \E r \in About(t) : Outcome(r) = "failed"
  \/ \A r \in About(t) : IsSettle(cmd[r]) => Outcome(r) = "refused"

MaySend(c) == \A t \in Tx \ {c.signed} : CannotPay(t)

Send(r, c) == MaySend(c) /\ Receive(r, c)

ChainMoves ==
  /\ \E t \in Tx : ChainStep(t)
  /\ UNCHANGED <<pc, answer, localVars>>

PurchaseNext ==
  \/ \E r \in Request :
       \/ \E c \in Command : Send(r, c)
       \/ HandlerStep(r)
       \/ Disconnect(r)
  \/ Crash
  \/ ChainMoves

PurchaseSpec == Init /\ [][PurchaseNext]_vars

-----------------------------------------------------------------------------
\* A client that pays again only when the facilitator has told it that the
\* first transaction failed, or was never broadcast, pays once, however many
\* answers it lost, requests it repeats and handlers work on them at once:
\* no answer takes a payment for dead that may still be mined.
PaidOnce == ~Reorgs => Cardinality(wasConfirmed) <= 1
=============================================================================
