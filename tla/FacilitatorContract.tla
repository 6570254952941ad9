------------------------- MODULE FacilitatorContract -------------------------
(***************************************************************************)
(* The facilitator keeps the settlement contract: the refinement mapping   *)
(* reads the outcome a client is told off the HTTP response.               *)
(***************************************************************************)
EXTENDS Facilitator

Terms(c) ==
  LET w == Wire[c.signed]
  IN  /\ w.network = NetworkOf(c)
      /\ WireRecipient(w) = c.recipient
      /\ WireAmount(w) >= c.amount
      /\ IsV1(c) /\ c.sender \in Address => w.sender = c.sender
      /\ c.op = "verifyV1" /\ c.memo # Absent => WireMemo(w) = c.memo

SettlingCommand  == {c \in Command : IsSettle(c)}
CheckingCommand  == {c \in Command : c.op = "verifyV2"}
SatisfiedCommand == {c \in Command : c.signed \in Tx /\ Terms(c)}
SignedBy         == [c \in Command |-> c.signed]

\* How a client reads an answer.  A server error leaves it unsure; another
\* answer that names no transaction refuses the order.
OutcomeOf(c, a) ==
  IF a.http = 500 THEN "unsure"
  ELSE IF a.success THEN IF c.op = "verifyV2" THEN "checked" ELSE "paid"
  ELSE IF a.tx = Absent THEN "refused"
  ELSE IF SaysFailed(a) THEN "failed"
  ELSE IF SaysConfirmed(a) THEN "mismatch"
  ELSE "open"

ToldTo(r) ==
  IF pc[r] = "done" THEN OutcomeOf(cmd[r], answer[r])
  ELSE IF pc[r] = "lost" THEN "lost"
  ELSE "nothing"

Contract ==
  INSTANCE SettlementContract WITH
    Order     <- Command,
    Settling  <- SettlingCommand,
    Checking  <- CheckingCommand,
    Payment   <- Tx,
    PaymentOf <- SignedBy,
    Satisfied <- SatisfiedCommand,
    confirmed <- wasConfirmed,
    aborted   <- wasAborted,
    order     <- cmd,
    submitted <- {r \in Request : sent[r] # "no"},
    told      <- [r \in Request |-> ToldTo(r)]

\* What a client is told is what it may conclude: "refused" only if nothing
\* was submitted for it, "paid" and "mismatch" only of a payment that was
\* confirmed, "failed" only of one a block held as failed, each told once; all
\* else leaves the payment open, whatever fails between the broadcast and the
\* answer.  (The status codes and bodies of handler.go as its handlers' results
\* and errors reach them.)
KeepsContract == Contract!ContractSpec

\* What a client was told stays true and stays told: what the contract amounts
\* to for the client.  (The four handlers.)
AnswersAreGrounded == Contract!OutcomesAreGrounded
AnswersAreFinal    == Contract!OutcomesAreFinal
=============================================================================
