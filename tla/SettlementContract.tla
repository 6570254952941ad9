-------------------------- MODULE SettlementContract --------------------------
(***************************************************************************)
(* What a resource server may conclude from an answer, and nothing of how  *)
(* the answer comes about: each request gives an order, the facilitator    *)
(* may submit the payment of a settling order to the network, and then     *)
(* tells the outcome once.  Every outcome but "open" and "unsure" is final *)
(* and rests on what has happened on the chain.                            *)
(***************************************************************************)
CONSTANTS
  Request,    \* requests, each gives one order
  Order,      \* what a request may ask
  Settling,   \* the orders to submit a payment
  Checking,   \* the orders that only ask whether a settlement would be refused
  Payment,    \* the payments a network can hold
  PaymentOf,  \* PaymentOf[o]: the payment o names, if it is one
  Satisfied   \* the orders whose payment is what they ask for

VARIABLES
  confirmed,  \* the payments that were confirmed at some time
  aborted,    \* the payments that failed in a block at some time
  order,      \* order[r]: what r asked
  submitted,  \* the requests whose payment was handed to the network
  told        \* told[r]: the outcome r was told

contractVars == <<confirmed, aborted, order, submitted, told>>

NoOrder == [op |-> "none"]

Outcome == {"refused", "checked", "paid", "failed", "mismatch", "open",
            "unsure", "lost"}

ContractInit ==
  /\ confirmed = {}
  /\ aborted = {}
  /\ order = [r \in Request |-> NoOrder]
  /\ submitted = {}
  /\ told = [r \in Request |-> "nothing"]

\* The chain confirms a payment, or holds it as failed.
ChainDecides(p) ==
  /\ \/ /\ confirmed' = confirmed \cup {p}
        /\ UNCHANGED aborted
     \/ /\ aborted' = aborted \cup {p}
        /\ UNCHANGED confirmed
  /\ UNCHANGED <<order, submitted, told>>

Give(r, o) ==
  /\ order[r] = NoOrder
  /\ told[r] = "nothing"
  /\ order' = [order EXCEPT ![r] = o]
  /\ UNCHANGED <<confirmed, aborted, submitted>>

\* An order is taken.  One that only asks for a check never is: it is
\* answered at once.
Take(r, o) ==
  /\ Give(r, o)
  /\ o \notin Checking
  /\ UNCHANGED told

\* An order is answered before anything was submitted for it.
Dismiss(r, o, outcome) ==
  /\ Give(r, o)
  /\ \/ outcome = "checked" /\ o \in Checking
     \/ outcome \in {"refused", "unsure"}
  /\ told' = [told EXCEPT ![r] = outcome]

Waiting(r) == order[r] # NoOrder /\ told[r] = "nothing"

\* The payment of a settling order is submitted, at most once for each
\* request; what became of it may remain unknown.
Submit(r, outcome) ==
  /\ Waiting(r)
  /\ order[r] \in Settling
  /\ PaymentOf[order[r]] \in Payment
  /\ r \notin submitted
  /\ outcome \in {"nothing", "unsure"}
  /\ submitted' = submitted \cup {r}
  /\ told' = [told EXCEPT ![r] = outcome]
  /\ UNCHANGED <<confirmed, aborted, order>>

\* What may be told of the payment of an order.
MayTell(o, outcome) ==
  LET p == PaymentOf[o]
  IN  \/ outcome = "paid" /\ p \in confirmed /\ o \in Satisfied
      \/ outcome = "mismatch" /\ p \in confirmed /\ o \notin Satisfied
      \/ outcome = "failed" /\ p \in aborted
      \/ outcome = "open"

\* The outcome is told, for a settling order only once it was submitted.
Tell(r, outcome) ==
  /\ Waiting(r)
  /\ order[r] \in Settling => r \in submitted
  /\ MayTell(order[r], outcome)
  /\ told' = [told EXCEPT ![r] = outcome]
  /\ UNCHANGED <<confirmed, aborted, order, submitted>>

\* The facilitator does not know what it did: neither does the client.
TellUnsure(r) ==
  /\ Waiting(r)
  /\ told' = [told EXCEPT ![r] = "unsure"]
  /\ UNCHANGED <<confirmed, aborted, order, submitted>>

\* The requests that are waiting are never answered.
Lose ==
  /\ told' = [r \in Request |-> IF Waiting(r) THEN "lost" ELSE told[r]]
  /\ UNCHANGED <<confirmed, aborted, order, submitted>>

ContractNext ==
  \/ \E p \in Payment : ChainDecides(p)
  \/ \E r \in Request, o \in Order :
       Take(r, o) \/ \E outcome \in Outcome : Dismiss(r, o, outcome)
  \/ \E r \in Request :
       \/ \E outcome \in {"nothing", "unsure"} : Submit(r, outcome)
       \/ \E outcome \in Outcome : Tell(r, outcome)
       \/ TellUnsure(r)
  \/ Lose

ContractSpec == ContractInit /\ [][ContractNext]_contractVars

-----------------------------------------------------------------------------
(* What the contract amounts to for the client.                            *)

\* What r was told rests on what was done for it and on what has happened to
\* its payment, and still does whenever the client looks.
Grounded(r) ==
  LET p == PaymentOf[order[r]]
  IN  /\ told[r] \in {"refused", "checked"} => r \notin submitted
      /\ told[r] = "paid" => p \in confirmed /\ order[r] \in Satisfied
      /\ told[r] = "mismatch" => p \in confirmed /\ order[r] \notin Satisfied
      /\ told[r] = "failed" => p \in aborted
      /\ /\ told[r] \in {"paid", "mismatch", "failed", "open"}
         /\ order[r] \in Settling
         => r \in submitted

\* Every outcome a client was told is grounded.  (The four handlers.)
OutcomesAreGrounded == \A r \in Request : Grounded(r)

\* An outcome is told once, and its order does not change any more.
Final(r) ==
  told[r] # "nothing" => told'[r] = told[r] /\ order'[r] = order[r]

OutcomesAreFinal == [][\A r \in Request : Final(r)]_contractVars
=============================================================================
