--------------------------- MODULE StacksNetwork ----------------------------
(***************************************************************************)
(* The two Stacks networks behind the Hiro API, as far as the facilitator  *)
(* can tell: for each transaction its status and whether it is anchored in *)
(* a block.  External to the facilitator, and more permissive than a real  *)
(* node: it may admit or refuse any submission of a transaction it could   *)
(* hold, drop a pending transaction and, if Reorgs, orphan a mined one.    *)
(***************************************************************************)
EXTENDS Payments

CONSTANTS
  Tx,           \* signed transactions, each with its own id
  Wire,         \* Wire[t]: what the API reports of t apart from its status
  AbortStatus,  \* the statuses a mined transaction that failed may have
  Reorgs        \* whether a mined transaction can return to the mempool

ASSUME NetworkAssumption ==
  /\ \A t \in Tx : Wire[t].network \in Network
  /\ \A t \in Tx : Wire[t].tx_type = "contract_call" =>
       /\ Len(Wire[t].args) \in Nat
       /\ DOMAIN Wire[t].args = 1 .. Len(Wire[t].args)
  /\ AbortStatus \subseteq FailedStatus
  /\ Reorgs \in BOOLEAN

VARIABLES
  ledger,       \* ledger[t]: status and block height (0 or 1) of t
  wasConfirmed, \* history: the transactions confirmed at some time
  wasAborted    \* history: the transactions a block held as failed

networkVars == <<ledger, wasConfirmed, wasAborted>>

TxState == [status : {"unknown", "pending", "success", "dropped"}
                       \cup AbortStatus,
            height : 0..1]

At(status, height) == [status |-> status, height |-> height]

ConfirmedAt(t) == IsTransactionConfirmed(ledger[t].status, ledger[t].height)

NetworkInit ==
  /\ ledger = [t \in Tx |-> At("unknown", 0)]
  /\ wasConfirmed = {}
  /\ wasAborted = {}

\* A node admits t: it enters the mempool unless it is known there already.
Admit(t) ==
  /\ ledger' = IF ledger[t].status \in {"unknown", "dropped"}
               THEN [ledger EXCEPT ![t] = At("pending", 0)]
               ELSE ledger
  /\ UNCHANGED <<wasConfirmed, wasAborted>>

\* The payer submits t without the facilitator.
PayerSubmits(t) ==
  /\ ledger[t].status \in {"unknown", "dropped"}
  /\ Admit(t)

\* t succeeds in a microblock that no block has anchored yet.
MineUnanchored(t) ==
  /\ ledger[t].status = "pending"
  /\ ledger' = [ledger EXCEPT ![t] = At("success", 0)]
  /\ UNCHANGED <<wasConfirmed, wasAborted>>

\* A block anchors t.
Mine(t) ==
  /\ \/ ledger[t].status = "pending"
     \/ ledger[t] = At("success", 0)
  /\ ledger' = [ledger EXCEPT ![t] = At("success", 1)]
  /\ wasConfirmed' = wasConfirmed \cup {t}
  /\ UNCHANGED wasAborted

\* A block holds t, which failed.
Abort(t) ==
  /\ ledger[t].status = "pending"
  /\ \E s \in AbortStatus : ledger' = [ledger EXCEPT ![t] = At(s, 1)]
  /\ wasAborted' = wasAborted \cup {t}
  /\ UNCHANGED wasConfirmed

\* The mempool drops t: replaced by fee, stale, or too expensive.
Drop(t) ==
  /\ ledger[t].status = "pending"
  /\ ledger' = [ledger EXCEPT ![t] = At("dropped", 0)]
  /\ UNCHANGED <<wasConfirmed, wasAborted>>

\* The block that held t is orphaned.
Reorg(t) ==
  /\ Reorgs
  /\ ledger[t].height = 1
  /\ ledger' = [ledger EXCEPT ![t] = At("pending", 0)]
  /\ UNCHANGED <<wasConfirmed, wasAborted>>

\* What becomes of a transaction that was submitted.
ChainStep(t) ==
  \/ MineUnanchored(t)
  \/ Mine(t)
  \/ Abort(t)
  \/ Drop(t)
  \/ Reorg(t)

NetworkStep(t) == PayerSubmits(t) \/ ChainStep(t)

NetworkTypeOK ==
  /\ ledger \in [Tx -> TxState]
  /\ wasConfirmed \subseteq Tx
  /\ wasAborted \subseteq Tx

\* What is confirmed now has been confirmed, what is failed has been failed.
HistoryOK ==
  \A t \in Tx :
    /\ ConfirmedAt(t) => t \in wasConfirmed
    /\ ledger[t].status \in FailedStatus => t \in wasAborted
=============================================================================
