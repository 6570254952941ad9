------------------------------ MODULE Payments ------------------------------
(***************************************************************************)
(* The value objects, the parser of API responses and the verification     *)
(* service of the facilitator: everything its handlers compute without     *)
(* touching state.  Strings that the code only compares (memos,            *)
(* transaction ids) are opaque values; of one given for an address, Shape  *)
(* says what its constructor looks at.                                     *)
(***************************************************************************)
EXTENDS Integers, Sequences

CONSTANTS
  Shape,      \* Shape[s]: the first two letters of s and its length
  MaxUint64   \* the largest uint64, the width of every amount

Absent  == "absent"    \* an empty string or a nil pointer of a request
Invalid == "invalid"   \* a constructor returned an error
Uint64  == 0 .. MaxUint64

ASSUME PaymentsAssumption ==
  /\ MaxUint64 \in Nat
  /\ Absent \notin DOMAIN Shape

\* The strings NewStacksAddress accepts: no checksum, no network.
Address ==
  {s \in DOMAIN Shape :
     /\ Shape[s].prefix \in {"ST", "SP", "SM", "SN"}
     /\ Shape[s].length \in 30 .. 50}

-----------------------------------------------------------------------------
(* Networks and token types.  One capitalised spelling stands for all the  *)
(* spellings strings.ToLower and strings.ToUpper fold together.            *)

Network == {"mainnet", "testnet"}

\* v1 accepts CAIP-2 identifiers and, whatever their case, the short names.
NewNetwork(s) ==
  CASE s \in {"stacks:1", "mainnet", "Mainnet"}          -> "mainnet"
    [] s \in {"stacks:2147483648", "testnet", "Testnet"} -> "testnet"
    [] OTHER                                             -> Invalid

\* v2 accepts only the CAIP-2 identifiers.
NewNetworkFromCAIP2(s) ==
  CASE s = "stacks:1"          -> "mainnet"
    [] s = "stacks:2147483648" -> "testnet"
    [] OTHER                   -> Invalid

TokenType == {"STX", "SBTC", "USDCX"}

NewTokenType(s) ==
  CASE s \in {"STX", "stx"}     -> "STX"
    [] s \in {"SBTC", "sbtc"}   -> "SBTC"
    [] s \in {"USDCX", "usdcx"} -> "USDCX"
    [] OTHER                    -> Invalid

\* The v2 lookup is case-sensitive; a contract identifier is taken for STX.
AssetToTokenType(asset) == IF asset \in TokenType THEN asset ELSE "STX"

-----------------------------------------------------------------------------
(* Transactions as the API reports them, and their parsing.                *)

FailedStatus == {"failed", "abort_by_response", "abort_by_post_condition"}

\* Mutant: success in a microblock counts as confirmed.
IsTransactionConfirmed_AnyHeight(status, height) == status = "success"

IsTransactionConfirmed(status, height) == status = "success" /\ height > 0
IsTransactionFailed(status) == status \in FailedStatus

RecipientArg == {"recipient", "to"}

Named(args, names) == {i \in DOMAIN args : args[i].name \in names}

\* The loop over the arguments of a call overwrites: the last one counts.
LastValue(args, names, default) ==
  LET at == Named(args, names)
  IN  IF at = {} THEN default
      ELSE args[CHOOSE i \in at : \A j \in at : j <= i].value

ParsesTokenTransfer(w) ==
  /\ w.tx_type = "token_transfer"
  /\ w.recipient \in Address
  /\ w.amount \in Uint64

ParsesSIP010Transfer(w) ==
  /\ w.tx_type = "contract_call"
  /\ w.function = "transfer"
  /\ \A i \in Named(w.args, {"amount"}) : w.args[i].value \in Uint64
  /\ \A i \in Named(w.args, RecipientArg) : w.args[i].value \in Address
  /\ Named(w.args, RecipientArg) # {}

\* Whether parseTransactionResponse returns a transaction and not an error.
Parses(w) ==
  /\ w.sender \in Address
  /\ ParsesTokenTransfer(w) \/ ParsesSIP010Transfer(w)

WireRecipient(w) ==
  IF w.tx_type = "token_transfer" THEN w.recipient
  ELSE LastValue(w.args, RecipientArg, Absent)

\* A call without an "amount" argument transfers nothing.
WireAmount(w) ==
  IF w.tx_type = "token_transfer" THEN w.amount
  ELSE LastValue(w.args, {"amount"}, 0)

WireMemo(w) ==
  IF w.tx_type = "token_transfer" THEN w.memo
  ELSE LastValue(w.args, {"memo"}, "")

\* The token type is the requested one, not one read from the transaction.
ParseTransactionResponse(t, w, state, token) ==
  [tx        |-> t,
   token     |-> token,
   sender    |-> w.sender,
   recipient |-> WireRecipient(w),
   amount    |-> WireAmount(w),
   memo      |-> WireMemo(w),
   status    |-> state.status,
   confirmed |-> IsTransactionConfirmed(state.status, state.height)]

-----------------------------------------------------------------------------
(* The verification service.                                               *)

IsGreaterThanOrEqual(amount, min) == amount >= min

Report(bad, message) == IF bad THEN <<message>> ELSE << >>

\* The errors of a transaction against the criteria, in the order reported.
Verify(tx, criteria) ==
     Report(tx.status \in FailedStatus, "transaction_failed_with_status")
  \o Report(~criteria.acceptUnconfirmed /\ ~tx.confirmed,
            "transaction_not_confirmed")
  \o Report(tx.recipient # criteria.recipient, "recipient_mismatch")
  \o Report(~IsGreaterThanOrEqual(tx.amount, criteria.amount),
            "insufficient_amount")
  \o Report(criteria.sender # Absent /\ tx.sender # criteria.sender,
            "sender_mismatch")
  \o Report(criteria.memo # Absent /\ tx.memo # criteria.memo,
            "memo_mismatch")

\* Mutant: the status of the API is passed on.
DeterminePaymentStatus_Raw(tx) ==
  IF tx.confirmed THEN "confirmed" ELSE tx.status

DeterminePaymentStatus(tx) ==
  IF tx.confirmed THEN "confirmed"
  ELSE IF tx.status \in FailedStatus THEN "failed"
  ELSE "pending"

\* Mutants: messages reworded, so that a transaction "failed to be confirmed",
\* or that nothing is found in the message about the amount.
WordsOf_FailedToConfirm(message) ==
  CASE message = "transaction_failed_with_status" -> {"failed"}
    [] message = "transaction_not_confirmed"      -> {"failed"}
    [] message = "recipient_mismatch"  -> {"recipient"}
    [] message = "insufficient_amount" -> {"insufficient", "amount"}
    [] OTHER                           -> {}

WordsOf_TooLittle(message) ==
  CASE message = "transaction_failed_with_status" -> {"failed"}
    [] message = "recipient_mismatch" -> {"recipient"}
    [] message = "sender_mismatch"    -> {"sender"}
    [] OTHER                          -> {}

\* The words mapVerificationErrorToV2 searches for that the wording of each
\* message contains.  "transaction not confirmed" contains none; the failed
\* statuses and the numbers in the messages add none.  v2 has no criterion on
\* the sender or the memo, so what these two quote is never searched.
WordsOf(message) ==
  CASE message = "transaction_failed_with_status" -> {"failed"}
    [] message = "recipient_mismatch"  -> {"recipient"}
    [] message = "insufficient_amount" -> {"insufficient", "amount"}
    [] message = "sender_mismatch"     -> {"sender"}
    [] OTHER                           -> {}

\* SubstringSearch shows that the search finds what there is to find.
Contains(message, word) == word \in WordsOf(message)

\* The reason of a message: that of the first word found, in this order.
MapVerificationErrorToV2(message) ==
  IF Contains(message, "recipient") THEN "recipient_mismatch"
  ELSE IF Contains(message, "amount") \/ Contains(message, "insufficient")
  THEN "amount_insufficient"
  ELSE IF Contains(message, "sender") THEN "sender_mismatch"
  ELSE IF Contains(message, "not found") THEN "transaction_not_found"
  ELSE IF Contains(message, "pending") THEN "transaction_pending"
  ELSE IF Contains(message, "failed") THEN "transaction_failed"
  ELSE "unexpected_settle_error"
=============================================================================
