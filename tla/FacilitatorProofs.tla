-------------------------- MODULE FacilitatorProofs -------------------------
(***************************************************************************)
(* Type correctness of the facilitator and its main promise, that what it  *)
(* reports successful was paid, for every set of requests, commands and    *)
(* transactions and every number of retries.                               *)
(***************************************************************************)
EXTENDS Facilitator, WellFoundedInduction, TLAPS

-----------------------------------------------------------------------------
(* The parser.                                                             *)

\* A string that is not given is no address.
LEMMA AbsentIsNoAddress == Absent \notin Address
BY PaymentsAssumption DEF Address

\* A nonempty set of positions of a sequence has a last one.
LEMMA LastPosition ==
  ASSUME NEW n \in Nat, NEW S \in SUBSET (1 .. n), S # {}
  PROVE  \E i \in S : \A j \in S : j <= i
<1> DEFINE D == {n - i : i \in S}
<1>1. D \subseteq Nat /\ D # {}
  <2>1. \A i \in S : i \in Nat /\ n - i \in Nat
    OBVIOUS
  <2>2. PICK i \in S : TRUE
    OBVIOUS
  <2>3. n - i \in D
    BY <2>2
  <2> QED BY <2>1, <2>3
<1> DEFINE Less == OpToRel(<, Nat)
<1>2. PICK m \in D : \A k \in D : <<k, m>> \notin Less
  BY <1>1, NatLessThanWellFounded, WFMin
<1>3. PICK i \in S : m = n - i
  BY <1>2
<1>4. ASSUME NEW j \in S PROVE j <= i
  <2>1. <<n - j, n - i>> \notin Less
    BY <1>2, <1>3
  <2>2. ~(n - j < n - i)
    BY <2>1, <1>1 DEF OpToRel
  <2> QED BY <2>2
<1> QED BY <1>4

\* The value a call gives an argument is one of the values written in it.
LEMMA LastValueIsGiven ==
  ASSUME NEW args, NEW names, NEW default,
         Len(args) \in Nat,
         DOMAIN args = 1 .. Len(args),
         Named(args, names) # {}
  PROVE  \E i \in Named(args, names) :
           LastValue(args, names, default) = args[i].value
<1> DEFINE at == Named(args, names)
<1>1. at \in SUBSET (1 .. Len(args))
  BY DEF Named
<1>2. \E i \in at : \A j \in at : j <= i
  BY <1>1, LastPosition
<1>3. (CHOOSE i \in at : \A j \in at : j <= i) \in at
  BY <1>2
<1>4. LastValue(args, names, default) =
        args[CHOOSE i \in at : \A j \in at : j <= i].value
  BY DEF LastValue
<1> QED BY <1>3, <1>4

\* A transaction that parses pays an address an amount that fits in 64 bits,
\* however often a call repeats its arguments and whatever it leaves out.
LEMMA ParsedIsWellFormed ==
  ASSUME NEW t \in Tx, Parses(Wire[t])
  PROVE  /\ Wire[t].sender \in Address
         /\ WireRecipient(Wire[t]) \in Address
         /\ WireAmount(Wire[t]) \in Uint64
<1> DEFINE w == Wire[t]
<1>1. w.sender \in Address
  BY DEF Parses
<1>2. CASE ParsesTokenTransfer(w)
  BY <1>1, <1>2 DEF ParsesTokenTransfer, WireRecipient, WireAmount
<1>3. CASE ParsesSIP010Transfer(w)
  <2>1. /\ w.tx_type = "contract_call"
        /\ Len(w.args) \in Nat
        /\ DOMAIN w.args = 1 .. Len(w.args)
    BY <1>3, NetworkAssumption DEF ParsesSIP010Transfer
  <2>2. PICK i \in Named(w.args, RecipientArg) :
          LastValue(w.args, RecipientArg, Absent) = w.args[i].value
    BY <2>1, <1>3, LastValueIsGiven DEF ParsesSIP010Transfer
  <2>3. WireRecipient(w) \in Address
    BY <2>1, <2>2, <1>3 DEF ParsesSIP010Transfer, WireRecipient
  <2>4. CASE Named(w.args, {"amount"}) = {}
    BY <2>1, <2>3, <2>4, <1>1, PaymentsAssumption
    DEF WireAmount, LastValue, Uint64
  <2>5. CASE Named(w.args, {"amount"}) # {}
    <3>1. PICK j \in Named(w.args, {"amount"}) :
            LastValue(w.args, {"amount"}, 0) = w.args[j].value
      BY <2>1, <2>5, LastValueIsGiven
    <3> QED
      BY <3>1, <2>1, <2>3, <1>1, <1>3 DEF ParsesSIP010Transfer, WireAmount
  <2> QED BY <2>4, <2>5
<1> QED BY <1>2, <1>3 DEF Parses

-----------------------------------------------------------------------------
(* The verification service and the handlers' use of it.                   *)

\* A concatenation is empty only if both its parts are.
LEMMA EmptyConcat ==
  ASSUME NEW T, NEW s \in Seq(T), NEW t \in Seq(T), s \o t = << >>
  PROVE  s = << >> /\ t = << >>
<1>1. Len(s \o t) = Len(s) + Len(t) /\ Len(s) \in Nat /\ Len(t) \in Nat
  OBVIOUS
<1>2. Len(s) = 0 /\ Len(t) = 0
  BY <1>1
<1> QED BY <1>2

\* Verify reports nothing only if every criterion holds.
LEMMA VerifyIsSound ==
  ASSUME NEW tx, NEW criteria, Verify(tx, criteria) = << >>
  PROVE  /\ tx.status \notin FailedStatus
         /\ ~criteria.acceptUnconfirmed => tx.confirmed
         /\ tx.recipient = criteria.recipient
         /\ IsGreaterThanOrEqual(tx.amount, criteria.amount)
         /\ criteria.sender # Absent => tx.sender = criteria.sender
         /\ criteria.memo # Absent => tx.memo = criteria.memo
<1> DEFINE T == {"transaction_failed_with_status", "transaction_not_confirmed",
                 "recipient_mismatch", "insufficient_amount",
                 "sender_mismatch", "memo_mismatch"}
           r1 == Report(tx.status \in FailedStatus,
                        "transaction_failed_with_status")
           r2 == Report(~criteria.acceptUnconfirmed /\ ~tx.confirmed,
                        "transaction_not_confirmed")
           r3 == Report(tx.recipient # criteria.recipient,
                        "recipient_mismatch")
           r4 == Report(~IsGreaterThanOrEqual(tx.amount, criteria.amount),
                        "insufficient_amount")
           r5 == Report(criteria.sender # Absent
                          /\ tx.sender # criteria.sender, "sender_mismatch")
           r6 == Report(criteria.memo # Absent
                          /\ tx.memo # criteria.memo, "memo_mismatch")
<1>0. << >> \in Seq(T) /\ \A m \in T : <<m>> \in Seq(T)
  OBVIOUS
<1>1. /\ r1 \in Seq(T) /\ r2 \in Seq(T) /\ r3 \in Seq(T)
      /\ r4 \in Seq(T) /\ r5 \in Seq(T) /\ r6 \in Seq(T)
  <2>1. r1 \in {<< >>, <<"transaction_failed_with_status">>}
    BY DEF Report
  <2>2. r2 \in {<< >>, <<"transaction_not_confirmed">>}
    BY DEF Report
  <2>3. r3 \in {<< >>, <<"recipient_mismatch">>}
    BY DEF Report
  <2>4. r4 \in {<< >>, <<"insufficient_amount">>}
    BY DEF Report
  <2>5. r5 \in {<< >>, <<"sender_mismatch">>}
    BY DEF Report
  <2>6. r6 \in {<< >>, <<"memo_mismatch">>}
    BY DEF Report
  <2> HIDE DEF r1, r2, r3, r4, r5, r6
  <2> QED BY <1>0, <2>1, <2>2, <2>3, <2>4, <2>5, <2>6
<1>2. r1 \o r2 \o r3 \o r4 \o r5 \o r6 = << >>
  BY DEF Verify
<1> HIDE DEF T, r1, r2, r3, r4, r5, r6
<1>3. r1 \o r2 \in Seq(T)
  BY <1>1
<1>4. r1 \o r2 \o r3 \in Seq(T)
  BY <1>1, <1>3
<1>5. r1 \o r2 \o r3 \o r4 \in Seq(T)
  BY <1>1, <1>4
<1>6. r1 \o r2 \o r3 \o r4 \o r5 \in Seq(T)
  BY <1>1, <1>5
<1>7. r6 = << >> /\ r1 \o r2 \o r3 \o r4 \o r5 = << >>
  BY <1>1, <1>2, <1>6, EmptyConcat
<1>8. r5 = << >> /\ r1 \o r2 \o r3 \o r4 = << >>
  BY <1>1, <1>5, <1>7, EmptyConcat
<1>9. r4 = << >> /\ r1 \o r2 \o r3 = << >>
  BY <1>1, <1>4, <1>8, EmptyConcat
<1>10. r3 = << >> /\ r1 = << >> /\ r2 = << >>
  BY <1>1, <1>3, <1>9, EmptyConcat
<1> QED
  BY <1>7, <1>8, <1>9, <1>10 DEF r1, r2, r3, r4, r5, r6, Report

\* A handler that finds a payment good has found all it was asked for.
LEMMA VerdictIsSound ==
  ASSUME NEW c, OnChain(c), NEW tx, Verdict(c, tx).success
  PROVE  /\ tx.confirmed
         /\ tx.recipient = c.recipient
         /\ tx.amount >= c.amount
         /\ IsV1(c) /\ c.sender \in Address => tx.sender = c.sender
         /\ c.op = "verifyV1" /\ c.memo # Absent => tx.memo = c.memo
<1>1. Verify(tx, Criteria(c)) = << >>
  <2>1. CASE c.op = "settleV1"
    BY <2>1 DEF Verdict, Response
  <2>2. CASE c.op = "settleV2"
    BY <2>2 DEF Verdict, Response
  <2>3. CASE c.op = "verifyV1"
    BY <2>3 DEF Verdict, Response
  <2> QED BY <2>1, <2>2, <2>3 DEF OnChain
<1>2. /\ ~Criteria(c).acceptUnconfirmed
      /\ Criteria(c).recipient = c.recipient
      /\ Criteria(c).amount = c.amount
      /\ c.op # "settleV2" => Criteria(c).sender = ExpectedSender(c)
      /\ c.op = "verifyV1" => Criteria(c).memo = c.memo
  BY DEF Criteria
<1>3. tx.confirmed /\ tx.recipient = c.recipient /\ tx.amount >= c.amount
  BY <1>1, <1>2, VerifyIsSound DEF IsGreaterThanOrEqual
<1>4. ASSUME IsV1(c), c.sender \in Address PROVE tx.sender = c.sender
  <2>1. Criteria(c).sender = c.sender /\ c.sender # Absent
    BY <1>2, <1>4, AbsentIsNoAddress DEF IsV1, ExpectedSender
  <2> QED BY <2>1, <1>1, VerifyIsSound
<1>5. ASSUME c.op = "verifyV1", c.memo # Absent PROVE tx.memo = c.memo
  BY <1>1, <1>2, <1>5, VerifyIsSound
<1> QED BY <1>3, <1>4, <1>5

\* A command let in is one some payment could satisfy.
LEMMA AcceptedIsPayable ==
  ASSUME NEW c \in Command, Refusal(c) = NoAnswer
  PROVE  /\ OnChain(c)
         /\ NetworkOf(c) \in Network
         /\ c.recipient \in Address
         /\ c.amount \in Uint64
         /\ ~IsSettle(c) => c.signed \in Tx
         /\ c.op = "settleV2" => c.version = 2 /\ c.scheme = "exact"
<1>1. c.op \in {"settleV1", "settleV2", "verifyV1", "verifyV2"}
  BY FacilitatorAssumption
<1>2. CASE c.op = "settleV1"
  <2>1. SettleV1Refusal(c) = NoAnswer
    BY <1>2 DEF Refusal
  <2>2. /\ Binds(c)
        /\ NewNetwork(c.network) # Invalid
        /\ c.recipient \in Address
    BY <2>1 DEF SettleV1Refusal, NoAnswer, Failure, Response
  <2>3. NewNetwork(c.network) \in Network
    BY <2>2 DEF NewNetwork, Network
  <2> QED
    BY <1>2, <2>2, <2>3 DEF OnChain, NetworkOf, IsV1, IsSettle, Binds
<1>3. CASE c.op = "verifyV1"
  <2>1. VerifyV1Refusal(c) = NoAnswer
    BY <1>3 DEF Refusal
  <2>2. /\ Binds(c)
        /\ NewNetwork(c.network) # Invalid
        /\ c.recipient \in Address
        /\ c.signed \in Tx
    BY <2>1 DEF VerifyV1Refusal, NoAnswer, Failure, Response
  <2>3. NewNetwork(c.network) \in Network
    BY <2>2 DEF NewNetwork, Network
  <2> QED
    BY <1>3, <2>2, <2>3 DEF OnChain, NetworkOf, IsV1, IsSettle, Binds
<1>4. CASE c.op = "settleV2"
  <2>1. SettleV2Refusal(c) = NoAnswer
    BY <1>4 DEF Refusal
  <2>2. SettleV2Reason(c) = ""
    BY <2>1 DEF SettleV2Refusal, NoAnswer, Failure, Response
  <2>3. /\ c.version = 2 /\ c.scheme = "exact"
        /\ NewNetworkFromCAIP2(c.network) # Invalid
        /\ c.amount \in Uint64
        /\ c.recipient \in Address
    BY <2>2 DEF SettleV2Reason
  <2>4. NewNetworkFromCAIP2(c.network) \in Network
    BY <2>3 DEF NewNetworkFromCAIP2, Network
  <2> QED BY <1>4, <2>3, <2>4 DEF OnChain, NetworkOf, IsV1, IsSettle
<1>5. CASE c.op = "verifyV2"
  BY <1>5 DEF Refusal, VerifyV2Answer, NoAnswer, Failure, Response
<1> QED BY <1>1, <1>2, <1>3, <1>4, <1>5

\* Whatever a handler answers is an answer.
LEMMA RefusalType == ASSUME NEW c \in Command PROVE Refusal(c) \in AnswerRecord
<1>1. c.op \in {"settleV1", "settleV2", "verifyV1", "verifyV2"}
  BY FacilitatorAssumption
<1>2. SettleV2Reason(c) \in Reason /\ VerifyV2Reason(c) \in Reason
  BY DEF SettleV2Reason, VerifyV2Reason, Reason
<1>3. /\ NoAnswer \in AnswerRecord
      /\ Failure(400, "invalid_request") \in AnswerRecord
      /\ Failure(400, "missing_required_fields") \in AnswerRecord
      /\ Failure(500, "settlement_failed") \in AnswerRecord
      /\ Failure(500, "verification_failed") \in AnswerRecord
      /\ Failure(400, "invalid_payment_requirements") \in AnswerRecord
  BY DEF NoAnswer, Failure, Response, AnswerRecord, Payload, Reason
<1>4. SettleV1Refusal(c) \in AnswerRecord
  BY <1>3 DEF SettleV1Refusal
<1>5. VerifyV1Refusal(c) \in AnswerRecord
  BY <1>3 DEF VerifyV1Refusal
<1>6. SettleV2Refusal(c) \in AnswerRecord
  <2>1. Failure(400, SettleV2Reason(c)) \in AnswerRecord
    BY <1>2 DEF Failure, Response, AnswerRecord, Payload
  <2> QED BY <2>1, <1>3 DEF SettleV2Refusal
<1>7. VerifyV2Answer(c) \in AnswerRecord
  <2>1. (VerifyV2Reason(c) = "") \in BOOLEAN
    OBVIOUS
  <2>2. Response(200, VerifyV2Reason(c) = "", Absent, Absent, "",
                 VerifyV2Reason(c)) \in AnswerRecord
    BY <1>2, <2>1 DEF Response, AnswerRecord, Payload
  <2> QED BY <2>2, <1>3 DEF VerifyV2Answer
<1> QED BY <1>1, <1>4, <1>5, <1>6, <1>7 DEF Refusal

\* The answers to a failed broadcast and to a failed loop are answers.
LEMMA ErrorType ==
  ASSUME NEW c \in Command, OnChain(c)
  PROVE  BroadcastError(c) \in AnswerRecord /\ FetchError(c) \in AnswerRecord
<1>1. /\ Failure(500, "settlement_failed") \in AnswerRecord
      /\ Failure(500, "verification_failed") \in AnswerRecord
      /\ Failure(500, "unexpected_settle_error") \in AnswerRecord
  BY DEF Failure, Response, AnswerRecord, Payload, Reason
<1>2. BroadcastError(c) \in AnswerRecord
  BY <1>1 DEF BroadcastError
<1>3. Response(500, FALSE, c.signed, Absent, "", "unexpected_settle_error")
        \in AnswerRecord
  BY FacilitatorAssumption DEF Response, AnswerRecord, Reason
<1>4. FetchError(c) \in AnswerRecord
  BY <1>1, <1>3 DEF FetchError, OnChain
<1> QED BY <1>2, <1>4

\* What the search over the words of the messages amounts to.
LEMMA ReasonOfMessage ==
  ASSUME NEW m
  PROVE  MapVerificationErrorToV2(m) =
           CASE m = "recipient_mismatch"  -> "recipient_mismatch"
             [] m = "insufficient_amount" -> "amount_insufficient"
             [] m = "sender_mismatch"     -> "sender_mismatch"
             [] m = "transaction_failed_with_status" -> "transaction_failed"
             [] OTHER                     -> "unexpected_settle_error"
<1>1. CASE m = "recipient_mismatch"
  BY <1>1 DEF MapVerificationErrorToV2, Contains, WordsOf
<1>2. CASE m = "insufficient_amount"
  BY <1>2 DEF MapVerificationErrorToV2, Contains, WordsOf
<1>3. CASE m = "sender_mismatch"
  BY <1>3 DEF MapVerificationErrorToV2, Contains, WordsOf
<1>4. CASE m = "transaction_failed_with_status"
  BY <1>4 DEF MapVerificationErrorToV2, Contains, WordsOf
<1>5. CASE m \notin {"recipient_mismatch", "insufficient_amount",
                    "sender_mismatch", "transaction_failed_with_status"}
  <2>1. WordsOf(m) = {}
    BY <1>5 DEF WordsOf
  <2>2. MapVerificationErrorToV2(m) = "unexpected_settle_error"
    BY <2>1 DEF MapVerificationErrorToV2, Contains
  <2> QED BY <1>5, <2>2
<1> QED BY <1>1, <1>2, <1>3, <1>4, <1>5

\* What a handler answers about a transaction it fetched is an answer.
LEMMA VerdictType ==
  ASSUME NEW c, OnChain(c), NEW tx, tx.tx \in Tx, tx.sender \in Address
  PROVE  Verdict(c, tx) \in AnswerRecord
<1> DEFINE errors == Verify(tx, Criteria(c))
           status == DeterminePaymentStatus(tx)
           reason == MapVerificationErrorToV2(errors[1])
<1>1. status \in {"confirmed", "failed", "pending"}
  BY DEF DeterminePaymentStatus
<1>2. reason \in Reason /\ "" \in Reason
  BY ReasonOfMessage DEF Reason
<1>3. tx.tx \in Payload /\ tx.sender \in Address \cup {Absent}
  BY DEF Payload
<1> DEFINE valid == errors = << >>
<1>4. /\ Response(200, TRUE, tx.tx, tx.sender, status, "") \in AnswerRecord
      /\ Response(200, FALSE, tx.tx, tx.sender, status, "") \in AnswerRecord
      /\ Response(400, FALSE, tx.tx, tx.sender, status, "") \in AnswerRecord
      /\ Response(200, TRUE, tx.tx, tx.sender, "", "") \in AnswerRecord
      /\ Response(400, FALSE, tx.tx, tx.sender, "", reason) \in AnswerRecord
  <2> HIDE DEF status, reason, errors
  <2>1. Response(200, TRUE, tx.tx, tx.sender, status, "") \in AnswerRecord
    BY <1>1, <1>2, <1>3 DEF Response, AnswerRecord
  <2>2. Response(200, FALSE, tx.tx, tx.sender, status, "") \in AnswerRecord
    BY <1>1, <1>2, <1>3 DEF Response, AnswerRecord
  <2>3. Response(400, FALSE, tx.tx, tx.sender, status, "") \in AnswerRecord
    BY <1>1, <1>2, <1>3 DEF Response, AnswerRecord
  <2>4. Response(200, TRUE, tx.tx, tx.sender, "", "") \in AnswerRecord
    BY <1>2, <1>3 DEF Response, AnswerRecord
  <2>5. Response(400, FALSE, tx.tx, tx.sender, "", reason) \in AnswerRecord
    BY <1>2, <1>3 DEF Response, AnswerRecord
  <2> QED BY <2>1, <2>2, <2>3, <2>4, <2>5, Zenon
<1>5. CASE c.op = "settleV1"
  <2>1. Verdict(c, tx) =
          Response(IF valid THEN 200 ELSE 400, valid, tx.tx, tx.sender,
                   status, "")
    BY <1>5, Zenon DEF Verdict
  <2>2. valid = TRUE \/ valid = FALSE
    OBVIOUS
  <2> HIDE DEF valid, status
  <2>3. CASE valid = TRUE
    BY <2>1, <2>3, <1>4, Zenon
  <2>4. CASE valid = FALSE
    BY <2>1, <2>4, <1>4, Zenon
  <2> QED BY <2>2, <2>3, <2>4
<1>6. CASE c.op = "verifyV1"
  <2>1. Verdict(c, tx) = Response(200, valid, tx.tx, tx.sender, status, "")
    BY <1>6, Zenon DEF Verdict
  <2>2. valid = TRUE \/ valid = FALSE
    OBVIOUS
  <2> HIDE DEF valid, status
  <2>3. CASE valid = TRUE
    BY <2>1, <2>3, <1>4, Zenon
  <2>4. CASE valid = FALSE
    <3>1. Response(200, valid, tx.tx, tx.sender, status, "") =
            Response(200, FALSE, tx.tx, tx.sender, status, "")
      BY <2>4
    <3> QED BY <3>1, <2>1, <1>4
  <2> QED BY <2>2, <2>3, <2>4
<1>7. CASE c.op = "settleV2"
  <2>1. Verdict(c, tx) =
          Response(IF valid THEN 200 ELSE 400, valid, tx.tx, tx.sender, "",
                   IF valid THEN "" ELSE reason)
    BY <1>7, Zenon DEF Verdict
  <2>2. valid = TRUE \/ valid = FALSE
    OBVIOUS
  <2> HIDE DEF valid, reason
  <2>3. CASE valid = TRUE
    BY <2>1, <2>3, <1>4, Zenon
  <2>4. CASE valid = FALSE
    BY <2>1, <2>4, <1>4, Zenon
  <2> QED BY <2>2, <2>3, <2>4
<1> QED BY <1>5, <1>6, <1>7 DEF OnChain

-----------------------------------------------------------------------------
(* The network.                                                            *)

\* A node that admits a transaction keeps the network well formed.
LEMMA AdmitKeepsNetwork ==
  ASSUME NetworkTypeOK, HistoryOK, NEW t \in Tx, Admit(t)
  PROVE  NetworkTypeOK' /\ HistoryOK' /\ UNCHANGED <<wasConfirmed, wasAborted>>
<1>1. At("pending", 0) \in TxState
  BY DEF At, TxState
<1>2. NetworkTypeOK'
  BY <1>1 DEF Admit, NetworkTypeOK
<1>3. ASSUME NEW u \in Tx, ConfirmedAt(u)' PROVE u \in wasConfirmed'
  BY <1>3 DEF Admit, NetworkTypeOK, HistoryOK, ConfirmedAt,
              IsTransactionConfirmed, At
<1>4. ASSUME NEW u \in Tx, ledger'[u].status \in FailedStatus
      PROVE  u \in wasAborted'
  BY <1>4 DEF Admit, NetworkTypeOK, HistoryOK, At, FailedStatus
<1> QED BY <1>2, <1>3, <1>4 DEF Admit, HistoryOK

\* So does every step of the networks, and their history only grows.
LEMMA NetworkStepKeepsNetwork ==
  ASSUME NetworkTypeOK, HistoryOK, NEW t \in Tx, NetworkStep(t)
  PROVE  /\ NetworkTypeOK' /\ HistoryOK'
         /\ wasConfirmed \subseteq wasConfirmed'
         /\ wasAborted \subseteq wasAborted'
<1> USE DEF NetworkTypeOK, HistoryOK, ConfirmedAt, IsTransactionConfirmed,
            At, TxState, FailedStatus
<1>1. CASE PayerSubmits(t)
  BY <1>1, AdmitKeepsNetwork DEF PayerSubmits
<1>2. CASE MineUnanchored(t)
  BY <1>2 DEF MineUnanchored
<1>3. CASE Mine(t)
  BY <1>3 DEF Mine
<1>4. CASE Abort(t)
  <2>1. PICK s \in AbortStatus : ledger' = [ledger EXCEPT ![t] = At(s, 1)]
    BY <1>4 DEF Abort
  <2>2. s # "success"
    BY NetworkAssumption DEF FailedStatus
  <2> QED BY <2>1, <2>2, <1>4 DEF Abort
<1>5. CASE Drop(t)
  BY <1>5 DEF Drop
<1>6. CASE Reorg(t)
  BY <1>6 DEF Reorg
<1> QED BY <1>1, <1>2, <1>3, <1>4, <1>5, <1>6 DEF NetworkStep, ChainStep

-----------------------------------------------------------------------------
(* The handlers.                                                           *)

IInv == TypeOK /\ HistoryOK /\ ServedOK /\ SuccessMeansPaid

\* The process starts with nothing served.
LEMMA InitIsSafe == Init => IInv
<1> SUFFICES ASSUME Init PROVE IInv
  OBVIOUS
<1>1. /\ At("unknown", 0) \in TxState
      /\ At("unknown", 0).status \notin FailedStatus \cup {"success"}
  BY DEF At, TxState, FailedStatus
<1>2. NetworkTypeOK /\ HistoryOK
  BY <1>1 DEF Init, NetworkInit, NetworkTypeOK, HistoryOK, ConfirmedAt,
              IsTransactionConfirmed
<1>3. NoAnswer \in AnswerRecord
  BY DEF NoAnswer, Failure, Response, AnswerRecord, Payload, Reason
<1>4. TypeOK
  BY <1>2, <1>3 DEF Init, TypeOK, PC, SentState
<1>5. ServedOK /\ SuccessMeansPaid
  BY DEF Init, ServedOK, Served, SuccessMeansPaid, ReportsPaid
<1> QED BY <1>2, <1>4, <1>5 DEF IInv

\* A step of one request leaves the others as they were.
LEMMA StepIsLocal ==
  ASSUME ServedOK, SuccessMeansPaid, NEW r \in Request,
         wasConfirmed \subseteq wasConfirmed',
         wasAborted \subseteq wasAborted',
         \A q \in Request \ {r} :
           /\ pc'[q] = pc[q]
           /\ cmd'[q] = cmd[q]
           /\ got'[q] = got[q]
           /\ answer'[q] = answer[q],
         Served(r)',
         ReportsPaid(r)' => PaidAsReported(r)'
  PROVE  ServedOK' /\ SuccessMeansPaid'
<1>1. ASSUME NEW q \in Request \ {r} PROVE Served(q)'
  BY <1>1 DEF ServedOK, Served
<1>2. ASSUME NEW q \in Request \ {r}, ReportsPaid(q)'
      PROVE  PaidAsReported(q)'
  <2>1. PaidAsReported(q)
    BY <1>2 DEF SuccessMeansPaid, ReportsPaid
  <2> QED BY <1>2, <2>1 DEF PaidAsReported, PaysFor
<1> QED BY <1>1, <1>2 DEF ServedOK, SuccessMeansPaid

\* What a fetch returns is what the requested network says of the transaction.
LEMMA FetchedIsOfRequest ==
  ASSUME TypeOK, HistoryOK, NEW r \in Request, CanFetch(r),
         cmd[r] \in Command, cmd[r].signed \in Tx
  PROVE  LET w == Wire[cmd[r].signed]
         IN  /\ Fetched(r) \in TxRecord
             /\ w.network = NodeOf(cmd[r])
             /\ Fetched(r).tx = cmd[r].signed
             /\ Fetched(r).sender = w.sender
             /\ Fetched(r).recipient = WireRecipient(w)
             /\ Fetched(r).amount = WireAmount(w)
             /\ Fetched(r).memo = WireMemo(w)
             /\ Fetched(r).confirmed => cmd[r].signed \in wasConfirmed
             /\ Fetched(r).status \in FailedStatus =>
                  cmd[r].signed \in wasAborted
<1> DEFINE t == cmd[r].signed
<1>1. /\ Wire[t].sender \in Address
      /\ WireRecipient(Wire[t]) \in Address
      /\ WireAmount(Wire[t]) \in Uint64
  BY ParsedIsWellFormed DEF CanFetch
<1>2. TokenOf(cmd[r]) \in TokenType
  BY DEF TokenOf, NewTokenType, AssetToTokenType, TokenType, Invalid
<1>3. /\ ledger[t].status \in {"unknown", "pending", "success", "dropped"}
                                \cup AbortStatus
      /\ ledger[t].height \in 0..1
  BY DEF TypeOK, NetworkTypeOK, TxState
<1>4. IsTransactionConfirmed(ledger[t].status, ledger[t].height) \in BOOLEAN
  BY DEF IsTransactionConfirmed
<1>5. WireMemo(Wire[t]) \in {WireMemo(Wire[u]) : u \in Tx}
  OBVIOUS
<1>6. Fetched(r) \in TxRecord
  BY <1>1, <1>2, <1>3, <1>4, <1>5
  DEF Fetched, ParseTransactionResponse, TxRecord
<1>7. /\ Fetched(r).confirmed => t \in wasConfirmed
      /\ Fetched(r).status \in FailedStatus => t \in wasAborted
  BY DEF Fetched, ParseTransactionResponse, HistoryOK, ConfirmedAt
<1> QED BY <1>6, <1>7 DEF CanFetch, Fetched, ParseTransactionResponse

\* A handler that claims to have looked at the chain has: no refusal, and no
\* error of the adapter, is a success.
LEMMA ErrorIsNoSuccess ==
  ASSUME NEW c \in Command, OnChain(c)
  PROVE  /\ ~Refusal(c).success
         /\ ~BroadcastError(c).success
         /\ ~FetchError(c).success
<1>1. \A http, reason : ~Failure(http, reason).success
  BY DEF Failure, Response
<1>2. ~Refusal(c).success
  <2>1. ~NoAnswer.success
    BY <1>1 DEF NoAnswer
  <2>2. CASE c.op = "settleV1"
    BY <1>1, <2>1, <2>2 DEF Refusal, SettleV1Refusal
  <2>3. CASE c.op = "settleV2"
    BY <1>1, <2>1, <2>3 DEF Refusal, SettleV2Refusal
  <2>4. CASE c.op = "verifyV1"
    BY <1>1, <2>1, <2>4 DEF Refusal, VerifyV1Refusal
  <2> QED BY <2>2, <2>3, <2>4 DEF OnChain
<1>3. ~BroadcastError(c).success
  BY <1>1 DEF BroadcastError
<1>4. ~FetchError(c).success
  <2>1. ~Response(500, FALSE, c.signed, Absent, "",
                  "unexpected_settle_error").success
    BY DEF Response
  <2>2. CASE c.op = "settleV1"
    BY <1>1, <2>2, Zenon DEF FetchError
  <2>3. CASE c.op = "verifyV1"
    BY <1>1, <2>3, Zenon DEF FetchError
  <2>4. CASE c.op = "settleV2"
    BY <2>1, <2>4, Zenon DEF FetchError
  <2> QED BY <2>2, <2>3, <2>4 DEF OnChain
<1> QED BY <1>2, <1>3, <1>4

\* An answer that is no success ends a request safely.
LEMMA FailingIsSafe ==
  ASSUME ServedOK, SuccessMeansPaid, NEW r \in Request, NEW a,
         pc \in [Request -> PC], answer \in [Request -> AnswerRecord],
         Reply(r, a), ~a.success,
         UNCHANGED cmd, UNCHANGED got, UNCHANGED <<wasConfirmed, wasAborted>>
  PROVE  ServedOK' /\ SuccessMeansPaid'
<1>1. pc'[r] = "done" /\ answer'[r] = a
  BY DEF Reply, Goto
<1>2. \A q \in Request \ {r} : pc'[q] = pc[q] /\ answer'[q] = answer[q]
  BY DEF Reply, Goto
<1>3. Served(r)' /\ ~ReportsPaid(r)'
  BY <1>1 DEF Served, ReportsPaid
<1> QED BY <1>2, <1>3, StepIsLocal

\* A request that arrives is refused in good form, or let in rightly.
LEMMA ReceiveIsSafe ==
  ASSUME IInv, NEW r \in Request, NEW c \in Command, Receive(r, c)
  PROVE  IInv'
<1> USE DEF Receive, Reply, Goto
<1>1. UNCHANGED networkVars /\ NetworkTypeOK' /\ HistoryOK'
  BY DEF IInv, TypeOK, NetworkTypeOK, HistoryOK, ConfirmedAt, networkVars
<1>2. cmd'[r] = c /\ \A q \in Request \ {r} : cmd'[q] = cmd[q]
  BY DEF IInv, TypeOK
<1>3. /\ cmd' \in [Request -> Command \cup {NoCommand}]
      /\ onArrival' \in [Request -> SUBSET Tx]
  BY DEF IInv, TypeOK
<1>4. CASE Refusal(c) # NoAnswer
  <2>1. /\ pc' = [pc EXCEPT ![r] = "done"]
        /\ answer' = [answer EXCEPT ![r] = Refusal(c)]
    BY <1>4
  <2>2. TypeOK'
    BY <1>1, <1>3, <2>1, RefusalType DEF IInv, TypeOK, PC
  <2>3. pc'[r] = "done" /\ answer'[r] = Refusal(c)
    BY <2>1 DEF IInv, TypeOK
  <2>4. Served(r)' /\ ~ReportsPaid(r)'
    BY <1>2, <2>3, ErrorIsNoSuccess DEF Served, ReportsPaid
  <2>5. \A q \in Request \ {r} : pc'[q] = pc[q] /\ answer'[q] = answer[q]
    BY <2>1 DEF IInv, TypeOK
  <2>6. ServedOK' /\ SuccessMeansPaid'
    BY <1>1, <1>2, <2>4, <2>5, StepIsLocal DEF IInv, networkVars
  <2> QED BY <1>1, <2>2, <2>6 DEF IInv
<1>5. CASE Refusal(c) = NoAnswer
  <2>1. /\ pc' = [pc EXCEPT ![r] = IF IsSettle(c) THEN "broadcasting"
                                                  ELSE "polling"]
        /\ UNCHANGED answer
    BY <1>5
  <2>2. TypeOK'
    BY <1>1, <1>3, <2>1 DEF IInv, TypeOK, PC
  <2>3. pc'[r] = IF IsSettle(c) THEN "broadcasting" ELSE "polling"
    BY <2>1 DEF IInv, TypeOK
  <2>4. ~IsSettle(c) => c.signed \in Tx
    BY <1>5, AcceptedIsPayable
  <2>5. Served(r)' /\ ~ReportsPaid(r)'
    BY <1>2, <1>5, <2>3, <2>4 DEF Served, ReportsPaid
  <2>6. \A q \in Request \ {r} : pc'[q] = pc[q] /\ answer'[q] = answer[q]
    BY <2>1 DEF IInv, TypeOK
  <2>7. ServedOK' /\ SuccessMeansPaid'
    BY <1>1, <1>2, <2>5, <2>6, StepIsLocal DEF IInv, networkVars
  <2> QED BY <1>1, <2>2, <2>7 DEF IInv
<1> QED BY <1>4, <1>5

\* What a request in flight has been checked for.
LEMMA InFlightIsOnChain ==
  ASSUME ServedOK, NEW r \in Request,
         pc[r] \in {"broadcasting", "polling", "sleeping", "final",
                   "verifying"}
  PROVE  /\ cmd[r] \in Command
         /\ Refusal(cmd[r]) = NoAnswer
         /\ OnChain(cmd[r])
         /\ NetworkOf(cmd[r]) \in Network
BY AcceptedIsPayable DEF ServedOK, Served

\* The broadcast: the request polls, or ends without a success.
LEMMA BroadcastIsSafe ==
  ASSUME IInv, NEW r \in Request,
         BroadcastAcked(r) \/ BroadcastLost(r) \/ BroadcastRefused(r)
  PROVE  IInv'
<1>1. pc[r] = "broadcasting"
  BY DEF BroadcastAcked, BroadcastLost, BroadcastRefused, CanBroadcast
<1>2. cmd[r] \in Command /\ Refusal(cmd[r]) = NoAnswer /\ OnChain(cmd[r])
  BY <1>1, InFlightIsOnChain DEF IInv
<1>3. /\ BroadcastError(cmd[r]) \in AnswerRecord
      /\ ~BroadcastError(cmd[r]).success
  BY <1>2, ErrorType, ErrorIsNoSuccess
<1>4. CASE BroadcastAcked(r)
  <2>1. NetworkTypeOK' /\ HistoryOK' /\ UNCHANGED <<wasConfirmed, wasAborted>>
    BY <1>4, AdmitKeepsNetwork DEF BroadcastAcked, CanBroadcast, IInv, TypeOK
  <2>2. TypeOK'
    BY <1>4, <2>1 DEF BroadcastAcked, Goto, IInv, TypeOK, PC, SentState
  <2>3. pc'[r] = "polling" /\ \A q \in Request \ {r} : pc'[q] = pc[q]
    BY <1>4 DEF BroadcastAcked, Goto, IInv, TypeOK
  <2>4. Served(r)' /\ ~ReportsPaid(r)'
    BY <1>2, <1>4, <2>3 DEF BroadcastAcked, CanBroadcast, Served, ReportsPaid
  <2>5. ServedOK' /\ SuccessMeansPaid'
    BY <1>4, <2>1, <2>3, <2>4, StepIsLocal DEF BroadcastAcked, IInv
  <2> QED BY <2>1, <2>2, <2>5 DEF IInv
<1>5. CASE BroadcastLost(r)
  <2>1. NetworkTypeOK' /\ HistoryOK' /\ UNCHANGED <<wasConfirmed, wasAborted>>
    BY <1>5, AdmitKeepsNetwork DEF BroadcastLost, CanBroadcast, IInv, TypeOK
  <2>2. TypeOK'
    BY <1>3, <1>5, <2>1
    DEF BroadcastLost, Reply, Goto, IInv, TypeOK, PC, SentState
  <2>3. ServedOK' /\ SuccessMeansPaid'
    BY <1>3, <1>5, <2>1, FailingIsSafe DEF BroadcastLost, IInv, TypeOK
  <2> QED BY <2>1, <2>2, <2>3 DEF IInv
<1>6. CASE BroadcastRefused(r)
  <2>1. NetworkTypeOK' /\ HistoryOK' /\ UNCHANGED <<wasConfirmed, wasAborted>>
    BY <1>6 DEF BroadcastRefused, networkVars, IInv, TypeOK, NetworkTypeOK,
                HistoryOK, ConfirmedAt
  <2>2. TypeOK'
    BY <1>3, <1>6, <2>1
    DEF BroadcastRefused, Reply, Goto, localVars, IInv, TypeOK, PC
  <2>3. ServedOK' /\ SuccessMeansPaid'
    BY <1>3, <1>6, <2>1, FailingIsSafe
    DEF BroadcastRefused, localVars, IInv, TypeOK
  <2> QED BY <2>1, <2>2, <2>3 DEF IInv
<1> QED BY <1>4, <1>5, <1>6

\* A fetch that fails: the loop goes on, or the request ends without a success.
LEMMA FetchFailsIsSafe ==
  ASSUME IInv, NEW r \in Request, PollFails(r) \/ FinalFails(r)
  PROVE  IInv'
<1>1. NetworkTypeOK' /\ HistoryOK' /\ UNCHANGED <<wasConfirmed, wasAborted>>
  BY DEF PollFails, FinalFails, networkVars, IInv, TypeOK, NetworkTypeOK,
         HistoryOK, ConfirmedAt
<1>2. fetches' \in [Request -> Nat] /\ sighted' \in [Request -> BOOLEAN]
  BY DEF PollFails, FinalFails, CountFetch, IInv, TypeOK
<1>3. CASE PollFails(r)
  <2>1. TypeOK'
    BY <1>1, <1>2, <1>3 DEF PollFails, Goto, IInv, TypeOK, PC
  <2>2. /\ pc[r] = "polling" /\ pc'[r] = "sleeping"
        /\ \A q \in Request \ {r} : pc'[q] = pc[q]
    BY <1>3 DEF PollFails, Goto, IInv, TypeOK
  <2>3. Served(r)' /\ ~ReportsPaid(r)'
    BY <1>3, <2>2 DEF PollFails, IInv, ServedOK, Served, ReportsPaid
  <2>4. ServedOK' /\ SuccessMeansPaid'
    BY <1>1, <1>3, <2>2, <2>3, StepIsLocal DEF PollFails, IInv
  <2> QED BY <1>1, <2>1, <2>4 DEF IInv
<1>4. CASE FinalFails(r)
  <2>1. FetchError(cmd[r]) \in AnswerRecord /\ ~FetchError(cmd[r]).success
    BY <1>4, InFlightIsOnChain, ErrorType, ErrorIsNoSuccess
    DEF FinalFails, IInv
  <2>2. TypeOK'
    BY <1>1, <1>2, <1>4, <2>1 DEF FinalFails, Reply, Goto, IInv, TypeOK, PC
  <2>3. ServedOK' /\ SuccessMeansPaid'
    BY <1>1, <1>4, <2>1, FailingIsSafe DEF FinalFails, IInv, TypeOK
  <2> QED BY <1>1, <2>2, <2>3 DEF IInv
<1> QED BY <1>3, <1>4

\* A fetch that returns: the loop goes on, or the handler gets the transaction.
LEMMA FetchSeesIsSafe ==
  ASSUME IInv, NEW r \in Request, PollSees(r) \/ FinalSees(r)
  PROVE  IInv'
<1>1. NetworkTypeOK' /\ HistoryOK' /\ UNCHANGED <<wasConfirmed, wasAborted>>
  BY DEF PollSees, FinalSees, networkVars, IInv, TypeOK, NetworkTypeOK,
         HistoryOK, ConfirmedAt
<1>2. fetches' \in [Request -> Nat] /\ sighted' \in [Request -> BOOLEAN]
  <2>1. CountFetch(r, TRUE)
    BY DEF PollSees, FinalSees
  <2> QED BY <2>1 DEF CountFetch, IInv, TypeOK
<1>3. /\ pc[r] \in {"polling", "final"} /\ CanFetch(r)
      /\ UNCHANGED <<cmd, live, attempt, answer, sent, onArrival>>
  BY DEF PollSees, FinalSees
<1>4. cmd[r] \in Command /\ Refusal(cmd[r]) = NoAnswer /\ cmd[r].signed \in Tx
  BY <1>3 DEF IInv, ServedOK, Served
<1>5. CASE pc' = [pc EXCEPT ![r] = "verifying"]
           /\ got' = [got EXCEPT ![r] = Fetched(r)]
  <2>1. Fetched(r) \in TxRecord
    BY <1>3, <1>4, FetchedIsOfRequest DEF IInv
  <2>2. TypeOK'
    BY <1>1, <1>2, <1>3, <1>5, <2>1 DEF IInv, TypeOK, PC
  <2>3. /\ pc'[r] = "verifying" /\ got'[r] = Fetched(r)
        /\ \A q \in Request \ {r} : pc'[q] = pc[q] /\ got'[q] = got[q]
    BY <1>5 DEF IInv, TypeOK
  <2>4. Served(r)' /\ ~ReportsPaid(r)'
    BY <1>1, <1>3, <1>4, <2>3, FetchedIsOfRequest
    DEF IInv, Served, ReportsPaid
  <2>5. ServedOK' /\ SuccessMeansPaid'
    BY <1>1, <1>3, <2>3, <2>4, StepIsLocal DEF IInv
  <2> QED BY <1>1, <2>2, <2>5 DEF IInv
<1>6. CASE pc' = [pc EXCEPT ![r] = "sleeping"] /\ UNCHANGED got
  <2>1. TypeOK'
    BY <1>1, <1>2, <1>3, <1>6 DEF IInv, TypeOK, PC
  <2>2. /\ pc'[r] = "sleeping"
        /\ \A q \in Request \ {r} : pc'[q] = pc[q]
    BY <1>6 DEF IInv, TypeOK
  <2>3. Served(r)' /\ ~ReportsPaid(r)'
    BY <1>3, <1>4, <2>2 DEF Served, ReportsPaid
  <2>4. ServedOK' /\ SuccessMeansPaid'
    BY <1>1, <1>3, <1>6, <2>2, <2>3, StepIsLocal DEF IInv
  <2> QED BY <1>1, <2>1, <2>4 DEF IInv
<1> QED BY <1>5, <1>6 DEF PollSees, FinalSees, Goto

\* The delay: the loop goes on, or the request ends without a success.
LEMMA DelayIsSafe ==
  ASSUME IInv, NEW r \in Request, Wake(r) \/ SleepCancelled(r)
  PROVE  IInv'
<1>1. NetworkTypeOK' /\ HistoryOK' /\ UNCHANGED <<wasConfirmed, wasAborted>>
  BY DEF Wake, SleepCancelled, networkVars, IInv, TypeOK, NetworkTypeOK,
         HistoryOK, ConfirmedAt
<1>2. /\ pc[r] = "sleeping"
      /\ UNCHANGED <<cmd, live, got, sent, fetches, sighted, onArrival>>
  BY DEF Wake, SleepCancelled, localVars
<1>3. attempt' \in [Request -> Nat]
  BY DEF Wake, SleepCancelled, localVars, IInv, TypeOK
<1>4. cmd[r] \in Command /\ Refusal(cmd[r]) = NoAnswer /\ cmd[r].signed \in Tx
  BY <1>2 DEF IInv, ServedOK, Served
<1>5. CASE Reply(r, FetchError(cmd[r]))
  <2>1. FetchError(cmd[r]) \in AnswerRecord /\ ~FetchError(cmd[r]).success
    BY <1>2, InFlightIsOnChain, ErrorType, ErrorIsNoSuccess DEF IInv
  <2>2. TypeOK'
    BY <1>1, <1>2, <1>3, <1>5, <2>1 DEF Reply, Goto, IInv, TypeOK, PC
  <2>3. ServedOK' /\ SuccessMeansPaid'
    BY <1>1, <1>2, <1>5, <2>1, FailingIsSafe DEF IInv, TypeOK
  <2> QED BY <1>1, <2>2, <2>3 DEF IInv
<1>6. ASSUME NEW place \in {"polling", "final"},
             Goto(r, place), UNCHANGED answer
      PROVE  IInv'
  <2>1. TypeOK'
    BY <1>1, <1>2, <1>3, <1>6 DEF Goto, IInv, TypeOK, PC
  <2>2. pc'[r] = place /\ \A q \in Request \ {r} : pc'[q] = pc[q]
    BY <1>6 DEF Goto, IInv, TypeOK
  <2>3. Served(r)' /\ ~ReportsPaid(r)'
    BY <1>2, <1>4, <2>2 DEF Served, ReportsPaid
  <2>4. ServedOK' /\ SuccessMeansPaid'
    BY <1>1, <1>2, <1>6, <2>2, <2>3, StepIsLocal DEF IInv
  <2> QED BY <1>1, <2>1, <2>4 DEF IInv
<1> QED BY <1>5, <1>6 DEF Wake, SleepCancelled

\* The verdict: a success is one the network has vouched for.
LEMMA CompleteIsSafe ==
  ASSUME IInv, NEW r \in Request, Complete(r)
  PROVE  IInv'
<1> DEFINE c == cmd[r]
           tx == got[r]
           w == Wire[c.signed]
<1>1. /\ NetworkTypeOK' /\ HistoryOK'
      /\ UNCHANGED <<wasConfirmed, wasAborted, localVars>>
  BY DEF Complete, networkVars, IInv, TypeOK, NetworkTypeOK, HistoryOK,
         ConfirmedAt
<1>2. /\ c \in Command
      /\ c.signed \in Tx
      /\ w.network = NodeOf(c)
      /\ tx.tx = c.signed
      /\ tx.sender = w.sender
      /\ tx.recipient = WireRecipient(w)
      /\ tx.amount = WireAmount(w)
      /\ tx.memo = WireMemo(w)
      /\ tx.confirmed => c.signed \in wasConfirmed
      /\ tx.sender \in Address
  <2>1. Served(r) /\ pc[r] = "verifying" /\ c \in Command /\ c.signed \in Tx
    BY DEF Complete, IInv, ServedOK, Served
  <2>2. got[r].tx # Absent
    BY <2>1, FacilitatorAssumption DEF Served
  <2>3. got[r] \in TxRecord
    BY <2>2 DEF IInv, TypeOK, NoTx
  <2> QED BY <2>1, <2>3 DEF Served, TxRecord
<1>3. OnChain(c) /\ NetworkOf(c) \in Network
  BY InFlightIsOnChain DEF Complete, IInv
<1>4. Verdict(c, tx) \in AnswerRecord
  BY <1>2, <1>3, VerdictType
<1>5. /\ pc' = [pc EXCEPT ![r] = "done"]
      /\ answer' = [answer EXCEPT ![r] = Verdict(c, tx)]
  BY DEF Complete, Reply, Goto
<1>6. TypeOK'
  BY <1>1, <1>4, <1>5 DEF localVars, IInv, TypeOK, PC
<1>7. /\ pc'[r] = "done" /\ answer'[r] = Verdict(c, tx)
      /\ \A q \in Request \ {r} : pc'[q] = pc[q] /\ answer'[q] = answer[q]
  BY <1>5 DEF IInv, TypeOK
<1>8. Served(r)'
  BY <1>7 DEF Served
<1>9. ASSUME Verdict(c, tx).success
      PROVE  /\ Verdict(c, tx).tx = c.signed
             /\ Verdict(c, tx).payer = w.sender
             /\ PaysFor(c)
  <2>1. /\ tx.confirmed
        /\ tx.recipient = c.recipient
        /\ tx.amount >= c.amount
        /\ IsV1(c) /\ c.sender \in Address => tx.sender = c.sender
        /\ c.op = "verifyV1" /\ c.memo # Absent => tx.memo = c.memo
    BY <1>3, <1>9, VerdictIsSound
  <2>2. w.network = NetworkOf(c)
    BY <1>2, <1>3 DEF NodeOf, GetClientForNetwork, Network
  <2>3. PaysFor(c)
    BY <1>2, <2>1, <2>2 DEF PaysFor
  <2>4. Verdict(c, tx).tx = tx.tx /\ Verdict(c, tx).payer = tx.sender
    BY <1>3 DEF Verdict, Response, OnChain
  <2> QED BY <1>2, <2>3, <2>4
<1>10. ReportsPaid(r)' => PaidAsReported(r)'
  BY <1>1, <1>7, <1>9 DEF ReportsPaid, PaidAsReported, PaysFor, localVars
<1>11. ServedOK' /\ SuccessMeansPaid'
  BY <1>1, <1>7, <1>8, <1>10, StepIsLocal DEF localVars, IInv
<1> QED BY <1>1, <1>6, <1>11 DEF IInv

\* What happens outside the handlers: clients leave, the process stops, the
\* network moves.
LEMMA OutsideIsSafe ==
  ASSUME IInv, (\E r \in Request : Disconnect(r)) \/ Crash \/ Environment
  PROVE  IInv'
<1>1. ASSUME NEW r \in Request, Disconnect(r) PROVE IInv'
  <2>1. NetworkTypeOK' /\ HistoryOK'
    BY <1>1 DEF Disconnect, networkVars, IInv, TypeOK, NetworkTypeOK,
                HistoryOK, ConfirmedAt
  <2>2. TypeOK'
    BY <1>1, <2>1 DEF Disconnect, IInv, TypeOK
  <2>3. ServedOK' /\ SuccessMeansPaid'
    BY <1>1 DEF Disconnect, networkVars, IInv, ServedOK, Served,
                SuccessMeansPaid, ReportsPaid, PaidAsReported, PaysFor
  <2> QED BY <2>1, <2>2, <2>3 DEF IInv
<1>2. CASE Crash
  <2>1. NetworkTypeOK' /\ HistoryOK'
    BY <1>2 DEF Crash, networkVars, IInv, TypeOK, NetworkTypeOK,
                HistoryOK, ConfirmedAt
  <2>2. \A r \in Request : pc'[r] = pc[r] \/ pc'[r] = "lost"
    BY <1>2 DEF Crash
  <2>3. TypeOK'
    BY <1>2, <2>1 DEF Crash, localVars, IInv, TypeOK, PC
  <2>4. ASSUME NEW r \in Request
        PROVE  /\ Served(r)'
               /\ (ReportsPaid(r) => PaidAsReported(r))'
    BY <1>2, <2>2 DEF Crash, networkVars, localVars, IInv, ServedOK, Served,
                      SuccessMeansPaid, ReportsPaid, PaidAsReported, PaysFor
  <2> QED BY <2>1, <2>3, <2>4 DEF IInv, ServedOK, SuccessMeansPaid
<1>3. CASE Environment
  <2>1. /\ NetworkTypeOK' /\ HistoryOK' /\ wasConfirmed \subseteq wasConfirmed'
        /\ wasAborted \subseteq wasAborted'
        /\ UNCHANGED <<pc, answer, localVars>>
    BY <1>3, NetworkStepKeepsNetwork DEF Environment, IInv, TypeOK
  <2>2. TypeOK'
    BY <2>1 DEF localVars, IInv, TypeOK
  <2>3. ServedOK' /\ SuccessMeansPaid'
    BY <2>1 DEF localVars, IInv, ServedOK, Served, SuccessMeansPaid,
                ReportsPaid, PaidAsReported, PaysFor
  <2> QED BY <2>1, <2>2, <2>3 DEF IInv
<1> QED BY <1>1, <1>2, <1>3

\* Every step keeps the invariant.
LEMMA StepIsSafe == IInv /\ [Next]_vars => IInv'
<1> SUFFICES ASSUME IInv, [Next]_vars PROVE IInv'
  OBVIOUS
<1>1. ASSUME NEW r \in Request, NEW c \in Command, Receive(r, c) PROVE IInv'
  BY <1>1, ReceiveIsSafe
<1>2. ASSUME NEW r \in Request, HandlerStep(r) PROVE IInv'
  BY <1>2, BroadcastIsSafe, FetchFailsIsSafe, FetchSeesIsSafe, DelayIsSafe,
     CompleteIsSafe DEF HandlerStep
<1>3. CASE (\E r \in Request : Disconnect(r)) \/ Crash \/ Environment
  BY <1>3, OutsideIsSafe
<1>4. CASE UNCHANGED vars
  BY <1>4 DEF vars, networkVars, localVars, IInv, TypeOK, NetworkTypeOK,
     HistoryOK, ConfirmedAt, ServedOK, Served, SuccessMeansPaid, ReportsPaid,
     PaidAsReported, PaysFor
<1> QED BY <1>1, <1>2, <1>3, <1>4 DEF Next

\* The local variables of the handlers and their answers keep their types: a
\* transaction that parsed has addresses and a 64-bit amount.
\* (parseTransactionResponse, parseSIP010Transfer and the four handlers.)
THEOREM TypeCorrect == Spec => []TypeOK
<1>1. IInv => TypeOK
  BY DEF IInv
<1> QED BY <1>1, InitIsSafe, StepIsSafe, PTL DEF Spec

\* What a settlement or a v1 verification reports successful was paid, whatever
\* the requests do to one another, the clients, the process and the networks
\* do to them, and however long they poll.  (Handle of the three handlers that
\* look at a transaction.)
THEOREM SuccessIsPaid == Spec => []SuccessMeansPaid
<1>1. IInv => SuccessMeansPaid
  BY DEF IInv
<1> QED BY <1>1, InitIsSafe, StepIsSafe, PTL DEF Spec

\* What a handler verifies is what the requested network said of the
\* transaction of its own request.  (getClientForNetwork and the value that
\* WaitForConfirmation and GetTransactionWithRetry return.)
THEOREM HandlersWorkOnTheirOwn == Spec => []ServedOK
<1>1. IInv => ServedOK
  BY DEF IInv
<1> QED BY <1>1, InitIsSafe, StepIsSafe, PTL DEF Spec
=============================================================================
