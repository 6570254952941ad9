---------------------- MODULE FacilitatorContractProofs ----------------------
(***************************************************************************)
(* The facilitator implements the settlement contract, for every set of    *)
(* requests, commands and transactions and every number of retries, and    *)
(* what it broadcasts is payable and named in the answer.                  *)
(***************************************************************************)
EXTENDS FacilitatorContract, FacilitatorProofs

-----------------------------------------------------------------------------
(* The verification service: which error it reports first.                 *)

\* The first element of a concatenation.
LEMMA HeadOfConcat ==
  ASSUME NEW T, NEW s \in Seq(T), NEW t \in Seq(T)
  PROVE  /\ s = << >> => s \o t = t
         /\ s # << >> => s \o t # << >> /\ (s \o t)[1] = s[1]
<1>1. Len(s \o t) = Len(s) + Len(t) /\ Len(s) \in Nat /\ Len(t) \in Nat
  OBVIOUS
<1>2. CASE s = << >>
  BY <1>2
<1>3. CASE s # << >>
  <2>1. Len(s) > 0
    BY <1>1, <1>3
  <2>2. (s \o t)[1] = s[1]
    BY <2>1, <1>1
  <2>3. Len(s \o t) # 0
    BY <2>1, <1>1
  <2> QED BY <2>2, <2>3, <1>3
<1> QED BY <1>2, <1>3

\* The errors come in order: a failed transaction first, then one that is not
\* confirmed, then what a confirmed one does not pay.
LEMMA FirstError ==
  ASSUME NEW tx, NEW criteria, Verify(tx, criteria) # << >>
  PROVE  LET e == Verify(tx, criteria)[1]
         IN  \/ /\ e = "transaction_failed_with_status"
                /\ tx.status \in FailedStatus
             \/ /\ e = "transaction_not_confirmed"
                /\ tx.status \notin FailedStatus
                /\ ~tx.confirmed
             \/ /\ e = "recipient_mismatch"
                /\ criteria.acceptUnconfirmed \/ tx.confirmed
                /\ tx.recipient # criteria.recipient
             \/ /\ e = "insufficient_amount"
                /\ criteria.acceptUnconfirmed \/ tx.confirmed
                /\ ~(tx.amount >= criteria.amount)
             \/ /\ e = "sender_mismatch"
                /\ criteria.acceptUnconfirmed \/ tx.confirmed
                /\ criteria.sender # Absent /\ tx.sender # criteria.sender
             \/ /\ e = "memo_mismatch"
                /\ criteria.acceptUnconfirmed \/ tx.confirmed
                /\ criteria.memo # Absent /\ tx.memo # criteria.memo
<1> DEFINE T == {"transaction_failed_with_status", "transaction_not_confirmed",
                 "recipient_mismatch", "insufficient_amount",
                 "sender_mismatch", "memo_mismatch"}
           r1 == Report(tx.status \in FailedStatus,
                        "transaction_failed_with_status")
           r2 == Report(~criteria.acceptUnconfirmed /\ ~tx.confirmed,
                        "transaction_not_confirmed")
           r3 == Report(tx.recipient # criteria.recipient,
                        "recipient_mismatch")
           r4 == Report(~IsGreaterThanOrEqual(tx.amount, criteria.amount),
                        "insufficient_amount")
           r5 == Report(criteria.sender # Absent
                          /\ tx.sender # criteria.sender, "sender_mismatch")
           r6 == Report(criteria.memo # Absent
                          /\ tx.memo # criteria.memo, "memo_mismatch")
<1>0. << >> \in Seq(T) /\ \A m \in T : <<m>> \in Seq(T)
  OBVIOUS
<1>1. /\ \/ r1 = << >> /\ tx.status \notin FailedStatus
         \/ /\ r1 = <<"transaction_failed_with_status">>
            /\ tx.status \in FailedStatus
      /\ \/ r2 = << >> /\ (criteria.acceptUnconfirmed \/ tx.confirmed)
         \/ r2 = <<"transaction_not_confirmed">> /\ ~tx.confirmed
      /\ r3 = << >> \/ (/\ r3 = <<"recipient_mismatch">>
                        /\ tx.recipient # criteria.recipient)
      /\ r4 = << >> \/ (/\ r4 = <<"insufficient_amount">>
                        /\ ~(tx.amount >= criteria.amount))
      /\ r5 = << >> \/ (/\ r5 = <<"sender_mismatch">>
                        /\ criteria.sender # Absent
                        /\ tx.sender # criteria.sender)
      /\ r6 = << >> \/ (/\ r6 = <<"memo_mismatch">>
                        /\ criteria.memo # Absent
                        /\ tx.memo # criteria.memo)
  BY DEF Report, IsGreaterThanOrEqual
<1>2. r1 \o r2 \o r3 \o r4 \o r5 \o r6 = Verify(tx, criteria)
  BY DEF Verify
<1> HIDE DEF r1, r2, r3, r4, r5, r6
<1>3. /\ r1 \in Seq(T) /\ r2 \in Seq(T) /\ r3 \in Seq(T)
      /\ r4 \in Seq(T) /\ r5 \in Seq(T) /\ r6 \in Seq(T)
  BY <1>0, <1>1
<1> HIDE DEF T
<1> DEFINE p2 == r1 \o r2
           p3 == p2 \o r3
           p4 == p3 \o r4
           p5 == p4 \o r5
           p6 == p5 \o r6
<1>4. p2 \in Seq(T) /\ p3 \in Seq(T) /\ p4 \in Seq(T) /\ p5 \in Seq(T)
  BY <1>3
<1>5. /\ r1 = << >> => p2 = r2
      /\ r1 # << >> => p2 # << >> /\ p2[1] = r1[1]
  BY <1>3, HeadOfConcat
<1>6. /\ p2 = << >> => p3 = r3
      /\ p2 # << >> => p3 # << >> /\ p3[1] = p2[1]
  BY <1>3, <1>4, HeadOfConcat
<1>7. /\ p3 = << >> => p4 = r4
      /\ p3 # << >> => p4 # << >> /\ p4[1] = p3[1]
  BY <1>3, <1>4, HeadOfConcat
<1>8. /\ p4 = << >> => p5 = r5
      /\ p4 # << >> => p5 # << >> /\ p5[1] = p4[1]
  BY <1>3, <1>4, HeadOfConcat
<1>9. /\ p5 = << >> => p6 = r6
      /\ p5 # << >> => p6 # << >> /\ p6[1] = p5[1]
  BY <1>3, <1>4, HeadOfConcat
<1>10. p6 = Verify(tx, criteria) /\ p6 # << >>
  BY <1>2
<1> HIDE DEF p2, p3, p4, p5, p6
<1>11. CASE r1 # << >>
  <2>1. p6[1] = r1[1]
    BY <1>5, <1>6, <1>7, <1>8, <1>9, <1>11
  <2> QED BY <1>1, <1>10, <1>11, <2>1
<1>12. CASE r1 = << >> /\ r2 # << >>
  <2>1. p6[1] = r2[1]
    BY <1>5, <1>6, <1>7, <1>8, <1>9, <1>12
  <2> QED BY <1>1, <1>10, <1>12, <2>1
<1>13. CASE r1 = << >> /\ r2 = << >> /\ r3 # << >>
  <2>1. p6[1] = r3[1]
    BY <1>5, <1>6, <1>7, <1>8, <1>9, <1>13
  <2> QED BY <1>1, <1>10, <1>13, <2>1
<1>14. CASE r1 = << >> /\ r2 = << >> /\ r3 = << >> /\ r4 # << >>
  <2>1. p6[1] = r4[1]
    BY <1>5, <1>6, <1>7, <1>8, <1>9, <1>14
  <2> QED BY <1>1, <1>10, <1>14, <2>1
<1>15. CASE /\ r1 = << >> /\ r2 = << >> /\ r3 = << >> /\ r4 = << >>
            /\ r5 # << >>
  <2>1. p6[1] = r5[1]
    BY <1>5, <1>6, <1>7, <1>8, <1>9, <1>15
  <2> QED BY <1>1, <1>10, <1>15, <2>1
<1>16. CASE /\ r1 = << >> /\ r2 = << >> /\ r3 = << >> /\ r4 = << >>
            /\ r5 = << >>
  <2>1. p6 = r6
    BY <1>5, <1>6, <1>7, <1>8, <1>9, <1>16
  <2> QED BY <1>1, <1>10, <1>16, <2>1
<1> QED BY <1>11, <1>12, <1>13, <1>14, <1>15, <1>16

\* What the transaction does not pay of what c asks.
Mismatch(c, tx) ==
  \/ tx.recipient # c.recipient
  \/ ~(tx.amount >= c.amount)
  \/ IsV1(c) /\ c.sender \in Address /\ tx.sender # c.sender
  \/ c.op = "verifyV1" /\ c.memo # Absent /\ tx.memo # c.memo

\* The translation of an error keeps what it says of the payment.
LEMMA ReasonSays ==
  ASSUME NEW m
  PROVE  LET reason == MapVerificationErrorToV2(m)
         IN  /\ reason = "transaction_failed" =>
                   m = "transaction_failed_with_status"
             /\ reason \in {"recipient_mismatch", "amount_insufficient"} =>
                   m \in {"recipient_mismatch", "insufficient_amount"}
<1>1. CASE m = "recipient_mismatch"
  BY <1>1, ReasonOfMessage
<1>2. CASE m = "insufficient_amount"
  BY <1>2, ReasonOfMessage
<1>3. CASE m = "sender_mismatch"
  BY <1>3, ReasonOfMessage
<1>4. CASE m = "transaction_failed_with_status"
  BY <1>4, ReasonOfMessage
<1>5. CASE m \notin {"recipient_mismatch", "insufficient_amount",
                    "sender_mismatch", "transaction_failed_with_status"}
  <2>1. MapVerificationErrorToV2(m) = "unexpected_settle_error"
    BY <1>5, ReasonOfMessage
  <2> QED BY <2>1
<1> QED BY <1>1, <1>2, <1>3, <1>4, <1>5

\* What a verdict says of the payment is what the transaction shows.
LEMMA VerdictSays ==
  ASSUME NEW c, OnChain(c), NEW tx, tx.confirmed => tx.status = "success"
  PROVE  LET a == Verdict(c, tx)
         IN  /\ a.http \in {200, 400}
             /\ a.tx = tx.tx
             /\ SaysFailed(a) => tx.status \in FailedStatus
             /\ ~a.success /\ SaysConfirmed(a) =>
                  tx.confirmed /\ Mismatch(c, tx)
<1> DEFINE errors == Verify(tx, Criteria(c))
           a == Verdict(c, tx)
           status == DeterminePaymentStatus(tx)
           reason == MapVerificationErrorToV2(errors[1])
<1>1. /\ status = "confirmed" => tx.confirmed
      /\ status = "failed" => tx.status \in FailedStatus
  BY DEF DeterminePaymentStatus
<1>2. /\ ~Criteria(c).acceptUnconfirmed
      /\ Criteria(c).recipient = c.recipient
      /\ Criteria(c).amount = c.amount
      /\ Criteria(c).sender # Absent =>
           IsV1(c) /\ c.sender \in Address /\ Criteria(c).sender = c.sender
      /\ Criteria(c).memo # Absent =>
           c.op = "verifyV1" /\ Criteria(c).memo = c.memo
  BY DEF Criteria, ExpectedSender, OnChain, IsV1
<1>3. ASSUME errors # << >>, errors[1] # "transaction_failed_with_status",
             errors[1] # "transaction_not_confirmed"
      PROVE  tx.confirmed /\ Mismatch(c, tx)
  BY <1>2, <1>3, FirstError DEF Mismatch
<1>4. ASSUME errors # << >>, tx.confirmed PROVE Mismatch(c, tx)
  <2>1. tx.status \notin FailedStatus
    BY <1>4 DEF FailedStatus
  <2> QED BY <1>2, <1>4, <2>1, FirstError DEF Mismatch
<1>5. errors # << >> /\ errors[1] = "transaction_failed_with_status" =>
        tx.status \in FailedStatus
  BY FirstError
<1>6. CASE c.op = "settleV1"
  <2>1. /\ a.tx = tx.tx
        /\ a.status = status
        /\ a.reason = ""
    BY <1>6 DEF Verdict, Response
  <2>2. a.success <=> errors = << >>
    BY <1>6 DEF Verdict, Response
  <2>3. a.http = 200 \/ a.http = 400
    <3>1. errors = << >> => a.http = 200
      BY <1>6 DEF Verdict, Response
    <3>2. errors # << >> => a.http = 400
      BY <1>6 DEF Verdict, Response
    <3> QED BY <3>1, <3>2
  <2> HIDE DEF status, errors
  <2>4. SaysFailed(a) => tx.status \in FailedStatus
    BY <2>1, <1>1 DEF SaysFailed
  <2>5. ~a.success /\ SaysConfirmed(a) => tx.confirmed /\ Mismatch(c, tx)
    BY <2>1, <2>2, <1>1, <1>4 DEF SaysConfirmed
  <2> QED BY <2>1, <2>3, <2>4, <2>5
<1>7. CASE c.op = "verifyV1"
  <2>1. /\ a.tx = tx.tx
        /\ a.status = status
        /\ a.reason = ""
    BY <1>7 DEF Verdict, Response
  <2>2. a.success <=> errors = << >>
    BY <1>7 DEF Verdict, Response
  <2>3. a.http = 200 \/ a.http = 400
    BY <1>7 DEF Verdict, Response
  <2> HIDE DEF status, errors
  <2>4. SaysFailed(a) => tx.status \in FailedStatus
    BY <2>1, <1>1 DEF SaysFailed
  <2>5. ~a.success /\ SaysConfirmed(a) => tx.confirmed /\ Mismatch(c, tx)
    BY <2>1, <2>2, <1>1, <1>4 DEF SaysConfirmed
  <2> QED BY <2>1, <2>3, <2>4, <2>5
<1>8. CASE c.op = "settleV2"
  <2>1. /\ a.tx = tx.tx
        /\ a.status = ""
        /\ a.reason = IF errors = << >> THEN "" ELSE reason
    BY <1>8 DEF Verdict, Response
  <2>2. a.success <=> errors = << >>
    BY <1>8 DEF Verdict, Response
  <2>3. a.http = 200 \/ a.http = 400
    <3>1. errors = << >> => a.http = 200
      BY <1>8 DEF Verdict, Response
    <3>2. errors # << >> => a.http = 400
      BY <1>8 DEF Verdict, Response
    <3> QED BY <3>1, <3>2
  <2>4. /\ reason = "transaction_failed" =>
             errors[1] = "transaction_failed_with_status"
        /\ reason \in {"recipient_mismatch", "amount_insufficient"} =>
             errors[1] \in {"recipient_mismatch", "insufficient_amount"}
    BY ReasonSays
  <2> HIDE DEF errors, reason
  <2>5. SaysFailed(a) => tx.status \in FailedStatus
    BY <2>1, <2>4, <1>5 DEF SaysFailed
  <2>6. ~a.success /\ SaysConfirmed(a) => tx.confirmed /\ Mismatch(c, tx)
    BY <2>1, <2>2, <2>4, <1>3 DEF SaysConfirmed
  <2> QED BY <2>1, <2>3, <2>5, <2>6
<1> QED BY <1>6, <1>7, <1>8 DEF OnChain

\* A refusal names no transaction and is no claim about the chain.
LEMMA RefusalSays ==
  ASSUME NEW c \in Command
  PROVE  /\ Refusal(c).tx = Absent
         /\ OutcomeOf(c, Refusal(c)) \in {"refused", "unsure", "checked"}
         /\ OutcomeOf(c, Refusal(c)) = "checked" => c \in CheckingCommand
<1>1. c.op \in {"settleV1", "settleV2", "verifyV1", "verifyV2"}
  BY FacilitatorAssumption
<1>2. SettleV1Refusal(c).tx = Absent /\ VerifyV1Refusal(c).tx = Absent
  BY DEF SettleV1Refusal, VerifyV1Refusal, NoAnswer, Failure, Response
<1>3. Refusal(c).tx = Absent
  <2>1. SettleV2Refusal(c).tx = Absent
    BY DEF SettleV2Refusal, NoAnswer, Failure, Response
  <2>2. VerifyV2Answer(c).tx = Absent
    BY DEF VerifyV2Answer, Failure, Response
  <2> QED BY <1>1, <1>2, <2>1, <2>2 DEF Refusal
<1>4. c.op # "verifyV2" => ~Refusal(c).success
  BY <1>1, ErrorIsNoSuccess DEF OnChain
<1> QED BY <1>3, <1>4 DEF OutcomeOf, CheckingCommand

\* The errors of the adapter are server errors, and v2 names in them what it
\* has broadcast.
LEMMA ErrorSays ==
  ASSUME NEW c \in Command, OnChain(c)
  PROVE  /\ BroadcastError(c).http = 500
         /\ FetchError(c).http = 500
         /\ c.op = "settleV2" => FetchError(c).tx = c.signed
<1>1. \A reason : Failure(500, reason).http = 500
  BY DEF Failure, Response
<1>2. BroadcastError(c).http = 500
  BY <1>1 DEF BroadcastError
<1>3. LET a == Response(500, FALSE, c.signed, Absent, "",
                        "unexpected_settle_error")
      IN  a.http = 500 /\ a.tx = c.signed
  BY DEF Response
<1>4. CASE c.op = "settleV1"
  BY <1>1, <1>2, <1>4 DEF FetchError
<1>5. CASE c.op = "verifyV1"
  BY <1>1, <1>2, <1>5 DEF FetchError
<1>6. CASE c.op = "settleV2"
  BY <1>2, <1>3, <1>6 DEF FetchError
<1> QED BY <1>4, <1>5, <1>6 DEF OnChain

-----------------------------------------------------------------------------
(* What the process knows of a request in each place.                      *)

Fetching == {"polling", "sleeping", "final", "verifying"}

Booked(r) ==
  LET c == cmd[r]
  IN  /\ pc[r] = "idle" => c = NoCommand /\ sent[r] = "no"
      /\ pc[r] # "idle" => c \in Command
      /\ pc[r] = "broadcasting" => IsSettle(c) /\ sent[r] = "no"
      /\ pc[r] \in Fetching /\ IsSettle(c) => sent[r] = "acked"
      /\ pc[r] = "verifying" /\ got[r].confirmed => got[r].status = "success"
      /\ sent[r] # "no" => IsSettle(c) /\ Payable(c)
      /\ pc[r] = "done" /\ sent[r] # "no" => NamesAdmitted(r)

Books == \A r \in Request : Booked(r)

\* The books of a request depend on its own variables alone.
LEMMA BookedLocally ==
  ASSUME Books, NEW r \in Request, Booked(r)',
         \A q \in Request \ {r} :
           /\ pc'[q] = pc[q]
           /\ cmd'[q] = cmd[q]
           /\ got'[q] = got[q]
           /\ sent'[q] = sent[q]
           /\ answer'[q] = answer[q]
  PROVE  Books'
<1>1. ASSUME NEW q \in Request \ {r} PROVE Booked(q)'
  BY <1>1 DEF Books, Booked, NamesAdmitted
<1> QED BY <1>1 DEF Books

\* The books start empty.
LEMMA InitBooks == Init => Books
BY DEF Init, Books, Booked, Fetching

\* Opening the books of a request: nothing is sent, nothing fetched.
LEMMA ReceiveBooks ==
  ASSUME TypeOK, Books, NEW r \in Request, NEW c \in Command, Receive(r, c)
  PROVE  Books'
<1>1. /\ cmd'[r] = c /\ sent'[r] = "no" /\ sent' = sent /\ got' = got
      /\ pc'[r] \in {"done", "broadcasting", "polling"}
      /\ pc'[r] = "broadcasting" => IsSettle(c)
      /\ pc'[r] = "polling" => ~IsSettle(c)
      /\ \A q \in Request \ {r} : /\ pc'[q] = pc[q]
                                  /\ cmd'[q] = cmd[q]
                                  /\ answer'[q] = answer[q]
  BY DEF Receive, Reply, Goto, TypeOK, Books, Booked
<1>2. Booked(r)'
  BY <1>1 DEF Booked, Fetching
<1> QED BY <1>1, <1>2, BookedLocally

\* The outcomes of the POST are entered.
LEMMA BroadcastBooks ==
  ASSUME IInv, Books, NEW r \in Request,
         BroadcastAcked(r) \/ BroadcastLost(r) \/ BroadcastRefused(r)
  PROVE  Books'
<1>1. /\ pc[r] = "broadcasting" /\ UNCHANGED <<cmd, got>>
      /\ \A q \in Request \ {r} : /\ pc'[q] = pc[q]
                                  /\ sent'[q] = sent[q]
                                  /\ answer'[q] = answer[q]
  BY DEF BroadcastAcked, BroadcastLost, BroadcastRefused, CanBroadcast, Reply,
         Goto, localVars, IInv, TypeOK
<1>2. /\ cmd[r] \in Command /\ Refusal(cmd[r]) = NoAnswer /\ OnChain(cmd[r])
      /\ NetworkOf(cmd[r]) \in Network
  BY <1>1, InFlightIsOnChain DEF IInv
<1>3. IsSettle(cmd[r])
  BY <1>1 DEF Books, Booked
<1>4. CanBroadcast(r) => Payable(cmd[r])
  BY <1>2, AcceptedIsPayable
  DEF CanBroadcast, Payable, NodeOf, GetClientForNetwork, Network
<1>5. CASE BroadcastAcked(r)
  <2>1. pc'[r] = "polling" /\ sent'[r] = "acked" /\ Payable(cmd[r])
    BY <1>4, <1>5 DEF BroadcastAcked, Goto, IInv, TypeOK
  <2>2. Booked(r)'
    BY <1>1, <1>2, <1>3, <2>1
    DEF Booked, Payable, Fetching, IsSettle
  <2> QED BY <1>1, <1>5, <2>2, BookedLocally
<1>6. CASE BroadcastLost(r)
  <2>1. /\ pc'[r] = "done" /\ sent'[r] = "admitted" /\ Payable(cmd[r])
        /\ answer'[r] = BroadcastError(cmd[r])
    BY <1>4, <1>6 DEF BroadcastLost, Reply, Goto, IInv, TypeOK
  <2>2. NamesAdmitted(r)'
    BY <1>2, <2>1, ErrorSays DEF NamesAdmitted
  <2>3. Booked(r)'
    BY <1>1, <1>2, <1>3, <2>1, <2>2
    DEF Booked, Payable, Fetching, IsSettle
  <2> QED BY <1>1, <2>3, BookedLocally
<1>7. CASE BroadcastRefused(r)
  <2>1. pc'[r] = "done" /\ sent'[r] = "no"
    BY <1>1, <1>7
    DEF BroadcastRefused, Reply, Goto, localVars, IInv, TypeOK, Books, Booked
  <2>2. Booked(r)'
    BY <1>1, <1>2, <2>1 DEF Booked, Fetching
  <2> QED BY <1>1, <2>2, BookedLocally
<1> QED BY <1>5, <1>6, <1>7

\* A step of the loop that does not answer.
LEMMA LoopBooks ==
  ASSUME IInv, Books, NEW r \in Request,
         pc[r] \in {"polling", "sleeping", "final"},
         NEW place \in Fetching, Goto(r, place),
         UNCHANGED <<cmd, sent, answer>>,
         \A q \in Request \ {r} : got'[q] = got[q],
         place = "verifying" /\ got'[r].confirmed =>
           got'[r].status = "success"
  PROVE  Books'
<1>1. pc'[r] = place /\ \A q \in Request \ {r} : pc'[q] = pc[q]
  BY DEF Goto, IInv, TypeOK
<1>2. Booked(r)
  BY DEF Books
<1>3. Booked(r)'
  BY <1>1, <1>2 DEF Booked, Payable, Fetching
<1> QED BY <1>1, <1>3, BookedLocally

\* A step of the loop that answers with the error of the adapter.
LEMMA ErrorBooks ==
  ASSUME IInv, Books, NEW r \in Request,
         pc[r] \in {"sleeping", "final"},
         Reply(r, FetchError(cmd[r])), UNCHANGED <<cmd, sent, got>>
  PROVE  Books'
<1>1. /\ pc'[r] = "done" /\ answer'[r] = FetchError(cmd[r])
      /\ \A q \in Request \ {r} : pc'[q] = pc[q] /\ answer'[q] = answer[q]
  BY DEF Reply, Goto, IInv, TypeOK
<1>2. cmd[r] \in Command /\ OnChain(cmd[r])
  BY InFlightIsOnChain DEF IInv
<1>3. NamesAdmitted(r)'
  BY <1>1, <1>2, ErrorSays DEF NamesAdmitted
<1>4. Booked(r)'
  BY <1>1, <1>2, <1>3 DEF Books, Booked, Payable, Fetching
<1> QED BY <1>1, <1>4, BookedLocally

\* What is fetched is confirmed only with the status of a success.
LEMMA FetchedStatus ==
  ASSUME NEW r \in Request
  PROVE  Fetched(r).confirmed => Fetched(r).status = "success"
BY DEF Fetched, ParseTransactionResponse, IsTransactionConfirmed

\* So are those of a GET.
LEMMA FetchBooks ==
  ASSUME IInv, Books, NEW r \in Request,
         PollFails(r) \/ PollSees(r) \/ FinalFails(r) \/ FinalSees(r)
  PROVE  Books'
<1>1. CASE PollFails(r)
  BY <1>1, LoopBooks DEF PollFails, Fetching
<1>2. CASE FinalFails(r)
  BY <1>2, ErrorBooks DEF FinalFails
<1>3. ASSUME pc[r] \in {"polling", "final"}, Goto(r, "verifying"),
             got' = [got EXCEPT ![r] = Fetched(r)],
             UNCHANGED <<cmd, sent, answer>>
      PROVE  Books'
  <2>1. got'[r] = Fetched(r) /\ \A q \in Request \ {r} : got'[q] = got[q]
    BY <1>3 DEF IInv, TypeOK
  <2> QED BY <1>3, <2>1, FetchedStatus, LoopBooks DEF Fetching
<1>4. CASE PollSees(r)
  <2>1. CASE Goto(r, "sleeping") /\ UNCHANGED got
    BY <1>4, <2>1, LoopBooks DEF PollSees, Fetching
  <2> QED BY <1>3, <1>4, <2>1 DEF PollSees
<1>5. CASE FinalSees(r)
  BY <1>3, <1>5 DEF FinalSees
<1> QED BY <1>1, <1>2, <1>4, <1>5

\* The delays keep the books.
LEMMA DelayBooks ==
  ASSUME IInv, Books, NEW r \in Request, Wake(r) \/ SleepCancelled(r)
  PROVE  Books'
<1>1. pc[r] = "sleeping" /\ UNCHANGED <<cmd, sent, got>>
  BY DEF Wake, SleepCancelled, localVars
<1>2. CASE Reply(r, FetchError(cmd[r]))
  BY <1>1, <1>2, ErrorBooks
<1>3. ASSUME NEW place \in {"polling", "final"}, Goto(r, place),
             UNCHANGED answer
      PROVE  Books'
  BY <1>1, <1>3, LoopBooks DEF Fetching
<1> QED BY <1>2, <1>3 DEF Wake, SleepCancelled

\* What a request that is about to answer holds.
LEMMA HeldByHandler ==
  ASSUME IInv, Books, NEW r \in Request, pc[r] = "verifying"
  PROVE  LET c == cmd[r]
             w == Wire[c.signed]
         IN  /\ c \in Command /\ OnChain(c) /\ c.signed \in Tx
             /\ w.network = NetworkOf(c)
             /\ got[r].tx = c.signed
             /\ got[r].sender = w.sender
             /\ got[r].recipient = WireRecipient(w)
             /\ got[r].amount = WireAmount(w)
             /\ got[r].memo = WireMemo(w)
             /\ got[r].confirmed => c.signed \in wasConfirmed
             /\ got[r].confirmed => got[r].status = "success"
             /\ got[r].status \in FailedStatus => c.signed \in wasAborted
<1>1. Served(r) /\ Booked(r)
  BY DEF IInv, ServedOK, Books
<1>2. OnChain(cmd[r]) /\ NetworkOf(cmd[r]) \in Network
  BY InFlightIsOnChain DEF IInv
<1> QED
  BY <1>1, <1>2
  DEF Served, Booked, NodeOf, GetClientForNetwork, Network

\* So does the verdict on the transaction that was fetched.
LEMMA CompleteBooks ==
  ASSUME IInv, Books, NEW r \in Request, Complete(r)
  PROVE  Books'
<1>1. /\ pc'[r] = "done" /\ answer'[r] = Verdict(cmd[r], got[r])
      /\ \A q \in Request \ {r} : pc'[q] = pc[q] /\ answer'[q] = answer[q]
      /\ UNCHANGED <<cmd, got, sent>> /\ pc[r] = "verifying"
  BY DEF Complete, Reply, Goto, localVars, IInv, TypeOK
<1>2. Verdict(cmd[r], got[r]).tx = cmd[r].signed
  BY <1>1, HeldByHandler, VerdictSays
<1>3. NamesAdmitted(r)'
  BY <1>1, <1>2 DEF NamesAdmitted
<1>4. Booked(r)'
  BY <1>1, <1>3 DEF Books, Booked, Payable, Fetching
<1> QED BY <1>1, <1>4, BookedLocally

\* The clients, the process and the networks write nothing into them.
LEMMA OutsideBooks ==
  ASSUME IInv, Books,
         (\E r \in Request : Disconnect(r)) \/ Crash \/ Environment
  PROVE  Books'
<1>1. UNCHANGED <<cmd, got, sent, answer>>
  BY DEF Disconnect, Crash, Environment, localVars
<1>2. \A q \in Request : pc'[q] = pc[q] \/ (pc[q] # "idle" /\ pc'[q] = "lost")
  BY DEF Disconnect, Crash, Environment, InFlight, IInv, TypeOK
<1>3. ASSUME NEW q \in Request PROVE Booked(q)'
  BY <1>1, <1>2 DEF Books, Booked, Payable, NamesAdmitted, Fetching
<1> QED BY <1>3 DEF Books

\* Every step keeps the books.
LEMMA StepBooks == IInv /\ Books /\ [Next]_vars => Books'
<1> SUFFICES ASSUME IInv, Books, [Next]_vars PROVE Books'
  OBVIOUS
<1>1. ASSUME NEW r \in Request, NEW c \in Command, Receive(r, c) PROVE Books'
  BY <1>1, ReceiveBooks DEF IInv
<1>2. ASSUME NEW r \in Request, HandlerStep(r) PROVE Books'
  BY <1>2, BroadcastBooks, FetchBooks, DelayBooks, CompleteBooks
  DEF HandlerStep
<1>3. CASE (\E r \in Request : Disconnect(r)) \/ Crash \/ Environment
  BY <1>3, OutsideBooks
<1>4. CASE UNCHANGED vars
  BY <1>4 DEF vars, localVars, Books, Booked, Payable, NamesAdmitted
<1> QED BY <1>1, <1>2, <1>3, <1>4 DEF Next

\* The variables of a request record what became of its broadcast and of its
\* answer (SettlePaymentHandler, SettlePaymentHandlerV2): the invariant from
\* which the rest follows.
THEOREM BooksAreKept == Spec => [](IInv /\ Books)
<1>1. Init => IInv /\ Books
  BY InitIsSafe, InitBooks
<1>2. IInv /\ Books /\ [Next]_vars => (IInv /\ Books)'
  BY StepIsSafe, StepBooks
<1> QED BY <1>1, <1>2, PTL DEF Spec

\* Nothing is broadcast for a request that no payment could satisfy.  (The
\* checks before BroadcastTransaction in the two settle handlers.)
THEOREM BroadcastIsPayable == Spec => []BroadcastOnlyWhenPayable
<1>1. IInv /\ Books => BroadcastOnlyWhenPayable
  BY DEF Books, Booked, BroadcastOnlyWhenPayable
<1> QED BY <1>1, BooksAreKept, PTL

\* What the network has admitted is named in the answer, or the answer is a
\* server error; v2 names it even there once the broadcast was acknowledged.
\* (The results and errors of the settle handlers, SettleV1 and Settle.)
THEOREM AdmittedIsInAnswer == Spec => []AdmittedIsNamed
<1>1. IInv /\ Books => AdmittedIsNamed
  BY DEF Books, Booked, AdmittedIsNamed
<1> QED BY <1>1, BooksAreKept, PTL

-----------------------------------------------------------------------------
(* The refinement: every step is a step of the contract, or a stutter.     *)

CNext == [Contract!ContractNext]_(Contract!contractVars)

\* A request that is being served gave its order and was told nothing.
LEMMA ServedIsWaiting ==
  ASSUME TypeOK, Books, NEW r \in Request
  PROVE  /\ Contract!Waiting(r) <=> r \in InFlight
         /\ pc[r] = "idle" <=> cmd[r] = NoCommand
<1>1. \A a : OutcomeOf(cmd[r], a) # "nothing"
  BY DEF OutcomeOf
<1>2. NoCommand \notin Command
  BY FacilitatorAssumption DEF NoCommand
<1>3. pc[r] = "idle" <=> cmd[r] = NoCommand
  BY <1>2 DEF Books, Booked
<1>4. [q \in Request |-> ToldTo(q)][r] = ToldTo(r)
  OBVIOUS
<1>5. ToldTo(r) = "nothing" <=> pc[r] \notin {"done", "lost"}
  BY <1>1 DEF ToldTo
<1> QED
  BY <1>3, <1>4, <1>5
  DEF Contract!Waiting, Contract!NoOrder, NoCommand, InFlight

\* A step of one request changes what that request is told.
LEMMA ToldLocally ==
  ASSUME NEW r \in Request,
         \A q \in Request \ {r} :
           /\ pc'[q] = pc[q]
           /\ cmd'[q] = cmd[q]
           /\ answer'[q] = answer[q]
  PROVE  [q \in Request |-> ToldTo(q)'] =
           [[q \in Request |-> ToldTo(q)] EXCEPT ![r] = ToldTo(r)']
<1>1. \A q \in Request \ {r} : ToldTo(q)' = ToldTo(q)
  BY DEF ToldTo
<1> QED BY <1>1

\* The process starts where the contract does.
LEMMA InitGivesContract == Init => Contract!ContractInit
<1> SUFFICES ASSUME Init PROVE Contract!ContractInit
  OBVIOUS
<1>1. {r \in Request : sent[r] # "no"} = {}
  BY DEF Init
<1>2. [r \in Request |-> ToldTo(r)] = [r \in Request |-> "nothing"]
  BY DEF Init, ToldTo
<1> QED
  BY <1>1, <1>2
  DEF Init, NetworkInit, Contract!ContractInit, Contract!NoOrder, NoCommand

\* An order is taken, or answered before anything is submitted.
LEMMA ReceiveKeepsContract ==
  ASSUME IInv, Books, NEW r \in Request, NEW c \in Command, Receive(r, c)
  PROVE  CNext
<1>1. /\ pc[r] = "idle" /\ cmd[r] = NoCommand
      /\ cmd' = [cmd EXCEPT ![r] = c]
      /\ UNCHANGED <<wasConfirmed, wasAborted, sent>>
      /\ \A q \in Request \ {r} : /\ pc'[q] = pc[q]
                                  /\ cmd'[q] = cmd[q]
                                  /\ answer'[q] = answer[q]
      /\ cmd'[r] = c
  BY DEF Receive, Reply, Goto, networkVars, IInv, TypeOK, Books, Booked
<1>2. [q \in Request |-> ToldTo(q)'] =
        [[q \in Request |-> ToldTo(q)] EXCEPT ![r] = ToldTo(r)']
  BY <1>1, ToldLocally
<1>3. ToldTo(r) = "nothing" /\ [q \in Request |-> ToldTo(q)][r] = "nothing"
  BY <1>1 DEF ToldTo
<1>4. Contract!Give(r, c)
  BY <1>1, <1>3 DEF Contract!Give, Contract!NoOrder, NoCommand
<1>5. CASE Refusal(c) # NoAnswer
  <2>1. ToldTo(r)' = OutcomeOf(c, Refusal(c))
    BY <1>1, <1>5 DEF Receive, Reply, Goto, ToldTo, IInv, TypeOK
  <2>2. \E outcome \in Contract!Outcome : Contract!Dismiss(r, c, outcome)
    BY <1>2, <1>4, <2>1, RefusalSays DEF Contract!Dismiss, Contract!Outcome
  <2> QED BY <2>2 DEF CNext, Contract!ContractNext
<1>6. CASE Refusal(c) = NoAnswer
  <2>1. ToldTo(r)' = "nothing"
    BY <1>1, <1>6 DEF Receive, Goto, ToldTo, IInv, TypeOK
  <2>2. c \notin CheckingCommand
    BY <1>6, AcceptedIsPayable DEF CheckingCommand, OnChain
  <2>3. [q \in Request |-> ToldTo(q)'] = [q \in Request |-> ToldTo(q)]
    BY <1>2, <1>3, <2>1
  <2>4. Contract!Take(r, c)
    BY <1>4, <2>2, <2>3 DEF Contract!Take
  <2> QED BY <2>4 DEF CNext, Contract!ContractNext
<1> QED BY <1>5, <1>6

\* A step that changes nothing the contract is about.
LEMMA StutterKeepsContract ==
  ASSUME UNCHANGED <<wasConfirmed, wasAborted, cmd>>,
         \A q \in Request : /\ ToldTo(q)' = ToldTo(q)
                            /\ sent'[q] = sent[q]
  PROVE  CNext
<1>1. [q \in Request |-> ToldTo(q)'] = [q \in Request |-> ToldTo(q)]
  OBVIOUS
<1>2. {q \in Request : sent'[q] # "no"} = {q \in Request : sent[q] # "no"}
  OBVIOUS
<1> QED BY <1>1, <1>2 DEF CNext, Contract!contractVars

\* A server error tells the client that the facilitator does not know.
LEMMA UnsureKeepsContract ==
  ASSUME IInv, Books, NEW r \in Request, r \in InFlight,
         NEW a, a.http = 500, Reply(r, a),
         UNCHANGED <<wasConfirmed, wasAborted, cmd, sent>>
  PROVE  CNext
<1>1. /\ pc'[r] = "done" /\ answer'[r] = a
      /\ \A q \in Request \ {r} : pc'[q] = pc[q] /\ answer'[q] = answer[q]
  BY DEF Reply, Goto, IInv, TypeOK
<1>2. ToldTo(r)' = "unsure"
  BY <1>1 DEF ToldTo, OutcomeOf
<1>3. [q \in Request |-> ToldTo(q)'] =
        [[q \in Request |-> ToldTo(q)] EXCEPT ![r] = "unsure"]
  BY <1>1, <1>2, ToldLocally
<1>4. Contract!TellUnsure(r)
  BY <1>3, ServedIsWaiting DEF Contract!TellUnsure, IInv
<1> QED BY <1>4 DEF CNext, Contract!ContractNext

\* The payment of a settling order is submitted.
LEMMA BroadcastKeepsContract ==
  ASSUME IInv, Books, NEW r \in Request,
         BroadcastAcked(r) \/ BroadcastLost(r) \/ BroadcastRefused(r)
  PROVE  CNext
<1>1. /\ pc[r] = "broadcasting" /\ UNCHANGED cmd /\ sent[r] = "no"
      /\ IsSettle(cmd[r]) /\ cmd[r] \in Command /\ OnChain(cmd[r])
  BY InFlightIsOnChain
  DEF BroadcastAcked, BroadcastLost, BroadcastRefused, CanBroadcast,
      localVars, IInv, Books, Booked
<1>2. /\ BroadcastError(cmd[r]).http = 500 /\ r \in InFlight
      /\ Contract!Waiting(r)
  BY <1>1, ErrorSays, ServedIsWaiting DEF InFlight, IInv
<1>3. CASE BroadcastRefused(r)
  BY <1>2, <1>3, UnsureKeepsContract
  DEF BroadcastRefused, networkVars, localVars
<1>4. ASSUME NEW place \in {"acked", "admitted"},
             NEW outcome \in {"nothing", "unsure"},
             CanBroadcast(r), Admit(cmd[r].signed),
             sent' = [sent EXCEPT ![r] = place],
             \A q \in Request \ {r} : /\ pc'[q] = pc[q]
                                      /\ answer'[q] = answer[q],
             ToldTo(r)' = outcome
      PROVE  CNext
  <2>1. [q \in Request |-> ToldTo(q)'] =
          [[q \in Request |-> ToldTo(q)] EXCEPT ![r] = outcome]
    BY <1>1, <1>4, ToldLocally
  <2>2. {q \in Request : sent'[q] # "no"} =
          {q \in Request : sent[q] # "no"} \cup {r}
    BY <1>4 DEF IInv, TypeOK
  <2>3. UNCHANGED <<wasConfirmed, wasAborted>>
    BY <1>4 DEF Admit
  <2>4. cmd[r] \in SettlingCommand /\ SignedBy[cmd[r]] \in Tx
    BY <1>1, <1>4 DEF SettlingCommand, SignedBy, CanBroadcast
  <2>5. Contract!Submit(r, outcome)
    BY <1>1, <1>2, <1>4, <2>1, <2>2, <2>3, <2>4 DEF Contract!Submit
  <2> QED BY <1>4, <2>5 DEF CNext, Contract!ContractNext
<1>5. CASE BroadcastAcked(r)
  <2>1. ToldTo(r)' = "nothing"
    BY <1>5 DEF BroadcastAcked, Goto, ToldTo, IInv, TypeOK
  <2> QED
    BY <1>4, <1>5, <2>1 DEF BroadcastAcked, Goto, IInv, TypeOK
<1>6. CASE BroadcastLost(r)
  <2>1. ToldTo(r)' = "unsure"
    BY <1>1, <1>2, <1>6
    DEF BroadcastLost, Reply, Goto, ToldTo, OutcomeOf, IInv, TypeOK
  <2> QED
    BY <1>4, <1>6, <2>1 DEF BroadcastLost, Reply, Goto, IInv, TypeOK
<1> QED BY <1>3, <1>5, <1>6

\* The loop polls in silence, and ends with a server error.
LEMMA LoopKeepsContract ==
  ASSUME IInv, Books, NEW r \in Request,
         \/ PollFails(r) \/ PollSees(r) \/ Wake(r) \/ SleepCancelled(r)
         \/ FinalFails(r) \/ FinalSees(r)
  PROVE  CNext
<1>1. /\ pc[r] \in {"polling", "sleeping", "final"}
      /\ UNCHANGED <<wasConfirmed, wasAborted, cmd, sent>>
  BY DEF PollFails, PollSees, Wake, SleepCancelled, FinalFails, FinalSees,
         networkVars, localVars
<1>2. CASE Reply(r, FetchError(cmd[r]))
  <2>1. FetchError(cmd[r]).http = 500
    BY <1>1, InFlightIsOnChain, ErrorSays DEF IInv
  <2>2. r \in InFlight
    BY <1>1 DEF InFlight
  <2> QED BY <1>1, <1>2, <2>1, <2>2, UnsureKeepsContract
<1>3. ASSUME NEW place \in Fetching, Goto(r, place), UNCHANGED answer
      PROVE  CNext
  <2>1. pc'[r] = place /\ \A q \in Request \ {r} : pc'[q] = pc[q]
    BY <1>3 DEF Goto, IInv, TypeOK
  <2>2. \A q \in Request : ToldTo(q)' = ToldTo(q)
    BY <1>1, <1>3, <2>1 DEF ToldTo, Fetching
  <2> QED BY <1>1, <2>2, StutterKeepsContract
<1> QED
  BY <1>2, <1>3
  DEF PollFails, PollSees, Wake, SleepCancelled, FinalFails, FinalSees,
      Fetching

\* The outcome told rests on what has happened on the chain.
LEMMA CompleteKeepsContract ==
  ASSUME IInv, Books, NEW r \in Request, Complete(r)
  PROVE  CNext
<1> DEFINE c == cmd[r]
           a == Verdict(c, got[r])
           outcome == OutcomeOf(c, a)
<1>1. /\ pc'[r] = "done" /\ answer'[r] = a /\ pc[r] = "verifying"
      /\ \A q \in Request \ {r} : pc'[q] = pc[q] /\ answer'[q] = answer[q]
      /\ UNCHANGED <<wasConfirmed, wasAborted, cmd, sent>>
  BY DEF Complete, Reply, Goto, networkVars, localVars, IInv, TypeOK
<1>2. /\ c \in Command /\ OnChain(c) /\ c.signed \in Tx
      /\ c.signed # Absent
      /\ IsSettle(c) => sent[r] = "acked"
      /\ got[r].tx = c.signed
      /\ got[r].confirmed => c.signed \in wasConfirmed
      /\ got[r].status \in FailedStatus => c.signed \in wasAborted
  BY <1>1, HeldByHandler, FacilitatorAssumption
  DEF Books, Booked, Fetching
<1>3. /\ a.http \in {200, 400} /\ a.tx = c.signed
      /\ SaysFailed(a) => c.signed \in wasAborted
      /\ ~a.success /\ SaysConfirmed(a) =>
           c.signed \in wasConfirmed /\ Mismatch(c, got[r])
  BY <1>1, <1>2, HeldByHandler, VerdictSays
<1>4. Mismatch(c, got[r]) <=> ~Terms(c)
  BY <1>1, HeldByHandler DEF Mismatch, Terms
<1>5. a.success => c.signed \in wasConfirmed /\ Terms(c)
  <2>1. a.success => got[r].confirmed /\ ~Mismatch(c, got[r])
    BY <1>2, VerdictIsSound DEF Mismatch
  <2> QED BY <1>2, <1>4, <2>1
<1>6. Contract!MayTell(c, outcome)
  <2>1. SignedBy[c] = c.signed
    BY <1>2 DEF SignedBy
  <2>2. c \in SatisfiedCommand <=> Terms(c)
    BY <1>2 DEF SatisfiedCommand
  <2>3. CASE a.success
    <3>1. outcome = "paid"
      BY <1>2, <1>3, <2>3 DEF OutcomeOf, OnChain
    <3> QED BY <1>5, <2>1, <2>2, <2>3, <3>1 DEF Contract!MayTell
  <2>4. CASE ~a.success /\ SaysFailed(a)
    <3>1. outcome = "failed"
      BY <1>2, <1>3, <2>4 DEF OutcomeOf
    <3> QED BY <1>3, <2>1, <2>4, <3>1 DEF Contract!MayTell
  <2>5. CASE ~a.success /\ ~SaysFailed(a) /\ SaysConfirmed(a)
    <3>1. outcome = "mismatch"
      BY <1>2, <1>3, <2>5 DEF OutcomeOf
    <3> QED BY <1>3, <1>4, <2>1, <2>2, <2>5, <3>1 DEF Contract!MayTell
  <2>6. CASE ~a.success /\ ~SaysFailed(a) /\ ~SaysConfirmed(a)
    <3>1. outcome = "open"
      BY <1>2, <1>3, <2>6 DEF OutcomeOf
    <3> QED BY <3>1 DEF Contract!MayTell
  <2> QED BY <2>3, <2>4, <2>5, <2>6
<1>7. outcome \in Contract!Outcome
  BY <1>6 DEF Contract!MayTell, Contract!Outcome
<1>8. [q \in Request |-> ToldTo(q)'] =
        [[q \in Request |-> ToldTo(q)] EXCEPT ![r] = outcome]
  <2>1. ToldTo(r)' = outcome
    BY <1>1 DEF ToldTo
  <2> QED BY <1>1, <2>1, ToldLocally
<1>9. Contract!Waiting(r)
  BY <1>1, ServedIsWaiting DEF InFlight, IInv
<1>10. c \in SettlingCommand => r \in {q \in Request : sent[q] # "no"}
  BY <1>2 DEF SettlingCommand
<1>11. Contract!Tell(r, outcome)
  BY <1>1, <1>6, <1>8, <1>9, <1>10 DEF Contract!Tell
<1> QED BY <1>7, <1>11 DEF CNext, Contract!ContractNext

\* Clients that leave change nothing, a process that stops loses the requests
\* that wait, and the chain decides.
LEMMA OutsideKeepsContract ==
  ASSUME IInv, Books,
         (\E r \in Request : Disconnect(r)) \/ Crash \/ Environment
  PROVE  CNext
<1>1. ASSUME NEW r \in Request, Disconnect(r) PROVE CNext
  BY <1>1, StutterKeepsContract DEF Disconnect, networkVars, ToldTo
<1>2. CASE Crash
  <2>1. UNCHANGED <<wasConfirmed, wasAborted, cmd, sent, answer>>
    BY <1>2 DEF Crash, networkVars, localVars
  <2>2. ASSUME NEW q \in Request
        PROVE  ToldTo(q)' = IF Contract!Waiting(q) THEN "lost" ELSE ToldTo(q)
    <3>1. Contract!Waiting(q) <=> q \in InFlight
      BY ServedIsWaiting DEF IInv
    <3>2. pc'[q] = IF q \in InFlight THEN "lost" ELSE pc[q]
      BY <1>2 DEF Crash
    <3> QED BY <2>1, <3>1, <3>2 DEF ToldTo
  <2>3. [q \in Request |-> ToldTo(q)'] =
          [q \in Request |-> IF Contract!Waiting(q) THEN "lost"
                             ELSE [p \in Request |-> ToldTo(p)][q]]
    BY <2>2
  <2>4. Contract!Lose
    BY <2>1, <2>3 DEF Contract!Lose
  <2> QED BY <2>4 DEF CNext, Contract!ContractNext
<1>3. CASE Environment
  <2>1. UNCHANGED <<pc, answer, cmd, sent>>
    BY <1>3 DEF Environment, localVars
  <2>2. PICK t \in Tx : NetworkStep(t)
    BY <1>3 DEF Environment
  <2>3. [q \in Request |-> ToldTo(q)'] = [q \in Request |-> ToldTo(q)]
    BY <2>1 DEF ToldTo
  <2>4. CASE UNCHANGED <<wasConfirmed, wasAborted>>
    BY <2>1, <2>4, StutterKeepsContract DEF ToldTo
  <2>5. CASE Mine(t)
    <3>1. Contract!ChainDecides(t)
      BY <2>1, <2>3, <2>5 DEF Mine, Contract!ChainDecides
    <3> QED BY <3>1 DEF CNext, Contract!ContractNext
  <2>6. CASE Abort(t)
    <3>1. Contract!ChainDecides(t)
      BY <2>1, <2>3, <2>6 DEF Abort, Contract!ChainDecides
    <3> QED BY <3>1 DEF CNext, Contract!ContractNext
  <2> QED
    BY <2>2, <2>4, <2>5, <2>6
    DEF NetworkStep, ChainStep, PayerSubmits, Admit, MineUnanchored, Drop,
        Reorg
<1> QED BY <1>1, <1>2, <1>3

\* Every step is a step of the contract, or invisible in it.
LEMMA StepKeepsContract == IInv /\ Books /\ [Next]_vars => CNext
<1> SUFFICES ASSUME IInv, Books, [Next]_vars PROVE CNext
  OBVIOUS
<1>1. ASSUME NEW r \in Request, NEW c \in Command, Receive(r, c) PROVE CNext
  BY <1>1, ReceiveKeepsContract
<1>2. ASSUME NEW r \in Request, HandlerStep(r) PROVE CNext
  BY <1>2, BroadcastKeepsContract, LoopKeepsContract, CompleteKeepsContract
  DEF HandlerStep
<1>3. CASE (\E r \in Request : Disconnect(r)) \/ Crash \/ Environment
  BY <1>3, OutsideKeepsContract
<1>4. CASE UNCHANGED vars
  BY <1>4, StutterKeepsContract DEF vars, networkVars, localVars, ToldTo
<1> QED BY <1>1, <1>2, <1>3, <1>4 DEF Next

\* The facilitator implements the settlement contract: whatever clients,
\* networks and the process do, what a client is told is what it may conclude.
\* (Every answer of VerifyV1, SettleV1, Verify and Settle.)
THEOREM ContractIsKept == Spec => KeepsContract
<1>1. Init => Contract!ContractInit
  BY InitGivesContract
<1>2. IInv /\ Books /\ [Next]_vars =>
        [Contract!ContractNext]_(Contract!contractVars)
  BY StepKeepsContract DEF CNext
<1> QED
  BY <1>1, <1>2, BooksAreKept, PTL
  DEF Spec, KeepsContract, Contract!ContractSpec

-----------------------------------------------------------------------------
(* What the contract amounts to for the client.                            *)

\* The state of the contract, in the variables of the facilitator.
Outcomes == [r \in Request |-> ToldTo(r)]
SubmittedFor == {r \in Request : sent[r] # "no"}

Grounds(r) ==
  LET p == SignedBy[cmd[r]]
  IN  /\ Outcomes[r] \in {"refused", "checked"} => r \notin SubmittedFor
      /\ Outcomes[r] = "paid" =>
           p \in wasConfirmed /\ cmd[r] \in SatisfiedCommand
      /\ Outcomes[r] = "mismatch" =>
           p \in wasConfirmed /\ cmd[r] \notin SatisfiedCommand
      /\ Outcomes[r] = "failed" => p \in wasAborted
      /\ /\ Outcomes[r] \in {"paid", "mismatch", "failed", "open"}
         /\ cmd[r] \in SettlingCommand
         => r \in SubmittedFor

\* They are those of the contract under the refinement mapping.
LEMMA GroundsAreTheContracts ==
  Contract!OutcomesAreGrounded <=> \A r \in Request : Grounds(r)
BY DEF Contract!OutcomesAreGrounded, Contract!Grounded, Outcomes, SubmittedFor,
       Grounds

\* A request keeps its grounds while the chain only grows.
LEMMA GroundsStay ==
  ASSUME NEW r, Grounds(r), Outcomes'[r] = Outcomes[r], cmd'[r] = cmd[r],
         r \in SubmittedFor' <=> r \in SubmittedFor,
         wasConfirmed \subseteq wasConfirmed', wasAborted \subseteq wasAborted'
  PROVE  Grounds(r)'
BY DEF Grounds, SignedBy, SatisfiedCommand, SettlingCommand, IsSettle, Terms

\* An outcome that is told has grounds, and keeps them.
LEMMA StepKeepsGrounds ==
  ASSUME IInv, Books, \A r \in Request : Grounds(r), CNext
  PROVE  \A r \in Request : Grounds(r)' /\ Contract!Final(r)
<1>1. /\ cmd \in [Request -> Command \cup {NoCommand}]
      /\ \A r \in Request : cmd[r] = NoCommand => r \notin SubmittedFor
  BY DEF IInv, TypeOK, Books, Booked, SubmittedFor, NoCommand, IsSettle
<1> DEFINE Kept(q) == /\ Outcomes'[q] = Outcomes[q] /\ cmd'[q] = cmd[q]
                      /\ q \in SubmittedFor' <=> q \in SubmittedFor
           ChainGrows == /\ wasConfirmed \subseteq wasConfirmed'
                         /\ wasAborted \subseteq wasAborted'
<1>2. ASSUME NEW r \in Request, \A q \in Request \ {r} : Kept(q), ChainGrows,
             Grounds(r)', Contract!Final(r)
      PROVE  \A q \in Request : Grounds(q)' /\ Contract!Final(q)
  BY <1>2, GroundsStay DEF Contract!Final, Outcomes
<1>3. ASSUME \A q \in Request : Kept(q), ChainGrows
      PROVE  \A q \in Request : Grounds(q)' /\ Contract!Final(q)
  BY <1>3, GroundsStay DEF Contract!Final, Outcomes
<1>4. ASSUME NEW p \in Tx, Contract!ChainDecides(p)
      PROVE  ChainGrows /\ \A q \in Request : Kept(q)
  BY <1>4 DEF Contract!ChainDecides, Outcomes, SubmittedFor
<1>5. ASSUME NEW r \in Request, NEW c \in Command,
             \/ Contract!Take(r, c)
             \/ \E outcome \in Contract!Outcome :
                  Contract!Dismiss(r, c, outcome)
      PROVE  /\ ChainGrows /\ \A q \in Request \ {r} : Kept(q)
             /\ Grounds(r)' /\ Contract!Final(r)
  <2>1. /\ Outcomes[r] = "nothing" /\ r \notin SubmittedFor /\ ChainGrows
        /\ cmd' = [cmd EXCEPT ![r] = c] /\ SubmittedFor' = SubmittedFor
    BY <1>1, <1>5
    DEF Contract!Take, Contract!Dismiss, Contract!Give, Contract!NoOrder,
        NoCommand, Outcomes, SubmittedFor
  <2>2. \/ Outcomes' = Outcomes
        \/ \E o \in {"checked", "refused", "unsure"} :
             Outcomes' = [Outcomes EXCEPT ![r] = o]
    BY <1>5
    DEF Contract!Take, Contract!Dismiss, Contract!Give, Outcomes
  <2>3. Outcomes'[r] \in {"nothing", "checked", "refused", "unsure"}
    BY <2>1, <2>2 DEF Outcomes
  <2>4. Grounds(r)'
    BY <2>1, <2>3 DEF Grounds
  <2>5. \A q \in Request \ {r} : Kept(q)
    BY <1>1, <2>1, <2>2 DEF Outcomes
  <2> QED BY <2>1, <2>4, <2>5 DEF Contract!Final, Outcomes
<1>6. ASSUME NEW r \in Request,
             \/ \E outcome \in {"nothing", "unsure"} :
                  Contract!Submit(r, outcome)
             \/ \E outcome \in Contract!Outcome : Contract!Tell(r, outcome)
             \/ Contract!TellUnsure(r)
      PROVE  /\ ChainGrows /\ \A q \in Request \ {r} : Kept(q)
             /\ Grounds(r)' /\ Contract!Final(r)
  <2>1. /\ Outcomes[r] = "nothing" /\ cmd' = cmd /\ ChainGrows
        /\ SignedBy[cmd[r]]' = SignedBy[cmd[r]]
    BY <1>6
    DEF Contract!Submit, Contract!Tell, Contract!TellUnsure,
        Contract!Waiting, Outcomes, SignedBy
  <2>2. CASE \E outcome \in {"nothing", "unsure"} :
               Contract!Submit(r, outcome)
    <3>1. /\ Outcomes'[r] \in {"nothing", "unsure"}
          /\ \A q \in Request \ {r} : Kept(q)
      BY <2>1, <2>2 DEF Contract!Submit, Outcomes, SubmittedFor
    <3> QED BY <2>1, <3>1 DEF Grounds, Contract!Final, Outcomes
  <2>3. CASE Contract!TellUnsure(r)
    <3>1. Outcomes'[r] = "unsure" /\ \A q \in Request \ {r} : Kept(q)
      BY <2>1, <2>3 DEF Contract!TellUnsure, Outcomes, SubmittedFor
    <3> QED BY <2>1, <3>1 DEF Grounds, Contract!Final, Outcomes
  <2>4. CASE \E outcome \in Contract!Outcome : Contract!Tell(r, outcome)
    <3>1. PICK outcome \in Contract!Outcome : Contract!Tell(r, outcome)
      BY <2>4
    <3>2. /\ Outcomes'[r] = outcome /\ \A q \in Request \ {r} : Kept(q)
          /\ UNCHANGED <<wasConfirmed, wasAborted>>
          /\ SubmittedFor' = SubmittedFor
      BY <2>1, <3>1 DEF Contract!Tell, Outcomes, SubmittedFor
    <3>3. /\ cmd[r] \in SettlingCommand => r \in SubmittedFor
          /\ Contract!MayTell(cmd[r], outcome)
      BY <3>1 DEF Contract!Tell, SubmittedFor
    <3>4. /\ outcome \notin {"refused", "checked"}
          /\ outcome = "paid" => /\ SignedBy[cmd[r]] \in wasConfirmed
                                 /\ cmd[r] \in SatisfiedCommand
          /\ outcome = "mismatch" => /\ SignedBy[cmd[r]] \in wasConfirmed
                                     /\ cmd[r] \notin SatisfiedCommand
          /\ outcome = "failed" => SignedBy[cmd[r]] \in wasAborted
      BY <3>3 DEF Contract!MayTell
    <3>5. Grounds(r)'
      BY <2>1, <3>2, <3>3, <3>4
      DEF Grounds, SignedBy, SatisfiedCommand, SettlingCommand, IsSettle,
          Terms
    <3> QED BY <2>1, <3>2, <3>5 DEF Contract!Final, Outcomes
  <2> QED BY <1>6, <2>2, <2>3, <2>4
<1>7. CASE Contract!Lose
  <2>1. UNCHANGED <<cmd, wasConfirmed, wasAborted, SubmittedFor>>
    BY <1>7 DEF Contract!Lose, SubmittedFor
  <2>2. ASSUME NEW q \in Request
        PROVE  Kept(q) \/ (Outcomes[q] = "nothing" /\ Outcomes'[q] = "lost")
    BY <1>7, <2>1 DEF Contract!Lose, Contract!Waiting, Outcomes
  <2>3. ASSUME NEW q \in Request PROVE Grounds(q)' /\ Contract!Final(q)
    <3>1. CASE Kept(q)
      BY <2>1, <3>1, GroundsStay DEF Contract!Final, Outcomes
    <3>2. CASE Outcomes[q] = "nothing" /\ Outcomes'[q] = "lost"
      BY <3>2 DEF Grounds, Contract!Final, Outcomes
    <3> QED BY <2>2, <3>1, <3>2
  <2> QED BY <2>3
<1>8. CASE UNCHANGED Contract!contractVars
  <2>1. UNCHANGED <<cmd, wasConfirmed, wasAborted, Outcomes, SubmittedFor>>
    BY <1>8 DEF Contract!contractVars, Outcomes, SubmittedFor
  <2> QED BY <1>3, <2>1
<1> QED
  BY <1>2, <1>3, <1>4, <1>5, <1>6, <1>7, <1>8 DEF CNext, Contract!ContractNext

\* Whatever a client was told is true of the chain and of what was submitted
\* for it, and stays true.  (Every answer of VerifyV1, SettleV1, Verify and
\* Settle.)
THEOREM AnswersHaveGrounds == Spec => []AnswersAreGrounded
<1>1. Init => \A r \in Request : Grounds(r)
  BY DEF Init, Grounds, Outcomes, ToldTo
<1>2. IInv /\ Books /\ (\A r \in Request : Grounds(r)) /\ [Next]_vars
        => (\A r \in Request : Grounds(r))'
  BY StepKeepsContract, StepKeepsGrounds
<1>3. (\A r \in Request : Grounds(r)) => AnswersAreGrounded
  BY GroundsAreTheContracts DEF AnswersAreGrounded
<1> QED BY <1>1, <1>2, <1>3, BooksAreKept, PTL DEF Spec

\* And it is told once: no later step of anybody takes an answer back.
THEOREM AnswersStayTold == Spec => AnswersAreFinal
<1>1. IInv /\ Books /\ AnswersAreGrounded /\ [Next]_vars =>
        [\A r \in Request : Contract!Final(r)]_(Contract!contractVars)
  BY StepKeepsContract, StepKeepsGrounds, GroundsAreTheContracts
  DEF AnswersAreGrounded
<1> QED
  BY <1>1, AnswersHaveGrounds, BooksAreKept, PTL
  DEF Spec, AnswersAreFinal, Contract!OutcomesAreFinal
=============================================================================
