--------------------------- MODULE VerdictProofs ---------------------------
(***************************************************************************)
(* What the answers say, for every set of requests, commands and           *)
(* transactions: the verdicts of the handlers agree with one another and   *)
(* with what was confirmed before a request arrived, and the two v2        *)
(* handlers and the kinds advertised agree on the requests they refuse.    *)
(***************************************************************************)
EXTENDS FacilitatorContractProofs

-----------------------------------------------------------------------------
(* Without reorganisations the chain decides once.                         *)

DecidedOnce ==
  ~Reorgs =>
    \A t \in Tx : /\ t \in wasConfirmed => ConfirmedAt(t)
                  /\ t \in wasAborted => ledger[t].status \in FailedStatus

\* Without reorganisations no transaction is both confirmed and failed.
LEMMA ChainDecidesOnce ==
  ASSUME TypeOK, DecidedOnce, [Next]_vars
  PROVE  DecidedOnce'
<1> SUFFICES ASSUME ~Reorgs PROVE DecidedOnce'
  BY DEF DecidedOnce
<1> USE DEF DecidedOnce, ConfirmedAt, IsTransactionConfirmed, At, FailedStatus
<1>1. ASSUME UNCHANGED networkVars PROVE DecidedOnce'
  BY <1>1 DEF networkVars
<1>2. ASSUME NEW t \in Tx, Admit(t) PROVE DecidedOnce'
  BY <1>2 DEF Admit, TypeOK, NetworkTypeOK
<1>3. CASE Environment
  <2>1. PICK t \in Tx : NetworkStep(t)
    BY <1>3 DEF Environment
  <2> USE DEF TypeOK, NetworkTypeOK
  <2>2. CASE MineUnanchored(t)
    BY <2>2 DEF MineUnanchored
  <2>3. CASE Mine(t)
    BY <2>3 DEF Mine
  <2>4. CASE Abort(t)
    <3>1. PICK s \in AbortStatus : ledger' = [ledger EXCEPT ![t] = At(s, 1)]
      BY <2>4 DEF Abort
    <3> QED BY <2>4, <3>1, NetworkAssumption DEF Abort
  <2>5. CASE Drop(t)
    BY <2>5 DEF Drop
  <2> QED
    BY <1>2, <2>1, <2>2, <2>3, <2>4, <2>5
    DEF NetworkStep, ChainStep, PayerSubmits, Reorg
<1>4. ASSUME NEW r \in Request, HandlerStep(r) PROVE DecidedOnce'
  <2>1. CASE CanBroadcast(r) /\ Admit(cmd[r].signed)
    BY <1>2, <2>1 DEF CanBroadcast
  <2>2. CASE UNCHANGED networkVars
    BY <1>1, <2>2
  <2> QED
    BY <1>4, <2>1, <2>2
    DEF HandlerStep, BroadcastAcked, BroadcastLost, BroadcastRefused,
        PollFails, PollSees, Wake, SleepCancelled, FinalFails, FinalSees,
        Complete
<1> QED
  BY <1>1, <1>3, <1>4 DEF Next, Receive, Disconnect, Crash, vars

-----------------------------------------------------------------------------
(* What the answers say.                                                   *)

\* A refusal is no claim about the payment.
LEMMA RefusalIsNoVerdict ==
  ASSUME NEW c \in Command, OnChain(c)
  PROVE  ~SaysFailed(Refusal(c)) /\ ~SaysConfirmed(Refusal(c))
<1>1. ~Refusal(c).success
  BY ErrorIsNoSuccess
<1>2. SettleV2Reason(c) \in {"", "invalid_x402_version", "unsupported_scheme",
                            "invalid_network", "invalid_payload",
                            "invalid_payment_requirements"}
  BY DEF SettleV2Reason
<1>3. /\ Refusal(c).status = ""
      /\ Refusal(c).reason \notin {"transaction_failed", "recipient_mismatch",
                                  "amount_insufficient"}
  <2>1. CASE c.op = "settleV1"
    BY <2>1 DEF Refusal, SettleV1Refusal, NoAnswer, Failure, Response
  <2>2. CASE c.op = "verifyV1"
    BY <2>2 DEF Refusal, VerifyV1Refusal, NoAnswer, Failure, Response
  <2>3. CASE c.op = "settleV2"
    BY <1>2, <2>3
    DEF Refusal, SettleV2Refusal, NoAnswer, Failure, Response
  <2> QED BY <2>1, <2>2, <2>3 DEF OnChain
<1> QED BY <1>1, <1>3 DEF SaysFailed, SaysConfirmed

\* Nor is an error of the adapter.
LEMMA ErrorIsNoVerdict ==
  ASSUME NEW c \in Command, OnChain(c),
         NEW a, a = BroadcastError(c) \/ a = FetchError(c)
  PROVE  /\ a.http = 500 /\ ~a.success
         /\ ~SaysFailed(a) /\ ~SaysConfirmed(a)
         /\ a.reason \notin KindRefusal
<1>1. a.http = 500 /\ ~a.success
  BY ErrorSays, ErrorIsNoSuccess
<1>2. /\ a.status = ""
      /\ a.reason \in {"settlement_failed", "verification_failed",
                       "unexpected_settle_error"}
  <2>1. CASE a = BroadcastError(c)
    BY <2>1 DEF BroadcastError, Failure, Response
  <2>2. CASE a = FetchError(c) /\ c.op = "settleV1"
    BY <2>2 DEF FetchError, Failure, Response
  <2>3. CASE a = FetchError(c) /\ c.op = "verifyV1"
    BY <2>3 DEF FetchError, Failure, Response
  <2>4. CASE a = FetchError(c) /\ c.op = "settleV2"
    BY <2>4 DEF FetchError, Response
  <2> QED BY <2>1, <2>2, <2>3, <2>4 DEF OnChain
<1> QED BY <1>1, <1>2 DEF SaysFailed, SaysConfirmed, KindRefusal

\* The reasons a v2 settlement may give for its verdict.
LEMMA ReasonIsKnown ==
  ASSUME NEW m
  PROVE  MapVerificationErrorToV2(m) \in
           {"recipient_mismatch", "amount_insufficient", "sender_mismatch",
            "transaction_failed", "unexpected_settle_error"}
<1>1. CASE m \in {"recipient_mismatch", "insufficient_amount",
                  "sender_mismatch", "transaction_failed_with_status"}
  BY <1>1, ReasonOfMessage
<1>2. CASE m \notin {"recipient_mismatch", "insufficient_amount",
                     "sender_mismatch", "transaction_failed_with_status"}
  <2>1. MapVerificationErrorToV2(m) = "unexpected_settle_error"
    BY <1>2, ReasonOfMessage
  <2> QED BY <2>1
<1> QED BY <1>1, <1>2

\* A verdict on a confirmed transaction says so, whatever it lacks.
LEMMA ConfirmedIsSaid ==
  ASSUME NEW c, OnChain(c), NEW tx, tx.confirmed => tx.status = "success"
  PROVE  /\ tx.confirmed => SaysConfirmed(Verdict(c, tx))
         /\ Verdict(c, tx).reason \notin KindRefusal
<1> DEFINE errors == Verify(tx, Criteria(c))
           a == Verdict(c, tx)
<1>1. tx.confirmed => DeterminePaymentStatus(tx) = "confirmed"
  BY DEF DeterminePaymentStatus
<1>2. CASE IsV1(c)
  <2>1. a.status = DeterminePaymentStatus(tx) /\ a.reason = ""
    BY <1>2 DEF IsV1, Verdict, Response
  <2> QED BY <1>1, <2>1 DEF SaysConfirmed, KindRefusal
<1>3. CASE c.op = "settleV2"
  <2>1. /\ a.success <=> errors = << >>
        /\ a.reason = IF errors = << >> THEN ""
                      ELSE MapVerificationErrorToV2(errors[1])
    BY <1>3 DEF Verdict, Response
  <2>2. Criteria(c).sender = Absent /\ Criteria(c).memo = Absent
    BY <1>3 DEF Criteria
  <2>3. errors # << >> /\ tx.confirmed =>
          errors[1] \in {"recipient_mismatch", "insufficient_amount"}
    <3>1. tx.confirmed => tx.status \notin FailedStatus
      BY DEF FailedStatus
    <3> QED BY <2>2, <3>1, FirstError
  <2>4. MapVerificationErrorToV2("recipient_mismatch") = "recipient_mismatch"
    BY ReasonOfMessage
  <2>5. MapVerificationErrorToV2("insufficient_amount") =
          "amount_insufficient"
    BY ReasonOfMessage
  <2>6. \A m : MapVerificationErrorToV2(m) \in
                 {"recipient_mismatch", "amount_insufficient",
                  "sender_mismatch", "transaction_failed",
                  "unexpected_settle_error"}
    BY ReasonIsKnown
  <2> HIDE DEF errors
  <2>7. a.reason \notin KindRefusal
    BY <2>1, <2>6 DEF KindRefusal
  <2>8. tx.confirmed => SaysConfirmed(a)
    BY <2>1, <2>3, <2>4, <2>5 DEF SaysConfirmed
  <2> QED BY <2>7, <2>8
<1> QED BY <1>2, <1>3 DEF OnChain, IsV1

-----------------------------------------------------------------------------
(* What a request that was answered was told, and why.                     *)

\* It was refused for what it says itself.
Refused(r) ==
  /\ Refusal(cmd[r]) # NoAnswer
  /\ answer[r] = Refusal(cmd[r])
  /\ sent[r] = "no"
  /\ fetches[r] = 0

\* It was let in, and the answer is an error or a verdict.
Worked(r) ==
  LET c == cmd[r]
      t == c.signed
      a == answer[r]
  IN  /\ Refusal(c) = NoAnswer
      /\ a.reason \notin KindRefusal
      /\ SaysFailed(a) => t \in wasAborted
      /\ ~a.success /\ SaysConfirmed(a) => ~Terms(c)
      /\ a.success => WireAmount(Wire[t]) \in Nat
      /\ a.http # 500 =>
           /\ a.tx = t /\ t \in Tx
           /\ IsSettle(c) => sent[r] # "no"
           /\ ~Reorgs /\ t \in onArrival[r] => SaysConfirmed(a)

Told(r) ==
  /\ onArrival[r] \subseteq wasConfirmed
  /\ pc[r] = "idle" => fetches[r] = 0
  /\ pc[r] = "verifying" /\ ~Reorgs /\ cmd[r].signed \in onArrival[r] =>
       got[r].confirmed
  /\ pc[r] = "done" => cmd[r] \in Command /\ (Refused(r) \/ Worked(r))

AllTold == \A r \in Request : Told(r)

AInv == IInv /\ Books /\ DecidedOnce /\ AllTold

\* What was told of a request depends on its own variables and on a history
\* that only grows.
LEMMA ToldOfOne ==
  ASSUME AllTold, NEW r \in Request, Told(r)',
         wasConfirmed \subseteq wasConfirmed',
         wasAborted \subseteq wasAborted',
         \A q \in Request \ {r} :
           /\ pc'[q] = pc[q]
           /\ cmd'[q] = cmd[q]
           /\ got'[q] = got[q]
           /\ answer'[q] = answer[q]
           /\ sent'[q] = sent[q]
           /\ fetches'[q] = fetches[q]
           /\ onArrival'[q] = onArrival[q]
  PROVE  AllTold'
<1>1. ASSUME NEW q \in Request \ {r} PROVE Told(q)'
  <2>1. Told(q)
    BY DEF AllTold
  <2>2. Refused(q) => Refused(q)'
    BY <1>1 DEF Refused
  <2>3. Worked(q) => Worked(q)'
    BY <1>1 DEF Worked, Terms
  <2> QED BY <1>1, <2>1, <2>2, <2>3 DEF Told
<1> QED BY <1>1 DEF AllTold

\* Nothing is told at the start.
LEMMA InitTold == Init => AllTold
BY DEF Init, AllTold, Told

\* A refusal on arrival is told for what the request says itself.
LEMMA ReceiveTold ==
  ASSUME AInv, NEW r \in Request, NEW c \in Command, Receive(r, c)
  PROVE  AllTold'
<1>1. /\ cmd'[r] = c
      /\ UNCHANGED <<sent, got, fetches, wasConfirmed, wasAborted>>
      /\ sent[r] = "no" /\ fetches[r] = 0
      /\ onArrival'[r] = {t \in Tx : ConfirmedAt(t)}
      /\ \A q \in Request \ {r} : /\ pc'[q] = pc[q]
                                  /\ cmd'[q] = cmd[q]
                                  /\ answer'[q] = answer[q]
                                  /\ onArrival'[q] = onArrival[q]
  BY DEF Receive, Reply, Goto, networkVars, AInv, IInv, TypeOK, Books, Booked,
         AllTold, Told
<1>2. onArrival'[r] \subseteq wasConfirmed
  BY <1>1 DEF AInv, IInv, HistoryOK
<1>3. CASE Refusal(c) # NoAnswer
  <2>1. pc'[r] = "done" /\ answer'[r] = Refusal(c)
    BY <1>3 DEF Receive, Reply, Goto, AInv, IInv, TypeOK
  <2>2. Refused(r)'
    BY <1>1, <1>3, <2>1 DEF Refused
  <2>3. Told(r)'
    BY <1>1, <1>2, <2>1, <2>2 DEF Told
  <2> QED BY <1>1, <2>3, ToldOfOne DEF AInv
<1>4. CASE Refusal(c) = NoAnswer
  <2>1. pc'[r] \in {"broadcasting", "polling"}
    BY <1>4 DEF Receive, Goto, AInv, IInv, TypeOK
  <2>2. Told(r)'
    BY <1>1, <1>2, <2>1 DEF Told
  <2> QED BY <1>1, <2>2, ToldOfOne DEF AInv
<1> QED BY <1>3, <1>4

\* An error of the adapter ends the request.
LEMMA ErrorTold ==
  ASSUME AInv, NEW r \in Request, NEW a,
         pc[r] \in {"broadcasting", "polling", "sleeping", "final"},
         a = BroadcastError(cmd[r]) \/ a = FetchError(cmd[r]),
         Reply(r, a), UNCHANGED <<cmd, got, onArrival>>,
         wasConfirmed' = wasConfirmed, wasAborted' = wasAborted,
         \A q \in Request \ {r} : /\ sent'[q] = sent[q]
                                  /\ fetches'[q] = fetches[q]
  PROVE  AllTold'
<1>1. /\ pc'[r] = "done" /\ answer'[r] = a
      /\ \A q \in Request \ {r} : pc'[q] = pc[q] /\ answer'[q] = answer[q]
  BY DEF Reply, Goto, AInv, IInv, TypeOK
<1>2. cmd[r] \in Command /\ OnChain(cmd[r]) /\ Refusal(cmd[r]) = NoAnswer
  BY InFlightIsOnChain DEF AInv, IInv
<1>3. Worked(r)'
  BY <1>1, <1>2, ErrorIsNoVerdict DEF Worked
<1>4. Told(r)'
  BY <1>1, <1>2, <1>3 DEF AInv, AllTold, Told
<1> QED BY <1>1, <1>4, ToldOfOne DEF AInv

\* A step of a request that goes on.
LEMMA WorkTold ==
  ASSUME AInv, NEW r \in Request,
         pc[r] \in {"broadcasting", "polling", "sleeping", "final"},
         NEW place \in Fetching, Goto(r, place),
         UNCHANGED <<cmd, answer, onArrival>>,
         wasConfirmed' = wasConfirmed, wasAborted' = wasAborted,
         \A q \in Request \ {r} : /\ sent'[q] = sent[q]
                                  /\ fetches'[q] = fetches[q]
                                  /\ got'[q] = got[q],
         place = "verifying" /\ ~Reorgs /\ cmd[r].signed \in onArrival[r] =>
           got'[r].confirmed
  PROVE  AllTold'
<1>1. pc'[r] = place /\ \A q \in Request \ {r} : pc'[q] = pc[q]
  BY DEF Goto, AInv, IInv, TypeOK
<1>2. Told(r)'
  BY <1>1 DEF AInv, AllTold, Told, Fetching
<1> QED BY <1>1, <1>2, ToldOfOne DEF AInv

\* The outcomes of the POST claim nothing of the payment.
LEMMA BroadcastTold ==
  ASSUME AInv, NEW r \in Request,
         BroadcastAcked(r) \/ BroadcastLost(r) \/ BroadcastRefused(r)
  PROVE  AllTold'
<1>1. /\ pc[r] = "broadcasting" /\ UNCHANGED <<cmd, got, fetches, onArrival>>
      /\ wasConfirmed' = wasConfirmed /\ wasAborted' = wasAborted
      /\ \A q \in Request \ {r} : sent'[q] = sent[q]
  BY DEF BroadcastAcked, BroadcastLost, BroadcastRefused, CanBroadcast, Admit,
         networkVars, localVars, AInv, IInv, TypeOK
<1>2. CASE Reply(r, BroadcastError(cmd[r]))
  BY <1>1, <1>2, ErrorTold
<1>3. CASE Goto(r, "polling") /\ UNCHANGED answer
  BY <1>1, <1>3, WorkTold DEF Fetching
<1> QED
  BY <1>2, <1>3 DEF BroadcastAcked, BroadcastLost, BroadcastRefused

\* Without reorganisations a fetch finds confirmed what was confirmed when
\* the request arrived.
LEMMA FetchedAfterArrival ==
  ASSUME AInv, NEW r \in Request, pc[r] \in {"polling", "final"}
  PROVE  ~Reorgs /\ cmd[r].signed \in onArrival[r] => Fetched(r).confirmed
<1> SUFFICES ASSUME ~Reorgs, cmd[r].signed \in onArrival[r]
             PROVE  Fetched(r).confirmed
  OBVIOUS
<1>1. cmd[r].signed \in Tx /\ cmd[r].signed \in wasConfirmed
  BY DEF AInv, AllTold, Told, IInv, ServedOK, Served
<1>2. ConfirmedAt(cmd[r].signed)
  BY <1>1 DEF AInv, DecidedOnce
<1> QED BY <1>2 DEF ConfirmedAt, Fetched, ParseTransactionResponse

\* Nor do the rounds of the loop.
LEMMA LoopTold ==
  ASSUME AInv, NEW r \in Request,
         \/ PollFails(r) \/ PollSees(r) \/ Wake(r) \/ SleepCancelled(r)
         \/ FinalFails(r) \/ FinalSees(r)
  PROVE  AllTold'
<1>1. /\ pc[r] \in {"polling", "sleeping", "final"}
      /\ UNCHANGED <<cmd, onArrival, sent>>
      /\ wasConfirmed' = wasConfirmed /\ wasAborted' = wasAborted
      /\ \A q \in Request \ {r} : fetches'[q] = fetches[q]
  BY DEF PollFails, PollSees, Wake, SleepCancelled, FinalFails, FinalSees,
         CountFetch, networkVars, localVars, AInv, IInv, TypeOK
<1>2. CASE Reply(r, FetchError(cmd[r])) /\ UNCHANGED got
  BY <1>1, <1>2, ErrorTold
<1>3. ASSUME NEW place \in {"polling", "sleeping", "final"}, Goto(r, place),
             UNCHANGED <<answer, got>>
      PROVE  AllTold'
  BY <1>1, <1>3, WorkTold DEF Fetching
<1>4. CASE /\ pc[r] \in {"polling", "final"} /\ Goto(r, "verifying")
           /\ UNCHANGED answer /\ got' = [got EXCEPT ![r] = Fetched(r)]
  <2>1. got'[r] = Fetched(r) /\ \A q \in Request \ {r} : got'[q] = got[q]
    BY <1>4 DEF AInv, IInv, TypeOK
  <2> QED BY <1>1, <1>4, <2>1, FetchedAfterArrival, WorkTold DEF Fetching
<1> QED
  BY <1>2, <1>3, <1>4
  DEF PollFails, PollSees, Wake, SleepCancelled, FinalFails, FinalSees,
      localVars

\* What the verdict claims is what the transaction fetched says.
LEMMA CompleteTold ==
  ASSUME AInv, NEW r \in Request, Complete(r)
  PROVE  AllTold'
<1> DEFINE c == cmd[r]
           a == Verdict(c, got[r])
<1>1. /\ pc'[r] = "done" /\ answer'[r] = a /\ pc[r] = "verifying"
      /\ \A q \in Request \ {r} : pc'[q] = pc[q] /\ answer'[q] = answer[q]
      /\ UNCHANGED <<cmd, got, sent, fetches, onArrival>>
      /\ wasConfirmed' = wasConfirmed /\ wasAborted' = wasAborted
  BY DEF Complete, Reply, Goto, networkVars, localVars, AInv, IInv, TypeOK
<1>2. /\ c \in Command /\ OnChain(c) /\ Refusal(c) = NoAnswer
      /\ c.signed \in Tx
      /\ IsSettle(c) => sent[r] = "acked"
  BY <1>1, HeldByHandler, InFlightIsOnChain
  DEF AInv, IInv, Books, Booked, Fetching
<1>3. /\ a.http \in {200, 400} /\ a.tx = c.signed
      /\ SaysFailed(a) => c.signed \in wasAborted
      /\ ~a.success /\ SaysConfirmed(a) => Mismatch(c, got[r])
      /\ got[r].confirmed => SaysConfirmed(a)
      /\ a.reason \notin KindRefusal
  BY <1>1, <1>2, HeldByHandler, VerdictSays, ConfirmedIsSaid DEF AInv
<1>4. Mismatch(c, got[r]) => ~Terms(c)
  BY <1>1, HeldByHandler DEF Mismatch, Terms, AInv
<1>5. WireAmount(Wire[c.signed]) \in Nat
  <2>1. got[r] # NoTx
    BY <1>1, <1>2, HeldByHandler, FacilitatorAssumption DEF NoTx, AInv
  <2>2. got[r].amount \in Uint64
    BY <2>1 DEF AInv, IInv, TypeOK, TxRecord
  <2> QED BY <1>1, <2>2, HeldByHandler, PaymentsAssumption DEF Uint64, AInv
<1>6. ~Reorgs /\ c.signed \in onArrival[r] => SaysConfirmed(a)
  BY <1>1, <1>3 DEF AInv, AllTold, Told
<1> HIDE DEF a
<1>7. Worked(r)'
  BY <1>1, <1>2, <1>3, <1>4, <1>5, <1>6 DEF Worked, Terms
<1>8. Told(r)'
  BY <1>1, <1>2, <1>7 DEF AInv, AllTold, Told
<1> QED BY <1>1, <1>8, ToldOfOne DEF AInv

\* Clients, process and networks tell nobody anything.
LEMMA OutsideTold ==
  ASSUME AInv, (\E r \in Request : Disconnect(r)) \/ Crash \/ Environment
  PROVE  AllTold'
<1>1. UNCHANGED <<cmd, got, sent, answer, fetches, onArrival>>
  BY DEF Disconnect, Crash, Environment, localVars
<1>2. \A q \in Request : pc'[q] = pc[q] \/ pc'[q] = "lost"
  BY DEF Disconnect, Crash, Environment, InFlight, AInv, IInv, TypeOK
<1>3. wasConfirmed \subseteq wasConfirmed' /\ wasAborted \subseteq wasAborted'
  BY NetworkStepKeepsNetwork
  DEF Disconnect, Crash, Environment, networkVars, AInv, IInv, TypeOK
<1>4. ASSUME NEW q \in Request PROVE Told(q)'
  <2>1. Told(q)
    BY DEF AInv, AllTold
  <2>2. Refused(q) => Refused(q)'
    BY <1>1 DEF Refused
  <2>3. Worked(q) => Worked(q)'
    BY <1>1, <1>3 DEF Worked, Terms
  <2> QED BY <1>1, <1>2, <1>3, <2>1, <2>2, <2>3 DEF Told
<1> QED BY <1>4 DEF AllTold

\* Every step keeps what the answers say true.
LEMMA StepTold == AInv /\ [Next]_vars => AInv'
<1> SUFFICES ASSUME AInv, [Next]_vars PROVE AInv'
  OBVIOUS
<1>1. (IInv /\ Books /\ DecidedOnce)'
  BY StepIsSafe, StepBooks, ChainDecidesOnce DEF AInv, IInv
<1>2. ASSUME NEW r \in Request, NEW c \in Command, Receive(r, c)
      PROVE  AllTold'
  BY <1>2, ReceiveTold
<1>3. ASSUME NEW r \in Request, HandlerStep(r) PROVE AllTold'
  BY <1>3, BroadcastTold, LoopTold, CompleteTold DEF HandlerStep
<1>4. ASSUME (\E r \in Request : Disconnect(r)) \/ Crash \/ Environment
      PROVE  AllTold'
  BY <1>4, OutsideTold
<1>5. ASSUME UNCHANGED vars PROVE AllTold'
  BY <1>5
  DEF vars, networkVars, localVars, AInv, AllTold, Told, Refused, Worked, Terms
<1>6. AllTold'
  BY <1>2, <1>3, <1>4, <1>5 DEF Next
<1> QED BY <1>1, <1>6 DEF AInv

\* What an answer says of a payment has happened, and a refusal is told only
\* for what the request says itself.  (Handle of the four handlers.)
THEOREM AnswersAreTrue == Spec => []AInv
<1>1. Init => AInv
  BY InitIsSafe, InitBooks, InitTold
  DEF AInv, DecidedOnce, Init, NetworkInit
<1> QED BY <1>1, StepTold, PTL DEF Spec

\* Answers that are true agree with one another.
LEMMA VerdictsFollow == AInv => VerdictsAgree
<1> SUFFICES ASSUME AInv, ~Reorgs, NEW r \in Request, NEW q \in Request,
                    ReportsPaid(r), pc[q] = "done", SamePayment(cmd[r], cmd[q])
             PROVE  /\ ~SaysFailed(answer[q])
                    /\ (/\ SaysConfirmed(answer[q])
                        /\ NoOptionalCriteria(cmd[q])
                        /\ cmd[q].recipient = cmd[r].recipient
                        /\ cmd[q].amount <= cmd[r].amount) =>
                         answer[q].success
  BY DEF VerdictsAgree
<1> DEFINE t == cmd[r].signed
<1>1. PaysFor(cmd[r]) /\ t \in wasConfirmed
  BY DEF AInv, IInv, SuccessMeansPaid, PaidAsReported, PaysFor
<1>2. t \in Tx /\ t \notin wasAborted
  BY <1>1 DEF AInv, IInv, TypeOK, NetworkTypeOK, DecidedOnce, ConfirmedAt,
              IsTransactionConfirmed, FailedStatus
<1>3. /\ cmd[q] \in Command /\ OnChain(cmd[q]) /\ cmd[q].signed = t
      /\ Refused(q) \/ Worked(q)
  BY DEF AInv, AllTold, Told, SamePayment
<1>4. ~SaysFailed(answer[q])
  BY <1>2, <1>3, RefusalIsNoVerdict DEF Refused, Worked
<1>5. ASSUME SaysConfirmed(answer[q]), NoOptionalCriteria(cmd[q]),
             cmd[q].recipient = cmd[r].recipient,
             cmd[q].amount <= cmd[r].amount
      PROVE  answer[q].success
  <2>1. Worked(q)
    BY <1>3, <1>5, RefusalIsNoVerdict DEF Refused
  <2>2. WireAmount(Wire[t]) \in Nat
    <3>1. cmd[r] \in Command /\ OnChain(cmd[r]) /\ (Refused(r) \/ Worked(r))
      BY DEF AInv, AllTold, Told, ReportsPaid
    <3>2. Worked(r)
      BY <3>1, ErrorIsNoSuccess DEF Refused, ReportsPaid
    <3> QED BY <3>2 DEF Worked, ReportsPaid
  <2>3. WireAmount(Wire[t]) >= cmd[q].amount
    <3>1. cmd[q].amount \in Nat /\ cmd[r].amount \in Nat
      BY <1>3, FacilitatorAssumption DEF AInv, AllTold, Told, ReportsPaid
    <3> QED BY <1>1, <1>5, <2>2, <3>1 DEF PaysFor
  <2>4. Terms(cmd[q])
    BY <1>1, <1>3, <1>5, <2>3, AbsentIsNoAddress
    DEF Terms, PaysFor, SamePayment, NoOptionalCriteria
  <2> QED BY <1>5, <2>1, <2>4 DEF Worked
<1> QED BY <1>4, <1>5

\* Without reorganisations no handler calls failed what another calls paid,
\* and one that saw it confirmed accepts it when it asks for no more.  (v1 and
\* v2 settle, v1 verify.)
THEOREM HandlersAgree == Spec => []VerdictsAgree
BY VerdictsFollow, AnswersAreTrue, PTL

\* A verdict on a payment that was confirmed before the request arrived says
\* that it is confirmed.  (WaitForConfirmation, GetTransactionWithRetry and the
\* handlers that verify what they return.)
THEOREM ConfirmedStays == Spec => []ConfirmedBeforeStaysConfirmed
<1>1. AInv => ConfirmedBeforeStaysConfirmed
  <2> SUFFICES ASSUME AInv, ~Reorgs, NEW r \in Request,
                      pc[r] = "done", OnChain(cmd[r]),
                      cmd[r].signed \in onArrival[r],
                      answer[r].http \in {200, 400}, answer[r].tx # Absent
               PROVE  SaysConfirmed(answer[r])
    BY DEF ConfirmedBeforeStaysConfirmed
  <2>1. cmd[r] \in Command /\ (Refused(r) \/ Worked(r))
    BY DEF AInv, AllTold, Told
  <2>2. Worked(r)
    BY <2>1, RefusalSays DEF Refused
  <2> QED BY <2>2 DEF Worked
<1> QED BY <1>1, AnswersAreTrue, PTL

\* A v2 settlement that was let in passed the checks.
LEMMA LetIn ==
  ASSUME NEW c \in Command, c.op = "settleV2", Refusal(c) = NoAnswer
  PROVE  Binds(c) /\ Absent \notin {c.recipient, c.network}
           /\ SettleV2Reason(c) = ""
BY DEF Refusal, SettleV2Refusal, NoAnswer, Failure, Response

\* And one that passes them is let in.
LEMMA PassesChecks ==
  ASSUME NEW c \in Command, c.op = "settleV2", Binds(c),
         Absent \notin {c.recipient, c.network}, SettleV2Reason(c) = ""
  PROVE  Refusal(c) = NoAnswer
BY DEF Refusal, SettleV2Refusal

\* What v2 verify answers.
LEMMA VerifyV2Says ==
  ASSUME NEW c \in Command, c.op = "verifyV2"
  PROVE  /\ Refusal(c) # NoAnswer
         /\ Refusal(c).success <=>
              /\ Binds(c) /\ Absent \notin {c.recipient, c.network}
              /\ VerifyV2Reason(c) = ""
<1>0. NoAnswer.http = 0
  BY DEF NoAnswer, Failure, Response
<1>1. CASE ~(Binds(c) /\ Absent \notin {c.recipient, c.network})
  <2>1. Refusal(c).http = 400
    BY <1>1 DEF Refusal, VerifyV2Answer, Failure, Response
  <2>2. ~Refusal(c).success
    BY <1>1 DEF Refusal, VerifyV2Answer, Failure, Response
  <2>3. Refusal(c) # NoAnswer
    BY <1>0, <2>1
  <2> QED BY <1>1, <2>2, <2>3, Zenon
<1>2. CASE Binds(c) /\ Absent \notin {c.recipient, c.network}
  <2>1. Refusal(c).http = 200
    BY <1>2 DEF Refusal, VerifyV2Answer, Response
  <2>2. VerifyV2Reason(c) = "" => Refusal(c).success
    BY <1>2 DEF Refusal, VerifyV2Answer, Response
  <2>3. VerifyV2Reason(c) # "" => ~Refusal(c).success
    BY <1>2 DEF Refusal, VerifyV2Answer, Response
  <2>4. Refusal(c) # NoAnswer
    BY <1>0, <2>1
  <2> QED BY <1>2, <2>2, <2>3, <2>4, Zenon
<1> QED BY <1>1, <1>2, Zenon

\* The two copies of the v2 checks refuse the same requests.
LEMMA ChecksFollow == AInv => VerifiedIsNotRefused
<1> SUFFICES ASSUME AInv, NEW v \in Request, NEW s \in Request,
                    pc[v] = "done", cmd[v].op = "verifyV2",
                    pc[s] = "done", cmd[s].op = "settleV2",
                    SameRequirements(cmd[v], cmd[s])
             PROVE  /\ answer[v].success =>
                         answer[s].http = 500 \/ sent[s] # "no"
                    /\ ~answer[v].success => ~answer[s].success
  BY DEF VerifiedIsNotRefused
<1> DEFINE c == cmd[v]
           d == cmd[s]
<1>1. /\ c \in Command /\ (Refused(v) \/ Worked(v))
      /\ d \in Command /\ (Refused(s) \/ Worked(s))
  BY DEF AInv, AllTold, Told
<1>2. /\ c["json"] = d["json"] /\ c["version"] = d["version"]
      /\ c["scheme"] = d["scheme"] /\ c["network"] = d["network"]
      /\ c["signed"] = d["signed"] /\ c["amount"] = d["amount"]
      /\ c["recipient"] = d["recipient"]
  BY DEF SameRequirements, V2Field
<1>3. /\ Binds(c) <=> Binds(d)
      /\ c.recipient = d.recipient /\ c.network = d.network
      /\ c.signed = d.signed
  BY <1>2 DEF Binds, IsV1
<1>4. /\ VerifyV2Reason(c) = "" => SettleV2Reason(d) = ""
      /\ SettleV2Reason(d) = "" =>
           VerifyV2Reason(c) = "" \/ c.signed = "short"
  BY <1>2 DEF VerifyV2Reason, SettleV2Reason
<1>5. answer[v].success <=> /\ Binds(c)
                            /\ Absent \notin {c.recipient, c.network}
                            /\ VerifyV2Reason(c) = ""
  <2>1. answer[v] = Refusal(c)
    BY <1>1, VerifyV2Says DEF Refused, Worked
  <2> QED BY <1>1, <2>1, VerifyV2Says
<1>6. ASSUME answer[v].success PROVE answer[s].http = 500 \/ sent[s] # "no"
  <2>1. Worked(s)
    BY <1>1, <1>3, <1>4, <1>5, <1>6, PassesChecks DEF Refused
  <2> QED BY <2>1 DEF Worked, IsSettle
<1>7. ASSUME answer[s].success PROVE answer[v].success
  <2>1. Worked(s)
    BY <1>1, <1>7, ErrorIsNoSuccess DEF Refused, OnChain
  <2>2. d.signed \in wasConfirmed
    BY <1>7 DEF AInv, IInv, SuccessMeansPaid, ReportsPaid, OnChain,
                PaidAsReported, PaysFor
  <2>3. d.signed # "short"
    BY <2>2, FacilitatorAssumption DEF AInv, IInv, TypeOK, NetworkTypeOK
  <2> QED BY <1>1, <1>3, <1>4, <1>5, <2>1, <2>3, LetIn DEF Worked
<1> QED BY <1>6, <1>7

\* What v2 verify accepts, v2 settle does not refuse before it has broadcast,
\* and what it refuses is never settled.  (Handle of VerifyPaymentHandlerV2 and
\* of SettlePaymentHandlerV2.)
THEOREM VerifiedIsServed == Spec => []VerifiedIsNotRefused
BY ChecksFollow, AnswersAreTrue, PTL

\* The three lists of kinds hold the same kinds.
LEMMA KindsFollow == AInv => AdvertisedKindsAreServed
<1> SUFFICES ASSUME AInv, NEW r \in Request, pc[r] = "done", ~IsV1(cmd[r])
             PROVE  IF KindOf(cmd[r]) \in Supported
                    THEN answer[r].reason \notin KindRefusal
                    ELSE ~answer[r].success /\ sent[r] = "no" /\ fetches[r] = 0
  BY DEF AdvertisedKindsAreServed
<1> DEFINE c == cmd[r]
<1>1. c \in Command /\ (Refused(r) \/ Worked(r))
  BY DEF AInv, AllTold, Told
<1>2. c.op \in {"settleV2", "verifyV2"}
  BY <1>1, FacilitatorAssumption DEF IsV1
<1>3. KindOf(c) \in Supported <=>
        /\ c.version = 2 /\ c.scheme = "exact"
        /\ NewNetworkFromCAIP2(c.network) # Invalid
  <2>1. c.network \in {"stacks:1", "stacks:2147483648"} <=>
          NewNetworkFromCAIP2(c.network) # Invalid
    BY DEF NewNetworkFromCAIP2, Invalid
  <2> QED BY <2>1 DEF KindOf, Supported
<1>4. CASE KindOf(c) \in Supported
  <2>1. /\ SettleV2Reason(c) \notin KindRefusal
        /\ VerifyV2Reason(c) \notin KindRefusal
    BY <1>3, <1>4 DEF SettleV2Reason, VerifyV2Reason, KindRefusal
  <2>2. Refusal(c).reason \notin KindRefusal
    <3>1. CASE c.op = "settleV2"
      BY <2>1, <3>1
      DEF Refusal, SettleV2Refusal, NoAnswer, Failure, Response, KindRefusal
    <3>2. CASE c.op = "verifyV2"
      BY <2>1, <3>2
      DEF Refusal, VerifyV2Answer, Failure, Response, KindRefusal
    <3> QED BY <1>2, <3>1, <3>2
  <2> QED BY <1>1, <1>4, <2>2 DEF Refused, Worked
<1>5. CASE KindOf(c) \notin Supported
  <2>1. SettleV2Reason(c) # "" /\ VerifyV2Reason(c) # ""
    BY <1>3, <1>5 DEF SettleV2Reason, VerifyV2Reason
  <2>2. Refusal(c) # NoAnswer
    BY <1>1, <1>2, <2>1, LetIn, VerifyV2Says
  <2>3. ~Refusal(c).success
    BY <1>1, <1>2, <2>1, ErrorIsNoSuccess, VerifyV2Says DEF OnChain
  <2> QED BY <1>1, <1>5, <2>2, <2>3 DEF Refused, Worked
<1> QED BY <1>4, <1>5

\* A client that picks a kind that is advertised is not refused for it, and
\* one that picks another is refused before anything is broadcast.
\* (Handler.Supported and the checks of the two v2 handlers.)
THEOREM KindsAreServed == Spec => []AdvertisedKindsAreServed
BY KindsFollow, AnswersAreTrue, PTL
=============================================================================
