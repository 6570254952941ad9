--------------------------- MODULE IsolationProofs ---------------------------
(***************************************************************************)
(* Every group of requests is served as if there were no others.           *)
(***************************************************************************)
EXTENDS Isolation, FacilitatorProofs

\* What the handlers compute does not depend on who else is being served: the
\* constructors and the parser,
LEMMA SameValues ==
  ASSUME NEW S
  PROVE  /\ \A s, h : Among(S)!IsTransactionConfirmed(s, h)
                        = IsTransactionConfirmed(s, h)
         /\ \A s, h : Among(S)!At(s, h) = At(s, h)
         /\ \A w : Among(S)!Parses(w) = Parses(w)
         /\ \A t, w, state, token :
              Among(S)!ParseTransactionResponse(t, w, state, token)
                = ParseTransactionResponse(t, w, state, token)
<1> USE DEF Among!Address, Address, Among!Uint64, Uint64,
            Among!Named, Named, Among!RecipientArg, RecipientArg,
            Among!IsTransactionConfirmed, IsTransactionConfirmed,
            Among!LastValue, LastValue, Among!Absent, Absent
<1>1. \A w : Among(S)!Parses(w) = Parses(w)
  BY DEF Among!Parses, Parses,
         Among!ParsesTokenTransfer, ParsesTokenTransfer,
         Among!ParsesSIP010Transfer, ParsesSIP010Transfer
<1>2. \A w : /\ Among(S)!WireRecipient(w) = WireRecipient(w)
             /\ Among(S)!WireAmount(w) = WireAmount(w)
             /\ Among(S)!WireMemo(w) = WireMemo(w)
  BY DEF Among!WireRecipient, WireRecipient, Among!WireAmount, WireAmount,
         Among!WireMemo, WireMemo
<1>3. \A t, w, state, token :
        Among(S)!ParseTransactionResponse(t, w, state, token)
          = ParseTransactionResponse(t, w, state, token)
  BY <1>2 DEF Among!ParseTransactionResponse, ParseTransactionResponse
<1> QED BY <1>1, <1>3 DEF Among!At, At

\* the network, the token and the loop of a command,
LEMMA SameRoute ==
  ASSUME NEW S, NEW c
  PROVE  /\ Among(S)!IsSettle(c) = IsSettle(c)
         /\ Among(S)!NodeOf(c) = NodeOf(c)
         /\ Among(S)!TokenOf(c) = TokenOf(c)
         /\ Among(S)!MaxRetriesOf(c) = MaxRetriesOf(c)
         /\ \A tx : Among(S)!EndsLoop(c, tx) = EndsLoop(c, tx)
<1> USE DEF Among!IsSettle, IsSettle, Among!IsV1, IsV1, Among!Invalid, Invalid
<1>1. Among(S)!NodeOf(c) = NodeOf(c)
  BY DEF Among!NodeOf, NodeOf, Among!NetworkOf, NetworkOf,
         Among!GetClientForNetwork, GetClientForNetwork,
         Among!NewNetwork, NewNetwork,
         Among!NewNetworkFromCAIP2, NewNetworkFromCAIP2
<1>2. Among(S)!TokenOf(c) = TokenOf(c)
  BY DEF Among!TokenOf, TokenOf, Among!AssetToTokenType, AssetToTokenType,
         Among!NewTokenType, NewTokenType, Among!TokenType, TokenType
<1> QED
  BY <1>1, <1>2
  DEF Among!MaxRetriesOf, MaxRetriesOf, Among!EndsLoop, EndsLoop,
      Among!IsTransactionFailed, IsTransactionFailed,
      Among!FailedStatus, FailedStatus

\* the checks of a command before any I/O,
LEMMA SameRefusal ==
  ASSUME NEW S, NEW c
  PROVE  Among(S)!Refusal(c) = Refusal(c)
<1> USE DEF Among!Failure, Failure, Among!Response, Response,
            Among!Absent, Absent, Among!Invalid, Invalid,
            Among!Uint64, Uint64, Among!Address, Address,
            Among!Binds, Binds, Among!IsV1, IsV1, Among!NoAnswer, NoAnswer,
            Among!MissingV1Field, MissingV1Field,
            Among!NewNetwork, NewNetwork,
            Among!NewNetworkFromCAIP2, NewNetworkFromCAIP2
<1>1. Among(S)!SettleV1Refusal(c) = SettleV1Refusal(c)
  BY DEF Among!SettleV1Refusal, SettleV1Refusal
<1>2. Among(S)!VerifyV1Refusal(c) = VerifyV1Refusal(c)
  BY DEF Among!VerifyV1Refusal, VerifyV1Refusal
<1>3. Among(S)!SettleV2Refusal(c) = SettleV2Refusal(c)
  BY DEF Among!SettleV2Refusal, SettleV2Refusal,
         Among!SettleV2Reason, SettleV2Reason
<1>4. Among(S)!VerifyV2Answer(c) = VerifyV2Answer(c)
  BY DEF Among!VerifyV2Answer, VerifyV2Answer,
         Among!VerifyV2Reason, VerifyV2Reason
<1> QED BY <1>1, <1>2, <1>3, <1>4 DEF Among!Refusal, Refusal

\* and the answers after it.
LEMMA SameAnswers ==
  ASSUME NEW S, NEW c
  PROVE  /\ Among(S)!NoAnswer = NoAnswer
         /\ Among(S)!BroadcastError(c) = BroadcastError(c)
         /\ Among(S)!FetchError(c) = FetchError(c)
         /\ \A tx : Among(S)!Verdict(c, tx) = Verdict(c, tx)
<1> USE DEF Among!Failure, Failure, Among!Response, Response,
            Among!Absent, Absent
<1>1. Among(S)!Criteria(c) = Criteria(c)
  BY DEF Among!Criteria, Criteria, Among!ExpectedSender, ExpectedSender,
         Among!Address, Address
<1>2. \A tx, criteria : Among(S)!Verify(tx, criteria) = Verify(tx, criteria)
  BY DEF Among!Verify, Verify, Among!Report, Report,
         Among!FailedStatus, FailedStatus,
         Among!IsGreaterThanOrEqual, IsGreaterThanOrEqual
<1>3. \A tx : Among(S)!DeterminePaymentStatus(tx) = DeterminePaymentStatus(tx)
  BY DEF Among!DeterminePaymentStatus, DeterminePaymentStatus,
         Among!FailedStatus, FailedStatus
<1>4. \A m : Among(S)!MapVerificationErrorToV2(m)
               = MapVerificationErrorToV2(m)
  BY DEF Among!MapVerificationErrorToV2, MapVerificationErrorToV2,
         Among!Contains, Contains, Among!WordsOf, WordsOf
<1>5. ASSUME NEW tx PROVE Among(S)!Verdict(c, tx) = Verdict(c, tx)
  <2> DEFINE errors == Verify(tx, Criteria(c))
  <2>1. Among(S)!Verify(tx, Among(S)!Criteria(c)) = errors
    BY <1>1, <1>2
  <2>2. /\ Among(S)!DeterminePaymentStatus(tx) = DeterminePaymentStatus(tx)
        /\ Among(S)!MapVerificationErrorToV2(errors[1])
             = MapVerificationErrorToV2(errors[1])
    BY <1>3, <1>4
  <2> QED BY <2>1, <2>2 DEF Among!Verdict, Verdict
<1> QED
  BY <1>5 DEF Among!NoAnswer, NoAnswer,
              Among!BroadcastError, BroadcastError, Among!FetchError, FetchError

-----------------------------------------------------------------------------
\* A change of a function at r is the same change of its restriction to a set
\* that holds r, and none of the others.
LEMMA Slice ==
  ASSUME NEW S \in SUBSET Request, NEW f, DOMAIN f = Request,
         NEW r \in Request, NEW v
  PROVE  LET g == [f EXCEPT ![r] = v]
         IN  /\ r \in S => [q \in S |-> g[q]]
                             = [[q \in S |-> f[q]] EXCEPT ![r] = v]
             /\ r \notin S => [q \in S |-> g[q]] = [q \in S |-> f[q]]
OBVIOUS

\* The arrival of a request of S.
LEMMA OwnArrival ==
  ASSUME TypeOK, NEW S \in SUBSET Request, NEW r \in S, NEW c \in Command,
         Receive(r, c)
  PROVE  Among(S)!Receive(r, c)
<1> USE DEF TypeOK
<1>1. /\ [q \in S |-> cmd'[q]] = [[q \in S |-> cmd[q]] EXCEPT ![r] = c]
      /\ [q \in S |-> onArrival'[q]]
           = [[q \in S |-> onArrival[q]]
                EXCEPT ![r] = {t \in Tx : ConfirmedAt(t)}]
  BY Slice DEF Receive
<1>2. {t \in Tx : Among(S)!ConfirmedAt(t)} = {t \in Tx : ConfirmedAt(t)}
  BY SameValues DEF Among!ConfirmedAt, ConfirmedAt
<1>3. CASE Refusal(c) # NoAnswer
  <2>1. /\ [q \in S |-> pc'[q]] = [[q \in S |-> pc[q]] EXCEPT ![r] = "done"]
        /\ [q \in S |-> answer'[q]]
             = [[q \in S |-> answer[q]] EXCEPT ![r] = Refusal(c)]
    BY <1>3, Slice DEF Receive, Reply, Goto
  <2>2. Among(S)!Refusal(c) = Refusal(c) /\ Among(S)!NoAnswer = NoAnswer
    BY SameRefusal, SameAnswers
  <2> QED
    BY <1>1, <1>2, <1>3, <2>1, <2>2
    DEF Receive, networkVars, Among!Receive, Among!Reply, Among!Goto,
        Among!networkVars
<1>4. CASE Refusal(c) = NoAnswer
  <2> DEFINE place == IF IsSettle(c) THEN "broadcasting" ELSE "polling"
  <2>1. /\ [q \in S |-> pc'[q]] = [[q \in S |-> pc[q]] EXCEPT ![r] = place]
        /\ UNCHANGED answer
    BY <1>4, Slice DEF Receive, Goto
  <2>2. /\ Among(S)!Refusal(c) = Refusal(c) /\ Among(S)!NoAnswer = NoAnswer
        /\ Among(S)!IsSettle(c) = IsSettle(c)
    BY SameRefusal, SameAnswers, SameRoute
  <2> QED
    BY <1>1, <1>2, <1>4, <2>1, <2>2
    DEF Receive, networkVars, Among!Receive, Among!Goto, Among!networkVars
<1> QED BY <1>3, <1>4

\* The outcomes of its broadcast.
LEMMA OwnBroadcast ==
  ASSUME TypeOK, NEW S \in SUBSET Request, NEW r \in S
  PROVE  /\ BroadcastAcked(r) => Among(S)!BroadcastAcked(r)
         /\ BroadcastLost(r) => Among(S)!BroadcastLost(r)
         /\ BroadcastRefused(r) => Among(S)!BroadcastRefused(r)
<1> USE DEF TypeOK
<1> DEFINE c == cmd[r]
<1>1. Admit(c.signed) => Among(S)!Admit(c.signed)
  BY SameValues DEF Admit, Among!Admit
<1>2. CanBroadcast(r) => Among(S)!CanBroadcast(r)
  BY SameRoute DEF CanBroadcast, Among!CanBroadcast
<1>3. ASSUME Reply(r, BroadcastError(c))
      PROVE  /\ [q \in S |-> pc'[q]]
                  = [[q \in S |-> pc[q]] EXCEPT ![r] = "done"]
             /\ [q \in S |-> answer'[q]]
                  = [[q \in S |-> answer[q]]
                       EXCEPT ![r] = Among(S)!BroadcastError(c)]
  <2>1. Among(S)!BroadcastError(c) = BroadcastError(c)
    BY SameAnswers
  <2> QED BY <1>3, <2>1, Slice DEF Reply, Goto
<1>4. ASSUME BroadcastAcked(r) PROVE Among(S)!BroadcastAcked(r)
  <2>1. /\ [q \in S |-> pc'[q]]
             = [[q \in S |-> pc[q]] EXCEPT ![r] = "polling"]
        /\ [q \in S |-> sent'[q]]
             = [[q \in S |-> sent[q]] EXCEPT ![r] = "acked"]
    BY <1>4, Slice DEF BroadcastAcked, Goto
  <2> QED
    BY <1>1, <1>2, <1>4, <2>1
    DEF BroadcastAcked, Among!BroadcastAcked, Among!Goto
<1>5. ASSUME BroadcastLost(r) PROVE Among(S)!BroadcastLost(r)
  <2>1. [q \in S |-> sent'[q]]
          = [[q \in S |-> sent[q]] EXCEPT ![r] = "admitted"]
    BY <1>5, Slice DEF BroadcastLost
  <2>2. Reply(r, BroadcastError(c))
    BY <1>5 DEF BroadcastLost
  <2> QED
    BY <1>1, <1>2, <1>3, <1>5, <2>1, <2>2
    DEF BroadcastLost, Among!BroadcastLost, Among!Reply, Among!Goto
<1>6. ASSUME BroadcastRefused(r) PROVE Among(S)!BroadcastRefused(r)
  BY <1>3, <1>6
  DEF BroadcastRefused, networkVars, localVars, Among!BroadcastRefused,
      Among!networkVars, Among!localVars, Among!Reply, Among!Goto
<1> QED BY <1>4, <1>5, <1>6

\* Its fetches: what they can return is what they return among all requests.
LEMMA OwnFetch ==
  ASSUME TypeOK, NEW S \in SUBSET Request, NEW r \in S
  PROVE  /\ PollFails(r) => Among(S)!PollFails(r)
         /\ PollSees(r) => Among(S)!PollSees(r)
         /\ FinalFails(r) => Among(S)!FinalFails(r)
         /\ FinalSees(r) => Among(S)!FinalSees(r)
<1> USE DEF TypeOK
<1>1. Among(S)!Fetched(r) = Fetched(r)
  BY SameValues, SameRoute DEF Fetched, Among!Fetched
<1>2. CanFetch(r) => Among(S)!CanFetch(r)
  BY SameValues, SameRoute DEF CanFetch, Among!CanFetch
<1>3. ASSUME NEW success, CountFetch(r, success)
      PROVE  Among(S)!CountFetch(r, success)
  <2>1. /\ [q \in S |-> fetches'[q]]
             = [[q \in S |-> fetches[q]] EXCEPT ![r] = fetches[r] + 1]
        /\ [q \in S |-> sighted'[q]]
             = [[q \in S |-> sighted[q]] EXCEPT ![r] = sighted[r] \/ success]
    BY <1>3, Slice DEF CountFetch
  <2> QED BY <2>1 DEF Among!CountFetch
<1>4. ASSUME NEW place, Goto(r, place) PROVE Among(S)!Goto(r, place)
  BY <1>4, Slice DEF Goto, Among!Goto
<1>5. ASSUME got' = [got EXCEPT ![r] = Fetched(r)]
      PROVE  [q \in S |-> got'[q]]
               = [[q \in S |-> got[q]] EXCEPT ![r] = Among(S)!Fetched(r)]
  BY <1>1, <1>5, Slice
<1>6. ASSUME PollFails(r) PROVE Among(S)!PollFails(r)
  BY <1>3, <1>4, <1>6
  DEF PollFails, networkVars, Among!PollFails, Among!networkVars
<1>7. ASSUME PollSees(r) PROVE Among(S)!PollSees(r)
  <2>1. Among(S)!EndsLoop(cmd[r], Among(S)!Fetched(r))
          = EndsLoop(cmd[r], Fetched(r))
    BY <1>1, SameRoute
  <2> QED
    BY <1>2, <1>3, <1>4, <1>5, <1>7, <2>1
    DEF PollSees, networkVars, Among!PollSees, Among!networkVars
<1>8. ASSUME FinalFails(r) PROVE Among(S)!FinalFails(r)
  <2>1. [q \in S |-> answer'[q]]
          = [[q \in S |-> answer[q]] EXCEPT ![r] = FetchError(cmd[r])]
    BY <1>8, Slice DEF FinalFails, Reply
  <2> QED
    BY <1>3, <1>4, <1>8, <2>1, SameAnswers
    DEF FinalFails, networkVars, Reply, Among!FinalFails, Among!networkVars,
        Among!Reply
<1>9. ASSUME FinalSees(r) PROVE Among(S)!FinalSees(r)
  BY <1>2, <1>3, <1>4, <1>5, <1>9
  DEF FinalSees, networkVars, Among!FinalSees, Among!networkVars
<1> QED BY <1>6, <1>7, <1>8, <1>9

\* Its delays, its answer, and its client going away.
LEMMA OwnRest ==
  ASSUME TypeOK, NEW S \in SUBSET Request, NEW r \in S
  PROVE  /\ Wake(r) => Among(S)!Wake(r)
         /\ SleepCancelled(r) => Among(S)!SleepCancelled(r)
         /\ Complete(r) => Among(S)!Complete(r)
         /\ Disconnect(r) => Among(S)!Disconnect(r)
<1> USE DEF TypeOK
<1>1. ASSUME NEW place, Goto(r, place) PROVE Among(S)!Goto(r, place)
  BY <1>1, Slice DEF Goto, Among!Goto
<1>2. ASSUME NEW a, Reply(r, a)
      PROVE  /\ [q \in S |-> pc'[q]]
                  = [[q \in S |-> pc[q]] EXCEPT ![r] = "done"]
             /\ [q \in S |-> answer'[q]]
                  = [[q \in S |-> answer[q]] EXCEPT ![r] = a]
  BY <1>2, Slice DEF Reply, Goto
<1>3. /\ Among(S)!FetchError(cmd[r]) = FetchError(cmd[r])
      /\ Among(S)!Verdict(cmd[r], got[r]) = Verdict(cmd[r], got[r])
      /\ Among(S)!IsSettle(cmd[r]) = IsSettle(cmd[r])
  BY SameAnswers, SameRoute
<1>4. ASSUME Wake(r) PROVE Among(S)!Wake(r)
  <2>1. [q \in S |-> attempt'[q]]
          = [[q \in S |-> attempt[q]] EXCEPT ![r] = attempt[r] + 1]
    BY <1>4, Slice DEF Wake
  <2>2. Among(S)!MoreRounds(r) = MoreRounds(r)
    BY SameRoute DEF MoreRounds, Among!MoreRounds
  <2>3. CASE MoreRounds(r)
    BY <1>1, <1>4, <2>1, <2>2, <2>3
    DEF Wake, networkVars, Among!Wake, Among!networkVars
  <2>4. CASE ~MoreRounds(r) /\ IsSettle(cmd[r])
    BY <1>1, <1>3, <1>4, <2>1, <2>2, <2>4
    DEF Wake, networkVars, Among!Wake, Among!networkVars
  <2>5. CASE ~MoreRounds(r) /\ ~IsSettle(cmd[r])
    <3>1. Reply(r, FetchError(cmd[r]))
      BY <1>4, <2>5 DEF Wake
    <3>2. /\ [q \in S |-> pc'[q]]
               = [[q \in S |-> pc[q]] EXCEPT ![r] = "done"]
          /\ [q \in S |-> answer'[q]]
               = [[q \in S |-> answer[q]] EXCEPT ![r] = FetchError(cmd[r])]
      BY <3>1, <1>2
    <3> QED
      BY <1>3, <1>4, <2>1, <2>2, <2>5, <3>2
      DEF Wake, networkVars, Among!Wake, Among!networkVars, Among!Reply,
          Among!Goto
  <2> QED BY <2>3, <2>4, <2>5
<1>5. ASSUME SleepCancelled(r) PROVE Among(S)!SleepCancelled(r)
  <2>1. /\ [q \in S |-> pc'[q]] = [[q \in S |-> pc[q]] EXCEPT ![r] = "done"]
        /\ [q \in S |-> answer'[q]]
             = [[q \in S |-> answer[q]] EXCEPT ![r] = FetchError(cmd[r])]
    BY <1>2, <1>5 DEF SleepCancelled
  <2> QED
    BY <1>3, <1>5, <2>1
    DEF SleepCancelled, networkVars, localVars, Among!SleepCancelled,
        Among!networkVars, Among!localVars, Among!Reply, Among!Goto
<1>6. ASSUME Complete(r) PROVE Among(S)!Complete(r)
  <2>1. /\ [q \in S |-> pc'[q]] = [[q \in S |-> pc[q]] EXCEPT ![r] = "done"]
        /\ [q \in S |-> answer'[q]]
             = [[q \in S |-> answer[q]]
                  EXCEPT ![r] = Verdict(cmd[r], got[r])]
    BY <1>2, <1>6 DEF Complete
  <2> QED
    BY <1>3, <1>6, <2>1
    DEF Complete, networkVars, localVars, Among!Complete, Among!networkVars,
        Among!localVars, Among!Reply, Among!Goto
<1>7. ASSUME Disconnect(r) PROVE Among(S)!Disconnect(r)
  <2>1. [q \in S |-> live'[q]] = [[q \in S |-> live[q]] EXCEPT ![r] = FALSE]
    BY <1>7, Slice DEF Disconnect
  <2> QED
    BY <1>7, <2>1
    DEF Disconnect, InFlight, networkVars, Among!Disconnect, Among!InFlight,
        Among!networkVars
<1> QED BY <1>4, <1>5, <1>6, <1>7

-----------------------------------------------------------------------------
\* A step of the goroutine or the client of r writes what is r's, and of the
\* networks at most what a node does that admits a transaction.
LEMMA WritesItsOwn ==
  ASSUME TypeOK, NEW r \in Request,
         \/ \E c \in Command : Receive(r, c)
         \/ HandlerStep(r)
         \/ Disconnect(r)
  PROVE  /\ \A q \in Request \ {r} :
              /\ pc'[q] = pc[q] /\ answer'[q] = answer[q]
              /\ cmd'[q] = cmd[q] /\ live'[q] = live[q]
              /\ attempt'[q] = attempt[q] /\ got'[q] = got[q]
              /\ sent'[q] = sent[q] /\ fetches'[q] = fetches[q]
              /\ sighted'[q] = sighted[q] /\ onArrival'[q] = onArrival[q]
         /\ UNCHANGED networkVars \/ \E t \in Tx : Admit(t)
<1> USE DEF TypeOK, Goto, Reply, CountFetch, localVars, networkVars
<1>1. CASE \E c \in Command : Receive(r, c)
  BY <1>1 DEF Receive
<1>2. CASE BroadcastAcked(r) \/ BroadcastLost(r) \/ BroadcastRefused(r)
  BY <1>2 DEF BroadcastAcked, BroadcastLost, BroadcastRefused, CanBroadcast
<1>3. CASE PollFails(r) \/ PollSees(r)
  BY <1>3 DEF PollFails, PollSees
<1>4. CASE Wake(r) \/ SleepCancelled(r)
  BY <1>4 DEF Wake, SleepCancelled
<1>5. CASE FinalFails(r) \/ FinalSees(r) \/ Complete(r)
  BY <1>5 DEF FinalFails, FinalSees, Complete
<1>6. CASE Disconnect(r)
  BY <1>6 DEF Disconnect
<1> QED BY <1>1, <1>2, <1>3, <1>4, <1>5, <1>6 DEF HandlerStep

\* What a step does that changes nothing of the requests of S is what their
\* environment may do, or nothing: a broadcast of another request is a
\* submission by the payer, or repeats one.
LEMMA OthersAreEnvironment ==
  ASSUME TypeOK, NEW S \in SUBSET Request,
         \A q \in S :
           /\ pc'[q] = pc[q] /\ answer'[q] = answer[q]
           /\ cmd'[q] = cmd[q] /\ live'[q] = live[q]
           /\ attempt'[q] = attempt[q] /\ got'[q] = got[q]
           /\ sent'[q] = sent[q] /\ fetches'[q] = fetches[q]
           /\ sighted'[q] = sighted[q] /\ onArrival'[q] = onArrival[q],
         \/ UNCHANGED networkVars
         \/ \E t \in Tx : Admit(t) \/ NetworkStep(t)
  PROVE  UNCHANGED Among(S)!vars \/ Among(S)!Next
<1>1. UNCHANGED <<[q \in S |-> pc[q]], [q \in S |-> answer[q]],
                  Among(S)!localVars>>
  BY DEF Among!localVars
<1>2. CASE UNCHANGED networkVars
  BY <1>1, <1>2 DEF networkVars, Among!vars, Among!networkVars
<1>3. ASSUME NEW t \in Tx, NetworkStep(t) PROVE Among(S)!NetworkStep(t)
  BY <1>3, SameValues
  DEF NetworkStep, PayerSubmits, ChainStep, Admit, MineUnanchored, Mine,
      Abort, Drop, Reorg, Among!NetworkStep, Among!PayerSubmits,
      Among!ChainStep, Among!Admit, Among!MineUnanchored, Among!Mine,
      Among!Abort, Among!Drop, Among!Reorg
<1>4. ASSUME NEW t \in Tx, Admit(t)
      PROVE  UNCHANGED networkVars \/ NetworkStep(t)
  BY <1>4 DEF Admit, networkVars, NetworkStep, PayerSubmits
<1>5. ASSUME NEW t \in Tx, NetworkStep(t) PROVE Among(S)!Next
  BY <1>1, <1>3, <1>5 DEF Among!Next, Among!Environment
<1> QED BY <1>2, <1>4, <1>5

\* The process stops for the requests of S as it does for all.
LEMMA CrashOfGroup ==
  ASSUME TypeOK, NEW S \in SUBSET Request, Crash
  PROVE  UNCHANGED Among(S)!vars \/ Among(S)!Next
<1>1. UNCHANGED <<networkVars, answer, localVars>>
  BY DEF Crash
<1>2. \A q \in S : pc'[q] = IF q \in InFlight THEN "lost" ELSE pc[q]
  BY DEF Crash
<1>3. Among(S)!InFlight = InFlight \cap S
  BY DEF InFlight, Among!InFlight
<1>4. CASE InFlight \cap S = {}
  <2>1. \A q \in S : pc'[q] = pc[q]
    BY <1>2, <1>4
  <2> QED
    BY <1>1, <2>1 DEF networkVars, localVars, Among!vars, Among!networkVars,
                      Among!localVars
<1>5. CASE InFlight \cap S # {}
  <2>1. Among(S)!Crash
    BY <1>1, <1>2, <1>3, <1>5
    DEF networkVars, localVars, Among!Crash, Among!networkVars,
        Among!localVars
  <2> QED BY <2>1 DEF Among!Next
<1> QED BY <1>4, <1>5

\* Every step is, for the requests of S, one of theirs, one of their
\* environment or none.
LEMMA StepOfGroup ==
  ASSUME TypeOK, [Next]_vars, NEW S \in SUBSET Request
  PROVE  UNCHANGED Among(S)!vars \/ Among(S)!Next
<1>1. ASSUME NEW r \in Request,
             \/ \E c \in Command : Receive(r, c)
             \/ HandlerStep(r)
             \/ Disconnect(r)
      PROVE  UNCHANGED Among(S)!vars \/ Among(S)!Next
  <2>1. CASE r \in S
    <3>1. CASE \E c \in Command : Receive(r, c)
      BY <2>1, <3>1, OwnArrival DEF Among!Next
    <3>2. CASE HandlerStep(r)
      <4>1. Among(S)!HandlerStep(r)
        BY <2>1, <3>2, OwnBroadcast, OwnFetch, OwnRest
        DEF HandlerStep, Among!HandlerStep
      <4> QED BY <2>1, <4>1 DEF Among!Next
    <3>3. CASE Disconnect(r)
      BY <2>1, <3>3, OwnRest DEF Among!Next
    <3> QED BY <1>1, <3>1, <3>2, <3>3
  <2>2. CASE r \notin S
    BY <1>1, <2>2, WritesItsOwn, OthersAreEnvironment
  <2> QED BY <2>1, <2>2
<1>2. CASE Crash
  BY <1>2, CrashOfGroup
<1>3. CASE Environment
  BY <1>3, OthersAreEnvironment DEF Environment, localVars
<1>4. CASE UNCHANGED vars
  BY <1>4, OthersAreEnvironment DEF vars, localVars
<1> QED BY <1>1, <1>2, <1>3, <1>4 DEF Next

\* At the start no request has arrived, of S neither.
LEMMA InitOfGroup ==
  ASSUME Init, NEW S \in SUBSET Request
  PROVE  Among(S)!Init
<1>1. Among(S)!NetworkInit
  BY SameValues DEF Init, NetworkInit, Among!NetworkInit
<1>2. Among(S)!NoCommand = NoCommand /\ Among(S)!NoTx = NoTx
  BY DEF Among!NoCommand, NoCommand, Among!NoTx, NoTx, Among!Absent, Absent
<1>3. Among(S)!NoAnswer = NoAnswer
  BY SameAnswers
<1> QED BY <1>1, <1>2, <1>3 DEF Init, Among!Init

\* Any requests are served as if there were no others: whatever holds of a
\* facilitator that serves k requests holds of every k requests among more.
\* (The handlers, adapter and clients of main.go, one of each for all.)
THEOREM RequestsAreIsolated == Spec => ServedAsIfAlone
<1>1. Init => GroupsInit
  BY InitOfGroup DEF GroupsInit, Group
<1>2. TypeOK /\ [Next]_vars => [GroupsNext]_vars
  BY StepOfGroup DEF GroupsNext, Group
<1> QED
  BY <1>1, <1>2, TypeCorrect, PTL
  DEF Spec, ServedAsIfAlone
=============================================================================
