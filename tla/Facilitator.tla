----------------------------- MODULE Facilitator ----------------------------
(***************************************************************************)
(* The facilitator process: its HTTP handlers, its four command handlers   *)
(* and the polling loops of its blockchain adapter, serving concurrent     *)
(* requests over the Stacks networks of StacksNetwork.  A request is a     *)
(* goroutine; it keeps its state in local variables, here functions of the *)
(* request.  The process keeps no other state.                             *)
(***************************************************************************)
EXTENDS StacksNetwork

CONSTANTS
  Request,           \* slots for HTTP requests, each used once
  Command,           \* the bodies clients may send
  SettleMaxRetries,  \* DefaultSettleMaxRetries
  VerifyMaxRetries   \* DefaultVerifyMaxRetries

\* What a request may give as its transaction: one the networks know, nothing,
\* a string too short to be one, or another string that is none.
Payload == Tx \cup {Absent, "short", "garbage"}

ASSUME FacilitatorAssumption ==
  /\ SettleMaxRetries \in Nat \ {0}
  /\ VerifyMaxRetries \in Nat \ {0}
  /\ {Absent, "short", "garbage"} \cap Tx = {}
  /\ \A c \in Command :
       /\ c.op \in {"settleV1", "settleV2", "verifyV1", "verifyV2"}
       /\ c.signed \in Payload
       /\ c.amount \in Nat
       /\ c.json \in BOOLEAN

VARIABLES
  pc,        \* where the goroutine of the request is
  cmd,       \* the body of the request
  live,      \* the client is connected: the context is not cancelled
  attempt,   \* i, the counter of the adapter's loop
  got,       \* the transaction the adapter returned to the handler
  answer,    \* the HTTP response
  sent,      \* history: what became of the broadcast, see SentState
  fetches,   \* history: the number of GETs for the transaction
  sighted,   \* history: one of those GETs returned a transaction
  onArrival  \* history: the transactions confirmed when r arrived

localVars == <<cmd, live, attempt, got, sent, fetches, sighted, onArrival>>
vars == <<networkVars, pc, answer, localVars>>

PC == {"idle", "broadcasting", "polling", "sleeping", "final",
       "verifying", "done", "lost"}

\* "admitted": the node took the transaction but the handler was not told.
SentState == {"no", "admitted", "acked"}

NoTx == [tx |-> Absent]

Response(http, success, tx, payer, status, reason) ==
  [http |-> http, success |-> success, tx |-> tx, payer |-> payer,
   status |-> status, reason |-> reason]

\* An answer that names no transaction, and the absence of an answer.
Failure(http, reason) == Response(http, FALSE, Absent, Absent, "", reason)
NoAnswer == Failure(0, "")

-----------------------------------------------------------------------------
(* What the handlers make of a command.                                    *)

IsSettle(c) == c.op \in {"settleV1", "settleV2"}
IsV1(c)     == c.op \in {"settleV1", "verifyV1"}

NetworkOf(c) ==
  IF IsV1(c) THEN NewNetwork(c.network) ELSE NewNetworkFromCAIP2(c.network)

\* Failing to name a token type is no error in v1: the default is STX.
TokenOf(c) ==
  IF ~IsV1(c) THEN AssetToTokenType(c.token)
  ELSE IF NewTokenType(c.token) = Invalid THEN "STX"
  ELSE NewTokenType(c.token)

\* Mutant: the clients of the networks are swapped.
GetClientForNetwork_Swapped(n) ==
  IF n = "mainnet" THEN "testnet" ELSE "mainnet"

GetClientForNetwork(n) == IF n = "mainnet" THEN "mainnet" ELSE "testnet"

NodeOf(c) == GetClientForNetwork(NetworkOf(c))

MaxRetriesOf(c) == IF IsSettle(c) THEN SettleMaxRetries ELSE VerifyMaxRetries

\* The body has the types of the request.  A v1 amount is a number in it, and
\* one that does not fit fails to bind; a v2 amount is a string.
Binds(c) == c.json /\ (IsV1(c) => c.amount \in Uint64)

\* An expected sender that is not an address is ignored.
ExpectedSender(c) == IF c.sender \in Address THEN c.sender ELSE Absent

MissingV1Field(c) == Absent \in {c.signed, c.recipient, c.network}

SettleV1Refusal(c) ==
  IF ~Binds(c) THEN Failure(400, "invalid_request")
  ELSE IF MissingV1Field(c) THEN Failure(400, "missing_required_fields")
  ELSE IF NewNetwork(c.network) = Invalid \/ c.recipient \notin Address
  THEN Failure(500, "settlement_failed")
  ELSE NoAnswer

VerifyV1Refusal(c) ==
  IF ~Binds(c) THEN Failure(400, "invalid_request")
  ELSE IF MissingV1Field(c) THEN Failure(400, "missing_required_fields")
  ELSE IF \/ c.signed \notin Tx
          \/ NewNetwork(c.network) = Invalid
          \/ c.recipient \notin Address
  THEN Failure(500, "verification_failed")
  ELSE NoAnswer

\* Mutant: the scheme is checked by the verify handler alone.
SettleV2Reason_AnyScheme(c) ==
  IF c.version # 2 THEN "invalid_x402_version"
  ELSE IF NewNetworkFromCAIP2(c.network) = Invalid THEN "invalid_network"
  ELSE IF c.signed = Absent THEN "invalid_payload"
  ELSE IF c.amount \notin Uint64 THEN "invalid_payment_requirements"
  ELSE IF c.recipient \notin Address THEN "invalid_payment_requirements"
  ELSE ""

\* The reason the v2 settle handler refuses c with, "" if it does not.
SettleV2Reason(c) ==
  IF c.version # 2 THEN "invalid_x402_version"
  ELSE IF c.scheme # "exact" THEN "unsupported_scheme"
  ELSE IF NewNetworkFromCAIP2(c.network) = Invalid THEN "invalid_network"
  ELSE IF c.signed = Absent THEN "invalid_payload"
  ELSE IF c.amount \notin Uint64 THEN "invalid_payment_requirements"
  ELSE IF c.recipient \notin Address THEN "invalid_payment_requirements"
  ELSE ""

\* Mutant: the verify handler accepts an amount the settle handler refuses.
VerifyV2Reason_AnyAmount(c) ==
  IF c.version # 2 THEN "invalid_x402_version"
  ELSE IF c.scheme # "exact" THEN "unsupported_scheme"
  ELSE IF NewNetworkFromCAIP2(c.network) = Invalid THEN "invalid_network"
  ELSE IF c.signed \in {Absent, "short"} THEN "invalid_payload"
  ELSE IF c.recipient \notin Address THEN "invalid_payment_requirements"
  ELSE ""

\* The v2 verify handler repeats the checks of its sibling and adds one: a
\* payload too short to be a transaction.
VerifyV2Reason(c) ==
  IF c.version # 2 THEN "invalid_x402_version"
  ELSE IF c.scheme # "exact" THEN "unsupported_scheme"
  ELSE IF NewNetworkFromCAIP2(c.network) = Invalid THEN "invalid_network"
  ELSE IF c.signed = Absent THEN "invalid_payload"
  ELSE IF c.amount \notin Uint64 THEN "invalid_payment_requirements"
  ELSE IF c.recipient \notin Address THEN "invalid_payment_requirements"
  ELSE IF c.signed = "short" THEN "invalid_payload"
  ELSE ""

SettleV2Refusal(c) ==
  IF ~Binds(c) THEN Failure(400, "invalid_request")
  ELSE IF Absent \in {c.recipient, c.network}
  THEN Failure(400, "invalid_payment_requirements")
  ELSE IF SettleV2Reason(c) # "" THEN Failure(400, SettleV2Reason(c))
  ELSE NoAnswer

\* v2 verify looks at the request alone and always answers at once.
VerifyV2Answer(c) ==
  IF ~Binds(c) THEN Failure(400, "invalid_request")
  ELSE IF Absent \in {c.recipient, c.network}
  THEN Failure(400, "invalid_payment_requirements")
  ELSE Response(200, VerifyV2Reason(c) = "", Absent, Absent, "",
                VerifyV2Reason(c))

\* Mutant: a scheme is advertised that the handlers do not serve.
Supported_Upto ==
  [version : {2}, scheme : {"exact", "upto"},
   network : {"stacks:1", "stacks:2147483648"}]

\* The kinds of payment that GET /supported lists.
Supported ==
  [version : {2}, scheme : {"exact"},
   network : {"stacks:1", "stacks:2147483648"}]

\* The answer to a command its handler refuses before any I/O, or NoAnswer.
Refusal(c) ==
  CASE c.op = "settleV1" -> SettleV1Refusal(c)
    [] c.op = "settleV2" -> SettleV2Refusal(c)
    [] c.op = "verifyV1" -> VerifyV1Refusal(c)
    [] c.op = "verifyV2" -> VerifyV2Answer(c)

\* Mutant: a broadcast that failed is taken for one that was refused.
BroadcastError_Refused(c) ==
  Failure(400, IF c.op = "settleV1" THEN "settlement_failed"
               ELSE "unexpected_settle_error")

\* The answer when the broadcast returned an error.
BroadcastError(c) ==
  Failure(500, IF c.op = "settleV1" THEN "settlement_failed"
               ELSE "unexpected_settle_error")

\* Mutant: the v2 error after a broadcast forgets the transaction, as in v1.
FetchError_Unnamed(c) ==
  Failure(500, IF c.op = "settleV1" THEN "settlement_failed"
               ELSE IF c.op = "verifyV1" THEN "verification_failed"
               ELSE "unexpected_settle_error")

\* Mutant: a v1 settlement whose polling failed is answered like a request
\* that was refused, by a client error that names no transaction.
FetchError_Refused(c) ==
  CASE c.op = "settleV1" -> Failure(400, "settlement_failed")
    [] c.op = "verifyV1" -> Failure(500, "verification_failed")
    [] c.op = "settleV2" ->
         Response(500, FALSE, c.signed, Absent, "", "unexpected_settle_error")

\* The answer when the adapter's loop returned an error: only v2 settle
\* names the transaction it had broadcast.
FetchError(c) ==
  CASE c.op = "settleV1" -> Failure(500, "settlement_failed")
    [] c.op = "verifyV1" -> Failure(500, "verification_failed")
    [] c.op = "settleV2" ->
         Response(500, FALSE, c.signed, Absent, "", "unexpected_settle_error")

Criteria(c) ==
  [recipient         |-> c.recipient,
   amount            |-> c.amount,
   acceptUnconfirmed |-> FALSE,
   sender |-> IF c.op = "settleV2" THEN Absent ELSE ExpectedSender(c),
   memo   |-> IF c.op = "verifyV1" THEN c.memo ELSE Absent]

\* The answer once a transaction has been fetched.  The check of the failed
\* statuses that v2 settle adds can find nothing: Verify reported them.
Verdict(c, tx) ==
  LET errors == Verify(tx, Criteria(c))
      valid  == errors = << >>
  IN  CASE c.op = "settleV1" ->
             Response(IF valid THEN 200 ELSE 400, valid, tx.tx, tx.sender,
                      DeterminePaymentStatus(tx), "")
        [] c.op = "verifyV1" ->
             Response(200, valid, tx.tx, tx.sender,
                      DeterminePaymentStatus(tx), "")
        [] c.op = "settleV2" ->
             Response(IF valid THEN 200 ELSE 400, valid, tx.tx, tx.sender, "",
                      IF valid THEN ""
                      ELSE MapVerificationErrorToV2(errors[1]))

\* Whether the loop of the adapter returns tx or goes on polling.
EndsLoop(c, tx) ==
  IsSettle(c) => tx.confirmed \/ IsTransactionFailed(tx.status)

-----------------------------------------------------------------------------
NoCommand == [op |-> "none"]

Init ==
  /\ NetworkInit
  /\ pc = [r \in Request |-> "idle"]
  /\ cmd = [r \in Request |-> NoCommand]
  /\ live = [r \in Request |-> TRUE]
  /\ attempt = [r \in Request |-> 0]
  /\ got = [r \in Request |-> NoTx]
  /\ answer = [r \in Request |-> NoAnswer]
  /\ sent = [r \in Request |-> "no"]
  /\ fetches = [r \in Request |-> 0]
  /\ sighted = [r \in Request |-> FALSE]
  /\ onArrival = [r \in Request |-> {}]

Goto(r, place) == pc' = [pc EXCEPT ![r] = place]

Reply(r, a) ==
  /\ Goto(r, "done")
  /\ answer' = [answer EXCEPT ![r] = a]

\* A request arrives: it is bound, checked, and refused or let in.
Receive(r, c) ==
  /\ pc[r] = "idle"
  /\ cmd' = [cmd EXCEPT ![r] = c]
  /\ onArrival' = [onArrival EXCEPT ![r] = {t \in Tx : ConfirmedAt(t)}]
  /\ IF Refusal(c) # NoAnswer
     THEN Reply(r, Refusal(c))
     ELSE /\ Goto(r, IF IsSettle(c) THEN "broadcasting" ELSE "polling")
          /\ UNCHANGED answer
  /\ UNCHANGED <<networkVars, live, attempt, got, sent, fetches, sighted>>

\* A node of the requested network can hold the transaction of r.
CanBroadcast(r) ==
  /\ pc[r] = "broadcasting"
  /\ cmd[r].signed \in Tx
  /\ Wire[cmd[r].signed].network = NodeOf(cmd[r])

\* The node answers the POST with the id of the transaction.
BroadcastAcked(r) ==
  /\ CanBroadcast(r)
  /\ live[r]
  /\ Admit(cmd[r].signed)
  /\ Goto(r, "polling")
  /\ sent' = [sent EXCEPT ![r] = "acked"]
  /\ UNCHANGED <<cmd, live, attempt, got, answer, fetches, sighted, onArrival>>

\* The node admits the transaction and its answer is lost: a timeout, a
\* broken connection, a cancelled context, a body that is not an id.
BroadcastLost(r) ==
  /\ CanBroadcast(r)
  /\ Admit(cmd[r].signed)
  /\ Reply(r, BroadcastError(cmd[r]))
  /\ sent' = [sent EXCEPT ![r] = "admitted"]
  /\ UNCHANGED <<cmd, live, attempt, got, fetches, sighted, onArrival>>

\* The transaction is not hexadecimal, the node is not reached, or refuses.
BroadcastRefused(r) ==
  /\ pc[r] = "broadcasting"
  /\ Reply(r, BroadcastError(cmd[r]))
  /\ UNCHANGED <<networkVars, localVars>>

\* What a GET for the transaction of r can return.
Fetched(r) ==
  LET t == cmd[r].signed
  IN  ParseTransactionResponse(t, Wire[t], ledger[t], TokenOf(cmd[r]))

\* The node of the requested network knows the transaction of r, and what
\* it says of it parses.
CanFetch(r) ==
  LET t == cmd[r].signed
  IN  /\ live[r]
      /\ Wire[t].network = NodeOf(cmd[r])
      /\ ledger[t].status # "unknown"
      /\ Parses(Wire[t])

CountFetch(r, success) ==
  /\ fetches' = [fetches EXCEPT ![r] = @ + 1]
  /\ sighted' = [sighted EXCEPT ![r] = @ \/ success]

\* Mutant: a fetch that fails is retried without using up a round.
PollFails_FreeRetry(r) ==
  /\ pc[r] = "polling"
  /\ UNCHANGED vars

\* A GET returns an error: not found, refused, timed out, not parsed.
PollFails(r) ==
  /\ pc[r] = "polling"
  /\ Goto(r, "sleeping")
  /\ CountFetch(r, FALSE)
  /\ UNCHANGED <<networkVars, cmd, live, attempt, got, answer, sent,
                 onArrival>>

\* A GET returns a transaction, which ends the loop or does not.
PollSees(r) ==
  /\ pc[r] = "polling"
  /\ CanFetch(r)
  /\ IF EndsLoop(cmd[r], Fetched(r))
     THEN /\ Goto(r, "verifying")
          /\ got' = [got EXCEPT ![r] = Fetched(r)]
     ELSE /\ Goto(r, "sleeping")
          /\ UNCHANGED got
  /\ CountFetch(r, TRUE)
  /\ UNCHANGED <<networkVars, cmd, live, attempt, answer, sent, onArrival>>

\* Mutants: a round too few, and one too many.
MoreRounds_OneShort(r) == attempt[r] + 2 < MaxRetriesOf(cmd[r])
MoreRounds_OneMore(r) == attempt[r] < MaxRetriesOf(cmd[r])

MoreRounds(r) == attempt[r] + 1 < MaxRetriesOf(cmd[r])

\* Mutant: the counter of the loop is a field of the adapter, which all share.
Wake_SharedCounter(r) ==
  /\ pc[r] = "sleeping"
  /\ attempt' = [q \in Request |-> attempt[q] + 1]
  /\ \/ /\ MoreRounds(r)
        /\ Goto(r, "polling")
        /\ UNCHANGED answer
     \/ /\ ~MoreRounds(r)
        /\ IsSettle(cmd[r])
        /\ Goto(r, "final")
        /\ UNCHANGED answer
     \/ /\ ~MoreRounds(r)
        /\ ~IsSettle(cmd[r])
        /\ Reply(r, FetchError(cmd[r]))
  /\ UNCHANGED <<networkVars, cmd, live, got, sent, fetches, sighted,
                 onArrival>>

\* The delay is over.  After the last round v1 verify gives up with the last
\* error, and settle fetches once more.
Wake(r) ==
  /\ pc[r] = "sleeping"
  /\ attempt' = [attempt EXCEPT ![r] = @ + 1]
  /\ \/ /\ MoreRounds(r)
        /\ Goto(r, "polling")
        /\ UNCHANGED answer
     \/ /\ ~MoreRounds(r)
        /\ IsSettle(cmd[r])
        /\ Goto(r, "final")
        /\ UNCHANGED answer
     \/ /\ ~MoreRounds(r)
        /\ ~IsSettle(cmd[r])
        /\ Reply(r, FetchError(cmd[r]))
  /\ UNCHANGED <<networkVars, cmd, live, got, sent, fetches, sighted,
                 onArrival>>

\* The context is cancelled during the delay.
SleepCancelled(r) ==
  /\ pc[r] = "sleeping"
  /\ ~live[r]
  /\ Reply(r, FetchError(cmd[r]))
  /\ UNCHANGED <<networkVars, localVars>>

\* The fetch after the loop: settle works with whatever it returns.
FinalFails(r) ==
  /\ pc[r] = "final"
  /\ Reply(r, FetchError(cmd[r]))
  /\ CountFetch(r, FALSE)
  /\ UNCHANGED <<networkVars, cmd, live, attempt, got, sent, onArrival>>

FinalSees(r) ==
  /\ pc[r] = "final"
  /\ CanFetch(r)
  /\ Goto(r, "verifying")
  /\ got' = [got EXCEPT ![r] = Fetched(r)]
  /\ CountFetch(r, TRUE)
  /\ UNCHANGED <<networkVars, cmd, live, attempt, answer, sent, onArrival>>

\* The handler verifies the transaction it was given and answers.
Complete(r) ==
  /\ pc[r] = "verifying"
  /\ Reply(r, Verdict(cmd[r], got[r]))
  /\ UNCHANGED <<networkVars, localVars>>

InFlight == {r \in Request : pc[r] \notin {"idle", "done", "lost"}}

\* The client goes away while its request is served.
Disconnect(r) ==
  /\ r \in InFlight
  /\ live[r]
  /\ live' = [live EXCEPT ![r] = FALSE]
  /\ UNCHANGED <<networkVars, pc, answer, cmd, attempt, got, sent, fetches,
                 sighted, onArrival>>

\* The process stops and is restarted: it kept nothing of what it served.
Crash ==
  /\ InFlight # {}
  /\ pc' = [r \in Request |-> IF r \in InFlight THEN "lost" ELSE pc[r]]
  /\ UNCHANGED <<networkVars, answer, localVars>>

\* The steps of the goroutine of r: each is an answer, a timeout or a timer
\* that comes in bounded time.
HandlerStep(r) ==
  \/ BroadcastAcked(r)
  \/ BroadcastLost(r)
  \/ BroadcastRefused(r)
  \/ PollFails(r)
  \/ PollSees(r)
  \/ Wake(r)
  \/ SleepCancelled(r)
  \/ FinalFails(r)
  \/ FinalSees(r)
  \/ Complete(r)

Environment ==
  /\ \E t \in Tx : NetworkStep(t)
  /\ UNCHANGED <<pc, answer, localVars>>

Next ==
  \/ \E r \in Request :
       \/ \E c \in Command : Receive(r, c)
       \/ HandlerStep(r)
       \/ Disconnect(r)
  \/ Crash
  \/ Environment

Spec == Init /\ [][Next]_vars

FairSpec == Spec /\ \A r \in Request : WF_vars(HandlerStep(r))

-----------------------------------------------------------------------------
(* Properties of every answer.                                             *)

TxRecord == [tx        : Tx,
             token     : TokenType,
             sender    : Address,
             recipient : Address,
             amount    : Uint64,
             memo      : {WireMemo(Wire[t]) : t \in Tx},
             status    : {"unknown", "pending", "success", "dropped"}
                           \cup AbortStatus,
             confirmed : BOOLEAN]

Reason == {"", "invalid_request", "missing_required_fields",
           "settlement_failed", "verification_failed",
           "invalid_x402_version", "unsupported_scheme", "invalid_network",
           "invalid_payload", "invalid_payment_requirements",
           "unexpected_settle_error", "recipient_mismatch",
           "amount_insufficient", "sender_mismatch", "transaction_not_found",
           "transaction_pending", "transaction_failed"}

AnswerRecord == [http    : {0, 200, 400, 500},
                 success : BOOLEAN,
                 tx      : Payload,
                 payer   : Address \cup {Absent},
                 status  : {"", "confirmed", "failed", "pending"},
                 reason  : Reason]

\* The variables have the types of what they stand for in the handlers.
TypeOK ==
  /\ NetworkTypeOK
  /\ pc \in [Request -> PC]
  /\ cmd \in [Request -> Command \cup {NoCommand}]
  /\ live \in [Request -> BOOLEAN]
  /\ attempt \in [Request -> Nat]
  /\ got \in [Request -> TxRecord \cup {NoTx}]
  /\ answer \in [Request -> AnswerRecord]
  /\ sent \in [Request -> SentState]
  /\ fetches \in [Request -> Nat]
  /\ sighted \in [Request -> BOOLEAN]
  /\ onArrival \in [Request -> SUBSET Tx]

\* A claim about a payment on chain: all but v2 verify make one.
OnChain(c) == c.op \in {"settleV1", "settleV2", "verifyV1"}

ReportsPaid(r) ==
  /\ pc[r] = "done"
  /\ OnChain(cmd[r])
  /\ answer[r].success

\* The transaction of c was confirmed on the network c names and is the
\* payment c asks for, the sender and the memo where the handler checks them.
PaysFor(c) ==
  LET w == Wire[c.signed]
  IN  /\ c.signed \in wasConfirmed
      /\ w.network = NetworkOf(c)
      /\ WireRecipient(w) = c.recipient
      /\ WireAmount(w) >= c.amount
      /\ IsV1(c) /\ c.sender \in Address => w.sender = c.sender
      /\ c.op = "verifyV1" /\ c.memo # Absent => WireMemo(w) = c.memo

\* The answer to r names the transaction of r and its payer, and it pays.
PaidAsReported(r) ==
  /\ answer[r].tx = cmd[r].signed
  /\ answer[r].payer = Wire[cmd[r].signed].sender
  /\ PaysFor(cmd[r])

\* A settlement or a v1 verification reported successful was paid: its
\* transaction was confirmed on the network requested, it pays the expected
\* recipient at least the amount, and it comes from the payer reported, who is
\* the expected sender where v1 is given a well-formed one.  (Handle of the
\* SettlePaymentHandler, SettlePaymentHandlerV2 and VerifyPaymentHandler.)
SuccessMeansPaid ==
  \A r \in Request : ReportsPaid(r) => PaidAsReported(r)

\* What the goroutine of r may rely on at each point: its command was let in,
\* the node has the transaction it polls for, and the transaction it verifies
\* is what the requested network said of it, confirmed or failed only if it
\* once was.
Served(r) ==
  LET c == cmd[r]
      w == Wire[c.signed]
  IN  /\ pc[r] \in {"broadcasting", "polling", "sleeping", "final",
                    "verifying"}
           => c \in Command /\ Refusal(c) = NoAnswer
      /\ pc[r] \in {"polling", "sleeping", "final", "verifying"}
           => c.signed \in Tx
      /\ pc[r] = "verifying" =>
           /\ w.network = NodeOf(c)
           /\ got[r].tx = c.signed
           /\ got[r].sender = w.sender
           /\ got[r].recipient = WireRecipient(w)
           /\ got[r].amount = WireAmount(w)
           /\ got[r].memo = WireMemo(w)
           /\ got[r].confirmed => c.signed \in wasConfirmed
           /\ got[r].status \in FailedStatus => c.signed \in wasAborted

\* The strengthening that makes SuccessMeansPaid inductive.
ServedOK == \A r \in Request : Served(r)

SaysFailed(a) == a.status = "failed" \/ a.reason = "transaction_failed"

SaysConfirmed(a) ==
  \/ a.success
  \/ a.status = "confirmed"
  \/ a.reason \in {"recipient_mismatch", "amount_insufficient"}

SamePayment(c, d) ==
  /\ OnChain(c) /\ OnChain(d)
  /\ c.signed = d.signed
  /\ NetworkOf(c) = NetworkOf(d)

\* d asks no more of the payment than every handler checks.
NoOptionalCriteria(d) ==
  /\ IsV1(d) => d.sender = Absent
  /\ d.op = "verifyV1" => d.memo = Absent

\* Without reorganisations the handlers never contradict one another about a
\* payment, however their polling interleaves: none calls failed what one
\* calls paid, and one that saw it confirmed accepts it when it asks for no
\* more.  (v1 and v2 settle and v1 verify: three copies of the same steps.)
VerdictsAgree ==
  ~Reorgs =>
    \A r, q \in Request :
      ReportsPaid(r) /\ pc[q] = "done" /\ SamePayment(cmd[r], cmd[q]) =>
        /\ ~SaysFailed(answer[q])
        /\ (/\ SaysConfirmed(answer[q])
            /\ NoOptionalCriteria(cmd[q])
            /\ cmd[q].recipient = cmd[r].recipient
            /\ cmd[q].amount <= cmd[r].amount) => answer[q].success

\* A verdict about a payment that was confirmed before the request arrived,
\* and that no reorganisation undid, says it is confirmed: a handler works
\* with no state older than its request.
ConfirmedBeforeStaysConfirmed ==
  ~Reorgs =>
    \A r \in Request :
      /\ pc[r] = "done"
      /\ OnChain(cmd[r])
      /\ cmd[r].signed \in onArrival[r]
      /\ answer[r].http \in {200, 400}
      /\ answer[r].tx # Absent
      => SaysConfirmed(answer[r])

\* A transaction sent to the network c names could be what c asks for.
Payable(c) ==
  /\ NetworkOf(c) = Wire[c.signed].network
  /\ c.recipient \in Address
  /\ c.amount \in Uint64
  /\ c.op = "settleV2" => c.version = 2 /\ c.scheme = "exact"

\* The network is handed a transaction only for a request that some payment
\* could satisfy: everything the settle handlers can refuse in the request
\* itself is refused before the broadcast, which cannot be undone.  (What the
\* transaction pays is only compared afterwards: see KeepsContract.)
BroadcastOnlyWhenPayable ==
  \A r \in Request : sent[r] # "no" => Payable(cmd[r])

\* The answer to r names its transaction, or is an error that need not.
NamesAdmitted(r) ==
  /\ answer[r].tx = cmd[r].signed \/ answer[r].http = 500
  /\ (cmd[r].op = "settleV2" /\ sent[r] = "acked") =>
       answer[r].tx = cmd[r].signed

\* Once the network has admitted the transaction, the answer names it; the
\* answers that do not are server errors, after which the client must not
\* conclude that nothing was paid.  v2 names it in its server errors too,
\* unless the answer to the broadcast was lost.
AdmittedIsNamed ==
  \A r \in Request : pc[r] = "done" /\ sent[r] # "no" => NamesAdmitted(r)

\* The answer to a settlement whose broadcast was acknowledged leaves open
\* what became of the payment.
SettlingGaveUp(r) ==
  /\ sent[r] = "acked"
  /\ ~SaysFailed(answer[r])
  /\ ~SaysConfirmed(answer[r])

\* The answer to a v1 verification is that it could not fetch the payment.
VerifyingGaveUp(r) ==
  /\ cmd[r].op = "verifyV1"
  /\ fetches[r] > 0
  /\ answer[r].http = 500

GaveUp(r) == SettlingGaveUp(r) \/ VerifyingGaveUp(r)

\* An answer to r that gives up has used all the rounds of its loop.
UsedWindow(r) ==
  /\ SettlingGaveUp(r) => fetches[r] = SettleMaxRetries + 1
  /\ VerifyingGaveUp(r) => fetches[r] = VerifyMaxRetries

\* A connected client is left in the dark only after the whole retry window: a
\* settlement that has broadcast leaves its payment open only after
\* SettleMaxRetries fetches and one more, and a v1 verification answers that it
\* could not fetch the payment only after VerifyMaxRetries fetches.  A v1
\* verification that does fetch it, pending or not, waits for nothing else and
\* is not meant.  (WaitForConfirmation, GetTransactionWithRetry.)
GivesUpOnlyAfterWindow ==
  \A r \in Request : pc[r] = "done" /\ live[r] => UsedWindow(r)

Budget(c) == IF IsSettle(c) THEN SettleMaxRetries + 1 ELSE VerifyMaxRetries

\* No request asks the API for its transaction more often than the budget of
\* its loop, and one that has not arrived not at all.
FetchBudget ==
  \A r \in Request :
    fetches[r] <= IF pc[r] = "idle" THEN 0 ELSE Budget(cmd[r])

V2Field == {"json", "version", "scheme", "network", "signed", "token",
            "amount", "recipient"}

SameRequirements(c, d) == \A f \in V2Field : c[f] = d[f]

\* v2 verify and v2 settle, which repeat each other's checks, agree on the
\* request alone: what verify accepts, settle does not refuse before it has
\* broadcast, and what verify refuses is never settled.
VerifiedIsNotRefused ==
  \A v, s \in Request :
    (/\ pc[v] = "done" /\ cmd[v].op = "verifyV2"
     /\ pc[s] = "done" /\ cmd[s].op = "settleV2"
     /\ SameRequirements(cmd[v], cmd[s]))
    => /\ answer[v].success => answer[s].http = 500 \/ sent[s] # "no"
       /\ ~answer[v].success => ~answer[s].success

KindOf(c) ==
  [version |-> c.version, scheme |-> c.scheme, network |-> c.network]

KindRefusal ==
  {"invalid_x402_version", "unsupported_scheme", "invalid_network"}

\* A client that picks one of the kinds GET /supported lists is refused for its
\* kind by neither v2 handler, and one that picks another kind is refused
\* before anything is broadcast: three separate lists, in Handler.Supported and
\* in the checks of the two handlers.
AdvertisedKindsAreServed ==
  \A r \in Request : pc[r] = "done" /\ ~IsV1(cmd[r]) =>
    IF KindOf(cmd[r]) \in Supported
    THEN answer[r].reason \notin KindRefusal
    ELSE ~answer[r].success /\ sent[r] = "no" /\ fetches[r] = 0

\* The steps r needs at most: two for each round of its loop, and what comes
\* before and after the rounds of a settlement.
StepsLeft(r) ==
  LET rounds == MaxRetriesOf(cmd[r]) - attempt[r]
      after  == IF IsSettle(cmd[r]) THEN 2 ELSE 0
  IN  CASE pc[r] = "broadcasting" -> 2 * rounds + after + 1
        [] pc[r] = "polling"      -> 2 * rounds + after
        [] pc[r] = "sleeping"     -> 2 * rounds + after - 1
        [] pc[r] = "final"        -> 2
        [] pc[r] = "verifying"    -> 1
        [] OTHER                  -> 0

NearerOrStill(r) ==
  \/ 0 <= StepsLeft(r)' /\ StepsLeft(r)' < StepsLeft(r)
  \/ UNCHANGED <<pc[r], StepsLeft(r)>>

\* Every step of a request brings its answer nearer, and no step of anybody
\* else, of the networks or of a client that leaves puts it off: a settlement
\* is answered within 2 * SettleMaxRetries + 3 of its own steps.  (The loops of
\* WaitForConfirmation and GetTransactionWithRetry, whose only way on is
\* their counter.)
NearerToAnswer == [][\A r \in InFlight : NearerOrStill(r)]_vars

\* Every request is answered, or lost with the process: no interleaving of
\* failing fetches, pending statuses and reorganisations polls forever.
EveryRequestAnswered ==
  \A r \in Request :
    pc[r] \notin {"idle", "done", "lost"} ~> pc[r] \in {"done", "lost"}

-----------------------------------------------------------------------------
(* What the documentation says and the code does otherwise.                *)

\* "Return last fetched transaction even if not confirmed"
\* (stacks_client_adapter.go:90): a settlement whose polling fetched the
\* transaction answers about that transaction.
LastFetchedIsReturned ==
  \A r \in Request :
    (/\ pc[r] = "done"
     /\ live[r]
     /\ IsSettle(cmd[r])
     /\ sighted[r]) => answer[r].http # 500

\* "Sender (optional): If specified, must match exactly" (README.md:239).
SpecifiedSenderMatches ==
  \A r \in Request :
    ReportsPaid(r) /\ IsV1(cmd[r]) /\ cmd[r].sender # Absent =>
      Wire[cmd[r].signed].sender = cmd[r].sender

\* The table of token types (README.md:213-219): a payment in STX is a
\* token_transfer, one in another token is a contract_call.
TokenHasItsTransactionType ==
  \A r \in Request : ReportsPaid(r) =>
    Wire[cmd[r].signed].tx_type =
      IF TokenOf(cmd[r]) = "STX" THEN "token_transfer" ELSE "contract_call"
=============================================================================
