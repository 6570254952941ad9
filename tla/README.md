# A formal model of the x402 Stacks facilitator

The facilitator is a stateless HTTP service that verifies payments on the Stacks
blockchain and settles them: it broadcasts a signed transaction through the Hiro
API, polls until the transaction is confirmed or has failed, compares it with
what the request asks for, and answers.  This directory holds TLA+ modules of
that service, configurations that model-check them with TLC, and proofs checked
by TLAPS.

## Inventory

| Part | Source | State | Operations |
|---|---|---|---|
| HTTP handlers | `infrastructure/http/handler.go`, `dto.go` | none | `VerifyV1`, `SettleV1`, `Verify`, `Settle`, `Supported`, `Health` |
| v1 command handlers | `application/command/settle_payment.go`, `verify_payment.go` | locals of the request | `Handle` |
| v2 command handlers | `settle_payment_v2.go`, `verify_payment_v2.go` | locals of the request | `Handle` |
| Blockchain adapter | `infrastructure/blockchain/stacks_client_adapter.go` | the counter of a loop | `BroadcastTransaction`, `WaitForConfirmation`, `GetTransactionWithRetry` |
| Stacks API client | `internal/stacks/client.go` | none | broadcast, fetch, parse |
| Verification service | `domain/service/verification_service.go` | none | `Verify` |
| Value objects | `domain/valueobject/` | none | constructors, comparison |
| Stacks networks | external, behind the Hiro API | the status of each transaction | admit, mine, abort, drop, orphan |
| Entry point | `cmd/server/main.go` | none | start; no graceful shutdown |

A request is a goroutine that calls straight down: HTTP handler, command handler,
adapter, client.  Requests share nothing in the process; they meet on the
networks, where two requests may carry the same transaction.  The context of the
HTTP request goes down to every HTTP call and every delay, so a client that
leaves cancels its request.

What is hard to get right here, and to test:

- *Interleaving.* A transaction changes state between the fetches of one request
  and differently for the fetches of another.  A verdict is computed from a
  snapshot that may be stale when it is sent.
- *Failure halfway.* The broadcast cannot be undone.  Its answer can be lost
  after the node has admitted the transaction, the polling can fail after it,
  the client can leave and the process can stop; nothing is persisted.
- *Counting.* Two loops count rounds, sleep after the last one too, and one
  fetches once more; settlement can last far longer than the comments say.
- *Copies.* Settlement exists twice (v1, v2), the v2 checks twice (verify,
  settle), the list of failed statuses four times.  They must agree.
- *Edges of the parser.* Repeated, missing and oversized arguments of contract
  calls; success in a microblock, at height zero.
- *What a client may conclude.* The same 400 stands for a refusal, a failure, a
  mismatch and a payment that is still pending; a client that pays again on the
  wrong one pays twice.

What makes each part correct:

- command handlers: success means paid (`SuccessMeansPaid`), nothing is broadcast
  for a request that cannot be satisfied (`BroadcastOnlyWhenPayable`), every
  request ends (`EveryRequestAnswered`), because every step of it brings its end
  nearer (`NearerToAnswer`), verdicts agree (`VerdictsAgree`);
- adapter: no fetch too few or too many (`GivesUpOnlyAfterWindow`, `FetchBudget`),
  a bounded wait (`WindowBound`, and of a whole request `AnsweredInTime`), no
  settlement left open before the payment had time to be mined (`GivesTimeToMine`;
  a v1 verification waits for a payment it cannot fetch, not for one that is
  pending), the loops of all requests those of the adapter on its own
  (`PollsAsTheAdapter`);
- HTTP handlers: an answer names the transaction it put on the network
  (`AdmittedIsNamed`), what a client is told is what it may conclude
  (`KeepsContract`), verify, settle and the advertised kinds agree on the request
  (`VerifiedIsNotRefused`, `AdvertisedKindsAreServed`);
- the concurrency of the server: a request is served as if it were alone, since the
  handlers, the adapter and its clients hold nothing that a request changes
  (`ServedAsIfAlone`);
- the service as its clients use it: a purchase is paid once (`PaidOnce`);
- parser: the loop over arguments reads a call as declared (`ParsesAsDeclared`),
  and a parsed transaction is well formed (lemma `ParsedIsWellFormed`);
- search for reasons: in bounds and complete (`ReadsInBounds`,
  `FindsEveryOccurrence`);
- verification service: an empty list of errors means that every criterion holds
  (lemma `VerifyIsSound`).

## Modules

```
Payments <- StacksNetwork <- Facilitator <- FacilitatorContract <- Purchase <-+
   ^                           ^ ^ ^           : SettlementContract           |
   |                           | | |                                    MCFacilitator
   |                           | | +------- PollingWindow <-----------------+ | ^
   |                           | |              : RetryWindow                 | |
   |                           | +--------- Isolation <-----------------------+ |
   |                           |                : Facilitator                   |
   |                           +----------- ResponseTime <------------ MCResponseTime
   +- SIP010Parser <--+
      SubstringSearch <- MCScanning

A <- B   B extends A          : A   by INSTANCE, under a refinement mapping
```

The proofs are in modules beside them: `FacilitatorProofs`, then
`FacilitatorContractProofs` and `IsolationProofs`, then, after the former,
`PollingProofs` (with `PollingWindow` and `ResponseTime`) and `VerdictProofs`, then
`PurchaseProofs`; and `RetryWindowProofs` and `ScanningProofs` on their own.

**`Payments`** holds the pure functions: the constructors of the value objects,
the parser of API responses (`ParseTransactionResponse`), `Verify`, and the two
translations of its result.  Ids and memos are opaque values; `Shape` gives, of a
string offered as an address, the prefix and the length that `NewStacksAddress`
looks at.  Messages are named, not spelled: `WordsOf` says which of the words that
`MapVerificationErrorToV2` searches for occur in each message of `Verify`, so a message
reworded there changes the reasons here.  Amounts are
`0 .. MaxUint64`.

**`StacksNetwork`** is external: `ledger[t]` is what the API says of `t`, its status
and whether it has a block height.  It is more permissive than a node (it may
admit again what it knows, or refuse anything), so what holds over it holds over
the real one.  `wasConfirmed` and `wasAborted` are history variables.  Within one
transaction `Wire[t]` is fixed: the API does not change its mind about who pays
whom.

**`Facilitator`** is the service.  `pc[r]` is where the goroutine of request `r` is:

| `pc` | In the code |
|---|---|
| `idle` | the request has not arrived |
| `broadcasting` | in `BroadcastTransaction`, before the answer of the node |
| `polling` | in a GET of the loop of the adapter |
| `sleeping` | in the `select` between the context and `time.After` |
| `final` | in the GET after the loop of `WaitForConfirmation` |
| `verifying` | the adapter has returned a transaction, held in `got[r]` |
| `done` | `answer[r]` has been written |
| `lost` | the process stopped while it served the request |

`Receive` is all that happens before the first I/O: binding, required fields and
the early returns of the handlers, in their order (`Refusal`).  `BroadcastAcked`,
`BroadcastLost` and `BroadcastRefused` are the outcomes of the POST; in the second the
node has the transaction and the handler takes it for an error.  `PollSees` and
`PollFails` are the outcomes of a GET: an error may come at any time, a transaction
only if the client is still there, the network knows it and what it says parses.
`Wake` is the end of the delay, with the head of the loop; `SleepCancelled` the end of
the context.  `FinalSees` and `FinalFails` are the fetch after the loop, `Complete` is the
rest of the handler.  `Disconnect`, `Crash` and `Environment` are the outside.  A step is
atomic between two points where the goroutine waits: between them it touches
only its own locals.  `sent`, `fetches`, `sighted` and `onArrival` are history
variables.  `Supported` is the answer of GET `/supported`, which has no state.

**`SettlementContract`** is the abstract specification of what a client may conclude:
a request gives an order, its payment may be submitted, and it is told one
outcome.  `refused` is told only before anything was submitted, `paid` and
`mismatch` only of a payment that was confirmed and does or does not satisfy the
order, `failed` only of one that a block held as failed; `checked` answers an order
that only asks.  `open` and `unsure` promise nothing, `lost` is no answer at all.
Goroutines, retries, snapshots and status codes do not occur in it.
**`FacilitatorContract`** is the refinement mapping: `OutcomeOf` reads the outcome off
an HTTP response as a client can, by status code, `success`, the transaction
named and the reason.  A 500 is `unsure`; another answer that names no transaction
is `refused`.  What the contract amounts to for a client is `OutcomesAreGrounded`, an
invariant, and `OutcomesAreFinal`; through the mapping they are statements about
the facilitator (`AnswersAreGrounded`, `AnswersAreFinal`).

**`Purchase`** composes the facilitator with one client, external to it: the client
owns all transactions in `Tx`, sends any of them as often as it likes, and signs a
new one only when `CannotPay` follows from what it was told of the others: one
answer said that it failed, or every answer to its settlements was a refusal.
Nobody else submits these transactions (`ChainMoves` has no `PayerSubmits`).

**`RetryWindow`** is the adapter's loops with their clock: a fetch takes any time up
to `HTTPClientTimeout`, a delay its length.  It abstracts what a fetch returns, which
`Facilitator` decides, and keeps the time, which `Facilitator` leaves out.
**`PollingWindow`** relates the two: for each request and each loop one instance of
`RetryWindow`, whose counter is `attempt`, whose clock counts `fetches` and delays
as one each, and whose position follows from the two counts.  A request that
runs the other loop, or none, is an instance that never starts.

**`ResponseTime`** adds to `Facilitator` the seconds each request has spent: up to
`HTTPTimeout` in every POST and GET, whatever comes of it, the delay of its loop in
`Wake`, at most that when the client leaves during it.  Its steps are those of
`Facilitator`, so what is proved there holds here.

**`Isolation`** maps the facilitator to itself, with fewer requests: `Among(S)` is
`Facilitator` as the requests of `S` see it, and `ServedAsIfAlone` says of every such `S`
that a step of another request is invisible, or what `PayerSubmits` does.  The code
keeps no state that requests share, so this is less a discovery about it than
what entitles the runs to so few requests.

**`SIP010Parser`** is the loop of `parseSIP010Transfer`: `n` arguments taken, the local
variables, an action for each arm of the switch, and the early returns as a
`result`.  **`SubstringSearch`** is `contains`: `i` is the counter of `containsLower`, `j`
that of `equalFoldAt`, and texts are sequences of bytes.  Both justify a
declarative reading that the other modules use (`WireRecipient`, `WireAmount`,
`WireMemo`; `Contains`).

**`MCFacilitator`** gives the instances: four transactions and the commands of each run;
**`MCResponseTime`** adds those of `ResponseTime`.
**`MCScanning`** enumerates the inputs of the two loops of `SIP010Parser` and
`SubstringSearch` and runs one while the other has nothing to do.

Operators whose name has an underscore, just before the definition they vary
(`MoreRounds_OneShort`), are mutants: plausible bugs that nothing uses.  Put in place
of the definition, each makes TLC refute the property `PROJECT.json` pairs it with.

## Runs

All configurations set `CHECK_DEADLOCK FALSE`: a request slot is used once and a loop
returns, so the systems stop when all is done.

| Configuration | Checks | Shows |
|---|---|---|
| `MCDuplicates` | `TypeOK`, `ServedOK`, `VerdictsAgree`, `ConfirmedBeforeStaysConfirmed`, `KeepsContract`, `PollsAsTheAdapter` | two concurrent requests about one payment, with every mix of the endpoints and every outcome; no reorganisation. Every step is a step of `SettlementContract`, or invisible in it, and for each loop a step of `RetryWindow` (375 357 states) |
| `MCCommands` | `SuccessMeansPaid`, `BroadcastOnlyWhenPayable`, `AdmittedIsNamed`, `GivesUpOnlyAfterWindow`, `FetchBudget` | one request with each body of `Everything`, two payments on two networks, reorganisations (2 769 237 states) |
| `MCRequirements` | `VerifiedIsNotRefused`, `AdvertisedKindsAreServed`, `ServedAsIfAlone` | a v2 verification and a v2 settlement of the same requirements, and the kinds of GET `/supported`; either request is served as if the other were not there (485 907 states) |
| `MCPurchase` | `PaidOnce` | three requests of a client with two transactions for one purchase (1 080 094 states) |
| `MCScanning` | `ParsesAsDeclared`, `ReadsInBounds`, `FindsEveryOccurrence` | all calls of up to four arguments, and all messages of up to five and words of up to three bytes (156 466 states) |
| `MCLiveness` | `EveryRequestAnswered`, `NearerToAnswer` | under `FairSpec`, with a transaction that never parses and one without an amount (265 853 states) |
| `MCSettleWindow` | `TypeOK`, `WindowBound`, `GivesUpAfterDelays` | `WaitForConfirmation` with the code's 25 rounds, 3 s and 45 s: at most 1245 s, at least 75 s before it gives up |
| `MCResponseTime` | `AnsweredInTime`, `GivesTimeToMine` | two concurrent requests of any endpoint about one payment, with the seconds each spends (1 553 239 states). With the constants of the code the bounds are 25·(45+3)+2·45 = 1290 s for a settlement and 10·(45+2) = 470 s for a v1 verification, and no less than 75 s before a settlement leaves its payment open and 20 s before a v1 verification answers that it could not fetch it; one that fetches a pending payment answers at once |

Four runs end in a violation, because the code does not do what the text beside
it says:

| Configuration | Refutes | Text | Code |
|---|---|---|---|
| `MCLastFetched` | `LastFetchedIsReturned` | "Return last fetched transaction even if not confirmed" (`stacks_client_adapter.go:90`) | line 91 fetches anew, and an error of that fetch is the answer |
| `MCSpecifiedSender` | `SpecifiedSenderMatches` | "If specified, must match exactly" (`README.md:239`) | a sender that is not an address is ignored (`settle_payment.go:121`, `verify_payment.go:109`) |
| `MCTokenTable` | `TokenHasItsTransactionType` | the table of token types (`README.md:213-219`) | the token type is copied from the request (`client.go:274`) |
| `MCDocumentedWindow` | `ReturnsWithinWindow` | "25 retries × 3s = 75s window" (`settle_payment.go:13`) | the time of the fetches comes on top |

### Bounds

- *Requests.* Two suffice for properties that relate two answers; requests share
  only the ledger, which the network may change as freely as any third request
  could (`RequestsAreIsolated` proves it, for any number of requests).  One suffices
  where a property speaks of one.  `MCPurchase` has three: one
  to lose, one to repeat it and one for the second transaction.  Requests are
  symmetric.
- *Retries.* `SettleMaxRetries` and `VerifyMaxRetries` are 1 to 3 instead of 25 and 10: with two
  rounds there is a first, a last, a delay between them and a delay after the
  last.  `MCPurchase` and `MCRequirements`, whose properties do not count,
  have one round and, for settlements, the fetch after it.  The theorems hold for
  every number.  `MCSettleWindow` uses the real constants.
- *Seconds.* `MCResponseTime` has delays of 2 s and 1 s and a timeout of 1 s, different
  so that one cannot stand for the other; each bound is reached, since one
  second less is refuted.  The theorems hold for all durations.
- *Transactions.* One where two requests compete for it, two where networks and
  formats matter or a client pays in two attempts.  A native transfer, a SIP-010
  transfer, a transfer that names no amount, and a call that does not parse.
- *Commands.* One departure at a time from a request that can be satisfied, for
  every field and each way the field can be wrong; two at a time would only
  show which error comes first, which is read off `Refusal`.  `MCDuplicates` has a
  command for each outcome.
- *Amounts.* `MaxUint64` is 3, the payments are of 2: less, equal, more and out of range occur.
- *Addresses.* Lengths 29, 30, 50 and 51 are the two sides of both limits.
- *Arguments.* Four suffice for one name repeated around another argument and an
  early return in the middle; the proof covers every length.
- *Bytes.* Two small letters and a capital give overlapping beginnings; the bytes
  just outside `A .. Z` give the edges of `toLower`.
- *Reorganisations.* A confirmed transaction may return to the mempool
  where `Reorgs` is TRUE.  `VerdictsAgree`, `ConfirmedBeforeStaysConfirmed` and `PaidOnce` are
  about a chain without them, and say so: two verdicts about a payment that was
  undone between them may differ, and a payment that failed may come back.

### Fairness

`FairSpec` asks weak fairness of `HandlerStep(r)`, the steps of one goroutine.  Each of them
ends a wait that the code bounds: an HTTP call by `HTTPClientTimeout` (45 s, `client.go:58`),
a delay by `time.After`; the rest is computation.  Nothing is asked of the networks, the
clients or the process: a transaction may stay pending forever and a fetch may
fail every time.

## Proofs

All theorems hold for every set of requests, commands, transactions and strings
and every number of retries.  They rest on `PaymentsAssumption`, `NetworkAssumption` and
`FacilitatorAssumption`, which say that amounts are naturals, that the arguments of a
call are a sequence, that an aborted transaction has a status the code lists,
that a loop has at least one round, and that a body has the fields its endpoint
binds; `TimeAssumption`, `RetryWindowAssumption`, `ParserAssumption` and `SearchAssumption` type the
constants of the other modules.  TLC evaluates them on every run.

| Module | Theorem | States |
|---|---|---|
| `FacilitatorProofs` | `SuccessIsPaid`, `HandlersWorkOnTheirOwn`, `TypeCorrect` | `SuccessMeansPaid`, `ServedOK`, `TypeOK` |
| `FacilitatorContractProofs` | `BroadcastIsPayable`, `AdmittedIsInAnswer`, `ContractIsKept` | `BroadcastOnlyWhenPayable`, `AdmittedIsNamed`, `KeepsContract` |
| | `AnswersHaveGrounds`, `AnswersStayTold` | `AnswersAreGrounded`, `AnswersAreFinal` |
| `IsolationProofs` | `RequestsAreIsolated` | `ServedAsIfAlone` |
| `PollingProofs` | `FetchesWithinBudget`, `WindowIsUsed`, `PollingIsTheAdapters` | `FetchBudget`, `GivesUpOnlyAfterWindow`, `PollsAsTheAdapter` |
| | `AnswersComeNearer` | `NearerToAnswer` |
| | `AnswersAreInTime`, `TimeToMineIsGiven` | `AnsweredInTime`, `GivesTimeToMine` |
| | `TimeOnlyPasses` | `TimedSpec => Spec` |
| `VerdictProofs` | `HandlersAgree`, `ConfirmedStays`, `VerifiedIsServed`, `KindsAreServed` | `VerdictsAgree`, `ConfirmedBeforeStaysConfirmed`, `VerifiedIsNotRefused`, `AdvertisedKindsAreServed` |
| `PurchaseProofs` | `PaysOnce` | `PaidOnce` |
| `RetryWindowProofs` | `CounterStaysInRange`, `WindowBoundHolds`, `GivesUpAfterDelaysHolds` | `TypeOK`, `WindowBound`, `GivesUpAfterDelays` |
| `ScanningProofs` | `LoopIsReading`, `SearchStaysInBounds`, `SearchIsComplete` | `ParsesAsDeclared`, `ReadsInBounds`, `FindsEveryOccurrence` |

The inductive invariants build on one another.

- `IInv` (`FacilitatorProofs`).  `SuccessMeansPaid` is not inductive: that an answer is right
  depends on what the handler held just before.  `IInv` adds `ServedOK`: a request
  being served was let in by `Refusal`, so its network and its recipient are well
  formed; a request that polls has a transaction; and a request about to answer
  holds what the network it asked said of that transaction, confirmed or failed
  only if it was so at some time.  That last part needs `HistoryOK`, which
  reorganisations keep because the history is never undone.  The lemmas go up
  from the code's helpers: `LastValueIsGiven` and `ParsedIsWellFormed` for the parser, `VerifyIsSound`
  for the verification service, `VerdictIsSound` for its three callers, `AcceptedIsPayable` for
  the checks; then one lemma for each group of actions, with `StepIsLocal` for the
  requests that do not move.
- `Books` (`FacilitatorContractProofs`) says in each place what became of the
  broadcast: a settlement that polls had it acknowledged, one that was sent is
  payable and, once answered, named.  With `FirstError`, which message `Verify` reports
  first, it gives the step simulation: one lemma per group of actions shows which
  step of `SettlementContract` it is.  `OutcomesAreGrounded` is then inductive in the
  contract alone, where it needs neither goroutines nor snapshots, and
  `AnswersHaveGrounds` carries it over to the facilitator.
- `RequestsAreIsolated` is a simulation too, and needs only `TypeOK`, by which the functions
  have the domain `Request`.  A step of a request in `S` is the same action of `Among(S)`;
  one of another request leaves the functions on `S` as they are and the networks
  too, except for an admitted broadcast, which is `PayerSubmits` if the
  transaction was not known and nothing at all if it was.
- `Counts` (`PollingProofs`) gives in each place the exact relation of `attempt` and
  `fetches`, and what a transaction held by the handler says of the loop it left.
  The simulation of `RetryWindow` reads the position of the loop off those counts.
  `NearerToAnswer` follows from them: `StepsLeft`, a variant in `Nat`, counts the steps
  that a request may still take, and each of its steps lowers it.  `Clocks` brackets
  `spent` in each place between the delays and the calls that `attempt` and `pc` stand
  for, and `TInv`, which joins it to `Counts`, is inductive for `TimedSpec`.
- `AInv` (`VerdictProofs`) adds `DecidedOnce`, that without reorganisations what was
  decided still stands, and `AllTold`, that each answer is either the refusal its
  command deserves or the outcome of work whose claim has happened.
  `VerdictsAgree`, `VerifiedIsNotRefused` and `AdvertisedKindsAreServed` follow from it without another induction.
- `PurchaseInv` (`PurchaseProofs`) adds that the networks know only transactions that are
  engaged (a settlement of theirs was not refused), and that of two engaged
  transactions a block holds one as failed.  Two confirmed transactions would
  both be engaged, and one of them failed, which `DecidedOnce` excludes.
- `RetryWindowProofs` relates the clock to the counter: before round `i` at most `i`
  rounds of `HTTPTimeout + RetryDelay` have passed, and at least `i` delays.
- `ScanningProofs`: the local variables of the parser hold the declarative reading of
  the first `n` arguments; in the search no start before `i` fits, and at `i` the first
  `j` bytes do.

Every safety property that a run checks is a theorem.  Only model-checked are
`EveryRequestAnswered`, since liveness under fairness and `ENABLED` are out of the prover's
reach, and the four refuted claims.  Of `EveryRequestAnswered` the part that is not
about fairness is proved: `NearerToAnswer` leaves only that a goroutine which can go
on does.  What a recursive definition computes for every input would need
induction over data; the loops are modelled as state machines instead, and
their invariants proved.

## Not modelled

- `Health`, which answers a constant, and the 501 answers of a handler built without
  v2, which `main.go` never builds; routing, middleware, environment variables.
- `accepted`, `extra`, `resource` and `maxTimeoutSeconds` of v2 bodies, which are bound and copied
  and which no code reads.  What this means for `maxTimeoutSeconds` is in `AnsweredInTime`:
  the bound does not depend on it.
- `GetTransaction` of client and adapter, `PaymentStatus`, `Amount.Add`, `Amount.Subtract`, `Amount.ToSTX`,
  the predicates of `StacksAddress` and `TokenType` (`IsMainnet`, `IsTestnet`, `IsNative`, `IsSIP010`): no
  code but their tests calls them.
- Fee, nonce, block height and the other fields that answers only report.
- Hexadecimal decoding, JSON, logging, the API key.
- The design under `docs/plans`, which changes another repository.

## Plan

Done: the facilitator and its networks, the loops with their clock, the time of
a whole request, the isolation of requests, the settlement contract and its
refinement, the purchase, the parser and the search step by step, and a proof
of every safety property the runs check.  What is left:

1. The decimal and hexadecimal conversions of the client (`ParseUint` after
   trimming `u`, the `0x` prefix of ids and memos) as functions on sequences of bytes.
2. A client with reorganisations in `Purchase`: how deep a confirmation must be for
   `PaidOnce` to survive them.
3. `PaidOnce` with the clock of `ResponseTime`: what a client may conclude when it gives
   up waiting before `LongestTime`.
