--------------------------- MODULE PurchaseProofs ---------------------------
(***************************************************************************)
(* A client that signs a new transaction only when the answers say that    *)
(* its others can no longer pay is charged once, for every set of          *)
(* requests, commands and transactions and every number of retries.        *)
(***************************************************************************)
EXTENDS Purchase, VerdictProofs, FiniteSetTheorems

\* A settlement of t is in progress, or its answer leaves t open.
Engaged(t) ==
  \E r \in Request :
    IsSettle(cmd[r]) /\ cmd[r].signed = t /\ ToldTo(r) # "refused"

\* The networks know only what the facilitator may have submitted.
Submitted == \A t \in Tx : ledger[t].status # "unknown" => Engaged(t)

\* Of two transactions engaged, a block holds one as failed.
OneOpen ==
  \A t, u \in Tx : t # u /\ Engaged(t) /\ Engaged(u) =>
    t \in wasAborted \/ u \in wasAborted

PurchaseInv == AInv /\ (~Reorgs => Submitted /\ OneOpen)

\* The steps of the client and of the chain are steps of the facilitator's
\* specification.
LEMMA PurchaseIsServed == [PurchaseNext]_vars => [Next]_vars
<1>1. ChainMoves => Environment
  BY DEF ChainMoves, Environment, NetworkStep
<1> QED BY <1>1 DEF PurchaseNext, Next, Send

\* What the answers exclude is excluded.
LEMMA ExcludedCannotPay ==
  ASSUME AInv, NEW t \in Tx, CannotPay(t)
  PROVE  t \in wasAborted \/ ~Engaged(t)
<1>1. ASSUME NEW r \in Request, cmd[r].signed = t, ToldTo(r) = "failed"
      PROVE  t \in wasAborted
  <2>1. pc[r] = "done" /\ OutcomeOf(cmd[r], answer[r]) = "failed"
    BY <1>1 DEF ToldTo
  <2>2. cmd[r] \in Command /\ (Refused(r) \/ Worked(r))
    BY <2>1 DEF AInv, AllTold, Told
  <2>3. Worked(r)
    BY <2>1, <2>2, RefusalSays DEF Refused
  <2>4. SaysFailed(answer[r])
    BY <2>1 DEF OutcomeOf
  <2> QED BY <1>1, <2>3, <2>4 DEF Worked
<1>2. ASSUME \A r \in About(t) : IsSettle(cmd[r]) => ToldTo(r) = "refused"
      PROVE  ~Engaged(t)
  BY <1>2 DEF About, Engaged, IsSettle, NoCommand
<1> QED BY <1>1, <1>2 DEF CannotPay, Outcome, About

\* Only the answer to a request that arrives can be a refusal.
LEMMA RefusedAtOnce ==
  ASSUME AInv, [Next]_vars, UNCHANGED cmd, NEW r \in Request
  PROVE  ToldTo(r)' = "refused" <=> ToldTo(r) = "refused"
<1> DEFINE told == [q \in Request |-> ToldTo(q)]
           next == [q \in Request |-> ToldTo(q)']
<1>1. CNext
  BY StepKeepsContract DEF AInv
<1>2. told[r] = ToldTo(r) /\ next[r] = ToldTo(r)'
  OBVIOUS
<1>3. ASSUME NEW q \in Request, NEW o \in Command, Contract!Give(q, o)
      PROVE  FALSE
  <2>1. cmd'[q] = o /\ cmd[q] = NoCommand
    BY <1>3 DEF Contract!Give, Contract!NoOrder, NoCommand, AInv, IInv, TypeOK
  <2> QED BY <2>1, FacilitatorAssumption DEF NoCommand
<1>4. ASSUME NEW q \in Request, NEW outcome, outcome # "refused",
             told[q] = "nothing", next = [told EXCEPT ![q] = outcome]
      PROVE  next[r] = "refused" <=> told[r] = "refused"
  BY <1>4
<1>5. CASE UNCHANGED Contract!contractVars
  BY <1>5 DEF Contract!contractVars
<1>6. CASE \E t \in Tx : Contract!ChainDecides(t)
  BY <1>6 DEF Contract!ChainDecides
<1>7. CASE \E q \in Request, o \in Command :
             \/ Contract!Take(q, o)
             \/ \E outcome \in Contract!Outcome :
                  Contract!Dismiss(q, o, outcome)
  BY <1>3, <1>7 DEF Contract!Take, Contract!Dismiss
<1>8. ASSUME NEW q \in Request, NEW outcome \in {"nothing", "unsure"},
             Contract!Submit(q, outcome)
      PROVE  next[r] = "refused" <=> told[r] = "refused"
  BY <1>4, <1>8 DEF Contract!Submit, Contract!Waiting
<1>9. ASSUME NEW q \in Request, NEW outcome, Contract!Tell(q, outcome)
      PROVE  next[r] = "refused" <=> told[r] = "refused"
  BY <1>4, <1>9 DEF Contract!Tell, Contract!MayTell, Contract!Waiting
<1>10. ASSUME NEW q \in Request, Contract!TellUnsure(q)
       PROVE  next[r] = "refused" <=> told[r] = "refused"
  BY <1>4, <1>10 DEF Contract!TellUnsure, Contract!Waiting
<1>11. CASE Contract!Lose
  BY <1>11 DEF Contract!Lose, Contract!Waiting
<1> QED
  BY <1>1, <1>2, <1>5, <1>6, <1>7, <1>8, <1>9, <1>10, <1>11
  DEF CNext, Contract!ContractNext

\* A step that is no arrival engages nothing and gives up nothing.
LEMMA EngagedStays ==
  ASSUME AInv, [Next]_vars, UNCHANGED cmd, NEW t
  PROVE  Engaged(t)' <=> Engaged(t)
BY RefusedAtOnce DEF Engaged, IsSettle

\* A request that arrives engages at most its own transaction.
LEMMA ArrivalEngages ==
  ASSUME AInv, NEW r \in Request, NEW c \in Command, Receive(r, c), NEW t
  PROVE  /\ Engaged(t) => Engaged(t)'
         /\ Engaged(t)' => Engaged(t) \/ t = c.signed
<1>1. /\ cmd[r] = NoCommand /\ cmd'[r] = c
      /\ \A q \in Request \ {r} : /\ cmd'[q] = cmd[q]
                                  /\ pc'[q] = pc[q]
                                  /\ answer'[q] = answer[q]
  BY DEF Receive, Reply, Goto, AInv, IInv, TypeOK, Books, Booked
<1>2. \A q \in Request \ {r} : ToldTo(q)' = ToldTo(q)
  BY <1>1 DEF ToldTo
<1>3. ~IsSettle(cmd[r])
  BY <1>1 DEF IsSettle, NoCommand
<1> QED BY <1>1, <1>2, <1>3 DEF Engaged, IsSettle

\* The client sends a transaction only when its others are excluded.
LEMMA SendKeepsOneOpen ==
  ASSUME PurchaseInv, ~Reorgs, NEW r \in Request, NEW c \in Command, Send(r, c)
  PROVE  (Submitted /\ OneOpen)'
<1>1. AInv /\ Submitted /\ OneOpen /\ Receive(r, c)
  BY DEF PurchaseInv, Send
<1>2. UNCHANGED <<ledger, wasAborted>>
  BY <1>1 DEF Receive, networkVars
<1>3. Submitted'
  BY <1>1, <1>2, ArrivalEngages DEF Submitted
<1>4. ASSUME NEW t \in Tx, NEW u \in Tx, t # u, Engaged(t)', Engaged(u)'
      PROVE  t \in wasAborted \/ u \in wasAborted
  <2>1. ASSUME NEW x \in Tx, x # c.signed, Engaged(x)' PROVE x \in wasAborted
    <3>1. Engaged(x)
      BY <1>1, <2>1, ArrivalEngages
    <3>2. CannotPay(x)
      BY <2>1 DEF Send, MaySend
    <3> QED BY <1>1, <3>1, <3>2, ExcludedCannotPay
  <2> QED BY <1>4, <2>1
<1>5. OneOpen'
  BY <1>2, <1>4 DEF OneOpen
<1> QED BY <1>3, <1>5

\* What the facilitator submits is engaged.
LEMMA BroadcastIsEngaged ==
  ASSUME AInv, NEW r \in Request, pc[r] = "broadcasting"
  PROVE  Engaged(cmd[r].signed)
BY DEF AInv, Books, Booked, Engaged, ToldTo

\* The chain decides only what it knows.
LEMMA LedgerKeepsSubmitted ==
  ASSUME PurchaseInv, ~Reorgs,
         UNCHANGED networkVars
           \/ (\E r \in Request : /\ pc[r] = "broadcasting"
                                  /\ cmd[r].signed \in Tx
                                  /\ Admit(cmd[r].signed))
           \/ (\E t \in Tx : ChainStep(t)),
         NEW t \in Tx, ledger'[t].status # "unknown"
  PROVE  Engaged(t)
<1> USE DEF PurchaseInv, AInv, IInv, TypeOK, NetworkTypeOK, Submitted
<1>1. CASE UNCHANGED networkVars
  BY <1>1 DEF networkVars
<1>2. ASSUME NEW r \in Request, pc[r] = "broadcasting",
             cmd[r].signed \in Tx, Admit(cmd[r].signed)
      PROVE  Engaged(t)
  <2>1. CASE t = cmd[r].signed
    BY <1>2, <2>1, BroadcastIsEngaged
  <2>2. CASE t # cmd[r].signed
    BY <1>2, <2>2 DEF Admit
  <2> QED BY <2>1, <2>2
<1>3. ASSUME NEW u \in Tx, ChainStep(u) PROVE ledger[t].status # "unknown"
  <2> USE <1>3 DEF At
  <2>1. CASE MineUnanchored(u)
    BY <2>1 DEF MineUnanchored
  <2>2. CASE Mine(u)
    BY <2>2 DEF Mine
  <2>3. CASE Abort(u)
    BY <2>3 DEF Abort
  <2>4. CASE Drop(u)
    BY <2>4 DEF Drop
  <2> QED BY <2>1, <2>2, <2>3, <2>4 DEF ChainStep, Reorg
<1> QED BY <1>1, <1>2, <1>3

\* Every other step leaves the transactions engaged as they were.
LEMMA OtherKeepsOneOpen ==
  ASSUME PurchaseInv, ~Reorgs, [Next]_vars, UNCHANGED cmd,
         \A t \in Tx : ledger'[t].status # "unknown" => Engaged(t),
         wasAborted \subseteq wasAborted'
  PROVE  (Submitted /\ OneOpen)'
<1>1. AInv /\ OneOpen
  BY DEF PurchaseInv
<1>2. \A t \in Tx : Engaged(t)' <=> Engaged(t)
  BY <1>1, EngagedStays
<1> QED BY <1>1, <1>2 DEF Submitted, OneOpen

\* Every step leaves at most one transaction of the purchase open.
LEMMA StepKeepsOneOpen == PurchaseInv /\ [PurchaseNext]_vars => PurchaseInv'
<1> SUFFICES ASSUME PurchaseInv, [PurchaseNext]_vars PROVE PurchaseInv'
  OBVIOUS
<1>1. [Next]_vars /\ AInv'
  BY PurchaseIsServed, StepTold DEF PurchaseInv
<1>2. ASSUME ~Reorgs PROVE (Submitted /\ OneOpen)'
  <2>1. CASE \E r \in Request, c \in Command : Send(r, c)
    BY <1>2, <2>1, SendKeepsOneOpen
  <2>2. ASSUME UNCHANGED cmd,
               UNCHANGED networkVars
                 \/ (\E r \in Request : /\ pc[r] = "broadcasting"
                                        /\ cmd[r].signed \in Tx
                                        /\ Admit(cmd[r].signed))
                 \/ (\E t \in Tx : ChainStep(t))
        PROVE  (Submitted /\ OneOpen)'
    <3>1. wasAborted \subseteq wasAborted'
      BY <2>2 DEF networkVars, Admit, ChainStep, MineUnanchored, Mine, Abort,
                  Drop, Reorg
    <3>2. \A t \in Tx : ledger'[t].status # "unknown" => Engaged(t)
      BY <1>2, <2>2, LedgerKeepsSubmitted
    <3> QED BY <1>1, <1>2, <2>2, <3>1, <3>2, OtherKeepsOneOpen
  <2>3. CASE \E r \in Request : HandlerStep(r)
    BY <2>2, <2>3
    DEF HandlerStep, BroadcastAcked, BroadcastLost, BroadcastRefused,
        CanBroadcast, PollFails, PollSees, Wake, SleepCancelled, FinalFails,
        FinalSees, Complete, localVars
  <2>4. CASE (\E r \in Request : Disconnect(r)) \/ Crash \/ UNCHANGED vars
    BY <2>2, <2>4 DEF Disconnect, Crash, vars, localVars
  <2>5. CASE ChainMoves
    BY <2>2, <2>5 DEF ChainMoves, localVars
  <2> QED BY <2>1, <2>3, <2>4, <2>5 DEF PurchaseNext
<1> QED BY <1>1, <1>2 DEF PurchaseInv

\* At most one transaction of the purchase is open or has paid, whatever the
\* settle handlers answer to the requests that were repeated.
THEOREM OneTransactionOpen == PurchaseSpec => []PurchaseInv
<1>1. Init => PurchaseInv
  <2> SUFFICES ASSUME Init PROVE PurchaseInv
    OBVIOUS
  <2>1. AInv
    BY InitIsSafe, InitBooks, InitTold
    DEF AInv, DecidedOnce, Init, NetworkInit
  <2>2. \A t : ~Engaged(t)
    BY DEF Engaged, Init, IsSettle, NoCommand
  <2>3. \A t \in Tx : ledger[t].status = "unknown"
    BY DEF Init, NetworkInit, At
  <2> QED BY <2>1, <2>2, <2>3 DEF PurchaseInv, Submitted, OneOpen
<1> QED BY <1>1, StepKeepsOneOpen, PTL DEF PurchaseSpec

\* The client pays once: no answer of the facilitator takes a payment for dead
\* that may still be mined.  (The answers of SettleV1, Settle and VerifyV1.)
THEOREM PaysOnce == PurchaseSpec => []PaidOnce
<1>1. PurchaseInv => PaidOnce
  <2> SUFFICES ASSUME PurchaseInv, ~Reorgs PROVE Cardinality(wasConfirmed) <= 1
    BY DEF PaidOnce
  <2>1. ASSUME NEW t \in wasConfirmed
        PROVE  t \in Tx /\ Engaged(t) /\ t \notin wasAborted
    <3>1. t \in Tx /\ ledger[t].status = "success"
      BY DEF PurchaseInv, AInv, DecidedOnce, ConfirmedAt, IInv, TypeOK,
             NetworkTypeOK, IsTransactionConfirmed
    <3>2. ledger[t].status # "unknown" /\ ledger[t].status \notin FailedStatus
      BY <3>1 DEF FailedStatus
    <3> QED BY <3>1, <3>2 DEF PurchaseInv, Submitted, AInv, DecidedOnce
  <2>2. \A t, u \in wasConfirmed : t = u
    BY <2>1 DEF PurchaseInv, OneOpen
  <2>3. CASE wasConfirmed = {}
    BY <2>3, FS_EmptySet
  <2>4. CASE wasConfirmed # {}
    <3>1. PICK t : t \in wasConfirmed
      BY <2>4
    <3>2. wasConfirmed = {t}
      BY <2>2, <3>1
    <3> QED BY <3>2, FS_Singleton
  <2> QED BY <2>3, <2>4
<1> QED BY <1>1, OneTransactionOpen, PTL
=============================================================================
