--------------------------- MODULE PollingProofs ---------------------------
(***************************************************************************)
(* What the polling of the requests costs and when it gives up, for every  *)
(* number of retries: the loops, interleaved, count their fetches exactly, *)
(* each of them is the loop of RetryWindow and comes nearer its answer     *)
(* with every step, and the counts bound the time an answer takes.         *)
(***************************************************************************)
EXTENDS PollingWindow, ResponseTime, FacilitatorContractProofs

-----------------------------------------------------------------------------
(* How far the loop of a request has come in each place.                   *)

Counted(r) ==
  LET c == cmd[r]
      n == MaxRetriesOf(c)
  IN  /\ pc[r] \in {"idle", "broadcasting"} => fetches[r] = 0 /\ attempt[r] = 0
      /\ pc[r] = "polling" => attempt[r] < n /\ fetches[r] = attempt[r]
      /\ pc[r] = "sleeping" => attempt[r] < n /\ fetches[r] = attempt[r] + 1
      /\ pc[r] = "final" =>
           IsSettle(c) /\ attempt[r] = n /\ fetches[r] = attempt[r]
      /\ pc[r] = "verifying" =>
           /\ fetches[r] = attempt[r] + 1
           /\ \/ attempt[r] < n /\ EndsLoop(c, got[r])
              \/ attempt[r] = n /\ IsSettle(c)
      /\ pc[r] \in {"done", "lost"} => fetches[r] <= Budget(c)
      /\ pc[r] = "done" /\ live[r] => UsedWindow(r)
      /\ pc[r] \in {"idle", "broadcasting", "polling", "sleeping", "final"}
           => got[r] = NoTx

Counts == \A r \in Request : Counted(r)

PInv == IInv /\ Books /\ Counts

\* The counts of a request depend on its own variables alone.
LEMMA CountedLocally ==
  ASSUME Counts, NEW r \in Request, Counted(r)',
         \A q \in Request \ {r} :
           /\ pc'[q] = pc[q]
           /\ cmd'[q] = cmd[q]
           /\ live'[q] = live[q]
           /\ attempt'[q] = attempt[q]
           /\ got'[q] = got[q]
           /\ sent'[q] = sent[q]
           /\ answer'[q] = answer[q]
           /\ fetches'[q] = fetches[q]
  PROVE  Counts'
<1>1. ASSUME NEW q \in Request \ {r} PROVE Counted(q)'
  BY <1>1
  DEF Counts, Counted, UsedWindow, SettlingGaveUp, VerifyingGaveUp
<1> QED BY <1>1 DEF Counts

\* Both loops have at least one round.
LEMMA RoundsArePositive ==
  ASSUME NEW c
  PROVE  /\ MaxRetriesOf(c) \in Nat \ {0}
         /\ IsSettle(c) => /\ MaxRetriesOf(c) = SettleMaxRetries
                           /\ Budget(c) = MaxRetriesOf(c) + 1
         /\ ~IsSettle(c) => /\ MaxRetriesOf(c) = VerifyMaxRetries
                            /\ Budget(c) = MaxRetriesOf(c)
BY FacilitatorAssumption DEF MaxRetriesOf, Budget

\* Nothing is counted at the start.
LEMMA InitCounts == Init => Counts
BY DEF Init, Counts, Counted

\* A request that arrives has made no round.
LEMMA ReceiveCounts ==
  ASSUME IInv, Books, Counts, NEW r \in Request, NEW c \in Command,
         Receive(r, c)
  PROVE  Counts'
<1>1. /\ cmd'[r] = c /\ UNCHANGED <<live, attempt, got, sent, fetches>>
      /\ sent[r] = "no" /\ fetches[r] = 0 /\ attempt[r] = 0 /\ got[r] = NoTx
      /\ pc'[r] \in {"done", "broadcasting", "polling"}
      /\ \A q \in Request \ {r} : /\ pc'[q] = pc[q]
                                  /\ cmd'[q] = cmd[q]
                                  /\ answer'[q] = answer[q]
  BY DEF Receive, Reply, Goto, IInv, TypeOK, Books, Booked, Counts, Counted
<1>2. UsedWindow(r)'
  BY <1>1 DEF UsedWindow, SettlingGaveUp, VerifyingGaveUp
<1>3. Counted(r)'
  BY <1>1, <1>2, RoundsArePositive DEF Counted
<1> QED BY <1>1, <1>3, CountedLocally

\* A broadcast makes none either.
LEMMA BroadcastCounts ==
  ASSUME IInv, Books, Counts, NEW r \in Request,
         BroadcastAcked(r) \/ BroadcastLost(r) \/ BroadcastRefused(r)
  PROVE  Counts'
<1>1. /\ pc[r] = "broadcasting"
      /\ UNCHANGED <<cmd, live, attempt, got, fetches>>
      /\ \A q \in Request \ {r} : /\ pc'[q] = pc[q]
                                  /\ sent'[q] = sent[q]
                                  /\ answer'[q] = answer[q]
  BY DEF BroadcastAcked, BroadcastLost, BroadcastRefused, CanBroadcast, Reply,
         Goto, localVars, IInv, TypeOK
<1>2. /\ IsSettle(cmd[r]) /\ sent[r] = "no"
      /\ fetches[r] = 0 /\ attempt[r] = 0 /\ got[r] = NoTx
  BY <1>1 DEF Books, Booked, Counts, Counted
<1>3. \/ pc'[r] = "polling"
      \/ pc'[r] = "done" /\ sent'[r] # "acked"
  BY <1>1, <1>2 DEF BroadcastAcked, BroadcastLost, BroadcastRefused, Reply,
         Goto, localVars, IInv, TypeOK
<1>4. pc'[r] = "done" => UsedWindow(r)'
  BY <1>1, <1>2, <1>3
  DEF UsedWindow, SettlingGaveUp, VerifyingGaveUp, IsSettle
<1>5. Counted(r)'
  BY <1>1, <1>2, <1>3, <1>4, RoundsArePositive DEF Counted
<1> QED BY <1>1, <1>5, CountedLocally

\* A step that leaves the request where it polls, or lets it verify.
LEMMA LoopCounts ==
  ASSUME IInv, Books, Counts, NEW r \in Request,
         pc[r] \in {"polling", "sleeping", "final"},
         NEW place \in {"polling", "sleeping", "final", "verifying"},
         Goto(r, place), UNCHANGED <<cmd, live, sent, answer>>,
         \A q \in Request \ {r} : /\ attempt'[q] = attempt[q]
                                  /\ fetches'[q] = fetches[q]
                                  /\ got'[q] = got[q],
         pc'[r] = place => Counted(r)'
  PROVE  Counts'
<1>1. pc'[r] = place /\ \A q \in Request \ {r} : pc'[q] = pc[q]
  BY DEF Goto, IInv, TypeOK
<1> QED BY <1>1, CountedLocally

\* A step with which the loop ends in an error.
LEMMA ErrorCounts ==
  ASSUME IInv, Books, Counts, NEW r \in Request,
         pc[r] \in {"sleeping", "final"},
         Reply(r, FetchError(cmd[r])), UNCHANGED <<cmd, live, sent, got>>,
         \A q \in Request \ {r} : /\ attempt'[q] = attempt[q]
                                  /\ fetches'[q] = fetches[q],
         fetches'[r] <= Budget(cmd[r]),
         live[r] => fetches'[r] = Budget(cmd[r])
  PROVE  Counts'
<1>1. /\ pc'[r] = "done"
      /\ \A q \in Request \ {r} : pc'[q] = pc[q] /\ answer'[q] = answer[q]
  BY DEF Reply, Goto, IInv, TypeOK
<1>2. /\ IsSettle(cmd[r]) => cmd[r].op # "verifyV1"
      /\ sent[r] = "acked" => IsSettle(cmd[r])
  BY DEF IsSettle, Books, Booked
<1>3. cmd[r].op = "verifyV1" => ~IsSettle(cmd[r])
  BY DEF IsSettle
<1>4. live'[r] => UsedWindow(r)'
  BY <1>2, <1>3, RoundsArePositive
  DEF UsedWindow, SettlingGaveUp, VerifyingGaveUp
<1>5. Counted(r)'
  BY <1>1, <1>4, RoundsArePositive DEF Counted, Budget
<1> QED BY <1>1, <1>5, CountedLocally

\* A GET counts as one fetch of its own request.
LEMMA CountFetchCounts ==
  ASSUME IInv, NEW r \in Request, NEW success \in BOOLEAN,
         CountFetch(r, success)
  PROVE  /\ fetches'[r] = fetches[r] + 1
         /\ \A q \in Request \ {r} : fetches'[q] = fetches[q]
BY DEF CountFetch, IInv, TypeOK

\* The GETs keep the counts.
LEMMA FetchCounts ==
  ASSUME IInv, Books, Counts, NEW r \in Request,
         PollFails(r) \/ PollSees(r) \/ FinalFails(r) \/ FinalSees(r)
  PROVE  Counts'
<1>1. /\ UNCHANGED <<cmd, live, sent, attempt>>
      /\ pc[r] \in {"polling", "final"} /\ Counted(r)
      /\ fetches'[r] = fetches[r] + 1
      /\ \A q \in Request \ {r} : fetches'[q] = fetches[q]
      /\ attempt[r] \in Nat /\ fetches[r] \in Nat
  BY CountFetchCounts
  DEF PollFails, PollSees, FinalFails, FinalSees, Counts, IInv, TypeOK
<1> DEFINE n == MaxRetriesOf(cmd[r])
<1>2. CASE /\ Goto(r, "sleeping") /\ UNCHANGED <<got, answer>>
           /\ pc[r] = "polling"
  <2>1. pc'[r] = "sleeping" => Counted(r)'
    BY <1>1, <1>2 DEF Counted
  <2> QED BY <1>1, <1>2, <2>1, LoopCounts
<1>3. CASE FinalFails(r)
  <2>1. /\ pc[r] = "final" /\ UNCHANGED got
        /\ fetches[r] + 1 = Budget(cmd[r])
    BY <1>1, <1>3, RoundsArePositive DEF FinalFails, Counted
  <2> QED BY <1>1, <1>3, <2>1, ErrorCounts, RoundsArePositive DEF FinalFails
<1>4. CASE /\ Goto(r, "verifying") /\ UNCHANGED answer
           /\ got' = [got EXCEPT ![r] = Fetched(r)]
           /\ pc[r] = "polling" => EndsLoop(cmd[r], Fetched(r))
  <2>1. got'[r] = Fetched(r) /\ \A q \in Request \ {r} : got'[q] = got[q]
    BY <1>4 DEF IInv, TypeOK
  <2>2. pc'[r] = "verifying" => Counted(r)'
    BY <1>1, <1>4, <2>1 DEF Counted, EndsLoop
  <2> QED BY <1>1, <1>4, <2>1, <2>2, LoopCounts
<1> QED
  BY <1>2, <1>3, <1>4 DEF PollFails, PollSees, FinalSees

\* So do the delays, which count the rounds.
LEMMA DelayCounts ==
  ASSUME IInv, Books, Counts, NEW r \in Request, Wake(r) \/ SleepCancelled(r)
  PROVE  Counts'
<1>1. /\ pc[r] = "sleeping" /\ UNCHANGED <<cmd, live, sent, got, fetches>>
      /\ Counted(r) /\ attempt[r] \in Nat /\ fetches[r] \in Nat
      /\ attempt[r] < MaxRetriesOf(cmd[r]) /\ fetches[r] = attempt[r] + 1
  BY DEF Wake, SleepCancelled, localVars, Counts, Counted, IInv, TypeOK
<1>2. fetches[r] <= Budget(cmd[r])
  BY <1>1, RoundsArePositive
<1>3. CASE SleepCancelled(r)
  BY <1>1, <1>2, <1>3, ErrorCounts DEF SleepCancelled, localVars
<1>4. CASE Wake(r)
  <2>1. /\ attempt'[r] = attempt[r] + 1
        /\ \A q \in Request \ {r} : attempt'[q] = attempt[q]
    BY <1>4 DEF Wake, IInv, TypeOK
  <2>2. CASE MoreRounds(r) /\ Goto(r, "polling") /\ UNCHANGED answer
    <3>1. pc'[r] = "polling" => Counted(r)'
      BY <1>1, <2>1, <2>2, RoundsArePositive DEF Counted, MoreRounds
    <3> QED BY <1>1, <2>1, <2>2, <3>1, LoopCounts
  <2>3. CASE /\ ~MoreRounds(r) /\ IsSettle(cmd[r]) /\ Goto(r, "final")
             /\ UNCHANGED answer
    <3>1. pc'[r] = "final" => Counted(r)'
      BY <1>1, <2>1, <2>3, RoundsArePositive DEF Counted, MoreRounds
    <3> QED BY <1>1, <2>1, <2>3, <3>1, LoopCounts
  <2>4. CASE /\ ~MoreRounds(r) /\ ~IsSettle(cmd[r])
             /\ Reply(r, FetchError(cmd[r]))
    <3>1. fetches[r] = Budget(cmd[r])
      BY <1>1, <2>4, RoundsArePositive DEF MoreRounds
    <3> QED BY <1>1, <1>2, <2>1, <2>4, <3>1, ErrorCounts
  <2> QED BY <1>4, <2>2, <2>3, <2>4 DEF Wake
<1> QED BY <1>3, <1>4

\* A transaction that ended the loop of a settlement leaves nothing open.
LEMMA EndedIsDecided ==
  ASSUME NEW c, IsSettle(c), NEW tx, EndsLoop(c, tx)
  PROVE  LET a == Verdict(c, tx)
         IN  SaysFailed(a) \/ SaysConfirmed(a)
<1> DEFINE errors == Verify(tx, Criteria(c))
           a == Verdict(c, tx)
<1>1. tx.confirmed \/ tx.status \in FailedStatus
  BY DEF EndsLoop, IsTransactionFailed
<1>2. DeterminePaymentStatus(tx) \in {"confirmed", "failed"}
  BY <1>1 DEF DeterminePaymentStatus
<1>3. CASE c.op = "settleV1"
  <2>1. a.status = DeterminePaymentStatus(tx)
    BY <1>3 DEF Verdict, Response
  <2> QED BY <1>2, <2>1 DEF SaysFailed, SaysConfirmed
<1>4. CASE c.op = "settleV2"
  <2>1. /\ a.success <=> errors = << >>
        /\ a.reason = IF errors = << >> THEN ""
                      ELSE MapVerificationErrorToV2(errors[1])
    BY <1>4 DEF Verdict, Response
  <2>2. Criteria(c).sender = Absent /\ Criteria(c).memo = Absent
    BY <1>4 DEF Criteria
  <2>3. errors # << >> =>
          errors[1] \in {"transaction_failed_with_status",
                         "recipient_mismatch", "insufficient_amount"}
    BY <1>1, <2>2, FirstError
  <2>4. \A m \in {"transaction_failed_with_status", "recipient_mismatch",
                  "insufficient_amount"} :
          MapVerificationErrorToV2(m) \in {"transaction_failed",
            "recipient_mismatch", "amount_insufficient"}
    BY ReasonOfMessage
  <2> HIDE DEF errors
  <2> QED BY <2>1, <2>3, <2>4 DEF SaysFailed, SaysConfirmed
<1> QED BY <1>3, <1>4 DEF IsSettle

\* A verdict on an open payment comes from a loop that was used up.
LEMMA CompleteCounts ==
  ASSUME IInv, Books, Counts, NEW r \in Request, Complete(r)
  PROVE  Counts'
<1>1. /\ pc'[r] = "done" /\ answer'[r] = Verdict(cmd[r], got[r])
      /\ \A q \in Request \ {r} : pc'[q] = pc[q] /\ answer'[q] = answer[q]
      /\ UNCHANGED <<cmd, live, attempt, got, sent, fetches>>
      /\ pc[r] = "verifying" /\ Counted(r) /\ Booked(r)
      /\ attempt[r] \in Nat /\ fetches[r] \in Nat
  BY DEF Complete, Reply, Goto, localVars, IInv, TypeOK, Books, Counts
<1>2. /\ answer'[r].http # 500
      /\ EndsLoop(cmd[r], got[r]) /\ IsSettle(cmd[r]) =>
           SaysFailed(answer'[r]) \/ SaysConfirmed(answer'[r])
  BY <1>1, HeldByHandler, VerdictSays, EndedIsDecided
<1>3. /\ fetches[r] <= Budget(cmd[r])
      /\ IsSettle(cmd[r]) /\ ~EndsLoop(cmd[r], got[r]) =>
           fetches[r] = SettleMaxRetries + 1
  BY <1>1, RoundsArePositive DEF Counted
<1>4. UsedWindow(r)'
  BY <1>1, <1>2, <1>3
  DEF UsedWindow, SettlingGaveUp, VerifyingGaveUp, Booked
<1>5. Counted(r)'
  BY <1>1, <1>3, <1>4 DEF Counted
<1> QED BY <1>1, <1>5, CountedLocally

\* Clients, process and networks change no count.
LEMMA OutsideCounts ==
  ASSUME IInv, Books, Counts,
         (\E r \in Request : Disconnect(r)) \/ Crash \/ Environment
  PROVE  Counts'
<1>1. UNCHANGED <<cmd, attempt, got, sent, answer, fetches>>
  BY DEF Disconnect, Crash, Environment, localVars
<1>2. \A q \in Request :
        /\ pc'[q] = pc[q] \/ (q \in InFlight /\ pc'[q] = "lost")
        /\ live'[q] => live[q]
  BY DEF Disconnect, Crash, Environment, InFlight, localVars, IInv, TypeOK
<1>3. ASSUME NEW q \in Request PROVE Counted(q)'
  <2>1. CASE pc'[q] = pc[q]
    BY <1>1, <1>2, <2>1
    DEF Counts, Counted, UsedWindow, SettlingGaveUp, VerifyingGaveUp
  <2>2. CASE q \in InFlight /\ pc'[q] = "lost"
    <3>1. /\ pc[q] \in {"broadcasting", "polling", "sleeping", "final",
                        "verifying"}
          /\ Counted(q) /\ attempt[q] \in Nat /\ fetches[q] \in Nat
      BY <2>2 DEF InFlight, PC, IInv, TypeOK, Counts
    <3>2. fetches[q] <= Budget(cmd[q])
      BY <3>1, RoundsArePositive DEF Counted
    <3> QED BY <1>1, <2>2, <3>2 DEF Counted
  <2> QED BY <1>2, <2>1, <2>2
<1> QED BY <1>3 DEF Counts

\* Every step keeps the counts.
LEMMA StepCounts == PInv /\ [Next]_vars => Counts'
<1> SUFFICES ASSUME PInv, [Next]_vars PROVE Counts'
  OBVIOUS
<1> USE DEF PInv
<1>1. ASSUME NEW r \in Request, NEW c \in Command, Receive(r, c)
      PROVE  Counts'
  BY <1>1, ReceiveCounts
<1>2. ASSUME NEW r \in Request, HandlerStep(r) PROVE Counts'
  BY <1>2, BroadcastCounts, FetchCounts, DelayCounts, CompleteCounts
  DEF HandlerStep
<1>3. CASE (\E r \in Request : Disconnect(r)) \/ Crash \/ Environment
  BY <1>3, OutsideCounts
<1>4. CASE UNCHANGED vars
  BY <1>4
  DEF vars, localVars, Counts, Counted, UsedWindow, SettlingGaveUp,
      VerifyingGaveUp
<1> QED BY <1>1, <1>2, <1>3, <1>4 DEF Next

\* The loops of all requests count their rounds and fetches exactly.  (The
\* counter of WaitForConfirmation and GetTransactionWithRetry.)
THEOREM RoundsAreCounted == Spec => []PInv
<1>1. Init => PInv
  BY InitIsSafe, InitBooks, InitCounts DEF PInv
<1>2. PInv /\ [Next]_vars => PInv'
  BY StepIsSafe, StepBooks, StepCounts DEF PInv
<1> QED BY <1>1, <1>2, PTL DEF Spec

\* No request fetches more often than its loop and its last fetch allow.
\* (WaitForConfirmation, GetTransactionWithRetry.)
THEOREM FetchesWithinBudget == Spec => []FetchBudget
<1>1. PInv => FetchBudget
  <2> SUFFICES ASSUME PInv, NEW r \in Request
               PROVE  fetches[r] <= IF pc[r] = "idle" THEN 0
                                    ELSE Budget(cmd[r])
    BY DEF FetchBudget
  <2>1. Counted(r) /\ pc[r] \in PC /\ attempt[r] \in Nat /\ fetches[r] \in Nat
    BY DEF PInv, Counts, IInv, TypeOK
  <2> QED BY <2>1, RoundsArePositive DEF Counted, PC
<1> QED BY <1>1, RoundsAreCounted, PTL

\* A settlement that has broadcast leaves its payment open, and a v1
\* verification answers that it could not fetch it, only after the whole retry
\* window, as long as the client is there; a v1 verification that fetches a
\* pending payment answers at once.  (WaitForConfirmation,
\* GetTransactionWithRetry.)
THEOREM WindowIsUsed == Spec => []GivesUpOnlyAfterWindow
<1>1. PInv => GivesUpOnlyAfterWindow
  BY DEF PInv, Counts, Counted, GivesUpOnlyAfterWindow
<1> QED BY <1>1, RoundsAreCounted, PTL

-----------------------------------------------------------------------------
(* The refinement: each loop does what RetryWindow does, or nothing.       *)

\* A step of the loop of r, or none.
WindowStep(r, settle) ==
  [Window(r, settle)!Next]_(Window(r, settle)!vars)

\* A loop none of whose counters moves stays where it is.
LEMMA StillWindow ==
  ASSUME NEW r, NEW settle,
         Counter(r, settle)' = Counter(r, settle),
         Fetches(r, settle)' = Fetches(r, settle),
         \/ Fetches(r, settle) = 0
         \/ /\ got'[r] = got[r]
            /\ got[r] # NoTx \/ (pc'[r] = "done" <=> pc[r] = "done")
  PROVE  WindowStep(r, settle)
<1>1. Rounds(settle)' = Rounds(settle)
  BY DEF Rounds
<1>2. CASE Fetches(r, settle) = 0
  <2>1. ~(Fetches(r, settle) > 0) /\ ~(Fetches(r, settle)' > 0)
    BY <1>2
  <2>2. ~HasReturned(r, settle) /\ ~HasReturned(r, settle)'
    BY <2>1 DEF HasReturned
  <2> QED
    BY <1>1, <2>2 DEF PositionOf, CauseOf, WindowStep, Window!vars
<1>3. CASE /\ got'[r] = got[r]
           /\ got[r] # NoTx \/ (pc'[r] = "done" <=> pc[r] = "done")
  <2>1. HasReturned(r, settle)' <=> HasReturned(r, settle)
    BY <1>3 DEF HasReturned
  <2> QED
    BY <1>1, <1>3, <2>1 DEF PositionOf, CauseOf, WindowStep, Window!vars
<1> QED BY <1>2, <1>3

\* So does that of a request that does not poll.
LEMMA QuietWindow ==
  ASSUME NEW r, NEW settle,
         attempt'[r] = attempt[r], fetches'[r] = fetches[r],
         \/ fetches[r] = 0 /\ attempt[r] = 0
         \/ /\ cmd'[r] = cmd[r]
            /\ got'[r] = got[r]
            /\ got[r] # NoTx \/ (pc'[r] = "done" <=> pc[r] = "done")
  PROVE  WindowStep(r, settle)
<1>1. CASE fetches[r] = 0 /\ attempt[r] = 0
  <2>1. /\ Counter(r, settle) = 0 /\ Counter(r, settle)' = 0
        /\ Fetches(r, settle) = 0 /\ Fetches(r, settle)' = 0
    BY <1>1 DEF Counter, Fetches
  <2> QED BY <2>1, StillWindow
<1>2. CASE /\ cmd'[r] = cmd[r]
           /\ got'[r] = got[r]
           /\ got[r] # NoTx \/ (pc'[r] = "done" <=> pc[r] = "done")
  <2>1. Runs(r, settle)' <=> Runs(r, settle)
    BY <1>2 DEF Runs, IsSettle
  <2>2. /\ Counter(r, settle)' = Counter(r, settle)
        /\ Fetches(r, settle)' = Fetches(r, settle)
    BY <2>1 DEF Counter, Fetches
  <2> QED BY <1>2, <2>2, StillWindow
<1> QED BY <1>1, <1>2

\* And the loop that a request does not run.
LEMMA OtherWindow ==
  ASSUME NEW r, NEW settle, ~Runs(r, settle), UNCHANGED cmd
  PROVE  WindowStep(r, settle)
<1>1. ~Runs(r, settle)'
  BY DEF Runs, IsSettle
<1>2. /\ Counter(r, settle) = 0 /\ Counter(r, settle)' = 0
      /\ Fetches(r, settle) = 0 /\ Fetches(r, settle)' = 0
  BY <1>1 DEF Counter, Fetches
<1> QED BY <1>2, StillWindow

\* What a loop that runs has counted.
LEMMA RunningWindow ==
  ASSUME NEW r, NEW settle, Runs(r, settle), UNCHANGED cmd
  PROVE  /\ Counter(r, settle) = attempt[r]
         /\ Counter(r, settle)' = attempt'[r]
         /\ Fetches(r, settle) = fetches[r]
         /\ Fetches(r, settle)' = fetches'[r]
         /\ Rounds(settle) = MaxRetriesOf(cmd[r])
         /\ Rounds(settle)' = MaxRetriesOf(cmd[r])
         /\ IsSettle(cmd[r]) = settle
<1>1. Runs(r, settle)'
  BY DEF Runs, IsSettle
<1> QED BY <1>1 DEF Runs, Counter, Fetches, Rounds, MaxRetriesOf

\* A transaction that was fetched is not the absence of one.
LEMMA FetchedIsSomething ==
  ASSUME IInv, NEW r \in Request, pc[r] \in {"polling", "final"}
  PROVE  Fetched(r) # NoTx
<1>1. Served(r)
  BY DEF IInv, ServedOK
<1>2. Fetched(r).tx = cmd[r].signed /\ cmd[r].signed \in Tx
  BY <1>1 DEF Fetched, ParseTransactionResponse, Served
<1> QED BY <1>2, FacilitatorAssumption DEF NoTx

\* A GET in the loop is a fetch of the loop.
LEMMA PollKeepsWindow ==
  ASSUME PInv, NEW r \in Request, NEW settle \in BOOLEAN, Runs(r, settle),
         PollFails(r) \/ PollSees(r)
  PROVE  WindowStep(r, settle)
<1> DEFINE n == MaxRetriesOf(cmd[r])
<1>1. /\ pc[r] = "polling" /\ UNCHANGED <<cmd, attempt>> /\ Counted(r)
      /\ fetches'[r] = fetches[r] + 1
      /\ attempt[r] \in Nat /\ fetches[r] \in Nat
  BY CountFetchCounts DEF PollFails, PollSees, PInv, Counts, IInv, TypeOK
<1>2. /\ fetches[r] = attempt[r] /\ attempt[r] < n /\ got[r] = NoTx
      /\ n \in Nat
  BY <1>1, RoundsArePositive DEF Counted
<1>3. /\ Counter(r, settle) = attempt[r] /\ Fetches(r, settle) = attempt[r]
      /\ Counter(r, settle)' = attempt[r]
      /\ Fetches(r, settle)' = attempt[r] + 1
      /\ Rounds(settle) = n /\ Rounds(settle)' = n
  BY <1>1, <1>2, RunningWindow
<1> HIDE DEF n
<1>4. PositionOf(r, settle) = "fetching" /\ CauseOf(r, settle) = "none"
  BY <1>1, <1>2, <1>3 DEF HasReturned, PositionOf, CauseOf
<1>5. CASE pc'[r] = "sleeping" /\ got'[r] = NoTx
  <2>1. PositionOf(r, settle)' = "sleeping" /\ CauseOf(r, settle)' = "none"
    BY <1>1, <1>2, <1>3, <1>5 DEF HasReturned, PositionOf, CauseOf
  <2>2. Window(r, settle)!FetchGoesOn(1)
    BY <1>1, <1>2, <1>3, <1>4, <2>1 DEF Window!FetchGoesOn
  <2> QED BY <2>2 DEF WindowStep, Window!Next, Window!FetchTime
<1>6. CASE pc'[r] = "verifying" /\ got'[r] # NoTx
  <2>1. PositionOf(r, settle)' = "returned" /\ CauseOf(r, settle)' = "found"
    BY <1>1, <1>2, <1>3, <1>6 DEF HasReturned, PositionOf, CauseOf
  <2>2. Window(r, settle)!FetchEnds(1)
    BY <1>1, <1>2, <1>3, <1>4, <2>1 DEF Window!FetchEnds, Window!Return
  <2> QED BY <2>2 DEF WindowStep, Window!Next, Window!FetchTime
<1>7. \/ pc'[r] = "sleeping" /\ got'[r] = got[r]
      \/ pc'[r] = "verifying" /\ got'[r] = Fetched(r)
  BY DEF PollFails, PollSees, Goto, PInv, IInv, TypeOK
<1>8. Fetched(r) # NoTx
  BY <1>1, FetchedIsSomething DEF PInv
<1> QED BY <1>2, <1>5, <1>6, <1>7, <1>8

\* The end of a delay is the end of a delay of the loop.
LEMMA DelayKeepsWindow ==
  ASSUME PInv, NEW r \in Request, NEW settle \in BOOLEAN, Runs(r, settle),
         Wake(r) \/ SleepCancelled(r)
  PROVE  WindowStep(r, settle)
<1> DEFINE n == MaxRetriesOf(cmd[r])
<1>1. /\ pc[r] = "sleeping" /\ UNCHANGED <<cmd, fetches, got>> /\ Counted(r)
      /\ attempt[r] \in Nat /\ fetches[r] \in Nat
  BY DEF Wake, SleepCancelled, localVars, PInv, Counts, IInv, TypeOK
<1>2. /\ fetches[r] = attempt[r] + 1 /\ attempt[r] < n /\ got[r] = NoTx
      /\ n \in Nat
  BY <1>1, RoundsArePositive DEF Counted
<1>3. /\ Counter(r, settle) = attempt[r]
      /\ Counter(r, settle)' = attempt'[r]
      /\ Fetches(r, settle) = attempt[r] + 1
      /\ Fetches(r, settle)' = attempt[r] + 1
      /\ Rounds(settle) = n /\ Rounds(settle)' = n
      /\ IsSettle(cmd[r]) = settle
  BY <1>1, <1>2, RunningWindow
<1>4. MoreRounds(r) <=> attempt[r] + 1 < n
  BY DEF MoreRounds
<1> HIDE DEF n
<1>5. PositionOf(r, settle) = "sleeping" /\ CauseOf(r, settle) = "none"
  BY <1>1, <1>2, <1>3 DEF HasReturned, PositionOf, CauseOf
<1>6. CASE SleepCancelled(r)
  <2>1. pc'[r] = "done" /\ attempt'[r] = attempt[r]
    BY <1>6 DEF SleepCancelled, Reply, Goto, localVars, PInv, IInv, TypeOK
  <2>2. /\ PositionOf(r, settle)' = "returned"
        /\ CauseOf(r, settle)' = "cancelled"
    BY <1>1, <1>2, <1>3, <2>1 DEF HasReturned, PositionOf, CauseOf
  <2>3. Window(r, settle)!SleepCancelled(0)
    BY <1>1, <1>2, <1>3, <1>5, <2>1, <2>2
    DEF Window!SleepCancelled, Window!Return
  <2> QED BY <2>3 DEF WindowStep, Window!Next
<1>7. ASSUME Wake(r),
             PositionOf(r, settle)' =
               Window(r, settle)!LoopHead(attempt[r] + 1),
             CauseOf(r, settle)' = Window(r, settle)!CauseAt(attempt[r] + 1)
      PROVE  WindowStep(r, settle)
  <2>1. attempt'[r] = attempt[r] + 1
    BY <1>7 DEF Wake, PInv, IInv, TypeOK
  <2>2. Window(r, settle)!Sleep
    BY <1>1, <1>2, <1>3, <1>5, <1>7, <2>1 DEF Window!Sleep
  <2> QED BY <2>2 DEF WindowStep, Window!Next
<1>8. CASE Wake(r)
  <2>1. attempt'[r] = attempt[r] + 1
    BY <1>8 DEF Wake, PInv, IInv, TypeOK
  <2>2. CASE attempt[r] + 1 < n /\ pc'[r] = "polling"
    <3>1. /\ PositionOf(r, settle)' = "fetching"
          /\ CauseOf(r, settle)' = "none"
      BY <1>1, <1>2, <1>3, <2>1, <2>2 DEF HasReturned, PositionOf, CauseOf
    <3>2. /\ Window(r, settle)!LoopHead(attempt[r] + 1) = "fetching"
          /\ Window(r, settle)!CauseAt(attempt[r] + 1) = "none"
      BY <1>3, <2>2 DEF Window!LoopHead, Window!CauseAt
    <3> QED BY <1>7, <1>8, <3>1, <3>2
  <2>3. CASE ~(attempt[r] + 1 < n) /\ settle /\ pc'[r] = "final"
    <3>1. /\ PositionOf(r, settle)' = "final"
          /\ CauseOf(r, settle)' = "none"
      BY <1>1, <1>2, <1>3, <2>1, <2>3 DEF HasReturned, PositionOf, CauseOf
    <3>2. /\ Window(r, settle)!LoopHead(attempt[r] + 1) = "final"
          /\ Window(r, settle)!CauseAt(attempt[r] + 1) = "none"
      BY <1>3, <2>3 DEF Window!LoopHead, Window!CauseAt
    <3> QED BY <1>7, <1>8, <3>1, <3>2
  <2>4. CASE ~(attempt[r] + 1 < n) /\ ~settle /\ pc'[r] = "done"
    <3>1. /\ PositionOf(r, settle)' = "returned"
          /\ CauseOf(r, settle)' = "lastError"
      BY <1>1, <1>2, <1>3, <2>1, <2>4 DEF HasReturned, PositionOf, CauseOf
    <3>2. /\ Window(r, settle)!LoopHead(attempt[r] + 1) = "returned"
          /\ Window(r, settle)!CauseAt(attempt[r] + 1) = "lastError"
      BY <1>3, <2>4 DEF Window!LoopHead, Window!CauseAt
    <3> QED BY <1>7, <1>8, <3>1, <3>2
  <2> QED
    BY <1>3, <1>4, <1>8, <2>2, <2>3, <2>4
    DEF Wake, Reply, Goto, PInv, IInv, TypeOK
<1> QED BY <1>6, <1>8

\* The GET after the loop is its final fetch.
LEMMA FinalKeepsWindow ==
  ASSUME PInv, NEW r \in Request, NEW settle \in BOOLEAN, Runs(r, settle),
         FinalFails(r) \/ FinalSees(r)
  PROVE  WindowStep(r, settle)
<1> DEFINE n == MaxRetriesOf(cmd[r])
<1>1. /\ pc[r] = "final" /\ UNCHANGED <<cmd, attempt>> /\ Counted(r)
      /\ fetches'[r] = fetches[r] + 1
      /\ attempt[r] \in Nat /\ fetches[r] \in Nat
  BY CountFetchCounts DEF FinalFails, FinalSees, PInv, Counts, IInv, TypeOK
<1>2. /\ fetches[r] = n /\ attempt[r] = n /\ got[r] = NoTx
      /\ n \in Nat \ {0} /\ IsSettle(cmd[r])
  BY <1>1, RoundsArePositive DEF Counted
<1>3. /\ Counter(r, settle) = n /\ Fetches(r, settle) = n
      /\ Counter(r, settle)' = n /\ Fetches(r, settle)' = n + 1
      /\ Rounds(settle) = n /\ Rounds(settle)' = n
  BY <1>1, <1>2, RunningWindow
<1>4. settle = TRUE
  BY <1>1, <1>2, RunningWindow
<1>5. n > 0 /\ ~(n > n) /\ ~(n < n) /\ n + 1 > 0
  BY <1>2
<1> HIDE DEF n
<1>6. PositionOf(r, settle) = "final" /\ CauseOf(r, settle) = "none"
  BY <1>1, <1>2, <1>3, <1>4, <1>5 DEF HasReturned, PositionOf, CauseOf
<1>7. got'[r] # NoTx \/ pc'[r] = "done"
  <2>1. pc'[r] = "done" \/ got'[r] = Fetched(r)
    BY DEF FinalFails, FinalSees, Reply, Goto, PInv, IInv, TypeOK
  <2> QED BY <1>1, <2>1, FetchedIsSomething DEF PInv
<1>8. PositionOf(r, settle)' = "returned" /\ CauseOf(r, settle)' = "finalFetch"
  BY <1>1, <1>2, <1>3, <1>7, <1>4, <1>5 DEF HasReturned, PositionOf, CauseOf
<1>9. Window(r, settle)!FetchFinal(1)
  BY <1>1, <1>2, <1>3, <1>6, <1>8 DEF Window!FetchFinal, Window!Return
<1> QED BY <1>9 DEF WindowStep, Window!Next, Window!FetchTime

\* Every loop starts as the adapter's do.
LEMMA InitStartsWindows == Init => WindowsInit
<1> SUFFICES ASSUME Init, NEW r \in Request, NEW settle \in BOOLEAN
             PROVE  Window(r, settle)!Init
  BY DEF WindowsInit
<1>1. Counter(r, settle) = 0 /\ Fetches(r, settle) = 0 /\ Rounds(settle) > 0
  BY FacilitatorAssumption DEF Init, Counter, Fetches, Runs, Rounds
<1>2. PositionOf(r, settle) = "fetching" /\ CauseOf(r, settle) = "none"
  BY <1>1 DEF HasReturned, PositionOf, CauseOf
<1>3. /\ Window(r, settle)!LoopHead(0) = "fetching"
      /\ Window(r, settle)!CauseAt(0) = "none"
  BY <1>1 DEF Window!LoopHead, Window!CauseAt
<1> QED BY <1>1, <1>2, <1>3 DEF Window!Init

\* The steps of r, by what they do to its loop.
LEMMA OwnStepKeepsWindow ==
  ASSUME PInv, NEW r \in Request, NEW settle \in BOOLEAN,
         (\E c \in Command : Receive(r, c)) \/ HandlerStep(r)
  PROVE  WindowStep(r, settle)
<1>1. CASE \E c \in Command : Receive(r, c)
  <2>1. /\ UNCHANGED <<attempt, fetches>>
        /\ fetches[r] = 0 /\ attempt[r] = 0
    BY <1>1 DEF Receive, PInv, Counts, Counted
  <2> QED BY <2>1, QuietWindow
<1>2. CASE BroadcastAcked(r) \/ BroadcastLost(r) \/ BroadcastRefused(r)
  <2>1. /\ UNCHANGED <<attempt, fetches>>
        /\ fetches[r] = 0 /\ attempt[r] = 0
    BY <1>2 DEF BroadcastAcked, BroadcastLost, BroadcastRefused, CanBroadcast,
                localVars, PInv, Counts, Counted
  <2> QED BY <2>1, QuietWindow
<1>3. CASE Complete(r)
  <2>1. pc[r] = "verifying" /\ UNCHANGED <<attempt, fetches, got, cmd>>
    BY <1>3 DEF Complete, localVars
  <2>2. got[r].tx # Absent
    BY <2>1, HeldByHandler, FacilitatorAssumption DEF PInv
  <2> QED BY <2>1, <2>2, QuietWindow DEF NoTx
<1>4. CASE \/ PollFails(r) \/ PollSees(r) \/ Wake(r) \/ SleepCancelled(r)
           \/ FinalFails(r) \/ FinalSees(r)
  <2>1. UNCHANGED cmd
    BY <1>4 DEF PollFails, PollSees, Wake, SleepCancelled, FinalFails,
                FinalSees, localVars
  <2> QED
    BY <1>4, <2>1, PollKeepsWindow, DelayKeepsWindow, FinalKeepsWindow,
       OtherWindow
<1> QED BY <1>1, <1>2, <1>3, <1>4 DEF HandlerStep

\* The steps of r leave the other requests alone.
LEMMA OthersAreQuiet ==
  ASSUME PInv, NEW r \in Request, NEW q \in Request \ {r},
         (\E c \in Command : Receive(r, c)) \/ HandlerStep(r)
  PROVE  /\ attempt'[q] = attempt[q]
         /\ fetches'[q] = fetches[q]
         /\ cmd'[q] = cmd[q]
         /\ got'[q] = got[q]
         /\ pc'[q] = pc[q]
         /\ live'[q] = live[q]
         /\ sent'[q] = sent[q]
         /\ answer'[q] = answer[q]
<1> USE DEF PInv, IInv, TypeOK, Goto, Reply, CountFetch, localVars
<1>1. CASE \E c \in Command : Receive(r, c)
  BY <1>1 DEF Receive
<1>2. CASE BroadcastAcked(r) \/ BroadcastLost(r) \/ BroadcastRefused(r)
  BY <1>2 DEF BroadcastAcked, BroadcastLost, BroadcastRefused
<1>3. CASE PollFails(r) \/ PollSees(r)
  BY <1>3 DEF PollFails, PollSees
<1>4. CASE Wake(r) \/ SleepCancelled(r)
  BY <1>4 DEF Wake, SleepCancelled
<1>5. CASE FinalFails(r) \/ FinalSees(r) \/ Complete(r)
  BY <1>5 DEF FinalFails, FinalSees, Complete
<1> QED BY <1>1, <1>2, <1>3, <1>4, <1>5 DEF HandlerStep

\* Every step is a step of one loop at most, and one the adapter makes.
LEMMA StepKeepsWindows ==
  ASSUME PInv, [Next]_vars, NEW q \in Request, NEW settle \in BOOLEAN
  PROVE  WindowStep(q, settle)
<1>1. ASSUME NEW r \in Request,
             (\E c \in Command : Receive(r, c)) \/ HandlerStep(r)
      PROVE  WindowStep(q, settle)
  <2>1. CASE r = q
    BY <1>1, <2>1, OwnStepKeepsWindow
  <2>2. CASE r # q
    BY <1>1, <2>2, OthersAreQuiet, QuietWindow
  <2> QED BY <2>1, <2>2
<1>2. ASSUME UNCHANGED <<attempt, fetches, cmd, got>>,
             pc'[q] = "done" <=> pc[q] = "done"
      PROVE  WindowStep(q, settle)
  BY <1>2, QuietWindow
<1>3. CASE (\E r \in Request : Disconnect(r)) \/ Environment
  BY <1>2, <1>3 DEF Disconnect, Environment, localVars
<1>4. CASE Crash
  <2>1. pc'[q] = "done" <=> pc[q] = "done"
    BY <1>4 DEF Crash, InFlight
  <2> QED BY <1>2, <1>4, <2>1 DEF Crash, localVars
<1>5. CASE UNCHANGED vars
  BY <1>2, <1>5 DEF vars, localVars
<1> QED BY <1>1, <1>3, <1>4, <1>5 DEF Next

\* Every request polls as the loops of StacksClientAdapter do on their own,
\* among all the others.
THEOREM PollingIsTheAdapters == Spec => PollsAsTheAdapter
<1>1. PInv /\ [Next]_vars => [WindowsNext]_vars
  BY StepKeepsWindows DEF WindowStep, WindowsNext
<1> QED
  BY <1>1, InitStartsWindows, RoundsAreCounted, PTL
  DEF Spec, PollsAsTheAdapter

-----------------------------------------------------------------------------
(* Progress: every step of a request brings its answer nearer.             *)

\* A request that is being served has a step to go, and no more than its
\* loop and the steps around it make.
LEMMA StepsLeftCounted ==
  ASSUME PInv, NEW r \in Request
  PROVE  /\ StepsLeft(r) \in Nat
         /\ r \in InFlight <=> StepsLeft(r) > 0
         /\ r \in InFlight => StepsLeft(r) <= 2 * MaxRetriesOf(cmd[r]) + 3
<1>1. /\ pc[r] \in PC /\ attempt[r] \in Nat /\ Counted(r)
      /\ pc[r] = "broadcasting" => IsSettle(cmd[r])
      /\ MaxRetriesOf(cmd[r]) \in Nat \ {0}
  BY RoundsArePositive
  DEF PInv, Books, Booked, Counts, IInv, TypeOK
<1> QED BY <1>1 DEF StepsLeft, InFlight, PC, Counted

\* A request whose place, command and counter stay needs as many steps.
LEMMA StillAsFar ==
  ASSUME NEW r, pc'[r] = pc[r], cmd'[r] = cmd[r], attempt'[r] = attempt[r]
  PROVE  NearerOrStill(r)
BY DEF NearerOrStill, StepsLeft, MaxRetriesOf, IsSettle

\* One that is answered or lost needs none.
LEMMA AnsweredIsNearer ==
  ASSUME PInv, NEW r \in InFlight, pc'[r] \in {"done", "lost"}
  PROVE  NearerOrStill(r)
<1>1. StepsLeft(r)' = 0
  BY DEF StepsLeft
<1>2. StepsLeft(r) > 0
  BY StepsLeftCounted DEF InFlight
<1> QED BY <1>1, <1>2 DEF NearerOrStill

\* The steps of r that do not end its request.
LEMMA OwnStepIsNearer ==
  ASSUME PInv, NEW r \in Request, HandlerStep(r)
  PROVE  NearerOrStill(r)
<1> DEFINE n == MaxRetriesOf(cmd[r])
<1>1. /\ pc[r] \in PC /\ attempt[r] \in Nat /\ Counted(r) /\ n \in Nat
      /\ pc[r] = "broadcasting" => IsSettle(cmd[r])
  BY RoundsArePositive
  DEF PInv, Books, Booked, Counts, IInv, TypeOK
<1>2. UNCHANGED cmd /\ r \in InFlight
  BY DEF HandlerStep, BroadcastAcked, BroadcastLost, BroadcastRefused,
         CanBroadcast, PollFails, PollSees, Wake, SleepCancelled, FinalFails,
         FinalSees, Complete, InFlight, localVars
<1>3. n' = n /\ (IsSettle(cmd[r])' <=> IsSettle(cmd[r]))
  BY <1>2 DEF MaxRetriesOf, IsSettle
<1>4. ASSUME NEW a PROVE Reply(r, a) => NearerOrStill(r)
  BY <1>2, AnsweredIsNearer DEF Reply, Goto, PInv, IInv, TypeOK
<1>5. ASSUME NEW place PROVE Goto(r, place) => pc'[r] = place
  BY DEF Goto, PInv, IInv, TypeOK
<1>6. CASE BroadcastAcked(r)
  <2>1. /\ pc[r] = "broadcasting" /\ pc'[r] = "polling"
        /\ attempt'[r] = attempt[r]
    BY <1>5, <1>6 DEF BroadcastAcked, CanBroadcast
  <2> QED BY <1>1, <1>3, <2>1 DEF NearerOrStill, StepsLeft, Counted
<1>7. CASE PollFails(r) \/ PollSees(r)
  <2>1. /\ pc[r] = "polling" /\ pc'[r] \in {"sleeping", "verifying"}
        /\ attempt'[r] = attempt[r]
    BY <1>5, <1>7 DEF PollFails, PollSees
  <2> QED BY <1>1, <1>3, <2>1 DEF NearerOrStill, StepsLeft, Counted
<1>8. CASE Wake(r)
  <2>1. /\ pc[r] = "sleeping" /\ attempt'[r] = attempt[r] + 1
        /\ attempt[r] < n
    BY <1>1, <1>8 DEF Wake, PInv, IInv, TypeOK, Counted
  <2>2. CASE MoreRounds(r) /\ Goto(r, "polling")
    BY <1>1, <1>3, <1>5, <2>1, <2>2
    DEF NearerOrStill, StepsLeft, MoreRounds
  <2>3. CASE IsSettle(cmd[r]) /\ Goto(r, "final")
    BY <1>1, <1>3, <1>5, <2>1, <2>3 DEF NearerOrStill, StepsLeft
  <2> QED BY <1>4, <1>8, <2>2, <2>3 DEF Wake
<1>9. CASE FinalSees(r)
  <2>1. pc[r] = "final" /\ pc'[r] = "verifying"
    BY <1>5, <1>9 DEF FinalSees
  <2> QED BY <2>1 DEF NearerOrStill, StepsLeft
<1> QED
  BY <1>4, <1>6, <1>7, <1>8, <1>9
  DEF HandlerStep, BroadcastLost, BroadcastRefused, SleepCancelled,
      FinalFails, Complete

\* No step of anybody puts the answer of a request off.
LEMMA StepIsNearer ==
  ASSUME PInv, [Next]_vars, NEW q \in InFlight
  PROVE  NearerOrStill(q)
<1>1. ASSUME NEW r \in Request,
             (\E c \in Command : Receive(r, c)) \/ HandlerStep(r)
      PROVE  NearerOrStill(q)
  <2>1. CASE r = q
    <3>1. HandlerStep(q)
      BY <1>1, <2>1 DEF Receive, InFlight
    <3> QED BY <3>1, OwnStepIsNearer DEF InFlight
  <2>2. CASE r # q
    BY <1>1, <2>2, OthersAreQuiet, StillAsFar DEF InFlight
  <2> QED BY <2>1, <2>2
<1>2. CASE (\E r \in Request : Disconnect(r)) \/ Environment
  BY <1>2, StillAsFar DEF Disconnect, Environment, localVars
<1>3. CASE Crash
  BY <1>3, AnsweredIsNearer DEF Crash, InFlight
<1>4. CASE UNCHANGED vars
  BY <1>4, StillAsFar DEF vars, localVars
<1> QED BY <1>1, <1>2, <1>3, <1>4 DEF Next

\* Every step of a request brings its answer nearer, and none puts it off:
\* the safety half of the liveness of the loops.  (WaitForConfirmation,
\* GetTransactionWithRetry.)
THEOREM AnswersComeNearer == Spec => NearerToAnswer
<1>1. PInv /\ [Next]_vars => [\A r \in InFlight : NearerOrStill(r)]_vars
  BY StepIsNearer
<1> QED BY <1>1, RoundsAreCounted, PTL DEF Spec, NearerToAnswer

-----------------------------------------------------------------------------
(* The time of an answer: what the counts are worth in seconds.            *)

\* The calls r has made once it fetches, and the delays it has waited for.
CallsOf(r) == fetches[r] + (IF IsSettle(cmd[r]) THEN 1 ELSE 0)
DelaysOf(r) == attempt[r] * RetryDelayOf(cmd[r])

Clocked(r) ==
  /\ DelaysOf(r) <= spent[r]
  /\ pc[r] \in {"idle", "broadcasting"} => spent[r] = 0
  /\ pc[r] \in Fetching => spent[r] <= CallsOf(r) * HTTPTimeout + DelaysOf(r)
  /\ spent[r] <= LongestTime(cmd[r])
  /\ pc[r] = "done" /\ live[r] /\ GaveUp(r) =>
       spent[r] >= MaxRetriesOf(cmd[r]) * RetryDelayOf(cmd[r])

Clocks == spent \in [Request -> Nat] /\ \A r \in Request : Clocked(r)

TInv == PInv /\ Clocks

\* Products of naturals are naturals, and grow by one factor with the other.
LEMMA Product ==
  ASSUME NEW a \in Nat, NEW b \in Nat
  PROVE  a * b \in Nat /\ 0 * b = 0 /\ 1 * b = b /\ (a + 1) * b = a * b + b
BY SMT

\* More calls, or more delays, take no less time.
LEMMA ProductMonotone ==
  ASSUME NEW a \in Nat, NEW b \in Nat, NEW c \in Nat, a <= b
  PROVE  a * c <= b * c
<1> DEFINE k == b - a
<1>1. k \in Nat /\ b = a + k
  BY SMT
<1>2. (a + k) * c = a * c + k * c /\ k * c \in Nat /\ a * c \in Nat
  BY <1>1, SMT
<1> QED BY <1>1, <1>2, SMT

\* The times are naturals.
LEMMA TimesAreNat ==
  ASSUME NEW c
  PROVE  /\ RetryDelayOf(c) \in Nat /\ HTTPTimeout \in Nat
         /\ LongestTime(c) \in Nat
<1>1. /\ SettleMaxRetries * (HTTPTimeout + SettleRetryDelay) \in Nat
      /\ VerifyMaxRetries * (HTTPTimeout + VerifyRetryDelay) \in Nat
  BY Product, FacilitatorAssumption, TimeAssumption
<1> QED BY <1>1, TimeAssumption DEF RetryDelayOf, LongestTime

\* A request that made as many calls and delays as its loop allows took no
\* longer than the longest time of its command.
LEMMA CallsTakeNoLonger ==
  ASSUME NEW c, OnChain(c), NEW k \in Nat, NEW a \in Nat, NEW s \in Nat,
         a <= MaxRetriesOf(c),
         k <= IF IsSettle(c) THEN MaxRetriesOf(c) + 2 ELSE MaxRetriesOf(c),
         s <= k * HTTPTimeout + a * RetryDelayOf(c)
  PROVE  s <= LongestTime(c)
<1> DEFINE n == MaxRetriesOf(c)
           D == RetryDelayOf(c)
           T == HTTPTimeout
           m == IF IsSettle(c) THEN n + 2 ELSE n
<1>1. n \in Nat /\ m \in Nat /\ D \in Nat /\ T \in Nat
  BY RoundsArePositive, TimesAreNat
<1>2. LongestTime(c) = n * (T + D) + (IF IsSettle(c) THEN 2 * T ELSE 0)
  <2>1. CASE IsSettle(c)
    BY <2>1 DEF LongestTime, MaxRetriesOf, RetryDelayOf
  <2>2. CASE ~IsSettle(c)
    <3>1. c.op = "verifyV1"
      BY <2>2 DEF OnChain, IsSettle
    <3>2. n * (T + D) \in Nat
      BY <1>1, Product
    <3> HIDE DEF n
    <3> QED
      BY <2>2, <3>1, <3>2 DEF LongestTime, MaxRetriesOf, RetryDelayOf, n
  <2> QED BY <2>1, <2>2
<1>3. k <= m /\ a <= n
  OBVIOUS
<1> HIDE DEF n, D, T, m
<1>4. k * T <= m * T /\ a * D <= n * D
  BY <1>1, <1>3, ProductMonotone
<1>5. /\ k * T \in Nat /\ a * D \in Nat /\ n * T \in Nat /\ n * D \in Nat
      /\ n * (T + D) = n * T + n * D
      /\ (n + 2) * T = n * T + 2 * T
  BY <1>1, SMT
<1>6. m * T = n * T + (IF IsSettle(c) THEN 2 * T ELSE 0)
  BY <1>1, <1>5 DEF m
<1>7. s <= k * T + a * D
  BY DEF T, D
<1> QED BY <1>1, <1>2, <1>4, <1>5, <1>6, <1>7

\* The clock of a request depends on its own variables alone.
LEMMA ClockedLocally ==
  ASSUME NEW q, Clocked(q),
         pc'[q] = pc[q] \/ pc'[q] = "lost",
         live'[q] => live[q],
         cmd'[q] = cmd[q],
         attempt'[q] = attempt[q],
         sent'[q] = sent[q],
         answer'[q] = answer[q],
         fetches'[q] = fetches[q],
         spent'[q] = spent[q]
  PROVE  Clocked(q)'
BY DEF Clocked, CallsOf, DelaysOf, LongestTime, RetryDelayOf, MaxRetriesOf,
       IsSettle, GaveUp, SettlingGaveUp, VerifyingGaveUp, Fetching

\* What a request that calls the network, or waits, has counted.
LEMMA ServedClock ==
  ASSUME TInv, NEW r \in InFlight
  PROVE  /\ OnChain(cmd[r]) /\ cmd[r] \in Command
         /\ Counted(r) /\ Clocked(r) /\ Booked(r)
         /\ spent[r] \in Nat /\ attempt[r] \in Nat /\ fetches[r] \in Nat
         /\ CallsOf(r) \in Nat /\ DelaysOf(r) \in Nat
         /\ MaxRetriesOf(cmd[r]) \in Nat
<1>1. /\ r \in Request /\ pc[r] \in PC
      /\ pc[r] \in {"broadcasting", "polling", "sleeping", "final",
                    "verifying"}
  BY DEF InFlight, PC, TInv, PInv, IInv, TypeOK
<1>2. OnChain(cmd[r]) /\ cmd[r] \in Command
  BY <1>1, InFlightIsOnChain DEF TInv, PInv, IInv, Books, Booked
<1>3. /\ spent[r] \in Nat /\ attempt[r] \in Nat /\ fetches[r] \in Nat
      /\ Counted(r) /\ Clocked(r) /\ Booked(r)
  BY <1>1 DEF TInv, Clocks, PInv, Counts, Books, IInv, TypeOK
<1>4. CallsOf(r) \in Nat /\ DelaysOf(r) \in Nat
  BY <1>3, Product, TimesAreNat DEF CallsOf, DelaysOf
<1> QED BY <1>2, <1>3, <1>4, RoundsArePositive

\* A call to the node: the broadcast, a fetch of the loop, or the last one.
LEMMA CallKeepsTime ==
  ASSUME TInv, NEW r \in Request, CallsNode(r), Counts',
         NEW d \in 0 .. HTTPTimeout, spent'[r] = spent[r] + d
  PROVE  Clocked(r)'
<1> DEFINE c == cmd[r]
           n == MaxRetriesOf(c)
           T == HTTPTimeout
<1>1. /\ UNCHANGED <<cmd, live, attempt>> /\ r \in InFlight
      /\ pc[r] \in {"broadcasting", "polling", "final"}
  BY DEF CallsNode, BroadcastAcked, BroadcastLost, BroadcastRefused,
         CanBroadcast, PollFails, PollSees, FinalFails, FinalSees, InFlight,
         localVars
<1>2. /\ OnChain(c) /\ Counted(r) /\ Clocked(r) /\ Booked(r)
      /\ spent[r] \in Nat /\ attempt[r] \in Nat /\ fetches[r] \in Nat
      /\ CallsOf(r) \in Nat /\ DelaysOf(r) \in Nat
      /\ n \in Nat /\ T \in Nat /\ d \in Nat /\ d <= T
  BY <1>1, ServedClock, TimesAreNat
<1>3. /\ DelaysOf(r)' = DelaysOf(r) /\ LongestTime(cmd[r])' = LongestTime(c)
      /\ n' = n /\ RetryDelayOf(cmd[r])' = RetryDelayOf(c)
      /\ (IsSettle(cmd[r])' <=> IsSettle(c))
  BY <1>1 DEF DelaysOf, LongestTime, RetryDelayOf, MaxRetriesOf, IsSettle
<1>4. CASE BroadcastAcked(r) \/ BroadcastLost(r) \/ BroadcastRefused(r)
  <2>1. /\ pc[r] = "broadcasting" /\ fetches'[r] = fetches[r]
        /\ pc'[r] = "polling" \/ (pc'[r] = "done" /\ sent'[r] # "acked")
    BY <1>2, <1>4
    DEF BroadcastAcked, BroadcastLost, BroadcastRefused, CanBroadcast, Reply,
        Goto, localVars, Booked, TInv, PInv, IInv, TypeOK
  <2>2. /\ IsSettle(c) /\ fetches[r] = 0 /\ attempt[r] = 0 /\ spent[r] = 0
    BY <1>2, <2>1 DEF Booked, Counted, Clocked
  <2>3. /\ DelaysOf(r) = 0 /\ CallsOf(r)' = 1
    BY <1>3, <2>1, <2>2, Product, TimesAreNat DEF DelaysOf, CallsOf
  <2>4. spent'[r] <= CallsOf(r)' * T + DelaysOf(r)'
    BY <1>2, <1>3, <2>2, <2>3, Product
  <2>5. spent'[r] <= LongestTime(c)
    <3>1. attempt[r] * RetryDelayOf(c) = 0 /\ 1 * T = T
      BY <1>2, <2>3, Product DEF DelaysOf
    <3>2. spent'[r] <= 1 * T + attempt[r] * RetryDelayOf(c)
      BY <1>2, <2>2, <3>1
    <3> HIDE DEF n, c, T
    <3> QED
      BY <1>2, <2>2, <3>2, CallsTakeNoLonger DEF n, c, T
  <2>6. pc'[r] = "done" => ~GaveUp(r)'
    BY <1>1, <2>1, <2>2 DEF GaveUp, SettlingGaveUp, VerifyingGaveUp, IsSettle
  <2> QED
    BY <1>2, <1>3, <2>1, <2>2, <2>3, <2>4, <2>5, <2>6 DEF Clocked
<1>5. CASE PollFails(r) \/ PollSees(r) \/ FinalFails(r) \/ FinalSees(r)
  <2>1. /\ fetches'[r] = fetches[r] + 1
        /\ pc[r] \in {"polling", "final"}
        /\ pc'[r] \in {"sleeping", "verifying", "done"}
        /\ pc'[r] = "done" => pc[r] = "final"
    BY <1>1, <1>5, CountFetchCounts
    DEF PollFails, PollSees, FinalFails, FinalSees, Reply, Goto, TInv, PInv,
        IInv, TypeOK
  <2>2. /\ CallsOf(r)' = CallsOf(r) + 1
        /\ CallsOf(r) + 1 <= IF IsSettle(c) THEN n + 2 ELSE n
        /\ attempt[r] <= n
        /\ pc[r] = "final" => attempt[r] = n
    BY <1>2, <1>3, <2>1 DEF CallsOf, Counted
  <2>3. spent'[r] <= (CallsOf(r) + 1) * T + DelaysOf(r)
    <3>1. spent[r] <= CallsOf(r) * T + DelaysOf(r)
      BY <1>2, <2>1 DEF Clocked, Fetching
    <3>2. /\ (CallsOf(r) + 1) * T = CallsOf(r) * T + T
          /\ CallsOf(r) * T \in Nat
      BY <1>2, Product
    <3> HIDE DEF T
    <3> QED BY <1>2, <3>1, <3>2
  <2>4. spent'[r] <= LongestTime(c)
    <3>1. spent'[r] <= (CallsOf(r) + 1) * T + attempt[r] * RetryDelayOf(c)
      BY <2>3 DEF DelaysOf
    <3>2. CallsOf(r) + 1 \in Nat /\ spent'[r] \in Nat
      BY <1>2
    <3> HIDE DEF n, c, T
    <3> QED
      BY <1>2, <2>2, <3>1, <3>2, CallsTakeNoLonger DEF n, c, T
  <2>5. pc'[r] = "done" => spent'[r] >= n * RetryDelayOf(c)
    BY <1>2, <2>1, <2>2 DEF DelaysOf, Clocked
  <2> QED
    BY <1>2, <1>3, <2>1, <2>2, <2>3, <2>4, <2>5 DEF Clocked
<1> QED BY <1>4, <1>5 DEF CallsNode

\* The delays of the loop, whole or cut short.
LEMMA DelayKeepsTime ==
  ASSUME TInv, NEW r \in Request, NEW d \in Nat, spent'[r] = spent[r] + d,
         \/ Wake(r) /\ d = RetryDelayOf(cmd[r])
         \/ SleepCancelled(r) /\ d <= RetryDelayOf(cmd[r])
  PROVE  Clocked(r)'
<1> DEFINE c == cmd[r]
           n == MaxRetriesOf(c)
           D == RetryDelayOf(c)
           T == HTTPTimeout
<1>1. /\ UNCHANGED <<cmd, live, fetches>> /\ r \in InFlight
      /\ pc[r] = "sleeping"
  BY DEF Wake, SleepCancelled, InFlight, localVars
<1>2. /\ OnChain(c) /\ Counted(r) /\ Clocked(r)
      /\ spent[r] \in Nat /\ attempt[r] \in Nat /\ fetches[r] \in Nat
      /\ CallsOf(r) \in Nat /\ DelaysOf(r) \in Nat
      /\ n \in Nat /\ T \in Nat /\ D \in Nat
  BY <1>1, ServedClock, TimesAreNat
<1>3. /\ CallsOf(r)' = CallsOf(r) /\ LongestTime(cmd[r])' = LongestTime(c)
      /\ n' = n /\ RetryDelayOf(cmd[r])' = D
  BY <1>1 DEF CallsOf, LongestTime, RetryDelayOf, MaxRetriesOf, IsSettle
<1>4. /\ attempt[r] + 1 <= n
      /\ CallsOf(r) <= IF IsSettle(c) THEN n + 2 ELSE n
      /\ spent[r] <= CallsOf(r) * T + DelaysOf(r)
  BY <1>1, <1>2 DEF Counted, CallsOf, Clocked, Fetching
<1>5. (attempt[r] + 1) * D = DelaysOf(r) + D
  BY <1>2, Product DEF DelaysOf
<1>6. /\ spent'[r] <= CallsOf(r) * T + (attempt[r] + 1) * D
      /\ spent'[r] \in Nat
      /\ CallsOf(r) * T \in Nat
  BY <1>2, <1>4, <1>5, Product
<1>7. spent'[r] <= LongestTime(c)
  <2> HIDE DEF n, c, T, D
  <2> QED
    BY <1>2, <1>4, <1>6, CallsTakeNoLonger DEF n, c, T, D
<1>8. CASE Wake(r) /\ d = RetryDelayOf(cmd[r])
  <2>1. /\ attempt'[r] = attempt[r] + 1
        /\ pc'[r] \in {"polling", "final", "done"}
        /\ pc'[r] = "done" => ~MoreRounds(r)
    BY <1>8 DEF Wake, Reply, Goto, TInv, PInv, IInv, TypeOK
  <2>2. DelaysOf(r)' = DelaysOf(r) + D
    BY <1>3, <1>5, <2>1 DEF DelaysOf
  <2>3. DelaysOf(r)' <= spent'[r]
    BY <1>2, <1>8, <2>2 DEF Clocked
  <2>4. pc'[r] = "done" => spent'[r] >= n * D
    <3>1. ~MoreRounds(r) => ~(attempt[r] + 1 < n)
      BY DEF MoreRounds
    <3>2. (attempt[r] + 1) * D <= spent'[r]
      BY <1>5, <2>2, <2>3
    <3>3. attempt[r] \in Nat /\ n \in Nat /\ attempt[r] + 1 <= n
      BY <1>2, <1>4
    <3> HIDE DEF n, D
    <3>4. pc'[r] = "done" => attempt[r] + 1 = n
      BY <2>1, <3>1, <3>3
    <3> QED BY <3>2, <3>4
  <2>5. spent'[r] <= CallsOf(r)' * T + DelaysOf(r)'
    BY <1>3, <1>5, <1>6, <2>2
  <2> QED BY <1>3, <1>7, <2>1, <2>3, <2>4, <2>5 DEF Clocked
<1>9. CASE SleepCancelled(r) /\ d <= RetryDelayOf(cmd[r])
  <2>1. pc'[r] = "done" /\ attempt'[r] = attempt[r] /\ ~live'[r]
    BY <1>1, <1>9
    DEF SleepCancelled, Reply, Goto, localVars, TInv, PInv, IInv, TypeOK
  <2>2. DelaysOf(r)' = DelaysOf(r)
    BY <1>3, <2>1 DEF DelaysOf
  <2>3. DelaysOf(r)' <= spent'[r]
    BY <1>2, <2>2 DEF Clocked
  <2> QED BY <1>3, <1>7, <2>1, <2>3 DEF Clocked, Fetching
<1> QED BY <1>8, <1>9

\* A verdict takes no time, and gives up only after the last fetch.
LEMMA VerdictKeepsTime ==
  ASSUME TInv, NEW r \in Request, Complete(r), Counts', spent'[r] = spent[r]
  PROVE  Clocked(r)'
<1> DEFINE c == cmd[r]
           n == MaxRetriesOf(c)
<1>1. /\ UNCHANGED <<cmd, live, attempt, sent, fetches>> /\ r \in InFlight
      /\ pc[r] = "verifying" /\ pc'[r] = "done"
      /\ answer'[r] = Verdict(c, got[r])
  BY DEF Complete, InFlight, Reply, Goto, localVars, TInv, PInv, IInv, TypeOK
<1>2. /\ OnChain(c) /\ Counted(r) /\ Clocked(r) /\ spent[r] \in Nat
      /\ attempt[r] \in Nat /\ fetches[r] \in Nat /\ n \in Nat
  BY <1>1, ServedClock
<1>3. /\ DelaysOf(r)' = DelaysOf(r) /\ LongestTime(cmd[r])' = LongestTime(c)
      /\ n' = n /\ RetryDelayOf(cmd[r])' = RetryDelayOf(c)
  BY <1>1 DEF DelaysOf, LongestTime, RetryDelayOf, MaxRetriesOf, IsSettle
<1>4. answer'[r].http # 500
  BY <1>1, HeldByHandler, VerdictSays DEF TInv, PInv
<1>5. live'[r] /\ GaveUp(r)' => attempt[r] = n
  <2>1. live'[r] => UsedWindow(r)'
    BY <1>1 DEF Counts, Counted
  <2>2. GaveUp(r)' => SettlingGaveUp(r)' /\ IsSettle(c)
    <3>1. sent[r] = "acked" => IsSettle(c)
      BY <1>1, ServedClock DEF Booked
    <3>2. GaveUp(r)' => SettlingGaveUp(r)'
      BY <1>4 DEF GaveUp, VerifyingGaveUp
    <3>3. SettlingGaveUp(r)' => sent[r] = "acked"
      BY <1>1 DEF SettlingGaveUp
    <3> QED BY <3>1, <3>2, <3>3
  <2>3. live'[r] /\ GaveUp(r)' => fetches[r] = SettleMaxRetries + 1
    BY <1>1, <2>1, <2>2 DEF UsedWindow
  <2>4. IsSettle(c) => n = SettleMaxRetries
    BY RoundsArePositive
  <2> QED BY <1>1, <1>2, <2>2, <2>3, <2>4 DEF Counted
<1>6. live'[r] /\ GaveUp(r)' => spent'[r] >= n * RetryDelayOf(c)
  <2>1. /\ attempt[r] * RetryDelayOf(c) <= spent[r]
        /\ attempt[r] * RetryDelayOf(c) \in Nat
    BY <1>2, TimesAreNat, Product DEF Clocked, DelaysOf
  <2> HIDE DEF n, c
  <2> QED BY <1>5, <2>1
<1> QED BY <1>1, <1>2, <1>3, <1>6 DEF Clocked, Fetching

\* A request that arrives has spent no time.
LEMMA ArrivalKeepsTime ==
  ASSUME TInv, NEW r \in Request, NEW c \in Command, Receive(r, c),
         spent'[r] = spent[r]
  PROVE  Clocked(r)'
<1>1. /\ pc[r] = "idle" /\ cmd'[r] = c
      /\ attempt'[r] = 0 /\ fetches'[r] = 0 /\ spent'[r] = 0
      /\ pc'[r] \in {"done", "broadcasting", "polling"}
      /\ sent'[r] = "no"
  BY DEF Receive, Reply, Goto, TInv, Clocks, Clocked, PInv, Counts, Counted,
         Books, Booked, IInv, TypeOK
<1>2. ~GaveUp(r)'
  BY <1>1 DEF GaveUp, SettlingGaveUp, VerifyingGaveUp
<1>3. /\ DelaysOf(r)' = 0 /\ LongestTime(cmd[r])' \in Nat
      /\ CallsOf(r)' \in Nat /\ CallsOf(r)' * HTTPTimeout \in Nat
  <2>1. /\ RetryDelayOf(cmd[r])' = RetryDelayOf(c)
        /\ LongestTime(cmd[r])' = LongestTime(c)
    BY <1>1 DEF RetryDelayOf, LongestTime
  <2>2. DelaysOf(r)' = 0 * RetryDelayOf(c)
    BY <1>1, <2>1 DEF DelaysOf
  <2>3. CallsOf(r)' \in Nat
    BY <1>1 DEF CallsOf
  <2> QED BY <2>1, <2>2, <2>3, TimesAreNat, Product
<1> QED BY <1>1, <1>2, <1>3 DEF Clocked

\* Time or not, every step is one of the facilitator.
LEMMA TimedStep == [TimedNext]_timedVars => [Next]_vars
BY DEF TimedNext, CallsNode, Next, HandlerStep, timedVars

\* Only the request that takes a step spends time, and nobody else's clock
\* moves.
LEMMA TakingTime ==
  ASSUME Clocks, NEW r \in Request, NEW span, span \subseteq Nat,
         Taking(r, span)
  PROVE  /\ spent' \in [Request -> Nat]
         /\ \A q \in Request \ {r} : spent'[q] = spent[q]
         /\ \E d \in span : spent'[r] = spent[r] + d
BY DEF Taking, Clocks

\* Every step keeps every clock.
LEMMA StepClocks == TInv /\ [TimedNext]_timedVars => Clocks'
<1> SUFFICES ASSUME TInv, [TimedNext]_timedVars PROVE Clocks'
  OBVIOUS
<1>1. Counts'
  BY TimedStep, StepCounts DEF TInv
<1>2. ASSUME UNCHANGED <<cmd, attempt, sent, answer, fetches, spent>>,
             \A q \in Request : pc'[q] = pc[q] \/ pc'[q] = "lost",
             \A q \in Request : live'[q] => live[q]
      PROVE  Clocks'
  BY <1>2, ClockedLocally DEF TInv, Clocks
<1>3. ASSUME NEW r \in Request,
             (\E c \in Command : Receive(r, c)) \/ HandlerStep(r),
             spent' \in [Request -> Nat],
             \A q \in Request \ {r} : spent'[q] = spent[q],
             Clocked(r)'
      PROVE  Clocks'
  <2>1. ASSUME NEW q \in Request \ {r} PROVE Clocked(q)'
    BY <1>3, <2>1, OthersAreQuiet, ClockedLocally DEF TInv, Clocks
  <2> QED BY <1>3, <2>1 DEF Clocks
<1>4. ASSUME NEW r \in Request, CallsNode(r), Taking(r, 0 .. HTTPTimeout)
      PROVE  Clocks'
  BY <1>1, <1>3, <1>4, TakingTime, TimesAreNat, CallKeepsTime
  DEF CallsNode, HandlerStep, TInv
<1>5. ASSUME NEW r \in Request,
             \/ Wake(r) /\ Taking(r, {RetryDelayOf(cmd[r])})
             \/ SleepCancelled(r) /\ Taking(r, 0 .. RetryDelayOf(cmd[r]))
      PROVE  Clocks'
  <2> DEFINE D == RetryDelayOf(cmd[r])
  <2>1. D \in Nat /\ {D} \subseteq Nat /\ 0 .. D \subseteq Nat
    BY TimesAreNat
  <2>2. CASE Wake(r) /\ Taking(r, {D})
    BY <1>3, <2>1, <2>2, TakingTime, DelayKeepsTime DEF HandlerStep, TInv
  <2>3. CASE SleepCancelled(r) /\ Taking(r, 0 .. D)
    <3>1. PICK d \in 0 .. D : spent'[r] = spent[r] + d
      BY <2>1, <2>3, TakingTime DEF TInv
    <3>2. d \in Nat /\ d <= D
      BY <2>1, <3>1
    <3> QED
      BY <1>3, <2>1, <2>3, <3>1, <3>2, TakingTime, DelayKeepsTime
      DEF HandlerStep, TInv
  <2> QED BY <1>5, <2>2, <2>3
<1>6. ASSUME NEW r \in Request,
             (\E c \in Command : Receive(r, c)) \/ Complete(r),
             UNCHANGED spent
      PROVE  Clocks'
  <2>1. Clocked(r)'
    BY <1>1, <1>6, VerdictKeepsTime, ArrivalKeepsTime
  <2> QED BY <1>3, <1>6, <2>1 DEF HandlerStep, TInv, Clocks
<1>7. ASSUME NEW r \in Request, Disconnect(r), UNCHANGED spent PROVE Clocks'
  BY <1>2, <1>7 DEF Disconnect, TInv, PInv, IInv, TypeOK
<1>8. CASE (Crash \/ Environment) /\ UNCHANGED spent
  BY <1>2, <1>8 DEF Crash, Environment, InFlight, localVars
<1>9. CASE UNCHANGED timedVars
  BY <1>2, <1>9 DEF timedVars, vars, localVars
<1> QED BY <1>4, <1>5, <1>6, <1>7, <1>8, <1>9 DEF TimedNext

\* The clocks start at zero.
LEMMA InitClocks == TimedInit => Clocks
<1> SUFFICES ASSUME TimedInit, NEW r \in Request PROVE Clocked(r)
  BY DEF TimedInit, Clocks
<1>1. /\ cmd[r] = NoCommand /\ pc[r] = "idle" /\ attempt[r] = 0
      /\ fetches[r] = 0 /\ spent[r] = 0
  BY DEF TimedInit, Init
<1>2. DelaysOf(r) = 0 /\ LongestTime(cmd[r]) \in Nat
  BY <1>1, Product, TimesAreNat DEF DelaysOf
<1> QED BY <1>1, <1>2 DEF Clocked, Fetching

\* The time of every request is that of the calls and delays it made.
THEOREM TimeIsCounted == TimedSpec => []TInv
<1>1. TimedInit => PInv /\ Clocks
  BY InitIsSafe, InitBooks, InitCounts, InitClocks DEF PInv, TimedInit
<1>2. PInv /\ [Next]_vars => PInv'
  BY StepIsSafe, StepBooks, StepCounts DEF PInv
<1>3. TInv /\ [TimedNext]_timedVars => TInv'
  BY <1>2, TimedStep, StepClocks DEF TInv
<1> QED BY <1>1, <1>3, PTL DEF TimedSpec, TInv

\* The clock changes nothing: what is proved of the facilitator holds of it
\* with its clock.  (Computing aside, time only passes.)
THEOREM TimeOnlyPasses == TimedSpec => Spec
BY TimedStep, PTL DEF TimedSpec, TimedInit, Spec

\* Every answer comes within the time its command allows for, however slow
\* the API is and whatever else the facilitator serves.  (HTTPClientTimeout,
\* WaitForConfirmation, GetTransactionWithRetry.)
THEOREM AnswersAreInTime == TimedSpec => []AnsweredInTime
<1>1. TInv => AnsweredInTime
  BY DEF TInv, Clocks, Clocked, AnsweredInTime
<1> QED BY <1>1, TimeIsCounted, PTL

\* A connected client hears from a settlement that its payment is open, or
\* from a v1 verification that it could not be fetched, only after all the
\* delays of the loop; that it is pending a v1 verification says without one.
\* (WaitForConfirmation, GetTransactionWithRetry.)
THEOREM TimeToMineIsGiven == TimedSpec => []GivesTimeToMine
<1>1. TInv => GivesTimeToMine
  BY DEF TInv, Clocks, Clocked, GivesTimeToMine
<1> QED BY <1>1, TimeIsCounted, PTL
=============================================================================
