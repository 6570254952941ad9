-------------------------- MODULE RetryWindowProofs -------------------------
(***************************************************************************)
(* The bounds on the waiting time of a request, for every number of        *)
(* retries, delay and timeout.                                             *)
(***************************************************************************)
EXTENDS RetryWindow, TLAPS

\* Where the loop is, and what the clock can read there after i rounds.
IInv ==
  /\ TypeOK
  /\ at = "returned" => WindowBound /\ GivesUpAfterDelays
  /\ at # "returned" => cause = "none" /\ Delays(i) <= elapsed
  /\ at = "fetching" => i < MaxRetries /\ elapsed <= Rounds(i)
  /\ at = "sleeping" => i < MaxRetries /\ elapsed <= Rounds(i) + HTTPTimeout
  /\ at = "final" => /\ Loop = "WaitForConfirmation"
                     /\ i = MaxRetries
                     /\ elapsed <= Rounds(i)

\* Products of naturals are naturals, and grow with their first factor.
LEMMA Product ==
  ASSUME NEW a \in Nat, NEW b \in Nat
  PROVE  /\ a * b \in Nat
         /\ 0 * b = 0
         /\ (a + 1) * b = a * b + b
  BY SMT

\* A larger factor gives no smaller product: more rounds take no less time.
LEMMA ProductMonotone ==
  ASSUME NEW a \in Nat, NEW b \in Nat, NEW c \in Nat, a <= b
  PROVE  a * c <= b * c
<1> DEFINE k == b - a
<1>1. k \in Nat /\ b = a + k
  BY SMT
<1>2. (a + k) * c = a * c + k * c
  BY <1>1, SMT
<1>3. a * c \in Nat /\ k * c \in Nat
  BY <1>1, Product
<1> QED BY <1>1, <1>2, <1>3, SMT

\* What the rounds and the delays of the loop add up to.
LEMMA RoundsOf ==
  ASSUME NEW n \in 0 .. MaxRetries
  PROVE  /\ Rounds(n) \in Nat
         /\ Rounds(MaxRetries) \in Nat
         /\ Rounds(0) = 0
         /\ Rounds(n + 1) = Rounds(n) + HTTPTimeout + RetryDelay
         /\ Rounds(n) <= Rounds(MaxRetries)
         /\ n < MaxRetries =>
              Rounds(n) + HTTPTimeout + RetryDelay <= Rounds(MaxRetries)
<1> USE RetryWindowAssumption
<1>1. Round \in Nat /\ n \in Nat /\ n + 1 \in Nat /\ n <= MaxRetries
  BY DEF Round
<1>2. Rounds(n) \in Nat /\ Rounds(MaxRetries) \in Nat /\ Rounds(0) = 0
  BY <1>1, Product DEF Rounds
<1>3. Rounds(n + 1) = Rounds(n) + Round
  BY <1>1, Product DEF Rounds
<1>4. Rounds(n) <= Rounds(MaxRetries)
  BY <1>1, ProductMonotone DEF Rounds
<1>5. n < MaxRetries => Rounds(n + 1) <= Rounds(MaxRetries)
  BY <1>1, ProductMonotone DEF Rounds
<1> QED BY <1>1, <1>2, <1>3, <1>4, <1>5 DEF Round

\* What all the delays take, and that each adds one.
LEMMA DelaysOf ==
  ASSUME NEW n \in 0 .. MaxRetries
  PROVE  /\ Delays(n) \in Nat
         /\ Delays(MaxRetries) \in Nat
         /\ Delays(0) = 0
         /\ Delays(n + 1) = Delays(n) + RetryDelay
BY Product, RetryWindowAssumption DEF Delays

\* The loop starts inside the invariant, also when it makes no round at all.
LEMMA InitInvariant == Init => IInv
<1> SUFFICES ASSUME Init PROVE IInv
  OBVIOUS
<1>1. 0 \in 0 .. MaxRetries
  BY RetryWindowAssumption
<1>2. /\ Rounds(0) = 0 /\ Rounds(MaxRetries) \in Nat
      /\ Delays(0) = 0 /\ Delays(MaxRetries) \in Nat
  BY <1>1, RoundsOf, DelaysOf
<1> QED
  BY <1>1, <1>2, RetryWindowAssumption
  DEF Init, IInv, TypeOK, WindowBound, GivesUpAfterDelays, LoopHead, CauseAt

\* Every step of the loop keeps the clock within the rounds counted.
LEMMA StepInvariant == IInv /\ [Next]_vars => IInv'
<1> SUFFICES ASSUME IInv, [Next]_vars PROVE IInv'
  OBVIOUS
<1> USE RetryWindowAssumption
<1>a. i \in 0 .. MaxRetries
  BY DEF IInv, TypeOK
<1>b. /\ Rounds(i) \in Nat
      /\ Rounds(MaxRetries) \in Nat
      /\ Rounds(i + 1) = Rounds(i) + HTTPTimeout + RetryDelay
      /\ Rounds(i) <= Rounds(MaxRetries)
      /\ i < MaxRetries =>
           Rounds(i) + HTTPTimeout + RetryDelay <= Rounds(MaxRetries)
  BY <1>a, RoundsOf
<1>c. /\ Delays(i) \in Nat
      /\ Delays(MaxRetries) \in Nat
      /\ Delays(i + 1) = Delays(i) + RetryDelay
  BY <1>a, DelaysOf
<1> USE DEF IInv, TypeOK, WindowBound, GivesUpAfterDelays
<1>1. ASSUME NEW d \in FetchTime, FetchEnds(d) PROVE IInv'
  BY <1>1, <1>a, <1>b, <1>c DEF FetchEnds, FetchTime, Return
<1>2. ASSUME NEW d \in FetchTime, FetchGoesOn(d) PROVE IInv'
  BY <1>2, <1>a, <1>b, <1>c DEF FetchGoesOn, FetchTime
<1>3. ASSUME NEW d \in FetchTime, FetchFinal(d) PROVE IInv'
  BY <1>3, <1>a, <1>b, <1>c DEF FetchFinal, FetchTime, Return
<1>4. CASE Sleep
  <2>1. CASE i + 1 < MaxRetries
    BY <2>1, <1>4, <1>a, <1>b, <1>c DEF Sleep, LoopHead, CauseAt
  <2>2. CASE ~(i + 1 < MaxRetries)
    <3>1. i + 1 = MaxRetries
      BY <2>2, <1>4, <1>a DEF Sleep
    <3> QED
      BY <3>1, <1>4, <1>a, <1>b, <1>c DEF Sleep, LoopHead, CauseAt
  <2> QED BY <2>1, <2>2
<1>5. ASSUME NEW d \in 0 .. RetryDelay, SleepCancelled(d) PROVE IInv'
  BY <1>5, <1>a, <1>b, <1>c DEF SleepCancelled, Return
<1>6. CASE UNCHANGED vars
  BY <1>6 DEF vars
<1> QED BY <1>1, <1>2, <1>3, <1>4, <1>5, <1>6 DEF Next

\* The invariant bounds the clock wherever the loop is.
LEMMA InvariantBounds == IInv => TypeOK /\ WindowBound /\ GivesUpAfterDelays
<1> SUFFICES ASSUME IInv PROVE TypeOK /\ WindowBound /\ GivesUpAfterDelays
  OBVIOUS
<1>1. i \in 0 .. MaxRetries
  BY DEF IInv, TypeOK
<1>2. /\ Rounds(i) \in Nat
      /\ Rounds(MaxRetries) \in Nat
      /\ Rounds(i) <= Rounds(MaxRetries)
      /\ i < MaxRetries =>
           Rounds(i) + HTTPTimeout + RetryDelay <= Rounds(MaxRetries)
  BY <1>1, RoundsOf
<1>3. Delays(i) \in Nat /\ Delays(MaxRetries) \in Nat
  BY <1>1, DelaysOf
<1> QED
  BY <1>1, <1>2, <1>3, RetryWindowAssumption
  DEF IInv, TypeOK, WindowBound, GivesUpAfterDelays

\* The counter of a loop stays within its rounds, so that a loop that is not
\* over always knows whether it fetches again.  (for i := 0; i < maxRetries.)
THEOREM CounterStaysInRange == Spec => []TypeOK
BY InitInvariant, StepInvariant, InvariantBounds, PTL DEF Spec

\* A request never waits longer than MaxRetries slow rounds and, where it is
\* settled, the final fetch.  (WaitForConfirmation, GetTransactionWithRetry.)
THEOREM WindowBoundHolds == Spec => []WindowBound
BY InitInvariant, StepInvariant, InvariantBounds, PTL DEF Spec

\* The loops give up only after all their delays, however fast each fetch
\* fails.  (The select on time.After in the loops of StacksClientAdapter.)
THEOREM GivesUpAfterDelaysHolds == Spec => []GivesUpAfterDelays
BY InitInvariant, StepInvariant, InvariantBounds, PTL DEF Spec
=============================================================================
