--------------------------- MODULE ScanningProofs ---------------------------
(***************************************************************************)
(* The two loops over what comes from outside, for inputs of every length: *)
(* the parser's over the arguments of a call computes its declarative      *)
(* reading, and the search over the bytes of a message stays within it and *)
(* finds every occurrence of a word.                                       *)
(***************************************************************************)
EXTENDS SIP010Parser, SubstringSearch, TLAPS

\* The positions of the arguments of those names among the first k.
Within(args, names, k) == {p \in Named(args, names) : p <= k}

\* The value at the last of some positions.
LastOf(args, at, default) ==
  IF at = {} THEN default
  ELSE args[CHOOSE p \in at : \A q \in at : q <= p].value

\* What LastValue would return of the first k arguments.
LastWithin(args, names, default, k) ==
  LastOf(args, Within(args, names, k), default)

\* Sequences of arguments, as the JSON decoder returns them.
IsArgs(args) == Len(args) \in Nat /\ DOMAIN args = 1 .. Len(args)

\* With no argument taken, every reading is its default.
LEMMA NothingYet ==
  ASSUME NEW args, IsArgs(args), NEW names, NEW default
  PROVE  Within(args, names, 0) = {}
         /\ LastWithin(args, names, default, 0) = default
<1>1. Within(args, names, 0) = {}
  BY DEF Within, Named, IsArgs
<1> QED BY <1>1 DEF LastWithin, LastOf

\* The argument just taken is the last of its name, so its value counts.
LEMMA TakenCounts ==
  ASSUME NEW args, IsArgs(args), NEW names, NEW default,
         NEW k \in Nat, k < Len(args), args[k + 1].name \in names
  PROVE  /\ Within(args, names, k + 1) = Within(args, names, k) \cup {k + 1}
         /\ LastWithin(args, names, default, k + 1) = args[k + 1].value
<1> DEFINE at == Within(args, names, k + 1)
<1>1. at \subseteq 1 .. (k + 1) /\ k + 1 \in at
  BY DEF Within, Named, IsArgs
<1>2. at = Within(args, names, k) \cup {k + 1}
  BY DEF Within, Named, IsArgs
<1>3. \A p \in at : (\A q \in at : q <= p) <=> p = k + 1
  BY <1>1
<1>4. (CHOOSE p \in at : \A q \in at : q <= p) = k + 1
  BY <1>1, <1>3
<1>5. LastWithin(args, names, default, k + 1) =
        args[CHOOSE p \in at : \A q \in at : q <= p].value
  BY <1>1 DEF LastWithin, LastOf
<1> QED BY <1>2, <1>4, <1>5

\* An argument of another name changes nothing.
LEMMA OthersDoNotCount ==
  ASSUME NEW args, IsArgs(args), NEW names, NEW default,
         NEW k \in Nat, k < Len(args), args[k + 1].name \notin names
  PROVE  /\ Within(args, names, k + 1) = Within(args, names, k)
         /\ LastWithin(args, names, default, k + 1) =
              LastWithin(args, names, default, k)
<1>1. Within(args, names, k + 1) = Within(args, names, k)
  BY DEF Within, Named, IsArgs
<1> QED BY <1>1 DEF LastWithin

\* With all arguments taken, the reading is that of the whole call.
LEMMA AllTaken ==
  ASSUME NEW args, IsArgs(args), NEW names, NEW default
  PROVE  /\ Within(args, names, Len(args)) = Named(args, names)
         /\ LastWithin(args, names, default, Len(args)) =
              LastValue(args, names, default)
<1>1. Within(args, names, Len(args)) = Named(args, names)
  BY DEF Within, Named, IsArgs
<1>2. LastValue(args, names, default) =
        LastOf(args, Named(args, names), default)
  BY DEF LastValue, LastOf
<1> QED BY <1>1, <1>2 DEF LastWithin

\* While the loop runs, its variables hold the reading of the arguments taken.
ReadSoFar ==
  /\ call.function = "transfer"
  /\ \A p \in Within(call.args, {"amount"}, n) :
       call.args[p].value \in Uint64
  /\ \A p \in Within(call.args, RecipientArg, n) :
       call.args[p].value \in Address
  /\ recipient = Absent <=> Within(call.args, RecipientArg, n) = {}
  /\ recipient = LastWithin(call.args, RecipientArg, Absent, n)
  /\ amount = LastWithin(call.args, {"amount"}, 0, n)
  /\ memo = LastWithin(call.args, {"memo"}, "", n)

ParserInv ==
  /\ call \in Call
  /\ n \in 0 .. Len(call.args)
  /\ result = "parsing" => ReadSoFar
  /\ ParsesAsDeclared

\* A string that is not given is no address.
LEMMA AbsentIsNone == Absent \notin Address
BY PaymentsAssumption DEF Address

\* The local variables start as those of a call without arguments.
LEMMA ParserStarts == ParserInit => ParserInv
<1> SUFFICES ASSUME ParserInit PROVE ParserInv
  OBVIOUS
<1>1. call \in Call /\ IsArgs(call.args) /\ n = 0
  BY ParserAssumption DEF ParserInit, IsArgs
<1>2. \A names, default :
        /\ Within(call.args, names, 0) = {}
        /\ LastWithin(call.args, names, default, 0) = default
  BY <1>1, NothingYet
<1>4. call.function = "transfer" => ReadSoFar
  BY <1>1, <1>2 DEF ParserInit, ReadSoFar
<1>3. ParsesAsDeclared
  BY DEF ParserInit, ParsesAsDeclared, AsWire, ParsesSIP010Transfer
<1>5. n \in 0 .. Len(call.args)
  BY <1>1 DEF IsArgs
<1>6. result = "parsing" => ReadSoFar
  BY <1>4 DEF ParserInit
<1> QED BY <1>1, <1>3, <1>5, <1>6 DEF ParserInv

\* An argument that is taken keeps the invariant, or is refused rightly.
LEMMA TakeIsSound ==
  ASSUME ParserInv, TakeAmount \/ TakeRecipient \/ TakeMemo \/ TakeOther
  PROVE  ParserInv'
<1> DEFINE args == call.args
<1>1. /\ result = "parsing" /\ ReadSoFar
      /\ call' = call /\ n' = n + 1 /\ call \in Call
      /\ n \in Nat /\ n < Len(args) /\ IsArgs(args)
  BY ParserAssumption
  DEF ParserInv, IsArgs, TakeAmount, TakeRecipient, TakeMemo, TakeOther, Takes
<1>2. n + 1 \in DOMAIN args /\ n' \in 0 .. Len(args)
  BY <1>1 DEF IsArgs
<1>3. ASSUME result' = "parsing", ReadSoFar' PROVE ParserInv'
  BY <1>1, <1>2, <1>3 DEF ParserInv, ParsesAsDeclared
<1>4. \A names, default : args[n + 1].name \in names =>
        /\ Within(args, names, n + 1) = Within(args, names, n) \cup {n + 1}
        /\ LastWithin(args, names, default, n + 1) = args[n + 1].value
  BY <1>1, TakenCounts
<1>5. CASE TakeAmount
  <2>1. args[n + 1].name = "amount" /\ args[n + 1].name \in {"amount"}
    BY <1>5 DEF TakeAmount, Takes
  <2>2. CASE Value \in Uint64
    <3>1. /\ amount' = args[n + 1].value /\ amount' \in Uint64
          /\ UNCHANGED <<recipient, memo, result>>
      BY <1>5, <2>2 DEF TakeAmount, Value
    <3>2. /\ Within(args, {"amount"}, n + 1) =
               Within(args, {"amount"}, n) \cup {n + 1}
          /\ LastWithin(args, {"amount"}, 0, n + 1) = args[n + 1].value
      <4> DEFINE names == {"amount"}
      <4>1. args[n + 1].name \in names
        BY <2>1
      <4> HIDE DEF names
      <4>2. /\ Within(args, names, n + 1) =
                 Within(args, names, n) \cup {n + 1}
            /\ LastWithin(args, names, 0, n + 1) = args[n + 1].value
        BY <1>4, <4>1
      <4> QED BY <4>2 DEF names
    <3>3. \A names, default : "amount" \notin names =>
            /\ Within(args, names, n + 1) = Within(args, names, n)
            /\ LastWithin(args, names, default, n + 1) =
                 LastWithin(args, names, default, n)
      BY <1>1, <2>1, OthersDoNotCount
    <3>4. "amount" \notin RecipientArg /\ "amount" \notin {"memo"}
      BY DEF RecipientArg
    <3>5. ReadSoFar'
      BY <1>1, <3>1, <3>2, <3>3, <3>4 DEF ReadSoFar
    <3> QED BY <1>1, <1>3, <3>1, <3>5
  <2>3. CASE Value \notin Uint64
    <3>1. result' = "error"
      BY <1>5, <2>3 DEF TakeAmount
    <3>2. n + 1 \in Named(args, {"amount"}) /\ args[n + 1].value \notin Uint64
      BY <1>2, <2>1, <2>3 DEF Named, Value
    <3>3. ~ParsesSIP010Transfer(AsWire)
      BY <3>2 DEF ParsesSIP010Transfer, AsWire
    <3> QED
      BY <1>1, <1>2, <3>1, <3>3 DEF ParserInv, ParsesAsDeclared, AsWire
  <2> QED BY <2>2, <2>3
<1>6. CASE TakeRecipient
  <2>1. args[n + 1].name \in RecipientArg
    BY <1>6 DEF TakeRecipient, Takes
  <2>2. CASE Value \in Address
    <3>1. /\ recipient' = args[n + 1].value /\ recipient' \in Address
          /\ UNCHANGED <<amount, memo, result>>
      BY <1>6, <2>2 DEF TakeRecipient, Value
    <3>2. /\ Within(args, RecipientArg, n + 1) =
               Within(args, RecipientArg, n) \cup {n + 1}
          /\ LastWithin(args, RecipientArg, Absent, n + 1) = args[n + 1].value
      BY <1>1, <2>1, TakenCounts
    <3>3. ASSUME NEW word \in {"amount", "memo"}, NEW default
          PROVE  /\ Within(args, {word}, n + 1) = Within(args, {word}, n)
                 /\ LastWithin(args, {word}, default, n + 1) =
                      LastWithin(args, {word}, default, n)
      <4>1. args[n + 1].name \notin {word}
        BY <2>1 DEF RecipientArg
      <4> QED BY <1>1, <4>1, OthersDoNotCount
    <3>4. ReadSoFar'
      BY <1>1, <3>1, <3>2, <3>3, AbsentIsNone DEF ReadSoFar
    <3> QED BY <1>1, <1>3, <3>1, <3>4
  <2>3. CASE Value \notin Address
    <3>1. result' = "error"
      BY <1>6, <2>3 DEF TakeRecipient
    <3>2. /\ n + 1 \in Named(args, RecipientArg)
          /\ args[n + 1].value \notin Address
      BY <1>2, <2>1, <2>3 DEF Named, Value
    <3>3. ~ParsesSIP010Transfer(AsWire)
      BY <3>2 DEF ParsesSIP010Transfer, AsWire
    <3> QED
      BY <1>1, <1>2, <3>1, <3>3 DEF ParserInv, ParsesAsDeclared, AsWire
  <2> QED BY <2>2, <2>3
<1>7. CASE TakeMemo
  <2>1. /\ args[n + 1].name = "memo" /\ args[n + 1].name \in {"memo"}
        /\ memo' = args[n + 1].value
    BY <1>7 DEF TakeMemo, Takes, Value
  <2>2. UNCHANGED <<recipient, amount, result>>
    BY <1>7 DEF TakeMemo
  <2>3. LastWithin(args, {"memo"}, "", n + 1) = args[n + 1].value
    <3> DEFINE names == {"memo"}
    <3>1. args[n + 1].name \in names
      BY <2>1
    <3> HIDE DEF names
    <3>2. LastWithin(args, names, "", n + 1) = args[n + 1].value
      BY <1>4, <3>1
    <3> QED BY <3>2 DEF names
  <2>4. \A names, default : "memo" \notin names =>
          /\ Within(args, names, n + 1) = Within(args, names, n)
          /\ LastWithin(args, names, default, n + 1) =
               LastWithin(args, names, default, n)
    BY <1>1, <2>1, OthersDoNotCount
  <2>5. "memo" \notin RecipientArg /\ "memo" \notin {"amount"}
    BY DEF RecipientArg
  <2>6. ReadSoFar'
    BY <1>1, <2>1, <2>2, <2>3, <2>4, <2>5 DEF ReadSoFar
  <2> QED BY <1>1, <1>3, <2>2, <2>6
<1>8. CASE TakeOther
  <2>1. /\ args[n + 1].name \notin {"amount"}
        /\ args[n + 1].name \notin {"memo"}
        /\ args[n + 1].name \notin RecipientArg
        /\ UNCHANGED <<recipient, amount, memo, result>>
    BY <1>8 DEF TakeOther
  <2>2. \A names, default : args[n + 1].name \notin names =>
          /\ Within(args, names, n + 1) = Within(args, names, n)
          /\ LastWithin(args, names, default, n + 1) =
               LastWithin(args, names, default, n)
    BY <1>1, OthersDoNotCount
  <2>3. ReadSoFar'
    BY <1>1, <2>1, <2>2 DEF ReadSoFar
  <2> QED BY <1>1, <1>3, <2>1, <2>3
<1> QED BY <1>5, <1>6, <1>7, <1>8

\* After the loop the local variables are the reading of the whole call.
LEMMA FinishIsSound == ParserInv /\ Finish => ParserInv'
<1> SUFFICES ASSUME ParserInv, Finish PROVE ParserInv'
  OBVIOUS
<1> DEFINE args == call.args
<1>1. /\ ReadSoFar /\ n = Len(args) /\ call \in Call /\ IsArgs(args)
      /\ UNCHANGED <<call, n, recipient, amount, memo>>
      /\ result' = IF recipient = Absent THEN "error" ELSE "ok"
  BY ParserAssumption DEF Finish, ParserInv, IsArgs
<1>2. \A names, default :
        /\ Within(args, names, n) = Named(args, names)
        /\ LastWithin(args, names, default, n) =
             LastValue(args, names, default)
  BY <1>1, AllTaken
<1>3. /\ recipient = Absent <=> Named(args, RecipientArg) = {}
      /\ recipient = LastValue(args, RecipientArg, Absent)
      /\ amount = LastValue(args, {"amount"}, 0)
      /\ memo = LastValue(args, {"memo"}, "")
      /\ \A p \in Named(args, {"amount"}) : args[p].value \in Uint64
      /\ \A p \in Named(args, RecipientArg) : args[p].value \in Address
      /\ call.function = "transfer"
  BY <1>1, <1>2 DEF ReadSoFar
<1>4. /\ AsWire.tx_type = "contract_call"
      /\ AsWire.function = call.function
      /\ AsWire.args = args
      /\ AsWire' = AsWire
  BY <1>1 DEF AsWire
<1>5. ParsesSIP010Transfer(AsWire) <=> recipient # Absent
  BY <1>3, <1>4 DEF ParsesSIP010Transfer
<1>6. /\ WireRecipient(AsWire) = recipient
      /\ WireAmount(AsWire) = amount
      /\ WireMemo(AsWire) = memo
  BY <1>3, <1>4 DEF WireRecipient, WireAmount, WireMemo
<1>7. ParsesAsDeclared'
  <2>1. CASE recipient = Absent
    BY <1>1, <1>4, <1>5, <2>1 DEF ParsesAsDeclared
  <2>2. CASE recipient # Absent
    BY <1>1, <1>4, <1>5, <1>6, <2>2 DEF ParsesAsDeclared
  <2> QED BY <2>1, <2>2
<1> QED BY <1>1, <1>7 DEF ParserInv

\* The loop accepts and returns what the declarative reading says, for every
\* call: any number of arguments in any order, repeated or missing.
\* (parseSIP010Transfer.)
THEOREM LoopIsReading == ParserSpec => []ParsesAsDeclared
<1>1. ParserInv /\ [ParserNext]_parserVars => ParserInv'
  <2>1. ParserInv /\ UNCHANGED parserVars => ParserInv'
    BY DEF parserVars, ParserInv, ReadSoFar, ParsesAsDeclared, AsWire
  <2> QED BY <2>1, TakeIsSound, FinishIsSound DEF ParserNext
<1>2. ParserInv => ParsesAsDeclared
  BY DEF ParserInv
<1> QED BY <1>1, <1>2, ParserStarts, PTL DEF ParserSpec

-----------------------------------------------------------------------------
(* The search. *)

\* No earlier start fits, and at this one the first j bytes do.
SearchInv ==
  /\ s \in Text /\ substr \in Word
  /\ i \in Nat /\ j \in Nat
  /\ found = "searching" =>
       /\ Len(substr) <= Len(s)
       /\ i <= LastStart + 1
       /\ j <= Len(substr)
       /\ \A k \in 0 .. LastStart : k < i => ~OccursAt(k)
       /\ \A m \in 1 .. j : toLower(s[i + m]) = toLower(substr[m])
  /\ FindsEveryOccurrence

\* Texts and words are sequences of their lengths.
LEMMA Lengths ==
  ASSUME SearchInv
  PROVE  /\ Len(s) \in Nat /\ DOMAIN s = 1 .. Len(s)
         /\ Len(substr) \in Nat /\ DOMAIN substr = 1 .. Len(substr)
         /\ LastStart \in Int
BY SearchAssumption DEF SearchInv, LastStart

\* The comparison of two bytes is that of their small letters.
LEMMA SameIsFolded ==
  \A a, b : SameLetter(a, b) <=> toLower(a) = toLower(b)
BY DEF SameLetter

\* A search in progress reads within its texts.
LEMMA InvBounds == SearchInv => ReadsInBounds
BY Lengths DEF SearchInv, ReadsInBounds, Trying, LastStart

\* At the first start nothing was compared.
LEMMA SearchStarts == SearchInit => SearchInv
<1> SUFFICES ASSUME SearchInit PROVE SearchInv
  OBVIOUS
<1>1. /\ s \in Text /\ substr \in Word /\ i = 0 /\ j = 0
      /\ Len(s) \in Nat /\ Len(substr) \in Nat
  BY SearchAssumption DEF SearchInit
<1>2. CASE Len(s) < Len(substr)
  <2>1. 0 .. Len(s) - Len(substr) = {}
    BY <1>1, <1>2
  <2>2. found = "false"
    BY <1>2 DEF SearchInit
  <2> QED BY <1>1, <2>1, <2>2 DEF SearchInv, FindsEveryOccurrence
<1>3. CASE Len(s) >= Len(substr) /\ s = substr
  <2>1. found = "true"
    BY <1>1, <1>3 DEF SearchInit
  <2>2. 0 \in 0 .. Len(s) - Len(substr)
    BY <1>1, <1>3
  <2>3. \A m \in 1 .. Len(substr) : 0 + m = m
    BY <1>1
  <2>4. OccursAt(0)
    BY <1>3, <2>3 DEF OccursAt
  <2> QED BY <1>1, <2>1, <2>2, <2>4 DEF SearchInv, FindsEveryOccurrence
<1>4. CASE Len(s) >= Len(substr) /\ s # substr
  <2>1. found = "searching"
    BY <1>1, <1>4 DEF SearchInit
  <2> QED BY <1>1, <1>4, <2>1 DEF SearchInv, FindsEveryOccurrence, LastStart
<1> QED BY <1>1, <1>2, <1>3, <1>4

\* A byte that differs rules out its start, one that fits goes on.
LEMMA CompareIsSound == SearchInv /\ CompareByte => SearchInv'
<1> SUFFICES ASSUME SearchInv, CompareByte PROVE SearchInv'
  OBVIOUS
<1>1. /\ found = "searching" /\ i <= LastStart /\ j < Len(substr)
      /\ i \in Nat /\ j \in Nat
      /\ UNCHANGED <<s, substr, found, LastStart>>
  BY DEF CompareByte, Trying, SearchInv, LastStart
<1>2. Len(s) \in Nat /\ Len(substr) \in Nat /\ LastStart \in Int
  BY Lengths
<1>3. \A k : OccursAt(k)' <=> OccursAt(k)
  BY <1>1 DEF OccursAt
<1>4. CASE SameLetter(s[i + j + 1], substr[j + 1])
  <2>1. i' = i /\ j' = j + 1
    BY <1>4 DEF CompareByte
  <2>2. toLower(s[i + (j + 1)]) = toLower(substr[j + 1])
    <3>1. i + (j + 1) = i + j + 1
      BY <1>1
    <3> QED BY <1>4, <3>1, SameIsFolded
  <2>3. ASSUME NEW m \in 1 .. j + 1
        PROVE  toLower(s[i + m]) = toLower(substr[m])
    <3>1. CASE m = j + 1
      BY <2>2, <3>1
    <3>2. CASE m # j + 1
      <4>1. m \in 1 .. j
        BY <1>1, <3>2
      <4> QED BY <1>1, <4>1 DEF SearchInv
    <3> QED BY <3>1, <3>2
  <2> QED
    BY <1>1, <1>2, <1>3, <2>1, <2>3 DEF SearchInv, FindsEveryOccurrence
<1>5. CASE ~SameLetter(s[i + j + 1], substr[j + 1])
  <2>1. i' = i + 1 /\ j' = 0
    BY <1>5 DEF CompareByte
  <2>2. ~OccursAt(i)
    <3>1. i + (j + 1) = i + j + 1 /\ j + 1 \in 1 .. Len(substr)
      BY <1>1, <1>2
    <3> QED BY <1>5, <3>1, SameIsFolded DEF OccursAt
  <2>3. ASSUME NEW k \in 0 .. LastStart, k < i + 1 PROVE ~OccursAt(k)
    <3>1. CASE k = i
      BY <2>2, <3>1
    <3>2. CASE k # i
      BY <1>1, <2>3, <3>2 DEF SearchInv
    <3> QED BY <3>1, <3>2
  <2> QED
    BY <1>1, <1>2, <1>3, <2>1, <2>3 DEF SearchInv, FindsEveryOccurrence
<1> QED BY <1>4, <1>5

\* What is returned was found, or ruled out at every start.
LEMMA ReturnIsSound ==
  SearchInv /\ (ReturnFound \/ ReturnNotFound) => SearchInv'
<1> SUFFICES ASSUME SearchInv, ReturnFound \/ ReturnNotFound PROVE SearchInv'
  OBVIOUS
<1>1. found = "searching" /\ UNCHANGED <<s, substr, i, j>>
  BY DEF ReturnFound, ReturnNotFound, Trying
<1>2. \A k : OccursAt(k)' <=> OccursAt(k)
  BY <1>1 DEF OccursAt
<1>3. Len(s) \in Nat /\ Len(substr) \in Nat
  BY Lengths
<1>4. CASE ReturnFound
  <2>1. found' = "true" /\ j = Len(substr) /\ i <= LastStart
    BY <1>4 DEF ReturnFound, Trying
  <2>2. OccursAt(i) /\ i \in 0 .. Len(s) - Len(substr)
    BY <1>1, <1>3, <2>1 DEF SearchInv, OccursAt, LastStart
  <2> QED BY <1>1, <1>2, <2>1, <2>2 DEF SearchInv, FindsEveryOccurrence
<1>5. CASE ReturnNotFound
  <2>1. found' = "false" /\ i > LastStart
    BY <1>5 DEF ReturnNotFound
  <2>2. \A k \in 0 .. Len(s) - Len(substr) : ~OccursAt(k)
    BY <1>1, <1>3, <2>1 DEF SearchInv, LastStart
  <2> QED BY <1>1, <1>2, <2>1, <2>2 DEF SearchInv, FindsEveryOccurrence
<1> QED BY <1>4, <1>5

\* Every step of the search keeps the invariant.
LEMMA SearchKeeps == SearchInv /\ [SearchNext]_searchVars => SearchInv'
<1>1. SearchInv /\ UNCHANGED searchVars => SearchInv'
  BY DEF searchVars, SearchInv, FindsEveryOccurrence, OccursAt, LastStart
<1> QED BY <1>1, CompareIsSound, ReturnIsSound DEF SearchNext

\* No byte outside the texts is read, whatever their lengths.  (containsLower,
\* equalFoldAt.)
THEOREM SearchStaysInBounds == SearchSpec => []ReadsInBounds
BY SearchStarts, SearchKeeps, InvBounds, PTL DEF SearchSpec

\* The search decides whether the word occurs, whatever the texts.  (contains,
\* as mapVerificationErrorToV2 uses it.)
THEOREM SearchIsComplete == SearchSpec => []FindsEveryOccurrence
<1>1. SearchInv => FindsEveryOccurrence
  BY DEF SearchInv
<1> QED BY <1>1, SearchStarts, SearchKeeps, PTL DEF SearchSpec
=============================================================================
