------------------------------ MODULE MCScanning ------------------------------
(***************************************************************************)
(* The two loops over what the API and the verification service hand over, *)
(* the arguments of a call and the bytes of a message, on all small        *)
(* inputs: one runs while the other has nothing to do.                     *)
(***************************************************************************)
EXTENDS SIP010Parser, SubstringSearch

\* Calls of up to four arguments, with amounts on both sides of the width and
\* recipients that are addresses and that are not.
MCShape ==
  [SPa  |-> [prefix |-> "SP", length |-> 41],
   STb  |-> [prefix |-> "ST", length |-> 41],
   none |-> [prefix |-> "no", length |-> 41]]

Arg(names, values) == [name : names, value : values]

MCArg ==
  Arg({"amount"}, {1, MaxUint64, MaxUint64 + 1})
    \cup Arg({"recipient"}, {"SPa", "none"})
    \cup Arg({"to"}, {"STb"})
    \cup Arg({"memo"}, {"m1", "m2"})
    \cup Arg({"sender"}, {"SPa"})

NoTransfer == [function |-> "mint", args |-> << >>]

MCCall ==
  [function : {"transfer"}, args : UNION {[1 .. k -> MCArg] : k \in 0 .. 4}]
    \cup {NoTransfer}

\* Messages of up to five and words of up to three of the bytes 'A', 'a' and
\* 'B', and short ones of the bytes at the edges of the capitals.
Letters == {65, 97, 66}
Edges == {64, 90, 91, 122}

UpTo(length, bytes) == UNION {[1 .. k -> bytes] : k \in 0 .. length}

MCText == UpTo(5, Letters) \cup UpTo(2, Edges)
MCWord == UpTo(3, Letters) \cup UpTo(2, Edges)

\* One of the loops has an input that is finished at once.
ScanningInit ==
  \/ s = << >> /\ substr = << >> /\ SearchInit /\ ParserInit
  \/ call = NoTransfer /\ ParserInit /\ SearchInit

ScanningNext ==
  \/ ParserNext /\ UNCHANGED searchVars
  \/ SearchNext /\ UNCHANGED parserVars

ScanningSpec == ScanningInit /\ [][ScanningNext]_<<parserVars, searchVars>>
=============================================================================
