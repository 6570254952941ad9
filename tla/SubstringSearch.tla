--------------------------- MODULE SubstringSearch ----------------------------
(***************************************************************************)
(* The search that finds the v2 reason of a failure in its message:        *)
(* contains, with the two loops of containsLower and equalFoldAt.  Texts   *)
(* are sequences of bytes; their indices start at 1 here, at 0 there.      *)
(***************************************************************************)
EXTENDS Integers, Sequences

CONSTANTS Text,  \* the messages
          Word   \* the words searched for

ASSUME SearchAssumption ==
  /\ \A t \in Text : Len(t) \in Nat /\ DOMAIN t = 1 .. Len(t)
  /\ \A w \in Word : Len(w) \in Nat /\ DOMAIN w = 1 .. Len(w)

VARIABLES
  s, substr,  \* the arguments
  i,          \* the counter of containsLower: the start that is tried
  j,          \* the counter of equalFoldAt: how many bytes were compared
  found       \* "searching", or what contains returned

searchVars == <<s, substr, i, j, found>>

\* 'A' .. 'Z' to 'a' .. 'z', byte by byte: a letter beyond ASCII is no letter.
toLower(c) == IF c \in 65..90 THEN c + 32 ELSE c

\* Mutant: the comparison is exact.
SameLetter_Exact(c1, c2) == c1 = c2

SameLetter(c1, c2) == c1 = c2 \/ toLower(c1) = toLower(c2)

\* Mutant: the search goes on to where less than a word is left.
LastStart_End == Len(s)

LastStart == Len(s) - Len(substr)

SearchInit ==
  /\ s \in Text
  /\ substr \in Word
  /\ i = 0
  /\ j = 0
  /\ found = IF Len(s) < Len(substr) THEN "false"
             ELSE IF s = substr THEN "true"
             ELSE "searching"

Trying == found = "searching" /\ i <= LastStart

\* One round of equalFoldAt: the next byte fits, or the next start is tried.
CompareByte ==
  /\ Trying
  /\ j < Len(substr)
  /\ IF SameLetter(s[i + j + 1], substr[j + 1])
     THEN j' = j + 1 /\ UNCHANGED i
     ELSE i' = i + 1 /\ j' = 0
  /\ UNCHANGED <<s, substr, found>>

ReturnFound ==
  /\ Trying
  /\ j = Len(substr)
  /\ found' = "true"
  /\ UNCHANGED <<s, substr, i, j>>

ReturnNotFound ==
  /\ found = "searching"
  /\ i > LastStart
  /\ found' = "false"
  /\ UNCHANGED <<s, substr, i, j>>

SearchNext == CompareByte \/ ReturnFound \/ ReturnNotFound

SearchSpec == SearchInit /\ [][SearchNext]_searchVars

-----------------------------------------------------------------------------
\* No byte is read beyond the end of the message or of the word: the request
\* whose failure is being explained does not end in a panic.
ReadsInBounds ==
  Trying /\ j < Len(substr) =>
    i + j + 1 \in DOMAIN s /\ j + 1 \in DOMAIN substr

OccursAt(k) ==
  \A m \in 1 .. Len(substr) : toLower(s[k + m]) = toLower(substr[m])

\* The search says whether the word occurs anywhere, letter case aside: a
\* reason is missed, or found where there is none, by no shape of the message
\* (a word at its end, overlapping beginnings of it, one as long as the other).
FindsEveryOccurrence ==
  found # "searching" =>
    (found = "true" <=> \E k \in 0 .. Len(s) - Len(substr) : OccursAt(k))
=============================================================================
