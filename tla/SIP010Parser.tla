----------------------------- MODULE SIP010Parser -----------------------------
(***************************************************************************)
(* The loop of parseSIP010Transfer over the arguments of a contract call,  *)
(* argument by argument with its local variables and early returns.  The   *)
(* other modules use the declarative reading of a call in Payments; this   *)
(* one shows that the loop computes it.                                    *)
(***************************************************************************)
EXTENDS Payments

CONSTANT Call  \* calls: a function and a sequence of named arguments

ASSUME ParserAssumption ==
  \A c \in Call : /\ Len(c.args) \in Nat
                  /\ DOMAIN c.args = 1 .. Len(c.args)

VARIABLES
  call,       \* the call that is parsed
  n,          \* the number of arguments the loop has taken
  recipient,  \* the local variables of the function
  amount,
  memo,
  result      \* "parsing", or what was returned: "ok" or "error"

parserVars == <<call, n, recipient, amount, memo, result>>

ParserInit ==
  /\ call \in Call
  /\ n = 0
  /\ recipient = Absent
  /\ amount = 0
  /\ memo = ""
  /\ result = IF call.function = "transfer" THEN "parsing" ELSE "error"

\* The loop takes its next argument, one of those names.
Takes(names) ==
  /\ result = "parsing"
  /\ n < Len(call.args)
  /\ call.args[n + 1].name \in names
  /\ n' = n + 1
  /\ UNCHANGED call

Value == call.args[n + 1].value

TakeAmount ==
  /\ Takes({"amount"})
  /\ IF Value \in Uint64
     THEN amount' = Value /\ UNCHANGED result
     ELSE result' = "error" /\ UNCHANGED amount
  /\ UNCHANGED <<recipient, memo>>

\* Mutant: the first of several recipients counts.
TakeRecipient_First ==
  /\ Takes(RecipientArg)
  /\ IF Value \in Address
     THEN /\ recipient' = IF recipient = Absent THEN Value ELSE recipient
          /\ UNCHANGED result
     ELSE result' = "error" /\ UNCHANGED recipient
  /\ UNCHANGED <<amount, memo>>

TakeRecipient ==
  /\ Takes(RecipientArg)
  /\ IF Value \in Address
     THEN recipient' = Value /\ UNCHANGED result
     ELSE result' = "error" /\ UNCHANGED recipient
  /\ UNCHANGED <<amount, memo>>

TakeMemo ==
  /\ Takes({"memo"})
  /\ memo' = Value
  /\ UNCHANGED <<recipient, amount, result>>

\* An argument of another name falls through the switch.
TakeOther ==
  /\ result = "parsing"
  /\ n < Len(call.args)
  /\ call.args[n + 1].name \notin {"amount", "memo"} \cup RecipientArg
  /\ n' = n + 1
  /\ UNCHANGED <<call, recipient, amount, memo, result>>

\* After the loop: a recipient that was never assigned is the zero address.
Finish ==
  /\ result = "parsing"
  /\ n = Len(call.args)
  /\ result' = IF recipient = Absent THEN "error" ELSE "ok"
  /\ UNCHANGED <<call, n, recipient, amount, memo>>

ParserNext ==
  TakeAmount \/ TakeRecipient \/ TakeMemo \/ TakeOther \/ Finish

ParserSpec == ParserInit /\ [][ParserNext]_parserVars

-----------------------------------------------------------------------------
AsWire ==
  [tx_type |-> "contract_call", function |-> call.function,
   args |-> call.args]

\* The loop accepts the calls that are declared parsable and returns, of each
\* argument given more than once, the last value; an early return refuses only
\* a call whose declared reading is refused whole, whatever comes later in it.
ParsesAsDeclared ==
  /\ result = "error" => ~ParsesSIP010Transfer(AsWire)
  /\ result = "ok" => /\ ParsesSIP010Transfer(AsWire)
                      /\ recipient = WireRecipient(AsWire)
                      /\ amount = WireAmount(AsWire)
                      /\ memo = WireMemo(AsWire)
=============================================================================
