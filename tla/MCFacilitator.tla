---------------------------- MODULE MCFacilitator ---------------------------
(***************************************************************************)
(* Instances of Facilitator for TLC: four transactions, and the commands   *)
(* of each run.                                                            *)
(***************************************************************************)
EXTENDS Purchase, PollingWindow, Isolation, TLC

\* The strings given for addresses: three that are, the last two because the
\* lengths are the limits, and three that are not.
MCShape ==
  [SPpayee |-> [prefix |-> "SP", length |-> 41],
   SPpayer |-> [prefix |-> "SP", length |-> 30],
   SPother |-> [prefix |-> "SP", length |-> 50],
   payee   |-> [prefix |-> "pa", length |-> 41],
   SPshort |-> [prefix |-> "SP", length |-> 29],
   SPlong  |-> [prefix |-> "SP", length |-> 51]]

TokenTransfer(network, amount) ==
  [network |-> network, tx_type |-> "token_transfer", sender |-> "SPpayer",
   recipient |-> "SPpayee", amount |-> amount, memo |-> "memo"]

Arg(name, value) == [name |-> name, value |-> value]

ContractCall(network, function, args) ==
  [network |-> network, tx_type |-> "contract_call", sender |-> "SPpayer",
   function |-> function, args |-> args]

\* stx pays natively on mainnet and sip through a contract on testnet;
\* free is a transfer without an amount, swap is none the parser accepts.
MCWire ==
  [stx  |-> TokenTransfer("mainnet", 2),
   sip  |-> ContractCall("testnet", "transfer",
              <<Arg("amount", 2), Arg("sender", "SPpayer"),
                Arg("to", "SPpayee")>>),
   free |-> ContractCall("mainnet", "transfer",
              <<Arg("recipient", "SPpayee")>>),
   swap |-> ContractCall("mainnet", "swap", <<Arg("amount", 2)>>)]

\* The request that stx satisfies.
Paid(op) ==
  [op |-> op, json |-> TRUE, version |-> 2, scheme |-> "exact",
   network |-> "stacks:1",
   signed |-> "stx", token |-> "STX", amount |-> 2, recipient |-> "SPpayee",
   sender |-> Absent, memo |-> Absent]

V1 == {"settleV1", "verifyV1"}
V2 == {"settleV2", "verifyV2"}
OnChainOp == V1 \cup {"settleV2"}

\* Requests about one payment that between them have every outcome.
Duplicates ==
  {Paid(op) : op \in OnChainOp \cup V2}
    \cup {[Paid(op) EXCEPT !.amount = 3] : op \in {"settleV2", "verifyV1"}}
    \cup {[Paid("verifyV2") EXCEPT !.recipient = "payee"]}

\* One departure at a time from the request that stx satisfies.
Variations(op) ==
  LET p == Paid(op)
  IN  {[p EXCEPT !.network = n] :
         n \in {"Mainnet", "testnet", "stacks:2147483648", "bitcoin", Absent}}
      \cup {[p EXCEPT !.signed = s] : s \in {Absent, "short", "garbage"}}
      \cup {[p EXCEPT !.amount = a] : a \in {0, 3, 4}}
      \cup {[p EXCEPT !.recipient = a] :
               a \in {"SPother", "payee", "SPshort", Absent}}
      \cup {[p EXCEPT !.token = k] : k \in {"sbtc", "DOGE"}}
      \cup {[p EXCEPT !.version = 1], [p EXCEPT !.scheme = "upto"],
            [p EXCEPT !.json = FALSE]}

Optional(op) ==
  LET p == Paid(op)
  IN  {[p EXCEPT !.sender = s] : s \in {"SPpayer", "SPother", "SPlong"}}
      \cup {[p EXCEPT !.memo = m] : m \in {"memo", "other"}}

\* What sip satisfies, by the short name of its network and by its CAIP-2 one.
PaidBySip(op) ==
  {[Paid(op) EXCEPT !.signed = "sip", !.token = "SBTC", !.network = n,
                    !.memo = m] :
     n \in {"testnet", "stacks:2147483648"}, m \in {Absent, ""}}

Everything ==
  UNION {Variations(op) \cup Optional(op) \cup PaidBySip(op) \cup {Paid(op)} :
           op \in OnChainOp \cup V2}

Requirements == UNION {Variations(op) \cup {Paid(op)} : op \in V2}

OddPayments ==
  {[Paid(op) EXCEPT !.signed = s, !.amount = 0] :
     op \in OnChainOp, s \in {"free", "swap"}}

\* Two transactions signed for one purchase; the first is also looked up.
Attempts ==
  {[Paid("settleV2") EXCEPT !.amount = 0],
   [Paid("verifyV1") EXCEPT !.amount = 0],
   [Paid("settleV1") EXCEPT !.signed = "free", !.amount = 0]}

Senders == {[Paid("settleV1") EXCEPT !.sender = "payee"]}
Tokens == {[Paid("settleV1") EXCEPT !.token = "SBTC"]}
Plain == {Paid("settleV1")}

RequestSymmetry == Permutations(Request)
=============================================================================
