------------------------------ MODULE Isolation ------------------------------
(***************************************************************************)
(* Requests do not notice one another except on the networks: whatever     *)
(* requests one looks at, they are served as by a facilitator that serves  *)
(* no others, over networks on which somebody else, a payer, submits what  *)
(* the others broadcast.  The handlers, the adapter and its clients are    *)
(* built once and hold nothing that a request changes.                     *)
(***************************************************************************)
EXTENDS Facilitator

\* The facilitator as the requests of S see it.
Among(S) ==
  INSTANCE Facilitator WITH
    Request   <- S,
    pc        <- [r \in S |-> pc[r]],
    cmd       <- [r \in S |-> cmd[r]],
    live      <- [r \in S |-> live[r]],
    attempt   <- [r \in S |-> attempt[r]],
    got       <- [r \in S |-> got[r]],
    answer    <- [r \in S |-> answer[r]],
    sent      <- [r \in S |-> sent[r]],
    fetches   <- [r \in S |-> fetches[r]],
    sighted   <- [r \in S |-> sighted[r]],
    onArrival <- [r \in S |-> onArrival[r]]

\* Some of the requests, not all: of all of them there is nothing to show.
Group == SUBSET Request \ {Request}

GroupsInit == \A S \in Group : Among(S)!Init

GroupsNext == \A S \in Group : UNCHANGED Among(S)!vars \/ Among(S)!Next

\* Every group of requests is served as if the facilitator served no others:
\* a step of another request is none of theirs, or a payer's submission: each
\* handler works on locals of its own, so that a claim about k requests needs
\* no more than k to be checked.  (Handle of the four command handlers, and
\* the loops of StacksClientAdapter.)
ServedAsIfAlone == GroupsInit /\ [][GroupsNext]_vars
=============================================================================
