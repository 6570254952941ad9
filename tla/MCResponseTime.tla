--------------------------- MODULE MCResponseTime ---------------------------
(***************************************************************************)
(* An instance of ResponseTime for TLC: a settlement and a verification of *)
(* one payment at once.                                                    *)
(***************************************************************************)
EXTENDS ResponseTime, MCFacilitator

OneOfEach == {Paid(op) : op \in OnChainOp \cup V2}
=============================================================================
