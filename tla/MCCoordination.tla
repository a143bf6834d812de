--------------------------- MODULE MCCoordination ---------------------------
(***************************************************************************)
(* Small instances of Coordination: one capability that two agents have,   *)
(* one of which comes and goes.                                            *)
(***************************************************************************)
EXTENDS Coordination

CONSTANTS research, risk

MCSupports == [cap \in {"retrieval"} |-> {research, risk}]

MCCalls == (Requests \X Positions) \cup Direct
=============================================================================
