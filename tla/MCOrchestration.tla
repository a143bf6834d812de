-------------------------- MODULE MCOrchestration --------------------------
(***************************************************************************)
(* Small instances of Orchestration: the graphs an orchestration is given. *)
(***************************************************************************)
EXTENDS Orchestration

CONSTANTS research, risk, missing, o1, o2, g1, g2, i1, i2, i3

MCSupports == [cap \in {"retrieval", "other"} |->
                 IF cap = "retrieval" THEN {research} ELSE {}]

S(id, agent, cap, deps) == [id |-> id, agent |-> agent, cap |-> cap, deps |-> deps]
Graph(mode, steps) == [mode |-> mode, steps |-> steps]

\* What build_default_graph makes, for an agent that may not be registered.
Chain(mode) == Graph(mode, <<S(i1, research, "retrieval", {}),
                             S(i2, missing, "other", {i1}),
                             S(i3, risk, "other", {i2})>>)
Open(mode) == Graph(mode, <<S(i1, AnyAgent, "retrieval", {}),
                            S(i2, risk, "other", {})>>)
Circle(mode) == Graph(mode, <<S(i1, research, "other", {i2}),
                              S(i2, AnyAgent, "other", {i1})>>)
\* Dependencies that do name agents.
ByName(mode) == Graph(mode, <<S(i1, risk, "other", {research}),
                              S(i2, research, "retrieval", {})>>)
\* An acyclic graph whose steps are not listed in the order they depend on.
Backwards(mode) == Graph(mode, <<S(i1, research, "other", {i2}),
                                 S(i2, risk, "other", {i3}),
                                 S(i3, research, "other", {})>>)

Modes == {"sequential", "parallel"}
OnePlan == [o \in {o1, o2} |-> g1]
Alone == [o \in {o1} |-> g1]

SharedGraphs == {Open(m) : m \in Modes}
AllGraphs == UNION {{Chain(m), Circle(m), ByName(m), Backwards(m)} : m \in Modes}
BackwardsGraphs == {Backwards("sequential")}
=============================================================================
