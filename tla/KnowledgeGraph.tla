----------------------------- MODULE KnowledgeGraph -----------------------------
(***************************************************************************)
(* The knowledge graph (services/knowledge_graph): nodes and directed      *)
(* relationships in memory over a JSONL file, or in Postgres, and the      *)
(* analyses over them.  The file only grows; it is read when a service is  *)
(* built - at a start, and anew for each dashboard.  Nodes are numbered as *)
(* they are made: an entity extracted again is a node again, with the same  *)
(* type and name, which no analysis looks at.                              *)
(***************************************************************************)
EXTENDS Integers, FiniteSets, SequencesExt

CONSTANTS RelationKinds,
          MaxMentions,  \* bound: entities a text mentions
          MaxGraphNodes, MaxGraphRels, MaxLosses, \* bounds: nodes, relationships, failed writes
          MaxDepths     \* bound: the depth an analysis asks for

ASSUME GraphAssumption ==
  /\ IsFiniteSet(RelationKinds) /\ "relates_to" \in RelationKinds
  /\ {MaxMentions, MaxGraphNodes, MaxGraphRels, MaxLosses, MaxDepths} \subseteq Nat

VARIABLES backend,  \* "jsonl" or "postgres"
          graph,    \* what the API's service holds: [nodes, rels]
          onFile,   \* what the file or the database holds
          lost,     \* writes the file refused since it was last empty
          made      \* nodes made so far
graphVars == <<backend, graph, onFile, lost, made>>

Edge(from, to, kind) == [from |-> from, to |-> to, kind |-> kind]
EmptyGraph == [nodes |-> {}, rels |-> <<>>]

GraphInit ==
  /\ backend \in {"jsonl", "postgres"}
  /\ graph = EmptyGraph /\ onFile = EmptyGraph /\ lost = 0 /\ made = 0

-----------------------------------------------------------------------------
(* The store *)

With(g, nodes, rels) == [nodes |-> g.nodes \cup nodes, rels |-> g.rels \o rels]

\* Each item is put in memory and appended to the file; an error of the
\* append is swallowed.  kept: the items whose append succeeded.  Postgres
\* commits each item by itself, and the first error fails the request.
WriteGraph(nodes, rels, keptNodes, keptRels) ==
  /\ keptNodes \subseteq nodes /\ keptRels \in {<<>>, rels}
  /\ backend = "postgres" /\ keptNodes # nodes => keptRels = <<>>
  /\ made + Cardinality(nodes) <= MaxGraphNodes /\ Len(graph.rels) + Len(rels) <= MaxGraphRels
  /\ LET missed == Cardinality(nodes) - Cardinality(keptNodes) + Len(rels) - Len(keptRels)
     IN lost + missed <= MaxLosses /\ lost' = (IF backend = "jsonl" THEN lost + missed ELSE lost)
  /\ onFile' = With(onFile, keptNodes, keptRels)
  /\ graph' = IF backend = "postgres" THEN onFile' ELSE With(graph, nodes, rels)
  /\ made' = made + Cardinality(nodes)
  /\ UNCHANGED backend

NewNodes(n) == made + 1..made + n
Kept(nodes) ==
  IF backend = "jsonl" THEN SUBSET nodes
  ELSE {{n \in nodes : n <= last} : last \in made..made + Cardinality(nodes)}

AddNode == \E kept \in Kept(NewNodes(1)) : WriteGraph(NewNodes(1), <<>>, kept, <<>>)

\* The endpoint refuses a relationship of an unknown node.
AddRelationship(from, to, kind) ==
  /\ {from, to} \subseteq graph.nodes
  /\ \E kept \in {<<>>, <<Edge(from, to, kind)>>} : WriteGraph({}, <<Edge(from, to, kind)>>, {}, kept)

\* What a text gives: a node for each entity mentioned, then a relationship
\* for each keyword between the two nodes nearest to it; without a keyword
\* each node is related to the next one.
GraphChain(first, n) == [k \in 1..n - 1 |-> Edge(first + k - 1, first + k, "relates_to")]
EdgesAmong(ids) == [from: ids, to: ids, kind: RelationKinds]
FromText(first, n) ==
  IF n < 2 THEN {<<>>}
  ELSE {GraphChain(first, n)} \cup {<<e>> : e \in {e \in EdgesAmong(first..first + n - 1) : e.from # e.to}}

BuildGraph(mentions) ==
  \E rels \in FromText(made + 1, mentions), kept \in Kept(NewNodes(mentions)) :
    \E keptRels \in {<<>>, rels} : WriteGraph(NewNodes(mentions), rels, kept, keptRels)

\* The memory, then the file; an error of the file's removal is swallowed.
ResetMemory == graph # EmptyGraph /\ graph' = EmptyGraph /\ UNCHANGED <<backend, onFile, lost, made>>
ResetGraph ==
  /\ graph # EmptyGraph /\ graph' = EmptyGraph
  /\ \/ onFile' = EmptyGraph /\ lost' = 0
     \/ backend = "jsonl" /\ lost < MaxLosses /\ lost' = lost + 1 /\ UNCHANGED onFile
  /\ UNCHANGED <<backend, made>>

\* Reading the file looks at each line by itself: a relationship is taken
\* whether or not its nodes are there.
RestartGraph == graph # onFile /\ graph' = onFile /\ UNCHANGED <<backend, onFile, lost, made>>

-----------------------------------------------------------------------------
(* Analyses *)

\* Arrows are pairs of nodes: the relationships of some kinds, or turned round.
Arrows(rels, kinds) == {<<rels[k].from, rels[k].to>> : k \in {k \in DOMAIN rels : rels[k].kind \in kinds}}
Turned(arrows) == {<<a[2], a[1]>> : a \in arrows}
LeadsTo(arrows, ids) == {a[2] : a \in {a \in arrows : a[1] \in ids}}

\* impact_traversal goes on for as long as there is a queue: every node enters
\* it once.  The head is expanded unless it is at the depth asked for, each
\* relationship being taken both ways, and who is met for the first time is
\* affected.
Meet(t, id, depth) ==
  IF id \in t.seen THEN t
  ELSE [seen |-> t.seen \cup {id}, affected |-> Append(t.affected, id),
        queue |-> Append(t.queue, [id |-> id, depth |-> depth])]
MeetFrom(t, head, here, there) == IF head.id = here THEN Meet(t, there, head.depth + 1) ELSE t
AlongOneWay(t, head, rel, kinds) == \* mutant
  IF rel.kind \in kinds THEN MeetFrom(t, head, rel.from, rel.to) ELSE t
Along(t, head, rel, kinds) ==
  IF rel.kind \in kinds THEN MeetFrom(MeetFrom(t, head, rel.from, rel.to), head, rel.to, rel.from) ELSE t

Expand(rels, kinds, head, rest) ==
  LET met[k \in 0..Len(rels)] == IF k = 0 THEN rest ELSE Along(met[k - 1], head, rels[k], kinds)
  IN met[Len(rels)]

Look(rels, kinds, limit, s) ==
  LET head == Head(s.queue)
      rest == [s EXCEPT !.queue = Tail(s.queue)]
  IN IF head.depth >= limit THEN rest ELSE Expand(rels, kinds, head, rest)
LookOn(rels, kinds, limit, s) == IF s.queue = <<>> THEN s ELSE Look(rels, kinds, limit, s)

AtStart(start) == [seen |-> {start}, affected |-> <<>>, queue |-> <<[id |-> start, depth |-> 0]>>]
ImpactTraversal(g, start, limit, kinds) ==
  LET round[k \in 0..MaxGraphNodes] ==
        IF k = 0 THEN AtStart(start) ELSE LookOn(g.rels, kinds, limit, round[k - 1])
  IN round[MaxGraphNodes]

\* dependency_analysis: level by level one way; a node the store does not
\* know is not collected and not followed.
NextLevel(nodes, arrows, s) ==
  LET new == LeadsTo(arrows, s.last) \ s.seen
  IN [seen |-> s.seen \cup new, last |-> new \cap nodes, all |-> s.all \cup (new \cap nodes)]
AtRoot(root) == [seen |-> {root}, last |-> {root}, all |-> {}]
ChainOf(nodes, arrows, root, limit) ==
  LET level[d \in 0..limit] == IF d = 0 THEN AtRoot(root) ELSE NextLevel(nodes, arrows, level[d - 1])
  IN level[limit].all
Upstream(g, root, limit) == ChainOf(g.nodes, Turned(Arrows(g.rels, RelationKinds)), root, limit)
Downstream(g, root, limit) == ChainOf(g.nodes, Arrows(g.rels, RelationKinds), root, limit)

\* The depth-first search counts the relationships to a node it is still in.
\* It enters every node once, so what it has looked at stands for the indexes
\* on its stack.
Search(rels, s) ==
  LET top  == s.stack[Len(s.stack)]
      grey == IF top \in s.grey \cup s.black THEN s.grey ELSE s.grey \cup {top}
      out  == {k \in DOMAIN rels \ s.looked : rels[k].from = top}
      next == CHOOSE k \in out : \A j \in out : k <= j
      to   == rels[next].to
  IN IF out = {}
     THEN [s EXCEPT !.stack = SubSeq(s.stack, 1, Len(s.stack) - 1),
                    !.black = s.black \cup {top}, !.grey = grey \ {top}]
     ELSE [stack  |-> IF to \in grey \cup s.black THEN s.stack ELSE Append(s.stack, to),
           grey   |-> grey, black |-> s.black, looked |-> s.looked \cup {next},
           cycles |-> IF to \in grey THEN s.cycles + 1 ELSE s.cycles]

SearchOn(rels, s) == IF s.stack = <<>> THEN s ELSE Search(rels, s)

\* Each step looks at one more relationship or leaves one more node.
SearchFrom(rels, s, src) ==
  LET after[k \in 0..Len(rels) + MaxGraphNodes] ==
        IF k = 0 THEN [s EXCEPT !.stack = <<src>>] ELSE SearchOn(rels, after[k - 1])
  IN after[Len(rels) + MaxGraphNodes]

Visit(rels, s, src) == IF src \in s.grey \cup s.black THEN s ELSE SearchFrom(rels, s, src)
Unvisited == [stack |-> <<>>, grey |-> {}, black |-> {}, looked |-> {}, cycles |-> 0]
CyclesDetected(rels) ==
  LET visited[k \in 0..Len(rels)] ==
        IF k = 0 THEN Unvisited ELSE Visit(rels, visited[k - 1], rels[k].from)
  IN visited[Len(rels)].cycles

-----------------------------------------------------------------------------
GraphNext ==
  \/ AddNode
  \/ \E from, to \in graph.nodes, kind \in RelationKinds : AddRelationship(from, to, kind)
  \/ \E mentions \in 1..MaxMentions : BuildGraph(mentions)
  \/ ResetGraph \/ RestartGraph

GraphSpec == GraphInit /\ [][GraphNext]_graphVars

-----------------------------------------------------------------------------
GraphTypeOK ==
  /\ backend \in {"jsonl", "postgres"} /\ made \in 0..MaxGraphNodes /\ lost \in 0..MaxLosses
  /\ \A g \in {graph, onFile} :
       /\ g.nodes \subseteq 1..made
       /\ \A r \in ToSet(g.rels) : {r.from, r.to} \subseteq 1..made /\ r.kind \in RelationKinds

\* As long as the file took every write and every removal since it was last
\* empty, a restart - and the service each dashboard builds for itself - has
\* the graph the API has.
GraphOutlivesRestart == lost = 0 => onFile = graph

\* The nodes within "limit" arrows of the start.
Wider(arrows, ids) == ids \cup LeadsTo(arrows, ids)
Within(arrows, start, limit) ==
  LET reach[d \in 0..limit] == IF d = 0 THEN {start} ELSE Wider(arrows, reach[d - 1])
  IN reach[limit]

\* An impact traversal reaches exactly the nodes within the depth asked for,
\* along relationships of the kinds asked for taken either way, each once;
\* what depends on a node or what it depends on is among them; and a cycle
\* is reported exactly when relationships form one.
AnalysesAreExact ==
  /\ \A start \in graph.nodes, limit \in 1..MaxDepths, kinds \in {RelationKinds} \cup {{k} : k \in RelationKinds} :
       LET arrows == Arrows(graph.rels, kinds)
           found == ImpactTraversal(graph, start, limit, kinds)
       IN /\ found.seen = Within(arrows \cup Turned(arrows), start, limit)
          /\ ToSet(found.affected) = found.seen \ {start} /\ IsInjective(found.affected)
          /\ kinds = RelationKinds =>
               (Upstream(graph, start, limit) \cup Downstream(graph, start, limit)) \subseteq ToSet(found.affected)
  /\ CyclesDetected(graph.rels) > 0 <=>
       \E ring \in (SUBSET (1..made)) \ {{}} :
         \A id \in ring : LeadsTo(Arrows(graph.rels, RelationKinds), {id}) \cap ring # {}
=============================================================================
