---------------------------- MODULE ServingProofs ---------------------------
(*****************************************************************************)
(* Proofs about the parts that serve requests, for any number of workers,    *)
(* threads, requests and restarts.                                           *)
(*****************************************************************************)
EXTENDS Platform, KnowledgeGraph, Copilot, Analytics, KeywordIndex, AuditAgent,
        IntelligenceAgents, ChangeDetection, Induction, SequenceTheorems,
        FiniteSetTheorems, TLAPS

-----------------------------------------------------------------------------
(* Platform: a service bound at the start stays the only one.                *)

\* What a race for a service leaves alone.
PInstances ==
  /\ instance \in [Workers -> [Services -> (1..madeSoFar) \cup {Nobody}]]
  /\ boundTo \in [Workers -> [Services -> (1..madeSoFar) \cup {Nobody}]]
  /\ madeSoFar \in Nat
  /\ config \in Configs /\ provider \in [Workers -> ProviderNames]
  /\ step \in [Workers -> Steps] /\ todo \in [Workers -> SUBSET SeedFiles]
PThreads ==
  /\ asking \in [Workers -> [Threads -> Seq(Services)]]
  /\ held \in [Workers -> [Threads -> {<<>>} \cup (Services \X Nat)]]
  /\ \A w \in Workers, t \in Threads : Len(asking[w][t]) <= 2
PBuilt ==
  \A w \in Workers, s \in Services :
    boundTo[w][s] # Nobody => instance[w][s] = boundTo[w][s]
PIdle ==
  \A w \in Workers, t \in Threads : step[w] # "serving" => asking[w][t] = <<>> /\ held[w][t] = <<>>
PAsked ==
  \A w \in Workers, t \in Threads : \A i \in DOMAIN asking[w][t] :
    boundTo[w][asking[w][t][i]] = Nobody
PlatformInv == PInstances /\ PThreads /\ PBuilt /\ PIdle /\ PAsked /\ BoundServicesAreOne

\* The innermost service that a thread is asking for, and those around it.
LEMMA LastAndFront ==
  ASSUME NEW S, NEW q \in Seq(S), q # <<>>
  PROVE  /\ Len(q) \in DOMAIN q /\ q[Len(q)] \in S
         /\ SubSeq(q, 1, Len(q) - 1) \in Seq(S) /\ Len(SubSeq(q, 1, Len(q) - 1)) <= Len(q)
         /\ \A i \in DOMAIN SubSeq(q, 1, Len(q) - 1) :
              i \in DOMAIN q /\ SubSeq(q, 1, Len(q) - 1)[i] = q[i]
<1>1. Len(q) \in Nat \ {0} /\ DOMAIN q = 1..Len(q)
  BY EmptySeq, LenProperties
<1>2. \A i \in 1..Len(q) : q[i] \in S
  BY ElementOfSeq
<1> DEFINE m == Len(q) - 1
           front == SubSeq(q, 1, m)
<1>3. m \in Int /\ \A i \in 1..m : q[i] \in S
  BY <1>1, <1>2
<1>4. /\ front \in Seq(S)
      /\ Len(front) = IF 1 <= m THEN m - 1 + 1 ELSE 0
      /\ \A i \in 1..m - 1 + 1 : front[i] = q[1 + i - 1]
  BY <1>3, SubSeqProperties
<1>5. DOMAIN front = 1..Len(front)
  BY <1>4, LenProperties
<1> HIDE DEF front
<1>6. Len(front) = m /\ \A i \in 1..m : front[i] = q[i]
  <2>1. m \in Nat
    BY <1>1
  <2> HIDE DEF m
  <2>2. Len(front) = m /\ \A i \in 1..m : i \in 1..m - 1 + 1 /\ 1 + i - 1 = i
    BY <1>4, <2>1
  <2>3. QED
    BY <1>4, <2>2
<1>7. QED
  BY <1>1, <1>2, <1>4, <1>5, <1>6 DEF front

LEMMA PlatformInvInit == PlatformInit => PlatformInv
<1> SUFFICES ASSUME PlatformInit PROVE PlatformInv
  OBVIOUS
<1> USE DEF PlatformInit
<1>1. PInstances
  BY PlatformAssumption DEF PInstances, Configs, Steps, NoServices
<1>2. PThreads
  BY DEF PThreads
<1>3. PBuilt /\ PIdle /\ PAsked
  BY DEF PBuilt, PIdle, PAsked, NoServices
<1>4. BoundServicesAreOne
  BY DEF BoundServicesAreOne
<1>5. QED
  BY <1>1, <1>2, <1>3, <1>4 DEF PlatformInv

LEMMA PlatformBoot ==
  ASSUME PlatformInv, NEW w \in Workers, Boot(w)
  PROVE PlatformInv'
<1> USE DEF PlatformInv, Boot
<1>1. PInstances'
  BY DEF PInstances, Configs, Steps, ProviderNames
<1>2. PThreads'
  BY DEF PThreads
<1>3. PBuilt'
  BY DEF PBuilt, PInstances
<1>4. PIdle'
  BY DEF PIdle, PInstances
<1>5. PAsked' /\ BoundServicesAreOne'
  BY DEF PAsked, BoundServicesAreOne
<1>6. QED
  BY <1>1, <1>2, <1>3, <1>4, <1>5

LEMMA PlatformBind ==
  ASSUME PlatformInv, NEW w \in Workers, BindCrossModuleServices(w)
  PROVE PlatformInv'
<1> DEFINE number(s) == CHOOSE k \in DOMAIN BoundOnes : BoundOnes[k] = s
           builtFor(services) ==
             [s \in Services |-> IF s \in services THEN madeSoFar + number(s) ELSE Nobody]
           first(n) == {BoundOnes[k] : k \in 1..n}
<1> USE DEF PlatformInv
<1>1. PICK n \in 0..Len(BoundOnes) :
        /\ instance' = [instance EXCEPT ![w] = builtFor(first(n))]
        /\ boundTo' = [boundTo EXCEPT ![w] = IF n = Len(BoundOnes) THEN builtFor(first(n)) ELSE NoServices]
        /\ madeSoFar' = madeSoFar + n
  BY DEF BindCrossModuleServices, StartupServices
<1>2. step[w] = "starting" /\ step' = [step EXCEPT ![w] = "seeding"]
      /\ todo' = [todo EXCEPT ![w] =
           IF config.seed /\ \A f \in SeedFiles : corpus[f] = 0 THEN SeedFiles ELSE {}]
      /\ UNCHANGED <<config, provider, asking, held, corpus, workerCrashes>>
  BY DEF BindCrossModuleServices
<1>3. Len(BoundOnes) \in Nat /\ madeSoFar \in Nat /\ Nobody \notin Nat /\ n \in Nat
      /\ DOMAIN BoundOnes = 1..Len(BoundOnes)
  BY PlatformAssumption DEF PInstances
<1>3a. madeSoFar' = madeSoFar + n
  BY <1>1
<1>4. \A s \in first(n) : number(s) \in 1..n
  <2> SUFFICES ASSUME NEW k \in 1..n PROVE number(BoundOnes[k]) \in 1..n
    OBVIOUS
  <2>1. k \in DOMAIN BoundOnes
    BY <1>3
  <2>2. number(BoundOnes[k]) \in DOMAIN BoundOnes /\ BoundOnes[number(BoundOnes[k])] = BoundOnes[k]
    BY <2>1
  <2>3. number(BoundOnes[k]) = k
    BY <2>1, <2>2, PlatformAssumption
  <2>4. QED
    BY <2>3
<1> HIDE DEF number
<1>5. \A s \in first(n) : madeSoFar + number(s) \in 1..madeSoFar'
  BY <1>3a, <1>3, <1>4
<1> HIDE DEF first
<1>6. builtFor(first(n)) \in [Services -> (1..madeSoFar') \cup {Nobody}]
      /\ NoServices \in [Services -> (1..madeSoFar') \cup {Nobody}]
  BY <1>5 DEF NoServices
<1>7. \A x \in (1..madeSoFar) \cup {Nobody} : x \in (1..madeSoFar') \cup {Nobody}
  BY <1>3a, <1>3
<1>8. \A s \in Services : NoServices[s] = Nobody
  BY DEF NoServices
<1> DEFINE new == builtFor(first(n))
<1> HIDE DEF new
<1>9. /\ instance' = [instance EXCEPT ![w] = new]
      /\ boundTo' = [boundTo EXCEPT ![w] = IF n = Len(BoundOnes) THEN new ELSE NoServices]
      /\ new \in [Services -> (1..madeSoFar') \cup {Nobody}]
  BY <1>1, <1>6 DEF new
<1> HIDE DEF builtFor
<1>10. PInstances'
  <2>1. instance' \in [Workers -> [Services -> (1..madeSoFar') \cup {Nobody}]]
    BY <1>7, <1>9 DEF PInstances
  <2>2. boundTo' \in [Workers -> [Services -> (1..madeSoFar') \cup {Nobody}]]
    BY <1>6, <1>7, <1>9 DEF PInstances
  <2>3. madeSoFar' \in Nat
    BY <1>3a, <1>3
  <2>4. QED
    BY <1>2, <2>1, <2>2, <2>3 DEF PInstances, Steps
<1>11. PThreads'
  BY <1>2 DEF PThreads
<1>12. PBuilt'
  BY <1>8, <1>9 DEF PBuilt, PInstances
<1>13. PIdle'
  BY <1>2 DEF PIdle, PInstances
<1>14. PAsked'
  <2>1. \A t \in Threads : asking'[w][t] = <<>>
    BY <1>2 DEF PIdle
  <2>2. \A v \in Workers \ {w} : boundTo'[v] = boundTo[v]
    BY <1>9 DEF PInstances
  <2>3. QED
    BY <1>2, <2>1, <2>2 DEF PAsked
<1>15. BoundServicesAreOne'
  BY <1>2, <1>9 DEF BoundServicesAreOne, PIdle, PInstances
<1>16. QED
  BY <1>10, <1>11, <1>12, <1>13, <1>14, <1>15

LEMMA PlatformQuiet ==
  ASSUME PlatformInv, NEW w \in Workers, SeedDemoFile(w) \/ Serve(w)
  PROVE PlatformInv'
<1> USE DEF PlatformInv
<1>1. UNCHANGED <<config, provider, instance, boundTo, asking, held, madeSoFar>>
      /\ (step' = step \/ step' = [step EXCEPT ![w] = "serving"]) /\ step[w] = "seeding"
      /\ (todo' = todo \/ \E f \in todo[w] : todo' = [todo EXCEPT ![w] = @ \ {f}])
  BY DEF SeedDemoFile, Serve
<1>2. PInstances'
  BY <1>1 DEF PInstances, Steps
<1>3. PThreads' /\ PAsked' /\ BoundServicesAreOne'
  BY <1>1 DEF PThreads, PAsked, BoundServicesAreOne
<1>4. PBuilt' /\ PIdle'
  BY <1>1 DEF PBuilt, PIdle, PInstances
<1>5. QED
  BY <1>2, <1>3, <1>4

\* A thread only goes on to build what is missing, and nothing that the
\* start has built is.
LEMMA PlatformAsk ==
  ASSUME PlatformInv, NEW w \in Workers, NEW t \in Threads, AskService(w, t)
  PROVE PlatformInv'
<1> USE DEF PlatformInv
<1>1. PICK s \in Services :
        IF instance[w][s] # Nobody
        THEN held' = [held EXCEPT ![w][t] = <<s, instance[w][s]>>] /\ UNCHANGED asking
        ELSE /\ held' = [held EXCEPT ![w][t] = <<>>]
             /\ asking' = [asking EXCEPT ![w][t] =
                  IF Needs[s] # s /\ instance[w][Needs[s]] = Nobody
                  THEN <<s, Needs[s]>> ELSE <<s>>]
  BY DEF AskService
<1>2. step[w] = "serving"
      /\ UNCHANGED <<config, provider, step, todo, instance, boundTo, corpus, madeSoFar, workerCrashes>>
  BY DEF AskService
<1>3. PInstances' /\ PBuilt'
  BY <1>2 DEF PInstances, PBuilt
<1>4. Needs[s] \in Services
  BY PlatformAssumption
<1>5. ASSUME instance[w][s] # Nobody PROVE PThreads' /\ PIdle' /\ PAsked' /\ BoundServicesAreOne'
  <2>1. instance[w][s] \in Nat
    BY <1>5 DEF PInstances
  <2>2. held' = [held EXCEPT ![w][t] = <<s, instance[w][s]>>] /\ asking' = asking
    BY <1>1, <1>5
  <2>3. PThreads'
    BY <2>1, <2>2 DEF PThreads
  <2>4. PIdle' /\ PAsked'
    BY <1>2, <2>2 DEF PIdle, PAsked, PThreads
  <2>5. BoundServicesAreOne'
    BY <1>2, <2>2 DEF BoundServicesAreOne, PThreads, PBuilt
  <2>6. QED
    BY <2>3, <2>4, <2>5
<1>6. ASSUME instance[w][s] = Nobody PROVE PThreads' /\ PIdle' /\ PAsked' /\ BoundServicesAreOne'
  <2> DEFINE stack == IF Needs[s] # s /\ instance[w][Needs[s]] = Nobody THEN <<s, Needs[s]>> ELSE <<s>>
  <2>1. asking' = [asking EXCEPT ![w][t] = stack] /\ held' = [held EXCEPT ![w][t] = <<>>]
    BY <1>1, <1>6
  <2>2. stack \in Seq(Services) /\ Len(stack) <= 2
    BY <1>4
  <2>3. \A i \in DOMAIN stack : boundTo[w][stack[i]] = Nobody
    BY <1>4, <1>6 DEF PBuilt
  <2> HIDE DEF stack
  <2>4. PThreads'
    BY <2>1, <2>2 DEF PThreads
  <2>5. PIdle' /\ BoundServicesAreOne'
    BY <1>2, <2>1 DEF PIdle, BoundServicesAreOne, PThreads
  <2>6. PAsked'
    BY <1>2, <2>1, <2>3 DEF PAsked, PThreads
  <2>7. QED
    BY <2>4, <2>5, <2>6
<1>7. QED
  BY <1>3, <1>5, <1>6

LEMMA PlatformBuild ==
  ASSUME PlatformInv, NEW w \in Workers, NEW t \in Threads, BuildService(w, t)
  PROVE PlatformInv'
<1> DEFINE stack == asking[w][t]
           s     == stack[Len(stack)]
           new   == madeSoFar + 1
           rest  == SubSeq(stack, 1, Len(stack) - 1)
<1> USE DEF PlatformInv
<1>1. stack # <<>> /\ madeSoFar' = new /\ instance' = [instance EXCEPT ![w][s] = new]
      /\ asking' = [asking EXCEPT ![w][t] = rest]
      /\ held' = (IF rest = <<>> THEN [held EXCEPT ![w][t] = <<s, new>>] ELSE held)
      /\ UNCHANGED <<config, provider, step, todo, boundTo, corpus, workerCrashes>>
  BY DEF BuildService
<1>2. stack \in Seq(Services) /\ Len(stack) <= 2
  BY DEF PThreads
<1> HIDE DEF stack
<1>3. s \in Services /\ boundTo[w][s] = Nobody
  <2>1. Len(stack) \in DOMAIN stack /\ s \in Services
    BY <1>1, <1>2, LastAndFront
  <2>2. QED
    BY <2>1 DEF PAsked, stack
<1>4. rest \in Seq(Services) /\ Len(rest) <= 2
      /\ \A i \in DOMAIN rest : i \in DOMAIN stack /\ rest[i] = stack[i]
  BY <1>1, <1>2, LastAndFront
<1>5. step[w] = "serving"
  BY <1>1 DEF PIdle, stack
<1>6. new \in Nat /\ new # Nobody /\ madeSoFar \in Nat
  BY PlatformAssumption DEF PInstances
<1> HIDE DEF s, new, rest, stack
<1>7. PInstances'
  <2>1. \A x \in (1..madeSoFar) \cup {Nobody} : x \in (1..madeSoFar') \cup {Nobody}
    BY <1>1, <1>6 DEF new
  <2>2. new \in 1..madeSoFar'
    BY <1>1, <1>6 DEF new
  <2>3. instance' \in [Workers -> [Services -> (1..madeSoFar') \cup {Nobody}]]
    BY <1>1, <1>3, <2>1, <2>2 DEF PInstances
  <2>4. QED
    BY <1>1, <1>6, <2>1, <2>3 DEF PInstances
<1>8. PThreads'
  <2>1. asking' \in [Workers -> [Threads -> Seq(Services)]]
    BY <1>1, <1>4 DEF PThreads
  <2>2. held' \in [Workers -> [Threads -> {<<>>} \cup (Services \X Nat)]]
    BY <1>1, <1>3, <1>6 DEF PThreads
  <2>3. \A v \in Workers, u \in Threads : Len(asking'[v][u]) <= 2
    BY <1>1, <1>4 DEF PThreads
  <2>4. QED
    BY <2>1, <2>2, <2>3 DEF PThreads
<1>9. PBuilt'
  BY <1>1, <1>3, <1>6 DEF PBuilt, PInstances
<1>10. PIdle'
  BY <1>1, <1>5 DEF PIdle, PThreads
<1>11. PAsked'
  BY <1>1, <1>4 DEF PAsked, PThreads, stack
<1>12. BoundServicesAreOne'
  <2> SUFFICES ASSUME NEW v \in Workers, NEW u \in Threads, held'[v][u] # <<>>,
                      boundTo[v][held'[v][u][1]] # Nobody
               PROVE held'[v][u][2] = boundTo[v][held'[v][u][1]]
    BY <1>1 DEF BoundServicesAreOne
  <2>1. held'[v][u] = held[v][u] \/ (v = w /\ held'[v][u] = <<s, new>>)
    BY <1>1 DEF PThreads
  <2>2. held'[v][u] = held[v][u]
    BY <1>3, <2>1
  <2>3. QED
    BY <2>2 DEF BoundServicesAreOne
<1>13. QED
  BY <1>7, <1>8, <1>9, <1>10, <1>11, <1>12

LEMMA PlatformRaises ==
  ASSUME PlatformInv, NEW w \in Workers, NEW t \in Threads, BuildRaises(w, t)
  PROVE PlatformInv'
<1> USE DEF PlatformInv, BuildRaises
<1>1. PInstances' /\ PBuilt' /\ BoundServicesAreOne'
  BY DEF PInstances, PBuilt, BoundServicesAreOne
<1>2. PThreads'
  BY DEF PThreads
<1>3. PIdle' /\ PAsked'
  BY DEF PIdle, PAsked, PThreads
<1>4. QED
  BY <1>1, <1>2, <1>3

LEMMA PlatformCrashes ==
  ASSUME PlatformInv, NEW w \in Workers, WorkerCrash(w)
  PROVE PlatformInv'
<1> USE DEF PlatformInv, WorkerCrash
<1>1. PInstances'
  BY DEF PInstances, Configs, Steps, NoServices
<1>2. PThreads'
  BY DEF PThreads
<1>3. PBuilt' /\ PIdle' /\ PAsked'
  BY DEF PBuilt, PIdle, PAsked, PInstances, PThreads, NoServices
<1>4. BoundServicesAreOne'
  BY DEF BoundServicesAreOne, PInstances, PThreads, NoServices
<1>5. QED
  BY <1>1, <1>2, <1>3, <1>4

LEMMA PlatformStep == PlatformInv /\ [PlatformNext]_platformVars => PlatformInv'
<1> SUFFICES ASSUME PlatformInv, [PlatformNext]_platformVars PROVE PlatformInv'
  OBVIOUS
<1>1. ASSUME PlatformNext PROVE PlatformInv'
  BY <1>1, PlatformBoot, PlatformBind, PlatformQuiet, PlatformAsk, PlatformBuild, PlatformRaises,
     PlatformCrashes
  DEF PlatformNext
<1>2. ASSUME UNCHANGED platformVars PROVE PlatformInv'
  BY <1>2 DEF platformVars, PlatformInv, PInstances, PThreads, PBuilt, PIdle, PAsked,
              BoundServicesAreOne
<1>3. QED
  BY <1>1, <1>2

\* Type correctness of the services and of what every thread asks for.
THEOREM PlatformTypeCorrect == PlatformSpec => []PlatformTypeOK
<1>1. PlatformInv => PlatformTypeOK
  BY DEF PlatformInv, PInstances, PThreads, PlatformTypeOK
<1>2. QED
  BY <1>1, PlatformInvInit, PlatformStep, PTL DEF PlatformSpec

\* Whichever instance of a service a thread was given is the one that
\* bind_cross_module_services bound the administration to, if the binding did
\* not fail, though two threads may build any other service twice: for any
\* number of workers, threads and restarts.
THEOREM BoundServicesStayOne == PlatformSpec => []BoundServicesAreOne
<1>1. PlatformInv => BoundServicesAreOne
  BY DEF PlatformInv
<1>2. QED
  BY <1>1, PlatformInvInit, PlatformStep, PTL DEF PlatformSpec

-----------------------------------------------------------------------------
(* KnowledgeGraph: a restart finds what was not lost.                        *)

\* A graph over the first n nodes.
IsGraph(g, n) == g \in [nodes: SUBSET (1..n), rels: Seq(EdgesAmong(1..n))]

GraphInv ==
  /\ backend \in {"jsonl", "postgres"} /\ made \in 0..MaxGraphNodes /\ lost \in 0..MaxLosses
  /\ IsGraph(graph, made) /\ IsGraph(onFile, made)
  /\ GraphOutlivesRestart
  /\ backend = "postgres" => graph = onFile

\* An edge between nodes of a set.
LEMMA EdgeType ==
  ASSUME NEW ids, NEW from \in ids, NEW to \in ids, NEW kind \in RelationKinds
  PROVE  Edge(from, to, kind) \in EdgesAmong(ids)
BY DEF Edge, EdgesAmong

\* Adding nodes and edges.
LEMMA WithType ==
  ASSUME NEW m \in Nat, NEW n \in Nat, m <= n, NEW g, IsGraph(g, m),
         NEW nodes \in SUBSET (1..n), NEW rels \in Seq(EdgesAmong(1..n))
  PROVE  IsGraph(With(g, nodes, rels), n)
<1>1. g.nodes \in SUBSET (1..m) /\ g.rels \in Seq(EdgesAmong(1..m))
  BY DEF IsGraph
<1>2. 1..m \subseteq 1..n
  OBVIOUS
<1>3. EdgesAmong(1..m) \subseteq EdgesAmong(1..n)
  BY <1>2 DEF EdgesAmong
<1>4. g.rels \in Seq(EdgesAmong(1..n))
  BY <1>1, <1>3, SeqMonotonic
<1>5. g.rels \o rels \in Seq(EdgesAmong(1..n))
  BY <1>4, ConcatProperties
<1>6. QED
  BY <1>1, <1>2, <1>5 DEF With, IsGraph

\* A file that missed nothing has all that memory has.
LEMMA WriteGraphInv ==
  ASSUME GraphInv, NEW n \in Nat, NEW nodes, NEW rels \in Seq(EdgesAmong(1..made + n)),
         NEW kept, NEW keptRels,
         nodes \subseteq 1..made + n, IsFiniteSet(nodes), Cardinality(nodes) = n,
         WriteGraph(nodes, rels, kept, keptRels)
  PROVE  GraphInv'
<1> DEFINE missed == Cardinality(nodes) - Cardinality(kept) + Len(rels) - Len(keptRels)
<1>1. /\ kept \subseteq nodes /\ keptRels \in {<<>>, rels} /\ made + n <= MaxGraphNodes
      /\ lost + missed <= MaxLosses /\ lost' = IF backend = "jsonl" THEN lost + missed ELSE lost
      /\ onFile' = With(onFile, kept, keptRels)
      /\ graph' = IF backend = "postgres" THEN onFile' ELSE With(graph, nodes, rels)
      /\ made' = made + n /\ backend' = backend
  BY DEF WriteGraph
<1>2. made \in Nat /\ lost \in Nat /\ made' \in 0..MaxGraphNodes /\ MaxLosses \in Nat /\ MaxGraphNodes \in Nat
  BY <1>1, GraphAssumption DEF GraphInv
<1>3. Cardinality(kept) \in Nat /\ Cardinality(kept) <= n /\ (Cardinality(kept) = n => kept = nodes)
  <2>1. IsFiniteSet(kept)
    BY <1>1, FS_Subset
  <2>2. QED
    BY <1>1, <2>1, FS_Subset, FS_CardinalityType
<1>4. /\ keptRels \in Seq(EdgesAmong(1..made + n))
      /\ Len(rels) - Len(keptRels) \in Nat /\ (Len(rels) - Len(keptRels) = 0 => keptRels = rels)
  <2>1. CASE keptRels = <<>>
    BY <2>1, EmptySeq
  <2>2. CASE keptRels = rels
    BY <2>2, LenProperties
  <2>3. QED
    BY <1>1, <2>1, <2>2
<1>5. missed \in Nat /\ (missed = 0 => kept = nodes /\ keptRels = rels)
  <2> DEFINE a == n - Cardinality(kept)
             b == Len(rels) - Len(keptRels)
  <2>1. a \in Nat /\ b \in Nat /\ missed = a + b
    <3>1. Len(rels) \in Nat /\ Len(keptRels) \in Nat
      BY <1>4, LenProperties
    <3>2. QED
      BY <1>3, <1>4, <3>1
  <2> HIDE DEF missed, a, b
  <2>2. missed = 0 => a = 0 /\ b = 0
    BY <2>1
  <2>3. QED
    BY <1>3, <1>4, <2>1, <2>2 DEF a, b
<1> HIDE DEF missed
<1>6. lost' \in 0..MaxLosses /\ (lost' = 0 => lost = 0 /\ (backend = "jsonl" => missed = 0))
  BY <1>1, <1>2, <1>5 DEF GraphInv
<1>7. kept \in SUBSET (1..made') /\ nodes \in SUBSET (1..made')
  BY <1>1
<1>8. IsGraph(onFile', made')
  BY <1>1, <1>2, <1>4, <1>7, WithType DEF GraphInv
<1>9. IsGraph(graph', made')
  <2>1. IsGraph(With(graph, nodes, rels), made')
    BY <1>1, <1>2, <1>7, WithType DEF GraphInv
  <2>2. QED
    BY <1>1, <1>8, <2>1
<1>10. GraphOutlivesRestart'
  <2> SUFFICES ASSUME lost' = 0 PROVE onFile' = graph'
    BY DEF GraphOutlivesRestart
  <2>1. CASE backend = "postgres"
    BY <1>1, <2>1
  <2>2. CASE backend = "jsonl"
    <3>1. onFile = graph /\ kept = nodes /\ keptRels = rels
      BY <1>5, <1>6, <2>2 DEF GraphInv, GraphOutlivesRestart
    <3>2. QED
      BY <1>1, <2>2, <3>1
  <2>3. QED
    BY <2>1, <2>2 DEF GraphInv
<1>11. QED
  BY <1>1, <1>2, <1>6, <1>8, <1>9, <1>10 DEF GraphInv

\* The nodes that a request makes.
LEMMA NewNodesType ==
  ASSUME made \in Nat, NEW n \in Nat
  PROVE  /\ NewNodes(n) \subseteq 1..made + n
         /\ IsFiniteSet(NewNodes(n)) /\ Cardinality(NewNodes(n)) = n
<1>1. made + 1 \in Int /\ made + n \in Int
  OBVIOUS
<1>2. /\ IsFiniteSet(made + 1..made + n)
      /\ Cardinality(made + 1..made + n) = IF made + 1 > made + n THEN 0 ELSE made + n - (made + 1) + 1
  BY <1>1, FS_Interval
<1>3. QED
  BY <1>2 DEF NewNodes

\* The edges that a text yields connect its own nodes.
LEMMA FromTextType ==
  ASSUME NEW m \in Nat, NEW n \in Nat, NEW rels \in FromText(m + 1, n)
  PROVE  rels \in Seq(EdgesAmong(1..m + n))
<1> DEFINE ids == 1..m + n
<1>1. CASE rels = <<>>
  BY <1>1, EmptySeq
<1>2. CASE n >= 2 /\ rels = GraphChain(m + 1, n)
  <2>1. n - 1 \in Nat
    BY <1>2
  <2>2. \A k \in 1..n - 1 : m + 1 + k - 1 \in ids /\ m + 1 + k \in ids
    BY <1>2
  <2>3. \A k \in 1..n - 1 : Edge(m + 1 + k - 1, m + 1 + k, "relates_to") \in EdgesAmong(ids)
    BY <2>2, EdgeType, GraphAssumption
  <2>4. rels \in [1..n - 1 -> EdgesAmong(ids)]
    BY <1>2, <2>3 DEF GraphChain
  <2>5. QED
    BY <2>1, <2>4, SeqDef
<1>3. ASSUME n >= 2, NEW e \in EdgesAmong(m + 1..m + 1 + n - 1), rels = <<e>>
      PROVE  rels \in Seq(EdgesAmong(ids))
  <2>1. m + 1..m + 1 + n - 1 \subseteq ids
    OBVIOUS
  <2>2. e \in EdgesAmong(ids)
    BY <2>1 DEF EdgesAmong
  <2>3. QED
    BY <1>3, <2>2
<1>4. CASE n < 2
  BY <1>1, <1>4 DEF FromText
<1>5. CASE n >= 2
  <2>1. rels \in {GraphChain(m + 1, n)}
          \cup {<<e>> : e \in {e \in EdgesAmong(m + 1..m + 1 + n - 1) : e.from # e.to}}
    BY <1>5 DEF FromText
  <2>2. QED
    BY <1>2, <1>3, <1>5, <2>1
<1>6. QED
  BY <1>4, <1>5

LEMMA GraphInvInit == GraphInit => GraphInv
BY GraphAssumption, EmptySeq DEF GraphInit, GraphInv, EmptyGraph, IsGraph, GraphOutlivesRestart

LEMMA GraphInvStep == GraphInv /\ [GraphNext]_graphVars => GraphInv'
<1> SUFFICES ASSUME GraphInv, [GraphNext]_graphVars PROVE GraphInv'
  OBVIOUS
<1>1. made \in Nat
  BY DEF GraphInv
<1>2. ASSUME AddNode PROVE GraphInv'
  <2>1. PICK kept \in Kept(NewNodes(1)) : WriteGraph(NewNodes(1), <<>>, kept, <<>>)
    BY <1>2 DEF AddNode
  <2>2. <<>> \in Seq(EdgesAmong(1..made + 1))
    BY EmptySeq
  <2>3. QED
    BY <1>1, <2>1, <2>2, NewNodesType, WriteGraphInv
<1>3. ASSUME NEW from \in graph.nodes, NEW to \in graph.nodes, NEW kind \in RelationKinds,
             AddRelationship(from, to, kind)
      PROVE  GraphInv'
  <2> DEFINE rels == <<Edge(from, to, kind)>>
  <2>1. PICK kept \in {<<>>, rels} : WriteGraph({}, rels, {}, kept)
    BY <1>3 DEF AddRelationship
  <2>2. from \in 1..made /\ to \in 1..made
    BY DEF GraphInv, IsGraph
  <2>3. Edge(from, to, kind) \in EdgesAmong(1..made)
    BY <2>2, EdgeType
  <2>4. rels \in Seq(EdgesAmong(1..made + 0))
    BY <1>1, <2>3
  <2>5. IsFiniteSet({}) /\ Cardinality({}) = 0
    BY FS_EmptySet
  <2> HIDE DEF rels
  <2>6. QED
    BY <2>1, <2>4, <2>5, WriteGraphInv
<1>4. ASSUME NEW mentions \in 1..MaxMentions, BuildGraph(mentions) PROVE GraphInv'
  <2>1. mentions \in Nat
    BY GraphAssumption
  <2>2. PICK rels \in FromText(made + 1, mentions), kept \in Kept(NewNodes(mentions)) :
          \E keptRels \in {<<>>, rels} : WriteGraph(NewNodes(mentions), rels, kept, keptRels)
    BY <1>4 DEF BuildGraph
  <2>3. rels \in Seq(EdgesAmong(1..made + mentions))
    BY <1>1, <2>1, FromTextType
  <2>4. QED
    BY <1>1, <2>1, <2>2, <2>3, NewNodesType, WriteGraphInv
<1>5. ASSUME ResetGraph PROVE GraphInv'
  <2>1. IsGraph(EmptyGraph, made)
    BY EmptySeq DEF IsGraph, EmptyGraph
  <2>2. backend \in {"jsonl", "postgres"} /\ made \in 0..MaxGraphNodes /\ lost \in 0..MaxLosses /\ MaxLosses \in Nat
    BY GraphAssumption DEF GraphInv
  <2>3. CASE onFile' = EmptyGraph /\ lost' = 0
    BY <1>5, <2>1, <2>2, <2>3 DEF ResetGraph, GraphInv, GraphOutlivesRestart
  <2>4. CASE backend = "jsonl" /\ lost < MaxLosses /\ lost' = lost + 1 /\ UNCHANGED onFile
    BY <1>5, <2>1, <2>2, <2>4 DEF ResetGraph, GraphInv, GraphOutlivesRestart
  <2>5. QED
    BY <1>5, <2>3, <2>4 DEF ResetGraph
<1>6. ASSUME RestartGraph \/ UNCHANGED graphVars PROVE GraphInv'
  BY <1>6 DEF RestartGraph, graphVars, GraphInv, GraphOutlivesRestart
<1>7. QED
  BY <1>2, <1>3, <1>4, <1>5, <1>6 DEF GraphNext

\* Type correctness of the graph in memory and on file.
THEOREM GraphTypeCorrect == GraphSpec => []GraphTypeOK
<1>1. ASSUME NEW g, NEW n, IsGraph(g, n)
      PROVE  /\ g.nodes \subseteq 1..n
             /\ \A r \in ToSet(g.rels) : {r.from, r.to} \subseteq 1..n /\ r.kind \in RelationKinds
  <2>1. g.nodes \in SUBSET (1..n) /\ g.rels \in Seq(EdgesAmong(1..n))
    BY <1>1 DEF IsGraph
  <2>2. \A k \in DOMAIN g.rels : g.rels[k] \in EdgesAmong(1..n)
    BY <2>1, LenProperties
  <2>3. QED
    BY <2>1, <2>2 DEF ToSet, EdgesAmong
<1>2. GraphInv => GraphTypeOK
  BY <1>1 DEF GraphInv, GraphTypeOK
<1>3. QED
  BY <1>2, GraphInvInit, GraphInvStep, PTL DEF GraphSpec

\* As long as the file took every write, a restart finds the graph that was
\* held (KnowledgeGraphService over its JSON-lines file or over Postgres):
\* for any number of nodes, texts and restarts.
THEOREM RestartsKeepTheGraph == GraphSpec => []GraphOutlivesRestart
<1>1. GraphInv => GraphOutlivesRestart
  BY DEF GraphInv
<1>2. QED
  BY <1>1, GraphInvInit, GraphInvStep, PTL DEF GraphSpec

-----------------------------------------------------------------------------
(* Copilot: a memory stays with its user and its conversation.               *)

\* A file whose lines are of these ids; a piece is there only after a loss.
FileOK(file, most) ==
  /\ DOMAIN file = {"lines", "cut", "losses"} /\ DOMAIN file.lines = 1..most
  /\ file.cut \in BOOLEAN /\ file.losses \in 0..MaxLostCalls
  /\ file.cut => file.losses # 0

\* Appends, with "may" for whether another call may fail.
Outcomes(file, meant, parts, may) ==
  {IF file.cut THEN file ELSE [file EXCEPT !.lines = meant]} \cup
  {[lines |-> IF file.cut THEN file.lines ELSE lines, cut |-> file.cut \/ cut, losses |-> file.losses + 1] :
     lines \in IF may THEN parts ELSE {}, cut \in BOOLEAN}

\* What a call leaves of a file, and what it leaves if no append ever failed.
FileAfter(file, meant, parts, most, file2) ==
  /\ FileOK(file2, most) /\ file2.lines \in {file.lines, meant} \cup parts
  /\ file2.losses = 0 => file.losses = 0 /\ file2.lines = meant

\* What appends of one call leave of a file, whichever of them fail.
LEMMA OutcomeOK ==
  ASSUME NEW most, NEW file, FileOK(file, most), NEW meant, DOMAIN meant = 1..most,
         NEW parts, \A l \in parts : DOMAIN l = 1..most,
         NEW may \in BOOLEAN, may => file.losses < MaxLostCalls,
         NEW file2 \in Outcomes(file, meant, parts, may)
  PROVE  FileAfter(file, meant, parts, most, file2)
<1>1. MaxLostCalls \in Nat
  BY CopilotAssumption
<1>2. CASE file2 = file /\ file.cut
  BY <1>2 DEF FileOK, FileAfter
<1>3. CASE ~file.cut /\ file2 = [file EXCEPT !.lines = meant]
  <2>1. DOMAIN file2 = {"lines", "cut", "losses"} /\ file2.lines = meant
        /\ file2.cut = file.cut /\ file2.losses = file.losses
    BY <1>3 DEF FileOK
  <2>2. QED
    BY <2>1 DEF FileOK, FileAfter
<1>4. ASSUME may, NEW l \in parts, NEW cut \in BOOLEAN,
             file2 = [lines |-> IF file.cut THEN file.lines ELSE l, cut |-> file.cut \/ cut,
                      losses |-> file.losses + 1]
      PROVE  FileAfter(file, meant, parts, most, file2)
  <2>1. DOMAIN file2 = {"lines", "cut", "losses"} /\ file2.cut \in BOOLEAN
        /\ file2.lines = IF file.cut THEN file.lines ELSE l
    BY <1>4
  <2>2. file2.losses = file.losses + 1
    BY <1>4
  <2>3. file.losses \in 0..MaxLostCalls /\ file.losses < MaxLostCalls
    BY <1>4 DEF FileOK
  <2>4. file2.losses \in 0..MaxLostCalls /\ file2.losses # 0
    BY <1>1, <2>2, <2>3
  <2>5. file2.lines \in {file.lines, l} /\ DOMAIN file2.lines = 1..most
    BY <2>1 DEF FileOK
  <2>6. QED
    BY <2>1, <2>4, <2>5 DEF FileOK, FileAfter
<1>5. QED
  BY <1>2, <1>3, <1>4 DEF Outcomes

\* Whether another call may fail.
Lossy == conversationFile.losses + memoryFile.losses < MaxLostCalls

LEMMA AppendsAre ==
  ASSUME NEW meant, NEW parts
  PROVE  /\ Appends(conversationFile, meant, parts) = Outcomes(conversationFile, meant, parts, Lossy)
         /\ Appends(memoryFile, meant, parts) = Outcomes(memoryFile, meant, parts, Lossy)
BY DEF Appends, Outcomes, Lossy

FilesOK == FileOK(conversationFile, MaxConversations) /\ FileOK(memoryFile, MaxMemories)

\* The bound on failing calls is one for both files.
LEMMA LossyOK ==
  ASSUME FilesOK
  PROVE  /\ Lossy \in BOOLEAN
         /\ Lossy => conversationFile.losses < MaxLostCalls /\ memoryFile.losses < MaxLostCalls
<1>1. conversationFile.losses \in Nat /\ memoryFile.losses \in Nat /\ MaxLostCalls \in Nat
  BY CopilotAssumption DEF FilesOK, FileOK
<1>2. QED
  BY <1>1 DEF Lossy

\* Appends to the file of the conversations.
LEMMA ConversationAppends ==
  ASSUME FilesOK, NEW meant, DOMAIN meant = Conversations,
         NEW parts, \A l \in parts : DOMAIN l = Conversations,
         conversationFile' \in Appends(conversationFile, meant, parts)
  PROVE  FileAfter(conversationFile, meant, parts, MaxConversations, conversationFile')
BY AppendsAre, LossyOK, OutcomeOK DEF FilesOK, Conversations

\* Appends to the file of the memories.
LEMMA MemoryAppends ==
  ASSUME FilesOK, NEW meant, DOMAIN meant = Memories,
         NEW parts, \A l \in parts : DOMAIN l = Memories,
         memoryFile' \in Appends(memoryFile, meant, parts)
  PROVE  FileAfter(memoryFile, meant, parts, MaxMemories, memoryFile')
BY AppendsAre, LossyOK, OutcomeOK DEF FilesOK, Memories

-----------------------------------------------------------------------------
(* Conversations *)

\* Only what was begun is there.
OnlyBegun(lines, n) == \A c \in DOMAIN lines : lines[c] # Absent => c \in 1..n
Agree(store, file) == file.losses = 0 => \A id \in DOMAIN store : store[id] # Absent => file.lines[id] = store[id]

ConversationsOK ==
  /\ FileOK(conversationFile, MaxConversations) /\ DOMAIN conversations = Conversations
  /\ begun \in Nat
  /\ OnlyBegun(conversations, begun) /\ OnlyBegun(conversationFile.lines, begun)
  /\ Agree(conversations, conversationFile)
ConversationsStep == ConversationsOK' /\ begun <= begun'

Put(lines, id, r) == [lines EXCEPT ![id] = r]

\* One conversation is saved, the whole of it or an earlier part.
LEMMA SavedConversation ==
  ASSUME FilesOK, ConversationsOK, NEW c \in Conversations, NEW r, NEW parts,
         \A l \in parts : l = conversationFile.lines \/ \E x : l = Put(conversationFile.lines, c, x),
         FileAfter(conversationFile, Put(conversationFile.lines, c, r), parts, MaxConversations,
                   conversationFile'),
         begun' \in Nat, begun <= begun', c \in 1..begun',
         conversations' \in {Put(conversations, c, r), conversationFile'.lines}
  PROVE  ConversationsStep
<1> DEFINE old == conversationFile.lines
           new == conversationFile'.lines
<1>1. DOMAIN old = Conversations /\ DOMAIN conversations = Conversations
  BY DEF ConversationsOK, FileOK, Conversations
<1>2. FileOK(conversationFile', MaxConversations) /\ DOMAIN new = Conversations
  BY DEF FileAfter, FileOK, Conversations
<1>3. new = old \/ \E x : new = Put(old, c, x)
  BY DEF FileAfter
<1>4. \A id : id \in 1..begun => id \in 1..begun'
  BY DEF ConversationsOK
<1>5. OnlyBegun(new, begun')
  BY <1>1, <1>2, <1>3, <1>4 DEF ConversationsOK, OnlyBegun, Put
<1>6. OnlyBegun(Put(conversations, c, r), begun') /\ DOMAIN Put(conversations, c, r) = Conversations
  BY <1>1, <1>4 DEF ConversationsOK, OnlyBegun, Put
<1>7. Agree(Put(conversations, c, r), conversationFile')
  <2> SUFFICES ASSUME conversationFile'.losses = 0, NEW id \in Conversations,
                      Put(conversations, c, r)[id] # Absent
               PROVE  new[id] = Put(conversations, c, r)[id]
    BY <1>6 DEF Agree
  <2>1. conversationFile.losses = 0 /\ new = Put(old, c, r)
    BY DEF FileAfter
  <2>2. CASE id = c
    BY <1>1, <2>1, <2>2 DEF Put
  <2>3. CASE id # c
    BY <1>1, <2>1, <2>3 DEF Put, ConversationsOK, Agree
  <2>4. QED
    BY <2>2, <2>3
<1>8. Agree(new, conversationFile')
  BY DEF Agree
<1>9. QED
  BY <1>2, <1>5, <1>6, <1>7, <1>8 DEF ConversationsStep, ConversationsOK

\* A conversation that was begun is saved.
LEMMA KeptConversation ==
  ASSUME FilesOK, ConversationsOK, NEW c \in Conversations, NEW r, KeepConversation(c, r),
         begun' \in Nat, begun <= begun', c \in 1..begun'
  PROVE  ConversationsStep
<1> DEFINE old == conversationFile.lines
<1>1. DOMAIN old = Conversations
  BY DEF ConversationsOK, FileOK, Conversations
<1>2. DOMAIN Put(old, c, r) = Conversations
  BY <1>1 DEF Put
<1>3. conversationFile' \in Appends(conversationFile, Put(old, c, r), {old})
      /\ conversations' = Put(conversations, c, r)
  BY DEF KeepConversation, AppendRecord, Put
<1>4. FileAfter(conversationFile, Put(old, c, r), {old}, MaxConversations, conversationFile')
  BY <1>1, <1>2, <1>3, ConversationAppends
<1>5. QED
  BY <1>3, <1>4, SavedConversation

\* A deletion leaves the file alone.
LEMMA DroppedConversations ==
  ASSUME ConversationsOK, UNCHANGED <<conversationFile, begun>>, DOMAIN conversations' = Conversations,
         \A c \in Conversations : conversations'[c] \in {conversations[c], Absent}
  PROVE  ConversationsStep
<1>1. OnlyBegun(conversations', begun')
  BY DEF ConversationsOK, OnlyBegun
<1>2. Agree(conversations', conversationFile')
  BY DEF ConversationsOK, Agree
<1>3. begun <= begun' /\ begun' \in Nat
  BY DEF ConversationsOK
<1>4. QED
  BY <1>1, <1>2, <1>3 DEF ConversationsOK, ConversationsStep

\* Nothing happens to the conversations.
LEMMA SameConversations ==
  ASSUME ConversationsOK, UNCHANGED <<conversations, conversationFile, begun>>
  PROVE  ConversationsStep
BY DroppedConversations DEF ConversationsOK

\* What is held was begun.
LEMMA HeldConversation ==
  ASSUME ConversationsOK, NEW c \in Held(conversations)
  PROVE  c \in Conversations /\ c \in 1..begun /\ begun \in Nat /\ begun <= begun
BY DEF ConversationsOK, Held, OnlyBegun

\* A conversation is begun.
LEMMA BegunConversation ==
  ASSUME FilesOK, ConversationsOK, NEW person, NEW ttl, BeginConversation(person, ttl)
  PROVE  ConversationsStep
<1>1. begun \in Nat /\ begun < MaxConversations /\ begun' = begun + 1 /\ MaxConversations \in Nat
  BY CopilotAssumption DEF BeginConversation, ConversationsOK
<1>2. begun + 1 \in Conversations /\ begun + 1 \in 1..begun' /\ begun' \in Nat /\ begun <= begun'
  BY <1>1 DEF Conversations
<1>3. QED
  BY <1>2, KeptConversation DEF BeginConversation

\* A call of the endpoints of conversations.
LEMMA ConversationCallStep ==
  ASSUME FilesOK, ConversationsOK, ConversationCall
  PROVE  ConversationsStep
<1>1. ASSUME NEW c \in Held(conversations), UNCHANGED begun, NEW r, KeepConversation(c, r)
      PROVE  ConversationsStep
  BY <1>1, HeldConversation, KeptConversation
<1>2. ASSUME NEW c \in Held(conversations), UNCHANGED begun,
             \/ \E role \in Roles : KeepConversation(c, WithMessages(c, <<Message(role, "api")>>))
             \/ \E keep \in 1..Len(conversations[c].messages) : Trim(c, keep)
             \/ RefreshSummary(c)
             \/ KeepConversation(c, [conversations[c] EXCEPT !.archived = TRUE])
      PROVE  ConversationsStep
  <2>1. \E r : KeepConversation(c, r)
    BY <1>2 DEF Trim, RefreshSummary
  <2>2. QED
    BY <1>1, <1>2, <2>1
<1>3. ASSUME UNCHANGED begun, PurgeConversations PROVE ConversationsStep
  BY <1>3, DroppedConversations DEF PurgeConversations
<1>4. ASSUME NEW c \in Held(conversations), UNCHANGED begun, Forget(c) PROVE ConversationsStep
  <2>1. DOMAIN conversations' = Conversations
        /\ \A k \in Conversations : conversations'[k] \in {conversations[k], Absent}
    BY <1>4 DEF Forget, ConversationsOK
  <2>2. QED
    BY <1>4, <2>1, DroppedConversations DEF Forget
<1>5. QED
  BY <1>2, <1>3, <1>4, BegunConversation DEF ConversationCall

\* Both messages of a turn, the first alone, or no effect.
LEMMA WriteTurnStep ==
  ASSUME FilesOK, ConversationsOK, NEW q, WriteTurn(q)
  PROVE  ConversationsStep
<1> DEFINE c   == asks[q].conversation
           old == conversationFile.lines
           one == WithMessages(c, Question(q))
           two == WithMessages(c, Turn(q))
<1>1. CASE c \notin Held(conversations)
  BY <1>1, SameConversations DEF WriteTurn, conversationStore
<1>2. CASE c \in Held(conversations)
  <2>1. conversations' = Put(conversations, c, two) /\ begun' = begun
        /\ conversationFile' \in Appends(conversationFile, Put(old, c, two), {old, Put(old, c, one)})
    BY <1>2 DEF WriteTurn, WithLine, Put
  <2>2. c \in Conversations /\ c \in 1..begun /\ begun \in Nat /\ begun <= begun
    BY <1>2, HeldConversation
  <2> HIDE DEF c, one, two
  <2>3. DOMAIN old = Conversations
    BY DEF ConversationsOK, FileOK, Conversations
  <2>4. \A x : DOMAIN Put(old, c, x) = Conversations
    BY <2>3 DEF Put
  <2>5. FileAfter(conversationFile, Put(old, c, two), {old, Put(old, c, one)}, MaxConversations,
                  conversationFile')
    BY <2>1, <2>3, <2>4, ConversationAppends
  <2>6. QED
    BY <2>1, <2>2, <2>5, SavedConversation
<1>3. QED
  BY <1>1, <1>2

\* A request continues a conversation or begins one.
LEMMA GetOrCreateStep ==
  ASSUME FilesOK, ConversationsOK, NEW person, NEW given, NEW c, GetOrCreate(person, given, c)
  PROVE  ConversationsStep
BY BegunConversation, SameConversations DEF GetOrCreate, conversationStore

\* A start reads what is on file.
LEMMA ReloadConversations ==
  ASSUME ConversationsOK, UNCHANGED <<conversationFile, begun>>, conversations' = conversationFile'.lines
  PROVE  ConversationsStep
<1>1. OnlyBegun(conversations', begun') /\ DOMAIN conversations' = Conversations
  BY DEF ConversationsOK, FileOK, Conversations
<1>2. Agree(conversations', conversationFile')
  BY DEF Agree
<1>3. begun <= begun' /\ begun' \in Nat
  BY DEF ConversationsOK
<1>4. QED
  BY <1>1, <1>2, <1>3 DEF ConversationsOK, ConversationsStep

\* The process ends while a turn is written.
LEMMA CrashInTurnConversations ==
  ASSUME FilesOK, ConversationsOK, NEW q, CrashInTurn(q)
  PROVE  ConversationsStep
<1> DEFINE c   == asks[q].conversation
           old == conversationFile.lines
           one == WithMessages(c, Question(q))
<1>1. c \in Held(conversations) /\ conversations' = conversationFile'.lines /\ begun' = begun
      /\ conversationFile' \in {conversationFile} \cup Appends(conversationFile, Put(old, c, one), {old})
  BY DEF CrashInTurn, Reload, WithLine, Put
<1>2. c \in Conversations /\ c \in 1..begun /\ begun \in Nat /\ begun <= begun
  BY <1>1, HeldConversation
<1> HIDE DEF c, one
<1>3. DOMAIN old = Conversations /\ DOMAIN Put(old, c, one) = Conversations
  BY DEF ConversationsOK, FileOK, Conversations, Put
<1>4. CASE conversationFile' = conversationFile
  BY <1>1, <1>4, ReloadConversations
<1>5. CASE conversationFile' \in Appends(conversationFile, Put(old, c, one), {old})
  <2>1. FileAfter(conversationFile, Put(old, c, one), {old}, MaxConversations, conversationFile')
    BY <1>3, <1>5, ConversationAppends
  <2>2. QED
    BY <1>1, <1>2, <2>1, SavedConversation
<1>6. QED
  BY <1>1, <1>4, <1>5

-----------------------------------------------------------------------------
(* Memories *)

MemoryRecords ==
  [type : {"short_term", "long_term", "retrieval"}, user : Askers, conversation : Conversations \cup {0},
   ttl : BOOLEAN, pinned : BOOLEAN, from : SUBSET Memories]

\* What a memory rests on was recorded, of the same conversation and user.
RestsOn(rec, from, person, c) ==
  /\ from \subseteq DOMAIN rec
  /\ \A e \in from : rec[e].conversation = c /\ (person \in People => rec[e].user = person)

RecordedOK ==
  /\ recorded \in Seq(MemoryRecords) /\ Len(recorded) <= MaxMemories
  /\ \A m \in DOMAIN recorded :
       RestsOn(recorded, recorded[m].from, recorded[m].user, recorded[m].conversation)

Original(rec, m, r) ==
  /\ r \in MemoryRecords /\ m \in DOMAIN rec
  /\ r.user = rec[m].user /\ r.conversation = rec[m].conversation /\ r.from = rec[m].from
Originals(rec, lines) == \A m \in DOMAIN lines : lines[m] # Absent => Original(rec, m, lines[m])

MemoriesOK ==
  /\ FileOK(memoryFile, MaxMemories) /\ DOMAIN memories = Memories
  /\ Originals(recorded, memories) /\ Originals(recorded, memoryFile.lines)
  /\ Agree(memories, memoryFile)

\* No memory is ever taken away from its user or its conversation.
Grows(rec, rec2) == \A m \in DOMAIN rec : m \in DOMAIN rec2 /\ rec2[m] = rec[m]
MemoriesStep == RecordedOK' /\ MemoriesOK' /\ Grows(recorded, recorded')

\* What rests on recorded memories goes on to do so.
LEMMA RestsOnGrows ==
  ASSUME NEW rec, NEW rec2, Grows(rec, rec2), NEW from, NEW person, NEW c, RestsOn(rec, from, person, c)
  PROVE  RestsOn(rec2, from, person, c)
BY DEF Grows, RestsOn

\* What is as recorded stays so when more is recorded.
LEMMA OriginalsGrow ==
  ASSUME NEW rec, NEW rec2, Grows(rec, rec2), NEW lines, Originals(rec, lines)
  PROVE  Originals(rec2, lines)
BY DEF Grows, Originals, Original

\* Nothing is recorded.
LEMMA SameRecorded ==
  ASSUME RecordedOK, recorded' = recorded
  PROVE  RecordedOK' /\ Grows(recorded, recorded')
BY DEF RecordedOK, Grows

\* A memory is recorded that rests on recorded ones.
LEMMA MoreRecorded ==
  ASSUME RecordedOK, NEW r \in MemoryRecords, RestsOn(recorded, r.from, r.user, r.conversation),
         Len(recorded) + 1 \in Memories, recorded' = Append(recorded, r)
  PROVE  /\ RecordedOK' /\ Grows(recorded, recorded')
         /\ Original(recorded', Len(recorded) + 1, r)
<1> DEFINE n == Len(recorded)
<1>1. recorded \in Seq(MemoryRecords) /\ n \in Nat /\ n <= MaxMemories /\ MaxMemories \in Nat
  BY CopilotAssumption, LenProperties DEF RecordedOK
<1>2. /\ recorded' \in Seq(MemoryRecords) /\ Len(recorded') = n + 1
      /\ \A i \in 1..n : recorded'[i] = recorded[i]
      /\ recorded'[n + 1] = r
  BY <1>1, AppendProperties
<1>3. DOMAIN recorded = 1..n /\ DOMAIN recorded' = 1..n + 1
  BY <1>1, <1>2, LenProperties
<1> HIDE DEF n
<1>4. n + 1 \in 1..MaxMemories /\ n + 1 <= MaxMemories /\ n + 1 \in 1..n + 1
  <2>1. n + 1 \in 1..MaxMemories
    BY DEF n, Memories
  <2>2. QED
    BY <1>1, <2>1
<1>5. Grows(recorded, recorded')
  <2>1. \A i \in 1..n : i \in 1..n + 1
    BY <1>1
  <2>2. QED
    BY <1>2, <1>3, <2>1 DEF Grows
<1>6. ASSUME NEW m \in DOMAIN recorded'
      PROVE  RestsOn(recorded', recorded'[m].from, recorded'[m].user, recorded'[m].conversation)
  <2>1. CASE m \in DOMAIN recorded
    <3>1. RestsOn(recorded, recorded[m].from, recorded[m].user, recorded[m].conversation)
      BY <2>1 DEF RecordedOK
    <3>2. RestsOn(recorded', recorded[m].from, recorded[m].user, recorded[m].conversation)
      BY <1>5, <3>1, RestsOnGrows
    <3>3. QED
      BY <1>5, <2>1, <3>2 DEF Grows
  <2>2. CASE m = n + 1
    <3>1. RestsOn(recorded', r.from, r.user, r.conversation)
      BY <1>5, RestsOnGrows
    <3>2. QED
      BY <1>2, <2>2, <3>1
  <2>3. m \in 1..n \/ m = n + 1
    BY <1>1, <1>3, <1>6
  <2>4. QED
    BY <1>3, <2>1, <2>2, <2>3
<1>7. RecordedOK'
  BY <1>2, <1>4, <1>6 DEF RecordedOK
<1>8. Original(recorded', n + 1, r)
  BY <1>2, <1>3, <1>4 DEF Original
<1>9. QED
  BY <1>5, <1>7, <1>8 DEF n

\* One memory is saved.
LEMMA SavedMemory ==
  ASSUME FilesOK, MemoriesOK, RecordedOK', Grows(recorded, recorded'),
         NEW m \in Memories, NEW r, Original(recorded', m, r),
         memoryFile' \in AppendRecord(memoryFile, m, r),
         memories' \in {Put(memories, m, r), memoryFile'.lines}
  PROVE  MemoriesStep
<1> DEFINE old == memoryFile.lines
           new == memoryFile'.lines
<1>1. DOMAIN old = Memories /\ DOMAIN memories = Memories
  BY DEF MemoriesOK, FileOK, Memories
<1>2. DOMAIN Put(old, m, r) = Memories /\ memoryFile' \in Appends(memoryFile, Put(old, m, r), {old})
  BY <1>1 DEF AppendRecord, Put
<1>3. FileAfter(memoryFile, Put(old, m, r), {old}, MaxMemories, memoryFile')
  BY <1>1, <1>2, MemoryAppends
<1>4. FileOK(memoryFile', MaxMemories) /\ DOMAIN new = Memories /\ new \in {old, Put(old, m, r)}
  BY <1>3 DEF FileAfter, FileOK, Memories
<1>5. Originals(recorded', old) /\ Originals(recorded', memories)
  BY OriginalsGrow DEF MemoriesOK
<1>6. Originals(recorded', Put(old, m, r)) /\ Originals(recorded', Put(memories, m, r))
  BY <1>1, <1>5 DEF Originals, Put
<1>7. Originals(recorded', new)
  BY <1>4, <1>5, <1>6
<1>8. DOMAIN Put(memories, m, r) = Memories
  BY <1>1 DEF Put
<1>9. Agree(Put(memories, m, r), memoryFile')
  <2> SUFFICES ASSUME memoryFile'.losses = 0, NEW id \in Memories, Put(memories, m, r)[id] # Absent
               PROVE  new[id] = Put(memories, m, r)[id]
    BY <1>8 DEF Agree
  <2>1. memoryFile.losses = 0 /\ new = Put(old, m, r)
    BY <1>3 DEF FileAfter
  <2>2. CASE id = m
    BY <1>1, <2>1, <2>2 DEF Put
  <2>3. CASE id # m
    BY <1>1, <2>1, <2>3 DEF Put, MemoriesOK, Agree
  <2>4. QED
    BY <2>2, <2>3
<1>10. Agree(new, memoryFile')
  BY DEF Agree
<1>11. QED
  BY <1>4, <1>6, <1>7, <1>8, <1>9, <1>10 DEF MemoriesStep, MemoriesOK

\* A memory is recorded, held and appended.
LEMMA RecordedMemory ==
  ASSUME FilesOK, MemoriesOK, RecordedOK, NEW r \in MemoryRecords,
         RestsOn(recorded, r.from, r.user, r.conversation), RecordMemory(r)
  PROVE  MemoriesStep
<1> DEFINE m == Len(recorded) + 1
<1>1. m \in Memories
  <2>1. Len(recorded) \in Nat /\ MaxMemories \in Nat
    BY CopilotAssumption, LenProperties DEF RecordedOK
  <2>2. QED
    BY <2>1 DEF RecordMemory, Memories
<1>2. RecordedOK' /\ Grows(recorded, recorded') /\ Original(recorded', m, r)
  BY <1>1, MoreRecorded DEF RecordMemory
<1>3. memoryFile' \in AppendRecord(memoryFile, m, r) /\ memories' = Put(memories, m, r)
  BY DEF RecordMemory, KeepMemory, Put
<1> HIDE DEF m
<1>4. QED
  BY <1>1, <1>2, <1>3, SavedMemory

\* Memories may be deleted, or read again from the file.
LEMMA DroppedMemories ==
  ASSUME MemoriesOK, RecordedOK, UNCHANGED <<memoryFile, recorded>>, DOMAIN memories' = Memories,
         \/ \A m \in Memories : memories'[m] \in {memories[m], Absent}
         \/ memories' = memoryFile.lines
  PROVE  MemoriesStep
<1>1. RecordedOK' /\ Grows(recorded, recorded')
  BY SameRecorded
<1>2. Originals(recorded', memories')
  BY DEF MemoriesOK, Originals
<1>3. Agree(memories', memoryFile')
  BY DEF MemoriesOK, Agree
<1>4. QED
  BY <1>1, <1>2, <1>3 DEF MemoriesOK, MemoriesStep

\* Nothing happens to the memories.
LEMMA SameMemories ==
  ASSUME MemoriesOK, RecordedOK, UNCHANGED <<memories, memoryFile, recorded>>
  PROVE  MemoriesStep
BY DroppedMemories DEF MemoriesOK

\* A search saves what it finds as it is.
LEMMA FoundMemories ==
  ASSUME FilesOK, MemoriesOK, RecordedOK, NEW found, found \subseteq Held(memories), SaveFound(found)
  PROVE  MemoriesStep
<1> DEFINE old == memoryFile.lines
           new == memoryFile'.lines
           with(saved) == [m \in Memories |-> IF m \in saved THEN memories[m] ELSE old[m]]
           parts == {with(saved) : saved \in SUBSET found}
<1>1. memoryFile' \in Appends(memoryFile, with(found), parts) /\ UNCHANGED <<memories, recorded>>
  BY DEF SaveFound
<1>2. DOMAIN old = Memories /\ DOMAIN memories = Memories
  BY DEF MemoriesOK, FileOK, Memories
<1>3. \A l \in parts : DOMAIN l = Memories
  OBVIOUS
<1>4. DOMAIN with(found) = Memories
  OBVIOUS
<1>5. \A saved : Originals(recorded, with(saved))
  BY <1>2 DEF MemoriesOK, Originals
<1>6. \A id \in Memories : with(found)[id] = IF id \in found THEN memories[id] ELSE old[id]
  OBVIOUS
<1>7. \A l \in parts : \E saved : l = with(saved)
  OBVIOUS
<1> HIDE DEF with, parts
<1>8. FileAfter(memoryFile, with(found), parts, MaxMemories, memoryFile')
  BY <1>1, <1>3, <1>4, MemoryAppends
<1>9. FileOK(memoryFile', MaxMemories) /\ new \in {old, with(found)} \cup parts
  BY <1>8 DEF FileAfter
<1>10. Originals(recorded', new)
  BY <1>1, <1>5, <1>7, <1>9 DEF MemoriesOK
<1>11. Agree(memories', memoryFile')
  <2> SUFFICES ASSUME memoryFile'.losses = 0, NEW id \in Memories, memories[id] # Absent
               PROVE  new[id] = memories[id]
    BY <1>1, <1>2 DEF Agree
  <2>1. memoryFile.losses = 0 /\ new = with(found)
    BY <1>8 DEF FileAfter
  <2>2. old[id] = memories[id]
    BY <1>2, <2>1 DEF MemoriesOK, Agree
  <2>3. QED
    BY <1>6, <2>1, <2>2
<1>12. RecordedOK' /\ Grows(recorded, recorded')
  BY <1>1, SameRecorded
<1>13. Originals(recorded', memories') /\ DOMAIN memories' = Memories
  BY <1>1 DEF MemoriesOK
<1>14. QED
  BY <1>9, <1>10, <1>11, <1>12, <1>13 DEF MemoriesStep, MemoriesOK

\* A call of the endpoints of memories.
LEMMA MemoryCallStep ==
  ASSUME FilesOK, MemoriesOK, RecordedOK, MemoryCall
  PROVE  MemoriesStep
<1>1. DOMAIN memories = Memories /\ \A m \in Held(memories) : m \in Memories /\ Original(recorded, m, memories[m])
  BY DEF MemoriesOK, Originals, Held
<1>2. ASSUME NEW person \in Askers, NEW c \in Conversations \cup {0}, NEW r \in RecordedTurn(person, c),
             RecordMemory(r)
      PROVE  MemoriesStep
  <2>1. r \in MemoryRecords /\ r.from = {}
    <3>1. {} \in SUBSET Memories
      OBVIOUS
    <3>2. ASSUME NEW type \in {"short_term", "long_term", "retrieval"}, NEW k \in Conversations \cup {0},
                 NEW ttl \in BOOLEAN, NEW pinned \in BOOLEAN
          PROVE  Memory(type, person, k, ttl, pinned, {}) \in MemoryRecords
                 /\ Memory(type, person, k, ttl, pinned, {}).from = {}
      BY <3>1 DEF Memory, MemoryRecords
    <3>3. \E type \in {"short_term", "long_term", "retrieval"}, k \in Conversations \cup {0},
             ttl \in BOOLEAN, pinned \in BOOLEAN : r = Memory(type, person, k, ttl, pinned, {})
      BY DEF RecordedTurn
    <3>4. QED
      BY <3>2, <3>3
  <2>2. RestsOn(recorded, r.from, r.user, r.conversation)
    BY <2>1 DEF RestsOn
  <2>3. QED
    BY <1>2, <2>1, <2>2, RecordedMemory
<1>3. ASSUME NEW m \in Held(memories), NEW pinned \in BOOLEAN,
             KeepMemory(m, [memories[m] EXCEPT !.pinned = pinned]), UNCHANGED recorded
      PROVE  MemoriesStep
  <2> DEFINE r == [memories[m] EXCEPT !.pinned = pinned]
  <2>1. memories[m] \in MemoryRecords /\ Original(recorded, m, memories[m])
    BY <1>1 DEF Original
  <2>2. r \in MemoryRecords /\ r.user = memories[m].user /\ r.conversation = memories[m].conversation
        /\ r.from = memories[m].from
    BY <2>1 DEF MemoryRecords
  <2>3. KeepMemory(m, r)
    BY <1>3
  <2> HIDE DEF r
  <2>4. Original(recorded', m, r)
    BY <1>3, <2>1, <2>2 DEF Original
  <2>5. memoryFile' \in AppendRecord(memoryFile, m, r) /\ memories' = Put(memories, m, r)
    BY <2>3 DEF KeepMemory, Put
  <2>6. RecordedOK' /\ Grows(recorded, recorded')
    BY <1>3, SameRecorded
  <2>7. QED
    BY <1>1, <2>4, <2>5, <2>6, SavedMemory
<1>4. ASSUME NEW found \in SUBSET Shown, SaveFound(found) PROVE MemoriesStep
  BY <1>4, FoundMemories DEF Shown
<1>5. ASSUME NEW m \in Held(memories), memories' = [memories EXCEPT ![m] = Absent],
             UNCHANGED <<memoryFile, recorded>>
      PROVE  MemoriesStep
  <2>1. DOMAIN memories' = Memories /\ \A k \in Memories : memories'[k] \in {memories[k], Absent}
    BY <1>1, <1>5
  <2>2. QED
    BY <1>5, <2>1, DroppedMemories
<1>6. ASSUME PurgeMemories PROVE MemoriesStep
  <2>1. DOMAIN memories' = Memories /\ \A k \in Memories : memories'[k] \in {memories[k], Absent}
    BY <1>6 DEF PurgeMemories
  <2>2. QED
    BY <1>6, <2>1, DroppedMemories DEF PurgeMemories
<1>7. QED
  BY <1>2, <1>3, <1>4, <1>5, <1>6 DEF MemoryCall

-----------------------------------------------------------------------------
(* Requests to the copilot *)

AskFields == {"stage", "person", "conversation", "from", "reported"}
AskOK(ask, rec) ==
  /\ DOMAIN ask = AskFields /\ ask.person \in Askers /\ ask.conversation \in Conversations \cup {0}
  /\ RestsOn(rec, ask.from, ask.person, ask.conversation)

AsksOK == DOMAIN asks = CopilotQueries /\ \A q \in CopilotQueries : AskOK(asks[q], recorded)

ExpiredOK ==
  /\ DOMAIN expired = {"conversations", "memories"}
  /\ expired.conversations \subseteq 1..begun /\ expired.memories \subseteq DOMAIN recorded

CopilotInv == ConversationsOK /\ MemoriesOK /\ RecordedOK /\ AsksOK /\ ExpiredOK

\* Both files are files.
LEMMA InvFilesOK == ASSUME CopilotInv PROVE FilesOK
BY DEF CopilotInv, ConversationsOK, MemoriesOK, FilesOK

\* A request goes on for whom and about what it was made.
AsksGoOn ==
  /\ DOMAIN asks' = CopilotQueries
  /\ \A q \in CopilotQueries :
       /\ DOMAIN asks'[q] = AskFields /\ asks'[q].person = asks[q].person
       /\ asks'[q].from = asks[q].from /\ asks'[q].conversation = asks[q].conversation

\* Requests that go on keep what they rest on.
LEMMA AsksStay ==
  ASSUME AsksOK, AsksGoOn, Grows(recorded, recorded')
  PROVE  AsksOK'
<1> SUFFICES ASSUME NEW q \in CopilotQueries PROVE AskOK(asks'[q], recorded')
  BY DEF AsksOK, AsksGoOn
<1>1. RestsOn(recorded, asks[q].from, asks[q].person, asks[q].conversation)
  BY DEF AsksOK, AskOK
<1>2. RestsOn(recorded', asks[q].from, asks[q].person, asks[q].conversation)
  BY <1>1, RestsOnGrows
<1>3. QED
  BY <1>2 DEF AsksOK, AskOK, AsksGoOn

\* A request begins with memories of its own user.
LEMMA NewAsk ==
  ASSUME AsksOK, NEW q \in CopilotQueries, NEW r, AskOK(r, recorded),
         asks' = [asks EXCEPT ![q] = r], recorded' = recorded
  PROVE  AsksOK'
BY DEF AsksOK

\* Requests stay as they are.
LEMMA UnchangedAsks == ASSUME AsksOK, asks' = asks PROVE AsksGoOn
BY DEF AsksOK, AskOK, AsksGoOn

\* A restart ends the requests under way.
LEMMA LostAsks == ASSUME AsksOK, asks' = Lost PROVE AsksGoOn
<1> SUFFICES ASSUME NEW p \in CopilotQueries
             PROVE  /\ DOMAIN asks'[p] = AskFields /\ asks'[p].person = asks[p].person
                    /\ asks'[p].from = asks[p].from /\ asks'[p].conversation = asks[p].conversation
  BY DEF Lost, AsksGoOn
<1> DEFINE asksLost == [asks[p] EXCEPT !.stage = "lost"]
<1>1. asks'[p] = asksLost \/ asks'[p] = asks[p]
  BY DEF Lost
<1>2. DOMAIN asks[p] = AskFields
  BY DEF AsksOK, AskOK
<1>3. DOMAIN asksLost = AskFields /\ asksLost.person = asks[p].person
      /\ asksLost.from = asks[p].from /\ asksLost.conversation = asks[p].conversation
  BY <1>2 DEF AskFields
<1> HIDE DEF asksLost
<1>4. QED
  BY <1>1, <1>2, <1>3

\* A request goes to its next stage.
LEMMA StepGoesOn ==
  ASSUME AsksOK, NEW q \in CopilotQueries, NEW stage, NEW reported,
         asks' \in {[asks EXCEPT ![q].stage = stage],
                    [asks EXCEPT ![q].stage = stage, ![q].reported = reported]}
  PROVE  AsksGoOn
<1>1. CASE asks' = [asks EXCEPT ![q].stage = stage]
  BY <1>1 DEF AsksOK, AskOK, AsksGoOn, AskFields
<1>2. CASE asks' = [asks EXCEPT ![q].stage = stage, ![q].reported = reported]
  BY <1>2 DEF AsksOK, AskOK, AsksGoOn, AskFields
<1>3. QED
  BY <1>1, <1>2

\* What was begun and recorded stays so.
LEMMA ExpiredStays ==
  ASSUME ExpiredOK, ConversationsOK, ConversationsStep, Grows(recorded, recorded'), expired' = expired
  PROVE  ExpiredOK'
<1>1. begun \in Nat /\ begun' \in Nat /\ begun <= begun'
  BY DEF ConversationsOK, ConversationsStep
<1>2. 1..begun \subseteq 1..begun' /\ DOMAIN recorded \subseteq DOMAIN recorded'
  BY <1>1 DEF Grows
<1>3. QED
  BY <1>2 DEF ExpiredOK

LEMMA Carried ==
  ASSUME CopilotInv, ConversationsStep, MemoriesStep, AsksGoOn, expired' = expired
  PROVE  CopilotInv'
<1>1. AsksOK'
  BY AsksStay DEF CopilotInv, MemoriesStep
<1>2. ExpiredOK'
  BY ExpiredStays DEF CopilotInv, MemoriesStep
<1>3. QED
  BY <1>1, <1>2 DEF CopilotInv, ConversationsStep, MemoriesStep

\* The memories found for a request are of its user and its conversation.
LEMMA FoundAreOwn ==
  ASSUME MemoriesOK, NEW person \in Askers, NEW c, NEW strong \in Strong(person, c)
  PROVE  RestsOn(recorded, strong, person, c)
<1> SUFFICES ASSUME NEW e \in strong
             PROVE  /\ e \in DOMAIN recorded /\ recorded[e].conversation = c
                    /\ person \in People => recorded[e].user = person
  BY DEF RestsOn
<1>1. e \in Remembered(person, c)
  BY DEF Strong
<1>2. e \in Held(memories) /\ OfUser(e, person) /\ memories[e].conversation = c
  BY <1>1 DEF Remembered, Shown
<1>3. Original(recorded, e, memories[e])
  BY <1>2 DEF MemoriesOK, Originals, Held
<1>4. QED
  BY <1>2, <1>3, CopilotAssumption DEF OfUser, Original

Asked(stage, person, c, from) ==
  [NoAsk EXCEPT !.stage = stage, !.person = person, !.conversation = c, !.from = from]

\* A request as it is made.
LEMMA AskedOK ==
  ASSUME NEW stage, NEW person \in Askers, NEW c \in Conversations, NEW from, RestsOn(recorded, from, person, c)
  PROVE  AskOK(Asked(stage, person, c, from), recorded)
<1> DEFINE r == Asked(stage, person, c, from)
<1>1. DOMAIN r = AskFields /\ r.person = person /\ r.conversation = c /\ r.from = from
  BY DEF Asked, NoAsk, AskFields
<1> HIDE DEF r
<1>2. AskOK(r, recorded)
  BY <1>1 DEF AskOK
<1>3. QED
  BY <1>2 DEF r

\* A request up to its first await.
LEMMA AskCopilotInv ==
  ASSUME CopilotInv, NEW q \in CopilotQueries, NEW person \in Askers, NEW given, AskCopilot(q, person, given)
  PROVE  CopilotInv'
<1>1. PICK c \in Conversations, inMode \in CopilotModes, useMemory \in BOOLEAN, carried \in BOOLEAN :
        /\ asks[q].stage = "new" /\ GetOrCreate(person, given, c)
        /\ UNCHANGED <<expired, touches>>
        /\ \E found \in SUBSET (IF useMemory THEN LongTerm(person) \cup Remembered(person, c) ELSE {}) :
             /\ SaveFound(found)
             /\ LET Go(stage, from, invoked) ==
                      /\ asks' = [asks EXCEPT ![q] = [NoAsk EXCEPT !.stage = stage, !.person = person,
                                                       !.conversation = c, !.from = from]]
                      /\ retrievalInvoked' = invoked
                IN \/ inMode # "answer" /\ Go("shown", {}, retrievalInvoked)
                   \/ inMode = "answer" /\ carried /\ Go("answering", {}, FALSE)
                   \/ /\ inMode = "answer" /\ ~carried
                      /\ \E strong \in Strong(person, c) : strong \subseteq found /\ Go("answering", strong, FALSE)
                   \/ inMode = "answer" /\ ~carried /\ Go("retrieving", {}, TRUE)
  BY DEF AskCopilot
<1>2. ConversationsStep
  BY <1>1, InvFilesOK, GetOrCreateStep DEF CopilotInv
<1>3. PICK found \in SUBSET (IF useMemory THEN LongTerm(person) \cup Remembered(person, c) ELSE {}) :
             /\ SaveFound(found)
             /\ LET Go(stage, from, invoked) ==
                      /\ asks' = [asks EXCEPT ![q] = Asked(stage, person, c, from)]
                      /\ retrievalInvoked' = invoked
                IN \/ inMode # "answer" /\ Go("shown", {}, retrievalInvoked)
                   \/ inMode = "answer" /\ carried /\ Go("answering", {}, FALSE)
                   \/ /\ inMode = "answer" /\ ~carried
                      /\ \E strong \in Strong(person, c) : strong \subseteq found /\ Go("answering", strong, FALSE)
                   \/ inMode = "answer" /\ ~carried /\ Go("retrieving", {}, TRUE)
  BY <1>1 DEF Asked
<1>4. found \subseteq Held(memories)
  BY <1>3 DEF LongTerm, Remembered, Shown
<1>5. MemoriesStep
  BY <1>3, <1>4, InvFilesOK, FoundMemories DEF CopilotInv
<1>6. recorded' = recorded
  BY <1>3 DEF SaveFound
<1>7. PICK stage : \E from \in {{}} \cup Strong(person, c) :
        asks' = [asks EXCEPT ![q] = Asked(stage, person, c, from)]
  BY <1>3
<1>8. PICK from \in {{}} \cup Strong(person, c) : asks' = [asks EXCEPT ![q] = Asked(stage, person, c, from)]
  BY <1>7
<1>9. RestsOn(recorded, {}, person, c)
  BY DEF RestsOn
<1>10. RestsOn(recorded, from, person, c)
  BY <1>8, <1>9, FoundAreOwn DEF CopilotInv
<1>11. AskOK(Asked(stage, person, c, from), recorded)
  BY <1>10, AskedOK
<1>12. AsksOK'
  BY <1>6, <1>8, <1>11, NewAsk DEF CopilotInv
<1>13. ExpiredOK'
  BY <1>1, <1>2, <1>5, ExpiredStays DEF CopilotInv, MemoriesStep
<1>14. QED
  BY <1>2, <1>5, <1>12, <1>13 DEF CopilotInv, ConversationsStep, MemoriesStep

\* What is remembered of an answer rests on what the answer rested on.
LEMMA AnswerMemory ==
  ASSUME CopilotInv, NEW q \in CopilotQueries
  PROVE  /\ MemoryOfAnswer(q) \in MemoryRecords
         /\ RestsOn(recorded, MemoryOfAnswer(q).from, MemoryOfAnswer(q).user, MemoryOfAnswer(q).conversation)
<1>1. AskOK(asks[q], recorded)
  BY DEF CopilotInv, AsksOK
<1>2. DOMAIN recorded \subseteq Memories
  <2>1. Len(recorded) \in Nat /\ Len(recorded) <= MaxMemories /\ DOMAIN recorded = 1..Len(recorded)
        /\ MaxMemories \in Nat
    BY CopilotAssumption, LenProperties DEF CopilotInv, RecordedOK
  <2>2. QED
    BY <2>1 DEF Memories
<1>3. asks[q].from \in SUBSET Memories
  BY <1>1, <1>2 DEF AskOK, RestsOn
<1>4. asks[q].person \in Askers /\ asks[q].conversation \in Conversations \cup {0}
  BY <1>1 DEF AskOK
<1>5. MemoryOfAnswer(q) \in MemoryRecords
  BY <1>3, <1>4 DEF MemoryOfAnswer, Memory, MemoryRecords
<1>6. MemoryOfAnswer(q).from = asks[q].from /\ MemoryOfAnswer(q).user = asks[q].person
      /\ MemoryOfAnswer(q).conversation = asks[q].conversation
  BY DEF MemoryOfAnswer, Memory
<1>7. QED
  BY <1>1, <1>5, <1>6 DEF AskOK

\* The memory of an answer, written before the process ends.
LEMMA CrashInTurnMemories ==
  ASSUME CopilotInv, NEW q \in CopilotQueries, CrashInTurn(q)
  PROVE  MemoriesStep
<1>1. memories' = memoryFile'.lines
  BY DEF CrashInTurn, Reload
<1>2. CASE UNCHANGED <<memoryFile, recorded>>
  <2>1. DOMAIN memories' = Memories
    BY <1>1, <1>2 DEF CopilotInv, MemoriesOK, FileOK, Memories
  <2>2. QED
    BY <1>1, <1>2, <2>1, DroppedMemories DEF CopilotInv
<1>3. ASSUME Len(recorded) + 1 \in Memories, recorded' = Append(recorded, MemoryOfAnswer(q)),
             memoryFile' \in AppendRecord(memoryFile, Len(recorded) + 1, MemoryOfAnswer(q))
      PROVE  MemoriesStep
  <2>1. RecordedOK' /\ Grows(recorded, recorded') /\ Original(recorded', Len(recorded) + 1, MemoryOfAnswer(q))
    BY <1>3, AnswerMemory, MoreRecorded DEF CopilotInv
  <2>2. QED
    BY <1>1, <1>3, <2>1, InvFilesOK, SavedMemory DEF CopilotInv
<1>4. QED
  BY <1>2, <1>3 DEF CrashInTurn

\* A request after an await.
LEMMA AnswerInv ==
  ASSUME CopilotInv, NEW q \in CopilotQueries, CopilotAnswered(q) \/ Retrieved(q) \/ AskFails(q) \/ CrashInTurn(q)
  PROVE  CopilotInv'
<1>1. AsksGoOn
  <2>1. asks' \in {[asks EXCEPT ![q].stage = "answering"], [asks EXCEPT ![q].stage = "failed"],
                   [asks EXCEPT ![q].stage = "answered", ![q].reported = retrievalInvoked], Lost}
    BY DEF CopilotAnswered, Retrieved, AskFails, CrashInTurn, Reply, Step, Reload
  <2>2. QED
    BY <2>1, StepGoesOn, LostAsks DEF CopilotInv
<1>2. ConversationsStep
  <2>1. ASSUME Reply(q) PROVE ConversationsStep
    BY <2>1, InvFilesOK, WriteTurnStep DEF Reply, CopilotInv
  <2>2. ASSUME NEW stage, Step(q, stage) PROVE ConversationsStep
    BY <2>2, SameConversations DEF Step, conversationStore, CopilotInv
  <2>3. ASSUME CrashInTurn(q) PROVE ConversationsStep
    BY <2>3, InvFilesOK, CrashInTurnConversations DEF CopilotInv
  <2>4. QED
    BY <2>1, <2>2, <2>3 DEF CopilotAnswered, Retrieved, AskFails
<1>3. MemoriesStep
  <2>1. CASE UNCHANGED memoryStore
    BY <2>1, SameMemories DEF memoryStore, CopilotInv
  <2>2. CASE RecordMemory(MemoryOfAnswer(q))
    BY <2>2, InvFilesOK, AnswerMemory, RecordedMemory DEF CopilotInv
  <2>3. CASE CrashInTurn(q)
    BY <2>3, CrashInTurnMemories
  <2>4. QED
    BY <2>1, <2>2, <2>3 DEF CopilotAnswered, RecordRetrieval, Retrieved, AskFails, Step
<1>4. expired' = expired
  BY DEF CopilotAnswered, Retrieved, AskFails, CrashInTurn, Reply, Step, Reload
<1>5. QED
  BY <1>1, <1>2, <1>3, <1>4, Carried

\* The invariant holds at the start.
LEMMA CopilotInvInit == CopilotInit => CopilotInv
<1> SUFFICES ASSUME CopilotInit PROVE CopilotInv
  OBVIOUS
<1>1. ASSUME NEW file, NEW most, file = NewFile(1..most)
      PROVE  FileOK(file, most) /\ \A id \in DOMAIN file.lines : file.lines[id] = Absent
  <2>1. DOMAIN file = {"lines", "cut", "losses"} /\ DOMAIN file.lines = 1..most /\ file.cut = FALSE
        /\ file.losses = 0 /\ \A id \in 1..most : file.lines[id] = Absent
    BY <1>1 DEF NewFile
  <2>2. 0 \in 0..MaxLostCalls
    BY CopilotAssumption
  <2>3. QED
    BY <2>1, <2>2 DEF FileOK
<1>2. ConversationsOK
  <2>1. FileOK(conversationFile, MaxConversations)
        /\ \A id \in DOMAIN conversationFile.lines : conversationFile.lines[id] = Absent
    BY <1>1 DEF CopilotInit, Conversations
  <2>2. DOMAIN conversations = Conversations /\ \A id \in Conversations : conversations[id] = Absent
    BY DEF CopilotInit
  <2>3. begun \in Nat
    BY DEF CopilotInit
  <2>4. QED
    BY <2>1, <2>2, <2>3 DEF ConversationsOK, OnlyBegun, Agree
<1>3. MemoriesOK
  <2>1. FileOK(memoryFile, MaxMemories)
        /\ \A id \in DOMAIN memoryFile.lines : memoryFile.lines[id] = Absent
    BY <1>1 DEF CopilotInit, Memories
  <2>2. DOMAIN memories = Memories /\ \A id \in Memories : memories[id] = Absent
    BY DEF CopilotInit
  <2>3. QED
    BY <2>1, <2>2 DEF MemoriesOK, Originals, Agree
<1>4. RecordedOK
  <2>1. recorded \in Seq(MemoryRecords) /\ Len(recorded) = 0 /\ DOMAIN recorded = {}
    BY EmptySeq, LenProperties DEF CopilotInit
  <2>2. 0 <= MaxMemories
    BY CopilotAssumption
  <2>3. QED
    BY <2>1, <2>2 DEF RecordedOK
<1>5. ExpiredOK
  BY DEF CopilotInit, ExpiredOK
<1>6. AsksOK
  <2>1. DOMAIN NoAsk = AskFields /\ NoAsk.from = {} /\ NoAsk.person = Anonymous /\ NoAsk.conversation = 0
    BY DEF NoAsk, AskFields
  <2>2. AskOK(NoAsk, recorded)
    BY <2>1 DEF AskOK, RestsOn, Askers
  <2>3. QED
    BY <2>2 DEF CopilotInit, AsksOK
<1>7. QED
  BY <1>2, <1>3, <1>4, <1>5, <1>6 DEF CopilotInv

\* Every step keeps the invariant.
LEMMA CopilotInvStep == CopilotInv /\ [CopilotNext]_copilotVars => CopilotInv'
<1> SUFFICES ASSUME CopilotInv, [CopilotNext]_copilotVars PROVE CopilotInv'
  OBVIOUS
<1>1. ASSUME ConversationCall PROVE CopilotInv'
  <2>1. AsksGoOn
    BY <1>1, UnchangedAsks DEF ConversationCall, CopilotInv
  <2>2. ConversationsStep
    BY <1>1, InvFilesOK, ConversationCallStep DEF CopilotInv
  <2>3. MemoriesStep /\ expired' = expired
    BY <1>1, SameMemories DEF ConversationCall, CopilotInv, memoryStore
  <2>4. QED
    BY <2>1, <2>2, <2>3, Carried
<1>2. ASSUME MemoryCall PROVE CopilotInv'
  <2>1. AsksGoOn
    BY <1>2, UnchangedAsks DEF MemoryCall, CopilotInv
  <2>2. MemoriesStep
    BY <1>2, InvFilesOK, MemoryCallStep DEF CopilotInv
  <2>3. ConversationsStep /\ expired' = expired
    BY <1>2, SameConversations DEF MemoryCall, CopilotInv, conversationStore
  <2>4. QED
    BY <2>1, <2>2, <2>3, Carried
<1>3. ASSUME Expire PROVE CopilotInv'
  <2>1. UNCHANGED <<conversations, conversationFile, begun, memories, memoryFile, recorded, asks>>
    BY <1>3 DEF Expire, conversationStore, memoryStore
  <2>2. Held(conversations) \subseteq 1..begun /\ Held(memories) \subseteq DOMAIN recorded
    BY DEF CopilotInv, ConversationsOK, OnlyBegun, MemoriesOK, Originals, Original, Held
  <2>3. ExpiredOK'
    <3>1. \/ \E c \in 1..begun : expired' = [expired EXCEPT !.conversations = @ \cup {c}]
          \/ \E m \in DOMAIN recorded : expired' = [expired EXCEPT !.memories = @ \cup {m}]
      BY <1>3, <2>2 DEF Expire
    <3>2. QED
      BY <2>1, <3>1 DEF ExpiredOK, CopilotInv
  <2>4. QED
    BY <2>1, <2>3 DEF CopilotInv, ConversationsOK, MemoriesOK, RecordedOK, AsksOK
<1>4. ASSUME RestartCopilot PROVE CopilotInv'
  <2>1. UNCHANGED <<conversationFile, memoryFile, recorded, begun, expired>> /\ asks' = Lost
        /\ conversations' = conversationFile.lines /\ memories' = memoryFile.lines
    BY <1>4 DEF RestartCopilot, Reload
  <2>2. AsksGoOn
    BY <2>1, LostAsks DEF CopilotInv
  <2>3. ConversationsStep
    BY <2>1, ReloadConversations DEF CopilotInv
  <2>4. DOMAIN memories' = Memories
    BY <2>1 DEF CopilotInv, MemoriesOK, FileOK, Memories
  <2>5. MemoriesStep
    BY <2>1, <2>4, DroppedMemories DEF CopilotInv
  <2>6. QED
    BY <2>1, <2>2, <2>3, <2>5, Carried
<1>5. ASSUME NEW q \in CopilotQueries, Asking(q) PROVE CopilotInv'
  BY <1>5, AskCopilotInv, AnswerInv DEF Asking
<1>6. ASSUME UNCHANGED copilotVars PROVE CopilotInv'
  BY <1>6 DEF copilotVars, CopilotInv, ConversationsOK, MemoriesOK, RecordedOK, AsksOK, ExpiredOK
<1>7. QED
  BY <1>1, <1>2, <1>3, <1>4, <1>5, <1>6 DEF CopilotNext

\* The invariant contains the type invariant.
LEMMA InvImpliesTypeOK == ASSUME CopilotInv PROVE CopilotTypeOK
<1>1. /\ conversationFile.losses \in 0..MaxLostCalls /\ memoryFile.losses \in 0..MaxLostCalls
      /\ DOMAIN conversationFile.lines = Conversations /\ DOMAIN memoryFile.lines = Memories
  BY DEF CopilotInv, ConversationsOK, MemoriesOK, FileOK, Conversations, Memories
<1>2. /\ conversationFile.losses = 0 => \A c \in Held(conversations) : conversationFile.lines[c] = conversations[c]
      /\ memoryFile.losses = 0 => \A m \in Held(memories) : memoryFile.lines[m] = memories[m]
  BY DEF CopilotInv, ConversationsOK, MemoriesOK, Agree, Held
<1>3. Held(conversations) \cup Held(conversationFile.lines) \subseteq 1..begun
  BY DEF CopilotInv, ConversationsOK, OnlyBegun, Held
<1>4. /\ \A m \in Held(memories) : AsRecorded(m, memories[m])
      /\ \A m \in Held(memoryFile.lines) : AsRecorded(m, memoryFile.lines[m])
  BY DEF CopilotInv, MemoriesOK, Originals, Original, AsRecorded, Held
<1>5. /\ expired.conversations \subseteq 1..begun /\ expired.memories \subseteq DOMAIN recorded
      /\ \A q \in CopilotQueries : asks[q].from \subseteq DOMAIN recorded /\ asks[q].person \in Askers
  BY DEF CopilotInv, ExpiredOK, AsksOK, AskOK, RestsOn
<1>6. QED
  BY <1>1, <1>2, <1>3, <1>4, <1>5 DEF CopilotTypeOK

\* Type correctness of conversations, memories and requests: a store and its
\* file agree as long as no append failed.
THEOREM CopilotTypeCorrect == CopilotSpec => []CopilotTypeOK
BY InvImpliesTypeOK, CopilotInvInit, CopilotInvStep, PTL DEF CopilotSpec

\* What is remembered of an answer rests on memories of the same conversation
\* only, and for a known user on that user's (CopilotService.ask,
\* MemoryService): for any number of conversations, memories, concurrent
\* requests, failed appends and restarts.
THEOREM MemoriesStayOwn == CopilotSpec => []MemoryStaysWithItsUser
<1>1. CopilotInv => MemoryStaysWithItsUser
  BY DEF CopilotInv, RecordedOK, MemoryStaysWithItsUser, RestsOn
<1>2. QED
  BY <1>1, CopilotInvInit, CopilotInvStep, PTL DEF CopilotSpec

-----------------------------------------------------------------------------
(* Analytics: a batch is recorded whole or not at all.                       *)

\* A record of the table of metrics.
Metric == [strategy: Elements(Strategies), window: Windows, reading: Readings, batch: Nat, size: 1..2]

\* What a transaction holds: of a batch, records that say how large it is.
IsCall(call) ==
  /\ "stage" \in DOMAIN call
  /\ call.stage = "batch" =>
       /\ DOMAIN call = {"stage", "new", "size"} /\ call.size \in 1..2 /\ call.new \in Seq(Metric)
       /\ \A k \in 1..Len(call.new) : call.new[k].size = call.size

\* The records of a batch lie side by side, from the one that names it.
Batched(list) ==
  \A k \in 1..Len(list) :
    LET b == list[k].batch
        s == list[k].size
    IN  /\ b \in 1..k /\ k < b + s /\ b + s <= Len(list) + 1
        /\ \A j \in b..b + s - 1 : list[j].batch = b /\ list[j].size = s

BatchInv ==
  /\ metrics \in Seq(Metric) /\ Batched(metrics)
  /\ DOMAIN calls = Calls /\ \A c \in Calls : IsCall(calls[c])

LEMMA CallGoesOn ==
  ASSUME BatchInv, NEW c \in Calls, NEW call, CallGoes(c, call), IsCall(call), UNCHANGED metrics
  PROVE  BatchInv'
BY DEF BatchInv, CallGoes

\* A transaction adds records of its own batch.
LEMMA AddMetricInv ==
  ASSUME BatchInv, NEW c \in Calls, NEW strategy \in Elements(Strategies), NEW window \in Windows,
         NEW reading \in Readings, AddMetric(c, strategy, window, reading)
  PROVE  BatchInv'
<1> DEFINE m == [strategy |-> strategy, window |-> window, reading |-> reading, batch |-> 0, size |-> calls[c].size]
           call == [calls[c] EXCEPT !.new = Append(@, m)]
<1>1. CallGoes(c, call) /\ UNCHANGED metrics /\ calls[c].stage = "batch"
  BY DEF AddMetric
<1>2. /\ DOMAIN calls[c] = {"stage", "new", "size"} /\ calls[c].size \in 1..2 /\ calls[c].new \in Seq(Metric)
      /\ \A k \in 1..Len(calls[c].new) : calls[c].new[k].size = calls[c].size
  BY <1>1 DEF BatchInv, IsCall
<1>3. m \in Metric /\ m.size = calls[c].size
  BY <1>2 DEF Metric
<1>4. DOMAIN call = {"stage", "new", "size"} /\ call.stage = "batch" /\ call.size = calls[c].size
      /\ call.new = Append(calls[c].new, m)
  BY <1>1, <1>2
<1> HIDE DEF m
<1>5. /\ Append(calls[c].new, m) \in Seq(Metric) /\ Len(Append(calls[c].new, m)) = Len(calls[c].new) + 1
      /\ \A k \in 1..Len(calls[c].new) : Append(calls[c].new, m)[k] = calls[c].new[k]
      /\ Append(calls[c].new, m)[Len(calls[c].new) + 1] = m
  BY <1>2, <1>3, AppendProperties
<1>6. Len(calls[c].new) \in Nat
  BY <1>2, LenProperties
<1> HIDE DEF call
<1>7. \A k \in 1..Len(call.new) : call.new[k].size = call.size
  BY <1>2, <1>3, <1>4, <1>5, <1>6
<1>8. IsCall(call)
  BY <1>2, <1>4, <1>5, <1>7 DEF IsCall
<1>9. QED
  BY <1>1, <1>8, CallGoesOn

\* A commit appends the batch in one piece.
LEMMA CommitBatchInv ==
  ASSUME BatchInv, NEW c \in Calls, CommitBatch(c)
  PROVE  BatchInv'
<1> DEFINE new == calls[c].new
           n == Len(metrics)
           named == [k \in DOMAIN new |-> [new[k] EXCEPT !.batch = n + 1]]
<1>1. calls[c].stage = "batch" /\ Len(new) = calls[c].size /\ CallGoes(c, IdleCall)
      /\ metrics' = metrics \o named
  BY DEF CommitBatch, WithBatch
<1>2. /\ calls[c].size \in 1..2 /\ new \in Seq(Metric)
      /\ \A k \in 1..Len(new) : new[k].size = calls[c].size
  BY <1>1 DEF BatchInv, IsCall
<1>3. n \in Nat /\ metrics \in Seq(Metric)
  BY LenProperties DEF BatchInv
<1> DEFINE s == calls[c].size
<1>4. DOMAIN new = 1..s /\ s \in 1..2 /\ \A k \in 1..s : new[k] \in Metric /\ new[k].size = s
  BY <1>1, <1>2, LenProperties
<1> HIDE DEF new, n, s
<1>5. \A k \in 1..s : named[k] \in Metric /\ named[k].batch = n + 1 /\ named[k].size = s
  BY <1>3, <1>4 DEF Metric
<1>6. named \in Seq(Metric) /\ Len(named) = s
  <2>1. named \in [1..s -> Metric] /\ s \in Nat
    BY <1>4, <1>5
  <2>2. named \in Seq(Metric)
    BY <2>1, SeqDef
  <2>3. QED
    BY <2>1, <2>2, LenProperties
<1> HIDE DEF named
<1>7. /\ metrics' \in Seq(Metric) /\ Len(metrics') = n + s
      /\ \A k \in 1..n + s : metrics'[k] = IF k <= n THEN metrics[k] ELSE named[k - n]
  BY <1>1, <1>3, <1>6, ConcatProperties DEF n
<1>8. Batched(metrics')
  <2> SUFFICES ASSUME NEW k \in 1..n + s
               PROVE  LET b == metrics'[k].batch
                          z == metrics'[k].size
                      IN  /\ b \in 1..k /\ k < b + z /\ b + z <= n + s + 1
                          /\ \A j \in b..b + z - 1 : metrics'[j].batch = b /\ metrics'[j].size = z
    BY <1>7 DEF Batched
  <2>1. CASE k <= n
    <3> DEFINE b == metrics[k].batch
               z == metrics[k].size
    <3>1. /\ b \in 1..k /\ k < b + z /\ b + z <= n + 1
          /\ \A j \in b..b + z - 1 : metrics[j].batch = b /\ metrics[j].size = z
      BY <1>3, <2>1 DEF BatchInv, Batched, n
    <3>2. z \in 1..2
      <4>1. metrics[k] \in Metric
        BY <1>3, <2>1, ElementOfSeq DEF n
      <4>2. QED
        BY <4>1 DEF Metric
    <3>3. metrics'[k] = metrics[k]
      BY <1>3, <1>4, <1>7, <2>1
    <3> HIDE DEF b, z
    <3>4. \A j \in b..b + z - 1 : metrics'[j] = metrics[j]
      BY <1>3, <1>4, <1>7, <3>1, <3>2
    <3>5. b + z <= n + s + 1
      BY <1>3, <1>4, <3>1, <3>2
    <3>6. QED
      BY <3>1, <3>3, <3>4, <3>5 DEF b, z
  <2>2. CASE k > n
    <3>1. k - n \in 1..s /\ metrics'[k] = named[k - n]
      BY <1>3, <1>4, <1>7, <2>2
    <3>2. metrics'[k].batch = n + 1 /\ metrics'[k].size = s
      BY <1>5, <3>1
    <3>3. \A j \in n + 1..n + 1 + s - 1 : metrics'[j].batch = n + 1 /\ metrics'[j].size = s
      <4> SUFFICES ASSUME NEW j \in n + 1..n + 1 + s - 1
                   PROVE  metrics'[j].batch = n + 1 /\ metrics'[j].size = s
        OBVIOUS
      <4>1. j - n \in 1..s /\ j \in 1..n + s /\ ~(j <= n)
        BY <1>3, <1>4
      <4>2. QED
        BY <1>5, <1>7, <4>1
    <3>4. n + 1 \in 1..k /\ k < n + 1 + s /\ n + 1 + s <= n + s + 1
      BY <1>3, <1>4, <2>2
    <3>5. QED
      BY <3>2, <3>3, <3>4
  <2>3. QED
    BY <1>3, <2>1, <2>2
<1>9. IsCall(IdleCall)
  BY DEF IsCall, IdleCall
<1>10. QED
  BY <1>1, <1>7, <1>8, <1>9 DEF BatchInv, CallGoes

LEMMA OtherCallsInv ==
  ASSUME BatchInv, NEW c \in Calls,
         \/ \E size \in 1..2 : BeginBatch(c, size)
         \/ RaiseCall(c) \/ FindSnapshot(c) \/ StoreSnapshot(c) \/ ReadStrategy(c) \/ GiveReport(c)
         \/ \E strategy \in Elements(Strategies), named \in BOOLEAN, window \in Windows :
              Compute(c, strategy, named, window)
         \/ \E first \in Windows : BeginReport(c, first)
  PROVE  BatchInv'
<1>1. IsCall(IdleCall)
  BY DEF IsCall, IdleCall
<1>2. ASSUME NEW size \in 1..2, BeginBatch(c, size) PROVE BatchInv'
  <2> DEFINE call == [stage |-> "batch", new |-> <<>>, size |-> size]
  <2>1. DOMAIN call = {"stage", "new", "size"} /\ call.new = <<>> /\ call.size = size /\ <<>> \in Seq(Metric)
        /\ Len(<<>>) = 0
    BY EmptySeq
  <2>2. CallGoes(c, call) /\ UNCHANGED metrics
    BY <1>2 DEF BeginBatch
  <2> HIDE DEF call
  <2>3. IsCall(call)
    BY <2>1 DEF IsCall
  <2>4. QED
    BY <2>2, <2>3, CallGoesOn
<1>3. ASSUME NEW call, CallGoes(c, call), UNCHANGED metrics, "stage" \in DOMAIN call, call.stage # "batch"
      PROVE  BatchInv'
  BY <1>3, CallGoesOn DEF IsCall
<1>4. CASE RaiseCall(c) \/ StoreSnapshot(c) \/ GiveReport(c)
  BY <1>1, <1>4, CallGoesOn DEF RaiseCall, RolledBack, StoreSnapshot, GiveReport
<1>5. ASSUME FindSnapshot(c) PROVE BatchInv'
  <2>1. ASSUME NEW call, CallGoes(c, call), call = IdleCall \/ (DOMAIN call # {} /\ call.stage \in {"insert", "update"}
                 /\ "stage" \in DOMAIN call)
        PROVE  BatchInv'
    BY <1>3, <1>5, <2>1 DEF IdleCall, FindSnapshot
  <2>2. QED
    BY <1>5, <2>1 DEF FindSnapshot
<1>6. ASSUME ReadStrategy(c) PROVE BatchInv'
  <2>1. PICK r : CallGoes(c, [calls[c] EXCEPT !.read = r])
    BY <1>6 DEF ReadStrategy
  <2>2. "stage" \in DOMAIN calls[c] /\ calls[c].stage = "report"
    BY <1>6 DEF ReadStrategy, BatchInv, IsCall
  <2>3. QED
    BY <1>3, <1>6, <2>1, <2>2 DEF ReadStrategy
<1>7. ASSUME NEW first \in Windows, BeginReport(c, first) PROVE BatchInv'
  BY <1>3, <1>7 DEF BeginReport
<1>8. ASSUME NEW strategy \in Elements(Strategies), NEW named \in BOOLEAN, NEW window \in Windows,
             Compute(c, strategy, named, window)
      PROVE  BatchInv'
  <2>1. PICK row : CallGoes(c, [stage |-> "computed", row |-> row])
    BY <1>8 DEF Compute
  <2>2. QED
    BY <1>3, <1>8, <2>1 DEF Compute
<1>9. QED
  BY <1>2, <1>4, <1>5, <1>6, <1>7, <1>8

LEMMA BatchInvInit == AnalyticsInit => BatchInv
BY EmptySeq DEF AnalyticsInit, BatchInv, Batched, IsCall, IdleCall

LEMMA BatchInvStep == BatchInv /\ [AnalyticsNext]_analyticsVars => BatchInv'
<1> SUFFICES ASSUME BatchInv, [AnalyticsNext]_analyticsVars PROVE BatchInv'
  OBVIOUS
<1>1. CASE UNCHANGED analyticsVars
  BY <1>1 DEF analyticsVars, BatchInv
<1>2. ASSUME NEW c \in Calls, Called(c) \/ GiveReport(c) PROVE BatchInv'
  BY <1>2, AddMetricInv, CommitBatchInv, OtherCallsInv DEF Called
<1>3. QED
  BY <1>1, <1>2 DEF AnalyticsNext

\* A batch of metrics is in the table whole or not at all (record_batch of
\* the analytics service): for any number of concurrent calls and windows.
THEOREM BatchesStayWhole == AnalyticsSpec => []BatchesAreWhole
<1>1. BatchInv => BatchesAreWhole
  <2> SUFFICES ASSUME BatchInv, NEW k \in DOMAIN metrics
               PROVE  Cardinality({j \in DOMAIN metrics : metrics[j].batch = metrics[k].batch}) = metrics[k].size
    BY DEF BatchesAreWhole
  <2> DEFINE n == Len(metrics)
             b == metrics[k].batch
             s == metrics[k].size
  <2>1. n \in Nat /\ DOMAIN metrics = 1..n /\ \A j \in 1..n : metrics[j] \in Metric
    BY LenProperties, ElementOfSeq DEF BatchInv
  <2>2. s \in 1..2 /\ b \in Nat
    BY <2>1 DEF Metric
  <2>3. /\ b \in 1..k /\ k < b + s /\ b + s <= n + 1
        /\ \A j \in b..b + s - 1 : metrics[j].batch = b /\ metrics[j].size = s
    BY <2>1 DEF BatchInv, Batched
  <2>4. ASSUME NEW j \in 1..n, metrics[j].batch = b PROVE j \in b..b + s - 1
    <3> DEFINE z == metrics[j].size
    <3>1. /\ b \in 1..j /\ j < b + z
          /\ \A i \in b..b + z - 1 : metrics[i].size = z
      BY <2>1, <2>4 DEF BatchInv, Batched
    <3>2. z \in 1..2
      BY <2>1 DEF Metric
    <3> HIDE DEF z, b, s
    <3>3. metrics[b].size = z /\ metrics[b].size = s
      BY <2>2, <2>3, <3>1, <3>2
    <3>4. QED
      BY <2>2, <3>1, <3>2, <3>3
  <2> HIDE DEF b, s, n
  <2>5. {j \in DOMAIN metrics : metrics[j].batch = b} = b..b + s - 1
    BY <2>1, <2>2, <2>3, <2>4
  <2>6. b + s - 1 \in Int /\ Cardinality(b..b + s - 1) = IF b > b + s - 1 THEN 0 ELSE b + s - 1 - b + 1
    BY <2>2, FS_Interval
  <2>7. Cardinality(b..b + s - 1) = s
    BY <2>2, <2>6
  <2>8. QED
    BY <2>5, <2>7 DEF b, s
<1>2. QED
  BY <1>1, BatchInvInit, BatchInvStep, PTL DEF AnalyticsSpec

-----------------------------------------------------------------------------
(* KeywordIndex: counting the chunks is enough for one builder.              *)

(* What the start of a worker knows, as long as one works at a time.       *)
Working(w) == warmup[w].at \notin {"down", "up"}

StaleRow == Default \in DOMAIN rows => rows[Default].size < Cardinality(chunks)

WrittenFile(ids) ==
  ids \subseteq chunks /\ disk[Default].kind = "engine" /\ disk[Default].ids = ids

WarmupKnows(w) ==
  LET b == warmup[w] IN
  /\ b.at \in {"down", "up", "counting", "building", "looking", "publishing", "done"}
  /\ b.at = "counting" =>
       b.name = Default /\ Default \in DOMAIN rows /\ b.size = rows[Default].size
  /\ b.at = "building" => b.name = Default /\ StaleRow
  /\ b.at \in {"looking", "publishing"} =>
       b.name = Default /\ StaleRow /\ WrittenFile(b.ids)
  /\ b.at = "publishing" => b.found = (Default \in DOMAIN rows)
  /\ b.at = "done" =>
       \/ b.seen = {}
       \/ /\ Default \in DOMAIN rows
          /\ disk[Default].kind = "engine" /\ b.seen \subseteq disk[Default].ids

\* The row is older than the file, and as large as the chunks only if the
\* file has them all.
RowHolds ==
  /\ DOMAIN rows \subseteq {Default}
  /\ Default \in DOMAIN rows =>
       /\ rows[Default].active = TRUE /\ rows[Default].file = Default
       /\ rows[Default].size \in Nat /\ rows[Default].stamp \in Nat
       /\ rows[Default].size <= Cardinality(chunks)
       /\ rows[Default].size = Cardinality(chunks) => WrittenFile(chunks)

OneBuilder == \A v, w \in IndexWorkers : Working(v) /\ Working(w) => v = w

KeywordShape ==
  /\ IsFiniteSet(chunks) /\ stamps \in Nat /\ disturbed \in BOOLEAN
  /\ DOMAIN warmup = IndexWorkers /\ DOMAIN disk = 0..ServiceFile

KeywordInv ==
  /\ KeywordShape
  /\ ~disturbed => RowHolds /\ OneBuilder /\ \A w \in IndexWorkers : WarmupKnows(w)

LEMMA KeywordInitInv == KeywordInit => KeywordInv
<1> SUFFICES ASSUME KeywordInit PROVE KeywordInv
  OBVIOUS
<1>1. KeywordShape
  BY FS_EmptySet DEF KeywordInit, KeywordShape
<1>2. RowHolds
  BY DEF KeywordInit, RowHolds
<1>3. OneBuilder /\ \A w \in IndexWorkers : WarmupKnows(w)
  BY DEF KeywordInit, OneBuilder, Working, WarmupKnows, Down
<1> QED
  BY <1>1, <1>2, <1>3 DEF KeywordInv

\* Index zero is no file of the service.
LEMMA Files == Default \in 0..ServiceFile /\ ServiceFile # Default
BY KeywordIndexAssumption DEF Default, ServiceFile

LEMMA AddChunkInv ==
  ASSUME KeywordInv, AddChunk
  PROVE  KeywordInv'
<1>1. /\ chunks \subseteq chunks' /\ IsFiniteSet(chunks')
      /\ UNCHANGED <<rows, disk, warmup, stamps, disturbed>>
  BY FS_AddElement DEF AddChunk, KeywordInv, KeywordShape
<1>2. /\ Cardinality(chunks) \in Nat /\ Cardinality(chunks') \in Nat
      /\ Cardinality(chunks) <= Cardinality(chunks')
      /\ Cardinality(chunks) = Cardinality(chunks') => chunks = chunks'
  BY <1>1, FS_Subset, FS_CardinalityType DEF KeywordInv, KeywordShape
<1>3. KeywordShape'
  BY <1>1 DEF KeywordInv, KeywordShape
<1>4. ASSUME ~disturbed PROVE RowHolds' /\ OneBuilder' /\ \A w \in IndexWorkers : WarmupKnows(w)'
  <2>1. RowHolds'
    BY <1>1, <1>2, <1>4 DEF KeywordInv, RowHolds, WrittenFile
  <2>2. OneBuilder'
    BY <1>1, <1>4 DEF KeywordInv, OneBuilder, Working
  <2>3. ASSUME NEW w \in IndexWorkers PROVE WarmupKnows(w)'
    <3>1. StaleRow => StaleRow'
      BY <1>1, <1>2, <1>4 DEF KeywordInv, RowHolds, StaleRow
    <3>2. ASSUME NEW ids, WrittenFile(ids) PROVE WrittenFile(ids)'
      BY <1>1, <3>2 DEF WrittenFile
    <3> QED
      BY <1>1, <1>4, <3>1, <3>2 DEF KeywordInv, WarmupKnows
  <2> QED
    BY <2>1, <2>2, <2>3
<1> QED
  BY <1>1, <1>3, <1>4 DEF KeywordInv

\* A step of one worker, which was working or is the only one.
LEMMA OthersWait ==
  ASSUME KeywordInv, ~disturbed, NEW w \in IndexWorkers, NEW next,
         warmup' = [warmup EXCEPT ![w] = next],
         Working(w) \/ next.at \in {"down", "up"}
           \/ \A v \in IndexWorkers : ~Working(v)
  PROVE  OneBuilder'
BY DEF KeywordInv, KeywordShape, OneBuilder, Working

\* A worker that does not work knows nothing.
LEMMA IdleKnows ==
  ASSUME NEW v, warmup[v].at \in {"down", "up"}
  PROVE  WarmupKnows(v)
BY DEF WarmupKnows

LEMMA WarmupStepInv ==
  ASSUME KeywordInv, NEW w \in IndexWorkers,
         \/ StartWarmup(w) \/ CountChunks(w) \/ BuildFile(w) \/ FindRow(w)
         \/ PublishRow(w) \/ FinishWarmup(w)
  PROVE  KeywordInv'
<1> USE DEF WarmupStep
<1>s. /\ KeywordShape /\ Default = 0 /\ Default \in 0..ServiceFile
      /\ Cardinality(chunks) \in Nat
  BY Files, FS_CardinalityType DEF KeywordInv, KeywordShape, Default
<1>c. UNCHANGED chunks
  BY DEF StartWarmup, CountChunks, BuildFile, FindRow, PublishRow, FinishWarmup
<1>1. KeywordShape'
  <2>1. stamps' \in Nat
    <3>1. stamps' = stamps \/ stamps' = stamps + 1
      BY DEF StartWarmup, CountChunks, BuildFile, FindRow, PublishRow, FinishWarmup
    <3> QED
      BY <1>s, <3>1 DEF KeywordShape
  <2>3. disturbed' \in BOOLEAN
    <3>1. CASE StartWarmup(w)
      BY <3>1 DEF StartWarmup
    <3>2. CASE UNCHANGED disturbed
      BY <1>s, <3>2 DEF KeywordShape
    <3> QED
      BY <3>1, <3>2 DEF CountChunks, BuildFile, FindRow, PublishRow, FinishWarmup
  <2>2. DOMAIN warmup' = IndexWorkers /\ DOMAIN disk' = 0..ServiceFile
    BY <1>s
    DEF StartWarmup, CountChunks, BuildFile, FindRow, PublishRow, FinishWarmup, KeywordShape
  <2> QED
    BY <1>s, <1>c, <2>1, <2>2, <2>3 DEF KeywordShape
<1>2. PICK next : warmup' = [warmup EXCEPT ![w] = next]
  BY DEF StartWarmup, CountChunks, BuildFile, FindRow, PublishRow, FinishWarmup
<1>3. disturbed => disturbed'
  BY DEF StartWarmup, CountChunks, BuildFile, FindRow, PublishRow, FinishWarmup
<1> SUFFICES ASSUME ~disturbed, ~disturbed'
             PROVE  RowHolds' /\ OneBuilder' /\ \A v \in IndexWorkers : WarmupKnows(v)'
  BY <1>1, <1>3 DEF KeywordInv
<1>4. RowHolds /\ OneBuilder /\ \A v \in IndexWorkers : WarmupKnows(v)
  BY DEF KeywordInv
<1>5. warmup'[w] = next /\ \A v \in IndexWorkers \ {w} : warmup'[v] = warmup[v]
  BY <1>s, <1>2 DEF KeywordShape
<1>6. \A v \in IndexWorkers \ {w} : warmup[v].at \in {"down", "up"}
  <2>1. CASE StartWarmup(w)
    BY <2>1 DEF StartWarmup
  <2>2. CASE ~StartWarmup(w)
    <3>1. Working(w)
      BY <2>2 DEF CountChunks, BuildFile, FindRow, PublishRow, FinishWarmup, Working
    <3> QED
      BY <1>4, <3>1 DEF OneBuilder, Working
  <2> QED
    BY <2>1, <2>2
<1>7. OneBuilder'
  BY <1>5, <1>6 DEF OneBuilder, Working
<1>8. \A v \in IndexWorkers \ {w} : WarmupKnows(v)'
  BY <1>5, <1>6 DEF WarmupKnows
<1>9. RowHolds' /\ WarmupKnows(w)'
  <2>1. CASE StartWarmup(w)
    <3>1. UNCHANGED <<rows, disk>>
      BY <2>1 DEF StartWarmup
    <3>2. CASE Default \in DOMAIN rows
      <4>1. Newest = {Default}
        BY <1>4, <3>2 DEF Newest, Active, RowHolds
      <4>2. warmup'[w] = [at |-> "counting", name |-> Default, size |-> rows[Default].size]
        BY <2>1, <4>1, <1>s DEF StartWarmup, KeywordShape
      <4> QED
        BY <1>4, <1>c, <3>1, <3>2, <4>2 DEF RowHolds, WrittenFile, WarmupKnows
    <3>3. CASE Default \notin DOMAIN rows
      <4>1. Newest = {}
        BY <1>4, <3>3 DEF Newest, Active, RowHolds
      <4>2. warmup'[w] = [at |-> "building", name |-> Default]
        BY <2>1, <4>1, <1>s DEF StartWarmup, KeywordShape
      <4> QED
        BY <1>4, <1>c, <3>1, <3>3, <4>2 DEF RowHolds, WrittenFile, WarmupKnows, StaleRow
    <3> QED
      BY <3>2, <3>3
  <2>2. CASE CountChunks(w)
    <3>1. UNCHANGED <<rows, disk>> /\ warmup[w].at = "counting"
      BY <2>2 DEF CountChunks
    <3>2. /\ warmup[w].name = Default /\ Default \in DOMAIN rows
          /\ warmup[w].size = rows[Default].size
      BY <1>4, <3>1 DEF WarmupKnows
    <3>3. CASE UpToDate(warmup[w].size)
      <4>1. warmup'[w] = [at |-> "done", seen |-> chunks]
        BY <1>s, <2>2, <3>3 DEF CountChunks, KeywordShape
      <4>2. WrittenFile(chunks)
        BY <1>4, <3>2, <3>3 DEF UpToDate, RowHolds
      <4> QED
        BY <1>4, <1>c, <3>1, <3>2, <4>1, <4>2 DEF RowHolds, WrittenFile, WarmupKnows
    <3>4. CASE ~UpToDate(warmup[w].size)
      <4>1. warmup'[w] = [at |-> "building", name |-> Default]
        BY <1>s, <2>2, <3>2, <3>4 DEF CountChunks, KeywordShape
      <4>2. StaleRow
        BY <1>4, <1>s, <3>2, <3>4 DEF UpToDate, RowHolds, StaleRow
      <4> QED
        BY <1>4, <1>c, <3>1, <4>1, <4>2 DEF RowHolds, WrittenFile, WarmupKnows, StaleRow
    <3> QED
      BY <3>3, <3>4
  <2>3. CASE BuildFile(w)
    <3>1. UNCHANGED rows /\ warmup[w].at = "building"
      BY <2>3 DEF BuildFile
    <3>2. warmup[w].name = Default /\ StaleRow
      BY <1>4, <3>1 DEF WarmupKnows
    <3>3. CASE chunks = {}
      <4>1. warmup'[w] = [at |-> "done", seen |-> {}] /\ UNCHANGED disk
        BY <1>s, <2>3, <3>3 DEF BuildFile, KeywordShape
      <4> QED
        BY <1>4, <1>c, <3>1, <4>1 DEF RowHolds, WrittenFile, WarmupKnows
    <3>4. CASE chunks # {}
      <4>1. /\ warmup'[w] = [at |-> "looking", name |-> Default, ids |-> chunks]
            /\ disk' = [disk EXCEPT ![Default] = [kind |-> "engine", ids |-> chunks]]
        BY <1>s, <2>3, <3>2, <3>4 DEF BuildFile, KeywordShape
      <4>2. WrittenFile(chunks)'
        BY <1>s, <1>c, <4>1 DEF WrittenFile, KeywordShape
      <4> QED
        BY <1>4, <1>c, <3>1, <3>2, <4>1, <4>2 DEF RowHolds, WarmupKnows, StaleRow
    <3> QED
      BY <3>3, <3>4
  <2>4. CASE FindRow(w)
    <3>1. UNCHANGED <<rows, disk>> /\ warmup[w].at = "looking"
      BY <2>4 DEF FindRow
    <3>2. warmup[w].name = Default /\ StaleRow /\ WrittenFile(warmup[w].ids)
      BY <1>4, <3>1 DEF WarmupKnows
    <3>3. warmup'[w] = [at |-> "publishing", name |-> Default, ids |-> warmup[w].ids,
                        found |-> Default \in DOMAIN rows]
      BY <1>s, <2>4, <3>2 DEF FindRow, KeywordShape
    <3> QED
      BY <1>4, <1>c, <3>1, <3>2, <3>3 DEF RowHolds, WrittenFile, WarmupKnows, StaleRow
  <2>5. CASE PublishRow(w)
    <3> DEFINE ids == warmup[w].ids
               row == NewRow(Cardinality(ids), Default)
    <3>1. UNCHANGED disk /\ warmup[w].at = "publishing"
      BY <2>5 DEF PublishRow
    <3>2. /\ warmup[w].name = Default /\ StaleRow /\ WrittenFile(ids)
          /\ warmup[w].found = (Default \in DOMAIN rows)
      BY <1>4, <3>1 DEF WarmupKnows
    <3>3. rows' = WithRow(rows, Default, row) \/ rows' = WithRow(Deactivated, Default, row)
      BY <2>5, <3>2 DEF PublishRow
    <3>4. DOMAIN rows' = {Default} /\ rows'[Default] = row
      BY <1>4, <3>3 DEF WithRow, Deactivated, RowHolds
    <3>5. warmup'[w] = [at |-> "done", seen |-> ids]
      BY <1>s, <2>5 DEF PublishRow, KeywordShape
    <3>6. /\ Cardinality(ids) \in Nat /\ Cardinality(ids) <= Cardinality(chunks)
          /\ Cardinality(ids) = Cardinality(chunks) => ids = chunks
      BY <1>s, <3>2, FS_Subset, FS_CardinalityType DEF WrittenFile, KeywordShape
    <3>7. /\ row.size = Cardinality(ids) /\ row.file = Default /\ row.active = TRUE
          /\ row.stamp \in Nat
      BY <1>s DEF NewRow, KeywordShape
    <3>8. RowHolds'
      BY <1>c, <3>1, <3>2, <3>4, <3>6, <3>7 DEF RowHolds, WrittenFile
    <3> QED
      BY <3>1, <3>2, <3>4, <3>5, <3>8 DEF WarmupKnows, WrittenFile
  <2>6. CASE FinishWarmup(w)
    <3>1. UNCHANGED <<rows, disk>> /\ warmup'[w] = Up
      BY <1>s, <2>6 DEF FinishWarmup, KeywordShape
    <3> QED
      BY <1>4, <1>c, <3>1 DEF RowHolds, WrittenFile, WarmupKnows, Up
  <2> QED
    BY <2>1, <2>2, <2>3, <2>4, <2>5, <2>6
<1> QED
  BY <1>7, <1>8, <1>9

LEMMA IndexCrashInv ==
  ASSUME KeywordInv, NEW w \in IndexWorkers, IndexCrash(w)
  PROVE  KeywordInv'
<1>s. /\ KeywordShape /\ Default \in 0..ServiceFile
      /\ Cardinality(chunks) \in Nat
  BY Files, FS_CardinalityType DEF KeywordInv, KeywordShape
<1>1. /\ warmup' = [warmup EXCEPT ![w] = Down]
      /\ UNCHANGED <<chunks, rows, stamps, disturbed>>
  BY DEF IndexCrash, Working
<1>2. KeywordShape'
  BY <1>s, <1>1 DEF IndexCrash, KeywordShape
<1> SUFFICES ASSUME ~disturbed
             PROVE  RowHolds' /\ OneBuilder' /\ \A v \in IndexWorkers : WarmupKnows(v)'
  BY <1>1, <1>2 DEF KeywordInv
<1>4. RowHolds /\ OneBuilder /\ \A v \in IndexWorkers : WarmupKnows(v)
  BY DEF KeywordInv
<1>5. warmup'[w].at = "down" /\ \A v \in IndexWorkers \ {w} : warmup'[v] = warmup[v]
  BY <1>s, <1>1 DEF KeywordShape, Down
<1>6. OneBuilder'
  BY <1>4, <1>5 DEF OneBuilder, Working
<1>7. CASE UNCHANGED disk
  BY <1>1, <1>4, <1>5, <1>7 DEF RowHolds, WrittenFile, WarmupKnows, StaleRow, OneBuilder, Working
<1>8. CASE ~UNCHANGED disk
  <2>1. warmup[w].at = "building" /\ disk' = [disk EXCEPT ![warmup[w].name] = Torn]
    BY <1>8 DEF IndexCrash
  <2>2. StaleRow
    BY <1>4, <2>1 DEF WarmupKnows
  <2>3. RowHolds'
    BY <1>s, <1>1, <1>4, <2>2 DEF RowHolds, StaleRow
  <2>4. ASSUME NEW v \in IndexWorkers \ {w} PROVE WarmupKnows(v)'
    BY <1>4, <1>5, <2>1 DEF OneBuilder, Working, WarmupKnows
  <2> QED
    BY <1>5, <1>6, <2>3, <2>4 DEF WarmupKnows
<1> QED
  BY <1>6, <1>7, <1>8

LEMMA EndpointInv ==
  ASSUME KeywordInv, NEW w \in IndexWorkers,
         RequestIndex(w) \/ BuildMemory(w) \/ RecordIndex(w)
  PROVE  KeywordInv'
<1>1. CASE RecordIndex(w)
  BY <1>1 DEF RecordIndex, ServiceStep, KeywordInv, KeywordShape
<1>2. CASE RequestIndex(w) \/ BuildMemory(w)
  <2>1. /\ UNCHANGED <<chunks, rows, warmup, stamps, disturbed>>
        /\ disk' = disk \/ \E m : disk' = Pickled(m)
    BY <1>2 DEF RequestIndex, BuildMemory, ServiceStep
  <2>2. DOMAIN disk' = DOMAIN disk /\ disk'[Default] = disk[Default]
    BY <2>1, Files DEF Pickled, KeywordInv, KeywordShape
  <2> QED
    BY <2>1, <2>2
    DEF KeywordInv, KeywordShape, RowHolds, WrittenFile, OneBuilder, Working, WarmupKnows,
        StaleRow
<1> QED
  BY <1>1, <1>2

(* What the start of a worker relies on holds for any number of workers,   *)
(* chunks, requests and crashes, until two of them overlap or an endpoint  *)
(* makes a row.                                                            *)
THEOREM KeywordInvariance == KeywordSpec => []KeywordInv
<1>1. KeywordInv /\ [KeywordNext]_keywordVars => KeywordInv'
  <2>1. CASE UNCHANGED keywordVars
    BY <2>1
    DEF keywordVars, KeywordInv, KeywordShape, RowHolds, WrittenFile, OneBuilder, Working,
        WarmupKnows, StaleRow
  <2> QED
    BY <2>1, AddChunkInv, WarmupStepInv, IndexCrashInv, EndpointInv DEF KeywordNext
<1> QED
  BY <1>1, KeywordInitInv, PTL DEF KeywordSpec

(* Counting is enough: whatever was lost before, the start of a worker     *)
(* ends with an index that has every chunk it saw.                         *)
THEOREM ChunksAreFound == KeywordSpec => []AddedChunksAreFound
<1>1. KeywordInv => AddedChunksAreFound
  <2> SUFFICES ASSUME KeywordInv, NEW w \in IndexWorkers, warmup[w].at = "done", ~disturbed,
                      warmup[w].seen # {}
               PROVE  warmup[w].seen \subseteq Loadable
    BY DEF AddedChunksAreFound
  <2>1. /\ Default \in DOMAIN rows /\ disk[Default].kind = "engine"
        /\ warmup[w].seen \subseteq disk[Default].ids
    BY DEF KeywordInv, WarmupKnows
  <2>2. Newest = {Default} /\ rows[Default].file = Default
    BY <2>1 DEF KeywordInv, RowHolds, Newest, Active
  <2> QED
    BY <2>1, <2>2 DEF Loadable
<1> QED
  BY <1>1, KeywordInvariance, PTL

-----------------------------------------------------------------------------
(* AuditAgent: the verdict is of all that was found.                         *)

\* The rules find ranks.
LEMMA FoundAreRanks ==
  ASSUME NEW request \in AuditRequests
  PROVE  ViolationsFound(request) \in Seq(Ranks)
<1>1. request.hits \in Seq(Ranks) /\ request.file \in RiskFiles \cup {NoRiskFile}
  BY AuditAgentAssumption DEF AuditRequests
<1>2. RiskViolations(request.file) \in Seq(Ranks)
  <2> DEFINE file == request.file
             gaps == [i \in 1..file.gaps |-> 2]
             R == Ranks
  <2>1. CASE ~wired \/ file = NoRiskFile
    BY <2>1 DEF RiskViolations
  <2>2. CASE wired /\ file # NoRiskFile
    <3>1. file.gaps \in Nat /\ file.score \in 0..100
      BY <1>1, <2>2, AuditAgentAssumption
    <3>2. RiskRank(file.score) \in R /\ 2 \in R
      BY <3>1 DEF RiskRank, Ranks
    <3> HIDE DEF R
    <3>3. gaps \in Seq(R)
      BY <3>1, <3>2, SeqDef
    <3>4. <<RiskRank(file.score)>> \in Seq(R)
      BY <3>2
    <3>5. <<RiskRank(file.score)>> \o gaps \in Seq(R)
      BY <3>3, <3>4, ConcatProperties
    <3> QED
      BY <2>2, <3>5 DEF RiskViolations, R
  <2> QED
    BY <2>1, <2>2
<1> QED
  BY <1>1, <1>2, ConcatProperties DEF ViolationsFound

LEMMA AtLeastBounds ==
  ASSUME NEW found \in Seq(Ranks), NEW r \in 1..5
  PROVE  /\ AtLeast(found, r) \in Nat
         /\ AtLeast(found, r) = 0 <=> \A k \in DOMAIN found : found[k] < r
         /\ r = 1 => AtLeast(found, r) = Len(found)
<1> DEFINE S == {k \in DOMAIN found : found[k] >= r}
<1>1. DOMAIN found = 1..Len(found) /\ Len(found) \in Nat
      /\ \A k \in DOMAIN found : found[k] \in Ranks
  BY ElementOfSeq, LenProperties
<1>2. IsFiniteSet(1..Len(found)) /\ Cardinality(1..Len(found)) = Len(found)
  BY <1>1, FS_Interval
<1>3. IsFiniteSet(S)
  BY <1>1, <1>2, FS_Subset
<1>4. Cardinality(S) \in Nat /\ (Cardinality(S) = 0 <=> S = {})
  BY <1>3, FS_CardinalityType, FS_EmptySet
<1>5. S = {} <=> \A k \in DOMAIN found : found[k] < r
  BY <1>1 DEF Ranks
<1>6. r = 1 => S = 1..Len(found)
  BY <1>1 DEF Ranks
<1> QED
  BY <1>2, <1>4, <1>5, <1>6 DEF AtLeast

\* There is an i-th most severe: the numbers of those at least as severe as
\* each rank grow from none to all of them.
LEMMA SevereIs ==
  ASSUME NEW found \in Seq(Ranks), NEW i \in 1..Len(found)
  PROVE  /\ Severe(found, i) \in Ranks
         /\ AtLeast(found, Severe(found, i) + 1) < i
         /\ i <= AtLeast(found, Severe(found, i))
<1> DEFINE n(r) == AtLeast(found, r)
<1>1. Len(found) \in Nat
  BY LenProperties
<1>2. n(1) = Len(found) /\ n(5) = 0 /\ \A r \in 1..5 : n(r) \in Nat
  <2>1. DOMAIN found = 1..Len(found) /\ \A k \in DOMAIN found : found[k] \in Ranks
    BY ElementOfSeq, LenProperties
  <2>2. \A k \in DOMAIN found : found[k] < 5
    BY <2>1 DEF Ranks
  <2> QED
    BY <2>2, AtLeastBounds
<1> HIDE DEF n
<1>3. \E r \in Ranks : n(r + 1) < i /\ i <= n(r)
  <2>1. CASE n(2) < i
    BY <1>1, <1>2, <2>1 DEF Ranks
  <2>2. CASE i <= n(2) /\ n(3) < i
    BY <1>1, <1>2, <2>2 DEF Ranks
  <2>3. CASE i <= n(3) /\ n(4) < i
    BY <1>1, <1>2, <2>3 DEF Ranks
  <2>4. CASE i <= n(4)
    BY <1>1, <1>2, <2>4 DEF Ranks
  <2> QED
    BY <1>1, <1>2, <2>1, <2>2, <2>3, <2>4
<1> QED
  BY <1>3 DEF Severe, n

\* What the cut keeps is found, and with it the most severe that was found.
LEMMA CutKeepsTheWorst ==
  ASSUME NEW found \in Seq(Ranks), NEW max \in Nat \ {0}
  PROVE  /\ (Cut(found, max) = <<>>) <=> (found = <<>>)
         /\ (\E i \in DOMAIN Cut(found, max) : Cut(found, max)[i] >= 3)
              <=> (\E k \in DOMAIN found : found[k] >= 3)
<1>1. DOMAIN found = 1..Len(found) /\ Len(found) \in Nat
      /\ \A k \in DOMAIN found : found[k] \in Ranks
  BY ElementOfSeq, LenProperties
<1>2. CASE Len(found) <= max
  BY <1>2 DEF Cut
<1>3. CASE Len(found) > max
  <2> DEFINE cut == [i \in 1..max |-> Severe(found, i)]
  <2>1. Cut(found, max) = cut
    BY <1>1, <1>3 DEF Cut
  <2>2. found # <<>> /\ cut # <<>>
    <3>1. 1 \in DOMAIN found /\ 1 \in DOMAIN cut
      BY <1>1, <1>3
    <3>2. DOMAIN <<>> = {}
      OBVIOUS
    <3> QED
      BY <3>1, <3>2
  <2>3. ASSUME NEW i \in 1..max, cut[i] >= 3
        PROVE  \E k \in DOMAIN found : found[k] >= 3
    <3> DEFINE r == Severe(found, i)
    <3>1. r \in Ranks /\ i <= AtLeast(found, r) /\ r >= 3
      BY <1>1, <1>3, <2>3, SevereIs
    <3> HIDE DEF r
    <3>2. AtLeast(found, r) # 0 /\ r \in 1..5
      BY <3>1, AtLeastBounds DEF Ranks
    <3>3. ~ \A k \in DOMAIN found : found[k] < r
      BY <3>2, AtLeastBounds
    <3> QED
      BY <1>1, <3>1, <3>3 DEF Ranks
  <2>4. ASSUME NEW k \in DOMAIN found, found[k] >= 3
        PROVE  cut[1] >= 3
    <3> DEFINE r == Severe(found, 1)
    <3>1. r \in Ranks /\ AtLeast(found, r + 1) < 1
      BY <1>1, <1>3, SevereIs
    <3>2. r + 1 \in 1..5
      BY <3>1 DEF Ranks
    <3>3. AtLeast(found, r + 1) = 0
      BY <3>1, <3>2, AtLeastBounds
    <3>4. found[k] < r + 1
      BY <3>2, <3>3, AtLeastBounds
    <3> QED
      BY <1>1, <2>4, <3>1, <3>4 DEF Ranks
  <2>5. 1 \in 1..max /\ DOMAIN cut = 1..max
    OBVIOUS
  <2> QED
    BY <2>1, <2>2, <2>3, <2>4, <2>5
<1> QED
  BY <1>1, <1>2, <1>3

(* A run's verdict is that of everything the rules found, for every query, *)
(* assessment, cut and state of the log: what max_violations drops never   *)
(* changes it (AuditAgent._cut and _verdict).                              *)
THEOREM VerdictIsOfAll == AuditAgentSpec => []VerdictSeesAllFindings
<1>1. AuditAgentInit => VerdictSeesAllFindings
  BY DEF AuditAgentInit, VerdictSeesAllFindings
<1>2. ASSUME NEW request \in AuditRequests, NEW recommended
      PROVE  LET a == Answer(request, recommended) IN
             /\ (a.status = "non_compliant") <=>
                  (a.chain = "broken" \/ \E i \in DOMAIN a.found : a.found[i] >= 3)
             /\ a.status = "compliant" => a.found = <<>>
  <2> DEFINE found == ViolationsFound(request)
             kept == Cut(found, request.violations)
             chain == ChainSeen(request)
  <2>1. found \in Seq(Ranks) /\ request.violations \in Nat \ {0}
    BY FoundAreRanks, AuditAgentAssumption DEF AuditRequests
  <2>2. /\ (kept = <<>>) <=> (found = <<>>)
        /\ (\E i \in DOMAIN kept : kept[i] >= 3) <=> (\E k \in DOMAIN found : found[k] >= 3)
    BY <2>1, CutKeepsTheWorst
  <2>3. /\ Answer(request, recommended).status = Verdict(kept, chain)
        /\ Answer(request, recommended).chain = chain
        /\ Answer(request, recommended).found = found
    BY DEF Answer
  <2> HIDE DEF found, kept, chain
  <2>4. /\ (Verdict(kept, chain) = "non_compliant") <=>
             (chain = "broken" \/ \E i \in DOMAIN found : found[i] >= 3)
        /\ Verdict(kept, chain) = "compliant" => found = <<>>
    <3>1. <<>> = found => ~ \E i \in DOMAIN found : found[i] >= 3
      BY DEF found
    <3> QED
      BY <2>2, <3>1 DEF Verdict
  <2> QED
    BY <2>3, <2>4
<1>3. VerdictSeesAllFindings /\ [AuditAgentNext]_auditAgentVars => VerdictSeesAllFindings'
  <2> SUFFICES ASSUME VerdictSeesAllFindings, [AuditAgentNext]_auditAgentVars
               PROVE  VerdictSeesAllFindings'
    OBVIOUS
  <2>1. CASE \E request \in AuditRequests, recommended \in BOOLEAN : RunAudit(request, recommended)
    BY <1>2, <2>1 DEF RunAudit, VerdictSeesAllFindings
  <2>2. CASE verdict' = verdict \/ verdict' = {}
    BY <2>2 DEF VerdictSeesAllFindings
  <2> QED
    BY <2>1, <2>2 DEF AuditAgentNext, LogOther, RestartAgent, auditAgentVars
<1> QED
  BY <1>1, <1>3, PTL DEF AuditAgentSpec

-----------------------------------------------------------------------------
(* IntelligenceAgents: an answer is consistent in itself.                    *)

\* What the compliance agent hands out.
SoundCompliance(c) ==
  /\ \A g \in DOMAIN c.gaps : \E i \in DOMAIN c.actions :
       c.actions[i].gap = g /\ c.actions[i].priority = c.gaps[g] /\ c.actions[i].days <= Days(c.gaps[g])
  /\ \A i \in DOMAIN c.actions : c.actions[i].gap \in {0} \cup DOMAIN c.gaps
  /\ c.confidence \in 35..60

\* What the risk agent hands out.
SoundRisk(r) ==
  /\ \A k, l \in DOMAIN r.scenarios : Adjustment[k] <= Adjustment[l] =>
       /\ r.scenarios[k].score <= r.scenarios[l].score
       /\ Rank(r.scenarios[k].level) <= Rank(r.scenarios[l].level)
  /\ r.forecast.lower <= r.forecast.predicted /\ r.forecast.predicted <= r.forecast.upper

\* The gaps that are answered are the first of the assessment's.
LEMMA GapsAreLevels ==
  ASSUME NEW assessment, assessment.gaps \in Seq(Levels), NEW max \in Nat
  PROVE  GapsOf(assessment, max) \in Seq(Levels)
<1> DEFINE gaps == assessment.gaps
<1>1. gaps \in Seq(Levels) /\ Len(gaps) \in Nat /\ \A i \in 1..Len(gaps) : gaps[i] \in Levels
  BY LenProperties, ElementOfSeq
<1> HIDE DEF gaps
<1>2. Len(gaps) > max => SubSeq(gaps, 1, max) \in Seq(Levels)
  <2>1. Len(gaps) > max => \A i \in 1..max : gaps[i] \in Levels
    BY <1>1
  <2> QED
    BY <2>1, SubSeqProperties
<1> QED
  BY <1>1, <1>2 DEF GapsOf, gaps

\* An action for every gap, and none for another.
LEMMA EveryGapAddressed ==
  ASSUME NEW gaps \in Seq(Levels), NEW recommended \in Seq(Levels)
  PROVE  LET actions == ActionsFor(gaps, recommended)
         IN /\ \A g \in DOMAIN gaps : \E i \in DOMAIN actions :
                 actions[i].gap = g /\ actions[i].priority = gaps[g] /\ actions[i].days <= Days(gaps[g])
            /\ \A i \in DOMAIN actions : actions[i].gap \in {0} \cup DOMAIN gaps
<1> DEFINE A == [priority : Levels, days : Int, gap : Nat]
           first == [i \in DOMAIN recommended |-> ActionFor(recommended[i], 0)]
           later == [i \in DOMAIN gaps |-> ActionFor(gaps[i], i)]
           n == Len(recommended)
           m == Len(gaps)
           actions == first \o later
<1>1. /\ n \in Nat /\ DOMAIN recommended = 1..n /\ \A i \in 1..n : recommended[i] \in Levels
      /\ m \in Nat /\ DOMAIN gaps = 1..m /\ \A i \in 1..m : gaps[i] \in Levels
  BY LenProperties, ElementOfSeq
<1>2. \A level \in Levels, gap \in Nat :
        /\ ActionFor(level, gap) \in A /\ ActionFor(level, gap).gap = gap
        /\ ActionFor(level, gap).priority = level /\ ActionFor(level, gap).days = Days(level)
        /\ Days(level) <= Days(level)
  BY DEF ActionFor, Days, Levels
<1>3. first \in [1..n -> A] /\ \A i \in 1..n : first[i].gap = 0
  BY <1>1, <1>2
<1>4. later \in [1..m -> A] /\ \A i \in 1..m : later[i] = ActionFor(gaps[i], i)
  BY <1>1, <1>2
<1> HIDE DEF A, n, m
<1>5. first \in Seq(A) /\ Len(first) = n /\ later \in Seq(A) /\ Len(later) = m
  <2>1. first \in Seq(A) /\ later \in Seq(A)
    BY <1>1, <1>3, <1>4, SeqDef
  <2>2. DOMAIN first = 1..n /\ DOMAIN later = 1..m
    BY <1>1
  <2> QED
    BY <1>1, <2>1, <2>2, LenProperties
<1> HIDE DEF first, later
<1>6. /\ DOMAIN actions = 1..(n + m)
      /\ \A i \in 1..(n + m) : actions[i] = IF i <= n THEN first[i] ELSE later[i - n]
  <2>1. actions \in Seq(A) /\ Len(actions) = n + m
    BY <1>5, ConcatProperties
  <2>2. \A i \in 1..(n + m) : actions[i] = IF i <= n THEN first[i] ELSE later[i - n]
    BY <1>5, ConcatProperties
  <2>3. DOMAIN actions = 1..(n + m)
    BY <2>1, LenProperties
  <2> QED
    BY <2>2, <2>3
<1>7. ActionsFor(gaps, recommended) = actions
  BY DEF ActionsFor, first, later
<1> HIDE DEF actions
<1>8. ASSUME NEW g \in 1..m
      PROVE  \E i \in DOMAIN actions :
               actions[i].gap = g /\ actions[i].priority = gaps[g] /\ actions[i].days <= Days(gaps[g])
  <2>1. n + g \in 1..(n + m) /\ ~(n + g <= n) /\ (n + g) - n = g /\ g \in Nat
    BY <1>1
  <2>2. actions[n + g] = ActionFor(gaps[g], g)
    BY <1>4, <1>6, <2>1
  <2>3. gaps[g] \in Levels
    BY <1>1
  <2> QED
    BY <1>2, <1>6, <2>1, <2>2, <2>3
<1>9. ASSUME NEW i \in DOMAIN actions
      PROVE  actions[i].gap \in {0} \cup DOMAIN gaps
  <2>1. i \in 1..(n + m)
    BY <1>6
  <2>2. CASE i <= n
    <3>1. i \in 1..n
      BY <1>1, <2>1, <2>2
    <3> QED
      BY <1>3, <1>6, <2>1, <2>2, <3>1
  <2>3. CASE ~(i <= n)
    <3>1. i - n \in 1..m /\ i - n \in Nat
      BY <1>1, <2>1, <2>3
    <3>2. actions[i] = ActionFor(gaps[i - n], i - n) /\ gaps[i - n] \in Levels
      BY <1>1, <1>4, <1>6, <2>1, <2>3, <3>1
    <3> QED
      BY <1>1, <1>2, <3>1, <3>2
  <2> QED
    BY <2>2, <2>3
<1> QED
  BY <1>1, <1>7, <1>8, <1>9

LEMMA CompliedIsSound ==
  ASSUME NEW assessment, assessment.gaps \in Seq(Levels), NEW max \in Nat, NEW focus, 
         NEW recommended \in Seq(Levels)
  PROVE  SoundCompliance(Complied(assessment, max, focus, recommended))
<1> DEFINE gaps == GapsOf(assessment, max)
           c == Complied(assessment, max, focus, recommended)
<1>1. gaps \in Seq(Levels)
  BY GapsAreLevels
<1>2. c.gaps = gaps /\ c.actions = ActionsFor(gaps, recommended) /\ c.confidence = ComplianceConfidence(gaps)
  BY DEF Complied
<1>3. ComplianceConfidence(gaps) \in 35..60
  <2>1. Len(gaps) \in Nat
    BY <1>1, LenProperties
  <2> DEFINE n == IF Len(gaps) < 5 THEN Len(gaps) ELSE 5
  <2>2. n \in 0..5
    <3>1. \A k \in Nat : (IF k < 5 THEN k ELSE 5) \in 0..5
      OBVIOUS
    <3> QED
      BY <2>1, <3>1
  <2>3. ComplianceConfidence(gaps) = 60 - 5 * n
    BY DEF ComplianceConfidence
  <2> HIDE DEF n
  <2> QED
    BY <2>2, <2>3
<1> HIDE DEF gaps, c
<1>4. SoundCompliance(c)
  BY <1>1, <1>2, <1>3, EveryGapAddressed DEF SoundCompliance
<1> QED
  BY <1>4 DEF c

\* A higher score has no lower level.
LEMMA ScoresGrow ==
  ASSUME NEW baseline \in Int, NEW d \in Int, NEW e \in Int, d <= e
  PROVE  /\ Clamp(baseline + d) <= Clamp(baseline + e)
         /\ Rank(LevelFromScore(Clamp(baseline + d))) <= Rank(LevelFromScore(Clamp(baseline + e)))
<1>1. Clamp(baseline + d) \in Int /\ Clamp(baseline + e) \in Int /\ Clamp(baseline + d) <= Clamp(baseline + e)
  BY DEF Clamp
<1>2. \A x, y \in Int : x <= y => Rank(LevelFromScore(x)) <= Rank(LevelFromScore(y))
  BY DEF Rank, LevelFromScore
<1> QED
  BY <1>1, <1>2

LEMMA ProjectedIsSound ==
  ASSUME NEW assessment, Baseline(assessment).score \in 0..100, NEW projection, NEW kinds \in SUBSET DOMAIN Adjustment,
         NEW trend, NEW drift,
         projection.lower <= projection.predicted, projection.predicted <= projection.upper
  PROVE  SoundRisk(Projected(assessment, projection, kinds, trend, drift))
<1> DEFINE r == Projected(assessment, projection, kinds, trend, drift)
           b == Baseline(assessment).score
<1>1. r.forecast = projection /\ r.scenarios = [k \in kinds |-> Scenario(k, b)]
  BY DEF Projected
<1> HIDE DEF r
<1>2. \A k \in kinds : Adjustment[k] \in Int
  BY DEF Adjustment
<1>3. \A k \in kinds : /\ r.scenarios[k].score = Clamp(b + Adjustment[k])
                       /\ r.scenarios[k].level = LevelFromScore(Clamp(b + Adjustment[k]))
  BY <1>1 DEF Scenario
<1>4. b \in Int
  OBVIOUS
<1> HIDE DEF b
<1>5. \A k, l \in kinds : Adjustment[k] <= Adjustment[l] =>
        /\ r.scenarios[k].score <= r.scenarios[l].score
        /\ Rank(r.scenarios[k].level) <= Rank(r.scenarios[l].level)
  BY <1>2, <1>3, <1>4, ScoresGrow
<1>6. DOMAIN r.scenarios = kinds
  BY <1>1
<1> QED
  BY <1>1, <1>5, <1>6 DEF SoundRisk, r

LEMMA ProjectionsBounded ==
  ASSUME NEW predicted \in 0..100, NEW confidence
  PROVE  LET p == Projection(predicted, confidence)
         IN p.lower <= p.predicted /\ p.predicted <= p.upper
BY DEF Projection, Clamp

LEMMA ForecastsBounded ==
  ASSUME NEW baseline \in 0..100, NEW p \in Forecasts(baseline)
  PROVE  p.lower <= p.predicted /\ p.predicted <= p.upper
<1>1. \A d \in {-10, 10} : Clamp(baseline + d) \in 0..100
  BY DEF Clamp
<1>2. PICK predicted \in 0..100, confidence \in {40, 50, 80} : p = Projection(predicted, confidence)
  BY <1>1 DEF Forecasts
<1> QED
  BY <1>2, ProjectionsBounded

\* What requests may name: an assessment on file or none.
LEMMA AssessmentsAreFit ==
  ASSUME NEW assessment \in Assessments \cup {NoAssessment}
  PROVE  assessment.gaps \in Seq(Levels) /\ Baseline(assessment).score \in 0..100
<1>1. NoAssessment.gaps \in Seq(Levels)
  BY EmptySeq DEF NoAssessment
<1>2. assessment # NoAssessment => assessment.gaps \in Seq(Levels) /\ assessment.score \in 0..100
  BY IntelligenceAssumption
<1> QED
  BY <1>1, <1>2 DEF Baseline

\* Whatever is asked of the agents, alone or one after the other, and
\* whatever is on file: what they answer is consistent in itself
\* (ComplianceIntelligenceAgent.execute, RiskIntelligenceAgent.execute,
\* AgentCoordinator.run_full_pipeline).
THEOREM AnswersStayConsistent == IntelligenceSpec => []AnswersConsistent
<1>1. IntelligenceInit => AnswersConsistent
  BY DEF IntelligenceInit, Undelivered, AnswersConsistent, Agents
<1>2. ASSUME AnswersConsistent, [IntelligenceNext]_intelligenceVars
      PROVE  AnswersConsistent'
  <2> DEFINE Fits(d) == /\ \A c \in d["compliance"] : SoundCompliance(c)
                        /\ \A r \in d["risk"] : SoundRisk(r)
  <2>0. Fits(delivered)
    BY <1>2 DEF AnswersConsistent, SoundCompliance, SoundRisk
  <2>a. "compliance" \in Agents /\ "risk" \in Agents /\ "research" \in Agents
    BY DEF Agents
  <2>b. Undelivered = [a \in Agents |-> {}] /\ Fits(Undelivered)
    BY <2>a DEF Undelivered
  <2>1. ASSUME UNCHANGED delivered \/ delivered' = Undelivered PROVE Fits(delivered')
    BY <2>0, <2>1, <2>b
  <2>2. ASSUME NEW query, NEW inMode, NEW max, NEW ran, NEW entities, NEW years,
               RunResearch(query, inMode, max, ran, entities, years)
        PROVE  Fits(delivered')
    <3>1. delivered'["compliance"] = {} /\ delivered'["risk"] = {}
      BY <2>2, <2>a, <2>b DEF RunResearch
    <3> QED
      BY <3>1
  <2>3. ASSUME NEW query, NEW inMode, NEW entities, NEW years, Coordinate(query, inMode, entities, years)
        PROVE  Fits(delivered')
    <3>1. CASE query = "short"
      <4> DEFINE focus == Focused(Researched(inMode, 8, TRUE, entities, years).findings)
                 c == Complied(NoAssessment, 20, focus, <<>>)
                 r == Projected(NoAssessment, Projection(50, 50), ScenarioKinds, FALSE, FALSE)
      <4>0. delivered' = [research |-> {Researched(inMode, 8, TRUE, entities, years)}, compliance |-> {c}, risk |-> {r}]
        BY <2>3, <3>1 DEF Coordinate
      <4>1. delivered'["compliance"] = {c} /\ delivered'["risk"] = {r}
        <5> HIDE DEF c, r
        <5> QED
          BY <4>0
      <4>2. <<>> \in Seq(Levels) /\ NoAssessment \in Assessments \cup {NoAssessment} /\ 50 \in 0..100
        BY EmptySeq
      <4>3. SoundCompliance(c)
        BY <4>2, AssessmentsAreFit, CompliedIsSound
      <4>4. SoundRisk(r)
        <5>1. ScenarioKinds \in SUBSET DOMAIN Adjustment
          BY IntelligenceAssumption
        <5>2. Baseline(NoAssessment).score \in 0..100
          BY <4>2, AssessmentsAreFit
        <5>3. Projection(50, 50).lower <= Projection(50, 50).predicted
              /\ Projection(50, 50).predicted <= Projection(50, 50).upper
          BY <4>2, ProjectionsBounded
        <5> QED
          BY <5>1, <5>2, <5>3, ProjectedIsSound
      <4> HIDE DEF c, r
      <4> QED
        BY <4>1, <4>3, <4>4
    <3>2. CASE query # "short"
      BY <2>1, <2>3, <3>2 DEF Coordinate
    <3> QED
      BY <3>1, <3>2
  <2>4. ASSUME NEW assessment \in Assessments \cup {NoAssessment}, NEW max \in {1, 20}, NEW focus \in {0, 1},
               NEW recommended \in Priorities \cup {<<>>}, RunCompliance(assessment, max, focus, recommended)
        PROVE  Fits(delivered')
    <3> DEFINE c == Complied(assessment, max, focus, recommended)
    <3>1. delivered'["compliance"] = {c} /\ delivered'["risk"] = {}
      BY <2>4, <2>a, <2>b DEF RunCompliance
    <3>2. recommended \in Seq(Levels)
      BY EmptySeq, IntelligenceAssumption
    <3>3. SoundCompliance(c)
      BY <3>2, AssessmentsAreFit, CompliedIsSound
    <3> HIDE DEF c
    <3> QED
      BY <3>1, <3>3
  <2>5. ASSUME NEW assessment \in Assessments \cup {NoAssessment}, NEW kinds \in {{}, ScenarioKinds},
               NEW trend \in BOOLEAN, NEW drift \in BOOLEAN,
               NEW projection \in Forecasts(Baseline(assessment).score),
               RunRisk(assessment, projection, kinds, trend, drift)
        PROVE  Fits(delivered')
    <3> DEFINE r == Projected(assessment, projection, kinds, trend, drift)
    <3>1. delivered'["compliance"] = {} /\ delivered'["risk"] = {r}
      BY <2>5, <2>a, <2>b DEF RunRisk
    <3>2. kinds \in SUBSET DOMAIN Adjustment
      BY IntelligenceAssumption
    <3>3. Baseline(assessment).score \in 0..100
      BY AssessmentsAreFit
    <3>4. projection.lower <= projection.predicted /\ projection.predicted <= projection.upper
      BY <3>3, ForecastsBounded
    <3>5. SoundRisk(r)
      BY <3>2, <3>3, <3>4, ProjectedIsSound
    <3> HIDE DEF r
    <3> QED
      BY <3>1, <3>5
  <2>6. ASSUME NEW kind, NEW max, NEW found, RunReport(kind, max, found) PROVE UNCHANGED delivered
    BY <2>6 DEF RunReport
  <2>7. ResetAgents \/ RestartAgents => UNCHANGED delivered \/ delivered' = Undelivered
    BY DEF ResetAgents, RestartAgents
  <2>8. UNCHANGED intelligenceVars => UNCHANGED delivered
    BY DEF intelligenceVars
  <2>9. Fits(delivered')
    BY <2>1, <2>2, <2>3, <2>4, <2>5, <2>6, <2>7, <2>8, <1>2 DEF IntelligenceNext
  <2> QED
    BY <2>9 DEF AnswersConsistent, SoundCompliance, SoundRisk
<1> QED
  BY <1>1, <1>2, PTL DEF IntelligenceSpec

-----------------------------------------------------------------------------
(* IntelligenceAgents: the counters tell one story.                          *)

Cells(f) == UNION {{k} \X (1..f[k]) : k \in DOMAIN f}
Raised(f, key, g) == g = [f EXCEPT ![key] = @ + 1]

\* An element that is counted is a key with one of its numbers.
LEMMA InCells ==
  ASSUME NEW f
  PROVE  \A x : x \in Cells(f) <=> \E k \in DOMAIN f : \E i \in 1..f[k] : x = <<k, i>>
BY DEF Cells

\* Where every count is zero nothing is counted.
LEMMA NoneCounted ==
  ASSUME NEW S, NEW f, f = [k \in S |-> 0]
  PROVE  IsFiniteSet(Cells(f)) /\ SumOver(f) = 0
<1>1. Cells(f) = {}
  <2>1. \A k \in DOMAIN f : 1..f[k] = {}
    OBVIOUS
  <2>2. QED
    BY <2>1, InCells
<1>2. QED
  BY <1>1, FS_EmptySet DEF SumOver, Cells

\* Raising one count by one raises the sum by one.
LEMMA OneCounted ==
  ASSUME NEW S, NEW f \in [S -> Nat], IsFiniteSet(Cells(f)), NEW key \in S, NEW g, Raised(f, key, g)
  PROVE  IsFiniteSet(Cells(g)) /\ SumOver(g) = SumOver(f) + 1 /\ SumOver(f) \in Nat
         /\ g \in [S -> Nat] /\ g[key] = f[key] + 1 /\ \A k \in S \ {key} : g[k] = f[k]
<1>1. g \in [S -> Nat] /\ g[key] = f[key] + 1 /\ \A k \in S \ {key} : g[k] = f[k]
  BY DEF Raised
<1> DEFINE x == <<key, f[key] + 1>>
<1>2. x \notin Cells(f)
  <2>1. ASSUME x \in Cells(f) PROVE FALSE
    <3>1. PICK k \in DOMAIN f : \E i \in 1..f[k] : x = <<k, i>>
      BY <2>1, InCells
    <3>2. PICK i \in 1..f[k] : x = <<k, i>>
      BY <3>1
    <3>3. k = key /\ i = f[key] + 1
      BY <3>2
    <3>4. f[key] \in Nat /\ i \in 1..f[key]
      BY <3>2, <3>3
    <3>5. QED
      BY <3>3, <3>4
  <2>2. QED
    BY <2>1
<1>3. Cells(g) = Cells(f) \cup {x}
  <2>1. ASSUME NEW y \in Cells(g) PROVE y \in Cells(f) \cup {x}
    <3>1. PICK k \in DOMAIN g : \E i \in 1..g[k] : y = <<k, i>>
      BY <2>1, InCells
    <3>2. PICK i \in 1..g[k] : y = <<k, i>>
      BY <3>1
    <3>3. k \in S /\ f[k] \in Nat /\ (k = key => g[k] = f[k] + 1) /\ (k # key => g[k] = f[k])
      BY <1>1, <3>1
    <3>4. i \in 1..f[k] \/ (k = key /\ i = f[key] + 1)
      BY <3>2, <3>3
    <3>5. CASE i \in 1..f[k]
      BY <3>2, <3>3, <3>5, InCells
    <3>6. CASE k = key /\ i = f[key] + 1
      BY <3>2, <3>6
    <3>7. QED
      BY <3>4, <3>5, <3>6
  <2>2. ASSUME NEW y \in Cells(f) PROVE y \in Cells(g)
    <3>1. PICK k \in DOMAIN f : \E i \in 1..f[k] : y = <<k, i>>
      BY <2>2, InCells
    <3>2. PICK i \in 1..f[k] : y = <<k, i>>
      BY <3>1
    <3>3. k \in S /\ f[k] \in Nat /\ (k = key => g[k] = f[k] + 1) /\ (k # key => g[k] = f[k])
      BY <1>1, <3>1
    <3>4. i \in 1..g[k] /\ k \in DOMAIN g
      BY <1>1, <3>2, <3>3
    <3>5. QED
      BY <3>2, <3>4, InCells
  <2>3. x \in Cells(g)
    <3>1. f[key] \in Nat /\ key \in DOMAIN g /\ g[key] = f[key] + 1
      BY <1>1
    <3>2. f[key] + 1 \in 1..g[key]
      BY <3>1
    <3>3. QED
      BY <3>1, <3>2, InCells
  <2>4. QED
    BY <2>1, <2>2, <2>3
<1> HIDE DEF x
<1>4. IsFiniteSet(Cells(f) \cup {x}) /\ Cardinality(Cells(f) \cup {x}) = Cardinality(Cells(f)) + 1
  BY <1>2, FS_AddElement
<1>5. Cardinality(Cells(f)) \in Nat
  BY FS_CardinalityType
<1>6. SumOver(f) = Cardinality(Cells(f)) /\ SumOver(g) = Cardinality(Cells(g))
  BY DEF SumOver, Cells
<1>7. QED
  BY <1>1, <1>3, <1>4, <1>5, <1>6

-----------------------------------------------------------------------------
(* The metrics *)

MetricFields == {"total", "ok", "failed", "collaborations", "runs", "good", "bad", "modes", "pairs", "evidence"}
\* What holds of the metrics after each of their methods.
CountsShape(m) ==
  /\ DOMAIN m = MetricFields
  /\ m.total \in Nat /\ m.ok \in Nat /\ m.failed \in Nat /\ m.collaborations \in Nat /\ m.evidence \in Nat
  /\ m.runs \in [Agents -> Nat] /\ m.good \in [Agents -> Nat] /\ m.bad \in [Agents -> Nat]
  /\ m.modes \in [Modes -> Nat] /\ m.pairs \in [Handoffs -> Nat]
  /\ IsFiniteSet(Cells(m.runs)) /\ IsFiniteSet(Cells(m.modes)) /\ IsFiniteSet(Cells(m.pairs))
RunsAddUp(m) ==
  /\ m.total = m.ok + m.failed /\ m.total = SumOver(m.runs)
  /\ \A a \in Agents : m.runs[a] = m.good[a] + m.bad[a]
HandoffsAddUp(m) == m.collaborations = SumOver(m.pairs) /\ m.evidence = 2 * m.collaborations
CountsSound(m) == CountsShape(m) /\ RunsAddUp(m) /\ HandoffsAddUp(m)

\* _record_agent counts a run once, under its agent and its outcome.
LEMMA AgentRecorded ==
  ASSUME NEW m, CountsSound(m), NEW agent \in Agents, NEW succeeded \in BOOLEAN
  PROVE  LET r == RecordAgent(m, agent, succeeded)
         IN /\ CountsSound(r) /\ r.modes = m.modes /\ r.pairs = m.pairs
            /\ r.collaborations = m.collaborations /\ r.total = m.total + 1
            /\ r.runs[agent] = m.runs[agent] + 1 /\ \A a \in Agents \ {agent} : r.runs[a] = m.runs[a]
<1> DEFINE r == RecordAgent(m, agent, succeeded)
<1>1. DOMAIN m = MetricFields
  BY DEF CountsSound, CountsShape
<1>2. DOMAIN r = MetricFields /\ r.total = m.total + 1 /\ r.runs = [m.runs EXCEPT ![agent] = @ + 1]
      /\ r.modes = m.modes /\ r.pairs = m.pairs /\ r.collaborations = m.collaborations
      /\ r.evidence = m.evidence
  BY <1>1 DEF RecordAgent, RaiseLevel, MetricFields
<1>3. succeeded => r.ok = m.ok + 1 /\ r.failed = m.failed /\ r.good = [m.good EXCEPT ![agent] = @ + 1] /\ r.bad = m.bad
  BY <1>1 DEF RecordAgent, RaiseLevel, MetricFields
<1>4. ~succeeded => r.ok = m.ok /\ r.failed = m.failed + 1 /\ r.good = m.good /\ r.bad = [m.bad EXCEPT ![agent] = @ + 1]
  BY <1>1 DEF RecordAgent, RaiseLevel, MetricFields
<1> HIDE DEF r
<1>5. Raised(m.runs, agent, r.runs)
  BY <1>2 DEF Raised
<1>6. m.runs \in [Agents -> Nat] /\ IsFiniteSet(Cells(m.runs))
  BY DEF CountsSound, CountsShape
<1>7. /\ IsFiniteSet(Cells(r.runs)) /\ SumOver(r.runs) = SumOver(m.runs) + 1 /\ SumOver(m.runs) \in Nat
      /\ r.runs \in [Agents -> Nat] /\ r.runs[agent] = m.runs[agent] + 1
      /\ \A k \in Agents \ {agent} : r.runs[k] = m.runs[k]
  BY <1>5, <1>6, OneCounted
<1>8. /\ r.good \in [Agents -> Nat] /\ r.bad \in [Agents -> Nat] /\ r.ok \in Nat /\ r.failed \in Nat
      /\ r.ok + r.failed = m.ok + m.failed + 1
  BY <1>3, <1>4 DEF CountsSound, CountsShape
<1>9. \A a \in Agents : r.runs[a] = r.good[a] + r.bad[a]
  <2>1. m.good \in [Agents -> Nat] /\ m.bad \in [Agents -> Nat] /\ \A a \in Agents : m.runs[a] = m.good[a] + m.bad[a]
    BY DEF CountsSound, CountsShape, RunsAddUp
  <2>2. CASE succeeded
    BY <1>3, <1>7, <2>1, <2>2
  <2>3. CASE ~succeeded
    BY <1>4, <1>7, <2>1, <2>3
  <2>4. QED
    BY <2>2, <2>3
<1>10. m.total = m.ok + m.failed /\ m.total = SumOver(m.runs) /\ m.total \in Nat /\ m.ok \in Nat /\ m.failed \in Nat
  BY DEF CountsSound, CountsShape, RunsAddUp
<1>11. RunsAddUp(r) /\ r.total \in Nat
  BY <1>2, <1>7, <1>8, <1>9, <1>10 DEF RunsAddUp
<1>12. HandoffsAddUp(r)
  BY <1>2 DEF CountsSound, HandoffsAddUp
<1>13. CountsShape(r)
  BY <1>2, <1>7, <1>8, <1>11 DEF CountsSound, CountsShape
<1>14. QED
  BY <1>2, <1>7, <1>11, <1>12, <1>13 DEF r, CountsSound

\* record_research counts it under its mode too, failed or not.
LEMMA ResearchRecorded ==
  ASSUME NEW m, CountsSound(m), SumOver(m.modes) = m.runs["research"], NEW mode \in Modes, NEW succeeded \in BOOLEAN
  PROVE  LET r == RecordResearch(m, mode, succeeded)
         IN /\ CountsSound(r) /\ r.pairs = m.pairs /\ r.collaborations = m.collaborations
            /\ r.total = m.total + 1 /\ SumOver(r.modes) = r.runs["research"]
<1> DEFINE b == RecordAgent(m, "research", succeeded)
           r == RecordResearch(m, mode, succeeded)
<1>1. /\ CountsSound(b) /\ b.modes = m.modes /\ b.pairs = m.pairs /\ b.collaborations = m.collaborations
      /\ b.total = m.total + 1 /\ b.runs["research"] = m.runs["research"] + 1
  BY AgentRecorded DEF Agents
<1>2. r = [b EXCEPT !.modes = RaiseLevel(@, mode)]
  BY DEF RecordResearch
<1> HIDE DEF b, r
<1>3. DOMAIN b = MetricFields
  BY <1>1 DEF CountsSound, CountsShape
<1>4. /\ DOMAIN r = MetricFields /\ r.modes = [b.modes EXCEPT ![mode] = @ + 1]
      /\ r.total = b.total /\ r.ok = b.ok /\ r.failed = b.failed /\ r.collaborations = b.collaborations
      /\ r.evidence = b.evidence /\ r.runs = b.runs /\ r.good = b.good /\ r.bad = b.bad /\ r.pairs = b.pairs
  BY <1>2, <1>3 DEF MetricFields, RaiseLevel
<1>5. Raised(b.modes, mode, r.modes) /\ b.modes \in [Modes -> Nat] /\ IsFiniteSet(Cells(b.modes))
  BY <1>1, <1>4 DEF Raised, CountsSound, CountsShape
<1>6. /\ IsFiniteSet(Cells(r.modes)) /\ SumOver(r.modes) = SumOver(b.modes) + 1
      /\ r.modes \in [Modes -> Nat]
  BY <1>5, OneCounted
<1>7. CountsShape(r)
  BY <1>1, <1>4, <1>6 DEF CountsSound, CountsShape
<1>8. RunsAddUp(r) /\ HandoffsAddUp(r)
  BY <1>1, <1>4 DEF CountsSound, RunsAddUp, HandoffsAddUp
<1>9. SumOver(r.modes) = r.runs["research"]
  BY <1>1, <1>4, <1>6
<1>10. QED
  BY <1>1, <1>4, <1>7, <1>8, <1>9 DEF r, CountsSound

\* record_collaboration counts one hand-off, and two pieces of evidence.
LEMMA CollaborationRecorded ==
  ASSUME NEW m, CountsSound(m), NEW pair \in Handoffs
  PROVE  LET r == RecordCollaboration(m, pair)
         IN /\ CountsSound(r) /\ r.modes = m.modes /\ r.runs = m.runs /\ r.total = m.total
            /\ r.collaborations = m.collaborations + 1
            /\ r.pairs[pair] = m.pairs[pair] + 1 /\ \A h \in Handoffs \ {pair} : r.pairs[h] = m.pairs[h]
<1> DEFINE r == RecordCollaboration(m, pair)
<1>1. DOMAIN m = MetricFields
  BY DEF CountsSound, CountsShape
<1>2. /\ DOMAIN r = MetricFields /\ r.pairs = [m.pairs EXCEPT ![pair] = @ + 1]
      /\ r.collaborations = m.collaborations + 1 /\ r.evidence = m.evidence + 2
      /\ r.total = m.total /\ r.ok = m.ok /\ r.failed = m.failed
      /\ r.runs = m.runs /\ r.good = m.good /\ r.bad = m.bad /\ r.modes = m.modes
  BY <1>1 DEF RecordCollaboration, RaiseLevel, MetricFields
<1> HIDE DEF r
<1>3. Raised(m.pairs, pair, r.pairs) /\ m.pairs \in [Handoffs -> Nat] /\ IsFiniteSet(Cells(m.pairs))
  BY <1>2 DEF Raised, CountsSound, CountsShape
<1>4. /\ IsFiniteSet(Cells(r.pairs)) /\ SumOver(r.pairs) = SumOver(m.pairs) + 1
      /\ r.pairs \in [Handoffs -> Nat] /\ r.pairs[pair] = m.pairs[pair] + 1
      /\ \A h \in Handoffs \ {pair} : r.pairs[h] = m.pairs[h]
  BY <1>3, OneCounted
<1>5. CountsShape(r)
  BY <1>2, <1>4 DEF CountsSound, CountsShape
<1>6. RunsAddUp(r)
  BY <1>2 DEF CountsSound, RunsAddUp
<1>7. HandoffsAddUp(r)
  <2>1. m.collaborations \in Nat /\ m.evidence = 2 * m.collaborations /\ m.collaborations = SumOver(m.pairs)
    BY DEF CountsSound, CountsShape, HandoffsAddUp
  <2>2. QED
    BY <1>2, <1>4, <2>1 DEF HandoffsAddUp
<1>8. QED
  BY <1>2, <1>4, <1>5, <1>6, <1>7 DEF r, CountsSound

-----------------------------------------------------------------------------
(* The broker *)

FirstHandoff == "research->compliance"
SecondHandoff == "compliance->risk"
WithinCap(n) == IF n < HandoffCap THEN n ELSE HandoffCap
\* Within the capacity, and a first hand-off that is not the newest entry is
\* followed by the second.
BrokerHolds(items) ==
  /\ items \in Seq(Handoffs) /\ Len(items) <= HandoffCap
  /\ \A i \in 1..(Len(items) - 1) : items[i] = FirstHandoff => items[i + 1] = SecondHandoff
EndsWith(items, pair) == Len(items) > 0 => items[Len(items)] = pair

\* Recording appends at the end and shifts what was there by one, or not.
LEMMA RecordedAtTheEnd ==
  ASSUME NEW items \in Seq(Handoffs), Len(items) <= HandoffCap, NEW pair \in Handoffs
  PROVE  LET r == RecordedRun(items, pair)
         IN /\ r \in Seq(Handoffs) /\ Len(r) = WithinCap(Len(items) + 1) /\ Len(r) > 0 /\ r[Len(r)] = pair
            /\ \E d \in {0, 1} : /\ Len(r) + d = Len(items) + 1
                                 /\ \A i \in 1..(Len(r) - 1) : r[i] = items[i + d]
<1> DEFINE n == Len(items)
           longer == Append(items, pair)
           r == RecordedRun(items, pair)
<1>1. n \in Nat /\ HandoffCap \in Nat \ {0} /\ n <= HandoffCap
  BY LenProperties, IntelligenceAssumption
<1>2. /\ longer \in Seq(Handoffs) /\ Len(longer) = n + 1 /\ longer[n + 1] = pair
      /\ \A i \in 1..n : longer[i] = items[i]
  BY AppendProperties
<1> HIDE DEF longer
<1>3. r = IF n + 1 > HandoffCap THEN Tail(longer) ELSE longer
  BY <1>2 DEF RecordedRun, longer
<1> HIDE DEF r
<1>4. CASE n + 1 > HandoffCap
  <2>1. r = Tail(longer) /\ n = HandoffCap
    BY <1>1, <1>3, <1>4
  <2>2. /\ Tail(longer) \in Seq(Handoffs) /\ Len(Tail(longer)) = n
        /\ \A i \in 1..n : Tail(longer)[i] = longer[i + 1]
    <3>1. longer # << >>
      BY <1>1, <1>2, EmptySeq
    <3>2. QED
      BY <1>1, <1>2, <3>1, HeadTailProperties
  <2>3. r[n] = pair /\ \A i \in 1..(n - 1) : r[i] = items[i + 1]
    BY <1>1, <1>2, <2>1, <2>2
  <2>4. WithinCap(n + 1) = n
    BY <1>1, <2>1 DEF WithinCap
  <2>5. Len(r) = n /\ r \in Seq(Handoffs) /\ n > 0
    BY <1>1, <2>1, <2>2
  <2>6. \E d \in {0, 1} : Len(r) + d = n + 1 /\ \A i \in 1..(Len(r) - 1) : r[i] = items[i + d]
    <3>1. Len(r) + 1 = n + 1 /\ \A i \in 1..(Len(r) - 1) : r[i] = items[i + 1]
      BY <2>3, <2>5
    <3>2. QED
      BY <3>1
  <2>7. QED
    BY <2>3, <2>4, <2>5, <2>6 DEF r
<1>5. CASE ~(n + 1 > HandoffCap)
  <2>1. r = longer /\ n < HandoffCap
    BY <1>1, <1>3, <1>5
  <2>2. WithinCap(n + 1) = n + 1
    BY <1>1, <2>1 DEF WithinCap
  <2>3. Len(r) = n + 1 /\ r \in Seq(Handoffs) /\ n + 1 > 0 /\ r[n + 1] = pair
    BY <1>1, <1>2, <2>1
  <2>4. \E d \in {0, 1} : Len(r) + d = n + 1 /\ \A i \in 1..(Len(r) - 1) : r[i] = items[i + d]
    <3>1. Len(r) + 0 = n + 1 /\ \A i \in 1..(Len(r) - 1) : r[i] = items[i + 0]
      BY <1>1, <1>2, <2>1, <2>3
    <3>2. QED
      BY <3>1
  <2>5. QED
    BY <2>2, <2>3, <2>4 DEF r
<1>6. QED
  BY <1>4, <1>5

\* A chain records the first hand-off and then the second.
LEMMA ChainRecorded ==
  ASSUME NEW items, BrokerHolds(items), EndsWith(items, SecondHandoff)
  PROVE  LET r == RecordedRun(RecordedRun(items, FirstHandoff), SecondHandoff)
         IN /\ BrokerHolds(r) /\ EndsWith(r, SecondHandoff) /\ Len(r) = WithinCap(WithinCap(Len(items) + 1) + 1)
<1> DEFINE a == RecordedRun(items, FirstHandoff)
           r == RecordedRun(a, SecondHandoff)
<1>1. /\ items \in Seq(Handoffs) /\ Len(items) <= HandoffCap /\ Len(items) \in Nat
      /\ \A i \in 1..(Len(items) - 1) : items[i] = FirstHandoff => items[i + 1] = SecondHandoff
  BY LenProperties DEF BrokerHolds
<1>2. FirstHandoff \in Handoffs /\ SecondHandoff \in Handoffs /\ FirstHandoff # SecondHandoff /\ HandoffCap \in Nat \ {0}
  BY IntelligenceAssumption DEF FirstHandoff, SecondHandoff, Handoffs
<1>3. /\ a \in Seq(Handoffs) /\ Len(a) = WithinCap(Len(items) + 1) /\ Len(a) > 0 /\ a[Len(a)] = FirstHandoff
      /\ \E d \in {0, 1} : /\ Len(a) + d = Len(items) + 1
                           /\ \A i \in 1..(Len(a) - 1) : a[i] = items[i + d]
  BY <1>1, <1>2, RecordedAtTheEnd
<1> HIDE DEF a
<1>4. Len(a) \in Nat /\ Len(a) <= HandoffCap
  BY <1>1, <1>2, <1>3, LenProperties DEF WithinCap
<1>5. /\ r \in Seq(Handoffs) /\ Len(r) = WithinCap(Len(a) + 1) /\ Len(r) > 0 /\ r[Len(r)] = SecondHandoff
      /\ \E d \in {0, 1} : /\ Len(r) + d = Len(a) + 1
                           /\ \A i \in 1..(Len(r) - 1) : r[i] = a[i + d]
  BY <1>2, <1>3, <1>4, RecordedAtTheEnd
<1> HIDE DEF r
<1>6. Len(r) \in Nat /\ Len(r) <= HandoffCap
  BY <1>2, <1>4, <1>5, LenProperties DEF WithinCap
<1>7. \A i \in 1..(Len(a) - 1) : a[i] = FirstHandoff => i + 1 < Len(a) /\ a[i + 1] = SecondHandoff
  <2>1. PICK d \in {0, 1} : /\ Len(a) + d = Len(items) + 1
                            /\ \A i \in 1..(Len(a) - 1) : a[i] = items[i + d]
    BY <1>3
  <2>2. SUFFICES ASSUME NEW i \in 1..(Len(a) - 1), a[i] = FirstHandoff PROVE i + 1 < Len(a) /\ a[i + 1] = SecondHandoff
    OBVIOUS
  <2>3. items[i + d] = FirstHandoff /\ i + d \in 1..Len(items)
    <3>1. a[i] = items[i + d]
      BY <2>1
    <3>2. i \in Int /\ 1 <= i /\ i <= Len(a) - 1 /\ Len(a) \in Nat /\ Len(items) \in Nat
      BY <1>1, <1>4
    <3>3. Len(a) + d = Len(items) + 1 /\ (d = 0 \/ d = 1)
      BY <2>1
    <3>4. i + d \in 1..Len(items)
      BY <3>2, <3>3
    <3>5. QED
      BY <2>2, <3>1, <3>4
  <2>4. i + d # Len(items)
    <3>1. i + d = Len(items) => Len(items) > 0 /\ items[Len(items)] = FirstHandoff
      BY <1>1, <1>4, <2>1, <2>3
    <3>2. QED
      BY <1>2, <3>1 DEF EndsWith
  <2>5. i + d \in 1..(Len(items) - 1) /\ i + 1 \in 1..(Len(a) - 1)
    <3>1. i \in Int /\ 1 <= i /\ Len(a) \in Nat /\ Len(items) \in Nat
      BY <1>1, <1>4
    <3>2. Len(a) + d = Len(items) + 1 /\ (d = 0 \/ d = 1)
      BY <2>1
    <3>3. QED
      BY <2>3, <2>4, <3>1, <3>2
  <2>6. items[(i + d) + 1] = SecondHandoff
    BY <1>1, <2>3, <2>5
  <2>7. a[i + 1] = items[(i + 1) + d] /\ (i + 1) + d = (i + d) + 1 /\ i + 1 < Len(a)
    BY <1>4, <2>1, <2>5
  <2>8. QED
    BY <2>6, <2>7
<1>8. \A i \in 1..(Len(r) - 1) : r[i] = FirstHandoff => r[i + 1] = SecondHandoff
  <2>1. PICK d \in {0, 1} : /\ Len(r) + d = Len(a) + 1
                            /\ \A i \in 1..(Len(r) - 1) : r[i] = a[i + d]
    BY <1>5
  <2>2. SUFFICES ASSUME NEW i \in 1..(Len(r) - 1), r[i] = FirstHandoff PROVE r[i + 1] = SecondHandoff
    OBVIOUS
  <2>3. a[i + d] = FirstHandoff /\ i + d \in 1..Len(a)
    <3>1. r[i] = a[i + d]
      BY <2>1
    <3>2. i \in Int /\ 1 <= i /\ i <= Len(r) - 1 /\ Len(a) \in Nat /\ Len(r) \in Nat
      BY <1>4, <1>6
    <3>3. Len(r) + d = Len(a) + 1 /\ (d = 0 \/ d = 1)
      BY <2>1
    <3>4. i + d \in 1..Len(a)
      BY <3>2, <3>3
    <3>5. QED
      BY <2>2, <3>1, <3>4
  <2>4. CASE i + d = Len(a)
    <3>1. i + 1 = Len(r)
      BY <1>4, <1>6, <2>1, <2>4
    <3>2. QED
      BY <1>5, <3>1
  <2>5. CASE i + d # Len(a)
    <3>1. i + d \in 1..(Len(a) - 1)
      BY <1>4, <2>3, <2>5
    <3>2. (i + d) + 1 < Len(a) /\ a[(i + d) + 1] = SecondHandoff
      BY <1>7, <2>3, <3>1
    <3>3. i + 1 \in 1..(Len(r) - 1) /\ (i + 1) + d = (i + d) + 1
      BY <1>4, <1>6, <2>1, <3>2
    <3>4. r[i + 1] = a[(i + 1) + d]
      BY <2>1, <3>3
    <3>5. QED
      BY <3>2, <3>3, <3>4
  <2>6. QED
    BY <2>4, <2>5
<1>9. QED
  BY <1>3, <1>5, <1>6, <1>8 DEF BrokerHolds, EndsWith, r, a

\* Each first hand-off listed has its own second one.
LEMMA SecondsMatchFirsts ==
  ASSUME NEW items, BrokerHolds(items), EndsWith(items, SecondHandoff)
  PROVE  Cardinality({k \in DOMAIN items : items[k] = FirstHandoff}) <= Cardinality({k \in DOMAIN items : items[k] = SecondHandoff})
<1> DEFINE n == Len(items)
           F == {k \in DOMAIN items : items[k] = FirstHandoff}
           S == {k \in DOMAIN items : items[k] = SecondHandoff}
           next == [k \in F |-> k + 1]
<1>1. /\ n \in Nat /\ DOMAIN items = 1..n /\ FirstHandoff # SecondHandoff
      /\ \A i \in 1..(n - 1) : items[i] = FirstHandoff => items[i + 1] = SecondHandoff
      /\ n > 0 => items[n] = SecondHandoff
  BY LenProperties DEF BrokerHolds, EndsWith, FirstHandoff, SecondHandoff
<1>2. F \subseteq 1..n /\ S \subseteq 1..n /\ IsFiniteSet(1..n)
  BY <1>1, FS_Interval
<1>3. IsFiniteSet(F) /\ IsFiniteSet(S)
  BY <1>2, FS_Subset
<1>4. \A k \in F : k + 1 \in S
  <2>1. SUFFICES ASSUME NEW k \in F PROVE k + 1 \in S
    OBVIOUS
  <2>2. k \in 1..n /\ items[k] = FirstHandoff /\ k # n
    BY <1>1
  <2>3. k \in 1..(n - 1) /\ k + 1 \in 1..n
    BY <1>1, <2>2
  <2>4. QED
    BY <1>1, <2>2, <2>3
<1>5. F \subseteq Int
  BY <1>2
<1> HIDE DEF F, S
<1>6. next \in Injection(F, S)
  BY <1>4, <1>5 DEF Injection, IsInjective
<1>7. QED
  BY <1>3, <1>6, FS_Injection DEF F, S

-----------------------------------------------------------------------------
(* The invariant *)

MetricsAgree(m) ==
  /\ CountsSound(m) /\ SumOver(m.modes) = m.runs["research"]
  /\ m.pairs[FirstHandoff] = m.pairs[SecondHandoff]
BrokerAgrees(m, items) ==
  /\ BrokerHolds(items) /\ EndsWith(items, SecondHandoff)
  /\ Len(items) = WithinCap(m.collaborations)
CountersInv == MetricsAgree(counted) /\ BrokerAgrees(counted, broker)

\* A reset leaves metrics and broker in agreement.
LEMMA ZeroAgrees == MetricsAgree(Zero) /\ BrokerAgrees(Zero, << >>)
<1>1. /\ DOMAIN Zero = MetricFields /\ Zero.total = 0 /\ Zero.ok = 0 /\ Zero.failed = 0
      /\ Zero.collaborations = 0 /\ Zero.evidence = 0
      /\ Zero.runs = [a \in Agents |-> 0] /\ Zero.good = [a \in Agents |-> 0] /\ Zero.bad = [a \in Agents |-> 0]
      /\ Zero.modes = [m \in Modes |-> 0] /\ Zero.pairs = [h \in Handoffs |-> 0]
  BY DEF Zero, MetricFields
<1>2. \A T : IsFiniteSet(Cells([k \in T |-> 0])) /\ SumOver([k \in T |-> 0]) = 0
  BY NoneCounted
<1>3. IsFiniteSet(Cells(Zero.runs)) /\ SumOver(Zero.runs) = 0
  BY <1>1, <1>2
<1>4. IsFiniteSet(Cells(Zero.modes)) /\ SumOver(Zero.modes) = 0
  BY <1>1, <1>2
<1>5. IsFiniteSet(Cells(Zero.pairs)) /\ SumOver(Zero.pairs) = 0
  BY <1>1, <1>2
<1>6. CountsShape(Zero)
  BY <1>1, <1>3, <1>4, <1>5 DEF CountsShape
<1>7. RunsAddUp(Zero) /\ HandoffsAddUp(Zero)
  BY <1>1, <1>3, <1>5 DEF RunsAddUp, HandoffsAddUp
<1>8. MetricsAgree(Zero)
  BY <1>1, <1>4, <1>6, <1>7 DEF MetricsAgree, CountsSound, Agents, Handoffs, FirstHandoff, SecondHandoff
<1>9. << >> \in Seq(Handoffs) /\ Len(<< >>) = 0
  BY EmptySeq
<1>10. HandoffCap \in Nat \ {0}
  BY IntelligenceAssumption
<1>11. BrokerAgrees(Zero, << >>)
  BY <1>1, <1>9, <1>10 DEF BrokerAgrees, BrokerHolds, EndsWith, WithinCap
<1>12. QED
  BY <1>8, <1>11

\* A run of the compliance or of the risk agent changes no count of research.
LEMMA OtherAgentAgrees ==
  ASSUME NEW m, MetricsAgree(m), NEW agent \in {"compliance", "risk"}, NEW succeeded \in BOOLEAN
  PROVE  /\ MetricsAgree(RecordAgent(m, agent, succeeded))
         /\ RecordAgent(m, agent, succeeded).collaborations = m.collaborations
<1> DEFINE r == RecordAgent(m, agent, succeeded)
<1>1. agent \in Agents /\ "research" \in Agents \ {agent}
  BY DEF Agents
<1>2. /\ CountsSound(r) /\ r.modes = m.modes /\ r.pairs = m.pairs /\ r.collaborations = m.collaborations
      /\ \A a \in Agents \ {agent} : r.runs[a] = m.runs[a]
  BY <1>1, AgentRecorded DEF MetricsAgree
<1> HIDE DEF r
<1>3. r.runs["research"] = m.runs["research"]
  BY <1>1, <1>2
<1>4. QED
  BY <1>2, <1>3 DEF MetricsAgree, r

\* A research run is a run of one agent under one mode.
LEMMA ResearchAgrees ==
  ASSUME NEW m, MetricsAgree(m), NEW mode \in Modes, NEW succeeded \in BOOLEAN
  PROVE  /\ MetricsAgree(RecordResearch(m, mode, succeeded))
         /\ RecordResearch(m, mode, succeeded).collaborations = m.collaborations
<1> DEFINE r == RecordResearch(m, mode, succeeded)
<1>1. /\ CountsSound(r) /\ r.pairs = m.pairs /\ r.collaborations = m.collaborations
      /\ SumOver(r.modes) = r.runs["research"]
  BY ResearchRecorded DEF MetricsAgree
<1> HIDE DEF r
<1>2. QED
  BY <1>1 DEF MetricsAgree, r

\* Research, a hand-off, compliance and the other hand-off.
LEMMA ChainAgrees ==
  ASSUME NEW m, MetricsAgree(m), NEW mode \in Modes, NEW query
  PROVE  /\ MetricsAgree(Chained(m, mode, query))
         /\ Chained(m, mode, query).collaborations = m.collaborations + 2
<1> DEFINE s == (query = "short")
           r == RecordResearch(m, mode, s)
           x == RecordCollaboration(r, FirstHandoff)
           y == RecordAgent(x, "compliance", TRUE)
           z == RecordCollaboration(y, SecondHandoff)
<1>1. MetricsAgree(r) /\ r.collaborations = m.collaborations
  BY ResearchAgrees
<1>2. Chained(m, mode, query) = z
  BY DEF Chained, FirstHandoff, SecondHandoff
<1> HIDE DEF s, r
<1>3. FirstHandoff \in Handoffs /\ SecondHandoff \in Handoffs /\ FirstHandoff # SecondHandoff
  BY DEF FirstHandoff, SecondHandoff, Handoffs
<1>4. /\ CountsSound(x) /\ x.modes = r.modes /\ x.runs = r.runs /\ x.collaborations = r.collaborations + 1
      /\ x.pairs[FirstHandoff] = r.pairs[FirstHandoff] + 1
      /\ \A h \in Handoffs \ {FirstHandoff} : x.pairs[h] = r.pairs[h]
  BY <1>1, <1>3, CollaborationRecorded DEF MetricsAgree
<1> HIDE DEF x
<1>5. "compliance" \in Agents /\ "research" \in Agents \ {"compliance"} /\ TRUE \in BOOLEAN
  BY DEF Agents
<1>6. /\ CountsSound(y) /\ y.modes = x.modes /\ y.pairs = x.pairs /\ y.collaborations = x.collaborations
      /\ \A a \in Agents \ {"compliance"} : y.runs[a] = x.runs[a]
  BY <1>4, <1>5, AgentRecorded
<1> HIDE DEF y
<1>7. /\ CountsSound(z) /\ z.modes = y.modes /\ z.runs = y.runs /\ z.collaborations = y.collaborations + 1
      /\ z.pairs[SecondHandoff] = y.pairs[SecondHandoff] + 1
      /\ \A h \in Handoffs \ {SecondHandoff} : z.pairs[h] = y.pairs[h]
  BY <1>3, <1>6, CollaborationRecorded
<1> HIDE DEF z
<1>8. SumOver(z.modes) = z.runs["research"]
  <2>1. z.modes = r.modes
    BY <1>4, <1>6, <1>7
  <2>2. z.runs["research"] = r.runs["research"]
    BY <1>4, <1>5, <1>6, <1>7
  <2>3. QED
    BY <1>1, <2>1, <2>2 DEF MetricsAgree
<1>9. z.pairs[FirstHandoff] = z.pairs[SecondHandoff]
  <2>1. z.pairs[FirstHandoff] = r.pairs[FirstHandoff] + 1
    BY <1>3, <1>4, <1>6, <1>7
  <2>2. z.pairs[SecondHandoff] = r.pairs[SecondHandoff] + 1
    BY <1>3, <1>4, <1>6, <1>7
  <2>3. QED
    BY <1>1, <2>1, <2>2 DEF MetricsAgree
<1>10. z.collaborations = m.collaborations + 2
  <2>1. m.collaborations \in Nat
    BY DEF MetricsAgree, CountsSound, CountsShape
  <2>2. QED
    BY <1>1, <1>4, <1>6, <1>7, <2>1
<1>11. QED
  BY <1>2, <1>7, <1>8, <1>9, <1>10 DEF MetricsAgree

\* A chain hands over as often as it counts.
LEMMA ChainHandedOver ==
  ASSUME NEW m, NEW items, MetricsAgree(m), BrokerAgrees(m, items),
         NEW l, l.collaborations = m.collaborations + 2
  PROVE  BrokerAgrees(l, RecordedRun(RecordedRun(items, FirstHandoff), SecondHandoff))
<1>1. m.collaborations \in Nat /\ HandoffCap \in Nat \ {0}
  BY IntelligenceAssumption DEF MetricsAgree, CountsSound, CountsShape
<1>2. BrokerHolds(items) /\ EndsWith(items, SecondHandoff) /\ Len(items) = WithinCap(m.collaborations)
  BY DEF BrokerAgrees
<1> DEFINE r == RecordedRun(RecordedRun(items, FirstHandoff), SecondHandoff)
<1>3. /\ BrokerHolds(r) /\ EndsWith(r, SecondHandoff)
      /\ Len(r) = WithinCap(WithinCap(Len(items) + 1) + 1)
  BY <1>2, ChainRecorded
<1>4. WithinCap(WithinCap(WithinCap(m.collaborations) + 1) + 1) = WithinCap(m.collaborations + 2)
  BY <1>1 DEF WithinCap
<1>5. QED
  BY <1>2, <1>3, <1>4 DEF BrokerAgrees

\* Every request keeps the invariant.
LEMMA CountersInvStep == CountersInv /\ [IntelligenceNext]_intelligenceVars => CountersInv'
<1> SUFFICES ASSUME CountersInv, [IntelligenceNext]_intelligenceVars PROVE CountersInv'
  OBVIOUS
<1>1. MetricsAgree(counted) /\ BrokerAgrees(counted, broker)
  BY DEF CountersInv
<1>2. ASSUME counted' = counted, broker' = broker PROVE CountersInv'
  BY <1>1, <1>2 DEF CountersInv
<1>3. ASSUME MetricsAgree(counted'), counted'.collaborations = counted.collaborations, broker' = broker
      PROVE  CountersInv'
  BY <1>1, <1>3 DEF CountersInv, BrokerAgrees
<1>4. ASSUME NEW kind \in Kinds, NEW max \in {1, 8}, NEW found \in SUBSET Passages, RunReport(kind, max, found)
      PROVE  CountersInv'
  BY <1>2, <1>4 DEF RunReport
<1>5. ASSUME NEW query \in QueryLengths, NEW mode \in Modes, NEW max \in {1, 8}, NEW ran \in BOOLEAN,
             NEW entities \in {0, 2}, NEW years \in BOOLEAN, RunResearch(query, mode, max, ran, entities, years)
      PROVE  CountersInv'
  <2>1. counted' = RecordResearch(counted, mode, query = "short") /\ broker' = broker
    BY <1>5 DEF RunResearch
  <2>2. QED
    BY <1>1, <1>3, <2>1, ResearchAgrees
<1>6. ASSUME NEW query \in QueryLengths, NEW mode \in Modes, NEW entities \in {0, 2}, NEW years \in BOOLEAN,
             Coordinate(query, mode, entities, years)
      PROVE  CountersInv'
  <2> DEFINE l == Chained(counted, mode, query)
  <2>1. MetricsAgree(l) /\ l.collaborations = counted.collaborations + 2
    BY <1>1, ChainAgrees
  <2>2. counted' = RecordAgent(l, "risk", TRUE) \/ counted' = l
    BY <1>6 DEF Coordinate
  <2>3. broker' = RecordedRun(RecordedRun(broker, FirstHandoff), SecondHandoff)
    BY <1>6 DEF Coordinate, FirstHandoff, SecondHandoff
  <2> HIDE DEF l
  <2>4. MetricsAgree(counted') /\ counted'.collaborations = counted.collaborations + 2
    <3>1. MetricsAgree(RecordAgent(l, "risk", TRUE)) /\ RecordAgent(l, "risk", TRUE).collaborations = l.collaborations
      BY <2>1, OtherAgentAgrees
    <3>2. QED
      BY <2>1, <2>2, <3>1
  <2>5. BrokerAgrees(counted', broker')
    BY <1>1, <2>3, <2>4, ChainHandedOver
  <2>6. QED
    BY <2>4, <2>5 DEF CountersInv
<1>7. ASSUME NEW assessment, NEW max, NEW times, NEW recommended,
             RunCompliance(assessment, max, times, recommended)
      PROVE  CountersInv'
  <2>1. counted' = RecordAgent(counted, "compliance", TRUE) /\ broker' = broker
    BY <1>7 DEF RunCompliance
  <2>2. QED
    BY <1>1, <1>3, <2>1, OtherAgentAgrees
<1>8. ASSUME NEW assessment, NEW projection, NEW kinds, NEW trend, NEW drift,
             RunRisk(assessment, projection, kinds, trend, drift)
      PROVE  CountersInv'
  <2>1. counted' = RecordAgent(counted, "risk", TRUE) /\ broker' = broker
    BY <1>8 DEF RunRisk
  <2>2. QED
    BY <1>1, <1>3, <2>1, OtherAgentAgrees
<1>9. ASSUME ResetAgents \/ RestartAgents PROVE CountersInv'
  <2>1. counted' = Zero /\ broker' = << >>
    BY <1>9 DEF ResetAgents, RestartAgents
  <2>2. QED
    BY <2>1, ZeroAgrees DEF CountersInv
<1>10. CASE UNCHANGED intelligenceVars
  BY <1>2, <1>10 DEF intelligenceVars
<1>11. CASE IntelligenceNext
  BY <1>4, <1>5, <1>6, <1>7, <1>8, <1>9, <1>11 DEF IntelligenceNext
<1>12. QED
  BY <1>10, <1>11

\* What the endpoints show follows from the invariant.
LEMMA CountersInvShows == CountersInv => CountersAgree
<1> SUFFICES ASSUME CountersInv PROVE CountersAgree
  OBVIOUS
<1>1. MetricsAgree(counted) /\ BrokerAgrees(counted, broker)
  BY DEF CountersInv
<1>2. CountsSound(counted)
  BY <1>1 DEF MetricsAgree
<1>3. counted.runs = [a \in Agents |-> Health(a).runs]
  <2>1. \A a \in Agents : Health(a).runs = counted.runs[a]
    BY DEF Health
  <2>2. counted.runs \in [Agents -> Nat]
    BY <1>2 DEF CountsSound, CountsShape
  <2>3. QED
    BY <2>1, <2>2
<1>4. Totals.runs = Totals.good + Totals.bad
  BY <1>2 DEF Totals, CountsSound, RunsAddUp
<1>5. Totals.runs = SumOver([a \in Agents |-> Health(a).runs])
  <2>1. counted.total = SumOver(counted.runs)
    BY <1>2 DEF CountsSound, RunsAddUp
  <2>2. Totals.runs = counted.total
    BY DEF Totals
  <2>3. QED
    BY <1>3, <2>1, <2>2
<1>6. \A a \in Agents : Health(a).runs = Health(a).good + Health(a).bad
  BY <1>2 DEF Health, CountsSound, RunsAddUp
<1>7. SumOver(counted.modes) = Health("research").runs
  BY <1>1 DEF MetricsAgree, Health
<1>8. counted.pairs["research->compliance"] = counted.pairs["compliance->risk"]
  BY <1>1 DEF MetricsAgree, FirstHandoff, SecondHandoff
<1>9. counted.collaborations = SumOver(counted.pairs) /\ counted.evidence = 2 * counted.collaborations
  BY <1>2 DEF CountsSound, HandoffsAddUp
<1>10. Len(broker) = (IF counted.collaborations < HandoffCap THEN counted.collaborations ELSE HandoffCap)
  BY <1>1 DEF BrokerAgrees, WithinCap
<1>11. Cardinality(Listed("research->compliance")) <= Cardinality(Listed("compliance->risk"))
  BY <1>1, SecondsMatchFirsts DEF BrokerAgrees, Listed, FirstHandoff, SecondHandoff
<1>12. QED
  BY <1>4, <1>5, <1>6, <1>7, <1>8, <1>9, <1>10, <1>11 DEF CountersAgree

\* However many runs, failures, coordinated requests and resets there are,
\* the totals, the counts by agent and by mode and the hand-offs of the
\* metrics add up, and the broker holds the newest of the hand-offs counted,
\* each first one with its second (IntelligenceAgentMetrics,
\* AgentCollaborationBroker).
THEOREM CountersStayTogether == IntelligenceSpec => []CountersAgree
<1>1. IntelligenceInit => CountersInv
  BY ZeroAgrees DEF IntelligenceInit, CountersInv
<1>2. QED
  BY <1>1, CountersInvStep, CountersInvShows, PTL DEF IntelligenceSpec

-----------------------------------------------------------------------------
(* ChangeDetection: a difference accounts for every clause.                  *)

\* The one section that stands for its header.
Stands(list, s) == s \in DOMAIN list /\ s = ByHeader(list, list[s].header)

\* A place in a version: a clause of a section that stands for its header.
ClauseAt(list, p) ==
  /\ p = <<p[1], p[2]>> /\ p[1] \in Nat /\ p[2] \in Nat
  /\ Stands(list, p[1]) /\ p[2] \in DOMAIN list[p[1]].clauses

\* What the loop has behind it, of either version.
OldPast(c, b, k) == k < (IF b = NoBlock THEN c.i ELSE b.a)
NewPast(c, b, k) == k < c.j /\ (k \in b.b => k \in b.used)
OldSeen(list, heads, c, b, p) ==
  /\ ClauseAt(list, p) /\ list[p[1]].header \notin heads
  /\ c # NoCur /\ c.s = p[1] => OldPast(c, b, p[2])
NewSeen(list, heads, c, b, p) ==
  /\ ClauseAt(list, p) /\ list[p[1]].header \notin heads
  /\ c # NoCur /\ c.t = p[1] => NewPast(c, b, p[2])

\* No clause stands in two pairs.
Single(ps) ==
  \A x, y \in ps : /\ x.old = y.old /\ x.old # Nothing => x = y
                   /\ x.new = y.new /\ x.new # Nothing => x = y
OldsHeld(ps, list, heads, c, b) ==
  \A p : p # Nothing => ((\E x \in ps : x.old = p) <=> OldSeen(list, heads, c, b, p))
NewsHeld(ps, list, heads, c, b) ==
  \A p : p # Nothing => ((\E x \in ps : x.new = p) <=> NewSeen(list, heads, c, b, p))

PairTyped(x) ==
  /\ x.type \in {"ADDED", "REMOVED", "MODIFIED", "UNCHANGED"} /\ x.severity \in DiffSeverities
  /\ x.type = "UNCHANGED" => x.old # Nothing /\ x.new # Nothing
SameText(os, ns, x) == x.type = "UNCHANGED" => os[x.old[1]].clauses[x.old[2]] = ns[x.new[1]].clauses[x.new[2]]
PairsTyped(os, ns, ps) == \A x \in ps : PairTyped(x) /\ SameText(os, ns, x)

\* Without a change both sides of every pair are at the same place under the
\* same header, and the cursor is as far in either section.
Parallel(os, ns, ps) ==
  \A x \in ps : /\ x.old # Nothing /\ x.new # Nothing
                /\ x.old[2] = x.new[2] /\ os[x.old[1]].header = ns[x.new[1]].header
Straight(os, ns, ps, c, b) ==
  \/ \E x \in ps : x.type # "UNCHANGED"
  \/ /\ Parallel(os, ns, ps)
     /\ c # NoCur /\ b = NoBlock => c.i = c.j
     /\ b # NoBlock => b.a < b.aEnd

CurOK(os, ns, otodo, ntodo, c) ==
  c # NoCur => /\ Stands(os, c.s) /\ Stands(ns, c.t) /\ os[c.s].header = ns[c.t].header
               /\ os[c.s].header \notin otodo /\ ns[c.t].header \notin ntodo
               /\ c.i \in 1..Len(os[c.s].clauses) + 1 /\ c.j \in 1..Len(ns[c.t].clauses) + 1
BlockOK(os, ns, c, b) ==
  b # NoBlock => /\ c # NoCur /\ b.a \in 1..b.aEnd /\ b.aEnd = c.i
                 /\ b.b \subseteq 1..c.j - 1 /\ b.used \subseteq b.b
                 /\ \A k \in b.a..b.aEnd - 1, l \in b.b : os[c.s].clauses[k] # ns[c.t].clauses[l]

TodoOK(os, ns, otodo, ntodo) ==
  /\ otodo \subseteq HeadersOf(os) /\ ntodo \subseteq HeadersOf(ns)
  /\ \A h \in otodo : h \in HeadersOf(ns) => h \in ntodo

CurType == [s: Nat, t: Nat, i: Nat, j: Nat]
BlockType == [a: Nat, aEnd: Nat, b: SUBSET Nat, used: SUBSET Nat]
DetectionShape ==
  /\ olds \in Sections /\ news \in Sections
  /\ cur \in CurType /\ block \in BlockType
  /\ phase \in {"idle", "comparing", "done"}
  /\ phase = "idle" => olds = <<>> /\ news = <<>> /\ pairs = {}
  /\ phase # "comparing" => cur = NoCur /\ oldTodo = {} /\ newTodo = {}

\* The inductive invariant.
DetectionInv ==
  /\ DetectionShape
  /\ TodoOK(olds, news, oldTodo, newTodo) /\ CurOK(olds, news, oldTodo, newTodo, cur)
  /\ BlockOK(olds, news, cur, block)
  /\ PairsTyped(olds, news, pairs)
  /\ Single(pairs)
  /\ OldsHeld(pairs, olds, oldTodo, cur, block) /\ NewsHeld(pairs, news, newTodo, cur, block)
  /\ Straight(olds, news, pairs, cur, block)

-----------------------------------------------------------------------------
LEMMA SectionFacts ==
  ASSUME NEW list \in Sections
  PROVE  /\ Len(list) \in Nat /\ DOMAIN list = 1..Len(list)
         /\ \A s \in DOMAIN list : /\ list[s].clauses \in Seq(Clauses) /\ Len(list[s].clauses) \in Nat
                                   /\ DOMAIN list[s].clauses = 1..Len(list[s].clauses)
                                   /\ list[s].header \in Headers
<1>1. Len(list) \in Nat /\ DOMAIN list = 1..Len(list)
  BY LenProperties DEF Sections
<1>2. ASSUME NEW s \in DOMAIN list
      PROVE  /\ list[s].clauses \in Seq(Clauses) /\ Len(list[s].clauses) \in Nat
             /\ DOMAIN list[s].clauses = 1..Len(list[s].clauses)
             /\ list[s].header \in Headers
  <2>1. list[s] \in Section
    BY ElementOfSeq, <1>1 DEF Sections
  <2>2. list[s].clauses \in Seq(Clauses) /\ list[s].header \in Headers
    BY <2>1 DEF Section
  <2>3. QED
    BY <2>2, LenProperties
<1>3. QED
  BY <1>1, <1>2

LEMMA LastStands ==
  ASSUME NEW list \in Sections, NEW h \in HeadersOf(list)
  PROVE  Stands(list, ByHeader(list, h)) /\ list[ByHeader(list, h)].header = h
<1> DEFINE n == Len(list)
           S == {s \in DOMAIN list : list[s].header = h}
<1>1. n \in Nat /\ DOMAIN list = 1..n
  BY SectionFacts
<1>2. S # {} /\ S \in SUBSET (0..n)
  <2>1. S # {}
    BY DEF HeadersOf
  <2>2. QED
    BY <1>1, <2>1
<1>3. PICK m \in S : \A k \in S : k <= m
  <2> HIDE DEF S, n
  <2>1. QED
    BY <1>1, <1>2, GreatestExists
<1>4. \E s \in DOMAIN list :
        list[s].header = h /\ \A t \in DOMAIN list : list[t].header = h => t <= s
  BY <1>3
<1>5. QED
  BY <1>4 DEF ByHeader, Stands

LEMMA StandsOnce ==
  ASSUME NEW list, NEW s, NEW t, Stands(list, s), Stands(list, t), list[s].header = list[t].header
  PROVE  s = t
BY DEF Stands

-----------------------------------------------------------------------------
LEMMA PlaceIsSome ==
  ASSUME NEW s \in Nat, NEW k \in Nat PROVE <<s, k>> # Nothing
<1>1. Nothing \notin Nat \X Nat
  BY DetectionAssumption DEF DetectionAssumption
<1>2. QED
  BY <1>1

LEMMA PairIs ==
  ASSUME NEW p, NEW q
  PROVE  /\ Pair(p, q).old = p /\ Pair(p, q).new = q
         /\ Pair(p, q).type = "UNCHANGED" <=> p # Nothing /\ q # Nothing /\ Old(p) = New(q)
         /\ Pair(p, q).type \in {"ADDED", "REMOVED", "MODIFIED", "UNCHANGED"}
         /\ Pair(p, q).severity \in DiffSeverities
<1> DEFINE text == TextOf(p, q)
           words == WordSeverity(text)
<1>1. words \in 0..3
  BY DEF WordSeverity, LOW, MEDIUM, HIGH, CRITICAL
<1>2. ChangeSeverity(text) \in 0..3
  <2> HIDE DEF text
  <2>1. QED
    BY <1>1 DEF ChangeSeverity, HIGH
<1>3. QED
  <2> HIDE DEF text
  <2>1. DiffSeverities = 0..3
    BY DEF DiffSeverities, LOW, CRITICAL
  <2>2. TextOf(p, q) = text
    BY DEF text
  <2>3. Pair(p, q).severity \in DiffSeverities
    BY <1>2, <2>1, <2>2 DEF Pair, LOW
  <2>4. QED
    BY <2>3 DEF Pair

\* What pairs, new ones among them, say of the versions.
LEMMA PairTypedIs ==
  ASSUME NEW p, NEW q
  PROVE  PairTyped(Pair(p, q)) /\ SameText(olds, news, Pair(p, q))
<1>1. PairTyped(Pair(p, q))
  BY PairIs DEF PairTyped
<1>2. SameText(olds, news, Pair(p, q))
  BY PairIs DEF SameText, Old, New
<1>3. QED
  BY <1>1, <1>2

PlaceOf(s, K, p) == \E k \in K : p = <<s, k>>

LEMMA RemovedIs ==
  ASSUME NEW s \in Nat, NEW from \in Nat, NEW to \in Nat
  PROVE  /\ \A p : p # Nothing => ((\E x \in Removed(s, from, to) : x.old = p) <=> PlaceOf(s, from..to, p))
         /\ \A x \in Removed(s, from, to) : x.new = Nothing /\ x.type # "UNCHANGED"
         /\ Single(Removed(s, from, to)) /\ PairsTyped(olds, news, Removed(s, from, to))
<1> DEFINE N == Removed(s, from, to)
<1>1. ASSUME NEW x \in N
      PROVE  /\ \E k \in from..to : x.old = <<s, k>>
             /\ x = Pair(x.old, Nothing) /\ x.new = Nothing /\ x.type # "UNCHANGED"
             /\ PairTyped(x) /\ SameText(olds, news, x)
  <2>1. PICK k \in from..to : x = Pair(<<s, k>>, Nothing)
    BY DEF Removed
  <2>2. QED
    BY <2>1, PairIs, PairTypedIs
<1>2. ASSUME NEW k \in from..to
      PROVE  \E x \in N : x.old = <<s, k>>
  <2>1. Pair(<<s, k>>, Nothing) \in N
    BY DEF Removed
  <2>2. QED
    BY <2>1, PairIs
<1> HIDE DEF N
<1>3. Single(N)
  <2> SUFFICES ASSUME NEW x \in N, NEW y \in N
               PROVE  /\ x.old = y.old /\ x.old # Nothing => x = y
                      /\ x.new = y.new /\ x.new # Nothing => x = y
    BY DEF Single
  <2>1. x.new = Nothing /\ x = Pair(x.old, Nothing) /\ y = Pair(y.old, Nothing)
    BY <1>1
  <2>2. QED
    BY <2>1
<1>4. PairsTyped(olds, news, N)
  BY <1>1 DEF PairsTyped
<1>5. ASSUME NEW p
      PROVE  (\E x \in N : x.old = p) <=> PlaceOf(s, from..to, p)
  BY <1>1, <1>2 DEF PlaceOf
<1>6. \A x \in N : x.new = Nothing /\ x.type # "UNCHANGED"
  BY <1>1
<1>7. QED
  BY <1>3, <1>4, <1>5, <1>6 DEF N

LEMMA AddedIs ==
  ASSUME NEW t \in Nat, NEW from \in Nat, NEW to \in Nat
  PROVE  /\ \A p : p # Nothing => ((\E x \in Added(t, from, to) : x.new = p) <=> PlaceOf(t, from..to, p))
         /\ \A x \in Added(t, from, to) : x.old = Nothing /\ x.type # "UNCHANGED"
         /\ Single(Added(t, from, to)) /\ PairsTyped(olds, news, Added(t, from, to))
<1> DEFINE N == Added(t, from, to)
<1>1. ASSUME NEW x \in N
      PROVE  /\ \E k \in from..to : x.new = <<t, k>>
             /\ x = Pair(Nothing, x.new) /\ x.old = Nothing /\ x.type # "UNCHANGED"
             /\ PairTyped(x) /\ SameText(olds, news, x)
  <2>1. PICK k \in from..to : x = Pair(Nothing, <<t, k>>)
    BY DEF Added
  <2>2. QED
    BY <2>1, PairIs, PairTypedIs
<1>2. ASSUME NEW k \in from..to
      PROVE  \E x \in N : x.new = <<t, k>>
  <2>1. Pair(Nothing, <<t, k>>) \in N
    BY DEF Added
  <2>2. QED
    BY <2>1, PairIs
<1> HIDE DEF N
<1>3. Single(N)
  <2> SUFFICES ASSUME NEW x \in N, NEW y \in N
               PROVE  /\ x.old = y.old /\ x.old # Nothing => x = y
                      /\ x.new = y.new /\ x.new # Nothing => x = y
    BY DEF Single
  <2>1. x.old = Nothing /\ x = Pair(Nothing, x.new) /\ y = Pair(Nothing, y.new)
    BY <1>1
  <2>2. QED
    BY <2>1
<1>4. PairsTyped(olds, news, N)
  BY <1>1 DEF PairsTyped
<1>5. ASSUME NEW p
      PROVE  (\E x \in N : x.new = p) <=> PlaceOf(t, from..to, p)
  BY <1>1, <1>2 DEF PlaceOf
<1>6. \A x \in N : x.old = Nothing /\ x.type # "UNCHANGED"
  BY <1>1
<1>7. QED
  BY <1>3, <1>4, <1>5, <1>6 DEF N

-----------------------------------------------------------------------------
\* The new pairs fill exactly the places that become seen.
OldsGrow(N, list, h, c, b, h2, c2, b2) ==
  \A p : p # Nothing =>
    /\ OldSeen(list, h2, c2, b2, p) <=> OldSeen(list, h, c, b, p) \/ \E x \in N : x.old = p
    /\ ~(OldSeen(list, h, c, b, p) /\ \E x \in N : x.old = p)
NewsGrow(N, list, h, c, b, h2, c2, b2) ==
  \A p : p # Nothing =>
    /\ NewSeen(list, h2, c2, b2, p) <=> NewSeen(list, h, c, b, p) \/ \E x \in N : x.new = p
    /\ ~(NewSeen(list, h, c, b, p) /\ \E x \in N : x.new = p)

LEMMA PairsStep ==
  ASSUME NEW os, NEW ns, NEW ps, NEW N, NEW ho, NEW hn, NEW c, NEW b,
         NEW ho2, NEW hn2, NEW c2, NEW b2,
         Single(ps), Single(N), PairsTyped(os, ns, ps), PairsTyped(os, ns, N),
         OldsHeld(ps, os, ho, c, b), NewsHeld(ps, ns, hn, c, b),
         OldsGrow(N, os, ho, c, b, ho2, c2, b2), NewsGrow(N, ns, hn, c, b, hn2, c2, b2)
  PROVE  /\ Single(ps \cup N) /\ PairsTyped(os, ns, ps \cup N)
         /\ OldsHeld(ps \cup N, os, ho2, c2, b2) /\ NewsHeld(ps \cup N, ns, hn2, c2, b2)
<1>1. OldsHeld(ps \cup N, os, ho2, c2, b2)
  <2> SUFFICES ASSUME NEW p, p # Nothing
               PROVE  (\E x \in ps \cup N : x.old = p) <=> OldSeen(os, ho2, c2, b2, p)
    BY DEF OldsHeld
  <2>1. (\E x \in ps : x.old = p) <=> OldSeen(os, ho, c, b, p)
    BY DEF OldsHeld
  <2>2. OldSeen(os, ho2, c2, b2, p) <=> OldSeen(os, ho, c, b, p) \/ \E x \in N : x.old = p
    BY DEF OldsGrow
  <2>3. QED
    BY <2>1, <2>2
<1>2. NewsHeld(ps \cup N, ns, hn2, c2, b2)
  <2> SUFFICES ASSUME NEW p, p # Nothing
               PROVE  (\E x \in ps \cup N : x.new = p) <=> NewSeen(ns, hn2, c2, b2, p)
    BY DEF NewsHeld
  <2>1. (\E x \in ps : x.new = p) <=> NewSeen(ns, hn, c, b, p)
    BY DEF NewsHeld
  <2>2. NewSeen(ns, hn2, c2, b2, p) <=> NewSeen(ns, hn, c, b, p) \/ \E x \in N : x.new = p
    BY DEF NewsGrow
  <2>3. QED
    BY <2>1, <2>2
<1>3. \A x \in ps, y \in N : /\ x.old # Nothing => x.old # y.old
                             /\ x.new # Nothing => x.new # y.new
  <2> SUFFICES ASSUME NEW x \in ps, NEW y \in N
               PROVE  /\ x.old # Nothing => x.old # y.old
                      /\ x.new # Nothing => x.new # y.new
    OBVIOUS
  <2>1. x.old # Nothing => x.old # y.old
    <3> SUFFICES ASSUME x.old # Nothing, x.old = y.old PROVE FALSE
      OBVIOUS
    <3>1. OldSeen(os, ho, c, b, x.old)
      BY DEF OldsHeld
    <3>2. \E z \in N : z.old = x.old
      OBVIOUS
    <3>3. QED
      BY <3>1, <3>2 DEF OldsGrow
  <2>2. x.new # Nothing => x.new # y.new
    <3> SUFFICES ASSUME x.new # Nothing, x.new = y.new PROVE FALSE
      OBVIOUS
    <3>1. NewSeen(ns, hn, c, b, x.new)
      BY DEF NewsHeld
    <3>2. \E z \in N : z.new = x.new
      OBVIOUS
    <3>3. QED
      BY <3>1, <3>2 DEF NewsGrow
  <2>3. QED
    BY <2>1, <2>2
<1>4. Single(ps \cup N)
  BY <1>3 DEF Single
<1>5. PairsTyped(os, ns, ps \cup N)
  BY DEF PairsTyped
<1>6. QED
  BY <1>1, <1>2, <1>4, <1>5

-----------------------------------------------------------------------------
\* The places under a header are the clauses of the section that stands for it.
LEMMA PlacesUnder ==
  ASSUME NEW list \in Sections, NEW h \in HeadersOf(list), NEW p
  PROVE  ClauseAt(list, p) /\ list[p[1]].header = h
           <=> PlaceOf(ByHeader(list, h), 1..Len(list[ByHeader(list, h)].clauses), p)
<1> DEFINE s == ByHeader(list, h)
<1>1. Stands(list, s) /\ list[s].header = h
  BY LastStands
<1>2. s \in DOMAIN list /\ s \in Nat /\ DOMAIN list[s].clauses = 1..Len(list[s].clauses)
      /\ Len(list[s].clauses) \in Nat
  BY <1>1, SectionFacts DEF Stands
<1> HIDE DEF s
<1>3. ASSUME ClauseAt(list, p), list[p[1]].header = h
      PROVE  PlaceOf(s, 1..Len(list[s].clauses), p)
  <2>1. p[1] = s
    BY <1>1, <1>3, StandsOnce DEF ClauseAt
  <2>2. QED
    BY <1>2, <1>3, <2>1 DEF ClauseAt, PlaceOf
<1>4. ASSUME PlaceOf(s, 1..Len(list[s].clauses), p)
      PROVE  ClauseAt(list, p) /\ list[p[1]].header = h
  <2>1. PICK k \in 1..Len(list[s].clauses) : p = <<s, k>>
    BY <1>4 DEF PlaceOf
  <2>2. QED
    BY <1>1, <1>2, <2>1 DEF ClauseAt
<1>5. QED
  BY <1>3, <1>4 DEF s

LEMMA DiffInitially ==
  ASSUME DetectionInit PROVE DetectionInv
<1>1. <<>> \in Sections /\ DOMAIN <<>> = {}
  BY DEF Sections
<1>2. DetectionShape
  BY <1>1 DEF DetectionInit, DetectionShape, NoCur, NoBlock, CurType, BlockType
<1>3. TodoOK(olds, news, oldTodo, newTodo) /\ CurOK(olds, news, oldTodo, newTodo, cur)
      /\ BlockOK(olds, news, cur, block)
  BY DEF DetectionInit, TodoOK, CurOK, BlockOK
<1>4. Single(pairs) /\ Straight(olds, news, pairs, cur, block) /\ PairsTyped(olds, news, pairs)
  BY DEF DetectionInit, Single, Straight, Parallel, PairsTyped
<1>5. OldsHeld(pairs, olds, oldTodo, cur, block) /\ NewsHeld(pairs, news, newTodo, cur, block)
  BY <1>1 DEF DetectionInit, OldsHeld, NewsHeld, OldSeen, NewSeen, ClauseAt, Stands
<1>6. QED
  BY <1>2, <1>3, <1>4, <1>5 DEF DetectionInv

LEMMA PlainIsSections ==
  ASSUME NEW text \in Seq(Clauses) PROVE Plain(text) \in Sections
<1>1. Untitled \in Headers
  BY DetectionAssumption DEF DetectionAssumption
<1>2. [header |-> Untitled, clauses |-> text] \in Section
  BY <1>1 DEF Section
<1>3. QED
  BY <1>2 DEF Plain, Sections

LEMMA DetectHolds ==
  ASSUME DetectionInv, Detect PROVE DetectionInv'
<1>1. cur = NoCur /\ block = NoBlock /\ pairs = {} /\ cur \in CurType /\ block \in BlockType
  BY DEF DetectionInv, DetectionShape, Detect, BlockOK
<1>2. olds' \in Sections /\ news' \in Sections
  <2>1. PICK r \in DiffRequests :
          /\ olds' = IF r.oldSections # NoSections /\ r.newSections # NoSections
                     THEN r.oldSections ELSE Plain(r.oldText)
          /\ news' = IF r.oldSections # NoSections /\ r.newSections # NoSections
                     THEN r.newSections ELSE Plain(r.newText)
    BY DEF Detect
  <2>2. r.oldText \in Seq(Clauses) /\ r.newText \in Seq(Clauses)
        /\ r.oldSections \in Sections \cup {NoSections} /\ r.newSections \in Sections \cup {NoSections}
    BY DetectionAssumption
  <2>3. Plain(r.oldText) \in Sections /\ Plain(r.newText) \in Sections
    BY <2>2, PlainIsSections
  <2>4. QED
    BY <2>1, <2>2, <2>3
<1>3. cur' = cur /\ block' = block /\ pairs' = pairs /\ phase' = "comparing"
      /\ oldTodo' = HeadersOf(olds') /\ newTodo' = HeadersOf(news')
  BY DEF Detect
<1>4. DetectionShape'
  BY <1>1, <1>2, <1>3 DEF DetectionShape
<1>5. TodoOK(olds', news', oldTodo', newTodo')
  BY <1>3 DEF TodoOK
<1>6. CurOK(olds', news', oldTodo', newTodo', cur') /\ BlockOK(olds', news', cur', block')
  BY <1>1, <1>3 DEF CurOK, BlockOK
<1>7. Single(pairs') /\ Straight(olds', news', pairs', cur', block') /\ PairsTyped(olds', news', pairs')
  BY <1>1, <1>3 DEF Single, Straight, Parallel, PairsTyped
<1>8. OldsHeld(pairs', olds', oldTodo', cur', block')
  <2>1. \A p : ClauseAt(olds', p) => olds'[p[1]].header \in oldTodo'
    BY <1>3 DEF ClauseAt, Stands, HeadersOf
  <2>2. QED
    BY <1>1, <1>3, <2>1 DEF OldsHeld, OldSeen
<1>9. NewsHeld(pairs', news', newTodo', cur', block')
  <2>1. \A p : ClauseAt(news', p) => news'[p[1]].header \in newTodo'
    BY <1>3 DEF ClauseAt, Stands, HeadersOf
  <2>2. QED
    BY <1>1, <1>3, <2>1 DEF NewsHeld, NewSeen
<1>10. QED
  BY <1>4, <1>5, <1>6, <1>7, <1>8, <1>9 DEF DetectionInv

LEMMA DetectedHolds ==
  ASSUME DetectionInv, Detected PROVE DetectionInv'
<1>1. DetectionShape'
  BY DEF Detected, Comparing, DetectionInv, DetectionShape
<1>2. QED
  BY <1>1 DEF Detected, DetectionInv

LEMMA DiffAnsweredHolds ==
  ASSUME DetectionInv, DiffAnswered PROVE DetectionInv'
<1>1. DetectionInit'
  BY DEF DiffAnswered, DetectionInv, DetectionShape, DetectionInit, BlockOK
<1>2. QED
  BY <1>1, DiffInitially, PTL

LEMMA RemoveSectionHolds ==
  ASSUME DetectionInv, NEW h \in Headers, RemoveSection(h) PROVE DetectionInv'
<1> DEFINE s == ByHeader(olds, h)
           N == Removed(s, 1, Len(olds[s].clauses))
<1>1. cur = NoCur /\ block = NoBlock /\ phase = "comparing" /\ h \in oldTodo /\ h \notin HeadersOf(news)
      /\ olds \in Sections /\ news \in Sections /\ h \in HeadersOf(olds)
  BY DEF DetectionInv, DetectionShape, RemoveSection, Comparing, BlockOK, TodoOK
<1>2. pairs' = pairs \cup N /\ oldTodo' = oldTodo \ {h} /\ newTodo' = newTodo /\ cur' = cur
      /\ block' = block /\ olds' = olds /\ news' = news /\ phase' = phase
  BY DEF RemoveSection
<1>3. s \in Nat /\ Len(olds[s].clauses) \in Nat
  BY <1>1, LastStands, SectionFacts DEF Stands
<1>4. /\ \A p : p # Nothing => ((\E x \in N : x.old = p) <=> PlaceOf(s, 1..Len(olds[s].clauses), p))
      /\ \A x \in N : x.new = Nothing /\ x.type # "UNCHANGED"
      /\ Single(N) /\ PairsTyped(olds, news, N)
  BY <1>3, RemovedIs
<1>5. \A p : ClauseAt(olds, p) /\ olds[p[1]].header = h <=> PlaceOf(s, 1..Len(olds[s].clauses), p)
  BY <1>1, PlacesUnder
<1> HIDE DEF s, N
<1>6. OldsGrow(N, olds, oldTodo, cur, block, oldTodo', cur', block')
  BY <1>1, <1>2, <1>4, <1>5 DEF OldsGrow, OldSeen
<1>7. NewsGrow(N, news, newTodo, cur, block, newTodo', cur', block')
  BY <1>2, <1>4 DEF NewsGrow
<1>8. /\ Single(pairs') /\ PairsTyped(olds', news', pairs')
      /\ OldsHeld(pairs', olds', oldTodo', cur', block') /\ NewsHeld(pairs', news', newTodo', cur', block')
  BY <1>2, <1>4, <1>6, <1>7, PairsStep DEF DetectionInv
<1>9. DetectionShape'
  BY <1>1, <1>2 DEF DetectionInv, DetectionShape
<1>10. TodoOK(olds', news', oldTodo', newTodo')
  BY <1>2 DEF DetectionInv, TodoOK
<1>11. CurOK(olds', news', oldTodo', newTodo', cur') /\ BlockOK(olds', news', cur', block')
  BY <1>1, <1>2 DEF CurOK, BlockOK
<1>12. Straight(olds', news', pairs', cur', block')
  BY <1>1, <1>2, <1>4 DEF DetectionInv, Straight, Parallel
<1>13. QED
  BY <1>8, <1>9, <1>10, <1>11, <1>12 DEF DetectionInv

LEMMA AddSectionHolds ==
  ASSUME DetectionInv, NEW h \in Headers, AddSection(h) PROVE DetectionInv'
<1> DEFINE t == ByHeader(news, h)
           N == Added(t, 1, Len(news[t].clauses))
<1>1. cur = NoCur /\ block = NoBlock /\ phase = "comparing" /\ h \in newTodo /\ oldTodo = {}
      /\ olds \in Sections /\ news \in Sections /\ h \in HeadersOf(news)
  BY DEF DetectionInv, DetectionShape, AddSection, Comparing, BlockOK, TodoOK
<1>2. pairs' = pairs \cup N /\ newTodo' = newTodo \ {h} /\ oldTodo' = oldTodo /\ cur' = cur
      /\ block' = block /\ olds' = olds /\ news' = news /\ phase' = phase
  BY DEF AddSection
<1>3. t \in Nat /\ Len(news[t].clauses) \in Nat
  BY <1>1, LastStands, SectionFacts DEF Stands
<1>4. /\ \A p : p # Nothing => ((\E x \in N : x.new = p) <=> PlaceOf(t, 1..Len(news[t].clauses), p))
      /\ \A x \in N : x.old = Nothing /\ x.type # "UNCHANGED"
      /\ Single(N) /\ PairsTyped(olds, news, N)
  BY <1>3, AddedIs
<1>5. \A p : ClauseAt(news, p) /\ news[p[1]].header = h <=> PlaceOf(t, 1..Len(news[t].clauses), p)
  BY <1>1, PlacesUnder
<1> HIDE DEF t, N
<1>6. NewsGrow(N, news, newTodo, cur, block, newTodo', cur', block')
  BY <1>1, <1>2, <1>4, <1>5 DEF NewsGrow, NewSeen
<1>7. OldsGrow(N, olds, oldTodo, cur, block, oldTodo', cur', block')
  BY <1>2, <1>4 DEF OldsGrow
<1>8. /\ Single(pairs') /\ PairsTyped(olds', news', pairs')
      /\ OldsHeld(pairs', olds', oldTodo', cur', block') /\ NewsHeld(pairs', news', newTodo', cur', block')
  BY <1>2, <1>4, <1>6, <1>7, PairsStep DEF DetectionInv
<1>9. DetectionShape'
  BY <1>1, <1>2 DEF DetectionInv, DetectionShape
<1>10. TodoOK(olds', news', oldTodo', newTodo')
  BY <1>1, <1>2 DEF DetectionInv, TodoOK
<1>11. CurOK(olds', news', oldTodo', newTodo', cur') /\ BlockOK(olds', news', cur', block')
  BY <1>1, <1>2 DEF CurOK, BlockOK
<1>12. Straight(olds', news', pairs', cur', block')
  BY <1>1, <1>2, <1>4 DEF DetectionInv, Straight, Parallel
<1>13. QED
  BY <1>8, <1>9, <1>10, <1>11, <1>12 DEF DetectionInv

-----------------------------------------------------------------------------
\* While a section is aligned: the new pairs hold the places K of its two sides.
OldsTaken(N, list, c, b, c2, b2, K) ==
  /\ K \subseteq 1..Len(list[c.s].clauses)
  /\ \A k \in 1..Len(list[c.s].clauses) : OldPast(c2, b2, k) <=> OldPast(c, b, k) \/ k \in K
  /\ \A k \in K : ~OldPast(c, b, k)
  /\ \A p : p # Nothing => ((\E x \in N : x.old = p) <=> PlaceOf(c.s, K, p))
NewsTaken(N, list, c, b, c2, b2, K) ==
  /\ K \subseteq 1..Len(list[c.t].clauses)
  /\ \A k \in 1..Len(list[c.t].clauses) : NewPast(c2, b2, k) <=> NewPast(c, b, k) \/ k \in K
  /\ \A k \in K : ~NewPast(c, b, k)
  /\ \A p : p # Nothing => ((\E x \in N : x.new = p) <=> PlaceOf(c.t, K, p))

LEMMA OldsTakenGrow ==
  ASSUME NEW list \in Sections, NEW heads, NEW c \in CurType, NEW c2 \in CurType, NEW b, NEW b2, NEW N, NEW K,
         c # NoCur, c2 # NoCur, c2.s = c.s, Stands(list, c.s), list[c.s].header \notin heads,
         OldsTaken(N, list, c, b, c2, b2, K)
  PROVE  OldsGrow(N, list, heads, c, b, heads, c2, b2)
<1> DEFINE n == Len(list[c.s].clauses)
<1>1. c.s \in DOMAIN list /\ c.s \in Nat /\ n \in Nat /\ DOMAIN list[c.s].clauses = 1..n
  BY SectionFacts DEF Stands
<1> SUFFICES ASSUME NEW p, p # Nothing
             PROVE  /\ OldSeen(list, heads, c2, b2, p) <=> OldSeen(list, heads, c, b, p) \/ \E x \in N : x.old = p
                    /\ ~(OldSeen(list, heads, c, b, p) /\ \E x \in N : x.old = p)
  BY DEF OldsGrow
<1>2. (\E x \in N : x.old = p) <=> PlaceOf(c.s, K, p)
  BY DEF OldsTaken
<1>3. K \subseteq 1..n /\ \A k \in 1..n : OldPast(c2, b2, k) <=> OldPast(c, b, k) \/ k \in K
  BY DEF OldsTaken
<1>4. \A k \in K : ~OldPast(c, b, k)
  BY DEF OldsTaken
<1> HIDE DEF n
<1>5. PlaceOf(c.s, K, p) <=> ClauseAt(list, p) /\ p[1] = c.s /\ p[2] \in K
  BY <1>1, <1>3 DEF PlaceOf, ClauseAt
<1>6. CASE ~ClauseAt(list, p)
  BY <1>2, <1>5, <1>6 DEF OldSeen
<1>7. CASE ClauseAt(list, p) /\ p[1] # c.s
  BY <1>2, <1>5, <1>7 DEF OldSeen
<1>8. CASE ClauseAt(list, p) /\ p[1] = c.s
  <2>1. p[2] \in 1..n
    BY <1>1, <1>8 DEF ClauseAt
  <2>2. OldSeen(list, heads, c, b, p) <=> OldPast(c, b, p[2])
    BY <1>8 DEF OldSeen
  <2>3. OldSeen(list, heads, c2, b2, p) <=> OldPast(c2, b2, p[2])
    BY <1>8 DEF OldSeen
  <2>4. QED
    BY <1>2, <1>3, <1>4, <1>5, <1>8, <2>1, <2>2, <2>3
<1>9. QED
  BY <1>6, <1>7, <1>8

LEMMA NewsTakenGrow ==
  ASSUME NEW list \in Sections, NEW heads, NEW c \in CurType, NEW c2 \in CurType, NEW b, NEW b2, NEW N, NEW K,
         c # NoCur, c2 # NoCur, c2.t = c.t, Stands(list, c.t), list[c.t].header \notin heads,
         NewsTaken(N, list, c, b, c2, b2, K)
  PROVE  NewsGrow(N, list, heads, c, b, heads, c2, b2)
<1> DEFINE n == Len(list[c.t].clauses)
<1>1. c.t \in DOMAIN list /\ c.t \in Nat /\ n \in Nat /\ DOMAIN list[c.t].clauses = 1..n
  BY SectionFacts DEF Stands
<1> SUFFICES ASSUME NEW p, p # Nothing
             PROVE  /\ NewSeen(list, heads, c2, b2, p) <=> NewSeen(list, heads, c, b, p) \/ \E x \in N : x.new = p
                    /\ ~(NewSeen(list, heads, c, b, p) /\ \E x \in N : x.new = p)
  BY DEF NewsGrow
<1>2. (\E x \in N : x.new = p) <=> PlaceOf(c.t, K, p)
  BY DEF NewsTaken
<1>3. K \subseteq 1..n /\ \A k \in 1..n : NewPast(c2, b2, k) <=> NewPast(c, b, k) \/ k \in K
  BY DEF NewsTaken
<1>4. \A k \in K : ~NewPast(c, b, k)
  BY DEF NewsTaken
<1> HIDE DEF n
<1>5. PlaceOf(c.t, K, p) <=> ClauseAt(list, p) /\ p[1] = c.t /\ p[2] \in K
  BY <1>1, <1>3 DEF PlaceOf, ClauseAt
<1>6. CASE ~ClauseAt(list, p)
  BY <1>2, <1>5, <1>6 DEF NewSeen
<1>7. CASE ClauseAt(list, p) /\ p[1] # c.t
  BY <1>2, <1>5, <1>7 DEF NewSeen
<1>8. CASE ClauseAt(list, p) /\ p[1] = c.t
  <2>1. p[2] \in 1..n
    BY <1>1, <1>8 DEF ClauseAt
  <2>2. NewSeen(list, heads, c, b, p) <=> NewPast(c, b, p[2])
    BY <1>8 DEF NewSeen
  <2>3. NewSeen(list, heads, c2, b2, p) <=> NewPast(c2, b2, p[2])
    BY <1>8 DEF NewSeen
  <2>4. QED
    BY <1>2, <1>3, <1>4, <1>5, <1>8, <2>1, <2>2, <2>3
<1>9. QED
  BY <1>6, <1>7, <1>8

\* Where a section is being aligned.
LEMMA Aligned ==
  ASSUME DetectionInv, cur # NoCur
  PROVE  /\ olds \in Sections /\ news \in Sections /\ cur \in CurType /\ block \in BlockType
         /\ Stands(olds, cur.s) /\ Stands(news, cur.t) /\ olds[cur.s].header = news[cur.t].header
         /\ olds[cur.s].header \notin oldTodo /\ news[cur.t].header \notin newTodo
         /\ cur.s \in Nat /\ cur.t \in Nat /\ OldEnd \in Nat /\ NewEnd \in Nat
         /\ cur.i \in 1..OldEnd + 1 /\ cur.j \in 1..NewEnd + 1
         /\ phase = "comparing"
<1>1. /\ olds \in Sections /\ news \in Sections /\ cur \in CurType /\ block \in BlockType
      /\ phase = "comparing"
  BY DEF DetectionInv, DetectionShape
<1>2. /\ Stands(olds, cur.s) /\ Stands(news, cur.t) /\ olds[cur.s].header = news[cur.t].header
      /\ olds[cur.s].header \notin oldTodo /\ news[cur.t].header \notin newTodo
      /\ cur.i \in 1..OldEnd + 1 /\ cur.j \in 1..NewEnd + 1
  BY DEF DetectionInv, CurOK, OldEnd, NewEnd
<1>3. cur.s \in Nat /\ cur.t \in Nat /\ OldEnd \in Nat /\ NewEnd \in Nat
  BY <1>1, <1>2, SectionFacts DEF Stands, OldEnd, NewEnd
<1>4. QED
  BY <1>1, <1>2, <1>3

\* A step of the alignment: what is left to show of it.
LEMMA AligningStep ==
  ASSUME DetectionInv, cur # NoCur, cur' # NoCur, NEW N, NEW K, NEW L,
         olds' = olds, news' = news, oldTodo' = oldTodo, newTodo' = newTodo, phase' = phase,
         pairs' = pairs \cup N, Single(N), PairsTyped(olds, news, N),
         cur'.s = cur.s, cur'.t = cur.t, cur' \in CurType, block' \in BlockType,
         cur'.i \in 1..OldEnd + 1, cur'.j \in 1..NewEnd + 1,
         OldsTaken(N, olds, cur, block, cur', block', K), NewsTaken(N, news, cur, block, cur', block', L),
         BlockOK(olds, news, cur', block'), Straight(olds, news, pairs', cur', block')
  PROVE  DetectionInv'
<1>1. /\ olds \in Sections /\ news \in Sections /\ cur \in CurType /\ block \in BlockType
      /\ Stands(olds, cur.s) /\ Stands(news, cur.t) /\ olds[cur.s].header = news[cur.t].header
      /\ olds[cur.s].header \notin oldTodo /\ news[cur.t].header \notin newTodo
      /\ phase = "comparing"
  BY Aligned
<1>2. OldsGrow(N, olds, oldTodo, cur, block, oldTodo, cur', block')
  BY <1>1, OldsTakenGrow
<1>3. NewsGrow(N, news, newTodo, cur, block, newTodo, cur', block')
  BY <1>1, NewsTakenGrow
<1>4. /\ Single(pairs') /\ PairsTyped(olds, news, pairs')
      /\ OldsHeld(pairs', olds, oldTodo, cur', block') /\ NewsHeld(pairs', news, newTodo, cur', block')
  BY <1>2, <1>3, PairsStep DEF DetectionInv
<1>5. DetectionShape'
  BY <1>1 DEF DetectionInv, DetectionShape
<1>6. TodoOK(olds', news', oldTodo', newTodo')
  BY DEF DetectionInv, TodoOK
<1>7. CurOK(olds', news', oldTodo', newTodo', cur')
  BY <1>1 DEF CurOK, OldEnd, NewEnd
<1>8. QED
  BY <1>4, <1>5, <1>6, <1>7 DEF DetectionInv

LEMMA NoPairs == Single({}) /\ PairsTyped(olds, news, {})
BY DEF Single, PairsTyped

LEMMA MatchSectionHolds ==
  ASSUME DetectionInv, NEW h \in Headers, MatchSection(h) PROVE DetectionInv'
<1> DEFINE s == ByHeader(olds, h)
           t == ByHeader(news, h)
<1>1. cur = NoCur /\ block = NoBlock /\ phase = "comparing" /\ h \in oldTodo /\ h \in newTodo
      /\ olds \in Sections /\ news \in Sections /\ h \in HeadersOf(olds) /\ h \in HeadersOf(news)
  BY DEF DetectionInv, DetectionShape, MatchSection, Comparing, BlockOK, TodoOK
<1>2. /\ Stands(olds, s) /\ olds[s].header = h /\ Stands(news, t) /\ news[t].header = h
      /\ s \in Nat /\ t \in Nat /\ Len(olds[s].clauses) \in Nat /\ Len(news[t].clauses) \in Nat
  <2>1. Stands(olds, s) /\ olds[s].header = h /\ Stands(news, t) /\ news[t].header = h
    BY <1>1, LastStands
  <2>2. QED
    BY <1>1, <2>1, SectionFacts DEF Stands
<1>3. cur' = [s |-> s, t |-> t, i |-> 1, j |-> 1] /\ oldTodo' = oldTodo \ {h} /\ newTodo' = newTodo \ {h}
      /\ pairs' = pairs /\ block' = block /\ olds' = olds /\ news' = news /\ phase' = phase
  BY DEF MatchSection
<1> HIDE DEF s, t
<1>4. cur' # NoCur /\ cur' \in CurType /\ cur'.s = s /\ cur'.t = t /\ cur'.i = 1 /\ cur'.j = 1
  BY <1>2, <1>3 DEF NoCur, CurType
<1>5. OldsGrow({}, olds, oldTodo, cur, block, oldTodo', cur', block')
  <2> SUFFICES ASSUME NEW p
               PROVE  OldSeen(olds, oldTodo', cur', block', p) <=> OldSeen(olds, oldTodo, cur, block, p)
    BY DEF OldsGrow
  <2>1. CASE ClauseAt(olds, p) /\ olds[p[1]].header = h
    <3>1. p[1] = s /\ p[2] \in 1..Len(olds[s].clauses)
      BY <1>1, <1>2, <2>1, StandsOnce, SectionFacts DEF ClauseAt, Stands
    <3>2. ~OldPast(cur', block', p[2])
      BY <1>1, <1>2, <1>3, <1>4, <3>1 DEF OldPast
    <3>3. QED
      BY <1>1, <1>4, <2>1, <3>1, <3>2 DEF OldSeen
  <2>2. CASE ClauseAt(olds, p) /\ olds[p[1]].header # h
    BY <1>1, <1>2, <1>3, <1>4, <2>2 DEF OldSeen
  <2>3. CASE ~ClauseAt(olds, p)
    BY <2>3 DEF OldSeen
  <2>4. QED
    BY <2>1, <2>2, <2>3
<1>6. NewsGrow({}, news, newTodo, cur, block, newTodo', cur', block')
  <2> SUFFICES ASSUME NEW p
               PROVE  NewSeen(news, newTodo', cur', block', p) <=> NewSeen(news, newTodo, cur, block, p)
    BY DEF NewsGrow
  <2>1. CASE ClauseAt(news, p) /\ news[p[1]].header = h
    <3>1. p[1] = t /\ p[2] \in 1..Len(news[t].clauses)
      BY <1>1, <1>2, <2>1, StandsOnce, SectionFacts DEF ClauseAt, Stands
    <3>2. ~NewPast(cur', block', p[2])
      BY <1>1, <1>2, <1>3, <1>4, <3>1 DEF NewPast
    <3>3. QED
      BY <1>1, <1>4, <2>1, <3>1, <3>2 DEF NewSeen
  <2>2. CASE ClauseAt(news, p) /\ news[p[1]].header # h
    BY <1>1, <1>2, <1>3, <1>4, <2>2 DEF NewSeen
  <2>3. CASE ~ClauseAt(news, p)
    BY <2>3 DEF NewSeen
  <2>4. QED
    BY <2>1, <2>2, <2>3
<1>7. /\ Single(pairs') /\ PairsTyped(olds', news', pairs')
      /\ OldsHeld(pairs', olds', oldTodo', cur', block') /\ NewsHeld(pairs', news', newTodo', cur', block')
  <2>1. pairs' = pairs \cup {}
    BY <1>3
  <2>2. QED
    BY <1>3, <1>5, <1>6, <2>1, PairsStep, NoPairs DEF DetectionInv
<1>8. DetectionShape'
  BY <1>1, <1>3, <1>4 DEF DetectionInv, DetectionShape
<1>9. TodoOK(olds', news', oldTodo', newTodo')
  BY <1>3 DEF DetectionInv, TodoOK
<1>10. CurOK(olds', news', oldTodo', newTodo', cur')
  BY <1>2, <1>3, <1>4 DEF CurOK
<1>11. BlockOK(olds', news', cur', block')
  BY <1>1, <1>3 DEF BlockOK
<1>12. Straight(olds', news', pairs', cur', block')
  BY <1>1, <1>3, <1>4 DEF DetectionInv, Straight
<1>13. QED
  BY <1>7, <1>8, <1>9, <1>10, <1>11, <1>12 DEF DetectionInv

LEMMA SectionAlignedHolds ==
  ASSUME DetectionInv, SectionAligned PROVE DetectionInv'
<1>1. cur # NoCur /\ block = NoBlock /\ cur.i = OldEnd + 1 /\ cur.j = NewEnd + 1
  BY DEF SectionAligned, Aligning
<1>2. cur' = NoCur /\ oldTodo' = oldTodo /\ newTodo' = newTodo
      /\ pairs' = pairs /\ block' = block /\ olds' = olds /\ news' = news /\ phase' = phase
  BY DEF SectionAligned
<1>3. /\ olds \in Sections /\ news \in Sections /\ cur \in CurType /\ block \in BlockType
      /\ Stands(olds, cur.s) /\ Stands(news, cur.t)
      /\ olds[cur.s].header \notin oldTodo /\ news[cur.t].header \notin newTodo
      /\ cur.s \in Nat /\ cur.t \in Nat /\ OldEnd \in Nat /\ NewEnd \in Nat
      /\ phase = "comparing"
  BY <1>1, Aligned
<1>4. OldsGrow({}, olds, oldTodo, cur, block, oldTodo', cur', block')
  <2> SUFFICES ASSUME NEW p
               PROVE  OldSeen(olds, oldTodo', cur', block', p) <=> OldSeen(olds, oldTodo, cur, block, p)
    BY DEF OldsGrow
  <2>1. CASE ClauseAt(olds, p) /\ p[1] = cur.s
    <3>1. p[2] \in 1..OldEnd
      BY <1>3, <2>1, SectionFacts DEF ClauseAt, Stands, OldEnd
    <3>2. OldPast(cur, block, p[2])
      BY <1>1, <1>3, <3>1 DEF OldPast
    <3>3. QED
      BY <1>2, <1>3, <2>1, <3>2 DEF OldSeen
  <2>2. CASE ~(ClauseAt(olds, p) /\ p[1] = cur.s)
    BY <1>2, <2>2 DEF OldSeen
  <2>3. QED
    BY <2>1, <2>2
<1>5. NewsGrow({}, news, newTodo, cur, block, newTodo', cur', block')
  <2> SUFFICES ASSUME NEW p
               PROVE  NewSeen(news, newTodo', cur', block', p) <=> NewSeen(news, newTodo, cur, block, p)
    BY DEF NewsGrow
  <2>1. CASE ClauseAt(news, p) /\ p[1] = cur.t
    <3>1. p[2] \in 1..NewEnd
      BY <1>3, <2>1, SectionFacts DEF ClauseAt, Stands, NewEnd
    <3>2. NewPast(cur, block, p[2])
      BY <1>1, <1>3, <3>1 DEF NewPast, NoBlock
    <3>3. QED
      BY <1>2, <1>3, <2>1, <3>2 DEF NewSeen
  <2>2. CASE ~(ClauseAt(news, p) /\ p[1] = cur.t)
    BY <1>2, <2>2 DEF NewSeen
  <2>3. QED
    BY <2>1, <2>2
<1>7. /\ Single(pairs') /\ PairsTyped(olds', news', pairs')
      /\ OldsHeld(pairs', olds', oldTodo', cur', block') /\ NewsHeld(pairs', news', newTodo', cur', block')
  <2>1. pairs' = pairs \cup {}
    BY <1>2
  <2>2. QED
    BY <1>2, <1>4, <1>5, <2>1, PairsStep, NoPairs DEF DetectionInv
<1>8. DetectionShape'
  <2>1. NoCur \in CurType
    BY DEF NoCur, CurType
  <2>2. QED
    BY <1>2, <1>3, <2>1 DEF DetectionInv, DetectionShape
<1>9. TodoOK(olds', news', oldTodo', newTodo')
  BY <1>2 DEF DetectionInv, TodoOK
<1>10. CurOK(olds', news', oldTodo', newTodo', cur')
  BY <1>2 DEF CurOK
<1>11. BlockOK(olds', news', cur', block')
  BY <1>1, <1>2 DEF BlockOK
<1>12. Straight(olds', news', pairs', cur', block')
  BY <1>1, <1>2 DEF DetectionInv, Straight
<1>13. QED
  BY <1>7, <1>8, <1>9, <1>10, <1>11, <1>12 DEF DetectionInv

-----------------------------------------------------------------------------
LEMMA BlockLengths ==
  ASSUME NEW n \in Lengths, cur # NoCur, OldEnd \in Nat, NewEnd \in Nat
  PROVE  n \in Nat /\ n >= 1
BY DEF Lengths

LEMMA DeletedBlockHolds ==
  ASSUME DetectionInv, NEW n \in Lengths, DeletedBlock(n) PROVE DetectionInv'
<1> DEFINE K == cur.i..cur.i + n - 1
           N == Removed(cur.s, cur.i, cur.i + n - 1)
<1>1. cur # NoCur /\ block = NoBlock /\ cur.i + n <= OldEnd + 1
  BY DEF DeletedBlock, Aligning
<1>2. /\ olds \in Sections /\ news \in Sections /\ cur \in CurType /\ block \in BlockType
      /\ cur.s \in Nat /\ cur.t \in Nat /\ OldEnd \in Nat /\ NewEnd \in Nat
      /\ cur.i \in 1..OldEnd + 1 /\ cur.j \in 1..NewEnd + 1 /\ n \in Nat /\ n >= 1
  BY <1>1, Aligned, BlockLengths
<1>3. cur' = [cur EXCEPT !.i = cur.i + n] /\ pairs' = pairs \cup N /\ oldTodo' = oldTodo /\ newTodo' = newTodo
      /\ block' = block /\ olds' = olds /\ news' = news /\ phase' = phase
  BY DEF DeletedBlock
<1>4. cur' \in CurType /\ cur'.s = cur.s /\ cur'.t = cur.t /\ cur'.i = cur.i + n /\ cur'.j = cur.j
  BY <1>2, <1>3 DEF CurType
<1>5. cur' # NoCur
  BY <1>2, <1>4 DEF NoCur
<1>6. /\ \A p : p # Nothing => ((\E x \in N : x.old = p) <=> PlaceOf(cur.s, K, p))
      /\ \A x \in N : x.new = Nothing /\ x.type # "UNCHANGED"
      /\ Single(N) /\ PairsTyped(olds, news, N)
  BY <1>2, RemovedIs
<1>7. \E x \in N : x.type # "UNCHANGED"
  <2>1. <<cur.s, cur.i>> # Nothing
    BY <1>2, PlaceIsSome DEF CurType
  <2>2. PlaceOf(cur.s, K, <<cur.s, cur.i>>)
    BY <1>2 DEF PlaceOf
  <2>3. QED
    BY <1>6, <2>1, <2>2
<1> HIDE DEF N
<1>8. OldsTaken(N, olds, cur, block, cur', block', K)
  <2>1. \A k : OldPast(cur, block, k) <=> k < cur.i
    BY <1>1 DEF OldPast
  <2>2. \A k : OldPast(cur', block', k) <=> k < cur.i + n
    BY <1>1, <1>3, <1>4 DEF OldPast
  <2>3. K \subseteq 1..OldEnd
    BY <1>1, <1>2
  <2>4. \A k \in 1..OldEnd : k < cur.i + n <=> k < cur.i \/ k \in K
    BY <1>1, <1>2
  <2>5. \A k \in K : ~(k < cur.i)
    BY <1>1, <1>2
  <2> HIDE DEF K
  <2>6. QED
    BY <1>6, <2>1, <2>2, <2>3, <2>4, <2>5 DEF OldsTaken, OldEnd
<1>9. NewsTaken(N, news, cur, block, cur', block', {})
  BY <1>3, <1>4, <1>6 DEF NewsTaken, NewPast, PlaceOf
<1>10. BlockOK(olds, news, cur', block')
  BY <1>1, <1>3 DEF BlockOK
<1>11. Straight(olds, news, pairs', cur', block')
  BY <1>3, <1>7 DEF Straight
<1>12. cur'.i \in 1..OldEnd + 1 /\ cur'.j \in 1..NewEnd + 1 /\ block' \in BlockType
  BY <1>1, <1>2, <1>3, <1>4
<1>13. QED
  BY <1>1, <1>3, <1>4, <1>5, <1>6, <1>8, <1>9, <1>10, <1>11, <1>12, AligningStep

LEMMA InsertedBlockHolds ==
  ASSUME DetectionInv, NEW n \in Lengths, InsertedBlock(n) PROVE DetectionInv'
<1> DEFINE K == cur.j..cur.j + n - 1
           N == Added(cur.t, cur.j, cur.j + n - 1)
<1>1. cur # NoCur /\ block = NoBlock /\ cur.j + n <= NewEnd + 1
  BY DEF InsertedBlock, Aligning
<1>2. /\ olds \in Sections /\ news \in Sections /\ cur \in CurType /\ block \in BlockType
      /\ cur.s \in Nat /\ cur.t \in Nat /\ OldEnd \in Nat /\ NewEnd \in Nat
      /\ cur.i \in 1..OldEnd + 1 /\ cur.j \in 1..NewEnd + 1 /\ n \in Nat /\ n >= 1
  BY <1>1, Aligned, BlockLengths
<1>3. cur' = [cur EXCEPT !.j = cur.j + n] /\ pairs' = pairs \cup N /\ oldTodo' = oldTodo /\ newTodo' = newTodo
      /\ block' = block /\ olds' = olds /\ news' = news /\ phase' = phase
  BY DEF InsertedBlock
<1>4. cur' \in CurType /\ cur'.s = cur.s /\ cur'.t = cur.t /\ cur'.j = cur.j + n /\ cur'.i = cur.i
  BY <1>2, <1>3 DEF CurType
<1>5. cur' # NoCur
  BY <1>2, <1>4 DEF NoCur
<1>6. /\ \A p : p # Nothing => ((\E x \in N : x.new = p) <=> PlaceOf(cur.t, K, p))
      /\ \A x \in N : x.old = Nothing /\ x.type # "UNCHANGED"
      /\ Single(N) /\ PairsTyped(olds, news, N)
  BY <1>2, AddedIs
<1>7. \E x \in N : x.type # "UNCHANGED"
  <2>1. <<cur.t, cur.j>> # Nothing
    BY <1>2, PlaceIsSome DEF CurType
  <2>2. PlaceOf(cur.t, K, <<cur.t, cur.j>>)
    BY <1>2 DEF PlaceOf
  <2>3. QED
    BY <1>6, <2>1, <2>2
<1> HIDE DEF N
<1>8. NewsTaken(N, news, cur, block, cur', block', K)
  <2>1. \A k : NewPast(cur, block, k) <=> k < cur.j
    BY <1>1 DEF NewPast, NoBlock
  <2>2. \A k : NewPast(cur', block', k) <=> k < cur.j + n
    BY <1>1, <1>3, <1>4 DEF NewPast, NoBlock
  <2>3. K \subseteq 1..NewEnd
    BY <1>1, <1>2
  <2>4. \A k \in 1..NewEnd : k < cur.j + n <=> k < cur.j \/ k \in K
    BY <1>1, <1>2
  <2>5. \A k \in K : ~(k < cur.j)
    BY <1>1, <1>2
  <2> HIDE DEF K
  <2>6. QED
    BY <1>6, <2>1, <2>2, <2>3, <2>4, <2>5 DEF NewsTaken, NewEnd
<1>9. OldsTaken(N, olds, cur, block, cur', block', {})
  BY <1>3, <1>4, <1>6 DEF OldsTaken, OldPast, PlaceOf
<1>10. BlockOK(olds, news, cur', block')
  BY <1>1, <1>3 DEF BlockOK
<1>11. Straight(olds, news, pairs', cur', block')
  BY <1>3, <1>7 DEF Straight
<1>12. cur'.i \in 1..OldEnd + 1 /\ cur'.j \in 1..NewEnd + 1 /\ block' \in BlockType
  BY <1>1, <1>2, <1>3, <1>4
<1>13. QED
  BY <1>1, <1>3, <1>4, <1>5, <1>6, <1>8, <1>9, <1>10, <1>11, <1>12, AligningStep

LEMMA EqualBlockHolds ==
  ASSUME DetectionInv, NEW n \in Lengths, EqualBlock(n) PROVE DetectionInv'
<1> DEFINE K == cur.i..cur.i + n - 1
           L == cur.j..cur.j + n - 1
           N == {Pair(<<cur.s, cur.i + k>>, <<cur.t, cur.j + k>>) : k \in 0..n - 1}
<1>1. cur # NoCur /\ block = NoBlock /\ cur.i + n <= OldEnd + 1 /\ cur.j + n <= NewEnd + 1
      /\ \A k \in 0..n - 1 : Old(<<cur.s, cur.i + k>>) = New(<<cur.t, cur.j + k>>)
  BY DEF EqualBlock, Aligning
<1>2. /\ olds \in Sections /\ news \in Sections /\ cur \in CurType /\ block \in BlockType
      /\ cur.s \in Nat /\ cur.t \in Nat /\ OldEnd \in Nat /\ NewEnd \in Nat
      /\ cur.i \in 1..OldEnd + 1 /\ cur.j \in 1..NewEnd + 1 /\ n \in Nat /\ n >= 1
      /\ olds[cur.s].header = news[cur.t].header
  BY <1>1, Aligned, BlockLengths
<1>3. cur' = [cur EXCEPT !.i = cur.i + n, !.j = cur.j + n] /\ pairs' = pairs \cup N
      /\ oldTodo' = oldTodo /\ newTodo' = newTodo
      /\ block' = block /\ olds' = olds /\ news' = news /\ phase' = phase
  BY DEF EqualBlock
<1>4. cur' \in CurType /\ cur'.s = cur.s /\ cur'.t = cur.t /\ cur'.i = cur.i + n /\ cur'.j = cur.j + n
  <2> DEFINE d == [cur EXCEPT !.i = cur.i + n]
  <2>1. d \in CurType /\ d.s = cur.s /\ d.t = cur.t /\ d.i = cur.i + n /\ d.j = cur.j
    BY <1>2 DEF CurType
  <2>2. cur' = [d EXCEPT !.j = cur.j + n]
    BY <1>3
  <2> HIDE DEF d
  <2>3. QED
    BY <1>2, <2>1, <2>2 DEF CurType
<1>5. cur' # NoCur
  BY <1>2, <1>4 DEF NoCur
<1>6. ASSUME NEW x \in N
      PROVE  \E k \in 0..n - 1 :
               /\ x.old = <<cur.s, cur.i + k>> /\ x.new = <<cur.t, cur.j + k>>
               /\ x = Pair(x.old, x.new) /\ PairTyped(x) /\ SameText(olds, news, x)
               /\ x.old # Nothing /\ x.new # Nothing
  <2>1. PICK k \in 0..n - 1 : x = Pair(<<cur.s, cur.i + k>>, <<cur.t, cur.j + k>>)
    OBVIOUS
  <2>2. <<cur.s, cur.i + k>> # Nothing /\ <<cur.t, cur.j + k>> # Nothing
    BY <1>2, PlaceIsSome
  <2>3. QED
    BY <2>1, <2>2, PairIs, PairTypedIs
<1>7. ASSUME NEW k \in 0..n - 1
      PROVE  \E x \in N : x.old = <<cur.s, cur.i + k>> /\ x.new = <<cur.t, cur.j + k>>
  <2>1. Pair(<<cur.s, cur.i + k>>, <<cur.t, cur.j + k>>) \in N
    OBVIOUS
  <2> HIDE DEF N
  <2>2. QED
    BY <2>1, PairIs
<1> HIDE DEF N
<1>8. \A p : (\E x \in N : x.old = p) <=> PlaceOf(cur.s, K, p)
  <2> SUFFICES ASSUME NEW p PROVE (\E x \in N : x.old = p) <=> PlaceOf(cur.s, K, p)
    OBVIOUS
  <2>1. ASSUME NEW x \in N, x.old = p PROVE PlaceOf(cur.s, K, p)
    <3>1. PICK k \in 0..n - 1 : x.old = <<cur.s, cur.i + k>>
      BY <1>6
    <3>2. cur.i + k \in K
      BY <1>2
    <3>3. QED
      BY <2>1, <3>1, <3>2 DEF PlaceOf
  <2>2. ASSUME PlaceOf(cur.s, K, p) PROVE \E x \in N : x.old = p
    <3>1. PICK l \in K : p = <<cur.s, l>>
      BY <2>2 DEF PlaceOf
    <3>2. l - cur.i \in 0..n - 1 /\ cur.i + (l - cur.i) = l
      BY <1>2
    <3>3. QED
      BY <1>7, <3>1, <3>2
  <2>3. QED
    BY <2>1, <2>2
<1>9. \A p : (\E x \in N : x.new = p) <=> PlaceOf(cur.t, L, p)
  <2> SUFFICES ASSUME NEW p PROVE (\E x \in N : x.new = p) <=> PlaceOf(cur.t, L, p)
    OBVIOUS
  <2>1. ASSUME NEW x \in N, x.new = p PROVE PlaceOf(cur.t, L, p)
    <3>1. PICK k \in 0..n - 1 : x.new = <<cur.t, cur.j + k>>
      BY <1>6
    <3>2. cur.j + k \in L
      BY <1>2
    <3>3. QED
      BY <2>1, <3>1, <3>2 DEF PlaceOf
  <2>2. ASSUME PlaceOf(cur.t, L, p) PROVE \E x \in N : x.new = p
    <3>1. PICK l \in L : p = <<cur.t, l>>
      BY <2>2 DEF PlaceOf
    <3>2. l - cur.j \in 0..n - 1 /\ cur.j + (l - cur.j) = l
      BY <1>2
    <3>3. QED
      BY <1>7, <3>1, <3>2
  <2>3. QED
    BY <2>1, <2>2
<1>10. Single(N)
  <2> SUFFICES ASSUME NEW x \in N, NEW y \in N
               PROVE  /\ x.old = y.old => x = y
                      /\ x.new = y.new => x = y
    BY DEF Single
  <2>1. PICK k \in 0..n - 1 : x.old = <<cur.s, cur.i + k>> /\ x.new = <<cur.t, cur.j + k>>
                              /\ x = Pair(x.old, x.new)
    BY <1>6
  <2>2. PICK l \in 0..n - 1 : y.old = <<cur.s, cur.i + l>> /\ y.new = <<cur.t, cur.j + l>>
                              /\ y = Pair(y.old, y.new)
    BY <1>6
  <2>3. x.old = y.old => cur.i + k = cur.i + l
    BY <2>1, <2>2
  <2>4. x.new = y.new => cur.j + k = cur.j + l
    BY <2>1, <2>2
  <2>5. (x.old = y.old => k = l) /\ (x.new = y.new => k = l)
    BY <1>2, <2>3, <2>4
  <2>6. QED
    BY <2>1, <2>2, <2>5
<1>11. PairsTyped(olds, news, N)
  BY <1>6 DEF PairsTyped
<1>12. OldsTaken(N, olds, cur, block, cur', block', K)
  <2>1. \A k : OldPast(cur, block, k) <=> k < cur.i
    BY <1>1 DEF OldPast
  <2>2. \A k : OldPast(cur', block', k) <=> k < cur.i + n
    BY <1>1, <1>3, <1>4 DEF OldPast
  <2>3. K \subseteq 1..OldEnd
    BY <1>1, <1>2
  <2>4. \A k \in 1..OldEnd : k < cur.i + n <=> k < cur.i \/ k \in K
    BY <1>1, <1>2
  <2>5. \A k \in K : ~(k < cur.i)
    BY <1>1, <1>2
  <2> HIDE DEF K
  <2>6. QED
    BY <1>8, <2>1, <2>2, <2>3, <2>4, <2>5 DEF OldsTaken, OldEnd
<1>13. NewsTaken(N, news, cur, block, cur', block', L)
  <2>1. \A k : NewPast(cur, block, k) <=> k < cur.j
    BY <1>1 DEF NewPast, NoBlock
  <2>2. \A k : NewPast(cur', block', k) <=> k < cur.j + n
    BY <1>1, <1>3, <1>4 DEF NewPast, NoBlock
  <2>3. L \subseteq 1..NewEnd
    BY <1>1, <1>2
  <2>4. \A k \in 1..NewEnd : k < cur.j + n <=> k < cur.j \/ k \in L
    BY <1>1, <1>2
  <2>5. \A k \in L : ~(k < cur.j)
    BY <1>1, <1>2
  <2> HIDE DEF L
  <2>6. QED
    BY <1>9, <2>1, <2>2, <2>3, <2>4, <2>5 DEF NewsTaken, NewEnd
<1>14. BlockOK(olds, news, cur', block')
  BY <1>1, <1>3 DEF BlockOK
<1>15. Straight(olds, news, pairs', cur', block')
  <2>1. CASE \E x \in pairs : x.type # "UNCHANGED"
    BY <1>3, <2>1 DEF Straight
  <2>2. CASE Parallel(olds, news, pairs) /\ cur.i = cur.j
    <3>1. \A x \in N : /\ x.old # Nothing /\ x.new # Nothing
                       /\ x.old[2] = x.new[2] /\ olds[x.old[1]].header = news[x.new[1]].header
      <4> SUFFICES ASSUME NEW x \in N
                   PROVE  /\ x.old # Nothing /\ x.new # Nothing
                          /\ x.old[2] = x.new[2] /\ olds[x.old[1]].header = news[x.new[1]].header
        OBVIOUS
      <4>1. PICK k \in 0..n - 1 : x.old = <<cur.s, cur.i + k>> /\ x.new = <<cur.t, cur.j + k>>
                                  /\ x.old # Nothing /\ x.new # Nothing
        BY <1>6
      <4>2. QED
        BY <1>2, <2>2, <4>1
    <3>2. Parallel(olds, news, pairs')
      BY <1>3, <2>2, <3>1 DEF Parallel
    <3>3. cur'.i = cur'.j /\ block' = NoBlock
      BY <1>1, <1>3, <1>4, <2>2
    <3>4. QED
      BY <3>2, <3>3 DEF Straight
  <2>3. QED
    BY <1>1, <2>1, <2>2 DEF DetectionInv, Straight
<1>16. cur'.i \in 1..OldEnd + 1 /\ cur'.j \in 1..NewEnd + 1 /\ block' \in BlockType
  BY <1>1, <1>2, <1>3, <1>4
<1> HIDE DEF K, L
<1>17. QED
  BY <1>1, <1>3, <1>4, <1>5, <1>10, <1>11, <1>12, <1>13, <1>14, <1>15, <1>16, AligningStep

LEMMA ReplacedBlockHolds ==
  ASSUME DetectionInv, NEW n \in Lengths, NEW m \in Lengths, ReplacedBlock(n, m) PROVE DetectionInv'
<1>1. cur # NoCur /\ block = NoBlock /\ cur.i + n <= OldEnd + 1 /\ cur.j + m <= NewEnd + 1
      /\ \A k \in cur.i..(cur.i + n - 1), l \in cur.j..(cur.j + m - 1) :
           olds[cur.s].clauses[k] # news[cur.t].clauses[l]
  BY DEF ReplacedBlock, Aligning, Old, New
<1>2. /\ olds \in Sections /\ news \in Sections /\ cur \in CurType /\ block \in BlockType
      /\ cur.s \in Nat /\ cur.t \in Nat /\ OldEnd \in Nat /\ NewEnd \in Nat
      /\ cur.i \in 1..OldEnd + 1 /\ cur.j \in 1..NewEnd + 1 /\ n \in Nat /\ n >= 1 /\ m \in Nat /\ m >= 1
  BY <1>1, Aligned, BlockLengths
<1>3. cur' = [cur EXCEPT !.i = cur.i + n, !.j = cur.j + m] /\ pairs' = pairs \cup {}
      /\ oldTodo' = oldTodo /\ newTodo' = newTodo
      /\ olds' = olds /\ news' = news /\ phase' = phase
  BY DEF ReplacedBlock
<1>4. cur' \in CurType /\ cur'.s = cur.s /\ cur'.t = cur.t /\ cur'.i = cur.i + n /\ cur'.j = cur.j + m
  <2> DEFINE d == [cur EXCEPT !.i = cur.i + n]
  <2>1. d \in CurType /\ d.s = cur.s /\ d.t = cur.t /\ d.i = cur.i + n /\ d.j = cur.j
    BY <1>2 DEF CurType
  <2>2. cur' = [d EXCEPT !.j = cur.j + m]
    BY <1>3
  <2> HIDE DEF d
  <2>3. QED
    BY <1>2, <2>1, <2>2 DEF CurType
<1>5. cur' # NoCur
  BY <1>2, <1>4 DEF NoCur
<1> DEFINE L == cur.j..cur.j + m - 1
<1>6. block' = [a |-> cur.i, aEnd |-> cur.i + n, b |-> L, used |-> {}]
  BY DEF ReplacedBlock
<1>7. L \subseteq 1..NewEnd /\ L \subseteq 1..cur.j + m - 1 /\ L \subseteq Nat
  BY <1>1, <1>2
<1>8. block' # NoBlock /\ block' \in BlockType /\ block'.a = cur.i /\ block'.aEnd = cur.i + n
      /\ block'.b = L /\ block'.used = {}
  <2> HIDE DEF L
  <2>1. QED
    BY <1>2, <1>6, <1>7 DEF NoBlock, BlockType
<1>9. OldsTaken({}, olds, cur, block, cur', block', {})
  <2>1. \A k : OldPast(cur, block, k) <=> k < cur.i
    BY <1>1 DEF OldPast
  <2>2. \A k : OldPast(cur', block', k) <=> k < cur.i
    BY <1>8 DEF OldPast
  <2>3. QED
    BY <2>1, <2>2 DEF OldsTaken, PlaceOf
<1>10. NewsTaken({}, news, cur, block, cur', block', {})
  <2>1. \A k : NewPast(cur, block, k) <=> k < cur.j
    BY <1>1 DEF NewPast, NoBlock
  <2>2. \A k \in 1..NewEnd : NewPast(cur', block', k) <=> k < cur.j
    BY <1>2, <1>4, <1>8 DEF NewPast
  <2>3. QED
    BY <2>1, <2>2 DEF NewsTaken, PlaceOf, NewEnd
<1>11. BlockOK(olds, news, cur', block')
  <2>1. block'.a \in 1..block'.aEnd /\ block'.aEnd = cur'.i
    BY <1>2, <1>4, <1>8
  <2>2. block'.b \subseteq 1..cur'.j - 1 /\ block'.used \subseteq block'.b
    BY <1>2, <1>4, <1>7, <1>8
  <2>3. \A k \in block'.a..block'.aEnd - 1, l \in block'.b :
          olds[cur'.s].clauses[k] # news[cur'.t].clauses[l]
    <3> SUFFICES ASSUME NEW k \in block'.a..block'.aEnd - 1, NEW l \in block'.b
                 PROVE  olds[cur'.s].clauses[k] # news[cur'.t].clauses[l]
      OBVIOUS
    <3>1. k \in cur.i..(cur.i + n - 1) /\ l \in cur.j..(cur.j + m - 1)
      BY <1>2, <1>8
    <3> HIDE DEF L
    <3>2. QED
      BY <1>1, <1>4, <3>1
  <2>4. QED
    BY <1>5, <2>1, <2>2, <2>3 DEF BlockOK
<1>12. Straight(olds, news, pairs', cur', block')
  <2>1. block'.a < block'.aEnd
    BY <1>2, <1>8
  <2>2. QED
    BY <1>3, <1>8, <2>1 DEF DetectionInv, Straight
<1>13. cur'.i \in 1..OldEnd + 1 /\ cur'.j \in 1..NewEnd + 1
  BY <1>1, <1>2, <1>4
<1> HIDE DEF L
<1>14. QED
  BY <1>1, <1>3, <1>4, <1>5, <1>8, <1>9, <1>10, <1>11, <1>12, <1>13, AligningStep, NoPairs

-----------------------------------------------------------------------------
\* Of the partners that are left, one is the best.
LEMMA BestExists ==
  ASSUME NEW n \in Nat, NEW S \in SUBSET (1..n), S # {}, \A l \in S : Likeness(l) \in 0..100
  PROVE  \E l \in S : \A k \in S :
           Likeness(k) < Likeness(l) \/ (Likeness(k) = Likeness(l) /\ l <= k)
<1> DEFINE f == [l \in S |-> Likeness(l)]
           V == {f[l] : l \in S}
<1>1. \A l \in S : f[l] = Likeness(l)
  OBVIOUS
<1> HIDE DEF f
<1>2. V \in SUBSET (0..100) /\ V # {}
  BY <1>1
<1>3. PICK v \in V : \A u \in V : u <= v
  <2> HIDE DEF V
  <2>1. 100 \in Nat
    OBVIOUS
  <2>2. QED
    BY <1>2, <2>1, GreatestExists
<1> DEFINE T == {n - l : l \in {k \in S : f[k] = v}}
<1>4. T \in SUBSET (0..n) /\ T # {}
  <2>1. PICK l \in S : f[l] = v
    BY <1>3
  <2>2. n - l \in T
    BY <2>1
  <2>3. \A x \in T : x \in 0..n
    OBVIOUS
  <2>4. QED
    BY <2>2, <2>3
<1>5. PICK m \in T : \A x \in T : x <= m
  <2> HIDE DEF T
  <2>1. QED
    BY <1>4, GreatestExists
<1>6. PICK l \in S : m = n - l /\ f[l] = v
  BY <1>5
<1>7. ASSUME NEW k \in S PROVE f[k] < f[l] \/ (f[k] = f[l] /\ l <= k)
  <2>1. f[k] \in V /\ f[k] \in 0..100 /\ f[l] \in 0..100
    BY <1>2
  <2>2. f[k] <= f[l]
    BY <1>3, <1>6, <2>1
  <2>3. CASE f[k] = v
    <3>1. n - k \in T
      BY <2>3
    <3>2. n - k <= n - l
      BY <1>5, <1>6, <3>1
    <3>3. k \in Nat /\ l \in Nat
      OBVIOUS
    <3>4. QED
      BY <1>6, <2>3, <3>2, <3>3
  <2>4. CASE f[k] # v
    BY <1>6, <2>1, <2>2, <2>4
  <2>5. QED
    BY <2>3, <2>4
<1>8. QED
  BY <1>1, <1>7

LEMMA LikenessIs ==
  ASSUME DetectionInv, block # NoBlock, block.a < block.aEnd, NEW l \in block.b
  PROVE  Likeness(l) \in 0..100
<1>1. cur # NoCur /\ block.a \in 1..block.aEnd /\ block.aEnd = cur.i /\ block.b \subseteq 1..cur.j - 1
  BY DEF DetectionInv, BlockOK
<1>2. /\ olds \in Sections /\ news \in Sections /\ Stands(olds, cur.s) /\ Stands(news, cur.t)
      /\ OldEnd \in Nat /\ NewEnd \in Nat /\ cur.i \in 1..OldEnd + 1 /\ cur.j \in 1..NewEnd + 1
  BY <1>1, Aligned
<1>3. block.a \in 1..OldEnd /\ l \in 1..NewEnd
  BY <1>1, <1>2
<1>4. /\ olds[cur.s].clauses \in Seq(Clauses) /\ news[cur.t].clauses \in Seq(Clauses)
      /\ OldEnd = Len(olds[cur.s].clauses) /\ NewEnd = Len(news[cur.t].clauses)
  BY <1>2, SectionFacts DEF Stands, OldEnd, NewEnd
<1>5. Old(<<cur.s, block.a>>) \in Clauses /\ New(<<cur.t, l>>) \in Clauses
  BY <1>3, <1>4, ElementOfSeq DEF Old, New
<1>6. \A x, y \in Clauses : Similarity[x, y] \in 0..100
  BY DetectionAssumption, Zenon DEF DetectionAssumption
<1>7. QED
  BY <1>5, <1>6, Zenon DEF Likeness

LEMMA BestIsLeft ==
  ASSUME DetectionInv, block # NoBlock, block.a < block.aEnd, block.b # block.used
  PROVE  BestPair \in block.b \ block.used
<1> DEFINE S == block.b \ block.used
<1>1. cur # NoCur /\ block.b \subseteq 1..cur.j - 1 /\ block.used \subseteq block.b
  BY DEF DetectionInv, BlockOK
<1>2. cur.j - 1 \in Nat
  BY <1>1, Aligned
<1>3. S \in SUBSET (1..cur.j - 1) /\ S # {}
  BY <1>1
<1>4. \A l \in S : Likeness(l) \in 0..100
  <2> SUFFICES ASSUME NEW l \in S PROVE Likeness(l) \in 0..100
    OBVIOUS
  <2>1. QED
    BY LikenessIs
<1> HIDE DEF S
<1>5. \E l \in S : \A k \in S :
        Likeness(k) < Likeness(l) \/ (Likeness(k) = Likeness(l) /\ l <= k)
  BY <1>2, <1>3, <1>4, BestExists
<1>6. QED
  BY <1>5 DEF BestPair, S

LEMMA PairClauseHolds ==
  ASSUME DetectionInv, PairClause PROVE DetectionInv'
<1> DEFINE p == <<cur.s, block.a>>
           alike == block.b # block.used /\ Likeness(BestPair) >= 50
           L == IF alike THEN {BestPair} ELSE {}
           q == IF alike THEN <<cur.t, BestPair>> ELSE Nothing
           N == {Pair(p, q)}
<1>1. /\ cur # NoCur /\ block # NoBlock /\ block.a < block.aEnd /\ block.a \in 1..block.aEnd /\ block.aEnd = cur.i
      /\ block.b \subseteq 1..cur.j - 1 /\ block.used \subseteq block.b
      /\ \A k \in block.a..block.aEnd - 1, l \in block.b : olds[cur.s].clauses[k] # news[cur.t].clauses[l]
  BY DEF PairClause, DetectionInv, BlockOK
<1>2. /\ cur \in CurType /\ block \in BlockType /\ cur.s \in Nat /\ cur.t \in Nat
      /\ OldEnd \in Nat /\ NewEnd \in Nat /\ cur.i \in 1..OldEnd + 1 /\ cur.j \in 1..NewEnd + 1
  BY <1>1, Aligned
<1>3. /\ pairs' = pairs \cup N /\ cur' = cur /\ oldTodo' = oldTodo /\ newTodo' = newTodo
      /\ olds' = olds /\ news' = news /\ phase' = phase
      /\ block' = [block EXCEPT !.a = block.a + 1, !.used = IF alike THEN block.used \cup {BestPair} ELSE block.used]
  BY DEF PairClause
<1>4. alike => BestPair \in block.b \ block.used
  BY <1>1, BestIsLeft
<1>5. L \subseteq block.b \ block.used
  BY <1>4
<1>6. p # Nothing /\ (alike => q # Nothing)
  BY <1>1, <1>2, <1>4, PlaceIsSome
<1>7. Pair(p, q).old = p /\ Pair(p, q).new = q /\ Pair(p, q).type # "UNCHANGED"
  <2>1. alike => Old(p) # New(q)
    BY <1>1, <1>2, <1>4 DEF Old, New
  <2>2. ~alike => q = Nothing
    OBVIOUS
  <2> HIDE DEF p, q, alike
  <2>3. QED
    BY <2>1, <2>2, PairIs
<1>8. Single(N) /\ PairsTyped(olds, news, N)
  BY PairTypedIs DEF Single, PairsTyped
<1>9. \A x \in N : x.old = p /\ x.new = q /\ x.type # "UNCHANGED"
  BY <1>7
<1>10. N # {}
  OBVIOUS
<1> HIDE DEF N
<1>11. block'.a = block.a + 1 /\ block'.aEnd = block.aEnd /\ block'.b = block.b
       /\ block'.used = block.used \cup L /\ block' \in BlockType
  <2> DEFINE d == [block EXCEPT !.a = block.a + 1]
             u == IF alike THEN block.used \cup {BestPair} ELSE block.used
  <2>1. u = block.used \cup L /\ u \in SUBSET Nat
    <3>1. block.used \cup L \subseteq block.b /\ block.b \in SUBSET Nat
      BY <1>1, <1>2, <1>5 DEF BlockType
    <3>2. u = block.used \cup L
      OBVIOUS
    <3>3. QED
      BY <3>1, <3>2
  <2>2. d \in BlockType /\ d.a = block.a + 1 /\ d.aEnd = block.aEnd /\ d.b = block.b /\ d.used = block.used
    BY <1>2 DEF BlockType
  <2>3. block' = [d EXCEPT !.used = u]
    BY <1>3
  <2> HIDE DEF d, u, L
  <2>4. QED
    BY <2>1, <2>2, <2>3 DEF BlockType
<1> HIDE DEF alike
<1>12. block' # NoBlock
  BY <1>1, <1>2, <1>11 DEF NoBlock, BlockType
<1>13. OldsTaken(N, olds, cur, block, cur', block', {block.a})
  <2>1. \A k : OldPast(cur, block, k) <=> k < block.a
    BY <1>1 DEF OldPast
  <2>2. \A k : OldPast(cur', block', k) <=> k < block.a + 1
    BY <1>11, <1>12 DEF OldPast
  <2>3. block.a \in 1..OldEnd
    BY <1>1, <1>2
  <2>4. \A k \in 1..OldEnd : k < block.a + 1 <=> k < block.a \/ k \in {block.a}
    BY <1>2, <2>3
  <2>5. \A k \in {block.a} : ~(k < block.a)
    BY <1>2, <2>3
  <2>6. \A r : (\E x \in N : x.old = r) <=> PlaceOf(cur.s, {block.a}, r)
    BY <1>9, <1>10 DEF PlaceOf
  <2>7. QED
    BY <2>1, <2>2, <2>3, <2>4, <2>5, <2>6 DEF OldsTaken, OldEnd
<1>14. NewsTaken(N, news, cur, block, cur', block', L)
  <2>1. \A k : NewPast(cur, block, k) <=> k < cur.j /\ (k \in block.b => k \in block.used)
    BY DEF NewPast
  <2>2. \A k : NewPast(cur', block', k) <=> k < cur.j /\ (k \in block.b => k \in block.used \cup L)
    BY <1>3, <1>11 DEF NewPast
  <2>3. L \subseteq 1..NewEnd /\ \A k \in L : k < cur.j
    <3> HIDE DEF L
    <3>1. QED
      BY <1>1, <1>2, <1>5
  <2>6. \A r : r # Nothing => ((\E x \in N : x.new = r) <=> PlaceOf(cur.t, L, r))
    <3>1. CASE alike
      BY <1>9, <1>10, <3>1 DEF PlaceOf
    <3>2. CASE ~alike
      BY <1>9, <3>2 DEF PlaceOf
    <3>3. QED
      BY <3>1, <3>2
  <2> HIDE DEF L
  <2>4. \A k \in 1..NewEnd : NewPast(cur', block', k) <=> NewPast(cur, block, k) \/ k \in L
    BY <1>5, <2>1, <2>2, <2>3
  <2>5. \A k \in L : ~NewPast(cur, block, k)
    BY <1>5, <2>1
  <2>7. QED
    BY <2>3, <2>4, <2>5, <2>6 DEF NewsTaken, NewEnd
<1> HIDE DEF L
<1>15. BlockOK(olds, news, cur', block')
  <2>1. block'.a \in 1..block'.aEnd /\ block'.aEnd = cur'.i
    BY <1>1, <1>2, <1>3, <1>11 DEF BlockType
  <2>2. block'.b \subseteq 1..cur'.j - 1 /\ block'.used \subseteq block'.b
    BY <1>1, <1>3, <1>5, <1>11
  <2>3. \A k \in block'.a..block'.aEnd - 1, l \in block'.b :
          olds[cur'.s].clauses[k] # news[cur'.t].clauses[l]
    <3> SUFFICES ASSUME NEW k \in block'.a..block'.aEnd - 1, NEW l \in block'.b
                 PROVE  olds[cur'.s].clauses[k] # news[cur'.t].clauses[l]
      OBVIOUS
    <3>1. k \in block.a..block.aEnd - 1 /\ l \in block.b
      BY <1>1, <1>2, <1>11
    <3>2. QED
      BY <1>1, <1>3, <3>1
  <2>4. QED
    BY <1>1, <1>3, <2>1, <2>2, <2>3 DEF BlockOK
<1>16. Straight(olds, news, pairs', cur', block')
  BY <1>3, <1>9, <1>10 DEF Straight
<1> HIDE DEF p, q
<1>17. QED
  BY <1>1, <1>2, <1>3, <1>8, <1>11, <1>13, <1>14, <1>15, <1>16, AligningStep

LEMMA CloseBlockHolds ==
  ASSUME DetectionInv, CloseBlock PROVE DetectionInv'
<1> DEFINE L == block.b \ block.used
           N == {Pair(Nothing, <<cur.t, l>>) : l \in L}
<1>1. /\ cur # NoCur /\ block # NoBlock /\ block.a = block.aEnd /\ block.aEnd = cur.i
      /\ block.b \subseteq 1..cur.j - 1 /\ block.used \subseteq block.b
  BY DEF CloseBlock, DetectionInv, BlockOK
<1>2. /\ cur \in CurType /\ block \in BlockType /\ cur.s \in Nat /\ cur.t \in Nat
      /\ OldEnd \in Nat /\ NewEnd \in Nat /\ cur.i \in 1..OldEnd + 1 /\ cur.j \in 1..NewEnd + 1
  BY <1>1, Aligned
<1>3. /\ pairs' = pairs \cup N /\ cur' = cur /\ oldTodo' = oldTodo /\ newTodo' = newTodo
      /\ olds' = olds /\ news' = news /\ phase' = phase /\ block' = NoBlock
  BY DEF CloseBlock
<1>4. ASSUME NEW x \in N
      PROVE  /\ \E l \in L : x.new = <<cur.t, l>>
             /\ x = Pair(Nothing, x.new) /\ x.old = Nothing
             /\ PairTyped(x) /\ SameText(olds, news, x)
  <2>1. PICK l \in L : x = Pair(Nothing, <<cur.t, l>>)
    OBVIOUS
  <2> HIDE DEF N
  <2>2. QED
    BY <2>1, PairIs, PairTypedIs
<1>5. ASSUME NEW l \in L
      PROVE  \E x \in N : x.new = <<cur.t, l>>
  <2>1. Pair(Nothing, <<cur.t, l>>) \in N
    OBVIOUS
  <2> HIDE DEF N
  <2>2. QED
    BY <2>1, PairIs
<1> HIDE DEF N
<1>6. Single(N)
  <2> SUFFICES ASSUME NEW x \in N, NEW y \in N
               PROVE  /\ x.old = y.old /\ x.old # Nothing => x = y
                      /\ x.new = y.new /\ x.new # Nothing => x = y
    BY DEF Single
  <2>1. x.old = Nothing /\ x = Pair(Nothing, x.new) /\ y = Pair(Nothing, y.new)
    BY <1>4
  <2>2. QED
    BY <2>1
<1>7. PairsTyped(olds, news, N)
  BY <1>4 DEF PairsTyped
<1>8. \A r : (\E x \in N : x.new = r) <=> PlaceOf(cur.t, L, r)
  BY <1>4, <1>5 DEF PlaceOf
<1>9. NoBlock \in BlockType /\ NoBlock.b = {}
  BY DEF NoBlock, BlockType
<1>10. OldsTaken(N, olds, cur, block, cur', block', {})
  <2>1. \A k : OldPast(cur, block, k) <=> k < cur.i
    BY <1>1 DEF OldPast
  <2>2. \A k : OldPast(cur', block', k) <=> k < cur.i
    BY <1>3 DEF OldPast
  <2>3. \A r : r # Nothing => ~\E x \in N : x.old = r
    BY <1>4
  <2>4. QED
    BY <2>1, <2>2, <2>3 DEF OldsTaken, PlaceOf
<1>11. NewsTaken(N, news, cur, block, cur', block', L)
  <2>1. \A k : NewPast(cur, block, k) <=> k < cur.j /\ (k \in block.b => k \in block.used)
    BY DEF NewPast
  <2>2. \A k : NewPast(cur', block', k) <=> k < cur.j
    BY <1>3, <1>9 DEF NewPast
  <2>3. L \subseteq 1..NewEnd /\ \A k \in L : k < cur.j
    BY <1>1, <1>2
  <2>4. \A k \in 1..NewEnd : NewPast(cur', block', k) <=> NewPast(cur, block, k) \/ k \in L
    BY <2>1, <2>2, <2>3
  <2>5. \A k \in L : ~NewPast(cur, block, k)
    BY <2>1
  <2> HIDE DEF L
  <2>6. QED
    BY <1>8, <2>3, <2>4, <2>5 DEF NewsTaken, NewEnd
<1>12. BlockOK(olds, news, cur', block')
  BY <1>3 DEF BlockOK
<1>13. Straight(olds, news, pairs', cur', block')
  <2>1. ~(block.a < block.aEnd)
    BY <1>1, <1>2
  <2>2. \E x \in pairs : x.type # "UNCHANGED"
    BY <1>1, <2>1 DEF DetectionInv, Straight
  <2>3. QED
    BY <1>3, <2>2 DEF Straight
<1> HIDE DEF L
<1>14. QED
  BY <1>1, <1>2, <1>3, <1>6, <1>7, <1>9, <1>10, <1>11, <1>12, <1>13, AligningStep

-----------------------------------------------------------------------------
LEMMA DetectionStep ==
  ASSUME DetectionInv, [DetectionNext]_detectionVars PROVE DetectionInv'
<1>1. CASE UNCHANGED detectionVars
  BY <1>1 DEF detectionVars, DetectionInv, DetectionShape
<1>2. ASSUME NEW h \in Headers, RemoveSection(h) \/ MatchSection(h) \/ AddSection(h) PROVE DetectionInv'
  BY <1>2, RemoveSectionHolds, MatchSectionHolds, AddSectionHolds
<1>3. ASSUME NEW n \in Lengths, EqualBlock(n) \/ DeletedBlock(n) \/ InsertedBlock(n) PROVE DetectionInv'
  BY <1>3, EqualBlockHolds, DeletedBlockHolds, InsertedBlockHolds
<1>4. ASSUME NEW n \in Lengths, NEW m \in Lengths, ReplacedBlock(n, m) PROVE DetectionInv'
  BY <1>4, ReplacedBlockHolds
<1>5. ASSUME Detect \/ Detected \/ DiffAnswered \/ SectionAligned \/ PairClause \/ CloseBlock
      PROVE DetectionInv'
  BY <1>5, DetectHolds, DetectedHolds, DiffAnsweredHolds, SectionAlignedHolds, PairClauseHolds,
     CloseBlockHolds
<1>6. QED
  BY <1>1, <1>2, <1>3, <1>4, <1>5 DEF DetectionNext

LEMMA DetectionInvariant == DetectionSpec => []DetectionInv
<1>1. DetectionInit => DetectionInv
  BY DiffInitially
<1>2. DetectionInv /\ [DetectionNext]_detectionVars => DetectionInv'
  BY DetectionStep
<1>3. QED
  BY <1>1, <1>2, PTL DEF DetectionSpec

\* The state of a comparison has its types: the headers not yet looked at are
\* headers of the versions, and every pair has a type and a severity.
THEOREM DetectionTypeCorrect == DetectionSpec => []DetectionTypeOK
<1>1. DetectionInv => DetectionTypeOK
  BY DEF DetectionInv, DetectionShape, DetectionTypeOK, TodoOK, PairsTyped, PairTyped, CurType, BlockType
<1>2. QED
  BY <1>1, DetectionInvariant, PTL

LEMMA UnderStands ==
  ASSUME NEW list \in Sections, DistinctKeys(list), NEW h, NEW p \in Under(list, h)
  PROVE  ClauseAt(list, p)
<1>1. PICK s \in DOMAIN list : list[s].header = h /\ p \in {<<s, k>> : k \in DOMAIN list[s].clauses}
  BY DEF Under
<1>2. PICK k \in DOMAIN list[s].clauses : p = <<s, k>>
  BY <1>1
<1>3. h \in HeadersOf(list)
  BY <1>1 DEF HeadersOf
<1>4. ByHeader(list, h) = s
  BY <1>1, <1>3, LastStands DEF Stands, DistinctKeys
<1>5. s \in Nat /\ k \in Nat
  BY <1>2, SectionFacts
<1>6. QED
  BY <1>1, <1>2, <1>4, <1>5 DEF ClauseAt, Stands

LEMMA OneStands ==
  ASSUME NEW S, NEW x \in S, \A y \in S : y = x
  PROVE  Cardinality(S) = 1
<1>1. S = {x}
  OBVIOUS
<1>2. QED
  BY <1>1, FS_Singleton

BodyOf(list, h) == IF h \in HeadersOf(list) THEN list[ByHeader(list, h)].clauses ELSE <<>>

\* Every clause of the one section that stands for a header is in a pair; the
\* other side of it is the same place of the section that stands for it there.
LEMMA BodyPart ==
  ASSUME DetectionInv, phase = "done", ~HasChanges, NEW h
  PROVE  /\ \A k \in DOMAIN BodyOf(olds, h) :
              k \in DOMAIN BodyOf(news, h) /\ BodyOf(olds, h)[k] = BodyOf(news, h)[k]
         /\ \A k \in DOMAIN BodyOf(news, h) : k \in DOMAIN BodyOf(olds, h)
<1>1. cur = NoCur /\ oldTodo = {} /\ newTodo = {} /\ olds \in Sections /\ news \in Sections
  BY DEF DetectionInv, DetectionShape
<1>2. \A x \in pairs : x.type = "UNCHANGED"
  BY DEF HasChanges, DiffChanges
<1>3. Parallel(olds, news, pairs)
  BY <1>2 DEF DetectionInv, Straight
<1>4. ASSUME NEW x \in pairs
      PROVE  /\ ClauseAt(olds, x.old) /\ ClauseAt(news, x.new) /\ x.old[2] = x.new[2]
             /\ olds[x.old[1]].header = news[x.new[1]].header
             /\ olds[x.old[1]].clauses[x.old[2]] = news[x.new[1]].clauses[x.new[2]]
  <2>1. x.old # Nothing /\ x.new # Nothing /\ x.old[2] = x.new[2]
        /\ olds[x.old[1]].header = news[x.new[1]].header
    BY <1>3 DEF Parallel
  <2>2. OldSeen(olds, oldTodo, cur, block, x.old)
    BY <2>1 DEF DetectionInv, OldsHeld
  <2>3. NewSeen(news, newTodo, cur, block, x.new)
    BY <2>1 DEF DetectionInv, NewsHeld
  <2>4. SameText(olds, news, x)
    BY DEF DetectionInv, PairsTyped
  <2>5. QED
    BY <1>2, <2>1, <2>2, <2>3, <2>4 DEF OldSeen, NewSeen, SameText
<1>5. ASSUME NEW list \in Sections, NEW p, ClauseAt(list, p), list[p[1]].header = h
      PROVE  /\ h \in HeadersOf(list) /\ p[1] = ByHeader(list, h) /\ p[2] \in DOMAIN BodyOf(list, h)
             /\ BodyOf(list, h)[p[2]] = list[p[1]].clauses[p[2]]
  BY <1>5 DEF ClauseAt, Stands, HeadersOf, BodyOf
<1>6. ASSUME NEW list \in Sections, NEW k \in DOMAIN BodyOf(list, h)
      PROVE  \E p : ClauseAt(list, p) /\ list[p[1]].header = h /\ p[2] = k /\ p # Nothing
  <2>1. h \in HeadersOf(list)
    BY <1>6 DEF BodyOf
  <2> DEFINE s == ByHeader(list, h)
  <2>2. Stands(list, s) /\ list[s].header = h /\ k \in DOMAIN list[s].clauses
    BY <2>1, LastStands DEF BodyOf
  <2>3. s \in Nat /\ k \in Nat
    BY <2>2, SectionFacts DEF Stands
  <2> HIDE DEF s
  <2>4. ClauseAt(list, <<s, k>>) /\ <<s, k>> # Nothing
    BY <2>2, <2>3, PlaceIsSome DEF ClauseAt
  <2>5. QED
    BY <2>2, <2>4
<1>7. ASSUME NEW k \in DOMAIN BodyOf(olds, h)
      PROVE  k \in DOMAIN BodyOf(news, h) /\ BodyOf(olds, h)[k] = BodyOf(news, h)[k]
  <2>1. PICK p : ClauseAt(olds, p) /\ olds[p[1]].header = h /\ p[2] = k /\ p # Nothing
    BY <1>1, <1>6
  <2>2. OldSeen(olds, oldTodo, cur, block, p)
    BY <1>1, <2>1 DEF OldSeen
  <2>3. PICK x \in pairs : x.old = p
    BY <2>1, <2>2 DEF DetectionInv, OldsHeld
  <2>4. /\ ClauseAt(news, x.new) /\ p[2] = x.new[2] /\ news[x.new[1]].header = h
        /\ olds[p[1]].clauses[k] = news[x.new[1]].clauses[k]
    BY <1>4, <2>1, <2>3
  <2>5. k \in DOMAIN BodyOf(news, h) /\ BodyOf(news, h)[k] = news[x.new[1]].clauses[k]
    BY <1>1, <1>5, <2>1, <2>4
  <2>6. BodyOf(olds, h)[k] = olds[p[1]].clauses[k]
    BY <1>1, <1>5, <2>1
  <2>7. QED
    BY <2>4, <2>5, <2>6
<1>8. ASSUME NEW k \in DOMAIN BodyOf(news, h)
      PROVE  k \in DOMAIN BodyOf(olds, h)
  <2>1. PICK p : ClauseAt(news, p) /\ news[p[1]].header = h /\ p[2] = k /\ p # Nothing
    BY <1>1, <1>6
  <2>2. NewSeen(news, newTodo, cur, block, p)
    BY <1>1, <2>1 DEF NewSeen
  <2>3. PICK x \in pairs : x.new = p
    BY <2>1, <2>2 DEF DetectionInv, NewsHeld
  <2>4. QED
    BY <1>1, <1>4, <1>5, <2>1, <2>3
<1>9. QED
  BY <1>7, <1>8

LEMMA BodyIsSeq ==
  ASSUME NEW list \in Sections, NEW h PROVE BodyOf(list, h) \in Seq(Clauses)
<1>1. CASE h \in HeadersOf(list)
  BY <1>1, LastStands, SectionFacts DEF BodyOf, Stands
<1>2. CASE h \notin HeadersOf(list)
  BY <1>2 DEF BodyOf
<1>3. QED
  BY <1>1, <1>2

LEMMA SameBody ==
  ASSUME NEW b1 \in Seq(Clauses), NEW b2 \in Seq(Clauses),
         \A k \in DOMAIN b1 : k \in DOMAIN b2 /\ b1[k] = b2[k], \A k \in DOMAIN b2 : k \in DOMAIN b1
  PROVE  b1 = b2
<1>1. Len(b1) \in Nat /\ Len(b2) \in Nat /\ DOMAIN b1 = 1..Len(b1) /\ DOMAIN b2 = 1..Len(b2)
  BY LenProperties
<1>2. Len(b1) = Len(b2)
  <2> DEFINE m == Len(b1)
             n == Len(b2)
  <2>1. m \in Nat /\ n \in Nat /\ (\A k \in 1..m : k \in 1..n) /\ (\A k \in 1..n : k \in 1..m)
    BY <1>1
  <2> HIDE DEF m, n
  <2>2. m <= n
    BY <2>1
  <2>3. n <= m
    BY <2>1
  <2>4. m = n
    BY <2>1, <2>2, <2>3
  <2>5. QED
    BY <2>4 DEF m, n
<1>3. QED
  BY <1>1, <1>2, SeqEqual

\* A diff is exact, for any documents: however the sections are cut into
\* blocks and whichever partners the clauses of a block compete for, every
\* clause of either version stands in exactly one pair, and a diff without a
\* change means equal sections.
THEOREM DiffAccountsForAll == DetectionSpec => []DiffIsExact
<1>1. DetectionInv => DiffIsExact
  <2> SUFFICES ASSUME DetectionInv, phase = "done", DistinctKeys(olds), DistinctKeys(news)
               PROVE  /\ \A h \in Headers : \A p \in Under(olds, h) :
                           Cardinality({x \in pairs : x.old = p}) = 1
                      /\ \A h \in Headers : \A q \in Under(news, h) :
                           Cardinality({x \in pairs : x.new = q}) = 1
                      /\ \A x \in pairs : x.type = "UNCHANGED" => Old(x.old) = New(x.new)
                      /\ ~HasChanges => \A h \in HeadersOf(olds) \cup HeadersOf(news) :
                           BodyOf(olds, h) = BodyOf(news, h)
    BY DEF DiffIsExact, BodyOf
  <2>1. cur = NoCur /\ oldTodo = {} /\ newTodo = {} /\ olds \in Sections /\ news \in Sections
    BY DEF DetectionInv, DetectionShape
  <2>2. ASSUME NEW h \in Headers, NEW p \in Under(olds, h)
        PROVE  Cardinality({x \in pairs : x.old = p}) = 1
    <3>1. ClauseAt(olds, p) /\ p # Nothing
      BY <2>1, UnderStands, PlaceIsSome DEF ClauseAt
    <3>2. OldSeen(olds, oldTodo, cur, block, p)
      BY <2>1, <3>1 DEF OldSeen
    <3>3. PICK x \in pairs : x.old = p
      BY <3>1, <3>2 DEF DetectionInv, OldsHeld
    <3>4. \A y \in pairs : y.old = p => y = x
      BY <3>1, <3>3 DEF DetectionInv, Single
    <3> DEFINE S == {y \in pairs : y.old = p}
    <3>5. x \in S /\ \A y \in S : y = x
      BY <3>3, <3>4
    <3> HIDE DEF S
    <3>6. Cardinality(S) = 1
      BY <3>5, OneStands
    <3>7. QED
      BY <3>6 DEF S
  <2>3. ASSUME NEW h \in Headers, NEW q \in Under(news, h)
        PROVE  Cardinality({x \in pairs : x.new = q}) = 1
    <3>1. ClauseAt(news, q) /\ q # Nothing
      BY <2>1, UnderStands, PlaceIsSome DEF ClauseAt
    <3>2. NewSeen(news, newTodo, cur, block, q)
      BY <2>1, <3>1 DEF NewSeen
    <3>3. PICK x \in pairs : x.new = q
      BY <3>1, <3>2 DEF DetectionInv, NewsHeld
    <3>4. \A y \in pairs : y.new = q => y = x
      BY <3>1, <3>3 DEF DetectionInv, Single
    <3> DEFINE S == {y \in pairs : y.new = q}
    <3>5. x \in S /\ \A y \in S : y = x
      BY <3>3, <3>4
    <3> HIDE DEF S
    <3>6. Cardinality(S) = 1
      BY <3>5, OneStands
    <3>7. QED
      BY <3>6 DEF S
  <2>4. \A x \in pairs : x.type = "UNCHANGED" => Old(x.old) = New(x.new)
    BY DEF DetectionInv, PairsTyped, SameText, Old, New
  <2>5. ASSUME ~HasChanges, NEW h PROVE BodyOf(olds, h) = BodyOf(news, h)
    <3>1. BodyOf(olds, h) \in Seq(Clauses) /\ BodyOf(news, h) \in Seq(Clauses)
      BY <2>1, BodyIsSeq
    <3>2. /\ \A k \in DOMAIN BodyOf(olds, h) :
               k \in DOMAIN BodyOf(news, h) /\ BodyOf(olds, h)[k] = BodyOf(news, h)[k]
          /\ \A k \in DOMAIN BodyOf(news, h) : k \in DOMAIN BodyOf(olds, h)
      BY <2>5, BodyPart
    <3>3. QED
      BY <3>1, <3>2, SameBody
  <2>6. QED
    BY <2>2, <2>3, <2>4, <2>5
<1>2. QED
  BY <1>1, DetectionInvariant, PTL

-----------------------------------------------------------------------------
(* KnowledgeGraph: an impact traversal reaches what is within its depth.     *)

\* Arrows between the first nodes, and what they come from.
IsArrows(arrows, m) == arrows \in SUBSET ((1..m) \X (1..m))
IsRels(rels, m) == m \in Nat /\ rels \in Seq(EdgesAmong(1..m))

LEMMA RelsAre ==
  ASSUME NEW m, NEW rels, IsRels(rels, m)
  PROVE  /\ m \in Nat /\ Len(rels) \in Nat /\ DOMAIN rels = 1..Len(rels)
         /\ \A k \in 1..Len(rels) : rels[k].from \in 1..m /\ rels[k].to \in 1..m /\ rels[k].kind \in RelationKinds
<1>1. m \in Nat /\ rels \in Seq(EdgesAmong(1..m))
  BY DEF IsRels
<1>2. Len(rels) \in Nat /\ DOMAIN rels = 1..Len(rels)
  BY <1>1, LenProperties
<1>3. \A k \in 1..Len(rels) : rels[k] \in EdgesAmong(1..m)
  BY <1>1, ElementOfSeq
<1>4. QED
  BY <1>1, <1>2, <1>3 DEF EdgesAmong

\* The relationship k is an arrow from a to b.
Relates(rels, kinds, k, a, b) == rels[k].kind \in kinds /\ rels[k].from = a /\ rels[k].to = b

LEMMA ArrowsAre ==
  ASSUME NEW m, NEW rels, IsRels(rels, m), NEW kinds
  PROVE  /\ IsArrows(Arrows(rels, kinds), m)
         /\ \A a, b : <<a, b>> \in Arrows(rels, kinds) <=> \E k \in 1..Len(rels) : Relates(rels, kinds, k, a, b)
<1>1. /\ DOMAIN rels = 1..Len(rels)
      /\ \A k \in 1..Len(rels) : rels[k].from \in 1..m /\ rels[k].to \in 1..m
  BY RelsAre
<1>2. \A p : p \in Arrows(rels, kinds) <=>
          \E k \in 1..Len(rels) : rels[k].kind \in kinds /\ p = <<rels[k].from, rels[k].to>>
  BY <1>1 DEF Arrows
<1>3. IsArrows(Arrows(rels, kinds), m)
  BY <1>1, <1>2 DEF IsArrows
<1>4. ASSUME NEW a, NEW b
      PROVE  <<a, b>> \in Arrows(rels, kinds) <=> \E k \in 1..Len(rels) : Relates(rels, kinds, k, a, b)
  BY <1>2 DEF Relates
<1>5. QED
  BY <1>3, <1>4

LEMMA TurnedAre ==
  ASSUME NEW m, NEW arrows, IsArrows(arrows, m)
  PROVE  /\ IsArrows(Turned(arrows), m) /\ IsArrows(arrows \cup Turned(arrows), m)
         /\ \A a, b : <<a, b>> \in Turned(arrows) <=> <<b, a>> \in arrows
<1>1. \A p \in arrows : p = <<p[1], p[2]>> /\ p[1] \in 1..m /\ p[2] \in 1..m
  BY DEF IsArrows
<1>2. \A p : p \in Turned(arrows) <=> \E q \in arrows : p = <<q[2], q[1]>>
  BY DEF Turned
<1>3. IsArrows(Turned(arrows), m)
  BY <1>1, <1>2 DEF IsArrows
<1>4. ASSUME NEW a, NEW b PROVE <<a, b>> \in Turned(arrows) <=> <<b, a>> \in arrows
  <2>1. ASSUME <<a, b>> \in Turned(arrows) PROVE <<b, a>> \in arrows
    <3>1. PICK q \in arrows : <<a, b>> = <<q[2], q[1]>>
      BY <1>2, <2>1
    <3>2. QED
      BY <1>1, <3>1
  <2>2. ASSUME <<b, a>> \in arrows PROVE <<a, b>> \in Turned(arrows)
    <3>1. <<a, b>> = <<(<<b, a>>)[2], (<<b, a>>)[1]>>
      OBVIOUS
    <3>2. QED
      BY <1>2, <2>2, <3>1
  <2>3. QED
    BY <2>1, <2>2
<1>5. QED
  BY <1>3, <1>4 DEF IsArrows

LEMMA LeadsToIs ==
  ASSUME NEW m, NEW arrows, IsArrows(arrows, m), NEW ids
  PROVE  /\ LeadsTo(arrows, ids) \in SUBSET (1..m)
         /\ \A b : b \in LeadsTo(arrows, ids) <=> \E a \in ids : <<a, b>> \in arrows
<1>1. \A p \in arrows : p = <<p[1], p[2]>> /\ p[1] \in 1..m /\ p[2] \in 1..m
  BY DEF IsArrows
<1>2. \A b : b \in LeadsTo(arrows, ids) <=> \E p \in arrows : p[1] \in ids /\ b = p[2]
  BY DEF LeadsTo
<1>3. ASSUME NEW b PROVE b \in LeadsTo(arrows, ids) <=> \E a \in ids : <<a, b>> \in arrows
  <2>1. ASSUME b \in LeadsTo(arrows, ids) PROVE \E a \in ids : <<a, b>> \in arrows
    <3>1. PICK p \in arrows : p[1] \in ids /\ b = p[2]
      BY <1>2, <2>1
    <3>2. QED
      BY <1>1, <3>1
  <2>2. ASSUME NEW a \in ids, <<a, b>> \in arrows PROVE b \in LeadsTo(arrows, ids)
    <3>1. (<<a, b>>)[1] = a /\ (<<a, b>>)[2] = b
      OBVIOUS
    <3>2. QED
      BY <1>2, <2>2, <3>1
  <2>3. QED
    BY <2>1, <2>2
<1>4. LeadsTo(arrows, ids) \in SUBSET (1..m)
  <2>1. ASSUME NEW b \in LeadsTo(arrows, ids) PROVE b \in 1..m
    <3>1. PICK p \in arrows : p[1] \in ids /\ b = p[2]
      BY <1>2, <2>1
    <3>2. QED
      BY <1>1, <3>1
  <2>2. QED
    BY <2>1
<1>5. QED
  BY <1>3, <1>4

-----------------------------------------------------------------------------
(* What is within a number of arrows *)

\* The nodes within 0, 1, ... arrows.
ReachOf(arrows, start, limit, m, f) ==
  /\ f \in [0..limit -> SUBSET (1..m)] /\ f[0] = {start}
  /\ \A k \in 1..limit : f[k] = Wider(arrows, f[k - 1])
  /\ Within(arrows, start, limit) = f[limit]

LEMMA ReachExists ==
  ASSUME NEW m, NEW arrows, IsArrows(arrows, m), NEW start \in 1..m, NEW limit \in Nat
  PROVE  \E f : ReachOf(arrows, start, limit, m, f)
<1> DEFINE n == limit
           S == SUBSET (1..m)
           reach[k \in 0..n] == IF k = 0 THEN {start} ELSE Wider(arrows, reach[k - 1])
           G == [p \in S \X (1..n) |-> Wider(arrows, p[1])]
<1>0. Within(arrows, start, limit) = reach[limit]
  BY DEF Within
<1>1. n \in Nat
  OBVIOUS
<1>2. ASSUME NEW x \in S, NEW k \in 1..n PROVE Wider(arrows, x) \in S
  BY LeadsToIs DEF Wider
<1>3. {start} \in S
  OBVIOUS
<1> HIDE DEF n
<1>4. G \in [S \X (1..n) -> S]
  <2> HIDE DEF S
  <2> SUFFICES ASSUME NEW x \in S, NEW k \in 1..n PROVE Wider(arrows, x) \in S
    OBVIOUS
  <2>1. QED
    BY <1>2
<1> HIDE DEF S
<1>5. PICK f : Recursion(S, {start}, n, G, f)
  <2>1. RecursionData(S, {start}, n, G)
    BY <1>1, <1>3, <1>4 DEF RecursionData
  <2> HIDE DEF G, reach
  <2>2. QED
    BY <2>1, RecursionExists
<1>6. \A k \in 1..n : k - 1 \in 0..n /\ k \in 0..n /\ f[k - 1] \in S
  BY <1>1, <1>5 DEF Recursion
<1>7. \A k \in 1..n : f[k] = Wider(arrows, f[k - 1])
  BY <1>5, <1>6 DEF Recursion
<1>8. f[0] = {start} /\ f \in [0..n -> S]
  BY <1>5 DEF Recursion
<1> HIDE DEF G
<1>9. f = [k \in 0..n |-> IF k = 0 THEN {start} ELSE Wider(arrows, f[k - 1])]
  <2>1. \A k \in 0..n : k = 0 \/ k \in 1..n
    BY <1>1
  <2>2. ASSUME NEW k \in 0..n PROVE f[k] = IF k = 0 THEN {start} ELSE Wider(arrows, f[k - 1])
    BY <1>7, <1>8, <2>1
  <2>3. QED
    BY <1>8, <2>2
<1>10. reach = [k \in 0..n |-> IF k = 0 THEN {start} ELSE Wider(arrows, reach[k - 1])]
  BY <1>9
<1> HIDE DEF reach
<1>11. /\ reach[0] = {start}
       /\ \A k \in 1..n : reach[k] = Wider(arrows, reach[k - 1])
  <2>1. 0 \in 0..n /\ \A k \in 1..n : k \in 0..n /\ k # 0
    BY <1>1
  <2>2. QED
    BY <1>10, <2>1
<1> DEFINE P == {k \in 0..n : reach[k] \in S}
<1>12. 0 \in P
  BY <1>1, <1>3, <1>11
<1>13. ASSUME NEW k \in 1..n, k - 1 \in P PROVE k \in P
  <2>1. reach[k - 1] \in S /\ k \in 0..n
    BY <1>1, <1>13
  <2>2. reach[k] \in S
    BY <1>2, <1>11, <2>1
  <2>3. QED
    BY <2>1, <2>2
<1> HIDE DEF P
<1>14. 0..n \subseteq P
  BY <1>1, <1>12, <1>13, UpToInduction
<1>15. reach \in [0..n -> S]
  <2>1. \A k \in 0..n : reach[k] \in S
    BY <1>14 DEF P
  <2>2. QED
    BY <1>10, <2>1
<1>16. ReachOf(arrows, start, limit, m, reach)
  BY <1>0, <1>11, <1>15 DEF ReachOf, n, S
<1>17. QED
  BY <1>16

\* Every node within some arrows is within more, and what is closed is all.
LEMMA ReachGrows ==
  ASSUME NEW m, NEW arrows, IsArrows(arrows, m), NEW start \in 1..m, NEW limit \in Nat,
         NEW f, ReachOf(arrows, start, limit, m, f), NEW h \in 0..limit
  PROVE  /\ \A j \in h..limit : f[h] \subseteq f[j]
         /\ LeadsTo(arrows, f[h]) \subseteq f[h] => f[limit] = f[h]
<1>1. \A k \in 1..limit : f[k] = Wider(arrows, f[k - 1])
  BY DEF ReachOf
<1> DEFINE P == {j \in 0..limit : j >= h => f[h] \subseteq f[j]}
           Q == {j \in 0..limit : j >= h => f[j] = f[h]}
<1>2. 0..limit \subseteq P
  <2>1. 0 \in P
    OBVIOUS
  <2>2. ASSUME NEW j \in 1..limit, j - 1 \in P PROVE j \in P
    <3>1. f[j - 1] \subseteq f[j]
      BY <1>1 DEF Wider
    <3>2. j = h \/ j < h \/ j - 1 >= h
      OBVIOUS
    <3>3. QED
      BY <2>2, <3>1, <3>2
  <2> HIDE DEF P
  <2>3. QED
    BY <2>1, <2>2, UpToInduction
<1>3. ASSUME LeadsTo(arrows, f[h]) \subseteq f[h] PROVE 0..limit \subseteq Q
  <2>1. 0 \in Q
    OBVIOUS
  <2>2. ASSUME NEW j \in 1..limit, j - 1 \in Q PROVE j \in Q
    <3>1. ASSUME j - 1 >= h PROVE f[j] = f[h]
      <4>1. f[j - 1] = f[h]
        BY <2>2, <3>1
      <4>2. QED
        BY <1>1, <1>3, <4>1 DEF Wider
    <3>2. j = h \/ j < h \/ j - 1 >= h
      OBVIOUS
    <3>3. QED
      BY <3>1, <3>2
  <2> HIDE DEF Q
  <2>3. QED
    BY <2>1, <2>2, UpToInduction
<1>4. QED
  BY <1>2, <1>3

-----------------------------------------------------------------------------
(* The chains of dependency_analysis *)

ChainState(m) == [seen: SUBSET (1..m), last: SUBSET (1..m), all: SUBSET (1..m)]

LEMMA NextLevelIs ==
  ASSUME NEW m, NEW arrows, IsArrows(arrows, m), NEW nodes, NEW x \in ChainState(m)
  PROVE  NextLevel(nodes, arrows, x) \in ChainState(m)
<1> DEFINE new == LeadsTo(arrows, x.last) \ x.seen
<1>1. new \in SUBSET (1..m)
  BY LeadsToIs
<1>2. NextLevel(nodes, arrows, x) =
        [seen |-> x.seen \cup new, last |-> new \cap nodes, all |-> x.all \cup (new \cap nodes)]
  BY DEF NextLevel
<1>3. x.seen \in SUBSET (1..m) /\ x.all \in SUBSET (1..m)
  BY DEF ChainState
<1> HIDE DEF new
<1>4. (x.seen \cup new) \in SUBSET (1..m) /\ (new \cap nodes) \in SUBSET (1..m)
      /\ (x.all \cup (new \cap nodes)) \in SUBSET (1..m)
  BY <1>1, <1>3
<1>5. QED
  BY <1>2, <1>4 DEF ChainState

\* The levels of a chain.
ChainRun(nodes, arrows, root, limit, m, f) ==
  /\ f \in [0..limit -> ChainState(m)] /\ f[0] = AtRoot(root)
  /\ \A k \in 1..limit : f[k] = NextLevel(nodes, arrows, f[k - 1])
  /\ ChainOf(nodes, arrows, root, limit) = f[limit].all

LEMMA ChainExists ==
  ASSUME NEW m, NEW arrows, IsArrows(arrows, m), NEW nodes, NEW root \in 1..m, NEW limit \in Nat
  PROVE  \E f : ChainRun(nodes, arrows, root, limit, m, f)
<1> DEFINE n == limit
           S == ChainState(m)
           level[k \in 0..n] == IF k = 0 THEN AtRoot(root) ELSE NextLevel(nodes, arrows, level[k - 1])
           G == [p \in S \X (1..n) |-> NextLevel(nodes, arrows, p[1])]
<1>0. ChainOf(nodes, arrows, root, limit) = level[limit].all
  BY DEF ChainOf
<1>1. n \in Nat
  OBVIOUS
<1>2. ASSUME NEW x \in S, NEW k \in 1..n PROVE NextLevel(nodes, arrows, x) \in S
  BY NextLevelIs
<1>3. AtRoot(root) \in S
  BY DEF AtRoot, ChainState
<1> HIDE DEF n
<1>4. G \in [S \X (1..n) -> S]
  <2> HIDE DEF S
  <2> SUFFICES ASSUME NEW x \in S, NEW k \in 1..n PROVE NextLevel(nodes, arrows, x) \in S
    OBVIOUS
  <2>1. QED
    BY <1>2
<1> HIDE DEF S
<1>5. PICK f : Recursion(S, AtRoot(root), n, G, f)
  <2>1. RecursionData(S, AtRoot(root), n, G)
    BY <1>1, <1>3, <1>4 DEF RecursionData
  <2> HIDE DEF G, level
  <2>2. QED
    BY <2>1, RecursionExists
<1>6. \A k \in 1..n : k - 1 \in 0..n /\ k \in 0..n /\ f[k - 1] \in S
  BY <1>1, <1>5 DEF Recursion
<1>7. \A k \in 1..n : f[k] = NextLevel(nodes, arrows, f[k - 1])
  BY <1>5, <1>6 DEF Recursion
<1>8. f[0] = AtRoot(root) /\ f \in [0..n -> S]
  BY <1>5 DEF Recursion
<1> HIDE DEF G
<1>9. f = [k \in 0..n |-> IF k = 0 THEN AtRoot(root) ELSE NextLevel(nodes, arrows, f[k - 1])]
  <2>1. \A k \in 0..n : k = 0 \/ k \in 1..n
    BY <1>1
  <2>2. ASSUME NEW k \in 0..n PROVE f[k] = IF k = 0 THEN AtRoot(root) ELSE NextLevel(nodes, arrows, f[k - 1])
    BY <1>7, <1>8, <2>1
  <2>3. QED
    BY <1>8, <2>2
<1>10. level = [k \in 0..n |-> IF k = 0 THEN AtRoot(root) ELSE NextLevel(nodes, arrows, level[k - 1])]
  BY <1>9
<1> HIDE DEF level
<1>11. /\ level[0] = AtRoot(root)
       /\ \A k \in 1..n : level[k] = NextLevel(nodes, arrows, level[k - 1])
  <2>1. 0 \in 0..n /\ \A k \in 1..n : k \in 0..n /\ k # 0
    BY <1>1
  <2>2. QED
    BY <1>10, <2>1
<1> DEFINE P == {k \in 0..n : level[k] \in S}
<1>12. 0 \in P
  BY <1>1, <1>3, <1>11
<1>13. ASSUME NEW k \in 1..n, k - 1 \in P PROVE k \in P
  <2>1. level[k - 1] \in S /\ k \in 0..n
    BY <1>1, <1>13
  <2>2. level[k] \in S
    BY <1>2, <1>11, <2>1
  <2>3. QED
    BY <2>1, <2>2
<1> HIDE DEF P
<1>14. 0..n \subseteq P
  BY <1>1, <1>12, <1>13, UpToInduction
<1>15. level \in [0..n -> S]
  <2>1. \A k \in 0..n : level[k] \in S
    BY <1>14 DEF P
  <2>2. QED
    BY <1>10, <2>1
<1>16. ChainRun(nodes, arrows, root, limit, m, level)
  BY <1>0, <1>11, <1>15 DEF ChainRun, n, S
<1>17. QED
  BY <1>16

\* A chain collects what is within reach along more arrows, and never its root.
LEMMA ChainIsWithin ==
  ASSUME NEW m, NEW arrows, IsArrows(arrows, m), NEW more, IsArrows(more, m), arrows \subseteq more,
         NEW nodes, NEW root \in 1..m, NEW limit \in Nat
  PROVE  ChainOf(nodes, arrows, root, limit) \subseteq Within(more, root, limit) \ {root}
<1>1. PICK g : ChainRun(nodes, arrows, root, limit, m, g)
  BY ChainExists
<1>2. PICK f : ReachOf(more, root, limit, m, f)
  BY ReachExists
<1>3. /\ g[0] = AtRoot(root) /\ \A d \in 0..limit : g[d] \in ChainState(m)
      /\ \A d \in 1..limit : g[d] = NextLevel(nodes, arrows, g[d - 1])
      /\ ChainOf(nodes, arrows, root, limit) = g[limit].all
  BY <1>1 DEF ChainRun
<1>4. /\ f[0] = {root} /\ \A d \in 1..limit : f[d] = Wider(more, f[d - 1])
      /\ Within(more, root, limit) = f[limit]
  BY <1>2 DEF ReachOf
<1> DEFINE Fits(d) == /\ root \in g[d].seen /\ g[d].seen \subseteq f[d] /\ g[d].last \subseteq g[d].seen
                      /\ g[d].all \subseteq g[d].seen \ {root}
           P == {d \in 0..limit : Fits(d)}
<1>5. 0 \in P
  BY <1>3, <1>4 DEF AtRoot
<1>6. ASSUME NEW d \in 1..limit, d - 1 \in P PROVE d \in P
  <2> DEFINE x == g[d - 1]
             new == LeadsTo(arrows, x.last) \ x.seen
  <2>1. g[d] = [seen |-> x.seen \cup new, last |-> new \cap nodes, all |-> x.all \cup (new \cap nodes)]
    BY <1>3 DEF NextLevel
  <2>2. Fits(d - 1)
    BY <1>6
  <2>3. new \subseteq f[d] /\ f[d - 1] \subseteq f[d]
    <3>1. f[d] = f[d - 1] \cup LeadsTo(more, f[d - 1])
      BY <1>4 DEF Wider
    <3>2. ASSUME NEW n \in new PROVE n \in LeadsTo(more, f[d - 1])
      <4>1. PICK a \in x.last : <<a, n>> \in arrows
        BY <3>2, LeadsToIs
      <4>2. a \in f[d - 1] /\ <<a, n>> \in more
        BY <2>2, <4>1
      <4>3. QED
        BY <4>2, LeadsToIs
    <3> HIDE DEF new
    <3>3. QED
      BY <3>1, <3>2
  <2>4. root \notin new
    BY <2>2
  <2> HIDE DEF new
  <2>5. Fits(d)
    BY <2>1, <2>2, <2>3, <2>4
  <2>6. QED
    BY <2>5
<1> HIDE DEF P
<1>7. limit \in P
  BY <1>5, <1>6, UpToInduction
<1>8. Fits(limit)
  BY <1>7 DEF P
<1>9. QED
  BY <1>3, <1>4, <1>8

-----------------------------------------------------------------------------
(* The nodes an impact traversal meets from one node *)

Entries(m) == [id: 1..m, depth: Nat]
TravState(m) == [seen: SUBSET (1..m), affected: Seq(1..m), queue: Seq(Entries(m))]

\* Who is affected has been seen, each once, and is not the start.
AffectedOK(start, t) ==
  /\ start \in t.seen
  /\ \A i \in 1..Len(t.affected) : t.affected[i] \in t.seen \ {start}
  /\ \A n \in t.seen \ {start} : \E i \in 1..Len(t.affected) : t.affected[i] = n
  /\ \A i, j \in 1..Len(t.affected) : t.affected[i] = t.affected[j] => i = j

\* The queue has grown by an entry for each node seen first since b.
QueueGrown(b, d, t) ==
  /\ Len(t.queue) = Len(b.queue) + Cardinality(t.seen) - Cardinality(b.seen) /\ Len(b.queue) <= Len(t.queue)
  /\ \A i \in 1..Len(b.queue) : t.queue[i] = b.queue[i]
  /\ \A i \in Len(b.queue) + 1..Len(t.queue) : t.queue[i].depth = d /\ t.queue[i].id \in t.seen \ b.seen
  /\ \A n \in t.seen \ b.seen : \E i \in Len(b.queue) + 1..Len(t.queue) : t.queue[i].id = n

\* t is b after the nodes ids were met at the depth d.
Met(m, start, b, d, ids, t) ==
  /\ t \in TravState(m) /\ t.seen = b.seen \cup ids
  /\ QueueGrown(b, d, t) /\ AffectedOK(start, t)

LEMMA TravStateIs ==
  ASSUME NEW m \in Nat, NEW t \in TravState(m)
  PROVE  /\ t.seen \in SUBSET (1..m) /\ IsFiniteSet(t.seen) /\ Cardinality(t.seen) \in Nat /\ Cardinality(t.seen) <= m
         /\ t.affected \in Seq(1..m) /\ Len(t.affected) \in Nat /\ DOMAIN t.affected = 1..Len(t.affected)
         /\ t.queue \in Seq(Entries(m)) /\ Len(t.queue) \in Nat /\ DOMAIN t.queue = 1..Len(t.queue)
         /\ \A i \in 1..Len(t.queue) : t.queue[i].id \in 1..m /\ t.queue[i].depth \in Nat
<1>1. t.seen \in SUBSET (1..m) /\ t.affected \in Seq(1..m) /\ t.queue \in Seq(Entries(m))
  BY DEF TravState
<1>2. IsFiniteSet(1..m) /\ Cardinality(1..m) = m
  BY FS_Interval
<1>3. IsFiniteSet(t.seen) /\ Cardinality(t.seen) \in Nat /\ Cardinality(t.seen) <= m
  <2>1. IsFiniteSet(t.seen) /\ Cardinality(t.seen) <= Cardinality(1..m)
    BY <1>1, <1>2, FS_Subset
  <2>2. Cardinality(t.seen) \in Nat
    BY <2>1, FS_CardinalityType
  <2>3. QED
    BY <1>2, <2>1, <2>2
<1>4. Len(t.affected) \in Nat /\ DOMAIN t.affected = 1..Len(t.affected)
      /\ Len(t.queue) \in Nat /\ DOMAIN t.queue = 1..Len(t.queue)
  BY <1>1, LenProperties
<1>5. \A i \in 1..Len(t.queue) : t.queue[i] \in Entries(m)
  BY <1>1, ElementOfSeq
<1>6. QED
  BY <1>1, <1>3, <1>4, <1>5 DEF Entries

LEMMA MeetKeeps ==
  ASSUME NEW m \in Nat, NEW start, NEW b \in TravState(m), NEW d \in Nat, NEW ids \in SUBSET (1..m),
         NEW t, Met(m, start, b, d, ids, t), NEW y \in 1..m
  PROVE  Met(m, start, b, d, ids \cup {y}, Meet(t, y, d))
<1>0. t \in TravState(m) /\ t.seen = b.seen \cup ids /\ QueueGrown(b, d, t) /\ AffectedOK(start, t)
  BY DEF Met
<1>1. CASE y \in t.seen
  <2>1. Meet(t, y, d) = t
    BY <1>1 DEF Meet
  <2>2. t.seen = b.seen \cup (ids \cup {y})
    BY <1>0, <1>1
  <2>3. QED
    BY <1>0, <2>1, <2>2 DEF Met
<1>2. CASE y \notin t.seen
  <2> DEFINE entry == [id |-> y, depth |-> d]
             u == Meet(t, y, d)
  <2>1. u = [seen |-> t.seen \cup {y}, affected |-> Append(t.affected, y), queue |-> Append(t.queue, entry)]
    BY <1>2 DEF Meet
  <2>2. u.seen = t.seen \cup {y} /\ u.affected = Append(t.affected, y) /\ u.queue = Append(t.queue, entry)
    BY <2>1
  <2>3. entry \in Entries(m) /\ entry.id = y /\ entry.depth = d
    BY DEF Entries
  <2>4. /\ t.seen \in SUBSET (1..m) /\ IsFiniteSet(t.seen) /\ t.affected \in Seq(1..m) /\ t.queue \in Seq(Entries(m))
        /\ Len(t.affected) \in Nat /\ Len(t.queue) \in Nat /\ Cardinality(t.seen) \in Nat
    BY <1>0, TravStateIs
  <2>5. Len(b.queue) \in Nat /\ Cardinality(b.seen) \in Nat
    BY TravStateIs
  <2> HIDE DEF u, entry
  <2>6. /\ Append(t.queue, entry) \in Seq(Entries(m)) /\ Len(u.queue) = Len(t.queue) + 1
        /\ \A i \in 1..Len(t.queue) : u.queue[i] = t.queue[i]
        /\ u.queue[Len(t.queue) + 1] = entry
    BY <2>2, <2>3, <2>4, AppendProperties
  <2>7. /\ Append(t.affected, y) \in Seq(1..m) /\ Len(u.affected) = Len(t.affected) + 1
        /\ \A i \in 1..Len(t.affected) : u.affected[i] = t.affected[i]
        /\ u.affected[Len(t.affected) + 1] = y
    BY <2>2, <2>4, AppendProperties
  <2>8. u \in TravState(m)
    BY <2>1, <2>4, <2>6, <2>7 DEF TravState
  <2>9. Cardinality(u.seen) = Cardinality(t.seen) + 1
    BY <1>2, <2>2, <2>4, FS_AddElement
  <2>10. QueueGrown(b, d, u)
    <3>1. /\ Len(t.queue) = Len(b.queue) + Cardinality(t.seen) - Cardinality(b.seen) /\ Len(b.queue) <= Len(t.queue)
          /\ \A i \in 1..Len(b.queue) : t.queue[i] = b.queue[i]
          /\ \A i \in Len(b.queue) + 1..Len(t.queue) : t.queue[i].depth = d /\ t.queue[i].id \in t.seen \ b.seen
          /\ \A n \in t.seen \ b.seen : \E i \in Len(b.queue) + 1..Len(t.queue) : t.queue[i].id = n
      BY <1>0 DEF QueueGrown
    <3>2. Len(u.queue) = Len(b.queue) + Cardinality(u.seen) - Cardinality(b.seen) /\ Len(b.queue) <= Len(u.queue)
      BY <2>4, <2>5, <2>6, <2>9, <3>1
    <3>3. \A i \in 1..Len(b.queue) : u.queue[i] = b.queue[i]
      BY <2>4, <2>5, <2>6, <3>1
    <3>4. \A i \in Len(b.queue) + 1..Len(u.queue) : i \in Len(b.queue) + 1..Len(t.queue) \/ i = Len(t.queue) + 1
      BY <2>4, <2>5, <2>6
    <3>5. y \in u.seen \ b.seen /\ t.seen \subseteq u.seen
      BY <1>0, <1>2, <2>2
    <3>6. ASSUME NEW i \in Len(b.queue) + 1..Len(u.queue)
          PROVE  u.queue[i].depth = d /\ u.queue[i].id \in u.seen \ b.seen
      <4>1. CASE i \in Len(b.queue) + 1..Len(t.queue)
        <5>1. u.queue[i] = t.queue[i]
          BY <2>4, <2>5, <2>6, <4>1
        <5>2. QED
          BY <3>1, <3>5, <4>1, <5>1
      <4>2. CASE i = Len(t.queue) + 1
        BY <2>3, <2>6, <3>5, <4>2
      <4>3. QED
        BY <3>4, <4>1, <4>2
    <3>7. ASSUME NEW n \in u.seen \ b.seen
          PROVE  \E i \in Len(b.queue) + 1..Len(u.queue) : u.queue[i].id = n
      <4>1. CASE n = y
        <5>1. Len(t.queue) + 1 \in Len(b.queue) + 1..Len(u.queue)
          BY <2>4, <2>5, <2>6, <3>1
        <5>2. QED
          BY <2>3, <2>6, <4>1, <5>1
      <4>2. CASE n # y
        <5>1. PICK i \in Len(b.queue) + 1..Len(t.queue) : t.queue[i].id = n
          BY <2>2, <3>1, <4>2
        <5>2. i \in Len(b.queue) + 1..Len(u.queue) /\ u.queue[i] = t.queue[i]
          BY <2>4, <2>5, <2>6
        <5>3. QED
          BY <5>1, <5>2
      <4>3. QED
        BY <4>1, <4>2
    <3>8. QED
      BY <3>2, <3>3, <3>6, <3>7 DEF QueueGrown
  <2>11. AffectedOK(start, u)
    <3> DEFINE k == Len(t.affected)
    <3>1. /\ start \in t.seen
          /\ \A i \in 1..k : t.affected[i] \in t.seen \ {start}
          /\ \A n \in t.seen \ {start} : \E i \in 1..k : t.affected[i] = n
          /\ \A i, j \in 1..k : t.affected[i] = t.affected[j] => i = j
      BY <1>0 DEF AffectedOK
    <3>2. y # start
      BY <1>2, <3>1
    <3>3. k \in Nat /\ Len(u.affected) = k + 1
      BY <2>4, <2>7
    <3> HIDE DEF k
    <3>4. \A i \in 1..k + 1 : i \in 1..k \/ i = k + 1
      BY <3>3
    <3>5. k + 1 \in 1..k + 1 /\ k + 1 \notin 1..k /\ \A i \in 1..k : i \in 1..k + 1
      BY <3>3
    <3>6. (\A i \in 1..k : u.affected[i] = t.affected[i]) /\ u.affected[k + 1] = y
      BY <2>7 DEF k
    <3>7. \A i \in 1..k + 1 : u.affected[i] \in u.seen \ {start}
      BY <2>2, <3>1, <3>2, <3>4, <3>6
    <3>8. \A n \in u.seen \ {start} : \E i \in 1..k + 1 : u.affected[i] = n
      BY <2>2, <3>1, <3>5, <3>6
    <3>9. \A i, j \in 1..k + 1 : u.affected[i] = u.affected[j] => i = j
      BY <1>2, <3>1, <3>4, <3>6
    <3>10. QED
      BY <2>2, <3>1, <3>3, <3>7, <3>8, <3>9 DEF AffectedOK
  <2>12. u.seen = b.seen \cup (ids \cup {y})
    BY <1>0, <2>2
  <2>13. QED
    BY <2>8, <2>10, <2>11, <2>12 DEF Met, u
<1>3. QED
  BY <1>1, <1>2

LEMMA MeetType ==
  ASSUME NEW m \in Nat, NEW t \in TravState(m), NEW y \in 1..m, NEW d \in Nat
  PROVE  Meet(t, y, d) \in TravState(m)
<1> DEFINE entry == [id |-> y, depth |-> d]
<1>1. CASE y \in t.seen
  BY <1>1 DEF Meet
<1>2. CASE y \notin t.seen
  <2>1. Meet(t, y, d) = [seen |-> t.seen \cup {y}, affected |-> Append(t.affected, y), queue |-> Append(t.queue, entry)]
    BY <1>2 DEF Meet
  <2>2. entry \in Entries(m)
    BY DEF Entries
  <2> HIDE DEF entry
  <2>3. /\ (t.seen \cup {y}) \in SUBSET (1..m)
        /\ Append(t.affected, y) \in Seq(1..m) /\ Append(t.queue, entry) \in Seq(Entries(m))
    BY <2>2, TravStateIs, AppendProperties
  <2>4. QED
    BY <2>1, <2>3 DEF TravState
<1>3. QED
  BY <1>1, <1>2

LEMMA AlongType ==
  ASSUME NEW m \in Nat, NEW t \in TravState(m), NEW head \in Entries(m), NEW rel \in EdgesAmong(1..m), NEW kinds
  PROVE  Along(t, head, rel, kinds) \in TravState(m)
<1>1. rel.from \in 1..m /\ rel.to \in 1..m /\ head.depth + 1 \in Nat
  BY DEF EdgesAmong, Entries
<1>2. \A u \in TravState(m) : /\ MeetFrom(u, head, rel.from, rel.to) \in TravState(m)
                             /\ MeetFrom(u, head, rel.to, rel.from) \in TravState(m)
  BY <1>1, MeetType DEF MeetFrom
<1>3. QED
  BY <1>2 DEF Along

\* Whom a relationship leads to from x.
NearBy(m, rel, kinds, x) ==
  {n \in 1..m : rel.kind \in kinds /\ ((rel.from = x /\ rel.to = n) \/ (rel.to = x /\ rel.from = n))}

LEMMA AlongKeeps ==
  ASSUME NEW m \in Nat, NEW start, NEW b \in TravState(m), NEW head \in Entries(m), NEW ids \in SUBSET (1..m),
         NEW t, Met(m, start, b, head.depth + 1, ids, t), NEW rel \in EdgesAmong(1..m), NEW kinds
  PROVE  Met(m, start, b, head.depth + 1, ids \cup NearBy(m, rel, kinds, head.id), Along(t, head, rel, kinds))
<1> DEFINE d == head.depth + 1
           x == head.id
           near == NearBy(m, rel, kinds, x)
           one == IF rel.from = x THEN {rel.to} ELSE {}
           two == IF rel.to = x THEN {rel.from} ELSE {}
<1>1. rel.from \in 1..m /\ rel.to \in 1..m /\ d \in Nat
  BY DEF EdgesAmong, Entries
<1>2. \A n : n \in near <=> rel.kind \in kinds /\ n \in one \cup two
  BY <1>1 DEF NearBy
<1>3. CASE rel.kind \notin kinds
  <2>1. Along(t, head, rel, kinds) = t /\ ids \cup near = ids
    BY <1>2, <1>3 DEF Along
  <2>2. QED
    BY <2>1
<1>4. CASE rel.kind \in kinds
  <2> DEFINE u == MeetFrom(t, head, rel.from, rel.to)
  <2>1. Along(t, head, rel, kinds) = MeetFrom(u, head, rel.to, rel.from)
    BY <1>4 DEF Along
  <2>2. Met(m, start, b, d, ids \cup one, u) /\ ids \cup one \in SUBSET (1..m)
    <3>1. CASE rel.from = x
      <4>1. u = Meet(t, rel.to, d) /\ one = {rel.to}
        BY <3>1 DEF MeetFrom
      <4> HIDE DEF d, u
      <4>2. Met(m, start, b, d, ids \cup {rel.to}, Meet(t, rel.to, d))
        BY <1>1, MeetKeeps DEF d
      <4>3. QED
        BY <1>1, <4>1, <4>2
    <3>2. CASE rel.from # x
      <4>1. u = t /\ ids \cup one = ids
        BY <3>2 DEF MeetFrom
      <4>2. QED
        BY <4>1
    <3>3. QED
      BY <3>1, <3>2
  <2> HIDE DEF u
  <2>3. Met(m, start, b, d, (ids \cup one) \cup two, MeetFrom(u, head, rel.to, rel.from))
    <3>1. CASE rel.to = x
      <4>1. MeetFrom(u, head, rel.to, rel.from) = Meet(u, rel.from, d) /\ two = {rel.from}
        BY <3>1 DEF MeetFrom
      <4> DEFINE some == ids \cup one
      <4> HIDE DEF d, some
      <4>2. Met(m, start, b, d, some \cup {rel.from}, Meet(u, rel.from, d))
        BY <1>1, <2>2, MeetKeeps DEF some
      <4>3. QED
        BY <4>1, <4>2 DEF some
    <3>2. CASE rel.to # x
      <4>1. MeetFrom(u, head, rel.to, rel.from) = u /\ (ids \cup one) \cup two = ids \cup one
        BY <3>2 DEF MeetFrom
      <4>2. QED
        BY <2>2, <4>1
    <3>3. QED
      BY <3>1, <3>2
  <2>4. (ids \cup one) \cup two = ids \cup near
    BY <1>2, <1>4
  <2>5. QED
    BY <2>1, <2>3, <2>4
<1>5. QED
  BY <1>3, <1>4

\* The relationships one after the other.
ExpandOf(rels, kinds, head, rest, m, f) ==
  /\ f \in [0..Len(rels) -> TravState(m)] /\ f[0] = rest
  /\ \A k \in 1..Len(rels) : f[k] = Along(f[k - 1], head, rels[k], kinds)
  /\ Expand(rels, kinds, head, rest) = f[Len(rels)]

LEMMA ExpandExists ==
  ASSUME NEW m, NEW rels, IsRels(rels, m), NEW kinds, NEW head \in Entries(m), NEW rest \in TravState(m)
  PROVE  \E f : ExpandOf(rels, kinds, head, rest, m, f)
<1> DEFINE n == Len(rels)
           S == TravState(m)
           met[k \in 0..n] == IF k = 0 THEN rest ELSE Along(met[k - 1], head, rels[k], kinds)
           G == [p \in S \X (1..n) |-> Along(p[1], head, rels[p[2]], kinds)]
<1>0. Expand(rels, kinds, head, rest) = met[Len(rels)]
  BY DEF Expand
<1>1. n \in Nat
  BY RelsAre
<1>2. ASSUME NEW x \in S, NEW k \in 1..n PROVE Along(x, head, rels[k], kinds) \in S
  BY AlongType, ElementOfSeq DEF IsRels
<1>3. rest \in S
  OBVIOUS
<1> HIDE DEF n
<1>4. G \in [S \X (1..n) -> S]
  <2> HIDE DEF S
  <2> SUFFICES ASSUME NEW x \in S, NEW k \in 1..n PROVE Along(x, head, rels[k], kinds) \in S
    OBVIOUS
  <2>1. QED
    BY <1>2
<1> HIDE DEF S
<1>5. PICK f : Recursion(S, rest, n, G, f)
  <2>1. RecursionData(S, rest, n, G)
    BY <1>1, <1>3, <1>4 DEF RecursionData
  <2> HIDE DEF G, met
  <2>2. QED
    BY <2>1, RecursionExists
<1>6. \A k \in 1..n : k - 1 \in 0..n /\ k \in 0..n /\ f[k - 1] \in S
  BY <1>1, <1>5 DEF Recursion
<1>7. \A k \in 1..n : f[k] = Along(f[k - 1], head, rels[k], kinds)
  BY <1>5, <1>6 DEF Recursion
<1>8. f[0] = rest /\ f \in [0..n -> S]
  BY <1>5 DEF Recursion
<1> HIDE DEF G
<1>9. f = [k \in 0..n |-> IF k = 0 THEN rest ELSE Along(f[k - 1], head, rels[k], kinds)]
  <2>1. \A k \in 0..n : k = 0 \/ k \in 1..n
    BY <1>1
  <2>2. ASSUME NEW k \in 0..n PROVE f[k] = IF k = 0 THEN rest ELSE Along(f[k - 1], head, rels[k], kinds)
    BY <1>7, <1>8, <2>1
  <2>3. QED
    BY <1>8, <2>2
<1>10. met = [k \in 0..n |-> IF k = 0 THEN rest ELSE Along(met[k - 1], head, rels[k], kinds)]
  BY <1>9
<1> HIDE DEF met
<1>11. /\ met[0] = rest
       /\ \A k \in 1..n : met[k] = Along(met[k - 1], head, rels[k], kinds)
  <2>1. 0 \in 0..n /\ \A k \in 1..n : k \in 0..n /\ k # 0
    BY <1>1
  <2>2. QED
    BY <1>10, <2>1
<1> DEFINE P == {k \in 0..n : met[k] \in S}
<1>12. 0 \in P
  BY <1>1, <1>3, <1>11
<1>13. ASSUME NEW k \in 1..n, k - 1 \in P PROVE k \in P
  <2>1. met[k - 1] \in S /\ k \in 0..n
    BY <1>1, <1>13
  <2>2. met[k] \in S
    BY <1>2, <1>11, <2>1
  <2>3. QED
    BY <2>1, <2>2
<1> HIDE DEF P
<1>14. 0..n \subseteq P
  BY <1>1, <1>12, <1>13, UpToInduction
<1>15. met \in [0..n -> S]
  <2>1. \A k \in 0..n : met[k] \in S
    BY <1>14 DEF P
  <2>2. QED
    BY <1>10, <2>1
<1>16. ExpandOf(rels, kinds, head, rest, m, met)
  BY <1>0, <1>11, <1>15 DEF ExpandOf, n, S
<1>17. QED
  BY <1>16

LEMMA ExpandMeets ==
  ASSUME NEW m, NEW rels, IsRels(rels, m), NEW kinds, NEW head \in Entries(m), NEW rest \in TravState(m),
         NEW start, AffectedOK(start, rest)
  PROVE  Met(m, start, rest, head.depth + 1,
             LeadsTo(Arrows(rels, kinds) \cup Turned(Arrows(rels, kinds)), {head.id}), Expand(rels, kinds, head, rest))
<1>1. PICK f : ExpandOf(rels, kinds, head, rest, m, f)
  BY ExpandExists
<1> DEFINE n == Len(rels)
           x == head.id
           arrows == Arrows(rels, kinds)
           NearTo(k) == {a \in 1..m : \E j \in 1..k : a \in NearBy(m, rels[j], kinds, x)}
           P == {k \in 0..n : Met(m, start, rest, head.depth + 1, NearTo(k), f[k])}
<1>2. m \in Nat /\ n \in Nat /\ \A k \in 1..n : rels[k] \in EdgesAmong(1..m)
  BY RelsAre, ElementOfSeq DEF IsRels
<1>3. f[0] = rest /\ (\A k \in 1..n : f[k] = Along(f[k - 1], head, rels[k], kinds))
      /\ Expand(rels, kinds, head, rest) = f[n]
  BY <1>1 DEF ExpandOf
<1>4. 0 \in P
  <2>1. NearTo(0) = {}
    OBVIOUS
  <2>2. QueueGrown(rest, head.depth + 1, rest)
    <3>1. Len(rest.queue) \in Nat /\ Cardinality(rest.seen) \in Nat
      BY <1>2, TravStateIs
    <3>2. Len(rest.queue) + 1..Len(rest.queue) = {} /\ rest.seen \ rest.seen = {}
      BY <3>1
    <3>3. QED
      BY <3>1, <3>2 DEF QueueGrown
  <2>3. Met(m, start, rest, head.depth + 1, {}, rest)
    BY <2>2 DEF Met
  <2>4. Met(m, start, rest, head.depth + 1, NearTo(0), f[0])
    BY <1>3, <2>1, <2>3
  <2>5. 0 \in 0..n
    BY <1>2
  <2> HIDE DEF NearTo, n
  <2>6. QED
    BY <2>4, <2>5
<1>5. ASSUME NEW k \in 1..n, k - 1 \in P PROVE k \in P
  <2> DEFINE before == NearTo(k - 1)
  <2>1. Met(m, start, rest, head.depth + 1, before, f[k - 1])
    BY <1>5
  <2>2. before \cup NearBy(m, rels[k], kinds, x) = NearTo(k)
    <3>1. \A j : j \in 1..k <=> j \in 1..k - 1 \/ j = k
      BY <1>2
    <3>2. NearBy(m, rels[k], kinds, x) \in SUBSET (1..m)
      BY DEF NearBy
    <3>3. QED
      BY <3>1, <3>2
  <2>3. before \in SUBSET (1..m)
    OBVIOUS
  <2> HIDE DEF before, NearTo, n
  <2>4. Met(m, start, rest, head.depth + 1, before \cup NearBy(m, rels[k], kinds, x), Along(f[k - 1], head, rels[k], kinds))
    BY <1>2, <2>1, <2>3, AlongKeeps
  <2>5. Met(m, start, rest, head.depth + 1, NearTo(k), f[k])
    BY <1>3, <2>2, <2>4
  <2>6. k \in 0..n
    BY <1>2
  <2>7. QED
    BY <2>5, <2>6
<1> HIDE DEF P, n
<1>6. n \in P
  <2>1. 0..n \subseteq P
    BY <1>2, <1>4, <1>5, UpToInduction
  <2>2. QED
    BY <1>2, <2>1
<1>7. Met(m, start, rest, head.depth + 1, NearTo(n), f[n])
  BY <1>6 DEF P
<1>8. NearTo(n) = LeadsTo(arrows \cup Turned(arrows), {x})
  <2>1. IsArrows(arrows, m) /\ \A a, b : <<a, b>> \in arrows <=> \E k \in 1..n : Relates(rels, kinds, k, a, b)
    BY ArrowsAre DEF n
  <2>2. IsArrows(arrows \cup Turned(arrows), m) /\ \A a, b : <<a, b>> \in Turned(arrows) <=> <<b, a>> \in arrows
    BY <2>1, TurnedAre
  <2> DEFINE both == arrows \cup Turned(arrows)
  <2>3. \A a, b : <<a, b>> \in both <=> \E k \in 1..n : Relates(rels, kinds, k, a, b) \/ Relates(rels, kinds, k, b, a)
    BY <2>1, <2>2
  <2> HIDE DEF both, arrows
  <2>4. LeadsTo(both, {x}) \in SUBSET (1..m) /\ \A b : b \in LeadsTo(both, {x}) <=> <<x, b>> \in both
    <3>1. IsArrows(both, m)
      BY <2>2 DEF both
    <3> DEFINE ids == {x}
    <3>2. \A a : a \in ids <=> a = x
      OBVIOUS
    <3> HIDE DEF ids
    <3>3. LeadsTo(both, ids) \in SUBSET (1..m) /\ \A b : b \in LeadsTo(both, ids) <=> \E a \in ids : <<a, b>> \in both
      BY <3>1, LeadsToIs
    <3>4. LeadsTo(both, ids) \in SUBSET (1..m) /\ \A b : b \in LeadsTo(both, ids) <=> <<x, b>> \in both
      BY <3>2, <3>3
    <3>5. QED
      BY <3>4 DEF ids
  <2>5. ASSUME NEW b \in 1..m
        PROVE  b \in NearTo(n) <=> \E k \in 1..n : Relates(rels, kinds, k, x, b) \/ Relates(rels, kinds, k, b, x)
    BY DEF NearBy, Relates
  <2> HIDE DEF NearTo
  <2>6. NearTo(n) \in SUBSET (1..m)
    BY DEF NearTo
  <2>7. QED
    BY <2>3, <2>4, <2>5, <2>6 DEF both
<1>9. QED
  BY <1>3, <1>7, <1>8

-----------------------------------------------------------------------------
(* Breadth first: the depth of an entry is the distance *)

LEMMA LeadsToOne ==
  ASSUME NEW m, NEW arrows, IsArrows(arrows, m), NEW a
  PROVE  \A b : b \in LeadsTo(arrows, {a}) <=> <<a, b>> \in arrows
<1> DEFINE ids == {a}
<1>1. \A c : c \in ids <=> c = a
  OBVIOUS
<1> HIDE DEF ids
<1>2. \A b : b \in LeadsTo(arrows, ids) <=> \E c \in ids : <<c, b>> \in arrows
  BY LeadsToIs
<1>3. \A b : b \in LeadsTo(arrows, ids) <=> <<a, b>> \in arrows
  BY <1>1, <1>2
<1>4. QED
  BY <1>3 DEF ids

HasEntry(t, n, d) == \E i \in 1..Len(t.queue) : t.queue[i].id = n /\ t.queue[i].depth = d

\* The traversal is at the distance h: its queue holds nodes at the distance h,
\* then some at h + 1; f[h] are the nodes within h.
QueueAt(h, t) ==
  /\ \A i \in 1..Len(t.queue) : t.queue[i].depth \in {h, h + 1}
  /\ \A i, j \in 1..Len(t.queue) : i < j /\ t.queue[i].depth = h + 1 => t.queue[j].depth = h + 1
QueueFits(arrows, f, limit, h, t) ==
  \A i \in 1..Len(t.queue) :
    /\ t.queue[i].depth = h => t.queue[i].id \in f[h]
    /\ t.queue[i].depth = h + 1 => h < limit /\ t.queue[i].id \in LeadsTo(arrows, f[h])
SeenAt(arrows, f, h, t) ==
  /\ f[h] \subseteq t.seen
  /\ \A n \in t.seen : n \in f[h] \/ HasEntry(t, n, h + 1)
  /\ \A n \in f[h] : HasEntry(t, n, h) \/ LeadsTo(arrows, {n}) \subseteq t.seen
Frontier(arrows, f, limit, h, t) ==
  h \in 0..limit /\ QueueAt(h, t) /\ QueueFits(arrows, f, limit, h, t) /\ SeenAt(arrows, f, h, t)

\* Or it is at the depth asked for and expands no more.
AtDepth(f, limit, t) == t.seen = f[limit] /\ \A i \in 1..Len(t.queue) : t.queue[i].depth >= limit

LEMMA FrontierMovesOn ==
  ASSUME NEW m \in Nat, NEW arrows, IsArrows(arrows, m), NEW start \in 1..m, NEW limit \in Nat,
         NEW f, ReachOf(arrows, start, limit, m, f), NEW t \in TravState(m), NEW h,
         Frontier(arrows, f, limit, h, t), 1 \in 1..Len(t.queue), t.queue[1].depth = h + 1
  PROVE  Frontier(arrows, f, limit, h + 1, t)
<1>1. h \in 0..limit /\ QueueAt(h, t) /\ QueueFits(arrows, f, limit, h, t) /\ SeenAt(arrows, f, h, t)
  BY DEF Frontier
<1>2. Len(t.queue) \in Nat /\ h \in Nat
  BY <1>1, TravStateIs
<1>3. \A i \in 1..Len(t.queue) : t.queue[i].depth = h + 1
  <2> SUFFICES ASSUME NEW i \in 1..Len(t.queue) PROVE t.queue[i].depth = h + 1
    OBVIOUS
  <2>1. i = 1 \/ 1 < i
    BY <1>2
  <2>2. QED
    BY <1>1, <2>1 DEF QueueAt
<1>4. h < limit /\ \A i \in 1..Len(t.queue) : t.queue[i].id \in LeadsTo(arrows, f[h])
  BY <1>1, <1>3 DEF QueueFits
<1>5. h + 1 \in 1..limit /\ h + 1 \in 0..limit /\ (h + 1) - 1 = h
  BY <1>1, <1>4
<1>6. f[h + 1] = f[h] \cup LeadsTo(arrows, f[h])
  BY <1>5 DEF ReachOf, Wider
<1>7. \A n : ~ HasEntry(t, n, h)
  BY <1>2, <1>3 DEF HasEntry
<1>8. \A n \in f[h] : LeadsTo(arrows, {n}) \subseteq t.seen
  BY <1>1, <1>7 DEF SeenAt
<1>9. LeadsTo(arrows, f[h]) \subseteq t.seen
  <2> SUFFICES ASSUME NEW b \in LeadsTo(arrows, f[h]) PROVE b \in t.seen
    OBVIOUS
  <2>1. PICK a \in f[h] : <<a, b>> \in arrows
    BY LeadsToIs
  <2>2. b \in LeadsTo(arrows, {a})
    BY <2>1, LeadsToOne
  <2>3. QED
    BY <1>8, <2>2
<1>10. QueueAt(h + 1, t)
  BY <1>2, <1>3 DEF QueueAt
<1>11. QueueFits(arrows, f, limit, h + 1, t)
  <2>1. \A i \in 1..Len(t.queue) : t.queue[i].id \in f[h + 1] /\ t.queue[i].depth # (h + 1) + 1
    BY <1>2, <1>3, <1>4, <1>6
  <2>2. QED
    BY <2>1 DEF QueueFits
<1>12. SeenAt(arrows, f, h + 1, t)
  <2>1. f[h + 1] \subseteq t.seen
    BY <1>1, <1>6, <1>9 DEF SeenAt
  <2>2. \A n \in t.seen : n \in f[h + 1]
    BY <1>1, <1>4, <1>6 DEF SeenAt, HasEntry
  <2>3. \A n \in f[h + 1] : HasEntry(t, n, h + 1) \/ LeadsTo(arrows, {n}) \subseteq t.seen
    BY <1>1, <1>8, <2>1 DEF SeenAt
  <2>4. QED
    BY <2>1, <2>2, <2>3 DEF SeenAt
<1>13. QED
  BY <1>5, <1>10, <1>11, <1>12 DEF Frontier

\* The state without the head of its queue.
Behind(t) == [t EXCEPT !.queue = Tail(t.queue)]

LEMMA BehindIs ==
  ASSUME NEW m \in Nat, NEW t \in TravState(m), t.queue # <<>>
  PROVE  /\ 1 \in 1..Len(t.queue) /\ Head(t.queue) = t.queue[1] /\ t.queue[1] \in Entries(m)
         /\ Behind(t) \in TravState(m) /\ Behind(t).seen = t.seen /\ Behind(t).affected = t.affected
         /\ Len(Behind(t).queue) = Len(t.queue) - 1
         /\ \A i \in 1..Len(t.queue) - 1 : Behind(t).queue[i] = t.queue[i + 1]
<1>1. t.queue \in Seq(Entries(m)) /\ Len(t.queue) \in Nat
  BY TravStateIs
<1>2. /\ Tail(t.queue) \in Seq(Entries(m)) /\ Len(Tail(t.queue)) = Len(t.queue) - 1
      /\ \A i \in 1..Len(Tail(t.queue)) : Tail(t.queue)[i] = t.queue[i + 1]
  BY <1>1, HeadTailProperties
<1>3. Len(t.queue) # 0
  BY <1>1, EmptySeq
<1>4. 1 \in 1..Len(t.queue) /\ Head(t.queue) = t.queue[1]
  BY <1>1, <1>3
<1>5. t.queue[1] \in Entries(m)
  BY <1>1, <1>4, ElementOfSeq
<1>6. /\ Behind(t).seen = t.seen /\ Behind(t).affected = t.affected /\ Behind(t).queue = Tail(t.queue)
  BY DEF Behind, TravState
<1>7. Behind(t) \in TravState(m)
  BY <1>2 DEF Behind, TravState
<1>8. QED
  BY <1>2, <1>4, <1>5, <1>6, <1>7

LEMMA FrontierExpands ==
  ASSUME NEW m \in Nat, NEW arrows, IsArrows(arrows, m), NEW start \in 1..m, NEW limit \in Nat,
         NEW f, ReachOf(arrows, start, limit, m, f), NEW t \in TravState(m), NEW h,
         Frontier(arrows, f, limit, h, t), t.queue # <<>>, t.queue[1].depth = h, h < limit,
         NEW u, Met(m, start, Behind(t), h + 1, LeadsTo(arrows, {t.queue[1].id}), u)
  PROVE  Frontier(arrows, f, limit, h, u)
<1> DEFINE x == t.queue[1].id
           near == LeadsTo(arrows, {x})
           r == Behind(t)
           l == Len(t.queue)
           n == Len(u.queue)
<1>1. h \in 0..limit /\ QueueAt(h, t) /\ QueueFits(arrows, f, limit, h, t) /\ SeenAt(arrows, f, h, t)
  BY DEF Frontier
<1>2. /\ 1 \in 1..l /\ r.seen = t.seen /\ Len(r.queue) = l - 1
      /\ \A i \in 1..l - 1 : r.queue[i] = t.queue[i + 1]
  BY BehindIs
<1>3. u \in TravState(m) /\ u.seen = r.seen \cup near /\ QueueGrown(r, h + 1, u)
  BY DEF Met
<1>4. l \in Nat /\ n \in Nat /\ h \in Nat
  BY <1>1, <1>3, TravStateIs
<1>5. x \in f[h]
  BY <1>1, <1>2 DEF QueueFits
<1>6. \A b \in near : b \in LeadsTo(arrows, f[h])
  <2> SUFFICES ASSUME NEW b \in near PROVE b \in LeadsTo(arrows, f[h])
    OBVIOUS
  <2>1. <<x, b>> \in arrows
    BY LeadsToOne
  <2>2. QED
    BY <1>5, <2>1, LeadsToIs
<1> HIDE DEF near, r, l, n
<1>7. /\ l - 1 <= n
      /\ \A i \in 1..l - 1 : i \in 1..n /\ i + 1 \in 1..l /\ u.queue[i] = t.queue[i + 1]
      /\ \A i \in l..n : u.queue[i].depth = h + 1 /\ u.queue[i].id \in near
      /\ \A b \in u.seen \ t.seen : \E i \in l..n : u.queue[i].id = b
  <2>1. /\ Len(r.queue) <= n
        /\ \A i \in 1..Len(r.queue) : u.queue[i] = r.queue[i]
        /\ \A i \in Len(r.queue) + 1..n : u.queue[i].depth = h + 1 /\ u.queue[i].id \in u.seen \ r.seen
        /\ \A b \in u.seen \ r.seen : \E i \in Len(r.queue) + 1..n : u.queue[i].id = b
    BY <1>3 DEF QueueGrown, n
  <2>2. Len(r.queue) + 1 = l /\ l - 1 <= n /\ \A i \in 1..l - 1 : i \in 1..n /\ i + 1 \in 1..l
    BY <1>2, <1>4, <2>1
  <2>3. QED
    BY <1>2, <1>3, <2>1, <2>2
<1>8. \A i \in 1..n : i \in 1..l - 1 \/ i \in l..n
  BY <1>4
<1>9. l >= 1
  BY <1>2, <1>4
<1>10. ASSUME NEW b, NEW d, HasEntry(t, b, d), ~ (b = x /\ d = h) PROVE HasEntry(u, b, d)
  <2>1. PICK i \in 1..l : t.queue[i].id = b /\ t.queue[i].depth = d
    BY <1>10 DEF HasEntry, l
  <2>2. i # 1
    BY <1>10, <2>1
  <2>3. i - 1 \in 1..l - 1 /\ (i - 1) + 1 = i
    BY <1>4, <2>2
  <2>4. i - 1 \in 1..n /\ u.queue[i - 1] = t.queue[i]
    BY <1>7, <2>3
  <2>5. QED
    BY <2>1, <2>4 DEF HasEntry, n
<1>11. \A b \in u.seen \ t.seen : HasEntry(u, b, h + 1)
  <2> SUFFICES ASSUME NEW b \in u.seen \ t.seen PROVE HasEntry(u, b, h + 1)
    OBVIOUS
  <2>1. PICK i \in l..n : u.queue[i].id = b
    BY <1>7
  <2>2. i \in 1..n /\ u.queue[i].depth = h + 1
    BY <1>4, <1>7, <1>9
  <2>3. QED
    BY <2>1, <2>2 DEF HasEntry, n
<1>12. QueueAt(h, u)
  <2>1. ASSUME NEW i \in 1..n PROVE u.queue[i].depth \in {h, h + 1}
    BY <1>1, <1>7, <1>8 DEF QueueAt, l
  <2>2. ASSUME NEW i \in 1..n, NEW j \in 1..n, i < j, u.queue[i].depth = h + 1 PROVE u.queue[j].depth = h + 1
    <3>1. CASE j \in l..n
      BY <1>7, <3>1
    <3>2. CASE j \in 1..l - 1
      <4>1. i \in 1..l - 1 /\ i + 1 < j + 1
        BY <1>4, <2>2, <3>2
      <4>2. i + 1 \in 1..l /\ j + 1 \in 1..l /\ u.queue[i] = t.queue[i + 1] /\ u.queue[j] = t.queue[j + 1]
        BY <1>7, <3>2, <4>1
      <4>3. t.queue[i + 1].depth = h + 1
        BY <2>2, <4>2
      <4>4. t.queue[j + 1].depth = h + 1
        BY <1>1, <4>1, <4>2, <4>3 DEF QueueAt, l
      <4>5. QED
        BY <4>2, <4>4
    <3>3. QED
      BY <1>8, <3>1, <3>2
  <2>3. QED
    BY <2>1, <2>2 DEF QueueAt, n
<1>13. QueueFits(arrows, f, limit, h, u)
  <2> SUFFICES ASSUME NEW i \in 1..n
               PROVE  /\ u.queue[i].depth = h => u.queue[i].id \in f[h]
                      /\ u.queue[i].depth = h + 1 => h < limit /\ u.queue[i].id \in LeadsTo(arrows, f[h])
    BY DEF QueueFits, n
  <2>1. CASE i \in 1..l - 1
    <3>1. i + 1 \in 1..l /\ u.queue[i] = t.queue[i + 1]
      BY <1>7, <2>1
    <3> DEFINE j == i + 1
    <3>2. /\ t.queue[j].depth = h => t.queue[j].id \in f[h]
          /\ t.queue[j].depth = h + 1 => h < limit /\ t.queue[j].id \in LeadsTo(arrows, f[h])
      BY <1>1, <3>1 DEF QueueFits, l
    <3> HIDE DEF j
    <3>3. u.queue[i] = t.queue[j]
      BY <3>1 DEF j
    <3>4. QED
      BY <3>2, <3>3
  <2>2. CASE i \in l..n
    <3>1. u.queue[i].depth = h + 1 /\ u.queue[i].id \in LeadsTo(arrows, f[h])
      BY <1>6, <1>7, <2>2
    <3>2. h + 1 # h
      BY <1>4
    <3>3. QED
      BY <3>1, <3>2
  <2>3. QED
    BY <1>8, <2>1, <2>2
<1>14. SeenAt(arrows, f, h, u)
  <2>1. f[h] \subseteq u.seen
    BY <1>1, <1>2, <1>3 DEF SeenAt
  <2>2. ASSUME NEW b \in u.seen PROVE b \in f[h] \/ HasEntry(u, b, h + 1)
    <3>1. CASE b \in t.seen
      <4>1. h + 1 # h
        BY <1>4
      <4>2. QED
        BY <1>1, <1>10, <3>1, <4>1 DEF SeenAt
    <3>2. QED
      BY <1>11, <3>1
  <2>3. ASSUME NEW b \in f[h] PROVE HasEntry(u, b, h) \/ LeadsTo(arrows, {b}) \subseteq u.seen
    <3>1. CASE b = x
      BY <1>3, <3>1 DEF near
    <3>2. CASE b # x
      BY <1>1, <1>2, <1>3, <1>10, <3>2 DEF SeenAt
    <3>3. QED
      BY <3>1, <3>2
  <2>4. QED
    BY <2>1, <2>2, <2>3 DEF SeenAt
<1>15. QED
  BY <1>1, <1>12, <1>13, <1>14 DEF Frontier

-----------------------------------------------------------------------------
(* The rounds of a traversal *)

\* What holds of a traversal after k rounds.
TravInv(m, arrows, f, limit, start, k, t) ==
  /\ t \in TravState(m) /\ AffectedOK(start, t)
  /\ (\E h \in 0..limit : Frontier(arrows, f, limit, h, t)) \/ AtDepth(f, limit, t)
  /\ t.queue = <<>> \/ Cardinality(t.seen) = k + Len(t.queue)

LEMMA LookType ==
  ASSUME NEW m, NEW rels, IsRels(rels, m), NEW kinds, NEW limit, NEW t \in TravState(m)
  PROVE  LookOn(rels, kinds, limit, t) \in TravState(m)
<1>0. m \in Nat
  BY RelsAre
<1>1. CASE t.queue = <<>>
  BY <1>1 DEF LookOn
<1>2. CASE t.queue # <<>>
  <2> DEFINE head == t.queue[1]
  <2>1. Head(t.queue) = head /\ head \in Entries(m) /\ Behind(t) \in TravState(m)
    BY <1>0, <1>2, BehindIs
  <2>2. LookOn(rels, kinds, limit, t) =
          IF head.depth >= limit THEN Behind(t) ELSE Expand(rels, kinds, head, Behind(t))
    BY <1>2, <2>1 DEF LookOn, Look, Behind
  <2>3. Expand(rels, kinds, head, Behind(t)) \in TravState(m)
    <3> DEFINE r == Behind(t)
    <3> HIDE DEF head, r
    <3>1. PICK f : ExpandOf(rels, kinds, head, r, m, f)
      BY <2>1, ExpandExists DEF r
    <3>2. Len(rels) \in Nat
      BY RelsAre
    <3>3. Len(rels) \in 0..Len(rels)
      BY <3>2
    <3>4. f[Len(rels)] \in TravState(m)
      BY <3>1, <3>3 DEF ExpandOf
    <3>5. QED
      BY <3>1, <3>4 DEF ExpandOf, r
  <2>4. QED
    BY <2>1, <2>2, <2>3
<1>3. QED
  BY <1>1, <1>2

RoundsOf(g, start, limit, kinds, m, f) ==
  /\ f \in [0..MaxGraphNodes -> TravState(m)] /\ f[0] = AtStart(start)
  /\ \A k \in 1..MaxGraphNodes : f[k] = LookOn(g.rels, kinds, limit, f[k - 1])
  /\ ImpactTraversal(g, start, limit, kinds) = f[MaxGraphNodes]

LEMMA RoundsExists ==
  ASSUME NEW m, NEW g, IsRels(g.rels, m), NEW kinds, NEW start \in 1..m, NEW limit \in Nat
  PROVE  \E f : RoundsOf(g, start, limit, kinds, m, f)
<1> DEFINE n == MaxGraphNodes
           S == TravState(m)
           round[k \in 0..n] == IF k = 0 THEN AtStart(start) ELSE LookOn(g.rels, kinds, limit, round[k - 1])
           G == [p \in S \X (1..n) |-> LookOn(g.rels, kinds, limit, p[1])]
<1>0. ImpactTraversal(g, start, limit, kinds) = round[MaxGraphNodes]
  BY DEF ImpactTraversal
<1>1. n \in Nat
  BY GraphAssumption DEF GraphAssumption
<1>2. ASSUME NEW x \in S, NEW k \in 1..n PROVE LookOn(g.rels, kinds, limit, x) \in S
  BY LookType
<1>3. AtStart(start) \in S
  <2>1. m \in Nat /\ start \in 1..m
    BY RelsAre
  <2>2. <<>> \in Seq(1..m) /\ <<[id |-> start, depth |-> 0]>> \in Seq(Entries(m))
    BY <2>1 DEF Entries
  <2>3. {start} \in SUBSET (1..m)
    BY <2>1
  <2>4. QED
    BY <2>2, <2>3 DEF AtStart, TravState
<1> HIDE DEF n
<1>4. G \in [S \X (1..n) -> S]
  <2> HIDE DEF S
  <2> SUFFICES ASSUME NEW x \in S, NEW k \in 1..n PROVE LookOn(g.rels, kinds, limit, x) \in S
    OBVIOUS
  <2>1. QED
    BY <1>2
<1> HIDE DEF S
<1>5. PICK f : Recursion(S, AtStart(start), n, G, f)
  <2>1. RecursionData(S, AtStart(start), n, G)
    BY <1>1, <1>3, <1>4 DEF RecursionData
  <2> HIDE DEF G, round
  <2>2. QED
    BY <2>1, RecursionExists
<1>6. \A k \in 1..n : k - 1 \in 0..n /\ k \in 0..n /\ f[k - 1] \in S
  BY <1>1, <1>5 DEF Recursion
<1>7. \A k \in 1..n : f[k] = LookOn(g.rels, kinds, limit, f[k - 1])
  BY <1>5, <1>6 DEF Recursion
<1>8. f[0] = AtStart(start) /\ f \in [0..n -> S]
  BY <1>5 DEF Recursion
<1> HIDE DEF G
<1>9. f = [k \in 0..n |-> IF k = 0 THEN AtStart(start) ELSE LookOn(g.rels, kinds, limit, f[k - 1])]
  <2>1. \A k \in 0..n : k = 0 \/ k \in 1..n
    BY <1>1
  <2>2. ASSUME NEW k \in 0..n PROVE f[k] = IF k = 0 THEN AtStart(start) ELSE LookOn(g.rels, kinds, limit, f[k - 1])
    BY <1>7, <1>8, <2>1
  <2>3. QED
    BY <1>8, <2>2
<1>10. round = [k \in 0..n |-> IF k = 0 THEN AtStart(start) ELSE LookOn(g.rels, kinds, limit, round[k - 1])]
  BY <1>9
<1> HIDE DEF round
<1>11. /\ round[0] = AtStart(start)
       /\ \A k \in 1..n : round[k] = LookOn(g.rels, kinds, limit, round[k - 1])
  <2>1. 0 \in 0..n /\ \A k \in 1..n : k \in 0..n /\ k # 0
    BY <1>1
  <2>2. QED
    BY <1>10, <2>1
<1> DEFINE P == {k \in 0..n : round[k] \in S}
<1>12. 0 \in P
  BY <1>1, <1>3, <1>11
<1>13. ASSUME NEW k \in 1..n, k - 1 \in P PROVE k \in P
  <2>1. round[k - 1] \in S /\ k \in 0..n
    BY <1>1, <1>13
  <2>2. round[k] \in S
    BY <1>2, <1>11, <2>1
  <2>3. QED
    BY <2>1, <2>2
<1> HIDE DEF P
<1>14. 0..n \subseteq P
  BY <1>1, <1>12, <1>13, UpToInduction
<1>15. round \in [0..n -> S]
  <2>1. \A k \in 0..n : round[k] \in S
    BY <1>14 DEF P
  <2>2. QED
    BY <1>10, <2>1
<1>16. RoundsOf(g, start, limit, kinds, m, round)
  BY <1>0, <1>11, <1>15 DEF RoundsOf, n, S
<1>17. QED
  BY <1>16


\* The arrows of the relationships of some kinds, taken either way.
EitherWay(rels, kinds) == Arrows(rels, kinds) \cup Turned(Arrows(rels, kinds))

LEMMA EitherWayIs ==
  ASSUME NEW m, NEW rels, IsRels(rels, m), NEW kinds
  PROVE  IsArrows(EitherWay(rels, kinds), m)
<1>1. IsArrows(Arrows(rels, kinds), m)
  BY ArrowsAre
<1>2. QED
  BY <1>1, TurnedAre DEF EitherWay

LEMMA TravStep ==
  ASSUME NEW m, NEW rels, IsRels(rels, m), NEW kinds, NEW start \in 1..m, NEW limit \in Nat,
         NEW f, ReachOf(EitherWay(rels, kinds), start, limit, m, f), NEW k \in Nat, NEW t,
         TravInv(m, EitherWay(rels, kinds), f, limit, start, k, t)
  PROVE  TravInv(m, EitherWay(rels, kinds), f, limit, start, k + 1, LookOn(rels, kinds, limit, t))
<1> DEFINE arrows == EitherWay(rels, kinds)
           u == LookOn(rels, kinds, limit, t)
           head == t.queue[1]
           r == Behind(t)
<1>1. m \in Nat /\ IsArrows(arrows, m)
  BY RelsAre, EitherWayIs
<1>2. /\ t \in TravState(m) /\ AffectedOK(start, t)
      /\ (\E h \in 0..limit : Frontier(arrows, f, limit, h, t)) \/ AtDepth(f, limit, t)
      /\ t.queue = <<>> \/ Cardinality(t.seen) = k + Len(t.queue)
  BY DEF TravInv
<1>3. u \in TravState(m)
  BY <1>2, LookType
<1>4. CASE t.queue = <<>>
  <2>1. u = t
    BY <1>4 DEF LookOn
  <2> HIDE DEF u
  <2>2. QED
    BY <1>2, <1>4, <2>1 DEF TravInv, u
<1>5. CASE t.queue # <<>>
  <2> DEFINE l == Len(t.queue)
  <2>1. /\ 1 \in 1..l /\ Head(t.queue) = head /\ head \in Entries(m)
        /\ r \in TravState(m) /\ r.seen = t.seen /\ r.affected = t.affected
        /\ Len(r.queue) = l - 1 /\ \A i \in 1..l - 1 : r.queue[i] = t.queue[i + 1]
    BY <1>1, <1>2, <1>5, BehindIs
  <2>2. u = IF head.depth >= limit THEN r ELSE Expand(rels, kinds, head, r)
    BY <1>5, <2>1 DEF LookOn, Look, Behind
  <2>3. l \in Nat /\ Cardinality(t.seen) = k + l /\ Cardinality(t.seen) \in Nat /\ head.depth \in Nat
    BY <1>1, <1>2, <1>5, <2>1, TravStateIs
  <2>4. AffectedOK(start, r)
    BY <1>2, <2>1 DEF AffectedOK
  <2>5. head.depth < limit => Met(m, start, r, head.depth + 1, LeadsTo(arrows, {head.id}), u)
    <3> SUFFICES ASSUME head.depth < limit
                 PROVE  Met(m, start, r, head.depth + 1, LeadsTo(arrows, {head.id}), Expand(rels, kinds, head, r))
      BY <2>2, <2>3
    <3> HIDE DEF u, r, head
    <3>1. QED
      BY <2>1, <2>4, ExpandMeets DEF EitherWay
  <2>6. head.depth >= limit => u = r
    BY <2>2
  <2>7. head.depth < limit \/ head.depth >= limit
    BY <2>3
  <2> HIDE DEF u, r, head, l
  <2>8. AffectedOK(start, u)
    BY <2>4, <2>5, <2>6, <2>7 DEF Met
  <2>9. u.queue = <<>> \/ Cardinality(u.seen) = (k + 1) + Len(u.queue)
    <3>1. CASE head.depth >= limit
      <4>1. Len(u.queue) = l - 1 /\ Cardinality(u.seen) = k + l
        <5>1. u = r
          BY <2>6, <3>1
        <5>2. Cardinality(r.seen) = k + l
          BY <2>1, <2>3
        <5>3. QED
          BY <2>1, <5>1, <5>2
      <4>2. QED
        BY <2>3, <4>1
    <3>2. CASE head.depth < limit
      <4>1. Len(u.queue) = Len(r.queue) + Cardinality(u.seen) - Cardinality(r.seen)
        BY <2>5, <3>2 DEF Met, QueueGrown
      <4>2. Len(u.queue) \in Nat /\ Cardinality(u.seen) \in Nat
        BY <1>1, <1>3, TravStateIs
      <4>3. Len(r.queue) = l - 1 /\ Cardinality(r.seen) = k + l
        <5>1. Cardinality(r.seen) = k + l
          BY <2>1, <2>3
        <5>2. QED
          BY <2>1, <5>1
      <4> DEFINE a == Len(u.queue)
                 c == Cardinality(u.seen)
      <4>4. a = (l - 1) + c - (k + l) /\ a \in Nat /\ c \in Nat
        BY <4>1, <4>2, <4>3
      <4> HIDE DEF a, c
      <4>5. c = (k + 1) + a
        BY <2>3, <4>4
      <4>6. QED
        BY <4>5 DEF a, c
    <3>3. QED
      BY <2>7, <3>1, <3>2
  <2>10. ASSUME NEW h, Frontier(arrows, f, limit, h, t), head.depth = h
         PROVE  (\E e \in 0..limit : Frontier(arrows, f, limit, e, u)) \/ AtDepth(f, limit, u)
    <3>1. h \in 0..limit
      BY <2>10 DEF Frontier
    <3>2. CASE h < limit
      <4>1. Met(m, start, r, h + 1, LeadsTo(arrows, {head.id}), u)
        BY <2>5, <2>10, <3>2
      <4> HIDE DEF arrows
      <4>2. Frontier(arrows, f, limit, h, u)
        BY <1>1, <1>2, <1>5, <2>10, <3>2, <4>1, FrontierExpands DEF head, r, arrows
      <4>3. QED
        BY <3>1, <4>2
    <3>3. CASE h = limit
      <4>1. u = r
        BY <2>6, <2>10, <3>3
      <4>2. /\ \A i \in 1..l : t.queue[i].depth \in {h, h + 1}
            /\ \A i \in 1..l : t.queue[i].depth # h + 1
            /\ f[h] \subseteq t.seen /\ \A n \in t.seen : n \in f[h] \/ HasEntry(t, n, h + 1)
        BY <2>10, <3>3 DEF Frontier, QueueAt, QueueFits, SeenAt, l
      <4>3. t.seen = f[limit]
        BY <3>3, <4>2 DEF HasEntry, l
      <4>4. \A i \in 1..Len(u.queue) : u.queue[i].depth >= limit
        <5> SUFFICES ASSUME NEW i \in 1..l - 1 PROVE r.queue[i].depth >= limit
          BY <2>1, <4>1
        <5>1. i + 1 \in 1..l /\ r.queue[i] = t.queue[i + 1]
          BY <2>1, <2>3
        <5>2. t.queue[i + 1].depth = h
          BY <4>2, <5>1
        <5>3. QED
          BY <3>3, <5>1, <5>2
      <4>5. QED
        BY <2>1, <4>1, <4>3, <4>4 DEF AtDepth
    <3>4. QED
      BY <3>1, <3>2, <3>3
  <2>11. ASSUME NEW h, Frontier(arrows, f, limit, h, t)
         PROVE  (\E e \in 0..limit : Frontier(arrows, f, limit, e, u)) \/ AtDepth(f, limit, u)
    <3>1. head.depth \in {h, h + 1}
      BY <2>1, <2>11 DEF Frontier, QueueAt, head, l
    <3>2. CASE head.depth = h
      BY <2>10, <2>11, <3>2
    <3>3. CASE head.depth = h + 1
      <4> HIDE DEF arrows
      <4>1. Frontier(arrows, f, limit, h + 1, t)
        BY <1>1, <1>2, <2>1, <2>11, <3>3, FrontierMovesOn DEF head, l, arrows
      <4>2. QED
        BY <2>10, <3>3, <4>1
    <3>4. QED
      BY <3>1, <3>2, <3>3
  <2>12. ASSUME AtDepth(f, limit, t) PROVE AtDepth(f, limit, u)
    <3>1. t.seen = f[limit] /\ \A i \in 1..l : t.queue[i].depth >= limit
      BY <2>12 DEF AtDepth, l
    <3>2. u = r
      BY <2>1, <2>6, <3>1 DEF head
    <3>3. \A i \in 1..l - 1 : r.queue[i].depth >= limit
      <4> SUFFICES ASSUME NEW i \in 1..l - 1 PROVE r.queue[i].depth >= limit
        OBVIOUS
      <4>1. i + 1 \in 1..l /\ r.queue[i] = t.queue[i + 1]
        BY <2>1, <2>3
      <4>2. QED
        BY <3>1, <4>1
    <3>4. QED
      BY <2>1, <3>1, <3>2, <3>3 DEF AtDepth
  <2>13. (\E h \in 0..limit : Frontier(arrows, f, limit, h, u)) \/ AtDepth(f, limit, u)
    BY <1>2, <2>11, <2>12
  <2> HIDE DEF arrows
  <2>14. QED
    BY <1>3, <2>8, <2>9, <2>13 DEF TravInv, u, arrows
<1>6. QED
  BY <1>4, <1>5

\* An impact traversal reaches what is within the depth asked for, once.
LEMMA TraversalIsExact ==
  ASSUME NEW m, m <= MaxGraphNodes, NEW g, IsRels(g.rels, m), NEW kinds, NEW start \in 1..m, NEW limit \in Nat
  PROVE  LET found == ImpactTraversal(g, start, limit, kinds)
         IN /\ found \in TravState(m) /\ AffectedOK(start, found)
            /\ found.seen = Within(EitherWay(g.rels, kinds), start, limit)
<1> DEFINE arrows == EitherWay(g.rels, kinds)
           n == MaxGraphNodes
<1>1. m \in Nat /\ IsArrows(arrows, m) /\ n \in Nat
  BY RelsAre, EitherWayIs, GraphAssumption DEF GraphAssumption
<1>2. PICK f : ReachOf(arrows, start, limit, m, f)
  BY <1>1, ReachExists
<1>3. f[0] = {start} /\ Within(arrows, start, limit) = f[limit]
  BY <1>2 DEF ReachOf
<1>4. PICK t : RoundsOf(g, start, limit, kinds, m, t)
  BY RoundsExists
<1>5. /\ t[0] = AtStart(start) /\ \A k \in 1..n : t[k] = LookOn(g.rels, kinds, limit, t[k - 1])
      /\ ImpactTraversal(g, start, limit, kinds) = t[n]
      /\ t[0] \in TravState(m)
  <2>1. 0 \in 0..n
    BY <1>1
  <2>2. QED
    BY <1>4, <2>1 DEF RoundsOf
<1> DEFINE P == {k \in 0..n : TravInv(m, arrows, f, limit, start, k, t[k])}
<1>6. 0 \in P
  <2> DEFINE b == t[0]
             entry == [id |-> start, depth |-> 0]
  <2>1. b.seen = {start} /\ b.affected = <<>> /\ b.queue = <<entry>>
    BY <1>5 DEF AtStart
  <2>2. Len(b.queue) = 1 /\ b.queue[1] = entry /\ Len(b.affected) = 0
    BY <2>1
  <2>3. entry.id = start /\ entry.depth = 0
    OBVIOUS
  <2>4. b \in TravState(m)
    BY <1>5
  <2> HIDE DEF b, entry
  <2>5. Cardinality(b.seen) = 1
    BY <2>1, FS_Singleton
  <2>6. AffectedOK(start, b)
    BY <2>1, <2>2 DEF AffectedOK
  <2>7. \A i \in 1..Len(b.queue) : b.queue[i] = entry
    BY <2>2
  <2>8. HasEntry(b, start, 0)
    BY <2>2, <2>3 DEF HasEntry
  <2>9. QueueAt(0, b) /\ QueueFits(arrows, f, limit, 0, b)
    BY <1>3, <2>3, <2>7 DEF QueueAt, QueueFits
  <2>10. SeenAt(arrows, f, 0, b)
    BY <1>3, <2>1, <2>8 DEF SeenAt
  <2>11. Frontier(arrows, f, limit, 0, b)
    BY <2>9, <2>10 DEF Frontier
  <2>12. 0 \in 0..limit /\ 0 \in 0..n
    BY <1>1
  <2> HIDE DEF arrows, n
  <2>13. TravInv(m, arrows, f, limit, start, 0, b)
    BY <2>2, <2>4, <2>5, <2>6, <2>11, <2>12 DEF TravInv
  <2>14. QED
    BY <2>12, <2>13 DEF b
<1>7. ASSUME NEW k \in 1..n, k - 1 \in P PROVE k \in P
  <2>1. k - 1 \in Nat /\ (k - 1) + 1 = k /\ k \in 0..n
    BY <1>1
  <2>2. TravInv(m, arrows, f, limit, start, k - 1, t[k - 1])
    BY <1>7
  <2> DEFINE j == k - 1
  <2> HIDE DEF j
  <2>3. TravInv(m, EitherWay(g.rels, kinds), f, limit, start, j + 1, LookOn(g.rels, kinds, limit, t[j]))
    BY <1>2, <2>1, <2>2, TravStep DEF j
  <2>4. TravInv(m, arrows, f, limit, start, k, t[k])
    BY <1>5, <2>1, <2>3 DEF j
  <2>5. QED
    BY <2>1, <2>4
<1> HIDE DEF P, n, arrows
<1>8. n \in P
  <2>1. 0..n \subseteq P
    BY <1>1, <1>6, <1>7, UpToInduction
  <2>2. QED
    BY <1>1, <2>1
<1> DEFINE u == t[n]
<1>9. /\ u \in TravState(m) /\ AffectedOK(start, u)
      /\ (\E h \in 0..limit : Frontier(arrows, f, limit, h, u)) \/ AtDepth(f, limit, u)
      /\ u.queue = <<>> \/ Cardinality(u.seen) = n + Len(u.queue)
  BY <1>8 DEF P, TravInv
<1> HIDE DEF u
<1>10. u.queue = <<>>
  <2>1. Cardinality(u.seen) \in Nat /\ Cardinality(u.seen) <= m /\ Len(u.queue) \in Nat /\ u.queue \in Seq(Entries(m))
    BY <1>1, <1>9, TravStateIs
  <2>2. u.queue # <<>> => Len(u.queue) > 0
    BY <2>1, EmptySeq
  <2>3. m <= n
    BY DEF n
  <2>4. QED
    BY <1>1, <1>9, <2>1, <2>2, <2>3
<1>11. u.seen = f[limit]
  <2>1. ASSUME NEW h \in 0..limit, Frontier(arrows, f, limit, h, u) PROVE u.seen = f[limit]
    <3>1. \A b, d : ~ HasEntry(u, b, d)
      BY <1>10 DEF HasEntry
    <3>2. u.seen = f[h] /\ \A b \in f[h] : LeadsTo(arrows, {b}) \subseteq u.seen
      BY <2>1, <3>1 DEF Frontier, SeenAt
    <3>3. LeadsTo(arrows, f[h]) \subseteq f[h]
      <4> SUFFICES ASSUME NEW b \in LeadsTo(arrows, f[h]) PROVE b \in f[h]
        OBVIOUS
      <4>1. PICK a \in f[h] : <<a, b>> \in arrows
        BY <1>1, LeadsToIs
      <4>2. b \in LeadsTo(arrows, {a})
        BY <1>1, <4>1, LeadsToOne
      <4>3. QED
        BY <3>2, <4>2
    <3>4. f[limit] = f[h]
      BY <1>1, <1>2, <3>3, ReachGrows
    <3>5. QED
      BY <3>2, <3>4
  <2>2. QED
    BY <1>9, <2>1 DEF AtDepth
<1>12. QED
  BY <1>3, <1>5, <1>9, <1>11 DEF u, arrows

-----------------------------------------------------------------------------
(* KnowledgeGraph: one step of the search for cycles.                        *)

\* A search by depth: the nodes it is in and what it has looked at.
SearchState(rels, m) ==
  [stack: Seq(1..m), grey: SUBSET (1..m), black: SUBSET (1..m), looked: SUBSET (1..Len(rels)), cycles: Nat]

LEMMA SearchStateIs ==
  ASSUME NEW m, NEW rels, IsRels(rels, m), NEW s \in SearchState(rels, m)
  PROVE  /\ s.stack \in Seq(1..m) /\ Len(s.stack) \in Nat /\ DOMAIN s.stack = 1..Len(s.stack)
         /\ \A i \in 1..Len(s.stack) : s.stack[i] \in 1..m
         /\ s.grey \in SUBSET (1..m) /\ s.black \in SUBSET (1..m) /\ s.looked \in SUBSET (1..Len(rels)) /\ s.cycles \in Nat
         /\ IsFiniteSet(s.black) /\ Cardinality(s.black) \in Nat /\ Cardinality(s.black) <= m
         /\ IsFiniteSet(s.looked) /\ Cardinality(s.looked) \in Nat /\ Cardinality(s.looked) <= Len(rels)
<1>1. m \in Nat /\ Len(rels) \in Nat
  BY RelsAre
<1>2. /\ s.stack \in Seq(1..m) /\ s.grey \in SUBSET (1..m) /\ s.black \in SUBSET (1..m)
      /\ s.looked \in SUBSET (1..Len(rels)) /\ s.cycles \in Nat
  BY DEF SearchState
<1>3. Len(s.stack) \in Nat /\ DOMAIN s.stack = 1..Len(s.stack)
  BY <1>2, LenProperties
<1>4. \A i \in 1..Len(s.stack) : s.stack[i] \in 1..m
  BY <1>2, ElementOfSeq
<1>5. ASSUME NEW n \in Nat, NEW A \in SUBSET (1..n)
      PROVE  IsFiniteSet(A) /\ Cardinality(A) \in Nat /\ Cardinality(A) <= n
  <2>1. IsFiniteSet(1..n) /\ Cardinality(1..n) = n
    BY FS_Interval
  <2>2. IsFiniteSet(A) /\ Cardinality(A) <= n
    BY <2>1, FS_Subset
  <2>3. QED
    BY <2>2, FS_CardinalityType
<1>6. IsFiniteSet(s.black) /\ Cardinality(s.black) \in Nat /\ Cardinality(s.black) <= m
  BY <1>1, <1>2, <1>5
<1>7. IsFiniteSet(s.looked) /\ Cardinality(s.looked) \in Nat /\ Cardinality(s.looked) <= Len(rels)
  BY <1>1, <1>2, <1>5
<1>8. QED
  BY <1>2, <1>3, <1>4, <1>6, <1>7

LEMMA LeastExists ==
  ASSUME NEW n \in Nat, NEW A \in SUBSET (1..n), A # {}
  PROVE  \E k \in A : \A j \in A : k <= j
<1> DEFINE B == {n - a : a \in A}
<1>1. \A a \in A : a \in 1..n /\ n - a \in 0..n
  OBVIOUS
<1>2. B \in SUBSET (0..n) /\ B # {}
  BY <1>1
<1>3. PICK b \in B : \A c \in B : c <= b
  BY <1>2, GreatestExists
<1>4. PICK k \in A : b = n - k
  OBVIOUS
<1>5. ASSUME NEW j \in A PROVE k <= j
  <2>1. n - j \in B
    OBVIOUS
  <2>2. n - j <= n - k
    BY <1>3, <1>4, <2>1
  <2>3. QED
    BY <1>1, <2>2
<1>6. QED
  BY <1>5

\* One step of the search at the node "top": it looks at the relationship k, or
\* leaves the node when it has looked at all.
Out(rels, s, top) == {k \in 1..Len(rels) : k \notin s.looked /\ rels[k].from = top}
Greyer(s, top) == IF top \in s.grey \cup s.black THEN s.grey ELSE s.grey \cup {top}
Leaves(s, top, u) ==
  /\ u.stack = SubSeq(s.stack, 1, Len(s.stack) - 1) /\ u.black = s.black \cup {top}
  /\ u.grey = Greyer(s, top) \ {top} /\ u.looked = s.looked /\ u.cycles = s.cycles
Looks(rels, s, top, k, u) ==
  /\ u.grey = Greyer(s, top) /\ u.black = s.black /\ u.looked = s.looked \cup {k}
  /\ u.stack = IF rels[k].to \in Greyer(s, top) \cup s.black THEN s.stack ELSE Append(s.stack, rels[k].to)
  /\ u.cycles = IF rels[k].to \in Greyer(s, top) THEN s.cycles + 1 ELSE s.cycles

LEMMA SearchIs ==
  ASSUME NEW m, NEW rels, IsRels(rels, m), NEW s \in SearchState(rels, m), s.stack # <<>>
  PROVE  LET top == s.stack[Len(s.stack)]
             u == SearchOn(rels, s)
         IN /\ u \in SearchState(rels, m) /\ Len(s.stack) \in Nat /\ Len(s.stack) > 0 /\ top \in 1..m
            /\ \/ Out(rels, s, top) = {} /\ Leaves(s, top, u)
               \/ \E k \in Out(rels, s, top) : Looks(rels, s, top, k, u)
<1> DEFINE l == Len(s.stack)
           top == s.stack[l]
           u == SearchOn(rels, s)
           grey == Greyer(s, top)
           out == Out(rels, s, top)
           next == CHOOSE k \in out : \A j \in out : k <= j
           to == rels[next].to
<1>1. /\ m \in Nat /\ Len(rels) \in Nat /\ DOMAIN rels = 1..Len(rels)
      /\ \A k \in 1..Len(rels) : rels[k].from \in 1..m /\ rels[k].to \in 1..m
  BY RelsAre
<1>2. /\ s.stack \in Seq(1..m) /\ l \in Nat /\ \A i \in 1..l : s.stack[i] \in 1..m
      /\ s.grey \in SUBSET (1..m) /\ s.black \in SUBSET (1..m) /\ s.looked \in SUBSET (1..Len(rels)) /\ s.cycles \in Nat
  BY SearchStateIs
<1>3. l > 0 /\ top \in 1..m
  BY <1>2, EmptySeq
<1>4. out = {k \in DOMAIN rels \ s.looked : rels[k].from = top}
  BY <1>1 DEF Out
<1>5. u = IF out = {}
          THEN [s EXCEPT !.stack = SubSeq(s.stack, 1, l - 1), !.black = s.black \cup {top}, !.grey = grey \ {top}]
          ELSE [stack |-> IF to \in grey \cup s.black THEN s.stack ELSE Append(s.stack, to),
                grey |-> grey, black |-> s.black, looked |-> s.looked \cup {next},
                cycles |-> IF to \in grey THEN s.cycles + 1 ELSE s.cycles]
  BY <1>4 DEF SearchOn, Search, Greyer
<1>6. grey \in SUBSET (1..m)
  BY <1>2, <1>3 DEF Greyer
<1>7. out \in SUBSET (1..Len(rels))
  BY DEF Out
<1> HIDE DEF u, out, l
<1>8. CASE out = {}
  <2>1. u = [s EXCEPT !.stack = SubSeq(s.stack, 1, l - 1), !.black = s.black \cup {top}, !.grey = grey \ {top}]
    BY <1>5, <1>8
  <2> HIDE DEF grey, top
  <2>2. /\ u.stack = SubSeq(s.stack, 1, l - 1) /\ u.black = s.black \cup {top} /\ u.grey = grey \ {top}
        /\ u.looked = s.looked /\ u.cycles = s.cycles
    BY <2>1 DEF SearchState
  <2>3. SubSeq(s.stack, 1, l - 1) \in Seq(1..m)
    BY <1>2, SubSeqProperties
  <2>4. u \in SearchState(rels, m)
    BY <1>2, <1>3, <1>6, <2>1, <2>3 DEF SearchState
  <2>5. Leaves(s, top, u)
    BY <2>2 DEF Leaves, grey, l
  <2>6. QED
    BY <1>2, <1>3, <1>8, <2>4, <2>5 DEF u, out, l, top
<1>9. CASE out # {}
  <2>1. next \in out
    <3>1. \E k \in out : \A j \in out : k <= j
      BY <1>1, <1>7, <1>9, LeastExists
    <3>2. QED
      BY <3>1
  <2> HIDE DEF next
  <2>2. next \in 1..Len(rels) /\ to \in 1..m
    BY <1>1, <1>7, <2>1
  <2> HIDE DEF grey, top, to
  <2> DEFINE stack == IF to \in grey \cup s.black THEN s.stack ELSE Append(s.stack, to)
             cycles == IF to \in grey THEN s.cycles + 1 ELSE s.cycles
  <2>3. u = [stack |-> stack, grey |-> grey, black |-> s.black, looked |-> s.looked \cup {next}, cycles |-> cycles]
    BY <1>5, <1>9
  <2>4. stack \in Seq(1..m) /\ cycles \in Nat
    <3>1. Append(s.stack, to) \in Seq(1..m)
      BY <1>2, <2>2, AppendProperties
    <3>2. stack \in Seq(1..m)
      BY <1>2, <3>1
    <3>3. s.cycles + 1 \in Nat
      BY <1>2
    <3>4. cycles \in Nat
      BY <1>2, <3>3
    <3>5. QED
      BY <3>2, <3>4
  <2>5. u.grey = grey /\ u.black = s.black /\ u.looked = s.looked \cup {next} /\ u.stack = stack /\ u.cycles = cycles
    BY <2>3
  <2>6. Looks(rels, s, top, next, u)
    BY <2>5 DEF Looks, grey, to
  <2> HIDE DEF stack, cycles
  <2>7. u \in SearchState(rels, m)
    BY <1>2, <1>6, <2>2, <2>3, <2>4 DEF SearchState
  <2>8. QED
    BY <1>2, <1>3, <2>1, <2>6, <2>7 DEF u, out, l, top
<1>10. QED
  BY <1>8, <1>9

-----------------------------------------------------------------------------
(* KnowledgeGraph: relationships among the nodes left form no ring.          *)

\* Nodes each of which leads to one of them.
IsRing(rels, ring) == ring # {} /\ \A id \in ring : \E k \in 1..Len(rels) : rels[k].from = id /\ rels[k].to \in ring
HasRing(m, rels) == \E ring \in SUBSET (1..m) : IsRing(rels, ring)

\* The nodes on the stack are different, lead each to the next, and are not
\* left; those below the top are grey, and whatever is grey is on the stack.
OnStack(s) ==
  /\ \A i, j \in 1..Len(s.stack) : s.stack[i] = s.stack[j] => i = j
  /\ \A i \in 1..Len(s.stack) - 1 : s.stack[i] \in s.grey
  /\ \A i \in 1..Len(s.stack) : s.stack[i] \notin s.black
  /\ \A id \in s.grey : \E i \in 1..Len(s.stack) : s.stack[i] = id
PathOf(rels, s) ==
  \A i \in 1..Len(s.stack) - 1 : \E k \in 1..Len(rels) : rels[k].from = s.stack[i] /\ rels[k].to = s.stack[i + 1]
\* A node is left when all it leads to was looked at; what a looked-at
\* relationship leads to is left, or next on the stack.
Followed(rels, s) == \A k \in 1..Len(rels) : rels[k].from \in s.black => k \in s.looked
NextOnStack(rels, s, k) == \E i \in 1..Len(s.stack) - 1 : s.stack[i] = rels[k].from /\ s.stack[i + 1] = rels[k].to
LookedOK(rels, s) == \A k \in s.looked : rels[k].to \in s.black \/ NextOnStack(rels, s, k)
NoRingLeft(rels, s) == \A ring \in SUBSET s.black : ~IsRing(rels, ring)
SearchOK(m, rels, s) ==
  /\ OnStack(s) /\ PathOf(rels, s) /\ Followed(rels, s)
  /\ s.cycles > 0 => HasRing(m, rels)
  /\ s.cycles = 0 => LookedOK(rels, s) /\ NoRingLeft(rels, s)

\* A relationship from the top to a node on the stack closes a ring.
LEMMA RingCloses ==
  ASSUME NEW m, NEW rels, IsRels(rels, m), NEW s \in SearchState(rels, m), PathOf(rels, s), s.stack # <<>>,
         NEW k \in 1..Len(rels), rels[k].from = s.stack[Len(s.stack)],
         NEW j \in 1..Len(s.stack), s.stack[j] = rels[k].to
  PROVE  HasRing(m, rels)
<1> DEFINE l == Len(s.stack)
           ring == {s.stack[i] : i \in j..l}
<1>1. l \in Nat /\ \A i \in 1..l : s.stack[i] \in 1..m
  BY SearchStateIs
<1>2. \A x : x \in ring <=> \E i \in j..l : x = s.stack[i]
  OBVIOUS
<1> HIDE DEF ring
<1>3. ring \in SUBSET (1..m)
  BY <1>1, <1>2
<1>4. s.stack[j] \in ring
  BY <1>1, <1>2
<1>5. ASSUME NEW id \in ring PROVE \E q \in 1..Len(rels) : rels[q].from = id /\ rels[q].to \in ring
  <2>1. PICK i \in j..l : id = s.stack[i]
    BY <1>2
  <2>2. CASE i = l
    BY <1>4, <2>1, <2>2
  <2>3. CASE i # l
    <3>1. i \in 1..l - 1 /\ i + 1 \in j..l
      BY <1>1, <2>3
    <3>2. PICK q \in 1..Len(rels) : rels[q].from = s.stack[i] /\ rels[q].to = s.stack[i + 1]
      BY <3>1 DEF PathOf
    <3>3. s.stack[i + 1] \in ring
      BY <1>2, <3>1
    <3>4. QED
      BY <2>1, <3>2, <3>3
  <2>4. QED
    BY <2>2, <2>3
<1>6. IsRing(rels, ring)
  BY <1>4, <1>5 DEF IsRing
<1>7. QED
  BY <1>3, <1>6 DEF HasRing

\* Leaving a node that leads only to nodes already left makes no ring of them.
LEMMA NoRingMade ==
  ASSUME NEW m, NEW rels, IsRels(rels, m), NEW s, OnStack(s), NoRingLeft(rels, s), LookedOK(rels, s), Followed(rels, s),
         Len(s.stack) \in Nat, Len(s.stack) > 0, NEW top, top = s.stack[Len(s.stack)], Out(rels, s, top) = {},
         NEW ring \in SUBSET (s.black \cup {top})
  PROVE  ~IsRing(rels, ring)
<1> SUFFICES ASSUME IsRing(rels, ring) PROVE FALSE
  OBVIOUS
<1> DEFINE l == Len(s.stack)
<1>1. /\ \A i, j \in 1..l : s.stack[i] = s.stack[j] => i = j
      /\ \A i \in 1..l : s.stack[i] \notin s.black
      /\ l \in 1..l
  BY DEF OnStack
<1>2. ring # {} /\ \A id \in ring : \E k \in 1..Len(rels) : rels[k].from = id /\ rels[k].to \in ring
  BY DEF IsRing
<1>3. ASSUME NEW k \in 1..Len(rels), rels[k].from \in s.black \cup {top} PROVE rels[k].to \in s.black
  <2>1. k \in s.looked
    <3>1. CASE rels[k].from \in s.black
      BY <3>1 DEF Followed
    <3>2. CASE rels[k].from = top
      BY <3>2 DEF Out
    <3>3. QED
      BY <1>3, <3>1, <3>2
  <2>2. ~NextOnStack(rels, s, k)
    <3> SUFFICES ASSUME NEW i \in 1..l - 1, s.stack[i] = rels[k].from PROVE FALSE
      BY DEF NextOnStack
    <3>1. i \in 1..l /\ i # l
      OBVIOUS
    <3>2. s.stack[i] \notin s.black /\ s.stack[i] # top
      BY <1>1, <3>1
    <3>3. QED
      BY <1>3, <3>2
  <2>3. QED
    BY <2>1, <2>2 DEF LookedOK
<1> DEFINE rest == ring \cap s.black
<1>4. \A id \in ring : \E k \in 1..Len(rels) : rels[k].from = id /\ rels[k].to \in rest
  BY <1>2, <1>3
<1>5. rest # {}
  BY <1>2, <1>4
<1>6. IsRing(rels, rest)
  BY <1>4, <1>5 DEF IsRing
<1>7. rest \in SUBSET s.black
  OBVIOUS
<1>8. QED
  BY <1>6, <1>7 DEF NoRingLeft

LEMMA GreyerIs ==
  ASSUME NEW s, OnStack(s), Len(s.stack) \in Nat, Len(s.stack) > 0, NEW top, top = s.stack[Len(s.stack)]
  PROVE  /\ top \in Greyer(s, top) /\ s.grey \subseteq Greyer(s, top) /\ Greyer(s, top) \subseteq s.grey \cup {top}
         /\ \A i \in 1..Len(s.stack) : s.stack[i] \in Greyer(s, top)
         /\ \A id \in Greyer(s, top) : \E i \in 1..Len(s.stack) : s.stack[i] = id
         /\ top \notin s.black /\ Len(s.stack) \in 1..Len(s.stack)
<1> DEFINE l == Len(s.stack)
<1>1. l \in 1..l
  OBVIOUS
<1>2. top \notin s.black
  BY <1>1 DEF OnStack
<1>3. top \in Greyer(s, top) /\ s.grey \subseteq Greyer(s, top) /\ Greyer(s, top) \subseteq s.grey \cup {top}
  BY <1>2 DEF Greyer
<1>4. ASSUME NEW i \in 1..l PROVE s.stack[i] \in Greyer(s, top)
  <2>1. i = l \/ i \in 1..l - 1
    OBVIOUS
  <2>2. QED
    BY <1>3, <2>1 DEF OnStack
<1>5. ASSUME NEW id \in Greyer(s, top) PROVE \E i \in 1..l : s.stack[i] = id
  <2>1. id \in s.grey \/ id = top
    BY <1>3, <1>5
  <2>2. QED
    BY <1>1, <2>1 DEF OnStack
<1>6. QED
  BY <1>1, <1>2, <1>3, <1>4, <1>5

LEMMA LeavesKeeps ==
  ASSUME NEW m, NEW rels, IsRels(rels, m), NEW s \in SearchState(rels, m), SearchOK(m, rels, s), s.stack # <<>>,
         NEW top, top = s.stack[Len(s.stack)], Out(rels, s, top) = {}, NEW u \in SearchState(rels, m), Leaves(s, top, u)
  PROVE  SearchOK(m, rels, u) /\ Len(u.stack) = Len(s.stack) - 1 /\ \A i \in 1..Len(u.stack) : u.stack[i] = s.stack[i]
<1> DEFINE l == Len(s.stack)
<1>1. /\ s.stack \in Seq(1..m) /\ l \in Nat /\ \A i \in 1..l : s.stack[i] \in 1..m
      /\ s.looked \in SUBSET (1..Len(rels)) /\ s.cycles \in Nat
  BY SearchStateIs
<1>2. l > 0
  BY <1>1, EmptySeq
<1>3. /\ u.stack = SubSeq(s.stack, 1, l - 1) /\ u.black = s.black \cup {top}
      /\ u.grey = Greyer(s, top) \ {top} /\ u.looked = s.looked /\ u.cycles = s.cycles
  BY DEF Leaves
<1>4. Len(u.stack) = l - 1 /\ \A i \in 1..l - 1 : u.stack[i] = s.stack[i]
  <2>1. \A i \in 1..l - 1 : s.stack[i] \in 1..m
    BY <1>1
  <2>2. /\ Len(SubSeq(s.stack, 1, l - 1)) = IF 1 <= l - 1 THEN l - 1 - 1 + 1 ELSE 0
        /\ \A i \in 1..l - 1 - 1 + 1 : SubSeq(s.stack, 1, l - 1)[i] = s.stack[1 + i - 1]
    BY <1>1, <2>1, SubSeqProperties
  <2>3. QED
    BY <1>1, <1>2, <1>3, <2>2
<1>5. /\ \A i, j \in 1..l : s.stack[i] = s.stack[j] => i = j
      /\ \A i \in 1..l : s.stack[i] \notin s.black
      /\ \A i \in 1..l : s.stack[i] \in Greyer(s, top)
      /\ \A id \in Greyer(s, top) : \E i \in 1..l : s.stack[i] = id
      /\ l \in 1..l
  <2>1. OnStack(s)
    BY DEF SearchOK
  <2>2. /\ \A i \in 1..l : s.stack[i] \in Greyer(s, top)
        /\ \A id \in Greyer(s, top) : \E i \in 1..l : s.stack[i] = id
        /\ l \in 1..l
    BY <1>1, <1>2, <2>1, GreyerIs
  <2>3. QED
    BY <2>1, <2>2 DEF OnStack
<1>6. ASSUME NEW i \in 1..l - 1 PROVE i \in 1..l /\ i # l /\ s.stack[i] # top
  <2>1. i \in 1..l /\ i # l
    BY <1>1
  <2>2. s.stack[i] # s.stack[l]
    BY <1>5, <2>1
  <2>3. QED
    BY <2>1, <2>2
<1>7. OnStack(u)
  <2>1. \A i, j \in 1..l - 1 : u.stack[i] = u.stack[j] => i = j
    BY <1>4, <1>5, <1>6
  <2>2. \A i \in 1..l - 1 : u.stack[i] \notin u.black /\ u.stack[i] \in u.grey
    BY <1>3, <1>4, <1>5, <1>6
  <2>3. \A i \in 1..l - 1 - 1 : i \in 1..l - 1
    BY <1>1
  <2>4. ASSUME NEW id \in u.grey PROVE \E i \in 1..l - 1 : u.stack[i] = id
    <3>1. id \in Greyer(s, top) /\ id # top
      BY <1>3, <2>4
    <3>2. PICK i \in 1..l : s.stack[i] = id
      BY <1>5, <3>1
    <3>3. i \in 1..l - 1
      BY <1>1, <3>1, <3>2
    <3>4. QED
      BY <1>4, <3>2, <3>3
  <2>5. QED
    BY <1>4, <2>1, <2>2, <2>3, <2>4 DEF OnStack
<1>8. PathOf(rels, u)
  <2>1. \A i \in 1..l - 1 - 1 : i \in 1..l - 1 /\ i + 1 \in 1..l - 1
    BY <1>1
  <2>2. \A i \in 1..l - 1 : \E k \in 1..Len(rels) : rels[k].from = s.stack[i] /\ rels[k].to = s.stack[i + 1]
    BY DEF SearchOK, PathOf
  <2>3. QED
    BY <1>4, <2>1, <2>2 DEF PathOf
<1>9. Followed(rels, u)
  BY <1>3 DEF SearchOK, Followed, Out
<1>10. ASSUME u.cycles = 0 PROVE LookedOK(rels, u)
  <2>1. LookedOK(rels, s)
    BY <1>3, <1>10 DEF SearchOK
  <2>2. ASSUME NEW k \in u.looked PROVE rels[k].to \in u.black \/ NextOnStack(rels, u, k)
    <3>1. CASE rels[k].to \in s.black
      BY <1>3, <3>1
    <3>2. CASE NextOnStack(rels, s, k)
      <4>1. PICK i \in 1..l - 1 : s.stack[i] = rels[k].from /\ s.stack[i + 1] = rels[k].to
        BY <3>2 DEF NextOnStack
      <4>2. CASE i + 1 = l
        BY <1>3, <4>1, <4>2
      <4>3. CASE i + 1 # l
        <5>1. i \in 1..l - 1 - 1 /\ i + 1 \in 1..l - 1
          BY <1>1, <4>3
        <5>2. QED
          BY <1>4, <4>1, <5>1 DEF NextOnStack
      <4>4. QED
        BY <4>2, <4>3
    <3>3. QED
      BY <1>3, <2>1, <2>2, <3>1, <3>2 DEF LookedOK
  <2>3. QED
    BY <2>2 DEF LookedOK
<1>11. ASSUME u.cycles = 0 PROVE NoRingLeft(rels, u)
  <2>1. OnStack(s) /\ LookedOK(rels, s) /\ NoRingLeft(rels, s) /\ Followed(rels, s)
    BY <1>3, <1>11 DEF SearchOK
  <2>2. \A ring \in SUBSET (s.black \cup {top}) : ~IsRing(rels, ring)
    BY <1>1, <1>2, <2>1, NoRingMade
  <2>3. QED
    BY <1>3, <2>2 DEF NoRingLeft
<1>12. u.cycles > 0 => HasRing(m, rels)
  BY <1>3 DEF SearchOK
<1>13. SearchOK(m, rels, u)
  BY <1>7, <1>8, <1>9, <1>10, <1>11, <1>12 DEF SearchOK
<1>14. QED
  BY <1>4, <1>13

LEMMA LooksKeeps ==
  ASSUME NEW m, NEW rels, IsRels(rels, m), NEW s \in SearchState(rels, m), SearchOK(m, rels, s), s.stack # <<>>,
         NEW top, top = s.stack[Len(s.stack)], NEW k \in Out(rels, s, top), NEW u \in SearchState(rels, m),
         Looks(rels, s, top, k, u)
  PROVE  SearchOK(m, rels, u) /\ Len(s.stack) <= Len(u.stack) /\ \A i \in 1..Len(s.stack) : u.stack[i] = s.stack[i]
<1> DEFINE l == Len(s.stack)
           n == Len(u.stack)
           to == rels[k].to
           grey == Greyer(s, top)
<1>1. /\ s.stack \in Seq(1..m) /\ l \in Nat /\ \A i \in 1..l : s.stack[i] \in 1..m
      /\ s.looked \in SUBSET (1..Len(rels)) /\ s.cycles \in Nat
  BY SearchStateIs
<1>2. l > 0
  BY <1>1, EmptySeq
<1>3. /\ u.grey = grey /\ u.black = s.black /\ u.looked = s.looked \cup {k}
      /\ u.stack = IF to \in grey \cup s.black THEN s.stack ELSE Append(s.stack, to)
      /\ u.cycles = IF to \in grey THEN s.cycles + 1 ELSE s.cycles
  BY DEF Looks
<1>4. k \in 1..Len(rels) /\ k \notin s.looked /\ rels[k].from = top
  BY DEF Out
<1>5. to \in 1..m
  BY <1>4, RelsAre
<1>6. OnStack(s) /\ PathOf(rels, s)
  BY DEF SearchOK
<1>7. /\ top \in grey /\ \A i \in 1..l : s.stack[i] \in grey
      /\ \A id \in grey : \E i \in 1..l : s.stack[i] = id
      /\ l \in 1..l
  BY <1>1, <1>2, <1>6, GreyerIs
<1> HIDE DEF grey
<1>8. \/ to \in grey \cup s.black /\ u.stack = s.stack /\ n = l
      \/ /\ to \notin grey \cup s.black /\ n = l + 1 /\ u.stack[l + 1] = to
         /\ \A i \in 1..l : u.stack[i] = s.stack[i]
  <2>1. CASE to \in grey \cup s.black
    BY <1>3, <2>1
  <2>2. CASE to \notin grey \cup s.black
    <3>1. u.stack = Append(s.stack, to)
      BY <1>3, <2>2
    <3>2. /\ Len(Append(s.stack, to)) = l + 1 /\ Append(s.stack, to)[l + 1] = to
          /\ \A i \in 1..l : Append(s.stack, to)[i] = s.stack[i]
      BY <1>1, <1>5, AppendProperties
    <3>3. QED
      BY <2>2, <3>1, <3>2
  <2>3. QED
    BY <2>1, <2>2
<1>9. n \in Nat /\ l <= n /\ \A i \in 1..l : u.stack[i] = s.stack[i]
  BY <1>1, <1>8
<1> HIDE DEF to
<1>10. OnStack(u)
  <2>1. /\ \A i, j \in 1..l : s.stack[i] = s.stack[j] => i = j
        /\ \A i \in 1..l : s.stack[i] \notin s.black
    BY <1>6 DEF OnStack
  <2>2. \A i \in 1..n : i \in 1..l \/ (i = l + 1 /\ n = l + 1 /\ u.stack[i] = to /\ to \notin grey \cup s.black)
    BY <1>1, <1>8
  <2>3. ASSUME NEW i \in 1..n, NEW j \in 1..n, u.stack[i] = u.stack[j] PROVE i = j
    <3>1. CASE i \in 1..l /\ j \in 1..l
      BY <1>9, <2>1, <2>3, <3>1
    <3>2. CASE i \in 1..l /\ j = l + 1 /\ u.stack[j] = to /\ to \notin grey \cup s.black
      BY <1>7, <1>9, <2>3, <3>2
    <3>3. CASE j \in 1..l /\ i = l + 1 /\ u.stack[i] = to /\ to \notin grey \cup s.black
      BY <1>7, <1>9, <2>3, <3>3
    <3>4. QED
      BY <2>2, <3>1, <3>2, <3>3
  <2>4. \A i \in 1..n - 1 : i \in 1..l
    BY <1>1, <1>8
  <2>5. \A i \in 1..n - 1 : u.stack[i] \in u.grey
    BY <1>3, <1>7, <1>9, <2>4
  <2>6. \A i \in 1..n : u.stack[i] \notin u.black
    BY <1>3, <1>9, <2>1, <2>2
  <2>7. \A id \in u.grey : \E i \in 1..n : u.stack[i] = id
    <3>1. \A i \in 1..l : i \in 1..n
      BY <1>1, <1>9
    <3>2. QED
      BY <1>3, <1>7, <1>9, <3>1
  <2>8. QED
    BY <2>3, <2>5, <2>6, <2>7 DEF OnStack
<1>11. PathOf(rels, u)
  <2>1. \A i \in 1..l - 1 : \E q \in 1..Len(rels) : rels[q].from = s.stack[i] /\ rels[q].to = s.stack[i + 1]
    BY <1>6 DEF PathOf
  <2>2. ASSUME NEW i \in 1..n - 1
        PROVE  \E q \in 1..Len(rels) : rels[q].from = u.stack[i] /\ rels[q].to = u.stack[i + 1]
    <3>1. CASE i \in 1..l - 1
      <4>1. i \in 1..l /\ i + 1 \in 1..l
        BY <1>1, <3>1
      <4>2. u.stack[i] = s.stack[i] /\ u.stack[i + 1] = s.stack[i + 1]
        BY <1>9, <4>1
      <4>3. QED
        BY <2>1, <3>1, <4>2
    <3>2. CASE i \notin 1..l - 1
      <4>1. i = l /\ n = l + 1 /\ u.stack[l + 1] = to
        BY <1>1, <1>8, <2>2, <3>2
      <4>2. u.stack[i] = top
        BY <1>7, <1>9, <4>1
      <4>3. QED
        BY <1>4, <4>1, <4>2 DEF to
    <3>3. QED
      BY <3>1, <3>2
  <2>3. QED
    BY <2>2 DEF PathOf
<1>12. Followed(rels, u)
  BY <1>3 DEF SearchOK, Followed
<1>13. ASSUME u.cycles > 0 PROVE HasRing(m, rels)
  <2>1. CASE to \in grey
    <3>1. PICK j \in 1..l : s.stack[j] = to
      BY <1>7, <2>1
    <3>2. QED
      BY <1>4, <1>6, <3>1, RingCloses DEF to
  <2>2. CASE to \notin grey
    BY <1>3, <1>13, <2>2 DEF SearchOK
  <2>3. QED
    BY <2>1, <2>2
<1>14. ASSUME u.cycles = 0 PROVE LookedOK(rels, u) /\ NoRingLeft(rels, u)
  <2>1. to \notin grey /\ s.cycles = 0
    BY <1>1, <1>3, <1>14
  <2>2. LookedOK(rels, s) /\ NoRingLeft(rels, s)
    BY <2>1 DEF SearchOK
  <2>3. NoRingLeft(rels, u)
    BY <1>3, <2>2 DEF NoRingLeft
  <2>4. ASSUME NEW q \in u.looked PROVE rels[q].to \in u.black \/ NextOnStack(rels, u, q)
    <3>1. CASE q \in s.looked
      <4>1. CASE rels[q].to \in s.black
        BY <1>3, <4>1
      <4>2. CASE NextOnStack(rels, s, q)
        <5>1. PICK i \in 1..l - 1 : s.stack[i] = rels[q].from /\ s.stack[i + 1] = rels[q].to
          BY <4>2 DEF NextOnStack
        <5>2. i \in 1..l /\ i + 1 \in 1..l /\ i \in 1..n - 1
          BY <1>1, <1>9, <5>1
        <5>3. u.stack[i] = s.stack[i] /\ u.stack[i + 1] = s.stack[i + 1]
          BY <1>9, <5>2
        <5>4. QED
          BY <5>1, <5>2, <5>3 DEF NextOnStack
      <4>3. QED
        BY <2>2, <3>1, <4>1, <4>2 DEF LookedOK
    <3>2. CASE q = k
      <4>1. CASE to \in s.black
        BY <1>3, <3>2, <4>1 DEF to
      <4>2. CASE to \notin s.black
        <5>1. n = l + 1 /\ u.stack[l + 1] = to /\ l \in 1..n - 1
          BY <1>1, <1>2, <1>8, <2>1, <4>2
        <5>2. u.stack[l] = rels[k].from
          BY <1>4, <1>7, <1>9
        <5>3. NextOnStack(rels, u, k)
          BY <5>1, <5>2 DEF NextOnStack, to
        <5>4. QED
          BY <3>2, <5>3
      <4>3. QED
        BY <4>1, <4>2
    <3>3. QED
      BY <1>3, <2>4, <3>1, <3>2
  <2>5. LookedOK(rels, u)
    BY <2>4 DEF LookedOK
  <2>6. QED
    BY <2>3, <2>5
<1>15. SearchOK(m, rels, u)
  BY <1>10, <1>11, <1>12, <1>13, <1>14 DEF SearchOK
<1>16. QED
  BY <1>9, <1>15

-----------------------------------------------------------------------------
(* KnowledgeGraph: a search leaves whatever it can reach.                    *)

\* How far a search is: what it has looked at and what it has left.
Done(s) == Cardinality(s.looked) + Cardinality(s.black)

LEMMA StepCounts ==
  ASSUME NEW m, NEW rels, IsRels(rels, m), NEW s \in SearchState(rels, m), SearchOK(m, rels, s), s.stack # <<>>
  PROVE  /\ SearchOn(rels, s) \in SearchState(rels, m) /\ SearchOK(m, rels, SearchOn(rels, s))
         /\ Done(SearchOn(rels, s)) = Done(s) + 1 /\ s.black \subseteq SearchOn(rels, s).black
         /\ \/ SearchOn(rels, s).stack # <<>> /\ SearchOn(rels, s).stack[1] = s.stack[1]
            \/ s.stack[1] \in SearchOn(rels, s).black
<1> DEFINE l == Len(s.stack)
           top == s.stack[l]
           u == SearchOn(rels, s)
<1>1. /\ u \in SearchState(rels, m) /\ l \in Nat /\ l > 0 /\ top \in 1..m
      /\ \/ Out(rels, s, top) = {} /\ Leaves(s, top, u)
         \/ \E k \in Out(rels, s, top) : Looks(rels, s, top, k, u)
  BY SearchIs
<1>2. /\ IsFiniteSet(s.black) /\ Cardinality(s.black) \in Nat
      /\ IsFiniteSet(s.looked) /\ Cardinality(s.looked) \in Nat
  BY SearchStateIs
<1>3. OnStack(s)
  BY DEF SearchOK
<1>4. top \notin s.black /\ l \in 1..l
  BY <1>1, <1>3 DEF OnStack
<1> HIDE DEF u
<1>5. CASE Out(rels, s, top) = {} /\ Leaves(s, top, u)
  <2>1. SearchOK(m, rels, u) /\ Len(u.stack) = l - 1 /\ \A i \in 1..Len(u.stack) : u.stack[i] = s.stack[i]
    BY <1>1, <1>5, LeavesKeeps
  <2>2. u.black = s.black \cup {top} /\ u.looked = s.looked
    BY <1>5 DEF Leaves
  <2>3. Cardinality(s.black \cup {top}) = Cardinality(s.black) + 1
    BY <1>2, <1>4, FS_AddElement
  <2>4. Done(u) = Done(s) + 1
    BY <1>2, <2>2, <2>3 DEF Done
  <2>5. CASE l = 1
    BY <1>1, <2>1, <2>2, <2>4, <2>5 DEF u
  <2>6. CASE l # 1
    <3>1. 1 \in 1..Len(u.stack) /\ Len(u.stack) # 0
      <4>0. l \in Nat /\ l > 0 /\ l # 1
        BY <1>1, <2>6
      <4> HIDE DEF l
      <4>1. l - 1 \in Nat /\ l - 1 # 0 /\ 1 \in 1..l - 1
        BY <4>0
      <4>2. QED
        BY <2>1, <4>1
    <3>2. u.stack # <<>>
      BY <3>1
    <3>3. QED
      BY <1>1, <2>1, <2>2, <2>4, <3>1, <3>2 DEF u
  <2>7. QED
    BY <2>5, <2>6
<1>6. ASSUME NEW k \in Out(rels, s, top), Looks(rels, s, top, k, u)
      PROVE  /\ SearchOK(m, rels, u) /\ Done(u) = Done(s) + 1 /\ s.black \subseteq u.black
             /\ u.stack # <<>> /\ u.stack[1] = s.stack[1]
  <2>1. SearchOK(m, rels, u) /\ l <= Len(u.stack) /\ \A i \in 1..l : u.stack[i] = s.stack[i]
    <3>1. u \in SearchState(rels, m) /\ Looks(rels, s, s.stack[Len(s.stack)], k, u)
      BY <1>1, <1>6
    <3>2. QED
      BY <3>1, LooksKeeps
  <2>2. u.black = s.black /\ u.looked = s.looked \cup {k}
    BY <1>6 DEF Looks
  <2>3. k \notin s.looked
    BY DEF Out
  <2>4. Cardinality(s.looked \cup {k}) = Cardinality(s.looked) + 1
    BY <1>2, <2>3, FS_AddElement
  <2>5. Done(u) = Done(s) + 1
    BY <1>2, <2>2, <2>4 DEF Done
  <2>6. u.stack \in Seq(1..m)
    BY <1>1 DEF SearchState
  <2>7. Len(u.stack) \in Nat /\ Len(u.stack) # 0
    BY <1>1, <2>1, <2>6, LenProperties
  <2>8. 1 \in 1..l /\ u.stack # <<>>
    BY <1>1, <2>7
  <2>9. QED
    BY <2>1, <2>2, <2>5, <2>8
<1>7. QED
  BY <1>1, <1>5, <1>6 DEF u

LEMMA StepKeepsType ==
  ASSUME NEW m, NEW rels, IsRels(rels, m), NEW s \in SearchState(rels, m)
  PROVE  SearchOn(rels, s) \in SearchState(rels, m)
<1>1. CASE s.stack = <<>>
  BY <1>1 DEF SearchOn
<1>2. CASE s.stack # <<>>
  BY <1>2, SearchIs
<1>3. QED
  BY <1>1, <1>2

LEMMA PushType ==
  ASSUME NEW m, NEW rels, NEW s \in SearchState(rels, m), NEW src \in 1..m
  PROVE  [s EXCEPT !.stack = <<src>>] \in SearchState(rels, m)
<1>1. <<src>> \in Seq(1..m)
  OBVIOUS
<1>2. QED
  BY <1>1 DEF SearchState

SearchedOf(rels, s, src, m, f) ==
  /\ f \in [0..Len(rels) + MaxGraphNodes -> SearchState(rels, m)] /\ f[0] = [s EXCEPT !.stack = <<src>>]
  /\ \A k \in 1..Len(rels) + MaxGraphNodes : f[k] = SearchOn(rels, f[k - 1])
  /\ SearchFrom(rels, s, src) = f[Len(rels) + MaxGraphNodes]

LEMMA SearchedExists ==
  ASSUME NEW rels, NEW s, NEW src, NEW m, IsRels(rels, m), s \in SearchState(rels, m), src \in 1..m
  PROVE  \E f : SearchedOf(rels, s, src, m, f)
<1> DEFINE n == Len(rels) + MaxGraphNodes
           S == SearchState(rels, m)
           after[k \in 0..n] == IF k = 0 THEN [s EXCEPT !.stack = <<src>>] ELSE SearchOn(rels, after[k - 1])
           G == [p \in S \X (1..n) |-> SearchOn(rels, p[1])]
<1>0. SearchFrom(rels, s, src) = after[Len(rels) + MaxGraphNodes]
  BY DEF SearchFrom
<1>1. n \in Nat
  BY RelsAre, GraphAssumption DEF GraphAssumption
<1>2. ASSUME NEW x \in S, NEW k \in 1..n PROVE SearchOn(rels, x) \in S
  BY StepKeepsType
<1>3. [s EXCEPT !.stack = <<src>>] \in S
  BY PushType
<1> HIDE DEF n
<1>4. G \in [S \X (1..n) -> S]
  <2> HIDE DEF S
  <2> SUFFICES ASSUME NEW x \in S, NEW k \in 1..n PROVE SearchOn(rels, x) \in S
    OBVIOUS
  <2>1. QED
    BY <1>2
<1> HIDE DEF S
<1>5. PICK f : Recursion(S, [s EXCEPT !.stack = <<src>>], n, G, f)
  <2>1. RecursionData(S, [s EXCEPT !.stack = <<src>>], n, G)
    BY <1>1, <1>3, <1>4 DEF RecursionData
  <2> HIDE DEF G, after
  <2>2. QED
    BY <2>1, RecursionExists
<1>6. \A k \in 1..n : k - 1 \in 0..n /\ k \in 0..n /\ f[k - 1] \in S
  BY <1>1, <1>5 DEF Recursion
<1>7. \A k \in 1..n : f[k] = SearchOn(rels, f[k - 1])
  BY <1>5, <1>6 DEF Recursion
<1>8. f[0] = [s EXCEPT !.stack = <<src>>] /\ f \in [0..n -> S]
  BY <1>5 DEF Recursion
<1> HIDE DEF G
<1>9. f = [k \in 0..n |-> IF k = 0 THEN [s EXCEPT !.stack = <<src>>] ELSE SearchOn(rels, f[k - 1])]
  <2>1. \A k \in 0..n : k = 0 \/ k \in 1..n
    BY <1>1
  <2>2. ASSUME NEW k \in 0..n PROVE f[k] = IF k = 0 THEN [s EXCEPT !.stack = <<src>>] ELSE SearchOn(rels, f[k - 1])
    BY <1>7, <1>8, <2>1
  <2>3. QED
    BY <1>8, <2>2
<1>10. after = [k \in 0..n |-> IF k = 0 THEN [s EXCEPT !.stack = <<src>>] ELSE SearchOn(rels, after[k - 1])]
  BY <1>9
<1> HIDE DEF after
<1>11. /\ after[0] = [s EXCEPT !.stack = <<src>>]
       /\ \A k \in 1..n : after[k] = SearchOn(rels, after[k - 1])
  <2>1. 0 \in 0..n /\ \A k \in 1..n : k \in 0..n /\ k # 0
    BY <1>1
  <2>2. QED
    BY <1>10, <2>1
<1> DEFINE P == {k \in 0..n : after[k] \in S}
<1>12. 0 \in P
  BY <1>1, <1>3, <1>11
<1>13. ASSUME NEW k \in 1..n, k - 1 \in P PROVE k \in P
  <2>1. after[k - 1] \in S /\ k \in 0..n
    BY <1>1, <1>13
  <2>2. after[k] \in S
    BY <1>2, <1>11, <2>1
  <2>3. QED
    BY <2>1, <2>2
<1> HIDE DEF P
<1>14. 0..n \subseteq P
  BY <1>1, <1>12, <1>13, UpToInduction
<1>15. after \in [0..n -> S]
  <2>1. \A k \in 0..n : after[k] \in S
    BY <1>14 DEF P
  <2>2. QED
    BY <1>10, <2>1
<1>16. SearchedOf(rels, s, src, m, after)
  BY <1>0, <1>11, <1>15 DEF SearchedOf, n, S
<1>17. QED
  BY <1>16

\* Between two searches nothing is on the stack; a search leaves where it began.
Rested(m, rels, s) == s \in SearchState(rels, m) /\ SearchOK(m, rels, s) /\ s.stack = <<>> /\ s.grey = {}
OnItsWay(m, rels, s, src, k, u) ==
  /\ u \in SearchState(rels, m) /\ SearchOK(m, rels, u) /\ s.black \subseteq u.black
  /\ src \in u.black \/ (u.stack # <<>> /\ u.stack[1] = src)
  /\ u.stack = <<>> \/ k <= Done(u)

LEMMA PushKeeps ==
  ASSUME NEW m, NEW rels, IsRels(rels, m), NEW s, Rested(m, rels, s), NEW src \in 1..m, src \notin s.black
  PROVE  OnItsWay(m, rels, s, src, 0, [s EXCEPT !.stack = <<src>>])
<1> DEFINE u == [s EXCEPT !.stack = <<src>>]
<1>1. s \in SearchState(rels, m) /\ SearchOK(m, rels, s) /\ s.stack = <<>> /\ s.grey = {}
  BY DEF Rested
<1>2. u \in SearchState(rels, m)
  BY <1>1, PushType
<1>3. /\ u.stack = <<src>> /\ u.grey = {} /\ u.black = s.black /\ u.looked = s.looked /\ u.cycles = s.cycles
  BY <1>1 DEF SearchState
<1> HIDE DEF u
<1>4. Len(u.stack) = 1 /\ u.stack[1] = src /\ u.stack # <<>>
  BY <1>3
<1>5. OnStack(u) /\ PathOf(rels, u)
  BY <1>3, <1>4 DEF OnStack, PathOf
<1>6. Followed(rels, u)
  BY <1>1, <1>3 DEF Followed, SearchOK
<1>7. u.cycles > 0 => HasRing(m, rels)
  BY <1>1, <1>3 DEF SearchOK
<1>8. ASSUME u.cycles = 0 PROVE LookedOK(rels, u) /\ NoRingLeft(rels, u)
  <2>1. LookedOK(rels, s) /\ NoRingLeft(rels, s)
    BY <1>1, <1>3, <1>8 DEF SearchOK
  <2>2. \A k : ~NextOnStack(rels, s, k)
    <3>1. Len(s.stack) = 0
      BY <1>1
    <3>2. QED
      BY <3>1 DEF NextOnStack
  <2>3. LookedOK(rels, u)
    BY <1>3, <2>1, <2>2 DEF LookedOK
  <2>4. NoRingLeft(rels, u)
    BY <1>3, <2>1 DEF NoRingLeft
  <2>5. QED
    BY <2>3, <2>4
<1>9. SearchOK(m, rels, u)
  BY <1>5, <1>6, <1>7, <1>8 DEF SearchOK
<1>10. Done(u) \in Nat
  BY <1>2, SearchStateIs DEF Done
<1>11. OnItsWay(m, rels, s, src, 0, u)
  BY <1>2, <1>3, <1>4, <1>9, <1>10 DEF OnItsWay
<1>12. QED
  BY <1>11 DEF u

LEMMA OnItsWayStep ==
  ASSUME NEW m, NEW rels, IsRels(rels, m), NEW s, NEW src, NEW k \in Nat, NEW u, OnItsWay(m, rels, s, src, k, u)
  PROVE  OnItsWay(m, rels, s, src, k + 1, SearchOn(rels, u))
<1> DEFINE v == SearchOn(rels, u)
<1>1. /\ u \in SearchState(rels, m) /\ SearchOK(m, rels, u) /\ s.black \subseteq u.black
      /\ src \in u.black \/ (u.stack # <<>> /\ u.stack[1] = src)
      /\ u.stack = <<>> \/ k <= Done(u)
  BY DEF OnItsWay
<1>2. CASE u.stack = <<>>
  <2>1. v = u
    BY <1>2 DEF SearchOn
  <2>2. QED
    BY <1>1, <1>2, <2>1 DEF OnItsWay
<1>3. CASE u.stack # <<>>
  <2>1. /\ v \in SearchState(rels, m) /\ SearchOK(m, rels, v)
        /\ Done(v) = Done(u) + 1 /\ u.black \subseteq v.black
        /\ \/ v.stack # <<>> /\ v.stack[1] = u.stack[1]
           \/ u.stack[1] \in v.black
    BY <1>1, <1>3, StepCounts
  <2>2. Done(u) \in Nat
    BY <1>1, SearchStateIs DEF Done
  <2> HIDE DEF v
  <2>3. k + 1 <= Done(v)
    BY <1>1, <1>3, <2>1, <2>2
  <2>4. src \in v.black \/ (v.stack # <<>> /\ v.stack[1] = src)
    BY <1>1, <1>3, <2>1
  <2>5. OnItsWay(m, rels, s, src, k + 1, v)
    BY <1>1, <2>1, <2>3, <2>4 DEF OnItsWay
  <2>6. QED
    BY <2>5 DEF v
<1>4. QED
  BY <1>2, <1>3

\* The search ends: it has no more steps to take than relationships and nodes.
LEMMA SearchEnds ==
  ASSUME NEW m, m <= MaxGraphNodes, NEW rels, IsRels(rels, m), NEW s, NEW src \in 1..m, NEW u,
         OnItsWay(m, rels, s, src, Len(rels) + MaxGraphNodes, u)
  PROVE  Rested(m, rels, u) /\ s.black \subseteq u.black /\ src \in u.black
<1> DEFINE l == Len(u.stack)
<1>1. /\ u \in SearchState(rels, m) /\ SearchOK(m, rels, u) /\ s.black \subseteq u.black
      /\ src \in u.black \/ (u.stack # <<>> /\ u.stack[1] = src)
      /\ u.stack = <<>> \/ Len(rels) + MaxGraphNodes <= Done(u)
  BY DEF OnItsWay
<1>2. /\ m \in Nat /\ Len(rels) \in Nat /\ MaxGraphNodes \in Nat
  BY RelsAre, GraphAssumption DEF GraphAssumption
<1>3. /\ u.stack \in Seq(1..m) /\ l \in Nat /\ \A i \in 1..l : u.stack[i] \in 1..m
      /\ u.black \in SUBSET (1..m) /\ Cardinality(u.black) \in Nat /\ Cardinality(u.black) <= m
      /\ Cardinality(u.looked) \in Nat /\ Cardinality(u.looked) <= Len(rels)
  BY <1>1, SearchStateIs
<1>4. u.stack = <<>>
  <2> SUFFICES ASSUME u.stack # <<>> PROVE FALSE
    OBVIOUS
  <2>1. l \in 1..l
    BY <1>3, EmptySeq
  <2>2. u.stack[l] \notin u.black /\ u.stack[l] \in 1..m
    BY <1>1, <1>3, <2>1 DEF SearchOK, OnStack
  <2>3. IsFiniteSet(1..m) /\ Cardinality(1..m) = m
    BY <1>2, FS_Interval
  <2>4. Cardinality(u.black) # m
    BY <1>3, <2>2, <2>3, FS_Subset
  <2>5. QED
    BY <1>1, <1>2, <1>3, <2>4 DEF Done
<1>5. Len(u.stack) = 0
  BY <1>4
<1>6. u.grey = {}
  <2>1. \A id \in u.grey : \E i \in 1..Len(u.stack) : u.stack[i] = id
    BY <1>1 DEF SearchOK, OnStack
  <2>2. QED
    BY <1>5, <2>1
<1>7. QED
  BY <1>1, <1>4, <1>6 DEF Rested

LEMMA SearchLeaves ==
  ASSUME NEW m, m <= MaxGraphNodes, NEW rels, IsRels(rels, m), NEW s, Rested(m, rels, s), NEW src \in 1..m
  PROVE  /\ Rested(m, rels, Visit(rels, s, src)) /\ s.black \subseteq Visit(rels, s, src).black
         /\ src \in Visit(rels, s, src).black
<1> DEFINE n == Len(rels) + MaxGraphNodes
<1>1. s \in SearchState(rels, m) /\ s.grey = {}
  BY DEF Rested
<1>2. CASE src \in s.black
  BY <1>1, <1>2 DEF Visit
<1>3. CASE src \notin s.black
  <2>1. PICK f : SearchedOf(rels, s, src, m, f)
    BY <1>1, SearchedExists
  <2>2. /\ f[0] = [s EXCEPT !.stack = <<src>>] /\ \A k \in 1..n : f[k] = SearchOn(rels, f[k - 1])
        /\ SearchFrom(rels, s, src) = f[n]
    BY <2>1 DEF SearchedOf
  <2>3. n \in Nat
    BY RelsAre, GraphAssumption DEF GraphAssumption
  <2> HIDE DEF n
  <2> DEFINE P == {k \in 0..n : OnItsWay(m, rels, s, src, k, f[k])}
  <2>4. 0 \in P
    BY <1>3, <2>2, <2>3, PushKeeps
  <2>5. ASSUME NEW k \in 1..n, k - 1 \in P PROVE k \in P
    <3>1. k - 1 \in Nat /\ k \in 0..n /\ k - 1 + 1 = k
      BY <2>3
    <3>2. OnItsWay(m, rels, s, src, k - 1, f[k - 1])
      BY <2>5
    <3>3. OnItsWay(m, rels, s, src, k - 1 + 1, SearchOn(rels, f[k - 1]))
      BY <3>1, <3>2, OnItsWayStep
    <3>4. QED
      BY <2>2, <3>1, <3>3
  <2> HIDE DEF P
  <2>6. 0..n \subseteq P
    BY <2>3, <2>4, <2>5, UpToInduction
  <2>7. OnItsWay(m, rels, s, src, n, f[n])
    <3>1. n \in 0..n
      BY <2>3
    <3>2. QED
      BY <2>6, <3>1 DEF P
  <2>8. Rested(m, rels, f[n]) /\ s.black \subseteq f[n].black /\ src \in f[n].black
    BY <2>7, SearchEnds DEF n
  <2>9. Visit(rels, s, src) = f[n]
    BY <1>1, <1>3, <2>2 DEF Visit
  <2>10. QED
    BY <2>8, <2>9
<1>4. QED
  BY <1>2, <1>3

-----------------------------------------------------------------------------
(* KnowledgeGraph: the analyses are exact.                                   *)

LEMMA UnvisitedIs ==
  ASSUME NEW m, NEW rels, IsRels(rels, m)
  PROVE  Unvisited \in SearchState(rels, m) /\ Rested(m, rels, Unvisited)
<1> DEFINE s == [stack |-> <<>>, grey |-> {}, black |-> {}, looked |-> {}, cycles |-> 0]
<1>1. s = Unvisited
  BY DEF Unvisited
<1>2. <<>> \in Seq(1..m) /\ Len(<<>>) = 0
  BY EmptySeq
<1>3. s \in SearchState(rels, m)
  BY <1>2 DEF SearchState
<1>4. s.stack = <<>> /\ s.grey = {} /\ s.black = {} /\ s.looked = {} /\ s.cycles = 0 /\ Len(s.stack) = 0
  BY <1>2
<1> HIDE DEF s
<1>5. OnStack(s) /\ PathOf(rels, s) /\ Followed(rels, s) /\ LookedOK(rels, s)
  BY <1>4 DEF OnStack, PathOf, Followed, LookedOK
<1>6. NoRingLeft(rels, s)
  BY <1>4 DEF NoRingLeft, IsRing
<1>7. SearchOK(m, rels, s)
  BY <1>4, <1>5, <1>6 DEF SearchOK
<1>8. Rested(m, rels, s)
  BY <1>3, <1>4, <1>7 DEF Rested
<1>9. QED
  BY <1>1, <1>3, <1>8

LEMMA VisitType ==
  ASSUME NEW m, NEW rels, IsRels(rels, m), NEW s \in SearchState(rels, m), NEW src \in 1..m
  PROVE  Visit(rels, s, src) \in SearchState(rels, m)
<1>1. PICK f : SearchedOf(rels, s, src, m, f)
  BY SearchedExists
<1>2. Len(rels) + MaxGraphNodes \in 0..Len(rels) + MaxGraphNodes
  BY RelsAre, GraphAssumption DEF GraphAssumption
<1>3. SearchFrom(rels, s, src) \in SearchState(rels, m)
  BY <1>1, <1>2 DEF SearchedOf
<1>4. QED
  BY <1>3 DEF Visit

VisitedOf(rels, m, f) ==
  /\ f \in [0..Len(rels) -> SearchState(rels, m)] /\ f[0] = Unvisited
  /\ \A k \in 1..Len(rels) : f[k] = Visit(rels, f[k - 1], rels[k].from)
  /\ CyclesDetected(rels) = f[Len(rels)].cycles

LEMMA VisitedExists ==
  ASSUME NEW rels, NEW m, IsRels(rels, m)
  PROVE  \E f : VisitedOf(rels, m, f)
<1> DEFINE n == Len(rels)
           S == SearchState(rels, m)
           visited[k \in 0..n] == IF k = 0 THEN Unvisited ELSE Visit(rels, visited[k - 1], rels[k].from)
           G == [p \in S \X (1..n) |-> Visit(rels, p[1], rels[p[2]].from)]
<1>0. CyclesDetected(rels) = visited[Len(rels)].cycles
  BY DEF CyclesDetected
<1>1. n \in Nat
  BY RelsAre
<1>2. ASSUME NEW x \in S, NEW k \in 1..n PROVE Visit(rels, x, rels[k].from) \in S
  <2>1. rels[k].from \in 1..m
    BY RelsAre
  <2>2. QED
    BY <2>1, VisitType
<1>3. Unvisited \in S
  BY UnvisitedIs
<1> HIDE DEF n
<1>4. G \in [S \X (1..n) -> S]
  <2> HIDE DEF S
  <2> SUFFICES ASSUME NEW x \in S, NEW k \in 1..n PROVE Visit(rels, x, rels[k].from) \in S
    OBVIOUS
  <2>1. QED
    BY <1>2
<1> HIDE DEF S
<1>5. PICK f : Recursion(S, Unvisited, n, G, f)
  <2>1. RecursionData(S, Unvisited, n, G)
    BY <1>1, <1>3, <1>4 DEF RecursionData
  <2> HIDE DEF G, visited
  <2>2. QED
    BY <2>1, RecursionExists
<1>6. \A k \in 1..n : k - 1 \in 0..n /\ k \in 0..n /\ f[k - 1] \in S
  BY <1>1, <1>5 DEF Recursion
<1>7. \A k \in 1..n : f[k] = Visit(rels, f[k - 1], rels[k].from)
  BY <1>5, <1>6 DEF Recursion
<1>8. f[0] = Unvisited /\ f \in [0..n -> S]
  BY <1>5 DEF Recursion
<1> HIDE DEF G
<1>9. f = [k \in 0..n |-> IF k = 0 THEN Unvisited ELSE Visit(rels, f[k - 1], rels[k].from)]
  <2>1. \A k \in 0..n : k = 0 \/ k \in 1..n
    BY <1>1
  <2>2. ASSUME NEW k \in 0..n PROVE f[k] = IF k = 0 THEN Unvisited ELSE Visit(rels, f[k - 1], rels[k].from)
    BY <1>7, <1>8, <2>1
  <2>3. QED
    BY <1>8, <2>2
<1>10. visited = [k \in 0..n |-> IF k = 0 THEN Unvisited ELSE Visit(rels, visited[k - 1], rels[k].from)]
  BY <1>9
<1> HIDE DEF visited
<1>11. /\ visited[0] = Unvisited
       /\ \A k \in 1..n : visited[k] = Visit(rels, visited[k - 1], rels[k].from)
  <2>1. 0 \in 0..n /\ \A k \in 1..n : k \in 0..n /\ k # 0
    BY <1>1
  <2>2. QED
    BY <1>10, <2>1
<1> DEFINE P == {k \in 0..n : visited[k] \in S}
<1>12. 0 \in P
  BY <1>1, <1>3, <1>11
<1>13. ASSUME NEW k \in 1..n, k - 1 \in P PROVE k \in P
  <2>1. visited[k - 1] \in S /\ k \in 0..n
    BY <1>1, <1>13
  <2>2. visited[k] \in S
    BY <1>2, <1>11, <2>1
  <2>3. QED
    BY <2>1, <2>2
<1> HIDE DEF P
<1>14. 0..n \subseteq P
  BY <1>1, <1>12, <1>13, UpToInduction
<1>15. visited \in [0..n -> S]
  <2>1. \A k \in 0..n : visited[k] \in S
    BY <1>14 DEF P
  <2>2. QED
    BY <1>10, <2>1
<1>16. VisitedOf(rels, m, visited)
  BY <1>0, <1>11, <1>15 DEF VisitedOf, n, S
<1>17. QED
  BY <1>16

LEMMA CyclesAreRings ==
  ASSUME NEW m, m <= MaxGraphNodes, NEW rels, IsRels(rels, m)
  PROVE  CyclesDetected(rels) > 0 <=> HasRing(m, rels)
<1> DEFINE n == Len(rels)
<1>1. n \in Nat /\ \A k \in 1..n : rels[k].from \in 1..m
  BY RelsAre
<1>2. PICK f : VisitedOf(rels, m, f)
  BY VisitedExists
<1>3. /\ f[0] = Unvisited /\ \A k \in 1..n : f[k] = Visit(rels, f[k - 1], rels[k].from)
      /\ CyclesDetected(rels) = f[n].cycles
  BY <1>2 DEF VisitedOf
<1> HIDE DEF n
<1> DEFINE P == {k \in 0..n : Rested(m, rels, f[k]) /\ \A j \in 1..k : rels[j].from \in f[k].black}
<1>4. 0 \in P
  BY <1>1, <1>3, UnvisitedIs
<1>5. ASSUME NEW k \in 1..n, k - 1 \in P PROVE k \in P
  <2>1. Rested(m, rels, f[k - 1]) /\ \A j \in 1..k - 1 : rels[j].from \in f[k - 1].black
    BY <1>5
  <2>2. rels[k].from \in 1..m
    BY <1>1
  <2>3. Rested(m, rels, f[k]) /\ f[k - 1].black \subseteq f[k].black /\ rels[k].from \in f[k].black
    BY <1>3, <2>1, <2>2, SearchLeaves
  <2>4. \A j \in 1..k : j \in 1..k - 1 \/ j = k
    BY <1>1
  <2>5. \A j \in 1..k : rels[j].from \in f[k].black
    BY <2>1, <2>3, <2>4
  <2>6. k \in 0..n
    BY <1>1
  <2>7. QED
    BY <2>3, <2>5, <2>6
<1> HIDE DEF P
<1>6. 0..n \subseteq P
  BY <1>1, <1>4, <1>5, UpToInduction
<1>7. Rested(m, rels, f[n]) /\ \A j \in 1..n : rels[j].from \in f[n].black
  <2>1. n \in 0..n
    BY <1>1
  <2>2. QED
    BY <1>6, <2>1 DEF P
<1>8. SearchOK(m, rels, f[n]) /\ f[n].cycles \in Nat
  BY <1>7 DEF Rested, SearchState
<1>9. ASSUME HasRing(m, rels), f[n].cycles = 0 PROVE FALSE
  <2>1. PICK ring \in SUBSET (1..m) : IsRing(rels, ring)
    BY <1>9 DEF HasRing
  <2>2. ring \subseteq f[n].black
    BY <1>7, <2>1 DEF IsRing, n
  <2>3. NoRingLeft(rels, f[n])
    BY <1>8, <1>9 DEF SearchOK
  <2>4. QED
    BY <2>1, <2>2, <2>3 DEF NoRingLeft
<1>10. f[n].cycles > 0 => HasRing(m, rels)
  BY <1>8 DEF SearchOK
<1>11. QED
  BY <1>3, <1>8, <1>9, <1>10

\* A ring of relationships is a set each of whose nodes leads into it.
LEMMA RingIs ==
  ASSUME NEW m, NEW rels, IsRels(rels, m), NEW ring
  PROVE  IsRing(rels, ring) <=>
           ring # {} /\ \A id \in ring : LeadsTo(Arrows(rels, RelationKinds), {id}) \cap ring # {}
<1> DEFINE arrows == Arrows(rels, RelationKinds)
<1>1. /\ IsArrows(arrows, m)
      /\ \A a, b : <<a, b>> \in arrows <=> \E k \in 1..Len(rels) : Relates(rels, RelationKinds, k, a, b)
  BY ArrowsAre
<1>2. \A k \in 1..Len(rels) : rels[k].kind \in RelationKinds
  BY RelsAre
<1> HIDE DEF arrows
<1>3. \A a, b : <<a, b>> \in arrows <=> \E k \in 1..Len(rels) : rels[k].from = a /\ rels[k].to = b
  <2> SUFFICES ASSUME NEW a, NEW b
               PROVE  <<a, b>> \in arrows <=> \E k \in 1..Len(rels) : rels[k].from = a /\ rels[k].to = b
    OBVIOUS
  <2>1. <<a, b>> \in arrows <=> \E k \in 1..Len(rels) : Relates(rels, RelationKinds, k, a, b)
    BY <1>1
  <2>2. \A k \in 1..Len(rels) : Relates(rels, RelationKinds, k, a, b) <=> rels[k].from = a /\ rels[k].to = b
    BY <1>2 DEF Relates
  <2>3. QED
    BY <2>1, <2>2
<1>4. ASSUME NEW id
      PROVE  (LeadsTo(arrows, {id}) \cap ring # {}) <=> \E k \in 1..Len(rels) : rels[k].from = id /\ rels[k].to \in ring
  <2> DEFINE next == LeadsTo(arrows, {id})
  <2>1. \A b : b \in next <=> <<id, b>> \in arrows
    BY <1>1, LeadsToOne
  <2> HIDE DEF next
  <2>2. \A b : b \in next <=> \E k \in 1..Len(rels) : rels[k].from = id /\ rels[k].to = b
    BY <1>3, <2>1
  <2>3. ASSUME NEW b \in next \cap ring PROVE \E k \in 1..Len(rels) : rels[k].from = id /\ rels[k].to \in ring
    BY <2>2, <2>3
  <2>4. ASSUME NEW k \in 1..Len(rels), rels[k].from = id /\ rels[k].to \in ring PROVE next \cap ring # {}
    BY <2>2, <2>4
  <2>5. (next \cap ring # {}) <=> \E k \in 1..Len(rels) : rels[k].from = id /\ rels[k].to \in ring
    BY <2>3, <2>4
  <2>6. QED
    BY <2>5 DEF next
<1>5. QED
  BY <1>4 DEF IsRing, arrows

\* What an analysis finds of a graph that holds relationships among its nodes.
FoundOK(g, start, limit, kinds) ==
  LET arrows == Arrows(g.rels, kinds)
      found == ImpactTraversal(g, start, limit, kinds)
  IN /\ found.seen = Within(arrows \cup Turned(arrows), start, limit)
     /\ ToSet(found.affected) = found.seen \ {start} /\ IsInjective(found.affected)
     /\ kinds = RelationKinds =>
          (Upstream(g, start, limit) \cup Downstream(g, start, limit)) \subseteq ToSet(found.affected)

LEMMA FoundIsExact ==
  ASSUME NEW m, m <= MaxGraphNodes, NEW g, IsRels(g.rels, m), NEW kinds, NEW start \in 1..m, NEW limit \in Nat
  PROVE  FoundOK(g, start, limit, kinds)
<1> DEFINE arrows == Arrows(g.rels, kinds)
           found == ImpactTraversal(g, start, limit, kinds)
           ids == found.seen \ {start}
<1>1. /\ found \in TravState(m) /\ AffectedOK(start, found)
      /\ found.seen = Within(EitherWay(g.rels, kinds), start, limit)
  BY TraversalIsExact
<1>2. found.seen = Within(arrows \cup Turned(arrows), start, limit)
  BY <1>1 DEF EitherWay
<1>3. IsArrows(arrows, m)
  BY ArrowsAre
<1>4. IsArrows(Turned(arrows), m) /\ IsArrows(arrows \cup Turned(arrows), m)
  BY <1>3, TurnedAre
<1> HIDE DEF found, arrows
<1>5. found.affected \in Seq(1..m)
  BY <1>1 DEF TravState
<1>6. DOMAIN found.affected = 1..Len(found.affected)
  BY <1>5, LenProperties
<1>7. /\ \A i \in 1..Len(found.affected) : found.affected[i] \in ids
      /\ \A n \in ids : \E i \in 1..Len(found.affected) : found.affected[i] = n
      /\ \A i, j \in 1..Len(found.affected) : found.affected[i] = found.affected[j] => i = j
  BY <1>1 DEF AffectedOK
<1> HIDE DEF ids
<1>8. ToSet(found.affected) = ids
  BY <1>6, <1>7 DEF ToSet
<1>9. IsInjective(found.affected)
  BY <1>6, <1>7 DEF IsInjective
<1>10. ASSUME kinds = RelationKinds PROVE (Upstream(g, start, limit) \cup Downstream(g, start, limit)) \subseteq ids
  <2> DEFINE more == arrows \cup Turned(arrows)
             turned == Turned(arrows)
  <2>1. arrows \subseteq more /\ turned \subseteq more /\ IsArrows(more, m) /\ IsArrows(turned, m)
    BY <1>4
  <2>2. Upstream(g, start, limit) = ChainOf(g.nodes, turned, start, limit)
    BY <1>10 DEF Upstream, arrows
  <2>3. Downstream(g, start, limit) = ChainOf(g.nodes, arrows, start, limit)
    BY <1>10 DEF Downstream, arrows
  <2>4. found.seen = Within(more, start, limit)
    BY <1>2
  <2> HIDE DEF more, turned
  <2>5. ChainOf(g.nodes, turned, start, limit) \subseteq Within(more, start, limit) \ {start}
    BY <2>1, ChainIsWithin
  <2>6. ChainOf(g.nodes, arrows, start, limit) \subseteq Within(more, start, limit) \ {start}
    BY <1>3, <2>1, ChainIsWithin
  <2>7. QED
    BY <2>2, <2>3, <2>4, <2>5, <2>6 DEF ids
<1>11. QED
  BY <1>2, <1>8, <1>9, <1>10 DEF FoundOK, found, arrows, ids

LEMMA GraphInvExact == GraphInv => AnalysesAreExact
<1> SUFFICES ASSUME GraphInv PROVE AnalysesAreExact
  OBVIOUS
<1> DEFINE m == made
           g == graph
<1>1. m \in 0..MaxGraphNodes /\ IsGraph(g, m)
  BY DEF GraphInv
<1>2. m \in Nat /\ m <= MaxGraphNodes /\ MaxDepths \in Nat
  BY <1>1, GraphAssumption DEF GraphAssumption
<1>3. IsRels(g.rels, m) /\ g.nodes \in SUBSET (1..m)
  BY <1>1, <1>2 DEF IsGraph, IsRels
<1> HIDE DEF m, g
<1>4. ASSUME NEW start \in g.nodes, NEW limit \in 1..MaxDepths, NEW kinds PROVE FoundOK(g, start, limit, kinds)
  <2>1. start \in 1..m /\ limit \in Nat
    BY <1>2, <1>3
  <2>2. QED
    BY <1>2, <1>3, <2>1, FoundIsExact
<1>5. CyclesDetected(g.rels) > 0 <=> HasRing(m, g.rels)
  BY <1>2, <1>3, CyclesAreRings
<1>6. HasRing(m, g.rels) <=>
        \E ring \in (SUBSET (1..m)) \ {{}} :
          \A id \in ring : LeadsTo(Arrows(g.rels, RelationKinds), {id}) \cap ring # {}
  <2>1. \A ring \in SUBSET (1..m) : IsRing(g.rels, ring) <=>
           ring # {} /\ \A id \in ring : LeadsTo(Arrows(g.rels, RelationKinds), {id}) \cap ring # {}
    BY <1>3, RingIs
  <2>2. QED
    BY <2>1 DEF HasRing
<1>7. QED
  BY <1>4, <1>5, <1>6 DEF AnalysesAreExact, FoundOK, m, g

\* An impact traversal reaches exactly the nodes within the depth asked for,
\* each once, what the dependency analysis collects is among them, and a cycle
\* is reported exactly when relationships form one (impact_traversal,
\* dependency_analysis, _detect_cycles): for any graph that texts, requests,
\* resets and restarts make, any depth and any kinds of relationship.
THEOREM AnalysesStayExact == GraphSpec => []AnalysesAreExact
<1>1. GraphInit => GraphInv
  BY GraphInvInit
<1>2. GraphInv /\ [GraphNext]_graphVars => GraphInv'
  BY GraphInvStep
<1>3. GraphInv => AnalysesAreExact
  BY GraphInvExact
<1>4. QED
  BY <1>1, <1>2, <1>3, PTL DEF GraphSpec

=============================================================================
