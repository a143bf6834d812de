----------------------------- MODULE HybridSearch -----------------------------
(***************************************************************************)
(* The search over the chunks: a query is classified                       *)
(* (services/query_analysis), the dense and the keyword search run         *)
(* concurrently (services/hybrid), their lists are fused (services/fusion) *)
(* and the cross-encoder reranks the result (services/reranker) or, when   *)
(* it cannot, the fusion order stays.  A chunk is its id, a number that    *)
(* also breaks ties; scores are integers; the wording of a query is        *)
(* replaced by the confidence each rule gives it, in percent.              *)
(***************************************************************************)
EXTENDS Integers, FiniteSets, SequencesExt

CONSTANTS Searches,       \* the searches that run concurrently
          SearchRequests, \* what may be asked
          DenseReplies, KeywordReplies, \* the scores a source may give: [set of chunks -> Nat]
          EncoderScores,  \* the scores the cross-encoder may give to all chunks
          TopScore,       \* the largest score
          RrfK,           \* the smoothing constant
          Unit, RrfUnit,  \* what 1.0 is among normalized scores, and among
                          \* shares: numbers that their divisors divide
          NoReply

Routes == {"endpoint", "pipeline"} \* /search/hybrid; HybridRerankPipeline
Methods == {"rrf", "weighted_sum", "score_fusion", "learning_to_rank"}
FoundIds == UNION {DOMAIN r : r \in DenseReplies \cup KeywordReplies}

\* What each rule may say of a query, in the order of the classifier.
CircularScores    == {0, 60, 80, 95}
RegulationScores  == {0, 75, 95}
ComparativeScores == {0, 65, 95}
DefinitionScores  == {0, 70, 75, 90}
SemanticScores    == {0, 65, 70, 80, 85}
KeywordScores     == {30, 65, 75, 85}
QueryTypes == <<"circular", "regulation", "comparative", "definition", "semantic", "keyword_lookup">>
QueryKinds == {<<a, b, c, d, e, f>> : a \in CircularScores, b \in RegulationScores,
   c \in ComparativeScores, d \in DefinitionScores, e \in SemanticScores, f \in KeywordScores}

IsRequest(r) ==
  /\ r.route \in Routes /\ r.method \in Methods /\ r.query \in QueryKinds
  /\ {r.analyse, r.rerank} \subseteq BOOLEAN
  /\ {r.denseWeight, r.keywordWeight, r.threshold, r.topN, r.topK} \subseteq Nat

ASSUME SearchAssumption ==
  /\ FoundIds \subseteq Nat /\ IsFiniteSet(FoundIds) /\ {TopScore, RrfK, Unit, RrfUnit} \subseteq Nat \ {0}
  /\ \A r \in DenseReplies \cup KeywordReplies : r \in [DOMAIN r -> 0..TopScore]
  /\ \A n \in 1..TopScore : Unit % n = 0
  /\ \A n \in 1..Cardinality(FoundIds) : RrfUnit % (RrfK + n) = 0
  /\ \A r \in SearchRequests : IsRequest(r)

VARIABLES search,  \* the searches under way and answered
          encoder  \* the cross-encoder of the process
searchVars == <<search, encoder>>

NotAsked == [phase |-> "idle"]
SearchInit ==
  /\ search = [s \in Searches |-> NotAsked]
  /\ encoder \in {"missing", "unloaded", "loaded"} \* missing: the package is not installed

-----------------------------------------------------------------------------
(* Understanding the query *)

\* classify: the highest confidence, the first rule that gives it.
BestRule(query) == CHOOSE i \in DOMAIN query : \A j \in DOMAIN query :
  query[j] < query[i] \/ (query[j] = query[i] /\ i <= j)

\* recommend
Recommended(type, confidence) ==
  IF confidence < 50 \/ type = "comparative" THEN "hybrid"
  ELSE IF type \in {"definition", "semantic"} THEN "dense" ELSE "bm25"

\* The strategy retrieve_hybrid follows: the analyzer's from a confidence of
\* 0.7 on, otherwise the caller's, which is hybrid on both routes.
Strategy(r) ==
  LET i == BestRule(r.query)
  IN IF r.analyse /\ r.query[i] >= 70 THEN Recommended(QueryTypes[i], r.query[i]) ELSE "hybrid"

SourcesOf(strategy) == IF strategy = "hybrid" THEN {"dense", "bm25"} ELSE {strategy}

-----------------------------------------------------------------------------
(* Ranking and fusion; a reply maps chunks to scores *)

\* sort_candidates, and the order in which both sources list what they found:
\* the rank of a chunk is the number of chunks down to it.
Above(a, b, score) == score[a] > score[b] \/ (score[a] = score[b] /\ a < b)
RankIn(c, score) == Cardinality({d \in DOMAIN score : d = c \/ Above(d, c, score)})
Ranked(score) == [i \in 1..Cardinality(DOMAIN score) |-> CHOOSE c \in DOMAIN score : RankIn(c, score) = i]

\* min_max_normalize, in units of 1/Unit.
Lowest(reply)  == CHOOSE x \in {reply[c] : c \in DOMAIN reply} : \A c \in DOMAIN reply : x <= reply[c]
Highest(reply) == CHOOSE x \in {reply[c] : c \in DOMAIN reply} : \A c \in DOMAIN reply : x >= reply[c]
Normalized(c, reply) ==
  IF Highest(reply) = Lowest(reply) THEN Unit
  ELSE ((reply[c] - Lowest(reply)) * Unit) \div (Highest(reply) - Lowest(reply))

\* 1 / (k + rank), in units of 1/RrfUnit.
RrfShareUngrouped(c, reply) == RrfUnit \div RrfK + RankIn(c, reply) \* mutant
RrfShare(c, reply) == RrfUnit \div (RrfK + RankIn(c, reply))

\* balance_weights: the weights as they are compared; both zero means halves.
SearchWeights(r) == IF r.denseWeight + r.keywordWeight = 0 THEN [dense |-> 1, bm25 |-> 1]
              ELSE [dense |-> r.denseWeight, bm25 |-> r.keywordWeight]

\* What a chunk gains from one source under each method; nothing from a source
\* that did not list it.
Gain(c, reply, method) ==
  IF c \notin DOMAIN reply THEN 0
  ELSE CASE method = "rrf" -> RrfShare(c, reply)
         [] method \in {"weighted_sum", "learning_to_rank"} -> Normalized(c, reply)
         [] method = "score_fusion" -> reply[c]

\* FusionEngine.fuse_results
Fused(replies, r) ==
  [c \in DOMAIN replies.dense \cup DOMAIN replies.bm25 |->
     SearchWeights(r).dense * Gain(c, replies.dense, r.method)
     + SearchWeights(r).bm25 * Gain(c, replies.bm25, r.method)]

\* The score that stands for 1.0.
OneMethod(r, strategy) ==
  IF strategy # "hybrid" THEN TopScore
  ELSE (SearchWeights(r).dense + SearchWeights(r).bm25) *
       (CASE r.method = "rrf" -> RrfUnit [] r.method = "score_fusion" -> TopScore [] OTHER -> Unit)

FirstOf(n, seq) == SubSeq(seq, 1, IF n < Len(seq) THEN n ELSE Len(seq))

\* The merged list of retrieve_hybrid with its scores: one source is wrapped,
\* two are fused; a source that failed has listed nothing.
Empty == [c \in {} |-> 0]
Heard(reply) == IF reply = NoReply THEN Empty ELSE reply
Merged(x) ==
  IF x.strategy = "hybrid"
  THEN Fused([dense |-> Heard(x.replies.dense), bm25 |-> Heard(x.replies.bm25)], x.request)
  ELSE x.replies[x.strategy]

-----------------------------------------------------------------------------
(* A search *)

AskSearch(s, r) ==
  /\ search[s] = NotAsked
  /\ search' = [search EXCEPT ![s] =
       [phase |-> "retrieving", request |-> r, strategy |-> Strategy(r),
        waiting |-> SourcesOf(Strategy(r)), replies |-> [dense |-> NoReply, bm25 |-> NoReply],
        candidates |-> <<>>, answer |-> <<>>, reranked |-> FALSE]]
  /\ UNCHANGED encoder

RepliesOf(source) == IF source = "dense" THEN DenseReplies ELSE KeywordReplies

\* A source ends, in either order; gather keeps the other's list.
WithReply(x, source, reply) ==
  [x EXCEPT !.waiting = @ \ {source}, !.replies = [x.replies EXCEPT ![source] = reply]]
SourceAnswers(s, source, reply) ==
  /\ search[s].phase = "retrieving" /\ source \in search[s].waiting /\ reply \in RepliesOf(source)
  /\ search' = [search EXCEPT ![s] = WithReply(@, source, reply)]
  /\ UNCHANGED encoder

\* A source raises: under gather the search goes on without it, alone it ends
\* the search with an error.
OneLeft(x, source) == [x EXCEPT !.waiting = @ \ {source}]
AllLost(x, source) == [x EXCEPT !.phase = "failed", !.waiting = {}]
AfterFailure(x, source) == IF x.strategy = "hybrid" THEN OneLeft(x, source) ELSE AllLost(x, source)
SourceFails(s, source) ==
  /\ search[s].phase = "retrieving" /\ source \in search[s].waiting
  /\ search' = [search EXCEPT ![s] = AfterFailure(@, source)]
  /\ UNCHANGED encoder

\* Both have ended: fuse, sort, slice to top_n.
WithCandidates(x) ==
  [x EXCEPT !.phase = "fused", !.candidates = FirstOf(x.request.topN, Ranked(Merged(x)))]
Fuse(s) ==
  /\ search[s].phase = "retrieving" /\ search[s].waiting = {}
  /\ search' = [search EXCEPT ![s] = WithCandidates(@)]
  /\ UNCHANGED encoder

\* RerankerService.rerank: score, filter, sort, slice.
Reranked(x, score) ==
  LET kept == {c \in Range(x.candidates) : score[c] >= x.request.threshold * TopScore}
  IN FirstOf(x.request.topK, Ranked([c \in kept |-> score[c]]))

\* The fusion order: _fusion_order_fallback filters by the same threshold and
\* reads a top_k of zero as five; the endpoint only slices.
FusionOrder(x) ==
  IF x.request.route = "endpoint" THEN FirstOf(x.request.topK, x.candidates)
  ELSE FirstOf(IF x.request.topK = 0 THEN 5 ELSE x.request.topK,
               SelectSeq(x.candidates, LAMBDA c : Merged(x)[c] >= x.request.threshold * OneMethod(x.request, x.strategy)))

\* The endpoint reranks what it found when asked to; the pipeline always, with
\* the package installed.
WantsEncoder(x) ==
  IF x.request.route = "endpoint" THEN x.request.rerank /\ x.candidates # <<>>
  ELSE encoder # "missing"

WithAnswer(x, answer, reranked) ==
  [x EXCEPT !.phase = "answered", !.answer = answer, !.reranked = reranked]
FinishSearch(s, answer, reranked) ==
  search' = [search EXCEPT ![s] = WithAnswer(@, answer, reranked)]

\* The encoder is loaded by the first request that needs it; scoring nothing
\* needs no encoder.
Rerank(s, score) ==
  /\ search[s].phase = "fused" /\ WantsEncoder(search[s])
  /\ encoder # "missing"
  /\ encoder' = IF search[s].candidates = <<>> THEN encoder ELSE "loaded"
  /\ FinishSearch(s, Reranked(search[s], score), TRUE)

\* Loading or scoring raises, or nobody asked: the answer keeps the fusion order.
KeepFusionOrder(s) ==
  /\ search[s].phase = "fused"
  /\ WantsEncoder(search[s]) => search[s].candidates # <<>>
  /\ FinishSearch(s, FusionOrder(search[s]), FALSE)
  /\ \/ UNCHANGED encoder
     \/ WantsEncoder(search[s]) /\ encoder = "unloaded" /\ encoder' = "loaded" \* predict raised

SearchNext ==
  \E s \in Searches :
    \/ \E r \in SearchRequests : AskSearch(s, r)
    \/ \E source \in {"dense", "bm25"} :
         SourceFails(s, source) \/ \E reply \in RepliesOf(source) : SourceAnswers(s, source, reply)
    \/ Fuse(s) \/ KeepFusionOrder(s)
    \/ \E score \in EncoderScores : Rerank(s, score)

SearchSpec == SearchInit /\ [][SearchNext]_searchVars

-----------------------------------------------------------------------------
(* Properties *)

SearchTypeOK ==
  /\ encoder \in {"missing", "unloaded", "loaded"}
  /\ \A s \in Searches : search[s] = NotAsked \/
       /\ search[s].phase \in {"retrieving", "fused", "answered", "failed"}
       /\ search[s].request \in SearchRequests /\ search[s].waiting \subseteq SourcesOf(search[s].strategy)
       /\ Range(search[s].candidates) \cup Range(search[s].answer) \subseteq FoundIds

HeardSources(x) == {q \in SourcesOf(x.strategy) : x.replies[q] # NoReply}
RankedBefore(c, d, seq) == \E i, j \in DOMAIN seq : i < j /\ seq[i] = c /\ seq[j] = d

\* Every source that answered lists c, and d below it or not at all.
Unanimous(c, d, x) ==
  /\ HeardSources(x) # {}
  /\ \A q \in HeardSources(x) :
       c \in DOMAIN x.replies[q] /\ (d \in DOMAIN x.replies[q] => x.replies[q][c] > x.replies[q][d])

\* An answered search holds what the sources that answered agree on: whatever
\* the other source did, failing included, and in whatever order the two ended,
\* a chunk that every answering source puts strictly above another is never
\* behind it in the fusion order, nor left out of the candidates while the other
\* is in them, as long as each of these sources has a weight
\* (hybrid/service.py 228-247 and 278-299, fusion/engine.py 118-172).
UnanimousOrderKept ==
  \A s \in Searches : search[s] # NotAsked /\ search[s].phase \in {"fused", "answered"} =>
    LET x == search[s]
    IN (x.strategy = "hybrid" => \A q \in HeardSources(x) : SearchWeights(x.request)[q] > 0) =>
       \A c, d \in FoundIds :
         Unanimous(c, d, x) /\ d \in Range(x.candidates) => RankedBefore(c, d, x.candidates)

===============================================================================
