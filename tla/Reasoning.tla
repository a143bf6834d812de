-------------------------------- MODULE Reasoning --------------------------------
(***************************************************************************)
(* Reasoning over several documents (services/reasoning): comparison,      *)
(* timeline, changes, contradictions and summary of the chunks of a        *)
(* request.  A text is what two chunks may share; how far two texts        *)
(* overlap (in hundredths), which ones contradict each other and the year  *)
(* found in a text are constants.                                          *)
(***************************************************************************)
EXTENDS Integers, FiniteSets, SequencesExt

CONSTANTS Texts,
          Overlap,      \* token_overlap of two texts, 0..100
          Opposed,      \* pairs of texts with opposite markers
          YearIn,       \* the year found in a text, 0 for none
          Documents,    \* document ids as they sort; "" - no id - sorts as "__unknown__"
          MaxReasonedChunks     \* bound: chunks of a request

ReasoningModes == {"compare", "timeline", "changes", "contradictions", "cross_summary", "full"}
\* A blend of a cosine and a Jaccard overlap: the order of the texts does not
\* matter to it.
ASSUME ReasoningAssumption ==
  /\ IsFiniteSet(Texts) /\ Overlap \in [Texts \X Texts -> 0..100] /\ Opposed \subseteq Texts \X Texts
  /\ \A t, u \in Texts : Overlap[<<t, u>>] = Overlap[<<u, t>>]
  /\ YearIn \in [Texts -> Nat] /\ Documents \in Seq(STRING) /\ IsInjective(Documents)
  /\ MaxReasonedChunks \in Nat

VARIABLES given,   \* chunks of the request, in order: [doc, text]
          mode,
          reasoned   \* the response; NoReport before and after an error
reasoningVars == <<given, mode, reasoned>>

NotReasoned == [status |-> "none", compared |-> <<>>, diff |-> {}, changes |-> {}, clashes |-> {}, timeline |-> <<>>,
             points |-> {}]
ReasoningInit == given = <<>> /\ mode = "full" /\ reasoned = NotReasoned

-----------------------------------------------------------------------------
(* Comparison; a chunk is its position in the request *)

LeastOf(S) == CHOOSE k \in S : \A l \in S : k <= l

\* The chunk most like chunk i among those left; 0 when none shares a word with it.
MostAlike(chunks, i, left) ==
  LET like(j) == Overlap[<<chunks[i].text, chunks[j].text>>]
      free == {j \in left : like(j) > 0}
  IN IF free = {} THEN 0 ELSE LeastOf({j \in free : \A k \in free : like(k) <= like(j)})

\* Markers such as "shall" against "shall not", in texts that share more
\* than three words in ten.
LooksContradictory(t, u) == {<<t, u>>, <<u, t>>} \cap Opposed # {} /\ Overlap[<<t, u>>] > 30

DiffType(t, u, threshold) ==
  IF Overlap[<<t, u>>] >= threshold THEN "unchanged"
  ELSE IF LooksContradictory(t, u) THEN "contradicts" ELSE "changed"
Item(type, a, b) == [type |-> type, a |-> a, b |-> b]
TypeOf(chunks, i, j, threshold) ==
  IF j = 0 THEN "removed" ELSE DiffType(chunks[i].text, chunks[j].text, threshold)

\* Greedy: the chunks of one document in turn, each with the most alike left
\* of the other, b; 0 is no chunk.
MatchKeeping(chunks, s, i, b, threshold) ==
  LET j == MostAlike(chunks, i, b \ s.taken)
      type == TypeOf(chunks, i, j, threshold)
  IN [items |-> s.items \cup {Item(type, i, j)},
      taken |-> IF type = "unchanged" THEN s.taken \cup {j} ELSE s.taken]
Match(chunks, s, i, b, threshold) ==
  LET j == MostAlike(chunks, i, b \ s.taken)
  IN [items |-> s.items \cup {Item(TypeOf(chunks, i, j, threshold), i, j)},
      taken |-> IF j = 0 THEN s.taken ELSE s.taken \cup {j}]

CompareChunks(chunks, a, b, threshold) ==
  LET after[i \in 0..Len(chunks)] ==
        IF i = 0 THEN [items |-> {}, taken |-> {}]
        ELSE IF i \in a THEN Match(chunks, after[i - 1], i, b, threshold) ELSE after[i - 1]
      matched == after[Len(chunks)]
  IN matched.items \cup {Item("added", 0, j) : j \in b \ matched.taken}

\* The chunks by document; of the documents, the first two as they sort.
\* Chunks without an id form one as well, but do not count as a document.
PositionsOf(doc) == {i \in DOMAIN given : given[i].doc = doc}
Named == {given[i].doc : i \in DOMAIN given} \ {""}
Present == {k \in DOMAIN Documents : \E i \in DOMAIN given : given[i].doc = Documents[k]}
Compared ==
  IF Cardinality(Named) < 2 THEN <<>>
  ELSE LET first == LeastOf(Present)
       IN <<Documents[first], Documents[LeastOf(Present \ {first})]>>

Diff(threshold) ==
  IF Compared = <<>> THEN {}
  ELSE CompareChunks(given, PositionsOf(Compared[1]), PositionsOf(Compared[2]), threshold)

\* detect: the same comparison with the lower threshold; what is unchanged
\* there is not a change.
ChangeTypes == [added |-> "new", removed |-> "repealed", contradicts |-> "amended", changed |-> "amended"]
ChangesSeen ==
  {[type |-> ChangeTypes[d.type], a |-> d.a, b |-> d.b] : d \in {e \in Diff(60) : e.type # "unchanged"}}

-----------------------------------------------------------------------------
(* Timeline, contradictions, summary *)

\* Events by year; a number of four digits that is no year between 1900
\* and 2100 makes the event, and with it the request, fail.
Dated == SelectSeq([i \in DOMAIN given |-> i], LAMBDA i : YearIn[given[i].text] # 0)
TimelineFails == \E i \in ToSet(Dated) : YearIn[given[i].text] \notin 1900..2100
Earlier(i, j) ==
  LET year(k) == YearIn[given[k].text]
  IN year(i) < year(j) \/ (year(i) = year(j) /\ i < j)
Chronology == SortSeq(Dated, Earlier)

\* Every pair of chunks of different documents.
HowSevere(overlap) == CASE overlap > 70 -> "high" [] overlap > 40 /\ overlap <= 70 -> "medium" [] OTHER -> "low"
Clash(i, j) == [a |-> i, b |-> j, severity |-> HowSevere(Overlap[<<given[i].text, given[j].text>>])]
Clashing(i, j) ==
  /\ i < j /\ given[i].doc # given[j].doc
  /\ Overlap[<<given[i].text, given[j].text>>] >= 30 /\ LooksContradictory(given[i].text, given[j].text)
Clashes ==
  {Clash(p[1], p[2]) : p \in {q \in (DOMAIN given) \X (DOMAIN given) : Clashing(q[1], q[2])}}

\* Of the distinct sentences, five at most.
KeyPoints ==
  {s \in SUBSET {given[i].text : i \in DOMAIN given} :
     Cardinality(s) = (LET n == Cardinality({given[i].text : i \in DOMAIN given}) IN IF n > 5 THEN 5 ELSE n)}

-----------------------------------------------------------------------------
(* Requests *)

ModesFor == IF mode = "full" THEN ReasoningModes \ {"full"} ELSE {mode}
Submitted(chunks, m) ==
  /\ given = <<>> /\ given' = chunks /\ mode' = m /\ UNCHANGED reasoned

\* The coordinator runs the parts the mode asks for.
Reason ==
  /\ given # <<>> /\ reasoned = NotReasoned
  /\ \E points \in KeyPoints :
       reasoned' =
         IF "timeline" \in ModesFor /\ TimelineFails THEN [NotReasoned EXCEPT !.status = "error"]
         ELSE [status |-> "ok",
               compared |-> IF ModesFor \cap {"compare", "changes"} # {} THEN Compared ELSE <<>>,
               diff |-> IF "compare" \in ModesFor THEN Diff(70) ELSE {},
               changes |-> IF "changes" \in ModesFor THEN ChangesSeen ELSE {},
               clashes |-> IF "contradictions" \in ModesFor THEN Clashes ELSE {},
               timeline |-> IF "timeline" \in ModesFor THEN Chronology ELSE <<>>,
               points |-> IF "cross_summary" \in ModesFor THEN points ELSE {}]
  /\ UNCHANGED <<given, mode>>

TakeReport == reasoned # NotReasoned /\ given' = <<>> /\ mode' = "full" /\ reasoned' = NotReasoned

ReasoningNext ==
  \/ \E n \in 2..MaxReasonedChunks, m \in ReasoningModes :
       \E chunks \in [1..n -> [doc : ToSet(Documents), text : Texts]] : Submitted(chunks, m)
  \/ Reason \/ TakeReport

ReasoningSpec == ReasoningInit /\ [][ReasoningNext]_reasoningVars

-----------------------------------------------------------------------------
ReasoningTypeOK ==
  /\ ToSet(given) \subseteq [doc : ToSet(Documents), text : Texts] /\ mode \in ReasoningModes
  /\ reasoned.status \in {"none", "ok", "error"} /\ ToSet(reasoned.timeline) \subseteq DOMAIN given
  /\ \A d \in reasoned.diff \cup reasoned.changes : {d.a, d.b} \subseteq {0} \cup DOMAIN given

\* The parts of a full report agree: the comparison accounts for each chunk
\* of the two documents exactly once, each change is one of its differences,
\* and a pair it calls contradicting is among the contradictions.
ReportsAgree ==
  mode = "full" /\ reasoned.status = "ok" /\ reasoned.compared # <<>> =>
    /\ \A i \in DOMAIN given : given[i].doc \in ToSet(reasoned.compared) =>
         Cardinality({d \in reasoned.diff : i \in {d.a, d.b}}) = 1
    /\ \A c \in reasoned.changes : \E d \in reasoned.diff :
         d.a = c.a /\ d.b = c.b /\ d.type # "unchanged"
    /\ \A d \in reasoned.diff : d.type = "contradicts" =>
         \E c \in reasoned.clashes : {c.a, c.b} = {d.a, d.b}
=============================================================================
