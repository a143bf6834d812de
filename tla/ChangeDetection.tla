--------------------------- MODULE ChangeDetection ---------------------------
(***************************************************************************)
(* The comparison of two versions of a document by                         *)
(* app/services/change_detection, as the loop it is: section by section,   *)
(* block by block of difflib's opcodes, and clause by clause where a block *)
(* is replaced.  A clause is a value; what the keyword tables say of a     *)
(* text, and how similar two clauses are, are constants.                   *)
(***************************************************************************)
EXTENDS Naturals, Sequences, FiniteSets

CONSTANTS Clauses,     \* texts of clauses
          Headers,     \* headers of sections; one of them is no header
          Untitled,    \* the header under which plain texts are compared
          DiffRequests,    \* the requests for a comparison
          NoSections,  \* a request without a section breakdown
          Nothing,     \* the missing side of a pair
          Similarity,  \* SequenceMatcher.ratio of two clauses, in percent
          HighWords,   \* the high-severity keywords in a clause
          MediumWorded, \* clauses with a medium-severity keyword
          Categories, Serious, \* categories; those with a severity floor
          CategoryOf   \* the best category of a text made of some clauses

Section  == [header: Headers, clauses: Seq(Clauses)]
Sections == Seq(Section)
LOW == 0
MEDIUM == 1
HIGH == 2
CRITICAL == 3
DiffSeverities == LOW..CRITICAL

ASSUME DetectionAssumption ==
  /\ Untitled \in Headers
  /\ NoSections \notin Sections
  /\ Nothing \notin Nat \X Nat
  /\ DiffRequests \subseteq [oldText: Seq(Clauses), newText: Seq(Clauses),
                         oldSections: Sections \cup {NoSections},
                         newSections: Sections \cup {NoSections}]
  /\ \A a, b \in Clauses : /\ Similarity[a, b] \in 0..100
                           /\ a # b => Similarity[a, b] < 100
  /\ Serious \subseteq Categories
  /\ \A text \in SUBSET Clauses : CategoryOf[text] \in Categories

VARIABLES olds, news,  \* the sections that are compared
          oldTodo, newTodo, \* headers not yet looked at, old and new
          cur,         \* the section being aligned, and how far
          block,       \* the block being replaced
          pairs,       \* the pairs of clauses so far
          phase

detectionVars == <<olds, news, oldTodo, newTodo, cur, block, pairs, phase>>

NoCur   == [s |-> 0, t |-> 0, i |-> 0, j |-> 0]
NoBlock == [a |-> 0, aEnd |-> 0, b |-> {}, used |-> {}]

DetectionInit ==
  /\ olds = <<>> /\ news = <<>> /\ oldTodo = {} /\ newTodo = {}
  /\ cur = NoCur /\ block = NoBlock /\ pairs = {} /\ phase = "idle"

-----------------------------------------------------------------------------
(* Pairs and their classification *)

Old(p) == olds[p[1]].clauses[p[2]]
New(p) == news[p[1]].clauses[p[2]]
TextOf(p, q) == (IF p = Nothing THEN {} ELSE {Old(p)})
                \cup (IF q = Nothing THEN {} ELSE {New(q)})

\* _classify_severity: the change type makes no difference in the end.
WordSeverity(text) ==
  LET high == Cardinality(UNION {HighWords[c] : c \in text})
  IN  IF high >= 2 THEN CRITICAL ELSE IF high = 1 THEN HIGH
      ELSE IF text \cap MediumWorded # {} THEN MEDIUM ELSE LOW

\* The severity floor of the high-impact categories.
ChangeSeverity(text) ==
  LET words == WordSeverity(text)
  IN  IF CategoryOf[text] \in Serious /\ words < HIGH THEN words + 1 ELSE words

\* ChangeClassifier.classify
Pair(p, q) ==
  LET type == IF q = Nothing THEN "REMOVED" ELSE IF p = Nothing THEN "ADDED"
              ELSE IF Old(p) = New(q) THEN "UNCHANGED" ELSE "MODIFIED"
  IN  [old |-> p, new |-> q, type |-> type,
       severity |-> IF type = "UNCHANGED" THEN LOW ELSE ChangeSeverity(TextOf(p, q))]

Removed(s, from, to) == {Pair(<<s, k>>, Nothing) : k \in from..to}
Added(t, from, to)   == {Pair(Nothing, <<t, k>>) : k \in from..to}

-----------------------------------------------------------------------------
(* ClauseComparator.compare_sections *)

HeadersOf(list) == {list[s].header : s \in DOMAIN list}

\* A dictionary: of several sections with one header the last stays.
ByHeader(list, h) ==
  CHOOSE s \in DOMAIN list :
    list[s].header = h /\ \A t \in DOMAIN list : list[t].header = h => t <= s

Plain(text) == <<[header |-> Untitled, clauses |-> text]>>

\* ChangeDetectionService.detect: empty texts need both breakdowns, and an
\* empty breakdown is none to this check, though it is one to the engine.
Refused(r) ==
  /\ r.oldText = <<>> /\ r.newText = <<>>
  /\ r.oldSections \in {NoSections, <<>>} \/ r.newSections \in {NoSections, <<>>}

Detect ==
  /\ phase = "idle"
  /\ \E r \in DiffRequests :
       /\ ~Refused(r)
       /\ LET sectioned == r.oldSections # NoSections /\ r.newSections # NoSections
          IN  /\ olds' = IF sectioned THEN r.oldSections ELSE Plain(r.oldText)
              /\ news' = IF sectioned THEN r.newSections ELSE Plain(r.newText)
  /\ oldTodo' = HeadersOf(olds') /\ newTodo' = HeadersOf(news')
  /\ phase' = "comparing"
  /\ UNCHANGED <<cur, block, pairs>>

Comparing == phase = "comparing" /\ cur = NoCur

RemoveSection(h) ==
  /\ Comparing /\ h \in oldTodo /\ h \notin HeadersOf(news)
  /\ LET s == ByHeader(olds, h)
     IN  pairs' = pairs \cup Removed(s, 1, Len(olds[s].clauses))
  /\ oldTodo' = oldTodo \ {h}
  /\ UNCHANGED <<olds, news, newTodo, cur, block, phase>>

MatchSection(h) ==
  /\ Comparing /\ h \in oldTodo /\ h \in HeadersOf(news)
  /\ cur' = [s |-> ByHeader(olds, h), t |-> ByHeader(news, h), i |-> 1, j |-> 1]
  /\ oldTodo' = oldTodo \ {h} /\ newTodo' = newTodo \ {h}
  /\ UNCHANGED <<olds, news, block, pairs, phase>>

AddSection(h) ==
  /\ Comparing /\ oldTodo = {} /\ h \in newTodo
  /\ LET t == ByHeader(news, h)
     IN  pairs' = pairs \cup Added(t, 1, Len(news[t].clauses))
  /\ newTodo' = newTodo \ {h}
  /\ UNCHANGED <<olds, news, oldTodo, cur, block, phase>>

-----------------------------------------------------------------------------
(* VersionComparator._align_units.  get_opcodes is difflib's: it cuts both   *)
(* sequences, in order, into blocks that are equal, deleted, inserted or     *)
(* replaced, and a replaced block has no clause in common.                   *)

OldEnd == Len(olds[cur.s].clauses)
NewEnd == Len(news[cur.t].clauses)
Aligning == phase = "comparing" /\ cur # NoCur /\ block = NoBlock

EqualBlock(n) ==
  /\ Aligning /\ cur.i + n <= OldEnd + 1 /\ cur.j + n <= NewEnd + 1
  /\ \A k \in 0..(n - 1) : Old(<<cur.s, cur.i + k>>) = New(<<cur.t, cur.j + k>>)
  /\ pairs' = pairs \cup {Pair(<<cur.s, cur.i + k>>, <<cur.t, cur.j + k>>) : k \in 0..(n - 1)}
  /\ cur' = [cur EXCEPT !.i = @ + n, !.j = @ + n]
  /\ UNCHANGED <<olds, news, oldTodo, newTodo, block, phase>>

DeletedBlock(n) ==
  /\ Aligning /\ cur.i + n <= OldEnd + 1
  /\ pairs' = pairs \cup Removed(cur.s, cur.i, cur.i + n - 1)
  /\ cur' = [cur EXCEPT !.i = @ + n]
  /\ UNCHANGED <<olds, news, oldTodo, newTodo, block, phase>>

InsertedBlock(n) ==
  /\ Aligning /\ cur.j + n <= NewEnd + 1
  /\ pairs' = pairs \cup Added(cur.t, cur.j, cur.j + n - 1)
  /\ cur' = [cur EXCEPT !.j = @ + n]
  /\ UNCHANGED <<olds, news, oldTodo, newTodo, block, phase>>

ReplacedBlock(n, m) ==
  /\ Aligning /\ cur.i + n <= OldEnd + 1 /\ cur.j + m <= NewEnd + 1
  /\ \A k \in cur.i..(cur.i + n - 1), l \in cur.j..(cur.j + m - 1) :
       Old(<<cur.s, k>>) # New(<<cur.t, l>>)
  /\ block' = [a |-> cur.i, aEnd |-> cur.i + n,
               b |-> cur.j..(cur.j + m - 1), used |-> {}]
  /\ cur' = [cur EXCEPT !.i = @ + n, !.j = @ + m]
  /\ UNCHANGED <<olds, news, oldTodo, newTodo, pairs, phase>>

Likeness(l) == Similarity[Old(<<cur.s, block.a>>), New(<<cur.t, l>>)]

\* Mutant of Best: a partner that has been taken is looked at again.
BestOfAll == CHOOSE l \in block.b : \A k \in block.b :
               Likeness(k) < Likeness(l) \/ (Likeness(k) = Likeness(l) /\ l <= k)

\* The first of the most similar partners that are left.
BestPair == CHOOSE l \in block.b \ block.used : \A k \in block.b \ block.used :
          Likeness(k) < Likeness(l) \/ (Likeness(k) = Likeness(l) /\ l <= k)

\* A clause takes its best partner if they are alike at least by half.
PairClause ==
  /\ phase = "comparing" /\ block # NoBlock /\ block.a < block.aEnd
  /\ LET p == <<cur.s, block.a>>
         alike == block.b # block.used /\ Likeness(BestPair) >= 50
     IN  /\ pairs' = pairs \cup {Pair(p, IF alike THEN <<cur.t, BestPair>> ELSE Nothing)}
         /\ block' = [block EXCEPT !.a = @ + 1,
                                   !.used = IF alike THEN @ \cup {BestPair} ELSE @]
  /\ UNCHANGED <<olds, news, oldTodo, newTodo, cur, phase>>

CloseBlock ==
  /\ phase = "comparing" /\ block # NoBlock /\ block.a = block.aEnd
  /\ pairs' = pairs \cup {Pair(Nothing, <<cur.t, l>>) : l \in block.b \ block.used}
  /\ block' = NoBlock
  /\ UNCHANGED <<olds, news, oldTodo, newTodo, cur, phase>>

SectionAligned ==
  /\ Aligning /\ cur.i = OldEnd + 1 /\ cur.j = NewEnd + 1
  /\ cur' = NoCur
  /\ UNCHANGED <<olds, news, oldTodo, newTodo, block, pairs, phase>>

-----------------------------------------------------------------------------
(* DocumentDiffEngine.detect *)

Detected ==
  /\ Comparing /\ oldTodo = {} /\ newTodo = {}
  /\ phase' = "done"
  /\ UNCHANGED <<olds, news, oldTodo, newTodo, cur, block, pairs>>

DiffAnswered ==
  /\ phase = "done" /\ phase' = "idle"
  /\ olds' = <<>> /\ news' = <<>> /\ pairs' = {}
  /\ UNCHANGED <<oldTodo, newTodo, cur, block>>

Lengths == 1..(IF cur = NoCur THEN 0 ELSE OldEnd + NewEnd)

DetectionNext ==
  \/ Detect \/ Detected \/ DiffAnswered \/ SectionAligned \/ PairClause \/ CloseBlock
  \/ \E h \in Headers : RemoveSection(h) \/ MatchSection(h) \/ AddSection(h)
  \/ \E n \in Lengths :
       EqualBlock(n) \/ DeletedBlock(n) \/ InsertedBlock(n)
       \/ \E m \in Lengths : ReplacedBlock(n, m)

DetectionSpec == DetectionInit /\ [][DetectionNext]_detectionVars

-----------------------------------------------------------------------------
(* Results and properties *)

DiffChanges == {p \in pairs : p.type # "UNCHANGED"}
HasChanges == DiffChanges # {}

\* The clauses under each header, as the request lists them.
Under(list, h) == UNION {{<<s, k>> : k \in DOMAIN list[s].clauses} :
                           s \in {t \in DOMAIN list : list[t].header = h}}
DistinctKeys(list) == \A s, t \in DOMAIN list : list[s].header = list[t].header => s = t

DetectionTypeOK ==
  /\ olds \in Sections /\ news \in Sections
  /\ oldTodo \subseteq HeadersOf(olds) /\ newTodo \subseteq HeadersOf(news)
  /\ cur \in [s: Nat, t: Nat, i: Nat, j: Nat]
  /\ block \in [a: Nat, aEnd: Nat, b: SUBSET Nat, used: SUBSET Nat]
  /\ \A p \in pairs : p.type \in {"ADDED", "REMOVED", "MODIFIED", "UNCHANGED"}
                      /\ p.severity \in DiffSeverities
  /\ phase \in {"idle", "comparing", "done"}

\* A diff accounts for its documents.  However difflib cuts the sections, and
\* whatever partners the clauses of a replaced block compete for, every
\* clause of either version stands in exactly one pair, as long as headers
\* are not repeated; and a diff without changes means equal sections.
DiffIsExact ==
  phase = "done" /\ DistinctKeys(olds) /\ DistinctKeys(news) =>
    /\ \A h \in Headers : \A p \in Under(olds, h) :
         Cardinality({x \in pairs : x.old = p}) = 1
    /\ \A h \in Headers : \A q \in Under(news, h) :
         Cardinality({x \in pairs : x.new = q}) = 1
    /\ \A x \in pairs : x.type = "UNCHANGED" => Old(x.old) = New(x.new)
    /\ ~HasChanges => \A h \in HeadersOf(olds) \cup HeadersOf(news) :
         LET Body(list) == IF h \in HeadersOf(list)
                           THEN list[ByHeader(list, h)].clauses ELSE <<>>
         IN  Body(olds) = Body(news)
=============================================================================
