--------------------------- MODULE RecursionProofs --------------------------
(*****************************************************************************)
(* Proofs about Review, AuditLog, Gateway, Planning, Reasoning,              *)
(* HybridSearch and Answers. A review is only ever approved by all of its    *)
(* requirements. As long as no two writes overlap, the audit chain           *)
(* verifies, and its branches never mix. The handlers of the others go over  *)
(* a list: the hits of a window, the results of a plan, the passages of a    *)
(* report, the chunks of a search and of an answer; Induction has what       *)
(* these proofs share.                                                       *)
(*****************************************************************************)
EXTENDS AuditLog, Review, Gateway, Planning, Reasoning, HybridSearch, Answers,
        Induction, SequenceTheorems, FiniteSetTheorems, TLAPS

-----------------------------------------------------------------------------
(* Review: a verdict never waits, and the second save heals the file.        *)

\* A version still asks for what the review was created with.
SameDemand(r, c) ==
  /\ DOMAIN r.needs = DOMAIN c
  /\ \A i \in DOMAIN c : r.needs[i].repeats = c[i].repeats /\ r.needs[i].min = c[i].min

\* Nobody has rejected anything since then, nor has the last approval that
\* was missing come.
NoneSince(r, c) ==
  /\ \A i \in DOMAIN c : r.needs[i].rejected = c[i].rejected
  /\ FullyApproved(r) => r.needs = c

\* What holds of every version of a review, in memory or on a line.
Sound(r, c) ==
  /\ r.status = "APPROVED" => FullyApproved(r)
  /\ r.status \in Undecided => NoneSince(r, c)
  /\ SameDemand(r, c)

SoundIf(r, c) == r # Absent => Sound(r, c)

\* A torn line is followed by no whole one.
Healed ==
  /\ clean >= 1 => ~file.torn
  /\ clean = 2 => file.last = review

\* There is no line before the review is created.
LineIsLater == review = Absent => file.last = Absent

ReviewInv == TypeOK /\ SoundIf(review, created) /\ SoundIf(file.last, created)
        /\ Healed /\ LineIsLater

-----------------------------------------------------------------------------
(* Save *)

\* Saving a sound version keeps the invariant, whether the write fails or not.
LEMMA SaveKeeps ==
  ASSUME NEW r \in ReviewType, NEW c \in Seq(Requirements), TypeOK, Healed,
         Sound(r, c), SoundIf(file.last, c), created' = c, Save(r)
  PROVE  ReviewInv'
<1> USE ReviewAssumption, AbsentAssumption
<1>1. review' = r /\ crashes' = crashes /\ r # Absent /\ created' = c
  BY DEF Save
<1>2. SoundIf(review, created)' /\ LineIsLater'
  BY <1>1 DEF SoundIf, Sound, NoneSince, SameDemand, FullyApproved, Met, LineIsLater
<1>3. CASE /\ file' = Jsonl!Appended(file, r)
           /\ clean' = IF clean = 2 THEN 2 ELSE clean + 1
           /\ UNCHANGED faults
  <2>1. /\ file' = [last |-> IF file.torn THEN file.last ELSE r, torn |-> FALSE]
        /\ file \in [last: ReviewType \cup {Absent}, torn: BOOLEAN]
    BY <1>3 DEF TypeOK, Jsonl!Appended, Jsonl!Files
  <2>2. TypeOK'
    BY <1>1, <1>3, <2>1 DEF TypeOK, Jsonl!Files
  <2>3. SoundIf(file.last, created)'
    <3>1. file'.last = file.last \/ file'.last = r
      BY <2>1
    <3> QED
      BY <1>1, <3>1
      DEF SoundIf, Sound, NoneSince, SameDemand, FullyApproved, Met
  <2>4. Healed'
    BY <1>1, <1>3, <2>1 DEF TypeOK, Healed
  <2> QED BY <1>2, <2>2, <2>3, <2>4 DEF ReviewInv
<1>4. CASE /\ faults < MaxFaults
           /\ faults' = faults + 1
           /\ file' \in Jsonl!Damaged(file)
           /\ clean' = 0
  <2>1. /\ file \in [last: ReviewType \cup {Absent}, torn: BOOLEAN]
        /\ file' = file \/ file' = [file EXCEPT !.torn = TRUE]
    BY <1>4 DEF TypeOK, Jsonl!Damaged, Jsonl!Files
  <2>2. /\ file' \in [last: ReviewType \cup {Absent}, torn: BOOLEAN]
        /\ file'.last = file.last
    BY <2>1
  <2>3. TypeOK'
    BY <1>1, <1>4, <2>2 DEF TypeOK, Jsonl!Files
  <2>4. SoundIf(file.last, created)'
    BY <1>1, <2>2
    DEF SoundIf, Sound, NoneSince, SameDemand, FullyApproved, Met
  <2>5. Healed'
    BY <1>4 DEF Healed
  <2> QED BY <1>2, <2>3, <2>4, <2>5 DEF ReviewInv
<1> QED BY <1>3, <1>4 DEF Save

\* A request of a review that exists leaves alone what it was created with.
LEMMA LaterSaveKeeps ==
  ASSUME NEW r \in ReviewType, ReviewInv, Sound(r, created), created' = created, Save(r)
  PROVE  ReviewInv'
BY SaveKeeps DEF ReviewInv, TypeOK

-----------------------------------------------------------------------------
(* Consensus *)

\* A version of a review with other requirements is a record of both fields.
LEMMA RecordWithNeeds ==
  ASSUME NEW r \in ReviewType, NEW needs
  PROVE  LET w == [r EXCEPT !.needs = needs] IN
           /\ w.status = r.status /\ w.needs = needs
           /\ w \in [status: {r.status}, needs: {needs}]
BY DEF ReviewType

\* A sequence that is not empty has a first element.
LEMMA NotEmpty ==
  ASSUME NEW S, NEW s \in Seq(S), s # <<>>
  PROVE  Len(s) \in Nat \ {0} /\ DOMAIN s = 1..Len(s) /\ \A i \in DOMAIN s : s[i] \in S
BY EmptySeq, LenProperties, ElementOfSeq

\* One more approval: the review keeps its type and its status, nobody's
\* rejection appears or goes, and requirements that were met stay met.
LEMMA ApprovalMonotone ==
  ASSUME NEW r \in ReviewType, NEW i \in DOMAIN r.needs, NEW actor \in Actors
  PROVE  /\ WithApproval(r, i, actor) \in ReviewType
         /\ WithApproval(r, i, actor).status = r.status
         /\ Rejected(WithApproval(r, i, actor)) <=> Rejected(r)
         /\ FullyApproved(r) => FullyApproved(WithApproval(r, i, actor))
         /\ \A c : SameDemand(r, c) => SameDemand(WithApproval(r, i, actor), c)
         /\ \A j \in DOMAIN r.needs :
              WithApproval(r, i, actor).needs[j].rejected = r.needs[j].rejected
<1> DEFINE w == WithApproval(r, i, actor)
           old == r.needs[i]
           new == [old EXCEPT !.approved = @ \cup {actor}]
<1>1. r.needs \in Seq(Requirements) /\ old \in Requirements
  BY DEF ReviewType
<1>2. new \in Requirements /\ new.rejected = old.rejected /\ new.min = old.min
      /\ new.approved = old.approved \cup {actor} /\ new.repeats = old.repeats
  BY <1>1 DEF Requirements
<1>3. w.status = r.status /\ w.needs = [r.needs EXCEPT ![i] = new]
      /\ w \in [status: {r.status}, needs: {[r.needs EXCEPT ![i] = new]}]
  BY RecordWithNeeds DEF WithApproval
<1>4. [r.needs EXCEPT ![i] = new] \in Seq(Requirements)
  BY <1>1, <1>2
<1>5. w \in ReviewType /\ w.status = r.status
  BY <1>3, <1>4 DEF ReviewType
<1>6. /\ DOMAIN w.needs = DOMAIN r.needs
      /\ \A j \in DOMAIN r.needs : w.needs[j] = IF j = i THEN new ELSE r.needs[j]
  BY <1>1, <1>3
<1>7. Rejected(w) <=> Rejected(r)
  BY <1>2, <1>6 DEF Rejected
<1>8. Met(old) => Met(new)
  <2>1. IsFiniteSet(old.approved) /\ IsFiniteSet(new.approved)
        /\ old.approved \subseteq new.approved
    BY <1>1, <1>2, ReviewAssumption, FS_Subset, FS_AddElement DEF Requirements
  <2>2. /\ Cardinality(old.approved) <= Cardinality(new.approved)
        /\ Cardinality(old.approved) \in Nat /\ Cardinality(new.approved) \in Nat
    BY <2>1, FS_Subset, FS_CardinalityType
  <2> QED BY <1>1, <1>2, <2>2 DEF Met, Requirements
<1>9. FullyApproved(r) => FullyApproved(w)
  BY <1>6, <1>8 DEF FullyApproved
<1>10. \A c : SameDemand(r, c) => SameDemand(w, c)
  BY <1>2, <1>6 DEF SameDemand
<1>11. \A j \in DOMAIN r.needs : w.needs[j].rejected = r.needs[j].rejected
  BY <1>2, <1>6
<1> QED BY <1>5, <1>7, <1>9, <1>10, <1>11

\* A rejection keeps the type and the status, and the review is rejected.
LEMMA RejectionCounts ==
  ASSUME NEW r \in ReviewType, NEW i \in DOMAIN r.needs, NEW actor \in Actors
  PROVE  /\ WithRejection(r, i, actor) \in ReviewType
         /\ WithRejection(r, i, actor).status = r.status
         /\ Rejected(WithRejection(r, i, actor))
         /\ \A c : SameDemand(r, c) => SameDemand(WithRejection(r, i, actor), c)
<1> DEFINE w == WithRejection(r, i, actor)
           old == r.needs[i]
           new == [old EXCEPT !.rejected = @ \cup {actor}]
<1>1. r.needs \in Seq(Requirements) /\ old \in Requirements
  BY DEF ReviewType
<1>2. new \in Requirements /\ actor \in new.rejected
      /\ new.min = old.min /\ new.repeats = old.repeats
  BY <1>1 DEF Requirements
<1>3. w.status = r.status /\ w.needs = [r.needs EXCEPT ![i] = new]
      /\ w \in [status: {r.status}, needs: {[r.needs EXCEPT ![i] = new]}]
  BY RecordWithNeeds DEF WithRejection
<1>4. /\ [r.needs EXCEPT ![i] = new] \in Seq(Requirements)
      /\ w \in ReviewType /\ w.status = r.status
  <2>1. [r.needs EXCEPT ![i] = new] \in Seq(Requirements)
    BY <1>1, <1>2
  <2> QED BY <1>3, <2>1 DEF ReviewType
<1>5. i \in DOMAIN w.needs /\ w.needs[i] = new
  BY <1>1, <1>3
<1>6. \A c : SameDemand(r, c) => SameDemand(w, c)
  BY <1>1, <1>2, <1>3 DEF SameDemand
<1> QED BY <1>2, <1>4, <1>5, <1>6 DEF Rejected

\* A version with a status of its own choosing.
LEMMA StatusChange ==
  ASSUME NEW r \in ReviewType, NEW s \in Statuses
  PROVE  LET w == [r EXCEPT !.status = s] IN
           /\ w \in ReviewType /\ w.status = s /\ w.needs = r.needs
           /\ FullyApproved(w) <=> FullyApproved(r)
           /\ Rejected(w) <=> Rejected(r)
<1> DEFINE w == [r EXCEPT !.status = s]
<1>1. w \in ReviewType /\ w.status = s /\ w.needs = r.needs
  BY DEF ReviewType
<1> QED BY <1>1 DEF FullyApproved, Rejected

\* Settling makes any version sound whose approval, if it has one, is still
\* unanimous or contradicted by a rejection: it is no longer undecided, or
\* neither approved nor rejected by now.
LEMMA SettledSound ==
  ASSUME NEW r \in ReviewType, NEW c, SameDemand(r, c),
         r.status = "APPROVED" => FullyApproved(r) \/ Rejected(r),
         r.status \in Undecided /\ ~Rejected(r) =>
           \A i \in DOMAIN c : r.needs[i].rejected = c[i].rejected
  PROVE  Settled(r) \in ReviewType /\ Sound(Settled(r), c)
<1>0. ~(FullyApproved(r) /\ Rejected(r))
  BY DEF FullyApproved, Rejected, Met
<1>1. CASE Rejected(r)
  <2>1. Settled(r) = [r EXCEPT !.status = "REJECTED"]
    BY <1>0, <1>1 DEF Settled
  <2>2. Settled(r) \in ReviewType /\ Settled(r).status = "REJECTED"
        /\ Settled(r).needs = r.needs
    <3>1. "REJECTED" \in Statuses
      BY DEF Statuses, Undecided
    <3> QED BY <2>1, <3>1, StatusChange
  <2>3. Settled(r).status # "APPROVED" /\ Settled(r).status \notin Undecided
    BY <2>2 DEF Undecided
  <2>4. SameDemand(Settled(r), c)
    BY <2>2 DEF SameDemand
  <2> QED BY <2>2, <2>3, <2>4 DEF Sound
<1>2. CASE ~Rejected(r) /\ FullyApproved(r)
  <2>1. Settled(r) = [r EXCEPT !.status = "APPROVED"]
    BY <1>2 DEF Settled
  <2>2. Settled(r) \in ReviewType /\ Settled(r).status = "APPROVED"
        /\ FullyApproved(Settled(r)) /\ Settled(r).needs = r.needs
    <3>1. "APPROVED" \in Statuses
      BY DEF Statuses, Undecided
    <3> QED BY <1>2, <2>1, <3>1, StatusChange
  <2>3. Settled(r).status \notin Undecided
    BY <2>2 DEF Undecided
  <2>4. SameDemand(Settled(r), c)
    BY <2>2 DEF SameDemand
  <2> QED BY <2>2, <2>3, <2>4 DEF Sound
<1>3. CASE ~Rejected(r) /\ ~FullyApproved(r)
  <2>1. Settled(r) = r
    BY <1>3 DEF Settled, ReviewType
  <2> QED BY <1>3, <2>1 DEF Sound, NoneSince
<1> QED BY <1>1, <1>2, <1>3

-----------------------------------------------------------------------------
(* The invariant *)

LEMMA InitSound == Init => ReviewInv
BY ReviewAssumption, AbsentAssumption, EmptySeq
   DEF Init, ReviewInv, TypeOK, SoundIf, Healed, LineIsLater, Jsonl!EmptyFile, Jsonl!Files

LEMMA CreateSound ==
  ASSUME ReviewInv, NEW panel \in Panels, Create(panel)
  PROVE  ReviewInv'
<1> DEFINE r == [status |-> "PENDING", needs |-> panel]
<1>1. panel \in Seq(Requirements)
  BY PanelsAssumption
<1>2. r \in ReviewType /\ r.status = "PENDING" /\ r.needs = panel
  BY <1>1 DEF ReviewType, Statuses, Undecided
<1>3. Sound(r, panel)
  BY <1>2 DEF Sound, NoneSince, SameDemand
<1>4. file.last = Absent
  BY DEF ReviewInv, LineIsLater, Create, Exists
<1>5. SoundIf(file.last, panel)
  BY <1>4 DEF SoundIf
<1>6. created' = panel /\ Save(r)
  BY DEF Create
<1>7. TypeOK /\ Healed
  BY DEF ReviewInv
<1> QED BY <1>1, <1>2, <1>3, <1>5, <1>6, <1>7, SaveKeeps

\* A change of status alone, to one that needs no consensus.
LEMMA StatusOnlySound ==
  ASSUME ReviewInv, created' = created, Start \/ Escalate \/ Withdraw \/ Annotate
  PROVE  ReviewInv'
<1>0. review \in ReviewType /\ Sound(review, created)
  BY DEF ReviewInv, TypeOK, SoundIf, Exists, Start, Escalate, Withdraw, Annotate
<1>1. CASE Start
  <2> DEFINE w == [review EXCEPT !.status = "IN_REVIEW"]
  <2>1. w \in ReviewType /\ w.status = "IN_REVIEW" /\ w.needs = review.needs
        /\ (FullyApproved(w) <=> FullyApproved(review))
    BY <1>0, StatusChange DEF Statuses, Undecided
  <2>2. Sound(w, created)
    BY <1>0, <1>1, <2>1 DEF Sound, NoneSince, SameDemand, Start, Undecided
  <2> QED BY <1>1, <2>1, <2>2, LaterSaveKeeps DEF Start
<1>2. CASE Escalate \/ Withdraw
  <2>1. PICK s \in {"ESCALATED", "WITHDRAWN"} : Save([review EXCEPT !.status = s])
    BY <1>2 DEF Escalate, Withdraw
  <2> DEFINE w == [review EXCEPT !.status = s]
  <2>2. w \in ReviewType /\ w.status = s /\ w.needs = review.needs
    BY <1>0, StatusChange DEF Statuses, Undecided
  <2>3. Sound(w, created)
    BY <1>0, <2>2 DEF Sound, SameDemand, Undecided
  <2> QED BY <2>1, <2>2, <2>3, LaterSaveKeeps
<1>3. CASE Annotate
  BY <1>0, <1>3, LaterSaveKeeps DEF Annotate
<1> QED BY <1>1, <1>2, <1>3

LEMMA ApprovalSound ==
  ASSUME ReviewInv, created' = created,
         NEW actor \in Actors, NEW role \in Roles \cup {NoRole},
         DecideApprove(actor, role) \/ RecordApproval(actor, role)
  PROVE  ReviewInv'
<1>0. review \in ReviewType /\ Sound(review, created)
  BY DEF ReviewInv, TypeOK, SoundIf, Exists, DecideApprove, RecordApproval
<1>1. \A i \in ApprovalTargets(review, actor, role) : i \in DOMAIN review.needs
  BY DEF ApprovalTargets, Matching, Open
<1>2. PICK i \in ApprovalTargets(review, actor, role) :
        \/ Save(Settled(WithApproval(review, i, actor)))
        \/ LET r == WithApproval(review, i, actor)
           IN  Save(IF FullyApproved(r) THEN [r EXCEPT !.status = "APPROVED"]
                                        ELSE r)
  BY DEF DecideApprove, RecordApproval
<1> DEFINE w == WithApproval(review, i, actor)
<1>3. /\ w \in ReviewType /\ w.status = review.status
      /\ FullyApproved(review) => FullyApproved(w)
      /\ SameDemand(w, created)
      /\ \A j \in DOMAIN review.needs : w.needs[j].rejected = review.needs[j].rejected
  BY <1>0, <1>1, ApprovalMonotone DEF Sound
<1>4. DOMAIN review.needs = DOMAIN created
  BY <1>0 DEF Sound, SameDemand
<1>5. /\ w.status = "APPROVED" => FullyApproved(w)
      /\ w.status \in Undecided =>
           \A j \in DOMAIN created : w.needs[j].rejected = created[j].rejected
  BY <1>0, <1>3, <1>4 DEF Sound, NoneSince
<1>6. CASE Save(Settled(w))
  <2>1. Settled(w) \in ReviewType /\ Sound(Settled(w), created)
    BY <1>3, <1>5, SettledSound
  <2> QED BY <1>6, <2>1, LaterSaveKeeps
<1>7. CASE /\ FullyApproved(w)
           /\ Save([w EXCEPT !.status = "APPROVED"])
  <2> DEFINE x == [w EXCEPT !.status = "APPROVED"]
  <2>1. x \in ReviewType /\ x.status = "APPROVED" /\ FullyApproved(x)
        /\ x.needs = w.needs
    BY <1>3, <1>7, StatusChange DEF Statuses, Undecided
  <2>2. Sound(x, created)
    BY <1>3, <2>1 DEF Sound, SameDemand, Undecided
  <2> QED BY <1>7, <2>1, <2>2, LaterSaveKeeps
<1>8. CASE ~FullyApproved(w) /\ Save(w)
  <2>1. Sound(w, created)
    BY <1>3, <1>5, <1>8 DEF Sound, NoneSince
  <2> QED BY <1>3, <1>8, <2>1, LaterSaveKeeps
<1> QED BY <1>2, <1>6, <1>7, <1>8

LEMMA RejectionSound ==
  ASSUME ReviewInv, created' = created,
         NEW actor \in Actors, NEW role \in Roles \cup {NoRole},
         DecideReject(actor, role) \/ RecordRejection(actor, role)
  PROVE  ReviewInv'
<1>0. review \in ReviewType /\ Sound(review, created)
  BY DEF ReviewInv, TypeOK, SoundIf, Exists, DecideReject, RecordRejection
<1>1. PICK i \in RejectionTargets(review, role) :
        \/ Save(Settled(WithRejection(review, i, actor)))
        \/ Save([WithRejection(review, i, actor) EXCEPT !.status = "REJECTED"])
  BY DEF DecideReject, RecordRejection
<1> DEFINE w == WithRejection(review, i, actor)
           x == [w EXCEPT !.status = "REJECTED"]
<1>2. i \in DOMAIN review.needs
  BY DEF RejectionTargets, Matching
<1>3. w \in ReviewType /\ Rejected(w) /\ SameDemand(w, created)
  BY <1>0, <1>2, RejectionCounts DEF Sound
<1>4. Settled(w) \in ReviewType /\ Sound(Settled(w), created)
  BY <1>3, SettledSound
<1>5. x \in ReviewType /\ x.status = "REJECTED" /\ x.needs = w.needs
  BY <1>3, StatusChange DEF Statuses, Undecided
<1>6. Sound(x, created)
  BY <1>3, <1>5 DEF Sound, SameDemand, Undecided
<1> QED BY <1>1, <1>4, <1>5, <1>6, LaterSaveKeeps

LEMMA RestartSound == ASSUME ReviewInv, Restart PROVE ReviewInv'
<1>1. review' = file.last /\ file' = file /\ faults' = faults /\ clean' = clean
      /\ created' = created /\ crashes' \in 0..MaxCrashes
  BY ReviewAssumption DEF ReviewInv, TypeOK, Restart, Jsonl!Loaded
<1>2. TypeOK'
  BY <1>1 DEF ReviewInv, TypeOK, Jsonl!Files
<1>3. SoundIf(review, created)' /\ SoundIf(file.last, created)'
  BY <1>1 DEF ReviewInv, SoundIf, Sound, NoneSince, SameDemand, FullyApproved, Met
<1>4. Healed' /\ LineIsLater'
  BY <1>1 DEF ReviewInv, Healed, LineIsLater
<1> QED BY <1>2, <1>3, <1>4 DEF ReviewInv

\* The invariant: every version of the review, in memory and on the last
\* line that can be parsed, is sound, and the line is current from the
\* second save after a failed write on.
THEOREM ReviewInvariance == Spec => []ReviewInv
<1>1. Init => ReviewInv
  BY InitSound
<1>2. ReviewInv /\ [Next]_vars => ReviewInv'
  <2> SUFFICES ASSUME ReviewInv, [Next]_vars PROVE ReviewInv'
    OBVIOUS
  <2>1. CASE \E panel \in Panels : Create(panel)
    BY <2>1, CreateSound
  <2>2. CASE created' = created /\ (Start \/ Escalate \/ Withdraw \/ Annotate)
    BY <2>2, StatusOnlySound
  <2>3. ASSUME NEW actor \in Actors, NEW role \in Roles \cup {NoRole}, created' = created,
               DecideApprove(actor, role) \/ RecordApproval(actor, role)
        PROVE  ReviewInv'
    BY <2>3, ApprovalSound
  <2>4. ASSUME NEW actor \in Actors, NEW role \in Roles \cup {NoRole}, created' = created,
               DecideReject(actor, role) \/ RecordRejection(actor, role)
        PROVE  ReviewInv'
    BY <2>4, RejectionSound
  <2>5. CASE Restart
    BY <2>5, RestartSound
  <2>6. CASE UNCHANGED vars
    BY <2>6 DEF vars, ReviewInv, TypeOK, SoundIf, Sound, NoneSince, SameDemand, Healed,
                LineIsLater, FullyApproved, Met, Jsonl!Files
  <2> QED BY <2>1, <2>2, <2>3, <2>4, <2>5, <2>6 DEF Next, Request
<1> QED BY <1>1, <1>2, PTL DEF Spec

\* Type correctness, for any panels, actors, failed writes and restarts.
THEOREM ReviewTypeCorrect == Spec => []TypeOK
<1>1. ReviewInv => TypeOK
  BY DEF ReviewInv
<1> QED BY <1>1, ReviewInvariance, PTL

\* No review is APPROVED unless nobody rejected it and each requirement it was
\* created with has the approvers it asked for, repeats in the lists of
\* creation aside, in memory or after a restart, by whichever endpoint it
\* was decided.
THEOREM OnlyUnanimous == Spec => []ApprovedIsUnanimous
<1>1. ASSUME NEW r, SoundIf(r, created)
      PROVE  UnanimousIn(r)
  BY <1>1 DEF SoundIf, Sound, SameDemand, FullyApproved, Met, UnanimousIn
<1>2. ReviewInv => ApprovedIsUnanimous
  BY <1>1 DEF ReviewInv, ApprovedIsUnanimous, Jsonl!Loaded
<1> QED BY <1>2, ReviewInvariance, PTL

\* Of a review that waits for a decision nobody has rejected anything since
\* its creation, nor has the last missing approval come.
THEOREM VerdictAtOnce == Spec => []ConsensusTakesEffect
<1>1. ReviewInv => ConsensusTakesEffect
  BY DEF ReviewInv, SoundIf, Sound, NoneSince, ConsensusTakesEffect, Exists
<1> QED BY <1>1, ReviewInvariance, PTL

\* A failed write costs at most itself and the next save.
THEOREM HealsAfterTwo == Spec => []SecondSaveHeals
<1>1. ReviewInv => SecondSaveHeals
  BY DEF ReviewInv, Healed, SecondSaveHeals, Jsonl!Loaded
<1> QED BY <1>1, ReviewInvariance, PTL

-----------------------------------------------------------------------------
(* AuditLog: copies with a digest in common have their past in common.       *)

\* A digest spells out everything up to its record.
Spelled(log) ==
  \A i \in DOMAIN log.records :
    log.records[i].hash = [k \in 1..i |-> <<k, log.records[k].body>>]

Chained(log) == ChainOf(log) /\ Spelled(log)

Said(log) == {log.records[i].body : i \in DOMAIN log.records}

\* What the workers and the file say.
BodiesUsed ==
  /\ \A w \in Workers : HasStore(w) => Said(memory[w]) \subseteq used
  /\ auditFile \in Stores => Said(auditFile) \subseteq used

\* What they hold.
StoresSound ==
  ~overlapped =>
    /\ \A w \in Workers : HasStore(w) => Chained(memory[w])
    /\ auditFile \in Stores => Chained(auditFile)
    /\ \A w \in Workers : writing[w] # "mixed"

\* Only a worker with a store writes.
WritersOpen == \A w \in Workers : writing[w] # "no" => HasStore(w)

AuditInv == AuditTypeOK /\ BodiesUsed /\ StoresSound /\ WritersOpen /\ OneWriteSavesAll

-----------------------------------------------------------------------------
(* Stores *)

LEMMA StoreShape ==
  ASSUME NEW s \in Stores
  PROVE  /\ s.records \in Seq(Records) /\ s.sequence \in Nat
         /\ s.lastHash \in Digests /\ s.attached \in SUBSET Attachments
         /\ Len(s.records) \in Nat /\ DOMAIN s.records = 1..Len(s.records)
         /\ \A i \in DOMAIN s.records : s.records[i] \in Records
         /\ s.records = <<>> <=> Len(s.records) = 0
<1>1. /\ s.records \in Seq(Records) /\ s.sequence \in Nat
      /\ s.lastHash \in Digests /\ s.attached \in SUBSET Attachments
  BY DEF Stores
<1>2. Len(s.records) \in Nat /\ DOMAIN s.records = 1..Len(s.records)
  BY <1>1, LenProperties
<1>3. \A i \in DOMAIN s.records : s.records[i] \in Records
  BY <1>1, <1>2, ElementOfSeq
<1>4. s.records = <<>> <=> Len(s.records) = 0
  BY <1>1
<1> QED BY <1>1, <1>2, <1>3, <1>4

LEMMA BlankChained == Blank \in Stores /\ Chained(Blank) /\ Said(Blank) = {}
<1>1. <<>> \in Seq(Records) /\ <<>> \in Digests /\ Len(<<>>) = 0 /\ DOMAIN <<>> = {}
  BY EmptySeq DEF Digests
<1>2. /\ Blank.records = <<>> /\ Blank.sequence = 0 /\ Blank.lastHash = <<>>
      /\ Blank.attached = {}
  BY DEF Blank, Genesis
<1>3. Blank \in Stores
  BY <1>1 DEF Blank, Genesis, Stores
<1>4. ChainOf(Blank)
  BY <1>1, <1>2 DEF ChainOf, Verified, Genesis
<1> QED BY <1>1, <1>2, <1>3, <1>4 DEF Chained, Spelled, Said

\* The next record has its type.
LEMMA NextEntry ==
  ASSUME NEW s \in Stores, NEW body \in Bodies
  PROVE  LET e == Entry(s, body) IN
         /\ e \in Records
         /\ e.prev = s.lastHash /\ e.sequence = s.sequence + 1 /\ e.body = body
         /\ e.hash = Digest(s.lastHash, s.sequence + 1, body)
<1> DEFINE e == Entry(s, body)
<1>1. s.sequence + 1 \in Nat \ {0} /\ s.lastHash \in Digests
  BY StoreShape
<1>2. <<s.sequence + 1, body>> \in (Nat \ {0}) \X Bodies
  BY <1>1
<1>3. Digest(s.lastHash, s.sequence + 1, body) \in Digests
  BY <1>1, <1>2, AppendProperties DEF Digest, Digests
<1>4. e = [sequence |-> s.sequence + 1, body |-> body, prev |-> s.lastHash,
           hash |-> Digest(s.lastHash, s.sequence + 1, body)]
  BY DEF Entry
<1> QED BY <1>1, <1>3, <1>4 DEF Records

\* Appending a record leaves a store with one record more.
LEMMA StoreGrows ==
  ASSUME NEW s \in Stores, NEW e \in Records
  PROVE  LET t == With(s, e)
             n == Len(s.records) IN
         /\ t \in Stores
         /\ t.sequence = s.sequence + 1 /\ t.lastHash = e.hash
         /\ Len(t.records) = n + 1 /\ DOMAIN t.records = 1..(n + 1)
         /\ \A i \in 1..n : t.records[i] = s.records[i]
         /\ t.records[n + 1] = e
         /\ Said(t) = Said(s) \cup {e.body}
<1> DEFINE t == With(s, e)
           log == s.records
           n == Len(log)
<1>1. /\ log \in Seq(Records) /\ n \in Nat /\ DOMAIN log = 1..n /\ s.sequence \in Nat
  BY StoreShape
<1>2. /\ t.records = Append(log, e) /\ t.sequence = s.sequence + 1
      /\ t.lastHash = e.hash /\ t \in Stores
  <2>1. Append(log, e) \in Seq(Records) /\ s.sequence + 1 \in Nat /\ e.hash \in Digests
    BY <1>1, AppendProperties DEF Records
  <2>2. t = [s EXCEPT !.records = Append(log, e), !.sequence = s.sequence + 1,
                      !.lastHash = e.hash]
    BY DEF With
  <2> HIDE DEF t
  <2> QED BY <2>1, <2>2 DEF Stores
<1> HIDE DEF t
<1>3. /\ Len(t.records) = n + 1 /\ DOMAIN t.records = 1..(n + 1)
      /\ \A i \in 1..n : t.records[i] = log[i]
      /\ t.records[n + 1] = e
  BY <1>1, <1>2, AppendProperties, LenProperties
<1> HIDE DEF log, n
<1>4. Said(t) = Said(s) \cup {e.body}
  <2>1. ASSUME NEW i \in 1..(n + 1) PROVE t.records[i].body \in Said(s) \cup {e.body}
    <3>1. CASE i \in 1..n
      BY <1>1, <1>3, <3>1 DEF Said, log
    <3>2. CASE i = n + 1
      BY <1>3, <3>2
    <3> QED BY <1>1, <2>1, <3>1, <3>2
  <2>2. ASSUME NEW i \in 1..n PROVE log[i].body \in Said(t)
    <3>1. i \in DOMAIN t.records /\ t.records[i] = log[i]
      BY <1>1, <1>3, <2>2
    <3> QED BY <3>1 DEF Said
  <2>3. e.body \in Said(t)
    <3>1. n + 1 \in DOMAIN t.records /\ t.records[n + 1] = e
      BY <1>1, <1>3
    <3> QED BY <3>1 DEF Said
  <2> QED BY <1>1, <1>3, <2>1, <2>2, <2>3 DEF Said, log
<1> QED BY <1>2, <1>3, <1>4 DEF t, log, n

\* Appending the next record leaves a chain.
LEMMA ChainGrows ==
  ASSUME NEW s \in Stores, Chained(s), NEW body \in Bodies
  PROVE  LET t == With(s, Entry(s, body)) IN
         Chained(t)
<1> DEFINE e == Entry(s, body)
           t == With(s, e)
           log == s.records
           n == Len(log)
<1>1. /\ e \in Records /\ e.prev = s.lastHash /\ e.sequence = s.sequence + 1
      /\ e.body = body /\ e.hash = Digest(s.lastHash, s.sequence + 1, body)
  BY NextEntry
<1>2. /\ log \in Seq(Records) /\ n \in Nat /\ DOMAIN log = 1..n /\ s.sequence \in Nat
      /\ log = <<>> <=> n = 0
  BY StoreShape
<1>3. /\ s.sequence = n
      /\ \A i \in 1..n : log[i].sequence = i
      /\ s.lastHash = IF n = 0 THEN Genesis ELSE log[n].hash
      /\ \A i \in 1..n : /\ log[i].prev = IF i = 1 THEN Genesis ELSE log[i - 1].hash
                         /\ log[i].hash = Digest(log[i].prev, log[i].sequence, log[i].body)
      /\ \A i \in 1..n : log[i].hash = [k \in 1..i |-> <<k, log[k].body>>]
  BY <1>2 DEF Chained, ChainOf, Verified, Spelled
<1>5. /\ t.sequence = n + 1 /\ t.lastHash = e.hash
      /\ t.records \in Seq(Records) /\ Len(t.records) = n + 1
      /\ DOMAIN t.records = 1..(n + 1)
      /\ \A i \in 1..n : t.records[i] = log[i]
      /\ t.records[n + 1] = e
  <2> HIDE DEF e
  <2>1. t \in Stores
    BY <1>1, StoreGrows
  <2>2. t.records \in Seq(Records)
    BY <2>1, StoreShape
  <2> QED BY <1>1, <1>3, <2>2, StoreGrows
<1> HIDE DEF e, t, log, n
<1>6. Verified(t.records)
  <2> SUFFICES ASSUME NEW i \in 1..(n + 1)
               PROVE  /\ t.records[i].prev = IF i = 1 THEN Genesis ELSE t.records[i - 1].hash
                      /\ t.records[i].hash =
                           Digest(t.records[i].prev, t.records[i].sequence, t.records[i].body)
    BY <1>5 DEF Verified
  <2>1. CASE i \in 1..n
    <3>1. t.records[i] = log[i] /\ (i # 1 => t.records[i - 1] = log[i - 1])
      BY <1>2, <1>5, <2>1
    <3> QED BY <1>3, <2>1, <3>1
  <2>2. CASE i = n + 1
    <3>1. t.records[i] = e /\ (i # 1 => t.records[i - 1] = log[n] /\ n # 0)
      BY <1>2, <1>5, <2>2
    <3>2. (i = 1) <=> (n = 0)
      BY <1>2, <2>2
    <3> QED BY <1>1, <1>3, <3>1, <3>2
  <2> QED BY <1>2, <2>1, <2>2
<1>7. ChainOf(t)
  <2>1. \A i \in 1..(n + 1) : t.records[i].sequence = i
    <3> SUFFICES ASSUME NEW i \in 1..(n + 1) PROVE t.records[i].sequence = i
      OBVIOUS
    <3>1. CASE i \in 1..n
      BY <1>3, <1>5, <3>1
    <3>2. CASE i = n + 1
      BY <1>1, <1>3, <1>5, <3>2
    <3> QED BY <1>2, <3>1, <3>2
  <2>2. t.records # <<>> /\ t.records[Len(t.records)] = e
    BY <1>2, <1>5
  <2> QED BY <1>5, <1>6, <2>1, <2>2 DEF ChainOf
<1>8. Spelled(t)
  <2> SUFFICES ASSUME NEW i \in 1..(n + 1)
               PROVE  t.records[i].hash = [k \in 1..i |-> <<k, t.records[k].body>>]
    BY <1>5 DEF Spelled
  <2>1. CASE i \in 1..n
    <3>1. \A k \in 1..i : t.records[k] = log[k]
      BY <1>2, <1>5, <2>1
    <3>2. t.records[i].hash = [k \in 1..i |-> <<k, log[k].body>>]
      BY <1>3, <1>5, <2>1
    <3> QED BY <3>1, <3>2
  <2>2. CASE i = n + 1
    <3> DEFINE past == [k \in 1..n |-> <<k, log[k].body>>]
               x == <<n + 1, body>>
    <3>1. s.lastHash = past
      <4>1. CASE n = 0
        <5>1. past = <<>>
          BY <4>1
        <5> QED BY <1>3, <4>1, <5>1 DEF Genesis
      <4>2. CASE n # 0
        <5>1. n \in 1..n
          BY <1>2, <4>2
        <5>2. log[n].hash = past
          BY <1>3, <5>1
        <5> QED BY <1>3, <4>2, <5>2
      <4> QED BY <4>1, <4>2
    <3>2. t.records[i].hash = Append(past, x)
      BY <1>1, <1>3, <1>5, <2>2, <3>1 DEF Digest
    <3>3. past \in Seq((Nat \ {0}) \X Bodies) /\ x \in (Nat \ {0}) \X Bodies
      BY <1>2, <3>1, StoreShape DEF Digests
    <3>4. Len(past) = n
      BY <1>2, <3>3
    <3>5. Append(past, x) = [k \in 1..(n + 1) |-> IF k = n + 1 THEN x ELSE past[k]]
      <4> DEFINE u == Append(past, x)
      <4> HIDE DEF past, x
      <4>1. /\ u \in Seq((Nat \ {0}) \X Bodies) /\ Len(u) = n + 1
            /\ \A k \in 1..n : u[k] = past[k]
            /\ u[n + 1] = x
        BY <3>3, <3>4, AppendProperties
      <4> HIDE DEF u
      <4>2. u \in [1..(n + 1) -> (Nat \ {0}) \X Bodies]
        BY <4>1, LenProperties
      <4>3. \A k \in 1..(n + 1) : u[k] = IF k = n + 1 THEN x ELSE past[k]
        BY <1>2, <4>1
      <4>4. u = [k \in 1..(n + 1) |-> u[k]]
        BY <4>2
      <4>5. u = [k \in 1..(n + 1) |-> IF k = n + 1 THEN x ELSE past[k]]
        BY <4>3, <4>4
      <4> QED BY <4>5 DEF u
    <3>6. \A k \in 1..(n + 1) :
            (IF k = n + 1 THEN x ELSE past[k]) = <<k, t.records[k].body>>
      <4> SUFFICES ASSUME NEW k \in 1..(n + 1)
                   PROVE  (IF k = n + 1 THEN x ELSE past[k]) = <<k, t.records[k].body>>
        OBVIOUS
      <4>1. CASE k = n + 1
        BY <1>1, <1>5, <4>1
      <4>2. CASE k \in 1..n
        BY <1>2, <1>5, <4>2
      <4> QED BY <1>2, <4>1, <4>2
    <3> HIDE DEF past, x
    <3> QED BY <2>2, <3>2, <3>5, <3>6
  <2> QED BY <1>2, <2>1, <2>2
<1> QED BY <1>7, <1>8 DEF Chained, t, e

\* Attachments do not touch the chain.
LEMMA AttachedSound ==
  ASSUME NEW s \in Stores, NEW a \in Attachments
  PROVE  LET t == [s EXCEPT !.attached = @ \cup {a}] IN
         t \in Stores /\ (Chained(s) => Chained(t)) /\ Said(t) = Said(s)
<1> DEFINE t == [s EXCEPT !.attached = @ \cup {a}]
<1>1. t \in Stores
  BY DEF Stores
<1>2. t.records = s.records /\ t.sequence = s.sequence /\ t.lastHash = s.lastHash
  BY DEF Stores
<1> HIDE DEF t
<1> QED BY <1>1, <1>2 DEF Chained, ChainOf, Spelled, Said, t

\* A mixture is a store that says what one of the two says.
LEMMA MixtureSays ==
  ASSUME NEW s \in Stores, NEW t \in Stores
  PROVE  /\ Mixture(s, t) \in Stores /\ Mixture(s, t).records = t.records
         /\ Said(Mixture(s, t)) = Said(t)
<1>1. s.sequence \in Nat /\ s.lastHash \in Digests
  BY StoreShape
<1>2. Mixture(s, t) = [t EXCEPT !.sequence = s.sequence, !.lastHash = s.lastHash]
  BY DEF Mixture
<1>3. Mixture(s, t) \in Stores /\ Mixture(s, t).records = t.records
  BY <1>1, <1>2 DEF Stores
<1> QED BY <1>3 DEF Said

-----------------------------------------------------------------------------
(* The invariant *)

LEMMA AuditInitHolds == AuditInit => AuditInv
<1> SUFFICES ASSUME AuditInit PROVE AuditInv
  OBVIOUS
<1>1. AuditTypeOK
  <2>1. overlapped \in BOOLEAN
    BY DEF AuditInit
  <2> QED BY <2>1, AuditAssumption DEF AuditInit, AuditTypeOK
<1>2. BodiesUsed /\ StoresSound
  BY FileAssumption DEF AuditInit, BodiesUsed, StoresSound, HasStore
<1>3. WritersOpen /\ OneWriteSavesAll
  BY DEF AuditInit, WritersOpen, OneWriteSavesAll
<1> QED BY <1>1, <1>2, <1>3 DEF AuditInv

\* What a worker that starts finds.
LEMMA FoundSound ==
  ASSUME AuditInv
  PROVE  Found \in Stores /\ Said(Found) \subseteq used /\ (~overlapped => Chained(Found))
<1>1. CASE auditFile \in {Missing, Torn}
  BY <1>1, BlankChained DEF Found
<1>2. CASE auditFile \notin {Missing, Torn}
  BY <1>2 DEF Found, AuditInv, AuditTypeOK, BodiesUsed, StoresSound
<1> QED BY <1>1, <1>2

\* What an open worker has.
LEMMA StoreSound ==
  ASSUME AuditInv, NEW w \in Workers, HasStore(w)
  PROVE  /\ memory[w] \in Stores /\ Said(memory[w]) \subseteq used
         /\ ~overlapped => Chained(memory[w])
BY DEF AuditInv, AuditTypeOK, BodiesUsed, StoresSound, HasStore

\* The file when it is opened to be written, or is not.
LEMMA Opened ==
  ASSUME AuditInv, NEW w \in Workers, OpenFile(w)
  PROVE  /\ writer' = Nobody
         /\ writing' \in [Workers -> {"no", "alone", "mixed"}]
         /\ \A v \in Workers : writing'[v] # "no" => v = w \/ writing[v] # "no"
         /\ auditFaults' \in 0..AuditFaults /\ auditFile' \in {auditFile, Torn} /\ overlapped' \in BOOLEAN
         /\ ~overlapped' => ~overlapped /\ \A v \in Workers : writing'[v] # "mixed"
<1>0. /\ writing \in [Workers -> {"no", "alone", "mixed"}] /\ overlapped \in BOOLEAN
      /\ auditFaults \in 0..AuditFaults
      /\ ~overlapped => \A v \in Workers : writing[v] # "mixed"
  BY DEF AuditInv, AuditTypeOK, StoresSound
<1>1. CASE /\ auditFile' = Torn
           /\ writing' = [v \in Workers |->
                IF v = w THEN IF OthersWrite(w) THEN "mixed" ELSE "alone"
                ELSE IF writing[v] = "no" THEN "no" ELSE "mixed"]
           /\ overlapped' = (overlapped \/ OthersWrite(w))
           /\ UNCHANGED auditFaults
  <2>1. \A v \in Workers : writing'[v] =
          IF v = w THEN IF OthersWrite(w) THEN "mixed" ELSE "alone"
          ELSE IF writing[v] = "no" THEN "no" ELSE "mixed"
    BY <1>1
  <2>2. writing' \in [Workers -> {"no", "alone", "mixed"}]
    BY <1>1
  <2>3. overlapped' \in BOOLEAN
    BY <1>1
  <2>4. ~overlapped' => ~overlapped /\ \A v \in Workers : writing'[v] # "mixed"
    BY <1>1, <2>1 DEF OthersWrite
  <2> QED BY <1>0, <1>1, <2>1, <2>2, <2>3, <2>4 DEF OpenFile
<1>2. CASE /\ auditFaults < AuditFaults /\ auditFaults' = auditFaults + 1
           /\ UNCHANGED <<auditFile, writing, overlapped>>
  BY <1>0, <1>2, AuditAssumption DEF OpenFile
<1> QED BY <1>1, <1>2 DEF OpenFile

\* A change of a worker's store, up to the opening of the file.
LEMMA ChangeKeeps ==
  ASSUME AuditInv, NEW w \in Workers, HasStore(w), OpenFile(w),
         NEW t \in Stores, ~overlapped => Chained(t), Said(t) \subseteq used',
         memory' = [memory EXCEPT ![w] = t],
         used \subseteq used', used' \subseteq Bodies, kept' = kept, auditCrashes' = auditCrashes
  PROVE  AuditInv'
<1>1. t # Closed /\ t \in Stores \cup {Closed}
  BY FileAssumption
<1>2. /\ writer' = Nobody
      /\ writing' \in [Workers -> {"no", "alone", "mixed"}]
      /\ \A v \in Workers : writing'[v] # "no" => v = w \/ writing[v] # "no"
      /\ auditFaults' \in 0..AuditFaults /\ auditFile' \in {auditFile, Torn} /\ overlapped' \in BOOLEAN
      /\ ~overlapped' => ~overlapped /\ \A v \in Workers : writing'[v] # "mixed"
  BY Opened
<1>3. \A v \in Workers : memory'[v] = IF v = w THEN t ELSE memory[v]
  BY DEF AuditInv, AuditTypeOK
<1>4. AuditTypeOK'
  <2>1. memory' \in [Workers -> Stores \cup {Closed}]
    BY <1>1 DEF AuditInv, AuditTypeOK
  <2>2. auditFile' \in Stores \cup {Missing, Torn}
    BY <1>2 DEF AuditInv, AuditTypeOK
  <2> QED BY <1>2, <2>1, <2>2 DEF AuditInv, AuditTypeOK
<1>5. BodiesUsed'
  <2>1. ASSUME NEW v \in Workers, memory'[v] # Closed PROVE Said(memory'[v]) \subseteq used'
    BY <1>3, <2>1 DEF AuditInv, BodiesUsed, HasStore
  <2>2. ASSUME auditFile' \in Stores PROVE Said(auditFile') \subseteq used'
    BY <1>2, <2>2, FileAssumption DEF AuditInv, BodiesUsed
  <2> QED BY <2>1, <2>2 DEF BodiesUsed, HasStore
<1>6. StoresSound'
  <2> SUFFICES ASSUME ~overlapped'
               PROVE  /\ \A v \in Workers : memory'[v] # Closed => Chained(memory'[v])
                      /\ auditFile' \in Stores => Chained(auditFile')
                      /\ \A v \in Workers : writing'[v] # "mixed"
    BY DEF StoresSound, HasStore
  <2>1. ASSUME NEW v \in Workers, memory'[v] # Closed PROVE Chained(memory'[v])
    BY <1>2, <1>3, <2>1 DEF AuditInv, StoresSound, HasStore
  <2>2. ASSUME auditFile' \in Stores PROVE Chained(auditFile')
    BY <1>2, <2>2, FileAssumption DEF AuditInv, StoresSound
  <2> QED BY <1>2, <2>1, <2>2
<1>7. WritersOpen'
  BY <1>1, <1>2, <1>3 DEF AuditInv, WritersOpen, HasStore
<1>8. OneWriteSavesAll'
  BY <1>2 DEF OneWriteSavesAll
<1> QED BY <1>4, <1>5, <1>6, <1>7, <1>8 DEF AuditInv

\* What AppendRecord makes of a store.
LEMMA EntryGrows ==
  ASSUME NEW s \in Stores, NEW body \in Bodies
  PROVE  LET t == With(s, Entry(s, body)) IN
         /\ t \in Stores /\ (Chained(s) => Chained(t))
         /\ Said(t) = Said(s) \cup {body}
<1> DEFINE e == Entry(s, body)
<1>1. e \in Records /\ e.body = body
  BY NextEntry
<1>2. With(s, e) \in Stores /\ Said(With(s, e)) = Said(s) \cup {e.body}
  <2> HIDE DEF e
  <2> QED BY <1>1, StoreGrows
<1>3. Chained(s) => Chained(With(s, e))
  BY ChainGrows
<1> QED BY <1>1, <1>2, <1>3

LEMMA AppendHolds ==
  ASSUME AuditInv, NEW w \in Workers, NEW body \in Bodies, AppendRecord(w, body)
  PROVE  AuditInv'
<1> DEFINE t == With(memory[w], Entry(memory[w], body))
<1>0. HasStore(w)
  BY DEF AppendRecord
<1>1. /\ memory[w] \in Stores /\ Said(memory[w]) \subseteq used
      /\ ~overlapped => Chained(memory[w])
  BY <1>0, StoreSound
<1>2. t \in Stores /\ (~overlapped => Chained(t)) /\ Said(t) \subseteq used \cup {body}
  BY <1>1, EntryGrows
<1>3. memory' = [memory EXCEPT ![w] = t]
  BY DEF AppendRecord, AuditInv, AuditTypeOK
<1>4. /\ used' = used \cup {body} /\ used \subseteq Bodies /\ OpenFile(w)
      /\ kept' = kept /\ auditCrashes' = auditCrashes
  BY DEF AppendRecord, AuditInv, AuditTypeOK
<1> HIDE DEF t
<1> QED BY <1>0, <1>2, <1>3, <1>4, ChangeKeeps

LEMMA AttachHolds ==
  ASSUME AuditInv, NEW w \in Workers, NEW a \in Attachments, Attach(w, a)
  PROVE  AuditInv'
<1> DEFINE t == [memory[w] EXCEPT !.attached = @ \cup {a}]
<1>0. HasStore(w)
  BY DEF Attach
<1>1. /\ memory[w] \in Stores /\ Said(memory[w]) \subseteq used
      /\ ~overlapped => Chained(memory[w])
  BY <1>0, StoreSound
<1>2. t \in Stores /\ (~overlapped => Chained(t)) /\ Said(t) \subseteq used
  BY <1>1, AttachedSound
<1>3. memory' = [memory EXCEPT ![w] = t]
  BY DEF Attach, AuditInv, AuditTypeOK
<1>4. used' = used /\ used \subseteq Bodies /\ OpenFile(w) /\ kept' = kept /\ auditCrashes' = auditCrashes
  BY DEF Attach, AuditInv, AuditTypeOK
<1> HIDE DEF t
<1> QED BY <1>0, <1>2, <1>3, <1>4, ChangeKeeps

LEMMA LoadHolds == ASSUME AuditInv, NEW w \in Workers, Load(w) PROVE AuditInv'
<1>1. /\ memory[w] = Closed /\ memory' = [memory EXCEPT ![w] = Found]
      /\ used' = used /\ auditFile' = auditFile /\ writing' = writing /\ writer' = writer
      /\ kept' = kept /\ overlapped' = overlapped /\ auditFaults' = auditFaults /\ auditCrashes' = auditCrashes
  BY DEF Load
<1>2. /\ Found \in Stores /\ Said(Found) \subseteq used /\ Found # Closed
      /\ ~overlapped => Chained(Found)
  BY FoundSound, FileAssumption
<1>3. \A v \in Workers : memory'[v] = IF v = w THEN Found ELSE memory[v]
  BY <1>1 DEF AuditInv, AuditTypeOK
<1>4. AuditTypeOK'
  BY <1>1, <1>2 DEF AuditInv, AuditTypeOK
<1>5. BodiesUsed'
  BY <1>1, <1>2, <1>3 DEF AuditInv, BodiesUsed, HasStore
<1>6. StoresSound'
  BY <1>1, <1>2, <1>3 DEF AuditInv, StoresSound, HasStore
<1>7. WritersOpen'
  BY <1>1, <1>2, <1>3 DEF AuditInv, WritersOpen, HasStore
<1>8. OneWriteSavesAll'
  <2>1. Found' = Found
    BY <1>1 DEF Found
  <2>2. writer # Nobody => writer \in Workers
    BY DEF AuditInv, AuditTypeOK
  <2> QED BY <1>1, <1>3, <2>1, <2>2 DEF AuditInv, OneWriteSavesAll
<1> QED BY <1>4, <1>5, <1>6, <1>7, <1>8 DEF AuditInv

LEMMA StopHolds == ASSUME AuditInv, NEW w \in Workers, Stop(w) PROVE AuditInv'
<1>1. /\ memory' = [memory EXCEPT ![w] = Closed] /\ writing' = [writing EXCEPT ![w] = "no"]
      /\ used' = used /\ auditFile' = auditFile /\ writer' = writer
      /\ kept' = kept /\ overlapped' = overlapped /\ auditFaults' = auditFaults
      /\ auditCrashes' = auditCrashes + 1 /\ auditCrashes < AuditCrashes
  BY DEF Stop
<1>2. \A v \in Workers : /\ memory'[v] = IF v = w THEN Closed ELSE memory[v]
                         /\ writing'[v] = IF v = w THEN "no" ELSE writing[v]
  BY <1>1 DEF AuditInv, AuditTypeOK
<1>3. AuditTypeOK'
  <2>1. auditCrashes' \in 0..AuditCrashes
    BY <1>1, AuditAssumption DEF AuditInv, AuditTypeOK
  <2> QED BY <1>1, <2>1 DEF AuditInv, AuditTypeOK
<1>4. BodiesUsed'
  BY <1>1, <1>2 DEF AuditInv, BodiesUsed, HasStore
<1>5. StoresSound'
  BY <1>1, <1>2 DEF AuditInv, StoresSound, HasStore
<1>6. WritersOpen'
  BY <1>2 DEF AuditInv, WritersOpen, HasStore
<1>7. OneWriteSavesAll'
  <2>1. Found' = Found
    BY <1>1 DEF Found
  <2>2. writer # Nobody => writer \in Workers
    BY DEF AuditInv, AuditTypeOK
  <2> QED BY <1>1, <1>2, <2>1, <2>2 DEF AuditInv, OneWriteSavesAll
<1> QED BY <1>3, <1>4, <1>5, <1>6, <1>7 DEF AuditInv

\* The contents that overlapping writes leave.
LEMMA MixturesSound ==
  ASSUME AuditInv, NEW w \in Workers, HasStore(w), NEW f \in Mixtures(w)
  PROVE  /\ f \in Stores \cup {Torn}
         /\ f \in Stores => Said(f) \subseteq used
<1>1. CASE f = Torn
  BY <1>1, FileAssumption
<1>2. ASSUME NEW u \in Workers, HasStore(u), f = Mixture(memory[u], memory[w])
      PROVE  f \in Stores /\ Said(f) \subseteq used
  BY <1>2, StoreSound, MixtureSays
<1> QED BY <1>1, <1>2 DEF Mixtures

LEMMA WriteFileHolds == ASSUME AuditInv, NEW w \in Workers, WriteFile(w) PROVE AuditInv'
<1>1. /\ writing[w] # "no" /\ writing' = [writing EXCEPT ![w] = "no"]
      /\ memory' = memory /\ used' = used /\ auditFaults' = auditFaults /\ auditCrashes' = auditCrashes
      /\ overlapped' = overlapped
  BY DEF WriteFile
<1>2. /\ HasStore(w) /\ memory[w] \in Stores /\ Said(memory[w]) \subseteq used
      /\ ~overlapped => Chained(memory[w])
      /\ memory[w] \notin {Missing, Torn}
  <2>1. HasStore(w)
    BY <1>1 DEF AuditInv, WritersOpen
  <2> QED BY <2>1, StoreSound, FileAssumption
<1>3. \A v \in Workers : writing'[v] = IF v = w THEN "no" ELSE writing[v]
  BY <1>1 DEF AuditInv, AuditTypeOK
<1>4. /\ auditFile' \in Stores \cup {Torn} /\ (auditFile' \in Stores => Said(auditFile') \subseteq used)
      /\ writer' \in {w, Nobody} /\ (writer' = w => auditFile' = memory[w] \/ w = Nobody)
      /\ writing[w] = "alone" => auditFile' = memory[w]
      /\ kept' = kept \/ kept' = kept \cup Said(memory[w])
  BY <1>2, MixturesSound DEF WriteFile, Written, Said
<1>5. AuditTypeOK'
  <2>1. kept' \subseteq used /\ writer' \in Workers \cup {Nobody}
    BY <1>2, <1>4 DEF AuditInv, AuditTypeOK
  <2> QED BY <1>1, <1>4, <2>1 DEF AuditInv, AuditTypeOK
<1>6. BodiesUsed'
  BY <1>1, <1>4 DEF AuditInv, BodiesUsed, HasStore
<1>7. StoresSound'
  <2> SUFFICES ASSUME ~overlapped PROVE StoresSound'
    BY <1>1 DEF StoresSound
  <2>1. writing[w] = "alone"
    BY <1>1 DEF AuditInv, AuditTypeOK, StoresSound
  <2>2. Chained(auditFile')
    BY <1>2, <1>4, <2>1
  <2> QED BY <1>1, <1>3, <2>2 DEF AuditInv, StoresSound, HasStore
<1>8. WritersOpen'
  BY <1>1, <1>3 DEF AuditInv, WritersOpen, HasStore
<1>9. OneWriteSavesAll'
  BY <1>1, <1>2, <1>4 DEF OneWriteSavesAll, Found
<1> QED BY <1>5, <1>6, <1>7, <1>8, <1>9 DEF AuditInv

LEMMA WriteFailsHolds == ASSUME AuditInv, NEW w \in Workers, WriteFails(w) PROVE AuditInv'
<1>1. /\ writing' = [writing EXCEPT ![w] = "no"] /\ writing[w] # "no" /\ auditFaults < AuditFaults
      /\ memory' = memory /\ used' = used /\ auditFaults' = auditFaults + 1 /\ auditCrashes' = auditCrashes
      /\ writer' = Nobody /\ kept' = kept /\ overlapped' = overlapped
  BY DEF WriteFails
<1>2. \A v \in Workers : writing'[v] = IF v = w THEN "no" ELSE writing[v]
  BY <1>1 DEF AuditInv, AuditTypeOK
<1>3. HasStore(w)
  BY <1>1 DEF AuditInv, WritersOpen
<1>4. /\ auditFile' \in Stores \cup {Missing, Torn} /\ (auditFile' \in Stores => Said(auditFile') \subseteq used)
      /\ writing[w] = "alone" => auditFile' = auditFile
  <2>1. auditFile' = auditFile \/ (writing[w] # "alone" /\ auditFile' \in Mixtures(w))
    BY DEF WriteFails
  <2> QED BY <1>3, <2>1, MixturesSound DEF AuditInv, AuditTypeOK, BodiesUsed
<1>5. AuditTypeOK'
  <2>1. auditFaults' \in 0..AuditFaults
    BY <1>1, AuditAssumption DEF AuditInv, AuditTypeOK
  <2> QED BY <1>1, <1>4, <2>1 DEF AuditInv, AuditTypeOK
<1>6. BodiesUsed'
  BY <1>1, <1>4 DEF AuditInv, BodiesUsed, HasStore
<1>7. StoresSound'
  <2> SUFFICES ASSUME ~overlapped PROVE StoresSound'
    BY <1>1 DEF StoresSound
  <2>1. writing[w] = "alone"
    BY <1>1 DEF AuditInv, AuditTypeOK, StoresSound
  <2> QED BY <1>1, <1>2, <1>4, <2>1 DEF AuditInv, StoresSound, HasStore
<1>8. WritersOpen'
  BY <1>1, <1>2 DEF AuditInv, WritersOpen, HasStore
<1>9. OneWriteSavesAll'
  BY <1>1 DEF OneWriteSavesAll
<1> QED BY <1>5, <1>6, <1>7, <1>8, <1>9 DEF AuditInv

\* The invariant: until two writes overlap the stores of all workers and the
\* file are chains with the head they say and digests that spell them out.
THEOREM AuditInvariance == AuditSpec => []AuditInv
<1>1. AuditInit => AuditInv
  BY AuditInitHolds
<1>2. AuditInv /\ [AuditNext]_auditVars => AuditInv'
  <2> SUFFICES ASSUME AuditInv, [AuditNext]_auditVars PROVE AuditInv'
    OBVIOUS
  <2>1. ASSUME NEW w \in Workers, NEW body \in Bodies, AppendRecord(w, body) PROVE AuditInv'
    BY <2>1, AppendHolds
  <2>2. ASSUME NEW w \in Workers, NEW a \in Attachments, Attach(w, a) PROVE AuditInv'
    BY <2>2, AttachHolds
  <2>3. ASSUME NEW w \in Workers, Load(w) PROVE AuditInv'
    BY <2>3, LoadHolds
  <2>4. ASSUME NEW w \in Workers, Stop(w) PROVE AuditInv'
    BY <2>4, StopHolds
  <2>5. ASSUME NEW w \in Workers, WriteFile(w) PROVE AuditInv'
    BY <2>5, WriteFileHolds
  <2>6. ASSUME NEW w \in Workers, WriteFails(w) PROVE AuditInv'
    BY <2>6, WriteFailsHolds
  <2>7. CASE UNCHANGED auditVars
    <3>1. AuditTypeOK' /\ BodiesUsed'
      BY <2>7 DEF auditVars, AuditInv, AuditTypeOK, BodiesUsed, HasStore
    <3>2. StoresSound' /\ WritersOpen'
      BY <2>7 DEF auditVars, AuditInv, StoresSound, WritersOpen, HasStore
    <3>3. OneWriteSavesAll'
      BY <2>7 DEF auditVars, AuditInv, OneWriteSavesAll, Found
    <3> QED BY <3>1, <3>2, <3>3 DEF AuditInv
  <2> QED BY <2>1, <2>2, <2>3, <2>4, <2>5, <2>6, <2>7 DEF AuditNext
<1> QED BY <1>1, <1>2, PTL DEF AuditSpec

\* Type correctness of the workers' stores and their file.
THEOREM AuditTypeCorrect == AuditSpec => []AuditTypeOK
<1>1. AuditInv => AuditTypeOK
  BY DEF AuditInv
<1> QED BY <1>1, AuditInvariance, PTL

\* The integrity check never reports a break that nobody made, until two
\* writes overlap.
THEOREM ChainAlwaysIntact == AuditSpec => []ChainIntact
<1>1. AuditInv => ChainIntact
  BY DEF AuditInv, StoresSound, Chained, ChainIntact
<1> QED BY <1>1, AuditInvariance, PTL

\* A complete write makes everything durable, earlier failures included.
THEOREM WriteMakesDurable == AuditSpec => []OneWriteSavesAll
<1>1. AuditInv => OneWriteSavesAll
  BY DEF AuditInv
<1> QED BY <1>1, AuditInvariance, PTL

-----------------------------------------------------------------------------
(* What the chain shows *)

\* Two chains with a digest in common have everything before it in common.
LEMMA SamePast ==
  ASSUME NEW s \in Stores, NEW t \in Stores, Chained(s), Chained(t),
         NEW i \in DOMAIN s.records \cap DOMAIN t.records,
         s.records[i].hash = t.records[i].hash,
         NEW j \in 1..i
  PROVE  s.records[j] = t.records[j]
<1>1. /\ i \in Nat /\ j \in Nat /\ 1 <= j /\ j <= i
      /\ 1..i \subseteq DOMAIN s.records /\ 1..i \subseteq DOMAIN t.records
  BY StoreShape
<1>2. \A k \in 1..i : s.records[k].body = t.records[k].body
  <2>1. [k \in 1..i |-> <<k, s.records[k].body>>] = [k \in 1..i |-> <<k, t.records[k].body>>]
    BY DEF Chained, Spelled
  <2> SUFFICES ASSUME NEW k \in 1..i PROVE s.records[k].body = t.records[k].body
    OBVIOUS
  <2>2. <<k, s.records[k].body>> = <<k, t.records[k].body>>
    BY <2>1
  <2> QED BY <2>2
<1>3. \A k \in 1..i : s.records[k].hash = t.records[k].hash
  <2> SUFFICES ASSUME NEW k \in 1..i PROVE s.records[k].hash = t.records[k].hash
    OBVIOUS
  <2>1. /\ s.records[k].hash = [l \in 1..k |-> <<l, s.records[l].body>>]
        /\ t.records[k].hash = [l \in 1..k |-> <<l, t.records[l].body>>]
    BY <1>1 DEF Chained, Spelled
  <2>2. \A l \in 1..k : s.records[l].body = t.records[l].body
    BY <1>1, <1>2
  <2> QED BY <2>1, <2>2
<1>4. s.records[j].prev = t.records[j].prev
  <2>1. /\ s.records[j].prev = IF j = 1 THEN Genesis ELSE s.records[j - 1].hash
        /\ t.records[j].prev = IF j = 1 THEN Genesis ELSE t.records[j - 1].hash
    BY <1>1 DEF Chained, ChainOf, Verified
  <2>2. j # 1 => j - 1 \in 1..i
    BY <1>1
  <2> QED BY <1>3, <2>1, <2>2
<1>5. s.records[j].sequence = j /\ t.records[j].sequence = j
  BY <1>1 DEF Chained, ChainOf
<1>6. s.records[j] \in Records /\ t.records[j] \in Records
  BY <1>1, StoreShape
<1> QED BY <1>2, <1>3, <1>4, <1>5, <1>6 DEF Records

\* Copies of the log that agree on a digest agree on all that led to it.
THEOREM CopiesAgree == AuditSpec => []HeadsDecide
<1>1. AuditInv => HeadsDecide
  <2> SUFFICES ASSUME AuditInv, ~overlapped PROVE HeadsDecide
    BY DEF HeadsDecide
  <2>1. \A s \in Copies : s \in Stores /\ Chained(s)
    BY FoundSound, StoreSound DEF Copies
  <2> QED BY <2>1, SamePast DEF HeadsDecide
<1> QED BY <1>1, AuditInvariance, PTL

-----------------------------------------------------------------------------
(* Histories that part stay apart *)

\* Copies whose histories are ones that there were, or empty, share as before.
LEMMA SharingKept ==
  ASSUME NEW S, NEW T, NEW s \in T, NEW t \in T,
         \A u, v \in S : SharePast(u.records, v.records),
         \A u \in T : u.records = <<>> \/ \E v \in S : u.records = v.records
  PROVE  SharePast(s.records, t.records)
<1>1. CASE s.records = <<>> \/ t.records = <<>>
  <2>1. DOMAIN <<>> = {}
    BY EmptySeq
  <2> QED BY <1>1, <2>1 DEF SharePast
<1>2. CASE ~(s.records = <<>> \/ t.records = <<>>)
  <2>1. PICK u \in S : s.records = u.records
    BY <1>2
  <2>2. PICK v \in S : t.records = v.records
    BY <1>2
  <2> QED BY <2>1, <2>2
<1> QED BY <1>1, <1>2

\* A history that goes on with a record nobody has shares what it shared.
LEMMA SharingGrows ==
  ASSUME NEW n \in Nat, NEW a, NEW b, NEW c,
         DOMAIN a = 1..n, DOMAIN b = 1..(n + 1),
         \A k \in 1..n : b[k] = a[k],
         SharePast(a, c), SharePast(c, a),
         \A j \in DOMAIN c : c[j].body # b[n + 1].body
  PROVE  SharePast(b, c) /\ SharePast(c, b)
<1>1. SharePast(b, c)
  <2> SUFFICES ASSUME NEW i \in 1..(n + 1), NEW j \in DOMAIN c, b[i].body = c[j].body
               PROVE  i = j /\ \A k \in 1..i : b[k] = c[k]
    BY DEF SharePast
  <2>1. i \in 1..n
    OBVIOUS
  <2>2. a[i].body = c[j].body
    BY <2>1
  <2>3. i = j /\ \A k \in 1..i : a[k] = c[k]
    BY <2>1, <2>2 DEF SharePast
  <2> QED BY <2>1, <2>3
<1>2. SharePast(c, b)
  <2> SUFFICES ASSUME NEW i \in 1..(n + 1), NEW j \in DOMAIN c, b[i].body = c[j].body
               PROVE  i = j /\ \A k \in 1..j : c[k] = b[k]
    BY DEF SharePast
  <2>1. i \in 1..n
    OBVIOUS
  <2>2. a[i].body = c[j].body
    BY <2>1
  <2>3. i = j /\ \A k \in 1..j : c[k] = a[k]
    BY <2>1, <2>2 DEF SharePast
  <2> QED BY <2>1, <2>3
<1> QED BY <1>1, <1>2

\* It has no record twice, either.
LEMMA SharingItself ==
  ASSUME NEW n \in Nat, NEW a, NEW b,
         DOMAIN a = 1..n, DOMAIN b = 1..(n + 1),
         \A k \in 1..n : b[k] = a[k],
         SharePast(a, a),
         \A j \in 1..n : a[j].body # b[n + 1].body
  PROVE  SharePast(b, b)
<1> SUFFICES ASSUME NEW i \in 1..(n + 1), NEW j \in 1..(n + 1), b[i].body = b[j].body
             PROVE  i = j
  BY DEF SharePast
<1>1. CASE i \in 1..n /\ j \in 1..n
  <2>1. a[i].body = a[j].body
    BY <1>1
  <2> QED BY <1>1, <2>1 DEF SharePast
<1>2. CASE i \in 1..n /\ j = n + 1
  BY <1>2
<1>3. CASE i = n + 1 /\ j \in 1..n
  BY <1>3
<1>4. CASE i = n + 1 /\ j = n + 1
  BY <1>4
<1> QED BY <1>1, <1>2, <1>3, <1>4

\* The histories of the copies, and that all that is in them was said.
LEMMA CopiesUsed ==
  ASSUME AuditInv
  PROVE  \A s \in Copies : s \in Stores /\ Said(s) \subseteq used
BY FoundSound, StoreSound DEF Copies

\* A step after which every copy has the history of one that there was, or
\* none, keeps the branches apart.
LEMMA ForksKept ==
  ASSUME ForksStayApart,
         \A u \in Copies' : u.records = <<>> \/ \E v \in Copies : u.records = v.records
  PROVE  ForksStayApart'
<1> SUFFICES ASSUME NEW s \in Copies', NEW t \in Copies' PROVE SharePast(s.records, t.records)
  BY DEF ForksStayApart
<1>1. \A u, v \in Copies : SharePast(u.records, v.records)
  BY DEF ForksStayApart
<1> DEFINE S == Copies
           T == Copies'
<1>2. /\ \A u, v \in S : SharePast(u.records, v.records)
      /\ \A u \in T : u.records = <<>> \/ \E v \in S : u.records = v.records
      /\ s \in T /\ t \in T
  BY <1>1
<1> HIDE DEF S, T
<1> QED BY <1>2, SharingKept

LEMMA AppendForks ==
  ASSUME AuditInv, ForksStayApart, NEW w \in Workers, NEW body \in Bodies, AppendRecord(w, body)
  PROVE  ForksStayApart'
<1> DEFINE a == memory[w]
           e == Entry(a, body)
           b == With(a, e)
           n == Len(a.records)
<1>1. HasStore(w) /\ a \in Stores /\ a \in Copies /\ body \notin used
  BY StoreSound DEF AppendRecord, Copies
<1>2. e \in Records /\ e.body = body
  BY <1>1, NextEntry
<1>3. n \in Nat /\ DOMAIN a.records = 1..n
  BY <1>1, StoreShape
<1>4. memory' = [memory EXCEPT ![w] = b] /\ OpenFile(w)
  BY DEF AppendRecord, AuditInv, AuditTypeOK
<1> HIDE DEF e
<1>5. /\ b \in Stores /\ DOMAIN b.records = 1..(n + 1)
      /\ \A i \in 1..n : b.records[i] = a.records[i]
      /\ b.records[n + 1] = e
  BY <1>1, <1>2, StoreGrows
<1>6. auditFile' \in {auditFile, Torn}
  BY <1>4, Opened
<1>7. \A u \in Workers : memory'[u] = IF u = w THEN b ELSE memory[u]
  BY <1>4 DEF AuditInv, AuditTypeOK
<1>8. Found' \in {Found, Blank}
  BY <1>6 DEF Found
<1>9. \A u \in Copies' : u = b \/ u \in Copies \/ u = Blank
  BY <1>7, <1>8 DEF Copies, HasStore
<1>10. \A u \in Copies : \A j \in DOMAIN u.records : u.records[j].body # body
  BY <1>1, CopiesUsed DEF Said
<1> HIDE DEF a, b, n
<1>11. \A u \in Copies : SharePast(b.records, u.records) /\ SharePast(u.records, b.records)
  <2> SUFFICES ASSUME NEW u \in Copies
               PROVE  SharePast(b.records, u.records) /\ SharePast(u.records, b.records)
    OBVIOUS
  <2>1. SharePast(a.records, u.records) /\ SharePast(u.records, a.records)
    BY <1>1 DEF ForksStayApart
  <2>2. \A j \in DOMAIN u.records : u.records[j].body # b.records[n + 1].body
    BY <1>2, <1>5, <1>10
  <2> QED BY <1>3, <1>5, <2>1, <2>2, SharingGrows
<1>12. SharePast(b.records, b.records)
  <2>1. SharePast(a.records, a.records)
    BY <1>1 DEF ForksStayApart
  <2>2. \A j \in 1..n : a.records[j].body # b.records[n + 1].body
    BY <1>1, <1>2, <1>3, <1>5, <1>10
  <2> QED BY <1>3, <1>5, <2>1, <2>2, SharingItself
<1>13. Blank.records = <<>> /\ DOMAIN <<>> = {}
  BY EmptySeq DEF Blank
<1> SUFFICES ASSUME NEW s \in Copies', NEW t \in Copies' PROVE SharePast(s.records, t.records)
  BY DEF ForksStayApart
<1>14. CASE s = Blank \/ t = Blank
  BY <1>13, <1>14 DEF SharePast
<1>15. CASE s = b /\ t = b
  BY <1>12, <1>15
<1>16. CASE s = b /\ t \in Copies
  BY <1>11, <1>16
<1>17. CASE s \in Copies /\ t = b
  BY <1>11, <1>17
<1>18. CASE s \in Copies /\ t \in Copies
  BY <1>18 DEF ForksStayApart
<1> QED BY <1>9, <1>14, <1>15, <1>16, <1>17, <1>18

\* Every other step leaves each copy a history that there was.
LEMMA OthersFork ==
  ASSUME AuditInv, ForksStayApart, NEW w \in Workers,
         \/ \E a \in Attachments : Attach(w, a)
         \/ Load(w) \/ Stop(w) \/ WriteFile(w) \/ WriteFails(w)
  PROVE  ForksStayApart'
<1> SUFFICES \A u \in Copies' : u.records = <<>> \/ \E v \in Copies : u.records = v.records
  BY ForksKept
<1>1. Blank.records = <<>> /\ Found \in Copies
  BY DEF Blank, Copies
<1>2. ASSUME NEW a \in Attachments, Attach(w, a)
      PROVE  \A u \in Copies' : u.records = <<>> \/ \E v \in Copies : u.records = v.records
  <2> DEFINE t == [memory[w] EXCEPT !.attached = @ \cup {a}]
  <2>1. HasStore(w) /\ memory[w] \in Stores /\ memory[w] \in Copies
    BY <1>2, StoreSound DEF Attach, Copies
  <2>2. t.records = memory[w].records
    BY <2>1 DEF Stores
  <2>3. memory' = [memory EXCEPT ![w] = t] /\ OpenFile(w)
    BY <1>2 DEF Attach, AuditInv, AuditTypeOK
  <2> HIDE DEF t
  <2>4. auditFile' \in {auditFile, Torn}
    BY <2>3, Opened
  <2>5. \A u \in Workers : memory'[u] = IF u = w THEN t ELSE memory[u]
    BY <2>3 DEF AuditInv, AuditTypeOK
  <2>6. Found' \in {Found, Blank}
    BY <2>4 DEF Found
  <2>7. \A u \in Copies' : u = t \/ u \in Copies \/ u = Blank
    BY <2>5, <2>6 DEF Copies, HasStore
  <2> QED BY <1>1, <2>1, <2>2, <2>7
<1>3. CASE Load(w)
  <2>1. memory' = [memory EXCEPT ![w] = Found] /\ auditFile' = auditFile
    BY <1>3 DEF Load
  <2>2. Found' = Found
    BY <2>1 DEF Found
  <2>3. \A u \in Workers : memory'[u] = IF u = w THEN Found ELSE memory[u]
    BY <2>1 DEF AuditInv, AuditTypeOK
  <2>4. \A u \in Copies' : u \in Copies
    BY <1>1, <2>2, <2>3 DEF Copies, HasStore
  <2> QED BY <2>4
<1>4. CASE Stop(w)
  <2>1. memory' = [memory EXCEPT ![w] = Closed] /\ auditFile' = auditFile
    BY <1>4 DEF Stop
  <2>2. Found' = Found
    BY <2>1 DEF Found
  <2>3. \A u \in Workers : memory'[u] = IF u = w THEN Closed ELSE memory[u]
    BY <2>1 DEF AuditInv, AuditTypeOK
  <2>4. \A u \in Copies' : u \in Copies
    BY <2>2, <2>3 DEF Copies, HasStore
  <2> QED BY <2>4
<1>5. ASSUME memory' = memory, HasStore(w),
             auditFile' \in {auditFile, memory[w]} \cup Mixtures(w)
      PROVE  \A u \in Copies' : u.records = <<>> \/ \E v \in Copies : u.records = v.records
  <2>1. memory[w] \in Copies /\ memory[w] \in Stores
    BY <1>5, StoreSound DEF Copies
  <2>2. Found' = Blank \/ Found' = Found \/ Found'.records = memory[w].records
    <3>1. CASE auditFile' = auditFile
      BY <3>1 DEF Found
    <3>2. CASE auditFile' = memory[w] \/ auditFile' = Torn
      BY <3>2 DEF Found
    <3>3. ASSUME NEW u \in Workers, HasStore(u), auditFile' = Mixture(memory[u], memory[w])
          PROVE  Found' = Blank \/ Found'.records = memory[w].records
      <4>1. memory[u] \in Stores
        BY <3>3, StoreSound
      <4>2. auditFile'.records = memory[w].records
        BY <2>1, <3>3, <4>1, MixtureSays
      <4> QED BY <4>2 DEF Found
    <3> QED BY <1>5, <3>1, <3>2, <3>3 DEF Mixtures
  <2>3. \A u \in Copies' : u \in Copies \/ u = Found'
    BY <1>5 DEF Copies, HasStore
  <2> QED BY <1>1, <2>1, <2>2, <2>3
<1>6. CASE WriteFile(w)
  <2>1. memory' = memory /\ HasStore(w) /\ auditFile' \in {memory[w]} \cup Mixtures(w)
    BY <1>6 DEF WriteFile, AuditInv, WritersOpen
  <2> QED BY <1>5, <2>1
<1>7. CASE WriteFails(w)
  <2>1. memory' = memory /\ HasStore(w) /\ auditFile' \in {auditFile} \cup Mixtures(w)
    BY <1>7 DEF WriteFails, AuditInv, WritersOpen
  <2> QED BY <1>5, <2>1
<1> QED BY <1>2, <1>3, <1>4, <1>6, <1>7

\* The histories of the workers' copies and of the file never mix: two which
\* have a record in common have all in common that led to it.
THEOREM BranchesStayApart == AuditSpec => []ForksStayApart
<1>1. AuditInit => ForksStayApart
  <2> SUFFICES ASSUME AuditInit PROVE ForksStayApart
    OBVIOUS
  <2>1. Copies = {Blank}
    BY DEF AuditInit, Copies, HasStore, Found
  <2>2. Blank.records = <<>> /\ DOMAIN <<>> = {}
    BY EmptySeq DEF Blank
  <2> QED BY <2>1, <2>2 DEF ForksStayApart, SharePast
<1>2. AuditInv /\ ForksStayApart /\ [AuditNext]_auditVars => ForksStayApart'
  <2> SUFFICES ASSUME AuditInv, ForksStayApart, [AuditNext]_auditVars PROVE ForksStayApart'
    OBVIOUS
  <2>1. ASSUME NEW w \in Workers, NEW body \in Bodies, AppendRecord(w, body) PROVE ForksStayApart'
    BY <2>1, AppendForks
  <2>2. ASSUME NEW w \in Workers,
               \/ \E a \in Attachments : Attach(w, a)
               \/ Load(w) \/ Stop(w) \/ WriteFile(w) \/ WriteFails(w)
        PROVE  ForksStayApart'
    BY <2>2, OthersFork
  <2>3. CASE UNCHANGED auditVars
    BY <2>3 DEF auditVars, ForksStayApart, Copies, HasStore, Found
  <2> QED BY <2>1, <2>2, <2>3 DEF AuditNext
<1> QED BY <1>1, <1>2, AuditInvariance, PTL DEF AuditSpec

-----------------------------------------------------------------------------
(* One worker *)

\* What a worker without company keeps: whatever was written is in memory,
\* and memory is in the file unless a write is going on or none ever was.
Behind(w) ==
  /\ writing[w] \in {"no", "alone"}
  /\ ~HasStore(w) => auditFile = Missing /\ kept = {}
  /\ HasStore(w) =>
       /\ kept \subseteq Said(memory[w])
       /\ writing[w] = "no" => auditFile = memory[w] \/ (auditFile = Missing /\ kept = {})

\* A change of the store of the only worker, up to the opening of the file.
LEMMA ChangeBehind ==
  ASSUME AuditInv, NEW w \in Workers, Workers = {w}, AuditFaults = 0, Behind(w),
         HasStore(w), OpenFile(w), kept' = kept,
         NEW t \in Stores, memory' = [memory EXCEPT ![w] = t],
         Said(memory[w]) \subseteq Said(t)
  PROVE  Behind(w)'
<1>1. memory'[w] = t /\ t # Closed
  BY FileAssumption DEF AuditInv, AuditTypeOK
<1>2. writing'[w] = "alone"
  <2>1. ~OthersWrite(w)
    BY DEF OthersWrite
  <2>2. ~(auditFaults < AuditFaults)
    BY DEF AuditInv, AuditTypeOK
  <2>3. writing' = [v \in Workers |->
          IF v = w THEN IF OthersWrite(w) THEN "mixed" ELSE "alone"
          ELSE IF writing[v] = "no" THEN "no" ELSE "mixed"]
    BY <2>2 DEF OpenFile
  <2> QED BY <2>1, <2>3
<1> QED BY <1>1, <1>2 DEF Behind, HasStore

\* With one worker that never fails to write and never ends, the file is the
\* append-only log that the platform is described as.
THEOREM AloneAppendOnly ==
  ASSUME NEW w, Workers = {w}, AuditFaults = 0, AuditCrashes = 0
  PROVE  AuditSpec => []AppendOnly
<1>1. AuditInit => Behind(w)
  BY DEF AuditInit, Behind, HasStore
<1>2. AuditInv /\ Behind(w) /\ [AuditNext]_auditVars => Behind(w)'
  <2> SUFFICES ASSUME AuditInv, Behind(w), [AuditNext]_auditVars PROVE Behind(w)'
    OBVIOUS
  <2>1. ASSUME NEW body \in Bodies, AppendRecord(w, body) PROVE Behind(w)'
    <3> DEFINE t == With(memory[w], Entry(memory[w], body))
    <3>1. HasStore(w)
      BY <2>1 DEF AppendRecord
    <3>2. t \in Stores /\ Said(memory[w]) \subseteq Said(t)
      BY <3>1, StoreSound, EntryGrows
    <3>3. memory' = [memory EXCEPT ![w] = t] /\ OpenFile(w) /\ kept' = kept
      BY <2>1 DEF AppendRecord, AuditInv, AuditTypeOK
    <3> HIDE DEF t
    <3> QED BY <3>1, <3>2, <3>3, ChangeBehind
  <2>2. ASSUME NEW a \in Attachments, Attach(w, a) PROVE Behind(w)'
    <3> DEFINE t == [memory[w] EXCEPT !.attached = @ \cup {a}]
    <3>1. HasStore(w)
      BY <2>2 DEF Attach
    <3>2. t \in Stores /\ Said(memory[w]) \subseteq Said(t)
      BY <3>1, StoreSound, AttachedSound
    <3>3. memory' = [memory EXCEPT ![w] = t] /\ OpenFile(w) /\ kept' = kept
      BY <2>2 DEF Attach, AuditInv, AuditTypeOK
    <3> HIDE DEF t
    <3> QED BY <3>1, <3>2, <3>3, ChangeBehind
  <2>3. CASE Load(w)
    <3>1. memory[w] = Closed /\ auditFile = Missing /\ kept = {} /\ memory' = [memory EXCEPT ![w] = Found]
          /\ auditFile' = auditFile /\ kept' = kept /\ writing' = writing
      BY <2>3 DEF Load, Behind, HasStore
    <3>2. memory'[w] = Found
      BY <3>1 DEF AuditInv, AuditTypeOK
    <3>3. Found # Closed
      BY FoundSound, FileAssumption
    <3> QED BY <3>1, <3>2, <3>3 DEF Behind, HasStore
  <2>4. CASE WriteFile(w)
    <3>1. memory' = memory /\ writing'[w] = "no" /\ auditFile' = memory[w]
          /\ kept' = kept \cup Said(memory[w])
      BY <2>4 DEF WriteFile, Written, Said, Behind, AuditInv, AuditTypeOK
    <3>2. HasStore(w)
      BY <2>4 DEF WriteFile, AuditInv, WritersOpen
    <3> QED BY <3>1, <3>2 DEF Behind, HasStore, Said
  <2>5. ~Stop(w) /\ ~WriteFails(w)
    BY DEF Stop, WriteFails, AuditInv, AuditTypeOK
  <2>6. CASE UNCHANGED auditVars
    BY <2>6 DEF auditVars, Behind, HasStore, Said
  <2> QED BY <2>1, <2>2, <2>3, <2>4, <2>5, <2>6 DEF AuditNext
<1>3. AuditInv /\ Behind(w) => AppendOnly
  <2> SUFFICES ASSUME AuditInv, Behind(w), writing[w] = "no"
               PROVE  kept \subseteq Said(Found)
    BY DEF AppendOnly, Said
  <2>1. CASE kept = {}
    BY <2>1
  <2>2. CASE HasStore(w) /\ auditFile = memory[w] /\ kept \subseteq Said(memory[w])
    <3>1. Found = memory[w]
      BY <2>2, FileAssumption DEF Found, AuditInv, AuditTypeOK, HasStore
    <3> QED BY <2>2, <3>1
  <2> QED BY <2>1, <2>2 DEF Behind
<1> QED BY <1>1, <1>2, <1>3, AuditInvariance, PTL DEF AuditSpec

-----------------------------------------------------------------------------
(* Gateway: what the sliding windows forget is not needed.                   *)

Admissions == [identity : Identities, at : Nat, limit : Nat]
Sightings == [peer : Peers, path : ProbePaths, at : Nat, reported : BOOLEAN]
Probes == [path : ProbePaths, at : Nat]

TimesOf(all) == [k \in DOMAIN all |-> all[k].at]
PathsOf(all) == {all[k].path : k \in DOMAIN all}

\* What the limiter remembers of an identity are its admissions, and what it
\* has forgotten had left the window: f finds the admission of every hit.
Traces(f, h, list, i, now) ==
  /\ f \in [1..Len(h) -> 1..Len(list)]
  /\ \A j \in 1..Len(h) : list[f[j]].at = h[j]
  /\ \A k \in 1..Len(list) :
       list[k].identity = i => list[k].at + RateWindow < now \/ \E j \in 1..Len(h) : f[j] = k
Traced(h, list, i, now) == \E f : Traces(f, h, list, i, now)

WithinLimit(list, n) ==
  Cardinality({k \in 1..n : /\ list[k].identity = list[n].identity
                            /\ list[k].at + RateWindow >= list[n].at}) <= list[n].limit

\* The detector remembers a sighting until it leaves the window, in order.
Remembers(seen, list, p, now) ==
  /\ \A j, k \in 1..Len(seen) : j <= k => seen[j].at <= seen[k].at
  /\ \A j \in 1..Len(seen) : seen[j].at <= now
  /\ \A j \in 1..Len(seen) : \E k \in 1..Len(list) :
       list[k].peer = p /\ list[k].path = seen[j].path /\ list[k].at = seen[j].at
  /\ \A k \in 1..Len(list) :
       list[k].peer = p =>
         \/ list[k].at + ProbeWindow < now
         \/ \E j \in 1..Len(seen) : seen[j].path = list[k].path /\ seen[j].at = list[k].at

PathsNear(list, n) ==
  {list[k].path : k \in {j \in 1..n : list[j].peer = list[n].peer
                                      /\ list[j].at + ProbeWindow >= list[n].at}}
RightlyReported(list, n) ==
  list[n].reported <=> Cardinality(PathsNear(list, n)) >= ProbeThreshold

SocketsOK ==
  \A s \in Sockets : sockets[s].stage = "admitted" =>
    sockets[s].identity \in Identities /\ sockets[s].limit \in Nat
LimiterOK ==
  /\ hits \in [Identities -> Seq(Nat)] /\ admissions \in Seq(Admissions)
  /\ \A i \in Identities : Traced(hits[i], admissions, i, gatewayClock)
  /\ \A n \in 1..Len(admissions) : WithinLimit(admissions, n)
DetectorOK ==
  /\ probes \in [Peers -> Seq(Probes)] /\ sightings \in Seq(Sightings)
  /\ \A p \in Peers : Remembers(probes[p], sightings, p, gatewayClock)
  /\ \A n \in 1..Len(sightings) : RightlyReported(sightings, n)
GatewayInv ==
  /\ gatewayClock \in Nat /\ DOMAIN sockets = Sockets
  /\ SocketsOK /\ LimiterOK /\ DetectorOK

-----------------------------------------------------------------------------

\* Dropping from the left ends at the first hit within the window.
LEMMA FirstKeptIs ==
  ASSUME gatewayClock \in Nat, NEW times \in Seq(Nat), NEW width \in Nat
  PROVE  LET n == FirstKept(times, width)
         IN /\ n \in 1..Len(times) + 1
            /\ \A k \in 1..n - 1 : times[k] + width < gatewayClock
            /\ n \in 1..Len(times) => times[n] + width >= gatewayClock
<1> DEFINE First(n) == /\ \A k \in 1..n - 1 : ~InWindow(times[k], width)
                       /\ n \in 1..Len(times) => InWindow(times[n], width)
           P == {k \in Nat : \A j \in 1..k : ~InWindow(times[j], width)}
           len == Len(times)
<1>1. len \in Nat /\ DOMAIN times = 1..len /\ \A k \in 1..len : times[k] \in Nat
  BY LenProperties, ElementOfSeq
<1> HIDE DEF len
<1>2. \E n \in 1..len + 1 : First(n)
  <2> SUFFICES ASSUME \A n \in 1..len + 1 : ~First(n) PROVE FALSE
    OBVIOUS
  <2>1. 0 \in P
    OBVIOUS
  <2>2. ASSUME NEW i \in 1..len, i - 1 \in P PROVE i \in P
    <3>1. i \in 1..len + 1 /\ i \in Nat
      BY <1>1
    <3>2. ~InWindow(times[i], width)
      BY <2>2, <3>1 DEF len
    <3>3. \A j \in 1..i : j \in 1..i - 1 \/ j = i
      BY <3>1
    <3> QED
      BY <2>2, <3>1, <3>2, <3>3
  <2> HIDE DEF P
  <2>3. len \in P
    <3>1. 0..len \subseteq P
      BY <1>1, <2>1, <2>2, UpToInduction
    <3>2. len \in 0..len
      BY <1>1
    <3> QED
      BY <3>1, <3>2
  <2>4. len + 1 \in 1..len + 1 /\ (len + 1) - 1 = len /\ len + 1 \notin 1..len
    BY <1>1
  <2>5. First(len + 1)
    BY <2>3, <2>4 DEF P, len
  <2> QED
    BY <2>4, <2>5
<1>3. FirstKept(times, width) = CHOOSE n \in 1..len + 1 : First(n)
  BY <1>1 DEF FirstKept, len
<1> DEFINE n == FirstKept(times, width)
<1>4. n \in 1..len + 1 /\ First(n)
  BY <1>2, <1>3
<1> HIDE DEF n
<1>5. ASSUME NEW k \in 1..n - 1 PROVE times[k] + width < gatewayClock
  <2>1. k \in 1..len
    BY <1>1, <1>4
  <2>2. ~(times[k] + width >= gatewayClock) /\ times[k] \in Nat
    BY <1>1, <1>4, <2>1 DEF InWindow
  <2> QED
    BY <2>2
<1>6. n \in 1..len => times[n] + width >= gatewayClock
  BY <1>4 DEF InWindow, len
<1> QED
  BY <1>4, <1>5, <1>6 DEF n, len

LEMMA PopleftIs ==
  ASSUME NEW S, NEW s \in Seq(S), NEW times, NEW width, FirstKept(times, width) \in 1..Len(s) + 1
  PROVE  LET n == FirstKept(times, width)
         IN /\ Popleft(s, times, width) \in Seq(S)
            /\ Len(Popleft(s, times, width)) = Len(s) - n + 1
            /\ \A j \in 1..Len(s) - n + 1 : Popleft(s, times, width)[j] = s[n + j - 1]
<1> DEFINE n == FirstKept(times, width)
<1>1. Len(s) \in Nat /\ \A j \in 1..Len(s) : s[j] \in S
  BY LenProperties, ElementOfSeq
<1>2. n \in Int /\ Len(s) \in Int /\ \A j \in n..Len(s) : s[j] \in S
  BY <1>1
<1>3. (IF n <= Len(s) THEN Len(s) - n + 1 ELSE 0) = Len(s) - n + 1
  BY <1>1
<1> HIDE DEF n
<1>4. /\ SubSeq(s, n, Len(s)) \in Seq(S) /\ Len(SubSeq(s, n, Len(s))) = Len(s) - n + 1
      /\ \A j \in 1..Len(s) - n + 1 : SubSeq(s, n, Len(s))[j] = s[n + j - 1]
  BY <1>2, <1>3, SubSeqProperties
<1> QED
  BY <1>4 DEF Popleft, n

LEMMA GatewayInvInit == GatewayInit => GatewayInv
<1> SUFFICES ASSUME GatewayInit PROVE GatewayInv
  OBVIOUS
<1>1. gatewayClock = 0 /\ admissions = <<>> /\ sightings = <<>> /\ hits = [i \in Identities |-> <<>>]
      /\ probes = [p \in Peers |-> <<>>] /\ sockets = [s \in Sockets |-> ClosedSocket]
  BY DEF GatewayInit
<1>2. Len(<<>>) = 0 /\ <<>> \in Seq(Nat) /\ <<>> \in Seq(Admissions) /\ <<>> \in Seq(Probes) /\ <<>> \in Seq(Sightings)
  BY EmptySeq
<1>3. 1..0 = {}
  OBVIOUS
<1>4. ASSUME NEW i PROVE Traced(<<>>, <<>>, i, 0)
  <2>1. [j \in {} |-> 0] \in [1..0 -> 1..0]
    BY <1>3
  <2>2. Traces([j \in {} |-> 0], <<>>, <<>>, i, 0)
    BY <1>2, <1>3, <2>1 DEF Traces
  <2> QED
    BY <2>2 DEF Traced
<1>5. SocketsOK
  BY <1>1 DEF SocketsOK, ClosedSocket
<1>6. LimiterOK
  BY <1>1, <1>2, <1>3, <1>4 DEF LimiterOK
<1>7. DetectorOK
  BY <1>1, <1>2, <1>3 DEF DetectorOK, Remembers
<1> QED
  BY <1>1, <1>5, <1>6, <1>7 DEF GatewayInv

\* An admission is added: the hits that were kept and the new one are traced.
LEMMA AdmissionTraced ==
  ASSUME NEW h \in Seq(Nat), NEW list \in Seq(Admissions), NEW i \in Identities, NEW limit \in Nat,
         gatewayClock \in Nat, RateWindow \in Nat, Traced(h, list, i, gatewayClock),
         NEW keeps, keeps = Popleft(h, h, RateWindow)
  PROVE  LET longer == Append(list, [identity |-> i, at |-> gatewayClock, limit |-> limit])
         IN /\ keeps \in Seq(Nat) /\ Traced(keeps, list, i, gatewayClock)
            /\ Append(keeps, gatewayClock) \in Seq(Nat)
            /\ Traced(Append(keeps, gatewayClock), longer, i, gatewayClock)
<1> DEFINE n == FirstKept(h, RateWindow)
           a == [identity |-> i, at |-> gatewayClock, limit |-> limit]
           longer == Append(list, a)
           more == Append(keeps, gatewayClock)
           L == Len(list)
           H == Len(h)
           K == H - n + 1
<1>1. L \in Nat /\ H \in Nat /\ \A k \in 1..L : list[k] \in Admissions
  BY LenProperties, ElementOfSeq
<1>2. /\ n \in 1..H + 1
      /\ \A k \in 1..n - 1 : h[k] + RateWindow < gatewayClock
  BY FirstKeptIs
<1>3. /\ keeps \in Seq(Nat) /\ Len(keeps) = K
      /\ \A j \in 1..K : keeps[j] = h[n + j - 1]
  <2>1. FirstKept(h, RateWindow) \in 1..Len(h) + 1
    BY <1>2
  <2> HIDE DEF n
  <2>2. /\ Popleft(h, h, RateWindow) \in Seq(Nat)
        /\ Len(Popleft(h, h, RateWindow)) = Len(h) - FirstKept(h, RateWindow) + 1
        /\ \A j \in 1..Len(h) - FirstKept(h, RateWindow) + 1 :
             Popleft(h, h, RateWindow)[j] = h[FirstKept(h, RateWindow) + j - 1]
    BY ONLY h \in Seq(Nat), <2>1, PopleftIs
  <2> QED
    BY <2>2 DEF n
<1>4. PICK f : Traces(f, h, list, i, gatewayClock)
  BY DEF Traced
<1> HIDE DEF n
<1> DEFINE g == [j \in 1..K |-> f[n + j - 1]]
<1>5. K \in Nat /\ \A j \in 1..K : n + j - 1 \in 1..H
  BY <1>1, <1>2
<1>6. \A k \in 1..H : k \in 1..n - 1 \/ \E j \in 1..K : k = n + j - 1
  <2> SUFFICES ASSUME NEW k \in 1..H, k \notin 1..n - 1 PROVE \E j \in 1..K : k = n + j - 1
    OBVIOUS
  <2>1. k - n + 1 \in 1..K /\ k = n + (k - n + 1) - 1
    BY <1>1, <1>2
  <2> QED
    BY <2>1
<1> HIDE DEF K, L, H
<1>7. Traces(g, keeps, list, i, gatewayClock)
  <2>1. f \in [1..H -> 1..L] /\ \A j \in 1..H : list[f[j]].at = h[j]
    BY <1>4 DEF Traces, L, H
  <2>2. g \in [1..K -> 1..L] /\ \A j \in 1..K : g[j] = f[n + j - 1]
    BY <1>5, <2>1
  <2> HIDE DEF g
  <2>3. \A j \in 1..K : list[g[j]].at = keeps[j]
    BY <1>3, <1>5, <2>1, <2>2
  <2>4. ASSUME NEW k \in 1..L, list[k].identity = i
        PROVE  list[k].at + RateWindow < gatewayClock \/ \E j \in 1..K : g[j] = k
    <3>1. CASE list[k].at + RateWindow < gatewayClock
      BY <3>1
    <3>2. CASE \E j \in 1..H : f[j] = k
      <4>1. PICK j \in 1..H : f[j] = k
        BY <3>2
      <4>2. CASE j \in 1..n - 1
        BY <1>2, <2>1, <4>1, <4>2
      <4>3. CASE \E m \in 1..K : j = n + m - 1
        BY <2>2, <4>1, <4>3
      <4> QED
        BY <1>6, <4>2, <4>3
    <3> QED
      BY <1>4, <2>4, <3>1, <3>2 DEF Traces, L, H
  <2> QED
    BY <1>3, <2>2, <2>3, <2>4 DEF Traces, L
<1> HIDE DEF g
<1>8. a \in Admissions
  BY DEF Admissions
<1>9. /\ Len(longer) = L + 1 /\ longer[L + 1] = a
      /\ \A k \in 1..L : longer[k] = list[k]
  BY <1>8, AppendProperties DEF L
<1>10. /\ more \in Seq(Nat) /\ Len(more) = K + 1 /\ more[K + 1] = gatewayClock
       /\ \A j \in 1..K : more[j] = keeps[j]
  BY <1>3, AppendProperties
<1> HIDE DEF longer, more
<1> DEFINE e == [j \in 1..K + 1 |-> IF j = K + 1 THEN L + 1 ELSE g[j]]
<1>11. Traces(e, more, longer, i, gatewayClock)
  <2>1. /\ g \in [1..K -> 1..L] /\ \A j \in 1..K : list[g[j]].at = keeps[j]
        /\ \A k \in 1..L : list[k].identity = i =>
             list[k].at + RateWindow < gatewayClock \/ \E j \in 1..K : g[j] = k
    BY <1>3, <1>7 DEF Traces, L
  <2>2. /\ \A j \in 1..K + 1 : j \in 1..K \/ j = K + 1
        /\ K + 1 \in 1..K + 1 /\ K + 1 \notin 1..K /\ \A j \in 1..K : j \in 1..K + 1
    BY <1>5
  <2>3. /\ \A j \in 1..L + 1 : j \in 1..L \/ j = L + 1
        /\ L + 1 \in 1..L + 1 /\ \A j \in 1..L : j \in 1..L + 1
    BY <1>1 DEF L
  <2>4. e[K + 1] = L + 1 /\ \A j \in 1..K : e[j] = g[j]
    BY <2>2
  <2>5. e \in [1..K + 1 -> 1..L + 1]
    <3>1. \A j \in 1..K + 1 : (IF j = K + 1 THEN L + 1 ELSE g[j]) \in 1..L + 1
      BY <2>1, <2>2, <2>3
    <3> QED
      BY <3>1
  <2> HIDE DEF e
  <2>6. \A j \in 1..K + 1 : longer[e[j]].at = more[j]
    <3>1. longer[e[K + 1]].at = more[K + 1]
      BY <1>9, <1>10, <2>4
    <3>2. ASSUME NEW j \in 1..K PROVE longer[e[j]].at = more[j]
      <4>1. e[j] = g[j] /\ g[j] \in 1..L
        BY <2>1, <2>4
      <4>2. longer[e[j]] = list[g[j]]
        BY <1>9, <4>1
      <4> QED
        BY <1>10, <2>1, <4>2
    <3> QED
      BY <2>2, <3>1, <3>2
  <2>7. ASSUME NEW k \in 1..L + 1, longer[k].identity = i
        PROVE  longer[k].at + RateWindow < gatewayClock \/ \E j \in 1..K + 1 : e[j] = k
    <3>1. CASE k = L + 1
      BY <2>2, <2>4, <3>1
    <3>2. CASE k \in 1..L
      <4>1. list[k] = longer[k]
        BY <1>9, <3>2
      <4> QED
        BY <2>1, <2>2, <2>4, <2>7, <3>2, <4>1
    <3> QED
      BY <2>3, <3>1, <3>2
  <2> QED
    BY <1>9, <1>10, <2>5, <2>6, <2>7 DEF Traces
<1> QED
  BY <1>3, <1>7, <1>10, <1>11 DEF Traced, longer, more

\* As many hits as the limit admits are as many admissions within the window.
LEMMA AdmissionWithinLimit ==
  ASSUME NEW h \in Seq(Nat), NEW list \in Seq(Admissions), NEW i, gatewayClock \in Nat, RateWindow \in Nat,
         Traced(h, list, i, gatewayClock), NEW n, n = Len(list),
         n > 0, list[n].identity = i, list[n].at = gatewayClock, Len(h) <= list[n].limit
  PROVE  WithinLimit(list, n)
<1> DEFINE S == {k \in 1..n : list[k].identity = i /\ list[k].at + RateWindow >= gatewayClock}
           H == Len(h)
<1>1. H \in Nat /\ n \in Nat /\ \A k \in 1..n : list[k] \in Admissions
  BY LenProperties, ElementOfSeq
<1>2. PICK f : Traces(f, h, list, i, gatewayClock)
  BY DEF Traced
<1> DEFINE T == {f[j] : j \in 1..H}
<1> HIDE DEF H
<1>3. f \in Surjection(1..H, T)
  BY <1>2 DEF Traces, Surjection, H
<1>4. IsFiniteSet(1..H) /\ Cardinality(1..H) = H
  <2>1. \A b \in Nat : IsFiniteSet(1..b) /\ Cardinality(1..b) = b
    BY ONLY FS_Interval
  <2> QED
    BY <1>1, <2>1
<1>5. IsFiniteSet(T) /\ Cardinality(T) <= H /\ Cardinality(T) \in Nat
  <2> HIDE DEF T
  <2> QED
    BY <1>3, <1>4, FS_Surjection, FS_CardinalityType
<1>6. S \in SUBSET T
  <2>1. \A k \in S : list[k].at \in Nat
    BY <1>1 DEF Admissions
  <2>2. \A k \in S : ~(list[k].at + RateWindow < gatewayClock)
    BY <2>1
  <2>3. \A k \in S : \E j \in 1..H : f[j] = k
    BY <1>2, <2>2 DEF Traces, H
  <2> QED
    BY <2>3
<1>7. S = {k \in 1..n : list[k].identity = list[n].identity /\ list[k].at + RateWindow >= list[n].at}
  OBVIOUS
<1> HIDE DEF S, T
<1>8. Cardinality(S) <= Cardinality(T) /\ Cardinality(S) \in Nat
  BY <1>5, <1>6, FS_Subset, FS_CardinalityType
<1>9. list[n].limit \in Nat
  <2>1. n \in 1..n
    BY <1>1
  <2> QED
    BY <1>1, <2>1 DEF Admissions
<1>10. Cardinality(S) <= list[n].limit
  BY <1>1, <1>5, <1>8, <1>9 DEF H
<1> QED
  BY <1>7, <1>10 DEF WithinLimit

\* Nothing is traced anew when others are admitted or time goes on.
LEMMA StillTraced ==
  ASSUME NEW h, NEW list \in Seq(Admissions), NEW a \in Admissions, NEW i, NEW now, Traced(h, list, i, now), a.identity # i
  PROVE  Traced(h, Append(list, a), i, now)
<1> DEFINE longer == Append(list, a)
           L == Len(list)
<1>1. L \in Nat /\ Len(longer) = L + 1 /\ longer[L + 1] = a /\ \A k \in 1..L : longer[k] = list[k]
  BY LenProperties, AppendProperties
<1>2. PICK f : Traces(f, h, list, i, now)
  BY DEF Traced
<1> HIDE DEF longer
<1>3. f \in [1..Len(h) -> 1..L] /\ \A j \in 1..Len(h) : f[j] \in 1..L
  BY <1>2 DEF Traces
<1>4. 1..L \subseteq 1..L + 1 /\ \A k \in 1..L + 1 : k \in 1..L \/ k = L + 1
  BY <1>1
<1> HIDE DEF L
<1>5. f \in [1..Len(h) -> 1..L + 1]
  BY <1>3, <1>4
<1>6. Traces(f, h, longer, i, now)
  BY <1>1, <1>2, <1>3, <1>4, <1>5 DEF Traces, L
<1> QED
  BY <1>6 DEF Traced, longer

LEMMA TracedLater ==
  ASSUME NEW h, NEW list \in Seq(Admissions), NEW i, NEW now \in Nat, RateWindow \in Nat, Traced(h, list, i, now)
  PROVE  Traced(h, list, i, now + 1)
<1>1. \A k \in 1..Len(list) : list[k] \in Admissions
  BY ElementOfSeq
<1>2. \A k \in 1..Len(list) : list[k].at \in Nat
  BY <1>1 DEF Admissions
<1>3. \A k \in 1..Len(list) : list[k].at + RateWindow < now => list[k].at + RateWindow < now + 1
  BY <1>2
<1>4. PICK f : Traces(f, h, list, i, now)
  BY DEF Traced
<1>5. Traces(f, h, list, i, now + 1)
  BY <1>3, <1>4 DEF Traces
<1> QED
  BY <1>5 DEF Traced

\* Earlier admissions are judged as before.
LEMMA LimitsOfEarlier ==
  ASSUME NEW list \in Seq(Admissions), NEW a \in Admissions, NEW n \in 1..Len(list), WithinLimit(list, n)
  PROVE  WithinLimit(Append(list, a), n)
<1>1. \A k \in 1..Len(list) : Append(list, a)[k] = list[k]
  BY AppendProperties
<1>2. Len(list) \in Nat
  BY LenProperties
<1>3. \A k \in 1..n : Append(list, a)[k] = list[k]
  BY <1>1, <1>2
<1>4. n \in 1..n
  BY <1>2
<1>5. {k \in 1..n : /\ Append(list, a)[k].identity = Append(list, a)[n].identity
                    /\ Append(list, a)[k].at + RateWindow >= Append(list, a)[n].at}
      = {k \in 1..n : list[k].identity = list[n].identity /\ list[k].at + RateWindow >= list[n].at}
  BY <1>3, <1>4
<1> QED
  BY <1>3, <1>4, <1>5 DEF WithinLimit

LEMMA RateLimitInv ==
  ASSUME GatewayInv, NEW s \in Sockets, RateLimit(s)
  PROVE  GatewayInv'
<1> DEFINE q == sockets[s]
           i == q.identity
           h == hits[i]
           keeps == Popleft(h, h, RateWindow)
           full == Len(keeps) >= q.limit
           a == [identity |-> i, at |-> gatewayClock, limit |-> q.limit]
           more == Append(keeps, gatewayClock)
<1>0. gatewayClock \in Nat /\ RateWindow \in Nat /\ gatewayClock' = gatewayClock
  BY GatewayAssumption DEF GatewayInv, RateLimit
<1>1. i \in Identities /\ q.limit \in Nat
  BY DEF GatewayInv, SocketsOK, RateLimit
<1>2. /\ hits \in [Identities -> Seq(Nat)] /\ h \in Seq(Nat) /\ admissions \in Seq(Admissions)
      /\ \A j \in Identities : Traced(hits[j], admissions, j, gatewayClock)
      /\ \A n \in 1..Len(admissions) : WithinLimit(admissions, n)
  BY <1>1 DEF GatewayInv, LimiterOK
<1>3. \/ UNCHANGED <<hits, admissions>>
      \/ full /\ hits' = [hits EXCEPT ![i] = keeps] /\ admissions' = admissions
      \/ ~full /\ hits' = [hits EXCEPT ![i] = more] /\ admissions' = Append(admissions, a)
  BY DEF RateLimit
<1>4. SocketsOK' /\ DOMAIN sockets' = Sockets
  <2>1. PICK r \in {[stage |-> "answered", id |-> q.named, status |-> 429], [stage |-> "handled", id |-> q.id]} :
          sockets' = [sockets EXCEPT ![s] = r]
    BY DEF RateLimit
  <2>2. r.stage # "admitted"
    OBVIOUS
  <2> QED
    BY <2>1, <2>2 DEF GatewayInv, SocketsOK
<1>5. DetectorOK'
  <2>1. UNCHANGED <<probes, sightings, gatewayClock>>
    BY DEF RateLimit
  <2> QED
    BY <2>1 DEF GatewayInv, DetectorOK
<1>6. /\ keeps \in Seq(Nat) /\ Traced(keeps, admissions, i, gatewayClock)
      /\ more \in Seq(Nat) /\ Traced(more, Append(admissions, a), i, gatewayClock)
  <2> HIDE DEF h
  <2> QED
    BY <1>0, <1>1, <1>2, AdmissionTraced DEF h
<1>7. a \in Admissions /\ a.identity = i /\ a.at = gatewayClock /\ a.limit = q.limit
  BY <1>0, <1>1 DEF Admissions
<1>8. Len(more) = Len(keeps) + 1 /\ Len(keeps) \in Nat
  <2> HIDE DEF keeps
  <2> QED
    BY <1>0, <1>6, LenProperties, AppendProperties
<1> HIDE DEF h, a, keeps, more
<1>9. CASE UNCHANGED <<hits, admissions>>
  BY <1>0, <1>2, <1>4, <1>5, <1>9 DEF GatewayInv, LimiterOK
<1>10. CASE hits' = [hits EXCEPT ![i] = keeps] /\ admissions' = admissions
  <2>1. hits' \in [Identities -> Seq(Nat)]
    BY <1>1, <1>2, <1>6, <1>10
  <2>2. ASSUME NEW j \in Identities PROVE Traced(hits'[j], admissions, j, gatewayClock)
    BY <1>1, <1>2, <1>6, <1>10
  <2>3. LimiterOK'
    BY <1>0, <1>2, <1>10, <2>1, <2>2 DEF LimiterOK
  <2> QED
    BY <1>0, <1>4, <1>5, <2>3 DEF GatewayInv
<1>11. CASE ~full /\ hits' = [hits EXCEPT ![i] = more] /\ admissions' = Append(admissions, a)
  <2> DEFINE longer == Append(admissions, a)
             L == Len(admissions)
  <2>1. hits' \in [Identities -> Seq(Nat)]
    BY <1>1, <1>2, <1>6, <1>11
  <2>2. /\ longer \in Seq(Admissions) /\ Len(longer) = L + 1 /\ longer[L + 1] = a /\ L \in Nat
    BY <1>2, <1>7, LenProperties, AppendProperties
  <2>3. ASSUME NEW j \in Identities PROVE Traced(hits'[j], longer, j, gatewayClock)
    <3>1. CASE j = i
      BY <1>1, <1>2, <1>6, <1>11, <3>1
    <3>2. CASE j # i
      <4>1. hits'[j] = hits[j] /\ Traced(hits[j], admissions, j, gatewayClock)
        BY <1>2, <1>11, <3>2
      <4>2. Traced(hits[j], longer, j, gatewayClock)
        BY <1>2, <1>7, <3>2, <4>1, StillTraced
      <4> QED
        BY <4>1, <4>2
    <3> QED
      BY <3>1, <3>2
  <2>4. WithinLimit(longer, L + 1)
    <3>1. Len(more) <= q.limit
      BY <1>1, <1>8, <1>11
    <3>2. Traced(more, longer, i, gatewayClock)
      BY <1>6
    <3> HIDE DEF longer, L
    <3>3. /\ longer[L + 1].identity = i /\ longer[L + 1].at = gatewayClock
          /\ Len(more) <= longer[L + 1].limit /\ L + 1 = Len(longer) /\ L + 1 > 0
      BY <1>7, <2>2, <3>1
    <3> QED
      BY <1>0, <1>6, <2>2, <3>2, <3>3, AdmissionWithinLimit
  <2>5. \A n \in 1..L : WithinLimit(longer, n)
    BY <1>2, <1>7, LimitsOfEarlier
  <2>6. \A n \in 1..L + 1 : n \in 1..L \/ n = L + 1
    BY <2>2
  <2>7. LimiterOK'
    <3> HIDE DEF longer, L
    <3>1. admissions' = longer
      BY <1>11 DEF longer
    <3>2. \A n \in 1..Len(admissions') : WithinLimit(admissions', n)
      BY <2>2, <2>4, <2>5, <2>6, <3>1
    <3> QED
      BY <1>0, <2>1, <2>2, <2>3, <3>1, <3>2 DEF LimiterOK
  <2> QED
    BY <1>0, <1>4, <1>5, <2>7 DEF GatewayInv
<1> QED
  BY <1>3, <1>9, <1>10, <1>11

LEMMA SightingIs ==
  ASSUME NEW p \in Peers, NEW path \in ProbePaths, NEW at \in Nat, NEW reported \in BOOLEAN
  PROVE  LET r == [peer |-> p, path |-> path, at |-> at, reported |-> reported]
         IN r \in Sightings /\ r.peer = p /\ r.path = path /\ r.at = at /\ (r.reported <=> reported)
BY DEF Sightings

\* The detector looks at the path, then forgets what has left the window.
SeenNow(seen, list, r, e, all, keeps) ==
  /\ seen \in Seq(Probes) /\ list \in Seq(Sightings) /\ r \in Sightings /\ e \in Probes
  /\ r.path = e.path /\ r.at = gatewayClock /\ e.at = gatewayClock
  /\ Remembers(seen, list, r.peer, gatewayClock)
  /\ all = Append(seen, e) /\ keeps = Popleft(all, TimesOf(all), ProbeWindow)

LEMMA SightingRemembered ==
  ASSUME gatewayClock \in Nat, ProbeWindow \in Nat, 
         NEW seen, NEW list, NEW r, NEW e, NEW all, NEW keeps, SeenNow(seen, list, r, e, all, keeps)
  PROVE  /\ keeps \in Seq(Probes)
         /\ Remembers(keeps, Append(list, r), r.peer, gatewayClock)
         /\ PathsNear(Append(list, r), Len(list) + 1) = PathsOf(keeps)
<1> SUFFICES ASSUME seen \in Seq(Probes), list \in Seq(Sightings), r \in Sightings, e \in Probes,
                    r.path = e.path, r.at = gatewayClock, e.at = gatewayClock,
                    Remembers(seen, list, r.peer, gatewayClock),
                    all = Append(seen, e), keeps = Popleft(all, TimesOf(all), ProbeWindow)
             PROVE  /\ keeps \in Seq(Probes)
                    /\ Remembers(keeps, Append(list, r), r.peer, gatewayClock)
                    /\ PathsNear(Append(list, r), Len(list) + 1) = PathsOf(keeps)
  BY DEF SeenNow
<1> DEFINE times == TimesOf(all)
           n == FirstKept(times, ProbeWindow)
           longer == Append(list, r)
           L == Len(list)
           A == Len(all)
           p == r.peer
           now == gatewayClock
<1>1. /\ L \in Nat /\ \A k \in 1..L : list[k] \in Sightings
      /\ Len(seen) \in Nat /\ \A k \in 1..Len(seen) : seen[k] \in Probes
  BY LenProperties, ElementOfSeq
<1>2. all \in Seq(Probes) /\ A = Len(seen) + 1 /\ all[A] = e /\ \A j \in 1..Len(seen) : all[j] = seen[j]
  BY AppendProperties
<1>3. DOMAIN all = 1..A /\ A \in Nat /\ \A k \in 1..A : all[k] \in Probes
  <2> HIDE DEF A
  <2> QED
    BY <1>2, LenProperties, ElementOfSeq DEF A
<1>4. /\ Len(longer) = L + 1 /\ longer[L + 1] = r /\ longer \in Seq(Sightings)
      /\ \A k \in 1..L : longer[k] = list[k]
  BY AppendProperties
<1>a. \A k \in 1..A : all[k].at \in Nat
  BY <1>3 DEF Probes
<1> HIDE DEF longer, L, A, n
<1>5. times \in Seq(Nat) /\ Len(times) = A /\ \A k \in 1..A : times[k] = all[k].at
  <2>1. times \in [1..A -> Nat] /\ \A k \in 1..A : times[k] = all[k].at
    BY <1>3, <1>a DEF TimesOf
  <2> HIDE DEF times
  <2>2. times \in Seq(Nat) /\ DOMAIN times = 1..A
    BY <1>3, <2>1, SeqDef
  <2>3. Len(times) = A
    BY <1>3, <2>2, LenProperties
  <2> QED
    BY <2>1, <2>2, <2>3
<1> HIDE DEF times
<1>6. /\ n \in 1..A + 1
      /\ \A k \in 1..n - 1 : times[k] + ProbeWindow < now
      /\ n \in 1..A => times[n] + ProbeWindow >= now
  BY <1>5, FirstKeptIs DEF n
<1> DEFINE K == A - n + 1
<1>7. /\ keeps \in Seq(Probes) /\ Len(keeps) = K /\ \A j \in 1..K : keeps[j] = all[n + j - 1]
  <2>1. keeps = Popleft(all, times, ProbeWindow)
    BY DEF times
  <2>2. FirstKept(times, ProbeWindow) \in 1..Len(all) + 1
    BY <1>6 DEF n, A
  <2>3. /\ Popleft(all, times, ProbeWindow) \in Seq(Probes)
        /\ Len(Popleft(all, times, ProbeWindow)) = Len(all) - FirstKept(times, ProbeWindow) + 1
        /\ \A j \in 1..Len(all) - FirstKept(times, ProbeWindow) + 1 :
             Popleft(all, times, ProbeWindow)[j] = all[FirstKept(times, ProbeWindow) + j - 1]
    BY ONLY <1>2, <2>2, PopleftIs
  <2> QED
    BY <2>1, <2>3 DEF n, A
<1>8. /\ \A j \in 1..A : j \in 1..Len(seen) \/ j = A
      /\ A \in 1..A /\ K \in Nat /\ \A j \in 1..K : n + j - 1 \in 1..A
      /\ \A j \in 1..L + 1 : j \in 1..L \/ j = L + 1
      /\ L + 1 \in 1..L + 1 /\ 1..L \subseteq 1..L + 1 /\ 1..Len(seen) \subseteq 1..A
  BY <1>1, <1>2, <1>3, <1>6
<1>9. \A k \in 1..A : k \in 1..n - 1 \/ \E j \in 1..K : k = n + j - 1
  <2> SUFFICES ASSUME NEW k \in 1..A, k \notin 1..n - 1 PROVE \E j \in 1..K : k = n + j - 1
    OBVIOUS
  <2>1. k - n + 1 \in 1..K /\ k = n + (k - n + 1) - 1
    BY <1>3, <1>6
  <2> QED
    BY <2>1
<1> DEFINE place == [j \in 1..K |-> n + j - 1]
<1>b. /\ \A j \in 1..K : place[j] \in 1..A /\ keeps[j] = all[place[j]] /\ n \in 1..A /\ n <= place[j]
      /\ \A j, k \in 1..K : j <= k => place[j] <= place[k]
      /\ \A k \in 1..A : k \in 1..n - 1 \/ \E j \in 1..K : k = place[j]
  <2>1. \A j \in 1..K : place[j] = n + j - 1
    OBVIOUS
  <2> HIDE DEF place
  <2>2. \A j \in 1..K : place[j] \in 1..A /\ keeps[j] = all[place[j]]
    BY <1>7, <1>8, <2>1
  <2>3. \A j \in 1..K : n \in 1..A /\ n <= place[j]
    <3>1. \A j \in 1..K : n <= place[j]
      BY <1>3, <1>6, <2>1
    <3> QED
      BY <1>3, <1>6, <2>2, <3>1
  <2>4. \A j, k \in 1..K : j <= k => place[j] <= place[k]
    BY <1>3, <1>6, <1>8, <2>1
  <2>5. \A k \in 1..A : k \in 1..n - 1 \/ \E j \in 1..K : k = place[j]
    BY <1>9, <2>1
  <2> QED
    BY <2>2, <2>3, <2>4, <2>5
<1> HIDE DEF place
\* What holds of all the detector has seen.
<1>10. \A j, k \in 1..A : j <= k => all[j].at <= all[k].at
  <2>1. \A j, k \in 1..Len(seen) : j <= k => seen[j].at <= seen[k].at
    BY DEF Remembers
  <2>2. \A j \in 1..Len(seen) : all[j].at <= now
    BY <1>2 DEF Remembers
  <2> SUFFICES ASSUME NEW j \in 1..A, NEW k \in 1..A, j <= k PROVE all[j].at <= all[k].at
    OBVIOUS
  <2>3. CASE k = A
    <3>1. all[j].at <= now
      BY <1>2, <1>8, <2>2
    <3> QED
      BY <1>2, <2>3, <3>1
  <2>4. CASE k # A
    <3>1. j \in 1..Len(seen) /\ k \in 1..Len(seen)
      BY <1>1, <1>2, <1>8, <2>4
    <3> QED
      BY <1>2, <2>1, <3>1
  <2> QED
    BY <2>3, <2>4
<1>11. \A j \in 1..A : all[j].at <= now
  BY <1>2, <1>8 DEF Remembers
<1>12. \A j \in 1..A : \E k \in 1..L + 1 :
         longer[k].peer = p /\ longer[k].path = all[j].path /\ longer[k].at = all[j].at
  <2> SUFFICES ASSUME NEW j \in 1..A
               PROVE  \E k \in 1..L + 1 :
                        longer[k].peer = p /\ longer[k].path = all[j].path /\ longer[k].at = all[j].at
    OBVIOUS
  <2>1. CASE j = A
    BY <1>2, <1>4, <1>8, <2>1
  <2>2. CASE j \in 1..Len(seen)
    <3>1. PICK k \in 1..L : list[k].peer = p /\ list[k].path = seen[j].path /\ list[k].at = seen[j].at
      BY <2>2 DEF Remembers, L
    <3>2. longer[k] = list[k] /\ all[j] = seen[j] /\ k \in 1..L + 1
      BY <1>2, <1>4, <1>8, <2>2
    <3> QED
      BY <3>1, <3>2
  <2> QED
    BY <1>8, <2>1, <2>2
<1>13. \A k \in 1..L + 1 : longer[k].peer = p =>
         longer[k].at + ProbeWindow < now \/ \E j \in 1..A : all[j].path = longer[k].path /\ all[j].at = longer[k].at
  <2> SUFFICES ASSUME NEW k \in 1..L + 1, longer[k].peer = p
               PROVE  \/ longer[k].at + ProbeWindow < now
                      \/ \E j \in 1..A : all[j].path = longer[k].path /\ all[j].at = longer[k].at
    OBVIOUS
  <2>1. CASE k = L + 1
    BY <1>2, <1>4, <1>8, <2>1
  <2>2. CASE k \in 1..L
    <3>1. longer[k] = list[k]
      BY <1>4, <2>2
    <3>2. \/ list[k].at + ProbeWindow < now
          \/ \E j \in 1..Len(seen) : seen[j].path = list[k].path /\ seen[j].at = list[k].at
      BY <2>2, <3>1 DEF Remembers, L
    <3> QED
      BY <1>2, <1>8, <3>1, <3>2
  <2> QED
    BY <1>8, <2>1, <2>2
\* And of what is kept of it.
<1> HIDE DEF K
<1>14. \A j \in 1..K : keeps[j].at + ProbeWindow >= now
  <2> SUFFICES ASSUME NEW j \in 1..K PROVE keeps[j].at + ProbeWindow >= now
    OBVIOUS
  <2>1. n \in 1..A /\ place[j] \in 1..A /\ n <= place[j] /\ keeps[j] = all[place[j]]
    BY <1>b
  <2>2. all[n].at + ProbeWindow >= now /\ all[n].at <= all[place[j]].at
    BY <1>5, <1>6, <1>10, <2>1
  <2>3. all[n].at \in Nat /\ all[place[j]].at \in Nat
    BY <1>a, <2>1
  <2>4. \A x, y \in Nat : x + ProbeWindow >= now /\ x <= y => y + ProbeWindow >= now
    OBVIOUS
  <2> QED
    BY <2>1, <2>2, <2>3, <2>4
<1>15. \A k \in 1..A : all[k].at + ProbeWindow < now \/ \E j \in 1..K : keeps[j] = all[k]
  <2> SUFFICES ASSUME NEW k \in 1..A
               PROVE  all[k].at + ProbeWindow < now \/ \E j \in 1..K : keeps[j] = all[k]
    OBVIOUS
  <2>1. CASE k \in 1..n - 1
    BY <1>5, <1>6, <2>1
  <2>2. CASE \E j \in 1..K : k = place[j]
    BY <1>b, <2>2
  <2> QED
    BY <1>b, <2>1, <2>2
<1>c. Len(longer) = L + 1 /\ Len(keeps) = K
  BY <1>4, <1>7
<1>16. Remembers(keeps, longer, p, now)
  <2>1. \A j, k \in 1..K : j <= k => keeps[j].at <= keeps[k].at
    BY <1>b, <1>10
  <2>2. \A j \in 1..K : keeps[j].at <= now
    BY <1>b, <1>11
  <2>3. \A j \in 1..K : \E k \in 1..L + 1 :
          longer[k].peer = p /\ longer[k].path = keeps[j].path /\ longer[k].at = keeps[j].at
    <3> SUFFICES ASSUME NEW j \in 1..K
                 PROVE  \E k \in 1..L + 1 :
                          longer[k].peer = p /\ longer[k].path = keeps[j].path /\ longer[k].at = keeps[j].at
      OBVIOUS
    <3>1. place[j] \in 1..A /\ keeps[j] = all[place[j]]
      BY <1>b
    <3> QED
      BY <1>12, <3>1
  <2>4. \A k \in 1..L + 1 : longer[k].peer = p =>
          \/ longer[k].at + ProbeWindow < now
          \/ \E j \in 1..K : keeps[j].path = longer[k].path /\ keeps[j].at = longer[k].at
    <3> SUFFICES ASSUME NEW k \in 1..L + 1, longer[k].peer = p, ~(longer[k].at + ProbeWindow < now)
                 PROVE  \E j \in 1..K : keeps[j].path = longer[k].path /\ keeps[j].at = longer[k].at
      OBVIOUS
    <3>1. PICK j \in 1..A : all[j].path = longer[k].path /\ all[j].at = longer[k].at
      BY <1>13
    <3>2. PICK m \in 1..K : keeps[m] = all[j]
      BY <1>15, <3>1
    <3> QED
      BY <3>1, <3>2
  <2> HIDE DEF p, now
  <2> QED
    BY ONLY <1>c, <2>1, <2>2, <2>3, <2>4 DEF Remembers
<1>17. PathsNear(longer, L + 1) = PathsOf(keeps)
  <2>1. DOMAIN keeps = 1..K
    BY <1>7, LenProperties
  <2>2. \A k \in 1..L + 1 : longer[k].at \in Nat
    <3>1. \A k \in 1..L + 1 : longer[k] \in Sightings
      BY <1>4, ElementOfSeq
    <3> QED
      BY <3>1 DEF Sightings
  <2>3. PathsNear(longer, L + 1) =
          {longer[k].path : k \in {j \in 1..L + 1 : longer[j].peer = p /\ longer[j].at + ProbeWindow >= now}}
    BY <1>4 DEF PathsNear
  <2>4. ASSUME NEW j \in 1..K PROVE keeps[j].path \in PathsNear(longer, L + 1)
    <3>1. PICK k \in 1..L + 1 :
            longer[k].peer = p /\ longer[k].path = keeps[j].path /\ longer[k].at = keeps[j].at
      <4>1. place[j] \in 1..A /\ keeps[j] = all[place[j]]
        BY <1>b
      <4> QED
        BY <1>12, <4>1
    <3>2. longer[k].at + ProbeWindow >= now
      BY <1>14, <3>1
    <3> QED
      BY <2>3, <3>1, <3>2
  <2>5. ASSUME NEW k \in 1..L + 1, longer[k].peer = p, longer[k].at + ProbeWindow >= now
        PROVE  longer[k].path \in {keeps[j].path : j \in 1..K}
    <3>1. ~(longer[k].at + ProbeWindow < now)
      BY <2>2, <2>5
    <3>2. PICK j \in 1..A : all[j].path = longer[k].path /\ all[j].at = longer[k].at
      BY <1>13, <2>5, <3>1
    <3>3. PICK m \in 1..K : keeps[m] = all[j]
      BY <1>15, <3>1, <3>2
    <3> QED
      BY <3>2, <3>3
  <2>6. {keeps[j].path : j \in 1..K} \subseteq PathsNear(longer, L + 1)
    BY <2>4
  <2>7. PathsNear(longer, L + 1) \subseteq {keeps[j].path : j \in 1..K}
    <3> SUFFICES ASSUME NEW x \in PathsNear(longer, L + 1) PROVE x \in {keeps[j].path : j \in 1..K}
      OBVIOUS
    <3>1. PICK k \in 1..L + 1 :
            longer[k].peer = p /\ longer[k].at + ProbeWindow >= now /\ x = longer[k].path
      BY <2>3
    <3> QED
      BY <2>5, <3>1
  <2> QED
    BY <2>1, <2>6, <2>7 DEF PathsOf
<1> QED
  BY <1>7, <1>16, <1>17 DEF longer, L

LEMMA RemembersOthers ==
  ASSUME NEW seen, NEW list \in Seq(Sightings), NEW r \in Sightings, NEW p, r.peer # p, NEW now,
         Remembers(seen, list, p, now)
  PROVE  Remembers(seen, Append(list, r), p, now)
<1> DEFINE longer == Append(list, r)
           L == Len(list)
<1>1. L \in Nat /\ Len(longer) = L + 1 /\ longer[L + 1] = r /\ \A k \in 1..L : longer[k] = list[k]
  BY LenProperties, AppendProperties
<1> HIDE DEF longer
<1>2. 1..L \subseteq 1..L + 1 /\ \A k \in 1..L + 1 : k \in 1..L \/ k = L + 1
  BY <1>1
<1> HIDE DEF L
<1>3. \A j \in 1..Len(seen) : \E k \in 1..L + 1 :
        longer[k].peer = p /\ longer[k].path = seen[j].path /\ longer[k].at = seen[j].at
  <2> SUFFICES ASSUME NEW j \in 1..Len(seen)
               PROVE  \E k \in 1..L + 1 :
                        longer[k].peer = p /\ longer[k].path = seen[j].path /\ longer[k].at = seen[j].at
    OBVIOUS
  <2>1. PICK k \in 1..L : list[k].peer = p /\ list[k].path = seen[j].path /\ list[k].at = seen[j].at
    BY DEF Remembers, L
  <2>2. longer[k] = list[k] /\ k \in 1..L + 1
    BY <1>1, <1>2
  <2> QED
    BY <2>1, <2>2
<1>4. \A k \in 1..L + 1 : longer[k].peer = p =>
        \/ longer[k].at + ProbeWindow < now
        \/ \E j \in 1..Len(seen) : seen[j].path = longer[k].path /\ seen[j].at = longer[k].at
  BY <1>1, <1>2 DEF Remembers, L
<1>5. Remembers(seen, longer, p, now)
  BY <1>1, <1>3, <1>4 DEF Remembers
<1> QED
  BY <1>5 DEF longer

LEMMA RemembersLater ==
  ASSUME NEW seen \in Seq(Probes), NEW list \in Seq(Sightings), NEW p, NEW now \in Nat, ProbeWindow \in Nat,
         Remembers(seen, list, p, now)
  PROVE  Remembers(seen, list, p, now + 1)
<1>1. \A k \in 1..Len(list) : list[k] \in Sightings
  BY ElementOfSeq
<1>2. \A k \in 1..Len(seen) : seen[k] \in Probes
  BY ElementOfSeq
<1>3. \A k \in 1..Len(list) : list[k].at + ProbeWindow < now => list[k].at + ProbeWindow < now + 1
  BY <1>1 DEF Sightings
<1>4. \A k \in 1..Len(seen) : seen[k].at <= now => seen[k].at <= now + 1
  BY <1>2 DEF Probes
<1> QED
  BY <1>3, <1>4 DEF Remembers

LEMMA ReportsOfEarlier ==
  ASSUME NEW list \in Seq(Sightings), NEW r \in Sightings, NEW n \in 1..Len(list), RightlyReported(list, n)
  PROVE  RightlyReported(Append(list, r), n)
<1> DEFINE longer == Append(list, r)
<1>1. Len(list) \in Nat /\ \A k \in 1..Len(list) : longer[k] = list[k]
  BY LenProperties, AppendProperties
<1> HIDE DEF longer
<1>2. n \in 1..n /\ \A k \in 1..n : longer[k] = list[k]
  BY <1>1
<1>3. {j \in 1..n : longer[j].peer = longer[n].peer /\ longer[j].at + ProbeWindow >= longer[n].at}
      = {j \in 1..n : list[j].peer = list[n].peer /\ list[j].at + ProbeWindow >= list[n].at}
  BY <1>2
<1>4. PathsNear(longer, n) = PathsNear(list, n)
  <2> DEFINE J == {j \in 1..n : list[j].peer = list[n].peer /\ list[j].at + ProbeWindow >= list[n].at}
  <2>1. PathsNear(longer, n) = {longer[k].path : k \in J} /\ PathsNear(list, n) = {list[k].path : k \in J}
    BY <1>3 DEF PathsNear
  <2>2. \A k \in J : longer[k].path = list[k].path
    BY <1>2
  <2> HIDE DEF J
  <2> QED
    BY <2>1, <2>2
<1>5. longer[n].reported = list[n].reported
  BY <1>2
<1>6. RightlyReported(longer, n)
  BY <1>4, <1>5 DEF RightlyReported
<1> QED
  BY <1>6 DEF longer

LEMMA InspectRequestInv ==
  ASSUME GatewayInv, NEW p \in Peers, InspectRequest(p)
  PROVE  GatewayInv'
<1>0. PICK path \in ProbePaths :
        LET seen == [path |-> path, at |-> gatewayClock]
            all == Append(probes[p], seen)
            keeps == Popleft(all, [k \in DOMAIN all |-> all[k].at], ProbeWindow)
            hot == DistinctMarks(keeps) >= ProbeThreshold
        IN /\ probes' = [probes EXCEPT ![p] = keeps]
           /\ sightings' = Append(sightings, [peer |-> p, path |-> path, at |-> gatewayClock, reported |-> hot])
  BY DEF InspectRequest
<1> DEFINE e == [path |-> path, at |-> gatewayClock]
           all == Append(probes[p], e)
           keeps == Popleft(all, [k \in DOMAIN all |-> all[k].at], ProbeWindow)
           hot == DistinctMarks(keeps) >= ProbeThreshold
           r == [peer |-> p, path |-> path, at |-> gatewayClock, reported |-> hot]
<1>1. probes' = [probes EXCEPT ![p] = keeps] /\ sightings' = Append(sightings, r)
  BY <1>0
<1>2. gatewayClock \in Nat /\ ProbeWindow \in Nat /\ gatewayClock' = gatewayClock
  BY GatewayAssumption DEF GatewayInv, InspectRequest
<1>3. /\ probes \in [Peers -> Seq(Probes)] /\ probes[p] \in Seq(Probes) /\ sightings \in Seq(Sightings)
      /\ \A o \in Peers : Remembers(probes[o], sightings, o, gatewayClock)
      /\ \A n \in 1..Len(sightings) : RightlyReported(sightings, n)
  BY DEF GatewayInv, DetectorOK
<1>4. e \in Probes /\ e.path = path /\ e.at = gatewayClock
  BY <1>2 DEF Probes
<1>5. r \in Sightings /\ r.peer = p /\ r.path = path /\ r.at = gatewayClock /\ (r.reported <=> hot)
  <2> HIDE DEF hot
  <2>1. hot \in BOOLEAN
    BY DEF hot
  <2> QED
    BY <1>2, <2>1, SightingIs
<1> HIDE DEF e, r, hot
<1> DEFINE longer == Append(sightings, r)
           L == Len(sightings)
<1>6. /\ keeps \in Seq(Probes) /\ Remembers(keeps, longer, p, gatewayClock)
      /\ PathsNear(longer, L + 1) = PathsOf(keeps)
  <2> HIDE DEF keeps
  <2>1. Remembers(probes[p], sightings, r.peer, gatewayClock)
    BY <1>3, <1>5
  <2>2. keeps = Popleft(all, TimesOf(all), ProbeWindow)
    BY DEF keeps, TimesOf
  <2> HIDE DEF all
  <2>3. all = Append(probes[p], e)
    BY DEF all
  <2>4. r.path = e.path /\ r.at = gatewayClock /\ e.at = gatewayClock /\ r \in Sightings /\ e \in Probes
    BY <1>4, <1>5
  <2>5. probes[p] \in Seq(Probes) /\ sightings \in Seq(Sightings)
    BY <1>3
  <2>6. /\ keeps \in Seq(Probes) /\ Remembers(keeps, Append(sightings, r), r.peer, gatewayClock)
        /\ PathsNear(Append(sightings, r), Len(sightings) + 1) = PathsOf(keeps)
    <3>1. SeenNow(probes[p], sightings, r, e, all, keeps)
      BY <2>1, <2>2, <2>3, <2>4, <2>5 DEF SeenNow
    <3> QED
      BY <1>2, <3>1, SightingRemembered
  <2> QED
    BY <1>5, <2>6
<1>7. L \in Nat /\ longer \in Seq(Sightings) /\ Len(longer) = L + 1 /\ longer[L + 1] = r
  BY <1>3, <1>5, LenProperties, AppendProperties
<1> HIDE DEF keeps
<1>8. RightlyReported(longer, L + 1)
  <2>1. hot <=> Cardinality(PathsNear(longer, L + 1)) >= ProbeThreshold
    BY <1>6 DEF hot, DistinctMarks, PathsOf
  <2> QED
    BY <1>5, <1>7, <2>1 DEF RightlyReported
<1>9. \A n \in 1..L : RightlyReported(longer, n)
  BY <1>3, <1>5, ReportsOfEarlier
<1>10. probes' \in [Peers -> Seq(Probes)]
  BY <1>1, <1>3, <1>6
<1>11. ASSUME NEW o \in Peers PROVE Remembers(probes'[o], longer, o, gatewayClock)
  <2>1. CASE o = p
    BY <1>1, <1>3, <1>6, <2>1
  <2>2. CASE o # p
    <3>1. probes'[o] = probes[o]
      BY <1>1, <1>3, <2>2
    <3>2. Remembers(probes[o], longer, o, gatewayClock)
      BY <1>3, <1>5, <2>2, RemembersOthers
    <3> QED
      BY <3>1, <3>2
  <2> QED
    BY <2>1, <2>2
<1>12. sightings' = longer
  BY <1>1
<1> HIDE DEF longer, L
<1>13. \A n \in 1..Len(longer) : RightlyReported(longer, n)
  <2>1. \A n \in 1..L + 1 : n \in 1..L \/ n = L + 1
    BY <1>7
  <2> QED
    BY <1>7, <1>8, <1>9, <2>1
<1>14. DetectorOK'
  BY <1>2, <1>7, <1>10, <1>11, <1>12, <1>13 DEF DetectorOK
<1>15. UNCHANGED <<sockets, hits, admissions, gatewayClock>>
  BY DEF InspectRequest
<1> QED
  BY <1>14, <1>15 DEF GatewayInv, SocketsOK, LimiterOK

LEMMA GatewayTickInv ==
  ASSUME GatewayInv, GatewayTick
  PROVE  GatewayInv'
<1>1. gatewayClock' = gatewayClock + 1 /\ UNCHANGED <<sockets, hits, admissions, probes, sightings>>
  BY DEF GatewayTick
<1>2. gatewayClock \in Nat /\ gatewayClock' \in Nat /\ RateWindow \in Nat /\ ProbeWindow \in Nat
  BY <1>1, GatewayAssumption DEF GatewayInv
<1>3. LimiterOK'
  <2>1. \A i \in Identities : Traced(hits[i], admissions, i, gatewayClock + 1)
    BY <1>2, TracedLater DEF GatewayInv, LimiterOK
  <2> QED
    BY <1>1, <2>1 DEF GatewayInv, LimiterOK
<1>4. DetectorOK'
  <2>1. \A p \in Peers : Remembers(probes[p], sightings, p, gatewayClock + 1)
    BY <1>2, RemembersLater DEF GatewayInv, DetectorOK
  <2> QED
    BY <1>1, <2>1 DEF GatewayInv, DetectorOK
<1> QED
  BY <1>1, <1>2, <1>3, <1>4 DEF GatewayInv, SocketsOK

\* A request that was let in has an identity and its limit.
LEMMA EnterGatewayInv ==
  ASSUME GatewayInv, NEW s \in Sockets, EnterGateway(s)
  PROVE  GatewayInv'
<1>1. PICK q \in [peer : Peers, key : ApiKeys \cup {NoKey}, path : PathKinds,
                  bearer : Bearers, preflight : BOOLEAN, id : 1..(gatewayCalls + 1)] :
        LET passes == ~q.preflight /\ PassesJWT(q) /\ PassesKey(q)
            gated == KeyGate /\ q.path = "api"
        IN sockets' = [sockets EXCEPT ![s] =
             IF ~passes THEN ClosedSocket
             ELSE [stage |-> "admitted", path |-> q.path, id |-> q.id, named |-> gatewayCalls + 1,
                   identity |-> IF gated THEN q.key ELSE q.peer,
                   limit |-> IF gated THEN KeyQuota[q.key] ELSE DefaultLimit]]
  BY DEF EnterGateway
<1> DEFINE gated == KeyGate /\ q.path = "api"
           identity == IF gated THEN q.key ELSE q.peer
           limit == IF gated THEN KeyQuota[q.key] ELSE DefaultLimit
           r == [stage |-> "admitted", path |-> q.path, id |-> q.id, named |-> gatewayCalls + 1,
                 identity |-> identity, limit |-> limit]
<1>2. q.peer \in Peers /\ q.key \in ApiKeys \cup {NoKey}
  BY <1>1
<1>3. PassesKey(q) => identity \in Identities /\ limit \in Nat
  <2>1. CASE gated
    <3>1. PassesKey(q) => q.key \in ApiKeys
      BY <1>2, <2>1 DEF PassesKey
    <3>2. PassesKey(q) => KeyQuota[q.key] \in Nat
      BY <3>1, GatewayAssumption
    <3> QED
      BY <2>1, <3>1, <3>2 DEF Identities
  <2>2. CASE ~gated
    BY <1>2, <2>2, GatewayAssumption DEF Identities
  <2> QED
    BY <2>1, <2>2
<1>4. \/ sockets' = [sockets EXCEPT ![s] = ClosedSocket]
      \/ PassesKey(q) /\ sockets' = [sockets EXCEPT ![s] = r]
  BY <1>1
<1> HIDE DEF gated, identity, limit
<1>5. r.identity = identity /\ r.limit = limit /\ ClosedSocket.stage # "admitted"
  BY DEF ClosedSocket
<1> HIDE DEF r
<1>6. DOMAIN sockets' = Sockets /\ SocketsOK'
  BY <1>3, <1>4, <1>5 DEF GatewayInv, SocketsOK
<1>7. UNCHANGED <<hits, admissions, probes, sightings, gatewayClock>>
  BY DEF EnterGateway
<1> QED
  BY <1>6, <1>7 DEF GatewayInv, LimiterOK, DetectorOK

\* The answer of the endpoint, and the record of it.
LEMMA OtherGatewaySteps ==
  ASSUME GatewayInv,
         \/ \E s \in Sockets : Respond(s) \/ RecordAccess(s)
         \/ ReviewAccess \/ RaiseThreat \/ UNCHANGED gatewayVars
  PROVE  GatewayInv'
<1>1. UNCHANGED <<hits, admissions, probes, sightings, gatewayClock>>
  BY DEF Respond, RecordAccess, ReviewAccess, RaiseThreat, gatewayVars
<1> DEFINE After(s) == {[stage |-> "answered", id |-> sockets[s].id, status |-> status] : status \in {200, 500}}
                       \cup {ClosedSocket}
<1>2. UNCHANGED sockets \/ \E s \in Sockets : \E r \in After(s) : sockets' = [sockets EXCEPT ![s] = r]
  <2>1. ASSUME NEW s \in Sockets, Respond(s)
        PROVE  \E r \in After(s) : sockets' = [sockets EXCEPT ![s] = r]
    <3>1. PICK status \in {200, 500} :
            sockets' = [sockets EXCEPT ![s] = [stage |-> "answered", id |-> sockets[s].id, status |-> status]]
      BY <2>1 DEF Respond
    <3> DEFINE r == [stage |-> "answered", id |-> sockets[s].id, status |-> status]
    <3>2. r \in After(s)
      OBVIOUS
    <3>3. sockets' = [sockets EXCEPT ![s] = r]
      BY <3>1
    <3> HIDE DEF r, After
    <3> QED
      BY <3>2, <3>3
  <2>2. ASSUME NEW s \in Sockets, RecordAccess(s)
        PROVE  \E r \in After(s) : sockets' = [sockets EXCEPT ![s] = r]
    BY <2>2 DEF RecordAccess
  <2>3. ReviewAccess \/ RaiseThreat \/ UNCHANGED gatewayVars => UNCHANGED sockets
    BY DEF ReviewAccess, RaiseThreat, gatewayVars
  <2> HIDE DEF After
  <2> QED
    BY <2>1, <2>2, <2>3
<1>4. \A s \in Sockets : \A r \in After(s) : r.stage # "admitted"
  BY DEF ClosedSocket
<1> HIDE DEF After
<1>3. DOMAIN sockets' = Sockets /\ SocketsOK'
  BY <1>2, <1>4 DEF GatewayInv, SocketsOK
<1> QED
  BY <1>1, <1>3 DEF GatewayInv, LimiterOK, DetectorOK

\* What the limiter and the detector forget is no longer needed: their
\* deques answer for any stretch of time (SlidingWindowRateLimiter.allow,
\* ThreatDetector.inspect_request).
THEOREM WindowsAreHeld == GatewaySpec => []WindowsHeld
<1>1. ASSUME GatewayInv, [GatewayNext]_gatewayVars PROVE GatewayInv'
  BY <1>1, EnterGatewayInv, RateLimitInv, InspectRequestInv, GatewayTickInv, OtherGatewaySteps
     DEF GatewayNext
<1>2. GatewayInv => WindowsHeld
  <2> SUFFICES ASSUME GatewayInv PROVE WindowsHeld
    OBVIOUS
  <2>1. DOMAIN admissions = 1..Len(admissions) /\ DOMAIN sightings = 1..Len(sightings)
    BY LenProperties DEF GatewayInv, LimiterOK, DetectorOK
  <2>2. \A n \in DOMAIN admissions : WithinLimit(admissions, n)
    BY <2>1 DEF GatewayInv, LimiterOK
  <2>3. \A n \in DOMAIN sightings : RightlyReported(sightings, n)
    BY <2>1 DEF GatewayInv, DetectorOK
  <2> QED
    BY <2>2, <2>3 DEF WindowsHeld, WithinLimit, RightlyReported, PathsNear
<1> QED
  BY <1>1, <1>2, GatewayInvInit, PTL DEF GatewaySpec

-----------------------------------------------------------------------------
(* Planning: an accepted plan runs whole.                                    *)

\* A step of any plan, what a step may put out, and a result of a step that ran.
AnyStep == [id : StepIds \cup Nat, type : StepTypes, deps : SUBSET (StepIds \cup Nat), optional : BOOLEAN]
PlanOutput == [chunks : Seq(PlanChunks), cites : SUBSET PlanChunks, answers : BOOLEAN]
\* The chunks that can be cited.
Citable(chunks) == ToSet(chunks) \ Unnamed
StepResult == [step : Nat, status : {"success", "failed", "skipped"}, output : PlanOutput]

\* The form of a generated plan: its ids number its steps, a step waits for
\* steps before it only, and its last step, and no other, is the answer.
GeneratedForm(steps) ==
  /\ steps # <<>>
  /\ \A i \in DOMAIN steps : /\ steps[i].id = i /\ steps[i].deps \subseteq 1..i - 1
                             /\ steps[i].type = "answer" <=> i = Len(steps)

\* A plan someone may ask to execute.
PlanOK(p) ==
  /\ p.steps \in Seq(AnyStep) /\ p.expected \in Nat \ {0} /\ p.generated \in BOOLEAN
  /\ p.generated => GeneratedForm(p.steps)

\* What the k-th result says of its step: it did not come before a result
\* of what the step waits for.
InItsTurn(p, rs, k) ==
  /\ p.steps[rs[k].step].deps \subseteq {p.steps[rs[l].step].id : l \in 1..k - 1}
  /\ rs[k].status = "skipped" => p.steps[rs[k].step].optional

\* Of a generated plan the steps run in their order; an answer cites what all
\* the steps before it found, and hands on nothing else.
InOrder(p, rs, k) ==
  /\ rs[k].step = k
  /\ rs[k].output.answers <=> k = Len(p.steps)
  /\ k < Len(p.steps) => rs[k].output.cites = Citable(rs[k].output.chunks)
  /\ k = Len(p.steps) =>
       /\ rs[k].status = "success"
       /\ rs[k].output.cites = UNION {rs[l].output.cites : l \in 1..k - 1}
       /\ Citable(rs[k].output.chunks) \subseteq rs[k].output.cites

\* What has run and what remains: together every step, none twice.
Progress(p, ps, rem, rs) ==
  /\ rs \in Seq(StepResult) /\ ps \subseteq rem /\ rem \subseteq DOMAIN p.steps
  /\ {rs[k].step : k \in DOMAIN rs} = DOMAIN p.steps \ rem
  /\ Len(rs) + Cardinality(rem) = Len(p.steps)
  /\ \A k \in DOMAIN rs : InItsTurn(p, rs, k)
  /\ p.generated => /\ ps = rem
                    /\ \A k \in DOMAIN rs : InOrder(p, rs, k)

\* The inductive invariant: what an execution of an accepted plan has done, and
\* at its end nothing remains.
PlanInv ==
  /\ PlanOK(plan) /\ supplied \in Seq(PlanChunks) /\ stage \in {"idle", "planned", "running", "finished"}
  /\ AcceptedPlan(plan) =>
       /\ stage = "running" => Progress(plan, pass, remaining, results)
       /\ stage = "finished" => Progress(plan, {}, {}, results)

\* Of n step types, the answer is the last and only the last.
AnswerLast(n, types) ==
  n \in Nat \ {0} /\ types \in [1..n -> StepTypes] /\ \A i \in 1..n : types[i] = "answer" <=> i = n

\* Steps that wait for nothing, the answer last, have the form.
LEMMA FreeForm ==
  ASSUME NEW n, NEW types, AnswerLast(n, types)
  PROVE  Free(types) \in Seq(AnyStep) /\ Len(Free(types)) = n /\ GeneratedForm(Free(types))
<1> DEFINE steps == Free(types)
<1>0. n \in Nat \ {0} /\ types \in [1..n -> StepTypes] /\ \A i \in 1..n : types[i] = "answer" <=> i = n
  BY DEF AnswerLast
<1>1. steps = [i \in 1..n |-> PlanStep(i, types[i], {}, FALSE)]
  BY <1>0 DEF Free
<1>2. \A i \in 1..n : PlanStep(i, types[i], {}, FALSE) \in AnyStep
  BY <1>0 DEF PlanStep, AnyStep
<1>3. steps \in [1..n -> AnyStep]
  BY <1>1, <1>2
<1>4. steps \in Seq(AnyStep) /\ Len(steps) = n /\ DOMAIN steps = 1..n
  BY <1>0, <1>3, SeqDef, LenProperties
<1>5. \A i \in 1..n : steps[i].id = i /\ steps[i].deps = {} /\ steps[i].type = types[i]
  BY <1>0, <1>1 DEF PlanStep
<1> HIDE DEF steps
<1>6. steps # <<>>
  BY <1>0, <1>4, EmptySeq
<1>7. GeneratedForm(steps)
  BY <1>0, <1>4, <1>5, <1>6 DEF GeneratedForm
<1>8. QED
  BY <1>4, <1>7 DEF steps

\* So has a chain of retrievals and aggregations.
LEMMA MultiStepForm ==
  ASSUME NEW parts \in Nat \ {0}
  PROVE  MultiStep(parts) \in Seq(AnyStep) /\ GeneratedForm(MultiStep(parts))
<1> DEFINE steps == MultiStep(parts)
           n == 2 * parts + 1
           Of(i) == IF i = n THEN PlanStep(i, "answer", {i - 1}, FALSE)
                    ELSE IF i % 2 = 1 THEN PlanStep(i, "retrieve", {i - 1} \ {0}, FALSE)
                    ELSE PlanStep(i, "aggregate", {i - 1}, TRUE)
<1>1. n \in Nat /\ n >= 3
  OBVIOUS
<1>2. steps = [i \in 1..n |-> Of(i)]
  BY DEF MultiStep
<1> HIDE DEF n
<1>3. ASSUME NEW i \in 1..n
      PROVE  /\ Of(i) \in AnyStep /\ Of(i).id = i /\ Of(i).deps \subseteq 1..i - 1
             /\ Of(i).type = "answer" <=> i = n
  <2>1. i \in Nat /\ i >= 1 /\ i - 1 \in Nat /\ {i - 1} \ {0} \subseteq 1..i - 1 /\ {i - 1} \subseteq Nat
    BY <1>1
  <2>2. CASE i = n
    <3>1. {i - 1} \subseteq 1..i - 1
      BY <1>1, <2>2
    <3>2. QED
      BY <2>1, <2>2, <3>1 DEF PlanStep, AnyStep, StepTypes
  <2>3. CASE i # n /\ i % 2 = 1
    BY <2>1, <2>3 DEF PlanStep, AnyStep, StepTypes
  <2>4. CASE i # n /\ i % 2 # 1
    <3>1. i # 1
      BY <2>4
    <3>2. {i - 1} \subseteq 1..i - 1
      BY <2>1, <3>1
    <3>3. QED
      BY <2>1, <2>4, <3>2 DEF PlanStep, AnyStep, StepTypes
  <2>5. QED
    BY <2>2, <2>3, <2>4
<1> HIDE DEF Of
<1>4. steps \in [1..n -> AnyStep]
  BY <1>2, <1>3
<1>5. steps \in Seq(AnyStep) /\ Len(steps) = n /\ DOMAIN steps = 1..n
  BY <1>1, <1>4, SeqDef, LenProperties
<1>6. \A i \in 1..n : steps[i] = Of(i)
  BY <1>2
<1> HIDE DEF steps
<1>7. steps # <<>>
  BY <1>1, <1>5, EmptySeq
<1>8. GeneratedForm(steps)
  BY <1>3, <1>5, <1>6, <1>7 DEF GeneratedForm
<1>9. QED
  BY <1>5, <1>8 DEF steps

\* And so has what the decomposer makes of a query of any kind.
LEMMA DecomposedForm ==
  ASSUME NEW kind, NEW parts \in Nat \ {0}
  PROVE  Decompose(kind, parts) \in Seq(AnyStep) /\ GeneratedForm(Decompose(kind, parts))
<1> DEFINE OK(s) == s \in Seq(AnyStep) /\ GeneratedForm(s)
<1>1. OK(Simple)
  <2> DEFINE t == <<"retrieve", "answer">>
  <2>1. AnswerLast(2, t)
    BY DEF AnswerLast, StepTypes
  <2> HIDE DEF t
  <2>2. OK(Free(t))
    BY <2>1, FreeForm
  <2>3. QED
    BY <2>2 DEF Simple, t
<1>2. OK(Free(<<"retrieve", "retrieve", "compare", "answer">>))
  <2> DEFINE t == <<"retrieve", "retrieve", "compare", "answer">>
  <2>1. AnswerLast(4, t)
    BY DEF AnswerLast, StepTypes
  <2> HIDE DEF t
  <2>2. OK(Free(t))
    BY <2>1, FreeForm
  <2>3. QED
    BY <2>2 DEF t
<1>3. OK(Free(<<"retrieve", "extract_timeline", "aggregate", "answer">>))
  <2> DEFINE t == <<"retrieve", "extract_timeline", "aggregate", "answer">>
  <2>1. AnswerLast(4, t)
    BY DEF AnswerLast, StepTypes
  <2> HIDE DEF t
  <2>2. OK(Free(t))
    BY <2>1, FreeForm
  <2>3. QED
    BY <2>2 DEF t
<1>4. OK([Free(<<"retrieve", "retrieve", "detect_change", "answer">>) EXCEPT ![2].optional = TRUE])
  <2> DEFINE t == <<"retrieve", "retrieve", "detect_change", "answer">>
             s == Free(t)
             r == [s EXCEPT ![2].optional = TRUE]
  <2>1. AnswerLast(4, t)
    BY DEF AnswerLast, StepTypes
  <2> HIDE DEF t
  <2>2. OK(s) /\ Len(s) = 4
    BY <2>1, FreeForm
  <2> HIDE DEF s
  <2>3. DOMAIN s = 1..4 /\ \A i \in 1..4 : s[i] \in AnyStep
    BY <2>2, LenProperties, ElementOfSeq
  <2>4. /\ DOMAIN r = 1..4 /\ \A i \in 1..4 : r[i] \in AnyStep
        /\ \A i \in 1..4 : r[i].id = s[i].id /\ r[i].type = s[i].type /\ r[i].deps = s[i].deps
    BY <2>3 DEF AnyStep
  <2>5. r \in [1..4 -> AnyStep]
    <3>1. r = [i \in 1..4 |-> r[i]]
      BY <2>3
    <3>2. QED
      BY <2>4, <3>1
  <2> HIDE DEF r
  <2>6. r \in Seq(AnyStep) /\ Len(r) = 4
    <3>1. \E k \in Nat : r \in [1..k -> AnyStep]
      BY <2>5
    <3>2. r \in Seq(AnyStep)
      BY <3>1, SeqDef
    <3>3. DOMAIN r = 1..4
      BY <2>5
    <3>4. DOMAIN r = 1..Len(r) /\ Len(r) \in Nat
      BY <3>2, LenProperties
    <3>5. QED
      BY <3>2, <3>3, <3>4
  <2>7. r # <<>>
    BY <2>6, EmptySeq
  <2>8. GeneratedForm(r)
    BY <2>2, <2>3, <2>4, <2>6, <2>7 DEF GeneratedForm
  <2>9. QED
    BY <2>6, <2>8 DEF r, s, t
<1>5. OK(Free(<<"retrieve", "retrieve", "detect_contradiction", "aggregate", "answer">>))
  <2> DEFINE t == <<"retrieve", "retrieve", "detect_contradiction", "aggregate", "answer">>
  <2>1. AnswerLast(5, t)
    BY DEF AnswerLast, StepTypes
  <2> HIDE DEF t
  <2>2. OK(Free(t))
    BY <2>1, FreeForm
  <2>3. QED
    BY <2>2 DEF t
<1>6. OK(MultiStep(parts))
  BY MultiStepForm
<1> HIDE DEF OK
<1>7. OK(Decompose(kind, parts))
  BY <1>1, <1>2, <1>3, <1>4, <1>5, <1>6 DEF Decompose
<1>8. QED
  BY <1>7 DEF OK

\* The dependencies the generator adds to the answer keep the form.
LEMMA GeneratedIsOK ==
  ASSUME NEW signals, NEW parts \in Nat \ {0}, NEW hint \in Nat
  PROVE  PlanOK(GeneratedPlan(signals, parts, hint)) /\ GeneratedPlan(signals, parts, hint).generated
<1> DEFINE kind == Classify(signals)
           expected == IF hint = 0 THEN DefaultExpected(kind) ELSE hint
           d == Decompose(kind, parts)
           steps == ResolveDependencies(d)
           p == GeneratedPlan(signals, parts, hint)
<1>1. p.steps = steps /\ p.expected = expected /\ p.generated = TRUE
  BY DEF GeneratedPlan
<1>2. expected \in Nat \ {0}
  BY DEF DefaultExpected
<1> HIDE DEF p, kind
<1>3. d \in Seq(AnyStep) /\ GeneratedForm(d)
  BY DecomposedForm
<1> HIDE DEF d, expected
<1> DEFINE n == Len(d)
           before == {d[i].id : i \in 1..n - 1}
<1>4. n \in Nat /\ n >= 1 /\ DOMAIN d = 1..n /\ \A i \in 1..n : d[i] \in AnyStep
  <2>1. n \in Nat /\ DOMAIN d = 1..n /\ n # 0
    BY <1>3, LenProperties, EmptySeq DEF GeneratedForm
  <2>2. QED
    BY <1>3, <2>1, ElementOfSeq
<1>5. before \subseteq 1..n - 1
  BY <1>3, <1>4 DEF GeneratedForm
<1>6. CASE d[n].type = "answer" /\ d[n].deps = {}
  <2> DEFINE r == [d EXCEPT ![n].deps = before]
  <2>1. steps = r
    BY <1>6 DEF ResolveDependencies
  <2>0. 1..n - 1 \subseteq Nat
    BY <1>4
  <2> HIDE DEF before
  <2>2. /\ DOMAIN r = 1..n /\ \A i \in 1..n : r[i] \in AnyStep
        /\ \A i \in 1..n : r[i].id = d[i].id /\ r[i].type = d[i].type
        /\ \A i \in 1..n : r[i].deps = IF i = n THEN before ELSE d[i].deps
    BY <1>4, <1>5, <2>0 DEF AnyStep
  <2> HIDE DEF r
  <2>3. r \in Seq(AnyStep) /\ Len(r) = n
    <3>0. \E m \in Nat : DOMAIN r = 1..m
      BY <1>4, <2>2
    <3>1. r = [i \in 1..n |-> r[i]]
      BY <2>2 DEF r
    <3>2. r \in [1..n -> AnyStep]
      BY <2>2, <3>1
    <3>3. QED
      BY <1>4, <3>2, SeqDef, LenProperties
  <2>4. r # <<>>
    BY <1>4, <2>3, EmptySeq
  <2>5. GeneratedForm(r)
    <3>1. \A i \in 1..n : d[i].id = i /\ d[i].deps \subseteq 1..i - 1 /\ (d[i].type = "answer" <=> i = n)
      BY <1>3, <1>4 DEF GeneratedForm
    <3>2. \A i \in 1..n : r[i].deps \subseteq 1..i - 1
      BY <1>4, <1>5, <2>2, <3>1
    <3> HIDE DEF n
    <3>3. QED
      BY <2>2, <2>3, <2>4, <3>1, <3>2 DEF GeneratedForm
  <2>6. QED
    BY <1>1, <1>2, <2>1, <2>3, <2>5 DEF PlanOK, p
<1>7. CASE ~(d[n].type = "answer" /\ d[n].deps = {})
  <2>1. steps = d
    BY <1>7 DEF ResolveDependencies
  <2>2. QED
    BY <1>1, <1>2, <1>3, <2>1 DEF PlanOK, p
<1>8. QED
  BY <1>6, <1>7

\* Without duplicates the validator's graph has the dependencies of each step.
LEMMA DepsOfStep ==
  ASSUME NEW p, NEW n \in Nat, DOMAIN p.steps = 1..n, ~Duplicates(p), NEW i \in DOMAIN p.steps
  PROVE  DepsOf(p, p.steps[i].id) = p.steps[i].deps
<1> DEFINE id == p.steps[i].id
           IsNewest(k) == p.steps[k].id = id /\ \A j \in DOMAIN p.steps : p.steps[j].id = id => j <= k
<1>1. \A j \in DOMAIN p.steps : p.steps[j].id = id => j = i
  BY DEF Duplicates
<1>2. IsNewest(i)
  BY <1>1
<1>3. (CHOOSE k \in DOMAIN p.steps : IsNewest(k)) = i
  <2> DEFINE c == CHOOSE k \in DOMAIN p.steps : IsNewest(k)
  <2>1. c \in DOMAIN p.steps /\ IsNewest(c)
    BY <1>2
  <2> HIDE DEF c
  <2>2. c = i
    BY <1>1, <2>1
  <2>3. QED
    BY <2>2 DEF c
<1>4. QED
  BY <1>3 DEF DepsOf

\* The validator accepts a plan of the form: a ring would have a least id, which
\* waits for lesser ones only.
LEMMA GeneratedIsAccepted ==
  ASSUME NEW p, PlanOK(p), p.generated
  PROVE  AcceptedPlan(p)
<1> DEFINE n == Len(p.steps)
<1>1. n \in Nat /\ DOMAIN p.steps = 1..n /\ p.steps # <<>> /\ p.expected >= 1
      /\ \A i \in 1..n : p.steps[i].id = i /\ p.steps[i].deps \subseteq 1..i - 1
  BY LenProperties DEF PlanOK, GeneratedForm
<1> HIDE DEF n
<1>2. StepIdsOf(p) = 1..n
  BY <1>1 DEF StepIdsOf
<1>3. ~Duplicates(p)
  BY <1>1 DEF Duplicates
<1>4. ~MissingDeps(p)
  <2>1. \A i \in 1..n : 1..i - 1 \subseteq 1..n
    BY <1>1
  <2>2. QED
    BY <1>1, <1>2, <2>1 DEF MissingDeps
<1>5. ~HasCycle(p)
  <2>1. SUFFICES ASSUME HasCycle(p) PROVE FALSE
    OBVIOUS
  <2>0. PICK ring \in (SUBSET StepIdsOf(p)) \ {{}} : \A id \in ring : DepsOf(p, id) \cap ring # {}
    BY <2>1 DEF HasCycle
  <2>2. \A i \in 1..n : DepsOf(p, i) = p.steps[i].deps
    <3>1. \A i \in DOMAIN p.steps : DepsOf(p, p.steps[i].id) = p.steps[i].deps
      BY <1>1, <1>3, DepsOfStep
    <3>2. QED
      BY <1>1, <3>1
  <2> DEFINE P == {k \in 0..n : \A j \in 1..k : j \notin ring}
  <2>3. 0 \in P
    BY <1>1
  <2>4. ASSUME NEW i \in 1..n, i - 1 \in P PROVE i \in P
    <3>1. i \notin ring
      <4>1. SUFFICES ASSUME i \in ring PROVE FALSE
        OBVIOUS
      <4>2. PICK j \in ring : j \in p.steps[i].deps
        BY <2>0, <2>2, <4>1
      <4>3. j \in 1..i - 1
        BY <1>1, <4>2
      <4>4. QED
        BY <2>4, <4>3
    <3>2. \A j \in 1..i : j \in 1..i - 1 \/ j = i
      BY <1>1
    <3>3. i \in 0..n
      BY <1>1
    <3>4. QED
      BY <2>4, <3>1, <3>2, <3>3
  <2> HIDE DEF P
  <2>5. n \in P
    <3>1. 0..n \subseteq P
      BY <1>1, <2>3, <2>4, UpToInduction
    <3>2. n \in 0..n
      BY <1>1
    <3>3. QED
      BY <3>1, <3>2
  <2>6. \A i \in 1..n : i \notin ring
    BY <2>5 DEF P
  <2>7. QED
    <3>1. ring # {} /\ ring \subseteq 1..n
      BY <1>2, <2>0
    <3>2. QED
      BY <2>6, <3>1
<1>6. QED
  BY <1>1, <1>3, <1>4, <1>5 DEF AcceptedPlan

\* What the answer step hands on comes from what the steps before it found.
LEMMA GatheredIsFound ==
  ASSUME results \in Seq(StepResult)
  PROVE  /\ Gathered \in Seq(PlanChunks)
         /\ \A c \in ToSet(Gathered) : \E k \in DOMAIN results : c \in ToSet(results[k].output.chunks)
<1> DEFINE n == Len(results)
           upTo[k \in 0..n] == IF k = 0 THEN <<>> ELSE upTo[k - 1] \o results[k].output.chunks
           G == [p \in Seq(PlanChunks) \X (1..n) |-> p[1] \o results[p[2]].output.chunks]
<1>0. Gathered = upTo[n]
  BY DEF Gathered
<1>1. n \in Nat /\ DOMAIN results = 1..n /\ \A i \in 1..n : results[i].output.chunks \in Seq(PlanChunks)
  <2>1. n \in Nat /\ DOMAIN results = 1..n
    BY LenProperties
  <2>2. \A i \in 1..n : results[i] \in StepResult
    BY ElementOfSeq
  <2>3. QED
    BY <2>1, <2>2 DEF StepResult, PlanOutput
<1> HIDE DEF n
<1>2. G \in [Seq(PlanChunks) \X (1..n) -> Seq(PlanChunks)]
  <2> SUFFICES ASSUME NEW l \in Seq(PlanChunks), NEW i \in 1..n
               PROVE  l \o results[i].output.chunks \in Seq(PlanChunks)
    OBVIOUS
  <2>1. QED
    BY <1>1, ConcatProperties
<1>3. PICK f : Recursion(Seq(PlanChunks), <<>>, n, G, f)
  <2>1. RecursionData(Seq(PlanChunks), <<>>, n, G)
    BY <1>1, <1>2, EmptySeq DEF RecursionData
  <2> HIDE DEF G, upTo
  <2>2. QED
    BY <2>1, RecursionExists
<1>4. \A i \in 1..n : i - 1 \in 0..n /\ i \in 0..n /\ f[i - 1] \in Seq(PlanChunks)
  BY <1>1, <1>3 DEF Recursion
<1>5. \A i \in 1..n : f[i] = f[i - 1] \o results[i].output.chunks
  BY <1>3, <1>4 DEF Recursion
<1> HIDE DEF G
<1>6. f = [i \in 0..n |-> IF i = 0 THEN <<>> ELSE f[i - 1] \o results[i].output.chunks]
  <2>1. ASSUME NEW i \in 0..n
        PROVE  f[i] = IF i = 0 THEN <<>> ELSE f[i - 1] \o results[i].output.chunks
    <3>1. i = 0 \/ i \in 1..n
      BY <1>1
    <3>2. QED
      BY <1>3, <1>5, <3>1 DEF Recursion
  <2>2. QED
    BY <1>3, <2>1 DEF Recursion
<1>7. upTo = [i \in 0..n |-> IF i = 0 THEN <<>> ELSE upTo[i - 1] \o results[i].output.chunks]
  BY <1>6
<1> HIDE DEF upTo
<1>8. upTo[0] = <<>> /\ \A i \in 1..n : upTo[i] = upTo[i - 1] \o results[i].output.chunks
  <2>1. 0 \in 0..n /\ \A i \in 1..n : i \in 0..n /\ i # 0
    BY <1>1
  <2>2. QED
    BY <1>7, <2>1
<1> DEFINE Good(s) == /\ s \in Seq(PlanChunks)
                      /\ \A j \in 1..Len(s) : \E k \in 1..n : s[j] \in ToSet(results[k].output.chunks)
           P == {i \in 0..n : Good(upTo[i])}
<1>9. 0 \in P
  <2>1. <<>> \in Seq(PlanChunks) /\ Len(<<>>) = 0
    BY EmptySeq
  <2>2. Good(upTo[0]) /\ 0 \in 0..n
    BY <1>1, <1>8, <2>1
  <2>3. QED
    BY <2>2
<1>10. ASSUME NEW i \in 1..n, i - 1 \in P PROVE i \in P
  <2> DEFINE l == upTo[i - 1]
             m == results[i].output.chunks
  <2>1. /\ l \in Seq(PlanChunks) /\ m \in Seq(PlanChunks)
        /\ \A j \in 1..Len(l) : \E k \in 1..n : l[j] \in ToSet(results[k].output.chunks)
    BY <1>1, <1>10
  <2>2. /\ l \o m \in Seq(PlanChunks) /\ Len(l \o m) = Len(l) + Len(m) /\ Len(l) \in Nat /\ Len(m) \in Nat
        /\ \A j \in 1..Len(l) + Len(m) : (l \o m)[j] = IF j <= Len(l) THEN l[j] ELSE m[j - Len(l)]
    BY <2>1, ConcatProperties, LenProperties
  <2>3. \A j \in 1..Len(m) : m[j] \in ToSet(m)
    BY <2>1, LenProperties DEF ToSet
  <2>4. l \o m = upTo[i] /\ ToSet(m) = ToSet(results[i].output.chunks)
    BY <1>8
  <2> HIDE DEF l, m
  <2>5. ASSUME NEW j \in 1..Len(l \o m)
        PROVE  \E k \in 1..n : (l \o m)[j] \in ToSet(results[k].output.chunks)
    <3>1. CASE j <= Len(l)
      <4>1. j \in 1..Len(l)
        BY <2>2, <3>1
      <4>2. QED
        BY <2>1, <2>2, <3>1, <4>1
    <3>2. CASE ~(j <= Len(l))
      <4>1. j - Len(l) \in 1..Len(m) /\ j \in 1..Len(l) + Len(m)
        BY <2>2, <3>2
      <4>2. (l \o m)[j] = m[j - Len(l)]
        BY <2>2, <3>2, <4>1
      <4>3. QED
        BY <2>3, <2>4, <4>1, <4>2
    <3>3. QED
      BY <3>1, <3>2
  <2>6. Good(upTo[i]) /\ i \in 0..n
    <3>1. Good(l \o m)
      BY <2>2, <2>5
    <3> HIDE DEF Good
    <3>2. QED
      BY <1>1, <2>4, <3>1
  <2>7. QED
    BY <2>6
<1> HIDE DEF P
<1>11. n \in P
  <2>1. 0..n \subseteq P
    BY <1>1, <1>9, <1>10, UpToInduction
  <2>2. n \in 0..n
    BY <1>1
  <2>3. QED
    BY <2>1, <2>2
<1>12. Good(Gathered)
  BY <1>0, <1>11 DEF P
<1>13. QED
  BY <1>1, <1>12, LenProperties DEF ToSet

\* A retrieval cites what it found.
LEMMA FoundOK ==
  ASSUME NEW chunks \in Seq(PlanChunks)
  PROVE  /\ PassagesFound(chunks) \in PlanOutput /\ PassagesFound(chunks).answers = FALSE
         /\ PassagesFound(chunks).cites = Citable(PassagesFound(chunks).chunks)
<1>1. ToSet(chunks) \subseteq PlanChunks
  BY LenProperties, ElementOfSeq DEF ToSet
<1>2. QED
  BY <1>1 DEF PassagesFound, PlanOutput, Citable

\* An answer cites what was cited before, and cuts only what it hands on.
LEMMA AnswerOK ==
  ASSUME results \in Seq(StepResult)
  PROVE  /\ AnswerOf(Gathered, Cited) \in PlanOutput /\ AnswerOf(Gathered, Cited).answers = TRUE
         /\ AnswerOf(Gathered, Cited).cites = Cited
         /\ ToSet(AnswerOf(Gathered, Cited).chunks) \subseteq ToSet(Gathered)
<1> DEFINE g == Gathered
           first == SubSeq(g, 1, EvidenceLimit)
<1>1. g \in Seq(PlanChunks) /\ Len(g) \in Nat /\ EvidenceLimit \in Nat \ {0}
  BY GatheredIsFound, LenProperties, PlanningAssumption
<1>2. \A j \in 1..Len(g) : g[j] \in PlanChunks /\ g[j] \in ToSet(g)
  BY <1>1, LenProperties, ElementOfSeq DEF ToSet
<1>3. Cited \subseteq PlanChunks
  <2>1. \A k \in DOMAIN results : results[k] \in StepResult
    BY LenProperties, ElementOfSeq
  <2>2. \A k \in DOMAIN results : results[k].output.cites \subseteq PlanChunks
    BY <2>1 DEF StepResult, PlanOutput
  <2>3. QED
    BY <2>2 DEF Cited
<1> HIDE DEF g
<1>4. CASE Len(g) > EvidenceLimit
  <2>1. \A j \in 1..EvidenceLimit : j \in 1..Len(g)
    BY <1>1, <1>4
  <2>2. first \in Seq(PlanChunks) /\ Len(first) = EvidenceLimit
        /\ \A j \in 1..EvidenceLimit : first[j] = g[j]
    <3>1. 1 \in Nat /\ EvidenceLimit \in Nat /\ \A j \in 1..EvidenceLimit : g[j] \in PlanChunks
      BY <1>1, <1>2, <2>1
    <3>2. /\ first \in Seq(PlanChunks) /\ Len(first) = IF 1 <= EvidenceLimit THEN EvidenceLimit - 1 + 1 ELSE 0
          /\ \A j \in 1..EvidenceLimit - 1 + 1 : first[j] = g[1 + j - 1]
      BY <1>1, <3>1, SubSeqProperties
    <3> HIDE DEF first
    <3>3. EvidenceLimit - 1 + 1 = EvidenceLimit /\ \A j \in 1..EvidenceLimit : 1 + j - 1 = j
      BY <1>1
    <3>4. QED
      BY <1>1, <3>2, <3>3
  <2> HIDE DEF first
  <2>3. ToSet(first) \subseteq ToSet(g)
    BY <1>2, <2>1, <2>2, LenProperties DEF ToSet
  <2>4. AnswerOf(g, Cited) = [chunks |-> first, cites |-> Cited, answers |-> TRUE]
    BY <1>4 DEF AnswerOf, first
  <2>5. QED
    BY <1>3, <2>2, <2>3, <2>4 DEF PlanOutput, g
<1>5. CASE ~(Len(g) > EvidenceLimit)
  <2>1. AnswerOf(g, Cited) = [chunks |-> g, cites |-> Cited, answers |-> TRUE]
    BY <1>5 DEF AnswerOf
  <2>2. QED
    BY <1>1, <1>3, <2>1 DEF PlanOutput, g
<1>6. QED
  BY <1>4, <1>5

\* What a step of the plan may return.
LEMMA OutcomeOK ==
  ASSUME results \in Seq(StepResult), supplied \in Seq(PlanChunks),
         NEW i \in DOMAIN plan.steps, NEW r \in Outcomes(i), i \in Nat
  PROVE  /\ r \in StepResult /\ r.step = i /\ (r.status = "skipped" => plan.steps[i].optional)
         /\ plan.steps[i].type = "answer" =>
              /\ r.status = "success" /\ r.output.answers
              /\ r.output.cites = Cited /\ ToSet(r.output.chunks) \subseteq ToSet(Gathered)
         /\ plan.steps[i].type # "answer" =>
              ~r.output.answers /\ r.output.cites = Citable(r.output.chunks)
<1> DEFINE ok(output) == [step |-> i, status |-> "success", output |-> output]
           failed == [step |-> i, status |-> IF plan.steps[i].optional THEN "skipped" ELSE "failed",
                      output |-> NothingFound]
<1>1. NothingFound \in PlanOutput /\ ~NothingFound.answers /\ NothingFound.cites = Citable(NothingFound.chunks)
  BY EmptySeq, FoundOK DEF NothingFound
<1>2. CASE plan.steps[i].type = "answer"
  <2> DEFINE a == AnswerOf(Gathered, Cited)
  <2>1. r = ok(a)
    BY <1>2 DEF Outcomes
  <2>2. a \in PlanOutput /\ a.answers = TRUE /\ a.cites = Cited /\ ToSet(a.chunks) \subseteq ToSet(Gathered)
    BY AnswerOK
  <2> HIDE DEF a
  <2>3. r.step = i /\ r.status = "success" /\ r.output = a /\ r \in StepResult
    BY <2>1, <2>2 DEF StepResult
  <2>4. QED
    BY <1>2, <2>2, <2>3
<1>3. CASE plan.steps[i].type # "answer"
  <2>1. r = failed \/ \E o \in PlanOutput : r = ok(o) /\ ~o.answers /\ o.cites = Citable(o.chunks)
    <3>1. CASE r = failed \/ r = ok(NothingFound)
      BY <1>1, <3>1
    <3>2. CASE r = ok(PassagesFound(supplied))
      BY <3>2, FoundOK
    <3>3. CASE r \in {ok(PassagesFound(<<c>>)) : c \in PlanChunks}
      <4>1. PICK c \in PlanChunks : r = ok(PassagesFound(<<c>>))
        BY <3>3
      <4>2. <<c>> \in Seq(PlanChunks)
        OBVIOUS
      <4> DEFINE o == PassagesFound(<<c>>)
      <4>3. o \in PlanOutput /\ o.answers = FALSE /\ o.cites = Citable(o.chunks)
        BY <4>2, FoundOK
      <4> HIDE DEF o
      <4>4. r = ok(o)
        BY <4>1 DEF o
      <4>5. QED
        BY <4>3, <4>4
    <3>4. QED
      BY <1>3, <3>1, <3>2, <3>3 DEF Outcomes
  <2>2. CASE r = failed
    <3>1. r.step = i /\ r.output = NothingFound /\ r.status \in {"skipped", "failed"}
          /\ (r.status = "skipped" => plan.steps[i].optional)
      BY <2>2
    <3>2. r \in StepResult
      <4>1. r = [step |-> i, status |-> r.status, output |-> NothingFound]
        BY <2>2
      <4>2. QED
        BY <1>1, <3>1, <4>1 DEF StepResult
    <3>3. QED
      BY <1>1, <1>3, <3>1, <3>2
  <2>3. ASSUME NEW o \in PlanOutput, r = ok(o), ~o.answers, o.cites = Citable(o.chunks)
        PROVE  r \in StepResult /\ r.step = i /\ r.status = "success" /\ r.output = o
    BY <2>3 DEF StepResult
  <2>4. QED
    BY <1>3, <2>1, <2>2, <2>3
<1>4. QED
  BY <1>2, <1>3

\* A step of the round leaves what has been run in its turn.
LEMMA RunStepProgress ==
  ASSUME PlanOK(plan), supplied \in Seq(PlanChunks), Progress(plan, pass, remaining, results),
         NEW i \in pass, Ready(i), \A j \in pass : j < i => ~Ready(j), NEW r \in Outcomes(i)
  PROVE  Progress(plan, {j \in pass : j > i}, remaining \ {i}, Append(results, r))
<1> DEFINE p == plan
           n == Len(p.steps)
           m == Len(results)
           rs == Append(results, r)
           ps == {j \in pass : j > i}
           rem == remaining \ {i}
<1>1. n \in Nat /\ DOMAIN p.steps = 1..n /\ p.generated \in BOOLEAN
  BY LenProperties DEF PlanOK
<1>2. /\ results \in Seq(StepResult) /\ m \in Nat /\ DOMAIN results = 1..m
      /\ pass \subseteq remaining /\ remaining \subseteq 1..n
      /\ {results[k].step : k \in 1..m} = (1..n) \ remaining
      /\ m + Cardinality(remaining) = n
      /\ \A k \in 1..m : InItsTurn(p, results, k)
  BY <1>1, LenProperties DEF Progress
<1>3. i \in remaining /\ i \in 1..n /\ i \in Nat
  BY <1>1, <1>2
<1>4. /\ r \in StepResult /\ r.step = i /\ (r.status = "skipped" => p.steps[i].optional)
      /\ p.steps[i].type = "answer" =>
           /\ r.status = "success" /\ r.output.answers
           /\ r.output.cites = Cited /\ ToSet(r.output.chunks) \subseteq ToSet(Gathered)
      /\ p.steps[i].type # "answer" =>
           ~r.output.answers /\ r.output.cites = Citable(r.output.chunks)
  BY <1>1, <1>2, <1>3, OutcomeOK
<1>5. /\ rs \in Seq(StepResult) /\ Len(rs) = m + 1 /\ DOMAIN rs = 1..m + 1
      /\ rs[m + 1] = r /\ \A k \in 1..m : rs[k] = results[k]
  BY <1>2, <1>4, AppendProperties, LenProperties
<1>6. Completed = {p.steps[results[k].step].id : k \in 1..m}
  BY <1>2 DEF Completed
<1>7. p.steps[i].deps \subseteq Completed
  BY DEF Ready
<1> HIDE DEF rs, m, n
<1>8. \A k \in 1..m + 1 : k \in 1..m \/ k = m + 1
  BY <1>2
<1>9. {rs[k].step : k \in 1..m + 1} = (1..n) \ rem
  <2>1. {rs[k].step : k \in 1..m + 1} = {results[k].step : k \in 1..m} \cup {i}
    <3>1. \A k \in 1..m : k \in 1..m + 1 /\ rs[k].step = results[k].step
      BY <1>2, <1>5
    <3>2. m + 1 \in 1..m + 1 /\ rs[m + 1].step = i
      BY <1>2, <1>4, <1>5
    <3>3. QED
      BY <1>8, <3>1, <3>2
  <2>2. QED
    BY <1>2, <1>3, <2>1
<1>10. (m + 1) + Cardinality(rem) = n
  <2>1. IsFiniteSet(remaining)
    <3>1. IsFiniteSet(1..n)
      BY <1>1, FS_Interval
    <3>2. remaining \in SUBSET (1..n)
      BY <1>2
    <3>3. QED
      BY <3>1, <3>2, FS_Subset
  <2>2. Cardinality(rem) = Cardinality(remaining) - 1 /\ Cardinality(remaining) \in Nat
    BY <1>3, <2>1, FS_RemoveElement, FS_CardinalityType
  <2>3. QED
    BY <1>1, <1>2, <2>2
<1>11. ASSUME NEW k \in 1..m + 1 PROVE InItsTurn(p, rs, k)
  <2>1. \A l \in 1..k - 1 : l \in 1..m
    BY <1>2
  <2>2. {p.steps[rs[l].step].id : l \in 1..k - 1} = {p.steps[results[l].step].id : l \in 1..k - 1}
    BY <1>5, <2>1
  <2>3. CASE k \in 1..m
    BY <1>2, <1>5, <2>2, <2>3 DEF InItsTurn
  <2>4. CASE k = m + 1
    <3>1. k - 1 = m /\ rs[k] = r
      BY <1>2, <1>5, <2>4
    <3>2. p.steps[i].deps \subseteq {p.steps[rs[l].step].id : l \in 1..k - 1}
      BY <1>6, <1>7, <2>2, <3>1
    <3>3. QED
      BY <1>4, <3>1, <3>2 DEF InItsTurn
  <2>5. QED
    BY <1>8, <2>3, <2>4
<1>12. ASSUME p.generated
       PROVE  ps = rem /\ \A k \in 1..m + 1 : InOrder(p, rs, k)
  <2>1. /\ pass = remaining /\ \A k \in 1..m : InOrder(p, results, k)
    BY <1>2, <1>12 DEF Progress
  <2>2. \A j \in 1..n : p.steps[j].id = j /\ p.steps[j].deps \subseteq 1..j - 1 /\ (p.steps[j].type = "answer" <=> j = n)
    BY <1>1, <1>12 DEF PlanOK, GeneratedForm, n
  <2>3. \A k \in 1..m : results[k].step = k
    BY <2>1 DEF InOrder
  <2>4. {results[k].step : k \in 1..m} = 1..m
    BY <2>3
  <2>5. m < n
    <3>1. IsFiniteSet(remaining) /\ remaining # {}
      <4>1. IsFiniteSet(1..n)
        BY <1>1, FS_Interval
      <4>2. remaining \in SUBSET (1..n)
        BY <1>2
      <4>3. QED
        BY <1>3, <4>1, <4>2, FS_Subset
    <3>2. Cardinality(remaining) \in Nat /\ Cardinality(remaining) # 0
      BY <3>1, FS_CardinalityType, FS_EmptySet
    <3>3. QED
      BY <1>1, <1>2, <3>2
  <2>6. 1..m \subseteq 1..n /\ m + 1 \in 1..n /\ m + 1 \notin 1..m
    BY <1>1, <1>2, <2>5
  <2>7. remaining = (1..n) \ (1..m)
    BY <1>2, <2>4, <2>6
  <2>8. Completed = 1..m
    <3>1. \A k \in 1..m : p.steps[results[k].step].id = k
      BY <2>2, <2>3, <2>6
    <3>2. QED
      BY <1>6, <3>1
  <2>9. Ready(m + 1) /\ m + 1 \in pass
    <3>1. p.steps[m + 1].deps \subseteq 1..m
      <4>1. (m + 1) - 1 = m
        BY <1>2
      <4>2. QED
        BY <2>2, <2>6, <4>1
    <3>2. QED
      BY <2>1, <2>6, <2>7, <2>8, <3>1 DEF Ready
  <2>10. i = m + 1
    <3>1. ~(m + 1 < i)
      BY <2>9
    <3>2. i \notin 1..m
      BY <1>3, <2>7
    <3>3. QED
      BY <1>2, <1>3, <3>1, <3>2
  <2>11. ps = rem
    <3>1. \A j \in 1..n : j \notin 1..m => j = i \/ j > i
      BY <1>1, <1>2, <2>10
    <3>2. \A j \in 1..n : j > i => j \notin 1..m /\ j # i
      BY <1>1, <1>2, <2>10
    <3>3. QED
      BY <2>1, <2>7, <3>1, <3>2
  <2>12. ASSUME NEW k \in 1..m PROVE InOrder(p, rs, k)
    <3>1. rs[k] = results[k] /\ InOrder(p, results, k) /\ k # n
      BY <1>1, <1>2, <1>5, <2>1, <2>5
    <3>2. k < n
      BY <1>1, <1>2, <2>5
    <3>3. QED
      BY <3>1, <3>2 DEF InOrder, n
  <2>13. InOrder(p, rs, m + 1)
    <3>1. rs[m + 1] = r /\ r.step = m + 1
      BY <1>4, <1>5, <2>10
    <3>2. CASE m + 1 # n
      <4>1. p.steps[i].type # "answer"
        BY <2>2, <2>6, <2>10, <3>2
      <4>2. QED
        BY <1>4, <3>1, <3>2, <4>1 DEF InOrder, n
    <3>3. CASE m + 1 = n
      <4>1. p.steps[i].type = "answer"
        BY <2>2, <2>6, <2>10, <3>3
      <4>2. \A k \in 1..m : results[k].output.cites = Citable(results[k].output.chunks)
        <5>1. \A k \in 1..m : k < n
          BY <1>1, <1>2, <2>5
        <5>2. QED
          BY <2>1, <5>1 DEF InOrder, n
      <4>3. Cited = UNION {results[k].output.cites : k \in 1..m}
        BY <1>2 DEF Cited
      <4>4. Citable(Gathered) \subseteq Cited
        <5>1. \A c \in Citable(Gathered) : \E k \in 1..m : c \in Citable(results[k].output.chunks)
          BY <1>2, GatheredIsFound DEF Citable
        <5>2. QED
          BY <4>2, <4>3, <5>1
      <4>5. Cited = UNION {rs[k].output.cites : k \in 1..(m + 1) - 1}
        <5>1. (m + 1) - 1 = m
          BY <1>2
        <5>2. {rs[k].output.cites : k \in 1..m} = {results[k].output.cites : k \in 1..m}
          BY <1>5
        <5>3. QED
          BY <4>3, <5>1, <5>2
      <4>6. r.status = "success" /\ r.output.answers /\ r.output.cites = Cited
            /\ Citable(r.output.chunks) \subseteq r.output.cites
        BY <1>4, <4>1, <4>4 DEF Citable
      <4>7. ~(m + 1 < n)
        BY <1>1, <3>3
      <4>8. QED
        BY <3>1, <3>3, <4>5, <4>6, <4>7 DEF InOrder, n
    <3>4. QED
      BY <3>2, <3>3
  <2>14. QED
    BY <1>8, <2>11, <2>12, <2>13
<1>13. ps \subseteq rem /\ rem \subseteq 1..n
  BY <1>1, <1>2, <1>3
<1>14. QED
  <2>1. DOMAIN plan.steps = 1..n /\ Len(rs) + Cardinality(rem) = Len(plan.steps)
    BY <1>1, <1>5, <1>10 DEF n
  <2> HIDE DEF ps, rem
  <2>2. QED
    BY <1>5, <1>9, <1>11, <1>12, <1>13, <2>1 DEF Progress, ps, rem, rs

\* Nothing that remains of an accepted plan waits for ever.
LEMMA NoneLeftOver ==
  ASSUME PlanOK(plan), AcceptedPlan(plan), Progress(plan, pass, remaining, results),
         \A i \in remaining : ~Ready(i)
  PROVE  remaining = {}
<1> DEFINE p == plan
           n == Len(p.steps)
           ring == {p.steps[i].id : i \in remaining}
<1>1. n \in Nat /\ DOMAIN p.steps = 1..n
  BY LenProperties DEF PlanOK
<1>2. ~Duplicates(p) /\ ~MissingDeps(p) /\ ~HasCycle(p)
  BY DEF AcceptedPlan
<1>3. remaining \subseteq 1..n /\ {results[k].step : k \in DOMAIN results} = (1..n) \ remaining
  BY <1>1 DEF Progress
<1> HIDE DEF n
<1>4. ASSUME NEW id \in ring PROVE DepsOf(p, id) \cap ring # {}
  <2>1. PICK i \in remaining : id = p.steps[i].id
    OBVIOUS
  <2>2. i \in 1..n
    BY <1>3
  <2>3. DepsOf(p, id) = p.steps[i].deps
    BY <1>1, <1>2, <2>1, <2>2, DepsOfStep
  <2>4. PICK d \in p.steps[i].deps : d \notin Completed
    BY <2>1 DEF Ready
  <2>5. d \in StepIdsOf(p)
    BY <1>1, <1>2, <2>2, <2>4 DEF MissingDeps
  <2>6. PICK j \in 1..n : d = p.steps[j].id
    BY <1>1, <2>5 DEF StepIdsOf
  <2>7. j \in remaining
    <3>1. SUFFICES ASSUME j \notin remaining PROVE FALSE
      OBVIOUS
    <3>2. PICK k \in DOMAIN results : results[k].step = j
      BY <1>3, <3>1
    <3>3. d \in Completed
      BY <2>6, <3>2 DEF Completed
    <3>4. QED
      BY <2>4, <3>3
  <2>8. d \in ring
    BY <2>6, <2>7
  <2>9. QED
    BY <2>3, <2>4, <2>8
<1>5. ring \subseteq StepIdsOf(p)
  BY <1>1, <1>3 DEF StepIdsOf
<1>6. ring = {}
  <2> HIDE DEF ring
  <2>1. QED
    BY <1>2, <1>4, <1>5 DEF HasCycle
<1>7. QED
  BY <1>6

\* A round that let nothing run ends the execution of an accepted plan with
\* nothing left over.
LEMMA RoundProgress ==
  ASSUME PlanOK(plan), AcceptedPlan(plan), Progress(plan, pass, remaining, results), stage = "running", EndRound
  PROVE  /\ plan' = plan
         /\ stage' = "running" => Progress(plan, pass', remaining', results')
         /\ stage' # "running" => stage' = "finished" /\ Progress(plan, {}, {}, results')
<1>1. plan' = plan
  BY DEF EndRound
<1>2. CASE \E i \in remaining : Ready(i)
  <2>1. pass' = remaining /\ remaining' = remaining /\ results' = results /\ stage' = stage
    BY <1>2 DEF EndRound
  <2>2. Progress(plan, remaining, remaining, results)
    BY DEF Progress
  <2>3. QED
    BY <1>1, <2>1, <2>2
<1>3. CASE ~\E i \in remaining : Ready(i)
  <2> DEFINE skips == [k \in 1..Cardinality(remaining) |->
                         [step |-> LeftOver(k), status |-> "missing", output |-> NothingFound]]
  <2>1. results' = results \o skips /\ stage' = "finished"
    BY <1>3 DEF EndRound
  <2>2. remaining = {}
    BY <1>3, NoneLeftOver
  <2>3. Cardinality(remaining) = 0
    BY <2>2, FS_EmptySet
  <2>4. results \in Seq(StepResult)
    BY DEF Progress
  <2>5. results \o skips = results
    <3>1. skips \in [1..0 -> StepResult]
      <4>1. 1..Cardinality(remaining) = {}
        BY <2>3
      <4>2. skips = [k \in {} |-> [step |-> LeftOver(k), status |-> "missing", output |-> NothingFound]]
        BY <4>1
      <4>3. QED
        BY <4>2
    <3> HIDE DEF skips
    <3>2. skips = <<>>
      <4>1. 0 \in Nat /\ \E k \in Nat : skips \in [1..k -> StepResult]
        BY <3>1
      <4>2. skips \in Seq(StepResult)
        BY <4>1, SeqDef
      <4>3. Len(skips) \in Nat /\ DOMAIN skips = 1..Len(skips) /\ DOMAIN skips = 1..0
        BY <3>1, <4>2, LenProperties
      <4>4. Len(skips) = 0
        BY <4>3
      <4>5. QED
        BY <4>2, <4>4, EmptySeq
    <3>3. QED
      BY <2>4, <3>2, ConcatEmptySeq
  <2>6. pass = {}
    BY <2>2 DEF Progress
  <2>7. QED
    BY <1>1, <2>1, <2>2, <2>5, <2>6
<1>4. QED
  BY <1>2, <1>3

\* The elements of a finite set in some order.
LEMMA SetToSeqIsSeq ==
  ASSUME NEW S, IsFiniteSet(S)
  PROVE  SetToSeq(S) \in Seq(S)
<1>1. Cardinality(S) \in Nat /\ ExistsBijection(1..Cardinality(S), S)
  BY FS_CardinalityType
<1>2. PICK f \in Bijection(1..Cardinality(S), S) : TRUE
  BY <1>1 DEF ExistsBijection
<1>3. f \in [1..Cardinality(S) -> S] /\ IsInjective(f)
  <2>1. f \in [1..Cardinality(S) -> S] /\ \A a, b \in 1..Cardinality(S) : f[a] = f[b] => a = b
    BY <1>2 DEF Bijection, Injection, IsInjective
  <2>2. QED
    BY <2>1 DEF IsInjective
<1>4. SetToSeq(S) \in [1..Cardinality(S) -> S]
  BY <1>3 DEF SetToSeq
<1>5. QED
  BY <1>1, <1>4, SeqDef

\* The invariant of a planner holds before the first plan,
LEMMA PlanInvInit == PlanningInit => PlanInv
<1> SUFFICES ASSUME PlanningInit PROVE PlanInv
  OBVIOUS
<1>1. plan = RawPlan(<<>>) /\ supplied = <<>> /\ stage = "idle"
  BY DEF PlanningInit, NoPlan
<1>2. supplied \in Seq(PlanChunks)
  BY <1>1, EmptySeq
<1>3. PlanOK(plan)
  <2>1. PlanOK(RawPlan(<<>>))
    BY EmptySeq DEF PlanOK, RawPlan
  <2>2. QED
    BY <1>1, <2>1
<1>4. QED
  BY <1>1, <1>2, <1>3 DEF PlanInv

\* every step keeps it,
LEMMA PlanInvNext == PlanInv /\ [PlanningNext]_planningVars => PlanInv'
<1> SUFFICES ASSUME PlanInv, [PlanningNext]_planningVars PROVE PlanInv'
  OBVIOUS
<1>1. /\ PlanOK(plan) /\ supplied \in Seq(PlanChunks) /\ stage \in {"idle", "planned", "running", "finished"}
      /\ AcceptedPlan(plan) /\ stage = "running" => Progress(plan, pass, remaining, results)
      /\ AcceptedPlan(plan) /\ stage = "finished" => Progress(plan, {}, {}, results)
  BY DEF PlanInv
<1>2. ASSUME NEW signals \in Signals, NEW parts \in 1..MaxParts, NEW hint \in {0, 1, 3},
             NEW chunks \in {<<>>, SetToSeq(PlanChunks)}, GeneratePlan(signals, parts, hint, chunks)
      PROVE  PlanInv'
  <2>1. plan' = GeneratedPlan(signals, parts, hint) /\ supplied' = chunks /\ stage' = "planned"
    BY <1>2 DEF GeneratePlan
  <2>2. chunks \in Seq(PlanChunks)
    BY PlanningAssumption, SetToSeqIsSeq, EmptySeq
  <2>3. parts \in Nat \ {0} /\ hint \in Nat
    BY PlanningAssumption
  <2>4. PlanOK(plan')
    BY <2>1, <2>3, GeneratedIsOK
  <2>5. QED
    BY <2>1, <2>2, <2>4 DEF PlanInv
<1>3. ASSUME NEW k \in 0..MaxSteps, NEW steps \in [1..k -> RawStep], Submit(steps)
      PROVE  PlanInv'
  <2>1. plan' = RawPlan(steps) /\ supplied' = <<>> /\ stage' = "planned"
    BY <1>3 DEF Submit
  <2>2. RawStep \subseteq AnyStep
    <3>1. SUFFICES ASSUME NEW s \in RawStep PROVE s \in AnyStep
      OBVIOUS
    <3> DEFINE Deps == {d \in SUBSET (StepIds \cup {0}) : Cardinality(d) <= MaxDeps}
    <3>0. Deps \subseteq SUBSET (StepIds \cup {0}) /\ RawStep = {PlanStep(id, "compare", deps, FALSE) : id \in StepIds, deps \in Deps}
      BY DEF RawStep
    <3> HIDE DEF Deps
    <3>2. PICK id \in StepIds, deps \in Deps : s = PlanStep(id, "compare", deps, FALSE)
      BY <3>0, <3>1 DEF PlanStep
    <3>3. id \in StepIds \cup Nat /\ deps \in SUBSET (StepIds \cup Nat)
      BY <3>0
    <3>4. QED
      BY <3>2, <3>3 DEF AnyStep, PlanStep, StepTypes
  <2>3. steps \in Seq(AnyStep)
    <3>1. k \in Nat /\ steps \in [1..k -> AnyStep]
      BY <2>2, PlanningAssumption
    <3>2. QED
      BY <3>1, SeqDef
  <2>4. PlanOK(RawPlan(steps))
    BY <2>3 DEF PlanOK, RawPlan
  <2>5. PlanOK(plan') /\ supplied' \in Seq(PlanChunks)
    BY <2>1, <2>4, EmptySeq
  <2>6. QED
    BY <2>1, <2>5 DEF PlanInv
<1>4. ASSUME Execute PROVE PlanInv'
  <2>1. /\ plan' = plan /\ supplied' = supplied /\ stage' = "running" /\ results' = <<>>
        /\ pass' = DOMAIN plan.steps /\ remaining' = DOMAIN plan.steps
    BY <1>4 DEF Execute
  <2>2. Progress(plan, DOMAIN plan.steps, DOMAIN plan.steps, <<>>)
    <3>1. Len(plan.steps) \in Nat /\ DOMAIN plan.steps = 1..Len(plan.steps)
      BY <1>1, LenProperties DEF PlanOK
    <3>2. Cardinality(DOMAIN plan.steps) = Len(plan.steps)
      BY <3>1, FS_Interval
    <3>3. <<>> \in Seq(StepResult) /\ Len(<<>>) = 0
      BY EmptySeq
    <3>4. DOMAIN <<>> = {}
      BY <3>3, LenProperties
    <3>5. QED
      BY <3>1, <3>2, <3>3, <3>4 DEF Progress
  <2>3. QED
    BY <1>1, <2>1, <2>2 DEF PlanInv
<1>5. ASSUME RunStep PROVE PlanInv'
  <2>1. plan' = plan /\ supplied' = supplied /\ stage' = "running" /\ stage = "running"
    BY <1>5 DEF RunStep
  <2>2. ASSUME AcceptedPlan(plan) PROVE Progress(plan, pass', remaining', results')
    <3>1. PICK i \in pass :
            /\ Ready(i) /\ \A j \in pass : j < i => ~Ready(j)
            /\ \E r \in Outcomes(i) : results' = Append(results, r)
            /\ remaining' = remaining \ {i} /\ pass' = {j \in pass : j > i}
      BY <1>5 DEF RunStep
    <3>2. PICK r \in Outcomes(i) : results' = Append(results, r)
      BY <3>1
    <3>3. Progress(plan, {j \in pass : j > i}, remaining \ {i}, Append(results, r))
      BY <1>1, <2>1, <2>2, <3>1, RunStepProgress
    <3>4. QED
      BY <3>1, <3>2, <3>3
  <2>3. QED
    BY <1>1, <2>1, <2>2 DEF PlanInv
<1>6. ASSUME EndRound PROVE PlanInv'
  <2>1. plan' = plan /\ supplied' = supplied /\ stage' \in {"running", "finished"} /\ stage = "running"
    BY <1>6 DEF EndRound
  <2>2. ASSUME AcceptedPlan(plan)
        PROVE  /\ stage' = "running" => Progress(plan, pass', remaining', results')
               /\ stage' = "finished" => Progress(plan, {}, {}, results')
    BY <1>1, <1>6, <2>1, <2>2, RoundProgress
  <2>3. QED
    BY <1>1, <2>1, <2>2 DEF PlanInv
<1>7. ASSUME Discard PROVE PlanInv'
  <2>1. plan' = RawPlan(<<>>) /\ supplied' = <<>> /\ stage' = "idle"
    BY <1>7 DEF Discard, NoPlan
  <2>2. PlanOK(RawPlan(<<>>))
    BY EmptySeq DEF PlanOK, RawPlan
  <2>3. PlanOK(plan') /\ supplied' \in Seq(PlanChunks)
    BY <2>1, <2>2, EmptySeq
  <2>4. QED
    BY <2>1, <2>3 DEF PlanInv
<1>8. ASSUME UNCHANGED executionVars PROVE PlanInv'
  BY <1>1, <1>8 DEF PlanInv, executionVars
<1>9. CASE \E parts \in SUBSET ToSet(Parts), failOpen \in BOOLEAN : AskAnswer(parts, failOpen)
  BY <1>8, <1>9 DEF AskAnswer
<1>10. CASE RunPart
  BY <1>8, <1>10 DEF RunPart
<1>11. CASE BuildResponse \/ TakeResponse
  BY <1>8, <1>11 DEF BuildResponse, TakeResponse
<1>12. CASE UNCHANGED planningVars
  BY <1>8, <1>12 DEF planningVars, executionVars
<1>13. QED
  BY <1>2, <1>3, <1>4, <1>5, <1>6, <1>7, <1>9, <1>10, <1>11, <1>12 DEF PlanningNext

\* The only answer of a plan is its final output.
LEMMA FinalOutputIsTheAnswer ==
  ASSUME NEW n \in Nat \ {0}, DOMAIN results = 1..n, results[n].status = "success",
         \A k \in 1..n : results[k].output.answers <=> k = n
  PROVE  FinalOutput = results[n].output
<1> DEFINE answeredWith == {k \in DOMAIN results : results[k].status = "success"}
           replies == {k \in answeredWith : results[k].output.answers}
           Latest(ks) == CHOOSE k \in ks : \A l \in ks : l <= k
<1>1. replies = {n}
  OBVIOUS
<1> HIDE DEF replies
<1>2. Latest(replies) = n
  BY <1>1
<1> HIDE DEF Latest, answeredWith
<1>3. replies # {}
  BY <1>1
<1>4. FinalOutput = results[Latest(replies)].output
  BY <1>3 DEF FinalOutput, replies, answeredWith, Latest
<1>5. QED
  BY <1>2, <1>4

\* and a finished execution with it ran its plan whole.
LEMMA PlanInvRunsWhole == PlanInv => AcceptedPlansRunWhole
<1> SUFFICES ASSUME PlanInv PROVE AcceptedPlansRunWhole
  OBVIOUS
<1> DEFINE n == Len(plan.steps)
<1>1. PlanOK(plan) /\ (plan.generated => AcceptedPlan(plan))
  BY GeneratedIsAccepted DEF PlanInv
<1>2. ASSUME stage = "finished", AcceptedPlan(plan)
      PROVE  /\ Len(results) = Len(plan.steps) /\ {r.step : r \in ToSet(results)} = DOMAIN plan.steps
             /\ \A k \in DOMAIN results :
                  /\ results[k].status # "missing"
                  /\ plan.steps[results[k].step].deps \subseteq {plan.steps[results[l].step].id : l \in 1..k - 1}
             /\ Overall = "success" =>
                  \A r \in ToSet(results) : plan.steps[r.step].optional \/ r.status = "success"
             /\ plan.generated =>
                  FinalOutput.cites = (UNION {ToSet(r.output.chunks) : r \in ToSet(results)}) \ Unnamed
  <2>1. n \in Nat /\ DOMAIN plan.steps = 1..n
    BY <1>1, LenProperties DEF PlanOK
  <2>2. Progress(plan, {}, {}, results)
    BY <1>2 DEF PlanInv
  <2> DEFINE m == Len(results)
  <2>3. /\ results \in Seq(StepResult) /\ m = n /\ DOMAIN results = 1..n
        /\ {results[k].step : k \in 1..n} = DOMAIN plan.steps
        /\ \A k \in 1..n : InItsTurn(plan, results, k)
    <3>1. results \in Seq(StepResult) /\ m \in Nat /\ DOMAIN results = 1..m
      BY <2>2, LenProperties DEF Progress
    <3>2. Cardinality({}) = 0
      BY FS_EmptySet
    <3>3. m = n
      BY <2>1, <2>2, <3>1, <3>2 DEF Progress
    <3> HIDE DEF m, n
    <3>4. QED
      BY <2>1, <2>2, <3>1, <3>3 DEF Progress
  <2>4. \A k \in 1..n : results[k] \in StepResult
    BY <2>1, <2>3, ElementOfSeq
  <2>5. ToSet(results) = {results[k] : k \in 1..n}
    BY <2>3 DEF ToSet
  <2> HIDE DEF m
  <2>6. Len(results) = Len(plan.steps) /\ {r.step : r \in ToSet(results)} = DOMAIN plan.steps
    BY <2>3, <2>5 DEF m
  <2>7. ASSUME NEW k \in DOMAIN results
        PROVE  /\ results[k].status # "missing"
               /\ plan.steps[results[k].step].deps \subseteq {plan.steps[results[l].step].id : l \in 1..k - 1}
    BY <2>3, <2>4 DEF InItsTurn, StepResult
  <2>8. ASSUME Overall = "success", NEW r \in ToSet(results)
        PROVE  plan.steps[r.step].optional \/ r.status = "success"
    <3>1. PICK k \in 1..n : r = results[k]
      BY <2>5
    <3>2. results[k].status # "failed"
      BY <2>3, <2>8 DEF Overall
    <3>3. results[k].status \in {"success", "skipped"}
      BY <2>4, <3>2 DEF StepResult
    <3>4. QED
      BY <2>3, <3>1, <3>3 DEF InItsTurn
  <2>9. ASSUME plan.generated
        PROVE  FinalOutput.cites = (UNION {ToSet(r.output.chunks) : r \in ToSet(results)}) \ Unnamed
    <3>1. n \in Nat \ {0}
      BY <1>1, <2>1, <2>9, EmptySeq DEF PlanOK, GeneratedForm
    <3>2. \A k \in 1..n : InOrder(plan, results, k)
      BY <2>2, <2>3, <2>9 DEF Progress
    <3> HIDE DEF n
    <3>3. /\ \A k \in 1..n : results[k].output.answers <=> k = n
          /\ \A k \in 1..n - 1 : results[k].output.cites = Citable(results[k].output.chunks)
          /\ results[n].status = "success"
          /\ results[n].output.cites = UNION {results[l].output.cites : l \in 1..n - 1}
          /\ Citable(results[n].output.chunks) \subseteq results[n].output.cites
      <4>1. n \in 1..n /\ \A k \in 1..n - 1 : k \in 1..n /\ k < n
        BY <3>1
      <4>2. QED
        BY <3>1, <3>2, <4>1 DEF InOrder, n
    <3>4. FinalOutput = results[n].output
      BY <2>3, <3>1, <3>3, FinalOutputIsTheAnswer
    <3>5. {results[l].output.cites : l \in 1..n - 1} = {Citable(results[l].output.chunks) : l \in 1..n - 1}
      BY <3>3
    <3>6. {ToSet(r.output.chunks) : r \in ToSet(results)} = {ToSet(results[k].output.chunks) : k \in 1..n}
      BY <2>5
    <3>7. \A k \in 1..n : k \in 1..n - 1 \/ k = n
      BY <3>1
    <3>8. 1..n - 1 \subseteq 1..n
      BY <3>1
    <3>9. UNION {Citable(results[k].output.chunks) : k \in 1..n}
            = UNION {Citable(results[l].output.chunks) : l \in 1..n - 1}
      BY <3>3, <3>5, <3>7, <3>8
    <3>10. (UNION {ToSet(results[k].output.chunks) : k \in 1..n}) \ Unnamed
             = UNION {Citable(results[k].output.chunks) : k \in 1..n}
      BY DEF Citable
    <3>11. QED
      BY <3>3, <3>4, <3>5, <3>6, <3>9, <3>10
  <2>10. QED
    BY <2>6, <2>7, <2>8, <2>9
<1>3. QED
  BY <1>1, <1>2 DEF AcceptedPlansRunWhole

\* A plan that the validator accepts - all that the generator makes are - runs
\* whole: each step once, after what it waits for, none given up; an answer
\* cites every chunk with a chunk_id that was retrieved (PlanExecutor.execute,
\* PlanValidator.validate, _do_retrieve).
THEOREM PlansRunWhole == PlanningSpec => []AcceptedPlansRunWhole
<1>1. PlanningSpec => []PlanInv
  BY PlanInvInit, PlanInvNext, PTL DEF PlanningSpec
<1>2. QED
  BY <1>1, PlanInvRunsWhole, PTL

-----------------------------------------------------------------------------
(* Reasoning: the parts of a report agree.                                   *)

\* A chunk of a request, an item of a comparison and the state of its loop.
Chunk == [doc : ToSet(Documents), text : Texts]
ItemTypes == {"removed", "unchanged", "contradicts", "changed"}
\* An item names two chunks or one, and 0.
ItemSpace == [type : ItemTypes, a : Nat, b : Nat]
LoopState(b) == [items : SUBSET ItemSpace, taken : SUBSET b]
NothingMatched == [items |-> {}, taken |-> {}]

\* The states of the loop over the chunks of a request.
MatchLoop(list, a, b, threshold, f) ==
  /\ f \in [0..Len(list) -> LoopState(b)] /\ f[0] = NothingMatched
  /\ \A i \in 1..Len(list) :
       f[i] = IF i \in a THEN Match(list, f[i - 1], i, b, threshold) ELSE f[i - 1]

\* The loop f is that of a comparison.
LoopOf(list, a, b, threshold, f) ==
  /\ MatchLoop(list, a, b, threshold, f)
  /\ CompareChunks(list, a, b, threshold) =
       f[Len(list)].items \cup {Item("added", 0, j) : j \in b \ f[Len(list)].taken}

\* What holds after i chunks: each of a so far is in one item, each that is
\* taken of b is in one.
MatchedUpTo(list, a, b, threshold, i, s) ==
  /\ s \in LoopState(b)
  /\ \A d \in s.items : /\ d.a \in a /\ d.a \in 1..i /\ (d.b = 0 \/ d.b \in s.taken)
                        /\ d.type = TypeOf(list, d.a, d.b, threshold)
  /\ \A k \in a : k \in 1..i => \E d \in s.items : d.a = k
  /\ \A j \in s.taken : \E d \in s.items : d.b = j
  /\ \A d, e \in s.items : d.a = e.a \/ (d.b = e.b /\ d.b # 0) => d = e

\* Two loops have paired alike.
SamePairs(s, t) ==
  /\ s.taken = t.taken
  /\ \A d \in s.items : \E e \in t.items : e.a = d.a /\ e.b = d.b

\* What the step that matches chunk i with j turns s into.
MatchGives(list, s, i, b, threshold, j, t) ==
  /\ j \in (b \ s.taken) \cup {0} /\ 0 \notin b /\ t \in LoopState(b)
  /\ t.items = s.items \cup {Item(TypeOf(list, i, j, threshold), i, j)}
  /\ t.taken = IF j = 0 THEN s.taken ELSE s.taken \cup {j}

\* What is in a request.
LEMMA ChunkFacts ==
  ASSUME NEW list \in Seq(Chunk)
  PROVE  /\ Len(list) \in Nat /\ DOMAIN list = 1..Len(list)
         /\ \A i \in DOMAIN list : list[i].text \in Texts /\ list[i].doc \in ToSet(Documents)
<1>1. Len(list) \in Nat /\ DOMAIN list = 1..Len(list)
  BY LenProperties
<1>2. \A i \in DOMAIN list : list[i] \in Chunk
  BY <1>1, ElementOfSeq
<1>3. QED
  BY <1>1, <1>2 DEF Chunk

\* LeastOf is what it says.
LEMMA LeastIs ==
  ASSUME NEW n \in Nat, NEW S \in SUBSET (0..n), S # {}
  PROVE  LeastOf(S) \in S /\ \A l \in S : LeastOf(S) <= l
<1> DEFINE T == {n - k : k \in S}
<1>1. T \in SUBSET (0..n) /\ T # {}
  <2>1. \A k \in S : n - k \in 0..n
    OBVIOUS
  <2>2. QED
    BY <2>1
<1>2. PICK m \in T : \A x \in T : x <= m
  <2> HIDE DEF T
  <2>1. QED
    BY <1>1, GreatestExists
<1>3. PICK k \in S : m = n - k
  OBVIOUS
<1>4. ASSUME NEW l \in S PROVE k <= l
  <2>1. n - l \in T
    OBVIOUS
  <2>2. n - l <= n - k
    BY <1>2, <1>3, <2>1
  <2>3. k \in 0..n /\ l \in 0..n
    OBVIOUS
  <2> HIDE DEF T
  <2>4. QED
    BY <2>2, <2>3
<1>5. \E x \in S : \A l \in S : x <= l
  BY <1>4
<1>6. QED
  BY <1>5 DEF LeastOf

\* Overlaps are hundredths, in either order.
LEMMA OverlapIs ==
  ASSUME NEW t \in Texts, NEW u \in Texts
  PROVE  Overlap[<<t, u>>] \in 0..100 /\ Overlap[<<t, u>>] = Overlap[<<u, t>>]
BY ReasoningAssumption DEF ReasoningAssumption

\* The chunk most alike is one of those left, or none.
LEMMA MostAlikeIs ==
  ASSUME NEW list \in Seq(Chunk), NEW i \in DOMAIN list, NEW left \in SUBSET (DOMAIN list)
  PROVE  MostAlike(list, i, left) \in left \cup {0}
<1> DEFINE like == [j \in DOMAIN list |-> Overlap[<<list[i].text, list[j].text>>]]
           free == {j \in left : like[j] > 0}
           best == {j \in free : \A k \in free : like[k] <= like[j]}
<1>1. \A j \in DOMAIN list : like[j] \in 0..100
  BY ChunkFacts, OverlapIs
<1>2. MostAlike(list, i, left) = IF free = {} THEN 0 ELSE LeastOf(best)
  BY DEF MostAlike
<1> HIDE DEF like
<1>3. ASSUME free # {} PROVE LeastOf(best) \in left
  <2> DEFINE V == {like[j] : j \in free}
  <2>1. V \in SUBSET (0..100) /\ V # {} /\ 100 \in Nat
    BY <1>1, <1>3
  <2>2. PICK v \in V : \A u \in V : u <= v
    <3> HIDE DEF V
    <3>1. QED
      BY <2>1, GreatestExists
  <2>3. PICK j \in free : v = like[j]
    BY <2>2
  <2>4. j \in best
    BY <2>2, <2>3
  <2>5. best \in SUBSET (0..Len(list)) /\ best # {} /\ Len(list) \in Nat
    BY <2>4, ChunkFacts
  <2>6. LeastOf(best) \in best
    <3> HIDE DEF best
    <3>1. QED
      BY <2>5, LeastIs
  <2>7. QED
    BY <2>6
<1>4. QED
  BY <1>2, <1>3

\* One turn of the loop of compare.
LEMMA MatchIs ==
  ASSUME NEW list \in Seq(Chunk), NEW i \in DOMAIN list, NEW b \in SUBSET (DOMAIN list),
         NEW s \in LoopState(b), NEW threshold \in Nat
  PROVE  MatchGives(list, s, i, b, threshold, MostAlike(list, i, b \ s.taken), Match(list, s, i, b, threshold))
<1> DEFINE j == MostAlike(list, i, b \ s.taken)
           type == TypeOf(list, i, j, threshold)
           taken == IF j = 0 THEN s.taken ELSE s.taken \cup {j}
           items == s.items \cup {Item(type, i, j)}
<1>1. j \in (b \ s.taken) \cup {0}
  <2>1. (b \ s.taken) \in SUBSET (DOMAIN list)
    OBVIOUS
  <2> DEFINE left == b \ s.taken
  <2> HIDE DEF left
  <2>2. MostAlike(list, i, left) \in left \cup {0}
    BY <2>1, MostAlikeIs DEF left
  <2>3. QED
    BY <2>2 DEF left
<1>2. DOMAIN list \subseteq Nat /\ 0 \notin b /\ i \in Nat /\ j \in Nat
  BY <1>1, ChunkFacts
<1>3. type \in ItemTypes
  BY DEF TypeOf, DiffType, ItemTypes
<1>4. Match(list, s, i, b, threshold) = [items |-> items, taken |-> taken]
  BY DEF Match
<1>5. s.items \in SUBSET ItemSpace /\ s.taken \in SUBSET b
  BY DEF LoopState
<1>6. items \in SUBSET ItemSpace
  <2> HIDE DEF type
  <2>1. Item(type, i, j) \in ItemSpace
    BY <1>2, <1>3 DEF Item, ItemSpace
  <2>2. QED
    BY <1>5, <2>1
<1>7. taken \in SUBSET b
  BY <1>1, <1>5
<1> HIDE DEF items, taken
<1>8. [items |-> items, taken |-> taken] \in LoopState(b)
  BY <1>6, <1>7 DEF LoopState
<1>9. QED
  BY <1>1, <1>2, <1>4, <1>8 DEF MatchGives, items, taken

\* The loop of compare has a last state.
LEMMA MatchLoopExists ==
  ASSUME NEW list \in Seq(Chunk), NEW a \in SUBSET (DOMAIN list), NEW b \in SUBSET (DOMAIN list),
         NEW threshold \in Nat
  PROVE  \E f : LoopOf(list, a, b, threshold, f)
<1> DEFINE n == Len(list)
           S == LoopState(b)
           after[i \in 0..n] == IF i = 0 THEN [items |-> {}, taken |-> {}]
                                ELSE IF i \in a THEN Match(list, after[i - 1], i, b, threshold) ELSE after[i - 1]
           G == [p \in S \X (1..n) |-> IF p[2] \in a THEN Match(list, p[1], p[2], b, threshold) ELSE p[1]]
<1>0. CompareChunks(list, a, b, threshold) =
        after[n].items \cup {Item("added", 0, j) : j \in b \ after[n].taken}
  BY DEF CompareChunks
<1>1. n \in Nat /\ DOMAIN list = 1..n
  BY ChunkFacts
<1>2. ASSUME NEW s \in S, NEW i \in 1..n, i \in a
      PROVE  Match(list, s, i, b, threshold) \in S
  <2>1. MatchGives(list, s, i, b, threshold, MostAlike(list, i, b \ s.taken), Match(list, s, i, b, threshold))
    BY <1>1, <1>2, MatchIs
  <2>2. QED
    BY <2>1 DEF MatchGives
<1> HIDE DEF n
<1>3. G \in [S \X (1..n) -> S]
  <2> HIDE DEF S
  <2> SUFFICES ASSUME NEW s \in S, NEW i \in 1..n
               PROVE  (IF i \in a THEN Match(list, s, i, b, threshold) ELSE s) \in S
    OBVIOUS
  <2>1. QED
    BY <1>2
<1>4. NothingMatched \in S
  BY DEF NothingMatched, LoopState
<1> HIDE DEF S
<1>5. PICK f : Recursion(S, NothingMatched, n, G, f)
  <2>1. RecursionData(S, NothingMatched, n, G)
    BY <1>1, <1>3, <1>4 DEF RecursionData
  <2> HIDE DEF G, after
  <2>2. QED
    BY <2>1, RecursionExists
<1>6. \A i \in 1..n : i - 1 \in 0..n /\ i \in 0..n /\ f[i - 1] \in S
  BY <1>1, <1>5 DEF Recursion
<1>7. \A i \in 1..n : f[i] = IF i \in a THEN Match(list, f[i - 1], i, b, threshold) ELSE f[i - 1]
  BY <1>5, <1>6 DEF Recursion
<1> HIDE DEF G
<1>8. f = [i \in 0..n |-> IF i = 0 THEN [items |-> {}, taken |-> {}]
                          ELSE IF i \in a THEN Match(list, f[i - 1], i, b, threshold) ELSE f[i - 1]]
  <2>1. ASSUME NEW i \in 0..n
        PROVE  f[i] = IF i = 0 THEN [items |-> {}, taken |-> {}]
                      ELSE IF i \in a THEN Match(list, f[i - 1], i, b, threshold) ELSE f[i - 1]
    <3>1. i = 0 \/ i \in 1..n
      BY <1>1
    <3>2. f[0] = [items |-> {}, taken |-> {}]
      BY <1>5 DEF Recursion, NothingMatched
    <3>3. QED
      BY <1>7, <3>1, <3>2
  <2>2. f \in [0..n -> S]
    BY <1>5 DEF Recursion
  <2>3. QED
    BY <2>1, <2>2
<1>9. after = [i \in 0..n |-> IF i = 0 THEN [items |-> {}, taken |-> {}]
                            ELSE IF i \in a THEN Match(list, after[i - 1], i, b, threshold) ELSE after[i - 1]]
  BY <1>8
<1> HIDE DEF after
<1>10. /\ after[0] = NothingMatched
       /\ \A i \in 1..n : after[i] = IF i \in a THEN Match(list, after[i - 1], i, b, threshold) ELSE after[i - 1]
  <2>1. 0 \in 0..n /\ \A i \in 1..n : i \in 0..n /\ i # 0
    BY <1>1
  <2>2. QED
    BY <1>9, <2>1 DEF NothingMatched
<1> DEFINE P == {i \in 0..n : after[i] \in S}
<1>11. 0 \in P
  BY <1>1, <1>4, <1>10
<1>12. ASSUME NEW i \in 1..n, i - 1 \in P PROVE i \in P
  <2>1. after[i - 1] \in S /\ i \in 0..n
    BY <1>1, <1>12
  <2>2. after[i] \in S
    BY <1>2, <1>10, <2>1
  <2>3. QED
    BY <2>1, <2>2
<1> HIDE DEF P
<1>13. \A i \in 0..n : after[i] \in S
  <2>1. 0..n \subseteq P
    BY <1>1, <1>11, <1>12, UpToInduction
  <2>2. QED
    BY <2>1 DEF P
<1>14. after \in [0..n -> S]
  BY <1>9, <1>13
<1>15. MatchLoop(list, a, b, threshold, after)
  BY <1>10, <1>14 DEF MatchLoop, n, S
<1>16. QED
  BY <1>0, <1>15 DEF LoopOf, n

\* After the loop each chunk of the first document is in one item, and each
\* that was taken of the second.
LEMMA LoopMatches ==
  ASSUME NEW list \in Seq(Chunk), NEW a \in SUBSET (DOMAIN list), NEW b \in SUBSET (DOMAIN list),
         NEW threshold \in Nat, NEW f, MatchLoop(list, a, b, threshold, f)
  PROVE  MatchedUpTo(list, a, b, threshold, Len(list), f[Len(list)])
<1> DEFINE n == Len(list)
           P == {i \in 0..n : MatchedUpTo(list, a, b, threshold, i, f[i])}
<1>1. n \in Nat /\ DOMAIN list = 1..n
  BY ChunkFacts
<1>2. 0 \in P
  <2>1. f[0] = NothingMatched /\ f[0] \in LoopState(b)
    BY <1>1 DEF MatchLoop
  <2>2. MatchedUpTo(list, a, b, threshold, 0, f[0])
    BY <2>1 DEF MatchedUpTo, NothingMatched
  <2>3. QED
    BY <1>1, <2>2
<1>3. ASSUME NEW i \in 1..n, i - 1 \in P PROVE i \in P
  <2> DEFINE s == f[i - 1]
             t == f[i]
             j == MostAlike(list, i, b \ s.taken)
             new == Item(TypeOf(list, i, j, threshold), i, j)
  <2>0. i \in 0..n /\ i - 1 \in 0..n /\ i \in Nat /\ 1..i = (1..i - 1) \cup {i} /\ i \notin 1..i - 1
    BY <1>1
  <2>1. MatchedUpTo(list, a, b, threshold, i - 1, s) /\ s \in LoopState(b)
    BY <1>3 DEF MatchedUpTo
  <2>2. t = IF i \in a THEN Match(list, s, i, b, threshold) ELSE s
    BY DEF MatchLoop
  <2> HIDE DEF s, t
  <2>3. CASE i \notin a
    BY <2>0, <2>1, <2>2, <2>3 DEF MatchedUpTo, t
  <2>4. CASE i \in a
    <3>0. i \in DOMAIN list /\ t = Match(list, s, i, b, threshold)
      BY <1>1, <2>2, <2>4
    <3>a. MatchGives(list, s, i, b, threshold, j, Match(list, s, i, b, threshold))
      BY <2>1, <3>0, MatchIs
    <3> HIDE DEF j
    <3>1. /\ j \in (b \ s.taken) \cup {0} /\ 0 \notin b
          /\ t \in LoopState(b) /\ t.items = s.items \cup {new}
          /\ t.taken = IF j = 0 THEN s.taken ELSE s.taken \cup {j}
      BY <3>0, <3>a DEF MatchGives
    <3>2. new.a = i /\ new.b = j /\ new.type = TypeOf(list, i, j, threshold)
      BY DEF Item
    <3> HIDE DEF new
    <3>3. s.taken \subseteq b /\ s.taken \subseteq t.taken
      BY <2>1, <3>1 DEF LoopState
    <3>4. ASSUME NEW d \in t.items
          PROVE  /\ d.a \in a /\ d.a \in 1..i /\ (d.b = 0 \/ d.b \in t.taken)
                 /\ d.type = TypeOf(list, d.a, d.b, threshold)
      <4>1. CASE d \in s.items
        BY <2>0, <2>1, <3>3, <4>1 DEF MatchedUpTo
      <4>2. CASE d = new
        BY <2>0, <2>4, <3>1, <3>2, <4>2
      <4>3. QED
        BY <3>1, <4>1, <4>2
    <3>5. ASSUME NEW k \in a, k \in 1..i PROVE \E d \in t.items : d.a = k
      BY <2>0, <2>1, <3>1, <3>2, <3>5 DEF MatchedUpTo
    <3>6. ASSUME NEW k \in t.taken PROVE \E d \in t.items : d.b = k
      BY <2>1, <3>1, <3>2 DEF MatchedUpTo
    <3>7. ASSUME NEW d \in s.items PROVE d.a # i /\ (j # 0 => d.b # j)
      BY <2>0, <2>1, <3>1 DEF MatchedUpTo
    <3>8. ASSUME NEW d \in t.items, NEW e \in t.items, d.a = e.a \/ (d.b = e.b /\ d.b # 0) PROVE d = e
      <4>1. CASE d \in s.items /\ e \in s.items
        BY <2>1, <3>8, <4>1 DEF MatchedUpTo
      <4>2. CASE d = new /\ e = new
        BY <4>2
      <4>3. CASE d = new /\ e \in s.items
        BY <3>2, <3>7, <3>8, <4>3
      <4>4. CASE d \in s.items /\ e = new
        BY <3>2, <3>7, <3>8, <4>4
      <4>5. QED
        BY <3>1, <4>1, <4>2, <4>3, <4>4
    <3>9. MatchedUpTo(list, a, b, threshold, i, t)
      BY <3>1, <3>4, <3>5, <3>6, <3>8 DEF MatchedUpTo
    <3>10. QED
      BY <2>0, <3>9 DEF t
  <2>5. QED
    BY <2>3, <2>4
<1> HIDE DEF P
<1>4. n \in P
  <2>1. 0..n \subseteq P
    BY <1>1, <1>2, <1>3, UpToInduction
  <2>2. QED
    BY <1>1, <2>1
<1>5. QED
  BY <1>4 DEF P

\* What misses a threshold misses a higher one.
LEMMA BelowBoth ==
  ASSUME NEW v \in Int, NEW t1 \in Nat, NEW t2 \in Nat, t1 <= t2, ~ (v >= t1)
  PROVE  ~ (v >= t2)
OBVIOUS

\* How much alike two chunks must be makes no difference to who is matched.
LEMMA LoopsPairAlike ==
  ASSUME NEW list \in Seq(Chunk), NEW a \in SUBSET (DOMAIN list), NEW b \in SUBSET (DOMAIN list),
         NEW t1 \in Nat, NEW t2 \in Nat, NEW f, NEW g,
         MatchLoop(list, a, b, t1, f), MatchLoop(list, a, b, t2, g)
  PROVE  SamePairs(f[Len(list)], g[Len(list)])
<1> DEFINE n == Len(list)
           P == {i \in 0..n : SamePairs(f[i], g[i])}
<1>1. n \in Nat /\ DOMAIN list = 1..n
  BY ChunkFacts
<1>2. 0 \in P
  <2>1. f[0] = NothingMatched /\ g[0] = NothingMatched
    BY DEF MatchLoop
  <2>2. SamePairs(f[0], g[0])
    BY <2>1 DEF SamePairs, NothingMatched
  <2>3. QED
    BY <1>1, <2>2
<1>3. ASSUME NEW i \in 1..n, i - 1 \in P PROVE i \in P
  <2> DEFINE s == f[i - 1]
             u == g[i - 1]
             j == MostAlike(list, i, b \ s.taken)
             x == Item(TypeOf(list, i, j, t1), i, j)
             y == Item(TypeOf(list, i, j, t2), i, j)
  <2>0. i \in 0..n /\ i - 1 \in 0..n
    BY <1>1
  <2>1. SamePairs(s, u) /\ s \in LoopState(b) /\ u \in LoopState(b)
    BY <1>3, <2>0 DEF MatchLoop
  <2>2. /\ f[i] = IF i \in a THEN Match(list, s, i, b, t1) ELSE s
        /\ g[i] = IF i \in a THEN Match(list, u, i, b, t2) ELSE u
    BY DEF MatchLoop
  <2> HIDE DEF s, u
  <2>3. SamePairs(f[i], g[i])
    <3>1. CASE i \notin a
      BY <2>1, <2>2, <3>1
    <3>2. CASE i \in a
      <4>1. j = MostAlike(list, i, b \ u.taken) /\ j = MostAlike(list, i, b \ s.taken)
        BY <2>1 DEF SamePairs
      <4>3. i \in DOMAIN list /\ f[i] = Match(list, s, i, b, t1) /\ g[i] = Match(list, u, i, b, t2)
        BY <1>1, <2>2, <3>2
      <4>a. MatchGives(list, s, i, b, t1, MostAlike(list, i, b \ s.taken), Match(list, s, i, b, t1))
        BY <2>1, <4>3, MatchIs
      <4>b. MatchGives(list, u, i, b, t2, MostAlike(list, i, b \ u.taken), Match(list, u, i, b, t2))
        BY <2>1, <4>3, MatchIs
      <4> HIDE DEF j
      <4>2. f[i].items = s.items \cup {x} /\ f[i].taken = IF j = 0 THEN s.taken ELSE s.taken \cup {j}
        BY <4>1, <4>3, <4>a DEF MatchGives
      <4>4. g[i].items = u.items \cup {y} /\ g[i].taken = IF j = 0 THEN u.taken ELSE u.taken \cup {j}
        BY <4>1, <4>3, <4>b DEF MatchGives
      <4>5. x.a = y.a /\ x.b = y.b
        BY DEF Item
      <4> HIDE DEF x, y
      <4>6. QED
        BY <2>1, <4>2, <4>4, <4>5 DEF SamePairs
    <3>3. QED
      BY <3>1, <3>2
  <2>4. QED
    BY <2>0, <2>3
<1> HIDE DEF P
<1>4. n \in P
  <2>1. 0..n \subseteq P
    BY <1>1, <1>2, <1>3, UpToInduction
  <2>2. QED
    BY <1>1, <2>1
<1>5. QED
  BY <1>4 DEF P


\* The items a comparison ends with.
OneItemFor(D, i) == \E d \in D : \A e \in D : i \in {e.a, e.b} <=> e = d
ItemsFit(list, a, b, threshold, D) ==
  /\ \A i \in a \cup b : OneItemFor(D, i)
  /\ \A d \in D : /\ d.a \in a \cup {0} /\ d.b \in b \cup {0}
                  /\ d.type \in {"contradicts", "unchanged"} =>
                       d.a \in a /\ d.b \in b /\ d.type = TypeOf(list, d.a, d.b, threshold)

\* A comparison accounts for each chunk of the two documents once.
LEMMA ComparisonFits ==
  ASSUME NEW list \in Seq(Chunk), NEW a \in SUBSET (DOMAIN list), NEW b \in SUBSET (DOMAIN list),
         NEW threshold \in Nat, a \cap b = {}
  PROVE  ItemsFit(list, a, b, threshold, CompareChunks(list, a, b, threshold))
<1> DEFINE D == CompareChunks(list, a, b, threshold)
<1>0. PICK f : LoopOf(list, a, b, threshold, f)
  BY MatchLoopExists
<1>1. /\ MatchLoop(list, a, b, threshold, f)
      /\ D = f[Len(list)].items \cup {Item("added", 0, j) : j \in b \ f[Len(list)].taken}
  BY <1>0 DEF LoopOf
<1> DEFINE s == f[Len(list)]
           added == {Item("added", 0, j) : j \in b \ s.taken}
<1>2. MatchedUpTo(list, a, b, threshold, Len(list), s)
  BY <1>1, LoopMatches
<1>3. Len(list) \in Nat /\ DOMAIN list = 1..Len(list) /\ 0 \notin a /\ 0 \notin b
  BY ChunkFacts
<1>4. \A e \in added : e.type = "added" /\ e.a = 0 /\ e.b \in b /\ e.b \notin s.taken
  BY DEF Item
<1>5. \A j \in b : j \notin s.taken => Item("added", 0, j) \in added
  OBVIOUS
<1> DEFINE items == s.items
           taken == s.taken
<1>6. D = items \cup added
  BY <1>1
<1> HIDE DEF D
<1>7. /\ taken \subseteq b
      /\ \A d \in items : /\ d.a \in a /\ (d.b = 0 \/ d.b \in taken)
                         /\ d.type = TypeOf(list, d.a, d.b, threshold)
      /\ \A k \in a : \E d \in items : d.a = k
      /\ \A j \in taken : \E d \in items : d.b = j
      /\ \A d, e \in items : d.a = e.a \/ (d.b = e.b /\ d.b # 0) => d = e
  BY <1>2, <1>3 DEF MatchedUpTo, LoopState
<1>8. \A e \in added : e.a = 0 /\ e.type = "added" /\ e.b \in b /\ e.b \notin taken
  BY <1>4
<1>9. \A j \in b : j \notin taken => \E e \in added : e.b = j /\ \A d \in added : d.b = j => d = e
  <2>1. \A j : Item("added", 0, j).b = j
    BY DEF Item
  <2>2. \A d \in added : d = Item("added", 0, d.b)
    BY <2>1
  <2> HIDE DEF added
  <2>3. QED
    BY <1>5, <2>1, <2>2
<1> HIDE DEF added, taken, items, s
<1>10. ASSUME NEW i \in a PROVE OneItemFor(D, i)
  <2>1. PICK d \in items : d.a = i
    BY <1>7
  <2>2. \A e \in items : i \in {e.a, e.b} <=> e = d
    BY <1>3, <1>7, <2>1
  <2>3. \A e \in added : i \notin {e.a, e.b}
    BY <1>3, <1>8
  <2>4. QED
    BY <1>6, <2>1, <2>2, <2>3 DEF OneItemFor
<1>11. ASSUME NEW i \in b PROVE OneItemFor(D, i)
  <2>1. CASE i \in taken
    <3>1. PICK d \in items : d.b = i
      BY <1>7, <2>1
    <3>2. \A e \in items : i \in {e.a, e.b} <=> e = d
      BY <1>3, <1>7, <3>1
    <3>3. \A e \in added : i \notin {e.a, e.b}
      BY <1>3, <1>8, <2>1
    <3>4. QED
      BY <1>6, <3>1, <3>2, <3>3 DEF OneItemFor
  <2>2. CASE i \notin taken
    <3>1. PICK d \in added : d.b = i /\ \A e \in added : e.b = i => e = d
      BY <1>9, <2>2
    <3>2. \A e \in items : i \notin {e.a, e.b}
      BY <1>3, <1>7, <2>2
    <3>3. \A e \in added : i \in {e.a, e.b} <=> e = d
      BY <1>3, <1>8, <3>1
    <3>4. QED
      BY <1>6, <3>1, <3>2, <3>3 DEF OneItemFor
  <2>3. QED
    BY <2>1, <2>2
<1>12. ASSUME NEW d \in D
       PROVE  /\ d.a \in a \cup {0} /\ d.b \in b \cup {0}
              /\ d.type \in {"contradicts", "unchanged"} =>
                   d.a \in a /\ d.b \in b /\ d.type = TypeOf(list, d.a, d.b, threshold)
  <2>1. CASE d \in added
    BY <1>8, <2>1
  <2>2. CASE d \in items
    <3>1. d.b = 0 => d.type = "removed"
      BY <1>7, <2>2 DEF TypeOf
    <3>2. QED
      BY <1>7, <2>2, <3>1
  <2>3. QED
    BY <1>6, <2>1, <2>2
<1>13. QED
  BY <1>10, <1>11, <1>12 DEF ItemsFit, D

\* What a comparison with a lower threshold does not call unchanged, one with
\* a higher does not either.
KeptApart(D, E) ==
  \A d \in D : d.type # "unchanged" => \E e \in E : e.a = d.a /\ e.b = d.b /\ e.type # "unchanged"

\* Which chunks are matched does not depend on the threshold, only what the
\* items are called.
LEMMA HigherKeepsApart ==
  ASSUME NEW list \in Seq(Chunk), NEW a \in SUBSET (DOMAIN list), NEW b \in SUBSET (DOMAIN list),
         NEW t1 \in Nat, NEW t2 \in Nat, t1 <= t2
  PROVE  KeptApart(CompareChunks(list, a, b, t1), CompareChunks(list, a, b, t2))
<1>a. PICK f : LoopOf(list, a, b, t1, f)
  BY MatchLoopExists
<1>1. /\ MatchLoop(list, a, b, t1, f)
      /\ CompareChunks(list, a, b, t1) =
           f[Len(list)].items \cup {Item("added", 0, j) : j \in b \ f[Len(list)].taken}
  BY <1>a DEF LoopOf
<1>b. PICK g : LoopOf(list, a, b, t2, g)
  BY MatchLoopExists
<1>2. /\ MatchLoop(list, a, b, t2, g)
      /\ CompareChunks(list, a, b, t2) =
           g[Len(list)].items \cup {Item("added", 0, j) : j \in b \ g[Len(list)].taken}
  BY <1>b DEF LoopOf
<1> DEFINE s == f[Len(list)]
           u == g[Len(list)]
<1>3. SamePairs(s, u)
  BY <1>1, <1>2, LoopsPairAlike
<1>4. MatchedUpTo(list, a, b, t1, Len(list), s) /\ MatchedUpTo(list, a, b, t2, Len(list), u)
  BY <1>1, <1>2, LoopMatches
<1> HIDE DEF s, u
<1>5. ASSUME NEW d \in s.items, d.type # "unchanged"
      PROVE  \E e \in u.items : e.a = d.a /\ e.b = d.b /\ e.type # "unchanged"
  <2>1. PICK e \in u.items : e.a = d.a /\ e.b = d.b
    BY <1>3 DEF SamePairs
  <2> DEFINE i == d.a
             j == d.b
  <2>2. d.type = TypeOf(list, i, j, t1) /\ e.type = TypeOf(list, i, j, t2)
    BY <1>4, <2>1 DEF MatchedUpTo
  <2>3. i \in DOMAIN list /\ (j = 0 \/ j \in DOMAIN list)
    BY <1>4 DEF MatchedUpTo, LoopState
  <2> HIDE DEF i, j
  <2>4. e.type # "unchanged"
    <3>1. CASE j = 0
      BY <2>2, <3>1 DEF TypeOf
    <3>2. CASE j # 0
      <4> DEFINE v == Overlap[<<list[i].text, list[j].text>>]
      <4>1. v \in 0..100
        BY <2>3, <3>2, ChunkFacts, OverlapIs
      <4>2. (d.type = "unchanged" <=> v >= t1) /\ (e.type = "unchanged" <=> v >= t2)
        BY <2>2, <3>2 DEF TypeOf, DiffType
      <4> HIDE DEF v
      <4>3. ~ (v >= t1)
        BY <1>5, <4>2
      <4>4. v \in Int
        BY <4>1
      <4>5. ~ (v >= t2)
        BY <4>3, <4>4, BelowBoth
      <4>6. QED
        BY <4>2, <4>5
    <3>3. QED
      BY <3>1, <3>2
  <2>5. QED
    BY <2>1, <2>4
<1>6. \A j \in b \ s.taken : /\ Item("added", 0, j) \in CompareChunks(list, a, b, t2)
                          /\ Item("added", 0, j).type # "unchanged"
  BY <1>2, <1>3 DEF SamePairs, Item, u
<1>7. QED
  <2> SUFFICES ASSUME NEW d \in CompareChunks(list, a, b, t1), d.type # "unchanged"
               PROVE  \E e \in CompareChunks(list, a, b, t2) : e.a = d.a /\ e.b = d.b /\ e.type # "unchanged"
    BY DEF KeptApart
  <2>1. CASE d \in s.items
    BY <1>2, <1>5, <2>1 DEF u
  <2>2. CASE d \in {Item("added", 0, j) : j \in b \ s.taken}
    BY <1>6, <2>2
  <2>3. QED
    BY <1>1, <2>1, <2>2 DEF s

\* What ReportsAgree says of a report r on the given chunks.
ReportFits(list, r) ==
  /\ \A i \in DOMAIN list : list[i].doc \in ToSet(r.compared) =>
       Cardinality({d \in r.diff : i \in {d.a, d.b}}) = 1
  /\ \A c \in r.changes : \E d \in r.diff :
       d.a = c.a /\ d.b = c.b /\ d.type # "unchanged"
  /\ \A d \in r.diff : d.type = "contradicts" =>
       \E c \in r.clashes : {c.a, c.b} = {d.a, d.b}

\* The invariant.
ReasonedFits ==
  /\ given = <<>> \/ given \in Seq(Chunk)
  /\ given = <<>> => reasoned = NotReasoned
  /\ mode = "full" /\ reasoned.status = "ok" /\ reasoned.compared # <<>> => ReportFits(given, reasoned)

\* The documents compared are two.
LEMMA ComparedAreTwo ==
  ASSUME given \in Seq(Chunk), Compared # <<>>
  PROVE  \E x, y \in ToSet(Documents) : x # y /\ Compared = <<x, y>>
<1>1. \E x, y \in Named : x # y
  <2>1. ASSUME \A x, y \in Named : x = y PROVE Cardinality(Named) < 2
    <3> DEFINE S == Named
    <3>1. S = {} \/ \E x : S = {x}
      BY <2>1
    <3> HIDE DEF S
    <3>2. Cardinality(S) = 0 \/ Cardinality(S) = 1
      BY <3>1, FS_EmptySet, FS_Singleton
    <3>3. QED
      BY <3>2 DEF S
  <2>2. QED
    BY <2>1 DEF Compared
<1>2. PICK x \in Named, y \in Named : x # y
  BY <1>1
<1>3. \A i \in DOMAIN given : given[i].doc \in ToSet(Documents)
  BY ChunkFacts
<1>4. Documents \in Seq(STRING) /\ IsInjective(Documents)
  BY ReasoningAssumption DEF ReasoningAssumption
<1>5. Len(Documents) \in Nat /\ DOMAIN Documents = 1..Len(Documents)
  BY <1>4, LenProperties
<1>6. \E k, l \in Present : Documents[k] = x /\ Documents[l] = y
  <2>1. ASSUME NEW z \in Named PROVE \E k \in Present : Documents[k] = z
    <3>1. PICK i \in DOMAIN given : z = given[i].doc
      BY DEF Named
    <3>2. PICK k \in DOMAIN Documents : given[i].doc = Documents[k]
      BY <1>3 DEF ToSet
    <3>3. QED
      BY <3>1, <3>2 DEF Present
  <2>2. QED
    BY <2>1
<1>7. PICK k \in Present, l \in Present : Documents[k] = x /\ Documents[l] = y
  BY <1>6
<1> DEFINE S == Present
           first == LeastOf(S)
           T == S \ {first}
           second == LeastOf(T)
<1>8. S \in SUBSET (0..Len(Documents)) /\ S # {}
  BY <1>5, <1>7 DEF Present
<1>9. k # l /\ k \in S /\ l \in S
  BY <1>2, <1>7
<1>10. S \subseteq DOMAIN Documents
  BY DEF Present
<1>11. Compared = <<Documents[first], Documents[second]>>
  BY DEF Compared
<1> HIDE DEF S
<1>12. first \in S
  BY <1>5, <1>8, LeastIs
<1> HIDE DEF first
<1>13. T \in SUBSET (0..Len(Documents)) /\ T # {}
  <2>1. k # first \/ l # first
    BY <1>9
  <2>2. T # {}
    BY <1>9, <2>1
  <2>3. QED
    BY <1>8, <2>2
<1>14. second \in T
  <2> HIDE DEF T
  <2>1. QED
    BY <1>5, <1>13, LeastIs
<1> HIDE DEF second
<1>15. Documents[first] # Documents[second]
  BY <1>4, <1>10, <1>12, <1>14 DEF IsInjective
<1>16. QED
  BY <1>10, <1>11, <1>12, <1>14, <1>15 DEF ToSet

\* A report with all of its parts is fit.
LEMMA ReportIsFit ==
  ASSUME given \in Seq(Chunk), Compared # <<>>, NEW r,
         r.compared = Compared, r.diff = Diff(70), r.changes = ChangesSeen, r.clashes = Clashes
  PROVE  ReportFits(given, r)
<1>1. PICK x \in ToSet(Documents), y \in ToSet(Documents) : x # y /\ Compared = <<x, y>>
  BY ComparedAreTwo
<1> DEFINE a == {i \in DOMAIN given : given[i].doc = x}
           b == {i \in DOMAIN given : given[i].doc = y}
           D == CompareChunks(given, a, b, 70)
           E == CompareChunks(given, a, b, 60)
<1>2. a \in SUBSET (DOMAIN given) /\ b \in SUBSET (DOMAIN given) /\ a \cap b = {}
  BY <1>1
<1>3. Compared[1] = x /\ Compared[2] = y
  BY <1>1
<1>4. Diff(70) = D /\ Diff(60) = E
  BY <1>3 DEF Diff, PositionsOf
<1>5. \A i \in DOMAIN given : given[i].doc \in ToSet(Compared) => i \in a \cup b
  <2>1. ToSet(<<x, y>>) = {x, y}
    <3>1. ToSet(<<x, y>>) = {<<x, y>>[i] : i \in 1..2}
      BY DEF ToSet
    <3>2. <<x, y>>[1] = x /\ <<x, y>>[2] = y /\ \A i \in 1..2 : i = 1 \/ i = 2
      OBVIOUS
    <3>3. QED
      BY <3>1, <3>2
  <2>2. QED
    BY <1>1, <2>1
<1> HIDE DEF a, b
<1>6. ItemsFit(given, a, b, 70, D) /\ ItemsFit(given, a, b, 60, E)
  BY <1>2, ComparisonFits
<1>7. KeptApart(E, D)
  BY <1>2, HigherKeepsApart
<1> HIDE DEF D, E
<1>8. ASSUME NEW i \in DOMAIN given, given[i].doc \in ToSet(Compared)
      PROVE  Cardinality({d \in D : i \in {d.a, d.b}}) = 1
  <2>1. OneItemFor(D, i)
    BY <1>5, <1>6, <1>8 DEF ItemsFit
  <2>2. PICK d \in D : \A e \in D : i \in {e.a, e.b} <=> e = d
    BY <2>1 DEF OneItemFor
  <2>3. {e \in D : i \in {e.a, e.b}} = {d}
    BY <2>2
  <2>4. QED
    BY <2>3, FS_Singleton
<1>9. ASSUME NEW c \in ChangesSeen
      PROVE  \E d \in D : d.a = c.a /\ d.b = c.b /\ d.type # "unchanged"
  <2>1. PICK d \in E : /\ d.type # "unchanged"
                      /\ c = [type |-> ChangeTypes[d.type], a |-> d.a, b |-> d.b]
    BY <1>4, <1>9 DEF ChangesSeen
  <2>2. c.a = d.a /\ c.b = d.b
    BY <2>1
  <2>3. QED
    BY <1>7, <2>1, <2>2 DEF KeptApart
<1>10. ASSUME NEW d \in D, d.type = "contradicts"
       PROVE  \E c \in Clashes : {c.a, c.b} = {d.a, d.b}
  <2> DEFINE i == d.a
             j == d.b
             t == given[i].text
             u == given[j].text
  <2>1. i \in a /\ j \in b /\ TypeOf(given, i, j, 70) = "contradicts"
    BY <1>6, <1>10 DEF ItemsFit
  <2>2. i \in DOMAIN given /\ j \in DOMAIN given /\ given[i].doc # given[j].doc
    BY <1>1, <2>1 DEF a, b
  <2>3. i \in Nat /\ j \in Nat /\ t \in Texts /\ u \in Texts
    BY <2>2, ChunkFacts
  <2>4. LooksContradictory(t, u)
    <3> HIDE DEF i, j, t, u
    <3>1. j # 0 => DiffType(t, u, 70) = "contradicts"
      BY <2>1 DEF TypeOf, t, u
    <3>2. j # 0
      BY <2>1 DEF TypeOf
    <3>3. QED
      BY <3>1, <3>2 DEF DiffType
  <2>5. LooksContradictory(u, t) /\ Overlap[<<t, u>>] > 30 /\ Overlap[<<u, t>>] > 30
    <3> HIDE DEF t, u
    <3>1. Overlap[<<t, u>>] = Overlap[<<u, t>>]
      BY <2>3, OverlapIs
    <3>2. {<<u, t>>, <<t, u>>} = {<<t, u>>, <<u, t>>}
      OBVIOUS
    <3>3. QED
      BY <2>4, <3>1, <3>2 DEF LooksContradictory
  <2>6. Overlap[<<t, u>>] \in Int /\ Overlap[<<u, t>>] \in Int
    <3> HIDE DEF t, u
    <3>1. Overlap[<<t, u>>] \in 0..100 /\ Overlap[<<u, t>>] \in 0..100
      BY <2>3, OverlapIs
    <3>2. \A k \in 0..100 : k \in Int
      OBVIOUS
    <3>3. QED
      BY <3>1, <3>2
  <2>7. i < j \/ j < i
    BY <2>2, <2>3
  <2>8. ASSUME i < j PROVE \E c \in Clashes : {c.a, c.b} = {i, j}
    <3>1. Clashing(i, j)
      BY <2>2, <2>4, <2>5, <2>6, <2>8 DEF Clashing
    <3>2. Clash(<<i, j>>[1], <<i, j>>[2]) \in Clashes
      BY <2>2, <3>1 DEF Clashes
    <3>3. Clash(i, j) \in Clashes
      BY <3>2
    <3>4. Clash(i, j).a = i /\ Clash(i, j).b = j
      BY DEF Clash
    <3>5. QED
      BY <3>3, <3>4
  <2>9. ASSUME j < i PROVE \E c \in Clashes : {c.a, c.b} = {i, j}
    <3>1. Clashing(j, i)
      BY <2>2, <2>5, <2>6, <2>9 DEF Clashing
    <3>2. Clash(<<j, i>>[1], <<j, i>>[2]) \in Clashes
      BY <2>2, <3>1 DEF Clashes
    <3>3. Clash(j, i) \in Clashes
      BY <3>2
    <3>4. Clash(j, i).a = j /\ Clash(j, i).b = i
      BY DEF Clash
    <3>5. QED
      BY <3>3, <3>4
  <2>10. QED
    BY <2>7, <2>8, <2>9
<1>11. QED
  BY <1>4, <1>8, <1>9, <1>10 DEF ReportFits

\* The parts of a full report agree (ReasoningCoordinator.run, compare,
\* detect and the contradiction detector): for any documents, chunks,
\* overlaps and opposed texts the comparison accounts for each chunk once,
\* each change is one of its differences, and what it calls contradicting is
\* among the contradictions.
THEOREM ReportsAlwaysAgree == ReasoningSpec => []ReportsAgree
<1>1. ReasoningInit => ReasonedFits
  <2> SUFFICES ASSUME ReasoningInit PROVE ReasonedFits
    OBVIOUS
  <2>1. reasoned.status = "none"
    BY DEF ReasoningInit, NotReasoned
  <2>2. QED
    BY <2>1 DEF ReasoningInit, ReasonedFits
<1>2. ReasonedFits /\ [ReasoningNext]_reasoningVars => ReasonedFits'
  <2> SUFFICES ASSUME ReasonedFits, [ReasoningNext]_reasoningVars PROVE ReasonedFits'
    OBVIOUS
  <2>0. NotReasoned.status = "none"
    BY DEF NotReasoned
  <2>1. ASSUME NEW n \in 2..MaxReasonedChunks, NEW m \in ReasoningModes,
               NEW list \in [1..n -> [doc : ToSet(Documents), text : Texts]], Submitted(list, m)
        PROVE  ReasonedFits'
    <3>1. n \in Nat /\ list \in Seq(Chunk)
      <4>1. n \in Nat
        BY ReasoningAssumption DEF ReasoningAssumption
      <4>2. list \in [1..n -> Chunk]
        BY DEF Chunk
      <4>3. QED
        BY <4>1, <4>2, SeqDef
    <3>2. given' = list /\ reasoned' = NotReasoned
      BY <2>1 DEF Submitted, ReasonedFits
    <3>3. QED
      BY <2>0, <3>1, <3>2 DEF ReasonedFits
  <2>2. ASSUME Reason PROVE ReasonedFits'
    <3>1. given \in Seq(Chunk) /\ given # <<>> /\ given' = given /\ mode' = mode
      BY <2>2 DEF Reason, ReasonedFits
    <3>2. ASSUME mode = "full", reasoned'.status = "ok", reasoned'.compared # <<>>
          PROVE  ReportFits(given, reasoned')
      <4>1. /\ "compare" \in ModesFor /\ "changes" \in ModesFor /\ "contradictions" \in ModesFor
            /\ ModesFor \cap {"compare", "changes"} # {}
        BY <3>2 DEF ModesFor, ReasoningModes
      <4>2. ~ ("timeline" \in ModesFor /\ TimelineFails)
        BY <2>2, <3>2 DEF Reason, NotReasoned
      <4>3. /\ reasoned'.compared = Compared /\ reasoned'.diff = Diff(70)
            /\ reasoned'.changes = ChangesSeen /\ reasoned'.clashes = Clashes
        BY <2>2, <4>1, <4>2 DEF Reason
      <4>4. QED
        BY <3>1, <3>2, <4>3, ReportIsFit
    <3>3. QED
      BY <3>1, <3>2 DEF ReasonedFits
  <2>3. ASSUME TakeReport PROVE ReasonedFits'
    BY <2>0, <2>3 DEF TakeReport, ReasonedFits
  <2>4. CASE UNCHANGED reasoningVars
    BY <2>4 DEF reasoningVars, ReasonedFits
  <2>5. QED
    BY <2>1, <2>2, <2>3, <2>4 DEF ReasoningNext
<1>3. ReasonedFits => ReportsAgree
  BY DEF ReasonedFits, ReportFits, ReportsAgree
<1>4. QED
  BY <1>1, <1>2, <1>3, PTL DEF ReasoningSpec

-----------------------------------------------------------------------------
(* HybridSearch: what all sources agree on stays in order.                   *)

\* Chunks with a score each.
IsScored(score) == /\ DOMAIN score \in SUBSET Nat /\ IsFiniteSet(DOMAIN score)
                   /\ score \in [DOMAIN score -> Nat]

DownTo(c, score) == {d \in DOMAIN score : d = c \/ Above(d, c, score)}

LEMMA RankIsCount ==
  ASSUME NEW score, IsScored(score), NEW c \in DOMAIN score
  PROVE  /\ DownTo(c, score) \in SUBSET (DOMAIN score) /\ c \in DownTo(c, score)
         /\ IsFiniteSet(DownTo(c, score)) /\ RankIn(c, score) = Cardinality(DownTo(c, score))
         /\ RankIn(c, score) \in 1..Cardinality(DOMAIN score)
<1> DEFINE S == DownTo(c, score)
           D == DOMAIN score
<1>1. S \in SUBSET D /\ c \in S /\ RankIn(c, score) = Cardinality(S)
  BY DEF DownTo, RankIn
<1>2. IsFiniteSet(D)
  BY DEF IsScored
<1> HIDE DEF S, D
<1>3. IsFiniteSet(S) /\ Cardinality(S) <= Cardinality(D)
  BY <1>1, <1>2, FS_Subset
<1>4. Cardinality(S) \in Nat /\ Cardinality(D) \in Nat /\ Cardinality(S) # 0
  BY <1>1, <1>2, <1>3, FS_CardinalityType, FS_EmptySet
<1>5. Cardinality(S) \in 1..Cardinality(D)
  BY <1>3, <1>4
<1>6. QED
  BY <1>1, <1>3, <1>5 DEF S, D

LEMMA HigherRanksLower ==
  ASSUME NEW score, IsScored(score), NEW a \in DOMAIN score, NEW b \in DOMAIN score, Above(a, b, score)
  PROVE  RankIn(a, score) < RankIn(b, score)
<1> DEFINE S == DownTo(a, score)
           T == DownTo(b, score)
<1>1. \A d \in DOMAIN score : d \in Nat /\ score[d] \in Nat
  BY DEF IsScored
<1>2. S \in SUBSET T
  BY <1>1 DEF DownTo, Above
<1>3. b \in T /\ b \notin S
  BY <1>1 DEF DownTo, Above
<1>4. /\ IsFiniteSet(S) /\ IsFiniteSet(T)
      /\ RankIn(a, score) = Cardinality(S) /\ RankIn(b, score) = Cardinality(T)
  BY RankIsCount
<1> HIDE DEF S, T
<1>5. Cardinality(S) <= Cardinality(T) /\ (Cardinality(S) = Cardinality(T) => S = T)
  BY <1>2, <1>4, FS_Subset
<1>6. Cardinality(S) \in Nat /\ Cardinality(T) \in Nat
  BY <1>4, FS_CardinalityType
<1>7. Cardinality(S) # Cardinality(T)
  BY <1>3, <1>5
<1>8. Cardinality(S) < Cardinality(T)
  BY <1>5, <1>6, <1>7
<1>9. QED
  BY <1>4, <1>8

LEMMA RanksDiffer ==
  ASSUME NEW score, IsScored(score), NEW a \in DOMAIN score, NEW b \in DOMAIN score, a # b
  PROVE  RankIn(a, score) # RankIn(b, score)
<1>1. a \in Nat /\ b \in Nat /\ score[a] \in Nat /\ score[b] \in Nat
  BY DEF IsScored
<1>2. Above(a, b, score) \/ Above(b, a, score)
  BY <1>1 DEF Above
<1>3. RankIn(a, score) \in Int /\ RankIn(b, score) \in Int
  <2>1. \A n : \A k \in 1..n : k \in Int
    OBVIOUS
  <2>2. QED
    BY <2>1, RankIsCount
<1>4. RankIn(a, score) < RankIn(b, score) \/ RankIn(b, score) < RankIn(a, score)
  BY <1>2, HigherRanksLower
<1>5. QED
  BY <1>3, <1>4

\* Each place is some chunk's.
LEMMA PlacesAreTaken ==
  ASSUME NEW score, IsScored(score), NEW i \in 1..Cardinality(DOMAIN score)
  PROVE  \E c \in DOMAIN score : RankIn(c, score) = i
<1> DEFINE D == DOMAIN score
           n == Cardinality(D)
           f == [c \in D |-> RankIn(c, score)]
<1>1. IsFiniteSet(D) /\ n \in Nat
  BY FS_CardinalityType DEF IsScored
<1>2. f \in [D -> 1..n]
  BY RankIsCount
<1>3. f \in Injection(D, 1..n)
  <2>1. \A a, b \in D : f[a] = f[b] => a = b
    BY RanksDiffer
  <2> HIDE DEF f, n
  <2>2. QED
    BY <1>2, <2>1 DEF Injection, IsInjective
<1>4. IsFiniteSet(1..n) /\ Cardinality(1..n) = n
  <2> HIDE DEF n
  <2>1. QED
    BY <1>1, FS_Interval
<1> HIDE DEF f
<1>5. f \in Surjection(D, 1..n)
  BY <1>3, <1>4, FS_Injection
<1>6. \E c \in D : f[c] = i
  BY <1>5 DEF Surjection
<1>7. QED
  BY <1>6 DEF f

\* A chunk stands in the list where its rank says.
LEMMA RankedIs ==
  ASSUME NEW score, IsScored(score)
  PROVE  /\ Ranked(score) \in Seq(DOMAIN score) /\ Len(Ranked(score)) = Cardinality(DOMAIN score)
         /\ \A i \in 1..Cardinality(DOMAIN score) : RankIn(Ranked(score)[i], score) = i
         /\ \A c \in DOMAIN score : /\ RankIn(c, score) \in 1..Cardinality(DOMAIN score)
                                    /\ Ranked(score)[RankIn(c, score)] = c
<1> DEFINE D == DOMAIN score
           n == Cardinality(D)
           s == Ranked(score)
<1>1. n \in Nat
  BY FS_CardinalityType DEF IsScored
<1>2. ASSUME NEW i \in 1..n PROVE s[i] \in D /\ RankIn(s[i], score) = i
  <2>1. s[i] = CHOOSE c \in D : RankIn(c, score) = i
    BY DEF Ranked
  <2>2. QED
    BY <2>1, PlacesAreTaken
<1>3. s = [i \in 1..n |-> s[i]]
  BY DEF Ranked
<1> HIDE DEF s
<1>4. s \in [1..n -> D]
  BY <1>2, <1>3
<1> HIDE DEF n, D
<1>5. s \in Seq(D) /\ Len(s) = n
  <2>1. s \in Seq(D)
    BY <1>1, <1>4, SeqDef
  <2>2. DOMAIN s = 1..n /\ DOMAIN s = 1..Len(s) /\ Len(s) \in Nat
    BY <1>4, <2>1, LenProperties
  <2>3. QED
    BY <1>1, <2>1, <2>2
<1>6. ASSUME NEW c \in D PROVE RankIn(c, score) \in 1..n /\ s[RankIn(c, score)] = c
  <2>1. RankIn(c, score) \in 1..n
    BY RankIsCount DEF D, n
  <2>2. s[RankIn(c, score)] \in D /\ RankIn(s[RankIn(c, score)], score) = RankIn(c, score)
    BY <1>2, <2>1
  <2>3. QED
    BY <2>1, <2>2, RanksDiffer DEF D
<1>7. QED
  BY <1>2, <1>5, <1>6 DEF D, n, s

LEMMA FirstAreRanked ==
  ASSUME NEW score, IsScored(score), NEW m \in Nat, NEW d \in Range(FirstOf(m, Ranked(score)))
  PROVE  d \in DOMAIN score
<1> DEFINE s == Ranked(score)
           D == DOMAIN score
           k == IF m < Len(s) THEN m ELSE Len(s)
<1>1. s \in Seq(D)
  BY RankedIs
<1>2. Len(s) \in Nat
  BY <1>1, LenProperties
<1>3. FirstOf(m, s) = SubSeq(s, 1, k)
  BY DEF FirstOf
<1> HIDE DEF s, D
<1>4. k \in Int /\ \A p \in 1..k : p \in 1..Len(s)
  BY <1>2
<1>5. \A p \in 1..k : s[p] \in D
  BY <1>1, <1>4, ElementOfSeq
<1> DEFINE t == FirstOf(m, s)
<1> HIDE DEF k
<1>6. SubSeq(s, 1, k) \in Seq(D)
  BY <1>4, <1>5, SubSeqProperties
<1>7. t \in Seq(D) /\ d \in Range(t)
  BY <1>3, <1>6 DEF s
<1> HIDE DEF t
<1>8. PICK p \in DOMAIN t : t[p] = d
  BY <1>7 DEF Range
<1>9. t[p] \in D
  BY <1>7, <1>8, LenProperties, ElementOfSeq
<1>10. QED
  BY <1>8, <1>9 DEF D

\* The first of a list, and a chunk in it with all that are above.
LEMMA AboveIsBefore ==
  ASSUME NEW score, IsScored(score), NEW m \in Nat, NEW c \in DOMAIN score, NEW d \in DOMAIN score,
         Above(c, d, score), d \in Range(FirstOf(m, Ranked(score)))
  PROVE  RankedBefore(c, d, FirstOf(m, Ranked(score)))
<1> DEFINE s == Ranked(score)
           n == Cardinality(DOMAIN score)
           k == IF m < n THEN m ELSE n
           t == FirstOf(m, s)
           i == RankIn(c, score)
           j == RankIn(d, score)
<1>1. /\ s \in Seq(DOMAIN score) /\ Len(s) = n /\ n \in Nat
      /\ \A p \in 1..n : RankIn(s[p], score) = p
      /\ i \in 1..n /\ j \in 1..n /\ s[i] = c /\ s[j] = d
  <2>1. n \in Nat
    BY FS_CardinalityType DEF IsScored
  <2>2. QED
    BY <2>1, RankedIs
<1>2. i < j
  BY HigherRanksLower
<1>3. t = SubSeq(s, 1, k)
  BY <1>1 DEF FirstOf
<1>4. d \in Range(t)
  OBVIOUS
<1> DEFINE D == DOMAIN score
<1> HIDE DEF s, n, i, j, t, D
<1>5. k \in 0..n /\ k \in Int /\ 1 \in Int
  BY <1>1
<1>6. \A p \in 1..k : s[p] \in D
  <2>1. s \in Seq(D)
    BY <1>1 DEF D
  <2>2. \A p \in 1..k : p \in 1..Len(s)
    BY <1>1, <1>5
  <2>3. QED
    BY <2>1, <2>2, ElementOfSeq
<1> HIDE DEF k
<1>7. /\ t \in Seq(D) /\ Len(t) = IF 1 <= k THEN k - 1 + 1 ELSE 0
      /\ \A p \in 1..k - 1 + 1 : t[p] = s[1 + p - 1]
  BY <1>3, <1>5, <1>6, SubSeqProperties
<1>8. Len(t) = k /\ DOMAIN t = 1..k /\ \A p \in 1..k : t[p] = s[p]
  <2>1. Len(t) = k /\ k - 1 + 1 = k /\ \A p \in 1..k : 1 + p - 1 = p
    BY <1>5, <1>7
  <2>2. DOMAIN t = 1..k
    BY <1>7, <2>1, LenProperties
  <2>3. QED
    BY <1>7, <2>1, <2>2
<1>9. PICK p \in DOMAIN t : t[p] = d
  BY <1>4 DEF Range
<1>10. p = j
  <2>1. p \in 1..n /\ s[p] = d
    BY <1>1, <1>5, <1>8, <1>9
  <2>2. RankIn(s[p], score) = p
    BY <1>1, <2>1
  <2>3. QED
    BY <2>1, <2>2 DEF j
<1>11. i \in 1..k /\ j \in 1..k
  BY <1>1, <1>2, <1>5, <1>8, <1>9, <1>10
<1>12. t[i] = c /\ t[j] = d
  BY <1>1, <1>8, <1>11
<1>13. RankedBefore(c, d, t)
  BY <1>2, <1>8, <1>11, <1>12 DEF RankedBefore
<1>14. QED
  BY <1>13 DEF t, s

LEMMA TimesMore ==
  ASSUME NEW w \in Nat, NEW g \in Nat, NEW h \in Nat
  PROVE  /\ w * g \in Nat /\ (g >= h => w * g >= w * h)
         /\ (w > 0 /\ g > h => w * g > w * h)
<1>1. w * g \in Nat /\ w * h \in Nat
  OBVIOUS
<1>2. ASSUME NEW e \in Nat, g = h + e PROVE w * g = w * h + w * e /\ w * e \in Nat
  BY <1>2
<1>3. ASSUME NEW e \in Nat, w > 0, e > 0 PROVE w * e > 0
  BY <1>3
<1>4. g >= h => g - h \in Nat /\ g = h + (g - h)
  OBVIOUS
<1>5. g >= h => w * g = w * h + w * (g - h) /\ w * (g - h) \in Nat
  BY <1>2, <1>4
<1>6. w > 0 /\ g > h => w * (g - h) > 0
  BY <1>3, <1>4
<1>7. QED
  BY <1>1, <1>5, <1>6

\* A unit that its divisors divide: a smaller divisor leaves more of it.
LEMMA SmallerLeavesMore ==
  ASSUME NEW u \in Nat \ {0}, NEW p \in Nat \ {0}, NEW q \in Nat \ {0}, u % p = 0, u % q = 0
  PROVE  /\ u \div p \in Nat \ {0} /\ u = p * (u \div p)
         /\ p < q => u \div p > u \div q
<1>1. ASSUME NEW r \in Nat \ {0}, u % r = 0
      PROVE  u \div r \in Nat \ {0} /\ u = r * (u \div r)
  <2>1. u = r * (u \div r) + (u % r) /\ u \div r \in Int
    OBVIOUS
  <2>2. u = r * (u \div r)
    BY <1>1, <2>1
  <2> DEFINE m == u \div r
  <2>3. m \in Int /\ u = r * m
    BY <2>1, <2>2
  <2> HIDE DEF m
  <2>4. m > 0
    BY <2>3
  <2>5. QED
    BY <2>3, <2>4 DEF m
<1> DEFINE m == u \div p
           n == u \div q
<1>2. m \in Nat \ {0} /\ n \in Nat \ {0} /\ u = p * m /\ u = q * n
  BY <1>1
<1> HIDE DEF m, n
<1>3. ASSUME p < q PROVE m > n
  <2> SUFFICES ASSUME m <= n PROVE FALSE
    BY <1>2
  <2>1. p * m <= p * n
    BY <1>2, TimesMore
  <2>2. n * p < n * q
    BY <1>2, <1>3, TimesMore
  <2>3. QED
    BY <1>2, <2>1, <2>2
<1>4. QED
  BY <1>2, <1>3 DEF m, n

\* What a source may answer.
IsReply(reply) == /\ DOMAIN reply \in SUBSET FoundIds
                  /\ reply \in [DOMAIN reply -> 0..TopScore]

LEMMA RepliesAre ==
  ASSUME NEW reply \in DenseReplies \cup KeywordReplies
  PROVE  IsReply(reply)
<1>1. DOMAIN reply \in SUBSET FoundIds
  BY DEF FoundIds
<1>2. QED
  BY <1>1, SearchAssumption DEF SearchAssumption, IsReply

LEMMA ReplyIsScored ==
  ASSUME NEW reply, IsReply(reply)
  PROVE  /\ IsScored(reply) /\ Cardinality(DOMAIN reply) <= Cardinality(FoundIds)
         /\ Cardinality(DOMAIN reply) \in Nat /\ Cardinality(FoundIds) \in Nat
         /\ \A c \in DOMAIN reply : reply[c] \in 0..TopScore
<1>1. IsFiniteSet(FoundIds) /\ FoundIds \subseteq Nat /\ DOMAIN reply \in SUBSET FoundIds
      /\ TopScore \in Nat
  BY SearchAssumption DEF SearchAssumption, IsReply
<1>2. IsFiniteSet(DOMAIN reply) /\ Cardinality(DOMAIN reply) <= Cardinality(FoundIds)
  BY <1>1, FS_Subset
<1>3. Cardinality(DOMAIN reply) \in Nat /\ Cardinality(FoundIds) \in Nat
  BY <1>1, <1>2, FS_CardinalityType
<1>4. \A c \in DOMAIN reply : reply[c] \in 0..TopScore
  BY DEF IsReply
<1>5. reply \in [DOMAIN reply -> Nat]
  <2>1. reply \in [DOMAIN reply -> 0..TopScore]
    BY DEF IsReply
  <2>2. \A n \in 0..TopScore : n \in Nat
    BY <1>1
  <2>3. QED
    BY <2>1, <2>2
<1>6. QED
  BY <1>1, <1>2, <1>3, <1>4, <1>5 DEF IsScored

LEMMA ShareFalls ==
  ASSUME NEW reply, IsReply(reply), NEW c \in DOMAIN reply, NEW d \in DOMAIN reply
  PROVE  /\ RrfShare(c, reply) \in Nat
         /\ reply[c] > reply[d] => RrfShare(c, reply) > RrfShare(d, reply)
<1> DEFINE i == RankIn(c, reply)
           j == RankIn(d, reply)
           n == Cardinality(FoundIds)
<1>1. IsScored(reply) /\ Cardinality(DOMAIN reply) <= n /\ Cardinality(DOMAIN reply) \in Nat /\ n \in Nat
  BY ReplyIsScored
<1>2. i \in 1..Cardinality(DOMAIN reply) /\ j \in 1..Cardinality(DOMAIN reply)
  BY <1>1, RankIsCount
<1>3. reply[c] > reply[d] => i < j
  BY <1>1, HigherRanksLower DEF Above
<1> HIDE DEF i, j, n
<1>4. i \in 1..n /\ j \in 1..n
  BY <1>1, <1>2
<1>5. RrfUnit \in Nat \ {0} /\ RrfK \in Nat \ {0} /\ RrfUnit % (RrfK + i) = 0 /\ RrfUnit % (RrfK + j) = 0
  BY <1>4, SearchAssumption DEF SearchAssumption, n
<1> DEFINE p == RrfK + i
           q == RrfK + j
<1>6. p \in Nat \ {0} /\ q \in Nat \ {0} /\ (i < j => p < q)
  BY <1>1, <1>4, <1>5
<1>7. RrfUnit % p = 0 /\ RrfUnit % q = 0
  BY <1>5
<1> HIDE DEF p, q
<1>8. RrfUnit \div p \in Nat \ {0} /\ (p < q => RrfUnit \div p > RrfUnit \div q)
  BY <1>5, <1>6, <1>7, SmallerLeavesMore
<1>9. RrfShare(c, reply) = RrfUnit \div p /\ RrfShare(d, reply) = RrfUnit \div q
  BY DEF RrfShare, p, q, i, j
<1>10. QED
  BY <1>3, <1>6, <1>8, <1>9

LEMMA ExtremesAre ==
  ASSUME NEW reply, IsReply(reply), DOMAIN reply # {}
  PROVE  /\ Lowest(reply) \in 0..TopScore /\ Highest(reply) \in 0..TopScore
         /\ \A c \in DOMAIN reply : Lowest(reply) <= reply[c] /\ reply[c] <= Highest(reply)
<1> DEFINE V == {reply[c] : c \in DOMAIN reply}
           W == {TopScore - v : v \in V}
<1>1. TopScore \in Nat /\ \A c \in DOMAIN reply : reply[c] \in 0..TopScore
  BY ReplyIsScored, SearchAssumption DEF SearchAssumption
<1>2. V \in SUBSET (0..TopScore) /\ V # {}
  BY <1>1
<1>3. \A v \in V : TopScore - v \in 0..TopScore
  BY <1>1, <1>2
<1>4. W \in SUBSET (0..TopScore) /\ W # {}
  BY <1>2, <1>3
<1>5. \E m \in V : \A v \in V : m >= v
  <2> HIDE DEF V
  <2>1. PICK m \in V : \A v \in V : v <= m
    BY <1>1, <1>2, GreatestExists
  <2>2. \A v \in V : v \in Int
    BY <1>2
  <2>3. QED
    BY <2>1, <2>2
<1>6. \E l \in V : \A v \in V : l <= v
  <2>1. PICK m \in W : \A w \in W : w <= m
    <3> HIDE DEF W
    <3>1. QED
      BY <1>1, <1>4, GreatestExists
  <2>2. PICK l \in V : m = TopScore - l
    BY <2>1
  <2>3. ASSUME NEW v \in V PROVE l <= v
    <3>1. TopScore - v \in W
      OBVIOUS
    <3>2. TopScore - v <= TopScore - l
      BY <2>1, <2>2, <3>1
    <3>3. l \in Int /\ v \in Int
      BY <1>2
    <3> HIDE DEF V, W
    <3>4. QED
      BY <1>1, <3>2, <3>3
  <2>4. QED
    BY <2>3
<1>7. Lowest(reply) \in V /\ \A c \in DOMAIN reply : Lowest(reply) <= reply[c]
  <2>1. \E x \in V : \A c \in DOMAIN reply : x <= reply[c]
    BY <1>6
  <2>2. QED
    BY <2>1 DEF Lowest
<1>8. Highest(reply) \in V /\ \A c \in DOMAIN reply : Highest(reply) >= reply[c]
  <2>1. \E x \in V : \A c \in DOMAIN reply : x >= reply[c]
    BY <1>5
  <2>2. QED
    BY <2>1 DEF Highest
<1>9. ASSUME NEW c \in DOMAIN reply PROVE reply[c] <= Highest(reply)
  BY <1>1, <1>2, <1>8
<1>10. QED
  BY <1>2, <1>7, <1>8, <1>9

LEMMA NormalizedRises ==
  ASSUME NEW reply, IsReply(reply), NEW c \in DOMAIN reply, NEW d \in DOMAIN reply
  PROVE  /\ Normalized(c, reply) \in Nat
         /\ reply[c] > reply[d] => Normalized(c, reply) > Normalized(d, reply)
<1> DEFINE low == Lowest(reply)
           high == Highest(reply)
           w == high - low
<1>1. /\ low \in 0..TopScore /\ high \in 0..TopScore /\ TopScore \in Nat
      /\ reply[c] \in low..high /\ reply[d] \in low..high
  BY ExtremesAre, ReplyIsScored, SearchAssumption DEF SearchAssumption
<1>2. Unit \in Nat \ {0} /\ (w \in 1..TopScore => Unit % w = 0)
  BY SearchAssumption DEF SearchAssumption
<1>3. CASE high = low
  BY <1>1, <1>2, <1>3 DEF Normalized
<1>4. CASE high # low
  <2>1. w \in 1..TopScore /\ w \in Nat \ {0}
    BY <1>1, <1>4
  <2> DEFINE m == Unit \div w
             a == reply[c] - low
             b == reply[d] - low
  <2>2. a \in Nat /\ b \in Nat /\ (reply[c] > reply[d] => a > b)
    BY <1>1
  <2>3. Normalized(c, reply) = (a * Unit) \div w /\ Normalized(d, reply) = (b * Unit) \div w
    BY <1>4 DEF Normalized
  <2> HIDE DEF w
  <2>4. m \in Nat \ {0} /\ Unit = w * m
    BY <1>2, <2>1, SmallerLeavesMore
  <2> HIDE DEF m, a, b
  <2>5. ASSUME NEW e \in Nat PROVE (e * Unit) \div w = e * m
    <3>1. e * Unit = w * (e * m) /\ e * m \in Int
      BY <2>1, <2>4
    <3>2. ASSUME NEW k \in Int PROVE (w * k) \div w = k
      BY <2>1
    <3>3. QED
      BY <3>1, <3>2
  <2>6. a * m \in Nat /\ (a > b => a * m > b * m)
    <3>1. m * a \in Nat /\ (a > b => m * a > m * b)
      BY <2>2, <2>4, TimesMore
    <3>2. QED
      BY <2>2, <2>4, <3>1
  <2>7. QED
    BY <2>2, <2>3, <2>5, <2>6
<1>5. QED
  BY <1>3, <1>4

LEMMA GainIs ==
  ASSUME NEW reply, IsReply(reply), NEW method \in Methods, NEW c, NEW d
  PROVE  /\ Gain(c, reply, method) \in Nat /\ (c \notin DOMAIN reply => Gain(c, reply, method) = 0)
         /\ c \in DOMAIN reply /\ d \in DOMAIN reply /\ reply[c] > reply[d] =>
              Gain(c, reply, method) > Gain(d, reply, method)
<1>1. CASE c \notin DOMAIN reply
  BY <1>1 DEF Gain
<1>2. CASE c \in DOMAIN reply /\ d \notin DOMAIN reply
  BY <1>2, ShareFalls, NormalizedRises, ReplyIsScored DEF Gain, Methods
<1>3. CASE c \in DOMAIN reply /\ d \in DOMAIN reply
  BY <1>3, ShareFalls, NormalizedRises, ReplyIsScored DEF Gain, Methods
<1>4. QED
  BY <1>1, <1>2, <1>3

LEMMA WeightsAre ==
  ASSUME NEW r \in SearchRequests
  PROVE  /\ SearchWeights(r).dense \in Nat /\ SearchWeights(r).bm25 \in Nat
         /\ r.method \in Methods /\ r.topN \in Nat
<1>1. IsRequest(r)
  BY SearchAssumption DEF SearchAssumption
<1>2. r.denseWeight \in Nat /\ r.keywordWeight \in Nat /\ r.topN \in Nat /\ r.method \in Methods
  BY <1>1 DEF IsRequest
<1>3. QED
  BY <1>2 DEF SearchWeights

\* A list or, if the source failed, nothing.
MayHear(reply) == reply = NoReply \/ IsReply(reply)

LEMMA HeardIsReply ==
  ASSUME NEW reply, MayHear(reply)
  PROVE  IsReply(Heard(reply)) /\ (reply # NoReply => Heard(reply) = reply)
         /\ (reply = NoReply => DOMAIN Heard(reply) = {})
<1>1. DOMAIN Empty = {} /\ Empty \in [{} -> 0..TopScore]
  BY DEF Empty
<1>2. IsReply(Empty)
  BY <1>1 DEF IsReply
<1>3. QED
  BY <1>1, <1>2 DEF Heard, MayHear

SumOf(w, v, g, h) == w * g + v * h
FusedFrom(dense, bm25, r, score) ==
  /\ IsScored(score) /\ DOMAIN score = DOMAIN dense \cup DOMAIN bm25
  /\ \A c \in DOMAIN score :
       score[c] = SumOf(SearchWeights(r).dense, SearchWeights(r).bm25,
                        Gain(c, dense, r.method), Gain(c, bm25, r.method))

\* The fused score of what both lists put higher, or one while the other says
\* nothing of the lower.
LEMMA FusedKeeps ==
  ASSUME NEW r \in SearchRequests, NEW dense, NEW bm25, IsReply(dense), IsReply(bm25)
  PROVE  FusedFrom(dense, bm25, r, Fused([dense |-> dense, bm25 |-> bm25], r))
<1> DEFINE w == SearchWeights(r).dense
           v == SearchWeights(r).bm25
           D == DOMAIN dense \cup DOMAIN bm25
           score == Fused([dense |-> dense, bm25 |-> bm25], r)
<1>1. w \in Nat /\ v \in Nat /\ r.method \in Methods
  BY WeightsAre
<1>2. score = [c \in D |-> w * Gain(c, dense, r.method) + v * Gain(c, bm25, r.method)]
  BY DEF Fused
<1>3. ASSUME NEW c PROVE w * Gain(c, dense, r.method) + v * Gain(c, bm25, r.method) \in Nat
  <2> DEFINE g == Gain(c, dense, r.method)
             h == Gain(c, bm25, r.method)
  <2>1. g \in Nat /\ h \in Nat
    BY <1>1, GainIs
  <2> HIDE DEF g, h, w, v
  <2>2. w * g \in Nat /\ v * h \in Nat
    BY <1>1, <2>1, TimesMore
  <2>3. w * g + v * h \in Nat
    BY <2>2
  <2>4. QED
    BY <2>3 DEF g, h
<1>4. D \in SUBSET Nat /\ IsFiniteSet(D)
  <2>1. D \in SUBSET FoundIds /\ FoundIds \subseteq Nat /\ IsFiniteSet(FoundIds)
    BY SearchAssumption DEF SearchAssumption, IsReply
  <2> HIDE DEF D
  <2>2. QED
    BY <2>1, FS_Subset
<1> HIDE DEF w, v, D, score
<1>5. DOMAIN score = D /\ score \in [D -> Nat]
  BY <1>2, <1>3
<1>6. IsScored(score)
  BY <1>4, <1>5 DEF IsScored
<1>7. \A c \in D : score[c] = SumOf(w, v, Gain(c, dense, r.method), Gain(c, bm25, r.method))
  BY <1>2 DEF SumOf
<1>8. QED
  BY <1>5, <1>6, <1>7 DEF FusedFrom, score, D, w, v

\* What each of two lists that is heard says of two chunks.
SaysSo(c, d, reply) == c \in DOMAIN reply /\ (d \in DOMAIN reply => reply[c] > reply[d])

LEMMA GainOfHigher ==
  ASSUME NEW reply, IsReply(reply), NEW method \in Methods, NEW c, NEW d, NEW w \in Nat,
         DOMAIN reply = {} \/ (SaysSo(c, d, reply) /\ w > 0)
  PROVE  /\ w * Gain(c, reply, method) \in Nat /\ w * Gain(d, reply, method) \in Nat
         /\ w * Gain(c, reply, method) >= w * Gain(d, reply, method)
         /\ d \in DOMAIN reply => w * Gain(c, reply, method) > w * Gain(d, reply, method)
<1> DEFINE g == Gain(c, reply, method)
           h == Gain(d, reply, method)
<1>1. g \in Nat /\ h \in Nat /\ (d \notin DOMAIN reply => h = 0)
  BY GainIs
<1>2. d \in DOMAIN reply => w > 0 /\ g > h
  BY GainIs DEF SaysSo
<1> HIDE DEF g, h
<1>3. g >= h
  BY <1>1, <1>2
<1>4. w * g \in Nat /\ w * h \in Nat /\ w * g >= w * h /\ (w > 0 /\ g > h => w * g > w * h)
  BY <1>1, <1>3, TimesMore
<1>5. QED
  BY <1>2, <1>4 DEF g, h

\* A search, without what the encoder adds to it.
SearchFields == {"phase", "request", "strategy", "waiting", "replies", "candidates", "answer", "reranked"}
IsSearch(x) ==
  /\ DOMAIN x = SearchFields /\ x = [f \in SearchFields |-> x[f]]
  /\ x.phase # "idle" /\ x.request \in SearchRequests /\ x.strategy \in {"hybrid", "dense", "bm25"}
  /\ x.replies = [dense |-> x.replies.dense, bm25 |-> x.replies.bm25]
  /\ MayHear(x.replies.dense) /\ MayHear(x.replies.bm25)
ListedAsRanked(x) ==
  x.phase \in {"fused", "answered"} => x.candidates = FirstOf(x.request.topN, Ranked(Merged(x)))

KeepsUnanimous(x) ==
  (x.strategy = "hybrid" => \A q \in HeardSources(x) : SearchWeights(x.request)[q] > 0) =>
     \A c, d \in FoundIds :
       Unanimous(c, d, x) /\ d \in Range(x.candidates) => RankedBefore(c, d, x.candidates)

\* The merged list has a chunk of which all that is heard says that it is higher.
LEMMA MergedKeeps ==
  ASSUME NEW x, IsSearch(x), NEW c, NEW d, Unanimous(c, d, x),
         x.strategy = "hybrid" => \A q \in HeardSources(x) : SearchWeights(x.request)[q] > 0
  PROVE  /\ IsScored(Merged(x)) /\ c \in DOMAIN Merged(x)
         /\ d \in DOMAIN Merged(x) => Above(c, d, Merged(x))
<1> DEFINE dense == x.replies.dense
           bm25 == x.replies.bm25
           r == x.request
<1>1. /\ r \in SearchRequests /\ MayHear(dense) /\ MayHear(bm25)
      /\ x.replies["dense"] = dense /\ x.replies["bm25"] = bm25
  BY DEF IsSearch
<1>2. CASE x.strategy = "hybrid"
  <2> DEFINE e == Heard(dense)
             k == Heard(bm25)
             w == SearchWeights(r).dense
             v == SearchWeights(r).bm25
             score == Fused([dense |-> e, bm25 |-> k], r)
             m == r.method
  <2>1. Merged(x) = score
    BY <1>2 DEF Merged
  <2>2. IsReply(e) /\ IsReply(k)
    BY <1>1, HeardIsReply
  <2>3. w \in Nat /\ v \in Nat /\ m \in Methods
    BY <1>1, WeightsAre
  <2>4. SourcesOf(x.strategy) = {"dense", "bm25"}
    BY <1>2 DEF SourcesOf
  <2>5. w = SearchWeights(r)["dense"] /\ v = SearchWeights(r)["bm25"]
    OBVIOUS
  <2>6. dense # NoReply => SaysSo(c, d, e) /\ w > 0
    <3> SUFFICES ASSUME dense # NoReply PROVE SaysSo(c, d, e) /\ w > 0
      OBVIOUS
    <3>1. "dense" \in HeardSources(x) /\ e = dense
      BY <1>1, <2>4, HeardIsReply DEF HeardSources
    <3>2. w > 0
      BY <1>2, <2>5, <3>1
    <3>3. SaysSo(c, d, dense)
      BY <1>1, <3>1 DEF Unanimous, SaysSo
    <3>4. QED
      BY <3>1, <3>2, <3>3
  <2>7. bm25 # NoReply => SaysSo(c, d, k) /\ v > 0
    <3> SUFFICES ASSUME bm25 # NoReply PROVE SaysSo(c, d, k) /\ v > 0
      OBVIOUS
    <3>1. "bm25" \in HeardSources(x) /\ k = bm25
      BY <1>1, <2>4, HeardIsReply DEF HeardSources
    <3>2. v > 0
      BY <1>2, <2>5, <3>1
    <3>3. SaysSo(c, d, bm25)
      BY <1>1, <3>1 DEF Unanimous, SaysSo
    <3>4. QED
      BY <3>1, <3>2, <3>3
  <2>8. (dense = NoReply => DOMAIN e = {}) /\ (bm25 = NoReply => DOMAIN k = {})
    BY <1>1, HeardIsReply
  <2>9. dense # NoReply \/ bm25 # NoReply
    BY <1>1, <2>4 DEF Unanimous, HeardSources
  <2>10. /\ IsScored(score) /\ DOMAIN score = DOMAIN e \cup DOMAIN k
         /\ \A f \in DOMAIN score : score[f] = SumOf(w, v, Gain(f, e, m), Gain(f, k, m))
    <3>1. FusedFrom(e, k, r, Fused([dense |-> e, bm25 |-> k], r))
      BY <1>1, <2>2, FusedKeeps
    <3>2. QED
      BY <3>1 DEF FusedFrom
  <2> HIDE DEF e, k, w, v, score, m, dense, bm25
  <2>11. c \in DOMAIN score
    BY <2>6, <2>7, <2>9, <2>10 DEF SaysSo
  <2>12. DOMAIN e = {} \/ (SaysSo(c, d, e) /\ w > 0)
    BY <2>6, <2>8
  <2>13. DOMAIN k = {} \/ (SaysSo(c, d, k) /\ v > 0)
    BY <2>7, <2>8
  <2>14. /\ w * Gain(c, e, m) \in Nat /\ w * Gain(d, e, m) \in Nat
         /\ w * Gain(c, e, m) >= w * Gain(d, e, m)
         /\ d \in DOMAIN e => w * Gain(c, e, m) > w * Gain(d, e, m)
    BY <2>2, <2>3, <2>12, GainOfHigher
  <2>15. /\ v * Gain(c, k, m) \in Nat /\ v * Gain(d, k, m) \in Nat
         /\ v * Gain(c, k, m) >= v * Gain(d, k, m)
         /\ d \in DOMAIN k => v * Gain(c, k, m) > v * Gain(d, k, m)
    BY <2>2, <2>3, <2>13, GainOfHigher
  <2>16. ASSUME d \in DOMAIN score PROVE score[c] > score[d]
    <3> DEFINE g == w * Gain(c, e, m)
               h == w * Gain(d, e, m)
               p == v * Gain(c, k, m)
               q == v * Gain(d, k, m)
    <3>1. score[c] = g + p /\ score[d] = h + q
      BY <2>10, <2>11, <2>16 DEF SumOf
    <3>2. d \in DOMAIN e \/ d \in DOMAIN k
      BY <2>10, <2>16
    <3>3. g \in Nat /\ h \in Nat /\ p \in Nat /\ q \in Nat /\ g >= h /\ p >= q
      BY <2>14, <2>15
    <3>4. g > h \/ p > q
      BY <2>14, <2>15, <3>2
    <3> HIDE DEF g, h, p, q
    <3>5. g + p > h + q
      BY <3>3, <3>4
    <3>6. QED
      BY <3>1, <3>5
  <2>17. QED
    BY <2>1, <2>10, <2>11, <2>16 DEF Above
<1>3. ASSUME NEW q \in {"dense", "bm25"}, x.strategy = q
      PROVE  /\ IsScored(Merged(x)) /\ c \in DOMAIN Merged(x)
             /\ d \in DOMAIN Merged(x) => Above(c, d, Merged(x))
  <2>1. SourcesOf(x.strategy) = {q} /\ Merged(x) = x.replies[q]
    BY <1>3 DEF SourcesOf, Merged
  <2>2. x.replies[q] # NoReply /\ SaysSo(c, d, x.replies[q])
    BY <2>1 DEF Unanimous, HeardSources, SaysSo
  <2>3. IsReply(x.replies[q])
    BY <1>1, <2>2 DEF MayHear
  <2>4. IsScored(x.replies[q])
    BY <2>3, ReplyIsScored
  <2>5. QED
    BY <2>1, <2>2, <2>4 DEF SaysSo, Above
<1>4. QED
  BY <1>2, <1>3 DEF IsSearch

LEMMA ListedKeepsUnanimous ==
  ASSUME NEW x, IsSearch(x), ListedAsRanked(x), x.phase \in {"fused", "answered"}
  PROVE  KeepsUnanimous(x)
<1> SUFFICES ASSUME x.strategy = "hybrid" => \A q \in HeardSources(x) : SearchWeights(x.request)[q] > 0,
                    NEW c \in FoundIds, NEW d \in FoundIds, Unanimous(c, d, x), d \in Range(x.candidates)
             PROVE  RankedBefore(c, d, x.candidates)
  BY DEF KeepsUnanimous
<1> DEFINE score == Merged(x)
           m == x.request.topN
<1>1. IsScored(score) /\ c \in DOMAIN score /\ (d \in DOMAIN score => Above(c, d, score))
  BY MergedKeeps
<1>2. x.candidates = FirstOf(m, Ranked(score))
  BY DEF ListedAsRanked
<1>3. m \in Nat
  BY WeightsAre DEF IsSearch
<1> HIDE DEF score, m
<1>4. d \in Range(FirstOf(m, Ranked(score)))
  BY <1>2
<1>5. d \in DOMAIN score
  BY <1>1, <1>3, <1>4, FirstAreRanked
<1>6. QED
  BY <1>1, <1>2, <1>3, <1>4, <1>5, AboveIsBefore

-----------------------------------------------------------------------------

\* A search that has not been asked, or whose candidates are ranked as merged.
WellListed(x) == IsSearch(x) /\ ListedAsRanked(x)
SearchInv ==
  /\ DOMAIN search = Searches /\ search = [s \in Searches |-> search[s]]
  /\ \A s \in Searches : search[s] = NotAsked \/ WellListed(search[s])

LEMMA StrategyIs ==
  ASSUME NEW r
  PROVE  Strategy(r) \in {"hybrid", "dense", "bm25"}
BY DEF Strategy, Recommended

\* What is asked is not listed yet.
LEMMA AskedIsListed ==
  ASSUME NEW r \in SearchRequests,
         NEW x, x = [phase |-> "retrieving", request |-> r, strategy |-> Strategy(r),
                     waiting |-> SourcesOf(Strategy(r)), replies |-> [dense |-> NoReply, bm25 |-> NoReply],
                     candidates |-> <<>>, answer |-> <<>>, reranked |-> FALSE]
  PROVE  WellListed(x)
<1>1. DOMAIN x = SearchFields /\ x = [f \in SearchFields |-> x[f]]
  BY DEF SearchFields
<1>2. x.phase = "retrieving" /\ x.request = r /\ x.strategy = Strategy(r)
      /\ x.replies = [dense |-> NoReply, bm25 |-> NoReply]
  OBVIOUS
<1>3. x.strategy \in {"hybrid", "dense", "bm25"}
  BY <1>2, StrategyIs
<1>4. x.replies.dense = NoReply /\ x.replies.bm25 = NoReply
  BY <1>2
<1>5. x.replies = [dense |-> x.replies.dense, bm25 |-> x.replies.bm25]
  BY <1>2, <1>4
<1>6. IsSearch(x)
  BY <1>1, <1>2, <1>3, <1>4, <1>5 DEF IsSearch, MayHear
<1>7. ListedAsRanked(x)
  BY <1>2 DEF ListedAsRanked
<1>8. QED
  BY <1>6, <1>7 DEF WellListed

LEMMA WithReplyIsListed ==
  ASSUME NEW x, WellListed(x), x.phase = "retrieving", NEW source \in {"dense", "bm25"},
         NEW reply \in RepliesOf(source)
  PROVE  WellListed(WithReply(x, source, reply))
<1> DEFINE y == WithReply(x, source, reply)
           asked == x.replies
<1>1. IsSearch(x) /\ DOMAIN x = SearchFields
  BY DEF WellListed, IsSearch
<1>2. DOMAIN y = SearchFields /\ y = [f \in SearchFields |-> y[f]]
  BY <1>1 DEF WithReply
<1>3. y.phase = "retrieving" /\ y.request = x.request /\ y.strategy = x.strategy
  BY <1>1 DEF WithReply, SearchFields
<1>4. y.replies = [asked EXCEPT ![source] = reply]
  BY <1>1 DEF WithReply, SearchFields
<1>5. asked = [dense |-> asked.dense, bm25 |-> asked.bm25] /\ MayHear(asked.dense) /\ MayHear(asked.bm25)
  BY <1>1 DEF IsSearch
<1>6. IsReply(reply)
  BY RepliesAre DEF RepliesOf
<1> HIDE DEF y, asked
<1>7. y.replies = [dense |-> y.replies.dense, bm25 |-> y.replies.bm25]
  BY <1>4, <1>5
<1>8. (source = "dense" => y.replies.dense = reply /\ y.replies.bm25 = asked.bm25)
      /\ (source = "bm25" => y.replies.bm25 = reply /\ y.replies.dense = asked.dense)
  BY <1>4, <1>5
<1>9. MayHear(y.replies.dense) /\ MayHear(y.replies.bm25)
  BY <1>5, <1>6, <1>8 DEF MayHear
<1>10. IsSearch(y)
  BY <1>1, <1>2, <1>3, <1>7, <1>9 DEF IsSearch
<1>11. ListedAsRanked(y)
  BY <1>3 DEF ListedAsRanked
<1>12. QED
  BY <1>10, <1>11 DEF WellListed, y

\* A search that keeps what was asked and heard.
Continues(x, y) ==
  /\ DOMAIN y = SearchFields /\ y = [f \in SearchFields |-> y[f]]
  /\ y.request = x.request /\ y.strategy = x.strategy /\ y.replies = x.replies

LEMMA ContinuedIsSearch ==
  ASSUME NEW x, NEW y, IsSearch(x), Continues(x, y), y.phase # "idle"
  PROVE  IsSearch(y) /\ Merged(y) = Merged(x)
<1>1. IsSearch(y)
  BY DEF IsSearch, Continues
<1>2. Merged(y) = Merged(x)
  BY DEF Merged, Continues
<1>3. QED
  BY <1>1, <1>2

LEMMA AfterFailureIsListed ==
  ASSUME NEW x, WellListed(x), x.phase = "retrieving", NEW source
  PROVE  WellListed(AfterFailure(x, source))
<1> DEFINE y == AfterFailure(x, source)
<1>1. IsSearch(x) /\ DOMAIN x = SearchFields
  BY DEF WellListed, IsSearch
<1>2. Continues(x, y) /\ y.phase \in {"retrieving", "failed"}
  BY <1>1 DEF AfterFailure, OneLeft, AllLost, Continues, SearchFields
<1> HIDE DEF y
<1>3. IsSearch(y)
  BY <1>1, <1>2, ContinuedIsSearch
<1>4. ListedAsRanked(y)
  BY <1>2 DEF ListedAsRanked
<1>5. QED
  BY <1>3, <1>4 DEF WellListed, y

LEMMA CandidatesAreListed ==
  ASSUME NEW x, WellListed(x)
  PROVE  WellListed(WithCandidates(x))
<1> DEFINE y == WithCandidates(x)
<1>1. IsSearch(x) /\ DOMAIN x = SearchFields
  BY DEF WellListed, IsSearch
<1>2. Continues(x, y) /\ y.phase = "fused"
  BY <1>1 DEF WithCandidates, Continues, SearchFields
<1>3. y.candidates = FirstOf(x.request.topN, Ranked(Merged(x)))
  BY <1>1 DEF WithCandidates, SearchFields
<1> HIDE DEF y
<1>4. IsSearch(y) /\ Merged(y) = Merged(x) /\ y.request = x.request
  BY <1>1, <1>2, ContinuedIsSearch DEF Continues
<1>5. ListedAsRanked(y)
  BY <1>3, <1>4 DEF ListedAsRanked
<1>6. QED
  BY <1>4, <1>5 DEF WellListed, y

LEMMA AnswerIsListed ==
  ASSUME NEW x, WellListed(x), x.phase = "fused", NEW answer, NEW reranked
  PROVE  WellListed(WithAnswer(x, answer, reranked))
<1> DEFINE y == WithAnswer(x, answer, reranked)
<1>1. IsSearch(x) /\ DOMAIN x = SearchFields
  BY DEF WellListed, IsSearch
<1>2. Continues(x, y) /\ y.phase = "answered"
  BY <1>1 DEF WithAnswer, Continues, SearchFields
<1>3. y.candidates = x.candidates
  BY <1>1 DEF WithAnswer, SearchFields
<1> HIDE DEF y
<1>4. IsSearch(y) /\ Merged(y) = Merged(x) /\ y.request = x.request
  BY <1>1, <1>2, ContinuedIsSearch DEF Continues
<1>5. x.candidates = FirstOf(x.request.topN, Ranked(Merged(x)))
  BY DEF WellListed, ListedAsRanked
<1>6. ListedAsRanked(y)
  BY <1>3, <1>4, <1>5 DEF ListedAsRanked
<1>7. QED
  BY <1>4, <1>6 DEF WellListed, y

\* One search changes and is well listed afterwards.
LEMMA OneSearchMoves ==
  ASSUME SearchInv, NEW s \in Searches, NEW y, WellListed(y),
         search' = [search EXCEPT ![s] = y]
  PROVE  SearchInv'
<1>1. DOMAIN search' = Searches /\ search' = [u \in Searches |-> search'[u]]
  BY DEF SearchInv
<1>2. ASSUME NEW u \in Searches PROVE search'[u] = NotAsked \/ WellListed(search'[u])
  <2>1. search'[u] = IF u = s THEN y ELSE search[u]
    BY DEF SearchInv
  <2>2. search[u] = NotAsked \/ WellListed(search[u])
    BY DEF SearchInv
  <2>3. QED
    BY <2>1, <2>2
<1>3. QED
  BY <1>1, <1>2 DEF SearchInv

LEMMA AskedIsWell ==
  ASSUME SearchInv, NEW s \in Searches, search[s].phase # "idle"
  PROVE  WellListed(search[s])
BY DEF SearchInv, NotAsked

LEMMA SearchStep ==
  ASSUME SearchInv, [SearchNext]_searchVars
  PROVE  SearchInv'
<1>1. CASE UNCHANGED searchVars
  BY <1>1 DEF searchVars, SearchInv
<1>2. ASSUME NEW s \in Searches, NEW r \in SearchRequests, AskSearch(s, r)
      PROVE  SearchInv'
  <2> DEFINE y == [phase |-> "retrieving", request |-> r, strategy |-> Strategy(r),
                   waiting |-> SourcesOf(Strategy(r)), replies |-> [dense |-> NoReply, bm25 |-> NoReply],
                   candidates |-> <<>>, answer |-> <<>>, reranked |-> FALSE]
  <2>1. search' = [search EXCEPT ![s] = y]
    BY <1>2 DEF AskSearch
  <2>2. WellListed(y)
    BY AskedIsListed
  <2> HIDE DEF y
  <2>3. QED
    BY <2>1, <2>2, OneSearchMoves
<1>3. ASSUME NEW s \in Searches, NEW source \in {"dense", "bm25"}, SourceFails(s, source)
      PROVE  SearchInv'
  <2>1. search[s].phase = "retrieving" /\ search' = [search EXCEPT ![s] = AfterFailure(search[s], source)]
    BY <1>3 DEF SourceFails
  <2>2. WellListed(AfterFailure(search[s], source))
    BY <2>1, AskedIsWell, AfterFailureIsListed
  <2>3. QED
    BY <2>1, <2>2, OneSearchMoves
<1>4. ASSUME NEW s \in Searches, NEW source \in {"dense", "bm25"}, NEW reply \in RepliesOf(source),
             SourceAnswers(s, source, reply)
      PROVE  SearchInv'
  <2>1. search[s].phase = "retrieving" /\ search' = [search EXCEPT ![s] = WithReply(search[s], source, reply)]
    BY <1>4 DEF SourceAnswers
  <2>2. WellListed(WithReply(search[s], source, reply))
    BY <2>1, AskedIsWell, WithReplyIsListed
  <2>3. QED
    BY <2>1, <2>2, OneSearchMoves
<1>5. ASSUME NEW s \in Searches, Fuse(s) PROVE SearchInv'
  <2>1. search[s].phase = "retrieving" /\ search' = [search EXCEPT ![s] = WithCandidates(search[s])]
    BY <1>5 DEF Fuse
  <2>2. WellListed(WithCandidates(search[s]))
    BY <2>1, AskedIsWell, CandidatesAreListed
  <2>3. QED
    BY <2>1, <2>2, OneSearchMoves
<1>6. ASSUME NEW s \in Searches, search[s].phase = "fused",
             NEW found, NEW reranked, FinishSearch(s, found, reranked)
      PROVE  SearchInv'
  <2>1. search' = [search EXCEPT ![s] = WithAnswer(search[s], found, reranked)]
    BY <1>6 DEF FinishSearch
  <2>2. WellListed(WithAnswer(search[s], found, reranked))
    BY <1>6, AskedIsWell, AnswerIsListed
  <2>3. QED
    BY <2>1, <2>2, OneSearchMoves
<1>7. ASSUME NEW s \in Searches, KeepFusionOrder(s) PROVE SearchInv'
  BY <1>6, <1>7 DEF KeepFusionOrder
<1>8. ASSUME NEW s \in Searches, NEW score \in EncoderScores, Rerank(s, score) PROVE SearchInv'
  BY <1>6, <1>8 DEF Rerank
<1>9. QED
  BY <1>1, <1>2, <1>3, <1>4, <1>5, <1>7, <1>8 DEF SearchNext

\* The candidates of every search are the merged list as it is ranked, cut off:
\* what the sources that answered agree on keeps its order.
THEOREM UnanimousOrderIsKept == SearchSpec => []UnanimousOrderKept
<1>1. SearchInit => SearchInv
  BY DEF SearchInit, SearchInv
<1>2. SearchInv /\ [SearchNext]_searchVars => SearchInv'
  BY SearchStep
<1>3. SearchInv => UnanimousOrderKept
  <2> SUFFICES ASSUME SearchInv, NEW s \in Searches, search[s] # NotAsked,
                      search[s].phase \in {"fused", "answered"}
               PROVE  KeepsUnanimous(search[s])
    BY DEF UnanimousOrderKept, KeepsUnanimous
  <2>1. IsSearch(search[s]) /\ ListedAsRanked(search[s])
    BY DEF SearchInv, WellListed
  <2>2. QED
    BY <2>1, ListedKeepsUnanimous
<1>4. QED
  BY <1>1, <1>2, <1>3, PTL DEF SearchSpec

-----------------------------------------------------------------------------
(* Answers: what leaves without a flag is well grounded.                     *)

ScoredChunk == [chunk : Chunks, score : Int]

\* A sum of n addends.
LEMMA SumIsInt ==
  ASSUME NEW evidence \in Seq(ScoredChunk)
  PROVE  SumScores(evidence) \in Int
<1> DEFINE n == Len(evidence)
           sum[i \in 0..n] == IF i = 0 THEN 0 ELSE sum[i - 1] + evidence[i].score
           G == [p \in Int \X (1..n) |-> p[1] + evidence[p[2]].score]
<1>0. SumScores(evidence) = sum[n]
  BY DEF SumScores
<1>1. n \in Nat /\ \A i \in 1..n : evidence[i].score \in Int
  <2>1. n \in Nat /\ DOMAIN evidence = 1..n
    BY LenProperties
  <2>2. \A i \in 1..n : evidence[i] \in ScoredChunk
    BY <2>1, ElementOfSeq
  <2>3. QED
    BY <2>1, <2>2 DEF ScoredChunk
<1> HIDE DEF n
<1>2. G \in [Int \X (1..n) -> Int]
  BY <1>1
<1>3. PICK f : Recursion(Int, 0, n, G, f)
  <2>1. RecursionData(Int, 0, n, G)
    BY <1>1, <1>2 DEF RecursionData
  <2> HIDE DEF G, sum
  <2>2. QED
    BY <2>1, RecursionExists
<1>4. \A i \in 1..n : i - 1 \in 0..n /\ i \in 0..n /\ f[i - 1] \in Int
  BY <1>1, <1>3 DEF Recursion
<1>5. \A i \in 1..n : f[i] = f[i - 1] + evidence[i].score
  BY <1>3, <1>4 DEF Recursion
<1> HIDE DEF G
<1>6. f = [i \in 0..n |-> IF i = 0 THEN 0 ELSE f[i - 1] + evidence[i].score]
  <2>1. ASSUME NEW i \in 0..n
        PROVE  f[i] = IF i = 0 THEN 0 ELSE f[i - 1] + evidence[i].score
    <3>1. i = 0 \/ i \in 1..n
      BY <1>1
    <3>2. QED
      BY <1>3, <1>5, <3>1 DEF Recursion
  <2>2. QED
    BY <1>3, <2>1 DEF Recursion
<1>7. sum = [i \in 0..n |-> IF i = 0 THEN 0 ELSE sum[i - 1] + evidence[i].score]
  BY <1>6
<1> HIDE DEF sum
<1>8. sum[0] = 0 /\ \A i \in 1..n : sum[i] = sum[i - 1] + evidence[i].score
  <2>1. 0 \in 0..n /\ \A i \in 1..n : i \in 0..n /\ i # 0
    BY <1>1
  <2>2. QED
    BY <1>7, <2>1
<1> DEFINE P == {i \in 0..n : sum[i] \in Int}
<1>9. 0 \in P
  BY <1>1, <1>8
<1>10. ASSUME NEW i \in 1..n, i - 1 \in P PROVE i \in P
  BY <1>1, <1>8, <1>10
<1> HIDE DEF P
<1>11. n \in P
  <2>1. 0..n \subseteq P
    BY <1>1, <1>9, <1>10, UpToInduction
  <2>2. n \in 0..n
    BY <1>1
  <2>3. QED
    BY <2>1, <2>2
<1>12. QED
  BY <1>0, <1>11 DEF P

\* What is kept of the ids a model names is a sequence.
LEMMA SupportingIsSeq ==
  ASSUME NEW S, NEW named \in Seq(S), NEW evidence \in Seq(ScoredChunk)
  PROVE  Len(Supporting(named, evidence)) \in Nat
<1> DEFINE n == Len(named)
           ids == IdsOf(evidence)
           keeps[i \in 0..n] == IF i = 0 THEN <<>> ELSE IF named[i] \in ids THEN Append(keeps[i - 1], named[i]) ELSE keeps[i - 1]
           G == [p \in Seq(S) \X (1..n) |-> IF named[p[2]] \in ids THEN Append(p[1], named[p[2]]) ELSE p[1]]
<1>0. Supporting(named, evidence) =
        IF named = <<>> THEN [i \in 1..(IF Len(evidence) < 5 THEN Len(evidence) ELSE 5) |-> evidence[i].chunk]
        ELSE keeps[n]
  BY DEF Supporting
<1>1. n \in Nat /\ \A i \in 1..n : named[i] \in S
  BY LenProperties, ElementOfSeq
<1> HIDE DEF n, ids
<1>2. G \in [Seq(S) \X (1..n) -> Seq(S)]
  <2> SUFFICES ASSUME NEW l \in Seq(S), NEW i \in 1..n
               PROVE  (IF named[i] \in ids THEN Append(l, named[i]) ELSE l) \in Seq(S)
    OBVIOUS
  <2>1. QED
    BY <1>1, AppendProperties
<1>3. PICK f : Recursion(Seq(S), <<>>, n, G, f)
  <2>1. RecursionData(Seq(S), <<>>, n, G)
    BY <1>1, <1>2, EmptySeq DEF RecursionData
  <2> HIDE DEF G, keeps
  <2>2. QED
    BY <2>1, RecursionExists
<1>4. \A i \in 1..n : i - 1 \in 0..n /\ i \in 0..n /\ f[i - 1] \in Seq(S)
  BY <1>1, <1>3 DEF Recursion
<1>5. \A i \in 1..n : f[i] = IF named[i] \in ids THEN Append(f[i - 1], named[i]) ELSE f[i - 1]
  BY <1>3, <1>4 DEF Recursion
<1> HIDE DEF G
<1>6. f = [i \in 0..n |-> IF i = 0 THEN <<>> ELSE IF named[i] \in ids THEN Append(f[i - 1], named[i]) ELSE f[i - 1]]
  <2>1. ASSUME NEW i \in 0..n
        PROVE  f[i] = IF i = 0 THEN <<>> ELSE IF named[i] \in ids THEN Append(f[i - 1], named[i]) ELSE f[i - 1]
    <3>1. i = 0 \/ i \in 1..n
      BY <1>1
    <3>2. QED
      BY <1>3, <1>5, <3>1 DEF Recursion
  <2>2. QED
    BY <1>3, <2>1 DEF Recursion
<1>7. keeps = [i \in 0..n |-> IF i = 0 THEN <<>> ELSE IF named[i] \in ids THEN Append(keeps[i - 1], named[i]) ELSE keeps[i - 1]]
  BY <1>6
<1> HIDE DEF keeps
<1>8. keeps[0] = <<>> /\ \A i \in 1..n : keeps[i] = IF named[i] \in ids THEN Append(keeps[i - 1], named[i]) ELSE keeps[i - 1]
  <2>1. 0 \in 0..n /\ \A i \in 1..n : i \in 0..n /\ i # 0
    BY <1>1
  <2>2. QED
    BY <1>7, <2>1
<1> DEFINE P == {i \in 0..n : keeps[i] \in Seq(S)}
<1>9. 0 \in P
  <2>1. keeps[0] \in Seq(S)
    BY <1>8, EmptySeq
  <2>2. QED
    BY <1>1, <2>1
<1>10. ASSUME NEW i \in 1..n, i - 1 \in P PROVE i \in P
  <2>1. keeps[i - 1] \in Seq(S) /\ i \in 0..n
    BY <1>1, <1>10
  <2>2. keeps[i] \in Seq(S)
    <3> DEFINE l == keeps[i - 1]
    <3>1. keeps[i] = IF named[i] \in ids THEN Append(l, named[i]) ELSE l
      BY <1>8
    <3>2. l \in Seq(S) /\ named[i] \in S
      BY <1>1, <2>1
    <3> HIDE DEF l
    <3>3. Append(l, named[i]) \in Seq(S)
      BY <3>2, AppendProperties
    <3>4. QED
      BY <3>1, <3>2, <3>3
  <2>3. QED
    BY <2>1, <2>2
<1> HIDE DEF P
<1>11. n \in P
  <2>1. 0..n \subseteq P
    BY <1>1, <1>9, <1>10, UpToInduction
  <2>2. n \in 0..n
    BY <1>1
  <2>3. QED
    BY <2>1, <2>2
<1>12. keeps[n] \in Seq(S)
  BY <1>11 DEF P
<1>13. CASE named = <<>>
  <2> DEFINE k == IF Len(evidence) < 5 THEN Len(evidence) ELSE 5
  <2>1. k \in Nat /\ \A i \in 1..k : i \in 1..Len(evidence)
    BY LenProperties
  <2>2. \A i \in 1..k : evidence[i].chunk \in Chunks
    <3> HIDE DEF k
    <3>1. \A i \in 1..k : evidence[i] \in ScoredChunk
      BY <2>1, ElementOfSeq
    <3>2. QED
      BY <3>1 DEF ScoredChunk
  <2> HIDE DEF k
  <2>3. [i \in 1..k |-> evidence[i].chunk] \in [1..k -> Chunks]
    BY <2>2
  <2>4. [i \in 1..k |-> evidence[i].chunk] \in Seq(Chunks)
    BY <2>1, <2>3, SeqDef
  <2>5. QED
    BY <1>0, <1>13, <2>4, LenProperties DEF k
<1>14. CASE named # <<>>
  BY <1>0, <1>12, <1>14, LenProperties
<1>15. QED
  BY <1>13, <1>14

\* A weight keeps the order of two factors.
LEMMA Scaled ==
  ASSUME NEW w \in Nat, NEW x \in Int, NEW y \in Int, x <= y
  PROVE  w * x <= w * y /\ w * x \in Int /\ w * y \in Int
OBVIOUS

\* A quotient is below what its numerator is below.
LEMMA DivBelow ==
  ASSUME NEW a \in Int, NEW d \in Nat \ {0}, NEW h \in Int, a < h * d
  PROVE  a \div d < h
<1> DEFINE q == a \div d
<1>1. q \in Int /\ d * q <= a
  OBVIOUS
<1> HIDE DEF q
<1>2. SUFFICES ASSUME q >= h PROVE FALSE
  BY <1>1 DEF q
<1>3. d * h <= d * q
  BY <1>1, <1>2
<1>4. h * d = d * h
  OBVIOUS
<1>5. QED
  BY <1>1, <1>3, <1>4

\* A quotient is a number.
LEMMA DivIsInt ==
  ASSUME NEW a \in Int, NEW d \in Nat \ {0}
  PROVE  a \div d \in Int
OBVIOUS

\* The regulator of most chunks has between none and all of them.
LEMMA PrimaryBound ==
  ASSUME NEW evidence \in Seq(ScoredChunk), evidence # <<>>
  PROVE  Primary(evidence) \in 0..Len(evidence)
<1> DEFINE n == Len(evidence)
           shares == {Share(evidence, SourceOf[c]) : c \in IdsOf(evidence)}
<1>1. n \in Nat \ {0} /\ DOMAIN evidence = 1..n
  BY LenProperties, EmptySeq
<1>2. \A s : Share(evidence, s) \in 0..n
  <2> TAKE s
  <2> DEFINE from == {i \in DOMAIN evidence : SourceOf[evidence[i].chunk] = s}
  <2>1. IsFiniteSet(1..n) /\ Cardinality(1..n) = n
    BY <1>1, FS_Interval
  <2>2. from \in SUBSET (1..n)
    BY <1>1
  <2> HIDE DEF from, n
  <2>3. Cardinality(from) \in Nat /\ Cardinality(from) <= n
    BY <2>1, <2>2, FS_Subset, FS_CardinalityType
  <2>4. QED
    BY <1>1, <2>3 DEF Share, from
<1>3. IdsOf(evidence) # {}
  <2>1. 1 \in DOMAIN evidence
    BY <1>1
  <2>2. evidence[1].chunk \in IdsOf(evidence)
    BY <2>1 DEF IdsOf
  <2>3. QED
    BY <2>2
<1> HIDE DEF n
<1>4. shares \in SUBSET (0..n) /\ shares # {}
  BY <1>2, <1>3
<1> HIDE DEF shares
<1>5. \E m \in shares : \A k \in shares : k <= m
  BY <1>1, <1>4, GreatestExists
<1>6. (CHOOSE m \in shares : \A k \in shares : k <= m) \in shares
  BY <1>5
<1>7. Primary(evidence) \in shares
  BY <1>6 DEF Primary, shares
<1>8. QED
  BY <1>4, <1>7 DEF n

HasAnswer(answer) == answer.fields \in {0, 1, 2} /\ Len(answer.support) \in Nat

\* The ranges of the factors, in their unit; n is the number of chunks, c their
\* scores.
FactorsBounded(answer, evidence, n, c) ==
  /\ n \in Nat \ {0} /\ c \in 0..2 * n
  /\ Relevance(evidence) = 10 * c
  /\ Agreement(evidence) \in 0..20 * n
  /\ Coverage(evidence) \in Int /\ Coverage(evidence) <= 10 * n + 5 * c
  /\ CitationShare(answer, evidence) \in 0..20 * n

\* Each factor of the confidence keeps to its range, the coverage to one that
\* grows with the scores (factors.py).
LEMMA FactorBounds ==
  ASSUME NEW evidence \in Seq(ScoredChunk), evidence # <<>>, NEW answer, HasAnswer(answer), answer.fields # 0
  PROVE  FactorsBounded(answer, evidence, Len(evidence), Clamped(SumScores(evidence), Len(evidence)))
<1> DEFINE n == Len(evidence)
           c == Clamped(SumScores(evidence), n)
<1>1. n \in Nat \ {0}
  BY LenProperties, EmptySeq
<1>2. c \in 0..2 * n
  BY <1>1, SumIsInt DEF Clamped
<1>3. Agreement(evidence) \in 0..20 * n
  <2>1. Primary(evidence) \in 0..n
    BY PrimaryBound
  <2>2. QED
    BY <1>1, <2>1 DEF Agreement
<1>4. Coverage(evidence) \in Int /\ Coverage(evidence) <= 10 * n + 5 * c
  <2> DEFINE l == Least(n, 5)
  <2>1. l \in 0..5
    <3> HIDE DEF n
    <3>1. CASE n < 5
      BY <1>1, <3>1 DEF Least
    <3>2. CASE ~(n < 5)
      BY <1>1, <3>2 DEF Least
    <3>3. QED
      BY <3>1, <3>2
  <2>2. Coverage(evidence) = l * (2 * n + c)
    BY DEF Coverage
  <2> HIDE DEF l, c, n
  <2>3. l * (2 * n + c) <= 5 * (2 * n + c) /\ l * (2 * n + c) \in Int
    BY <1>1, <1>2, <2>1
  <2>4. QED
    BY <1>1, <1>2, <2>2, <2>3
<1>5. CitationShare(answer, evidence) \in 0..20 * n
  <2> DEFINE k == Len(answer.support)
             f == answer.fields
  <2>1. k \in Nat /\ f \in {1, 2}
    BY DEF HasAnswer
  <2>2. CitationShare(answer, evidence) = (20 * n * Least(k, f)) \div f
    BY DEF CitationShare
  <2> HIDE DEF k, f, n
  <2>3. CASE f = 1
    <3>1. Least(k, f) \in {0, 1}
      BY <2>1, <2>3 DEF Least
    <3>2. QED
      BY <1>1, <2>2, <2>3, <3>1
  <2>4. CASE f = 2
    <3>1. Least(k, f) \in {0, 1, 2}
      BY <2>1, <2>4 DEF Least
    <3>2. QED
      BY <1>1, <2>2, <2>4, <3>1
  <2>5. QED
    BY <2>1, <2>3, <2>4 DEF n
<1>6. Relevance(evidence) = 10 * c
  BY DEF Relevance
<1>7. QED
  BY <1>1, <1>2, <1>3, <1>4, <1>5, <1>6 DEF FactorsBounded

\* The weighted sum of the factors.
WeightedSum(answer, evidence, reranked) ==
  Weights["relevance"] * Relevance(evidence)
  + (IF reranked THEN Weights["rerank"] * Relevance(evidence) ELSE 0)
  + Weights["agreement"] * Agreement(evidence)
  + Weights["coverage"] * Coverage(evidence)
  + Weights["citation"] * CitationShare(answer, evidence)

\* The confidence is a number.
LEMMA ConfidenceIsInt ==
  ASSUME NEW evidence \in Seq(ScoredChunk), NEW answer, HasAnswer(answer), NEW reranked
  PROVE  Confidence(answer, evidence, reranked) \in Int
<1> DEFINE total == IF reranked THEN 100 ELSE 100 - Weights["rerank"]
           sum == WeightedSum(answer, evidence, reranked)
           n == Len(evidence)
<1>1. \A f \in Factors : Weights[f] \in Nat
  BY AnswersAssumption
<1>2. Weights["relevance"] \in Nat /\ Weights["rerank"] \in Nat /\ Weights["agreement"] \in Nat
      /\ Weights["coverage"] \in Nat /\ Weights["citation"] \in Nat
  BY <1>1 DEF Factors
<1>3. total \in Nat
  BY <1>2, AnswersAssumption
<1>4. CASE evidence = <<>> \/ answer.fields = 0 \/ total = 0
  BY <1>4 DEF Confidence
<1>5. CASE ~(evidence = <<>> \/ answer.fields = 0 \/ total = 0)
  <2>1. Confidence(answer, evidence, reranked) = (100 * sum) \div (total * 20 * n)
    BY <1>5 DEF Confidence, WeightedSum
  <2>2. FactorsBounded(answer, evidence, n, Clamped(SumScores(evidence), n))
    BY <1>5, FactorBounds
  <2>3. n \in Nat \ {0} /\ Relevance(evidence) \in Int /\ Agreement(evidence) \in Int /\ Coverage(evidence) \in Int
        /\ CitationShare(answer, evidence) \in Int
    BY <2>2 DEF FactorsBounded
  <2> HIDE DEF n
  <2>4. sum \in Int
    <3> DEFINE x == IF reranked THEN Weights["rerank"] * Relevance(evidence) ELSE 0
    <3>1. Weights["rerank"] * Relevance(evidence) \in Int /\ Weights["relevance"] * Relevance(evidence) \in Int
          /\ Weights["agreement"] * Agreement(evidence) \in Int /\ Weights["coverage"] * Coverage(evidence) \in Int
          /\ Weights["citation"] * CitationShare(answer, evidence) \in Int
      <4> DEFINE wr == Weights["relevance"]
                 wk == Weights["rerank"]
                 wa == Weights["agreement"]
                 wv == Weights["coverage"]
                 wc == Weights["citation"]
                 rel == Relevance(evidence)
                 agr == Agreement(evidence)
                 cov == Coverage(evidence)
                 cit == CitationShare(answer, evidence)
      <4>1. wr \in Int /\ wk \in Int /\ wa \in Int /\ wv \in Int /\ wc \in Int
            /\ rel \in Int /\ agr \in Int /\ cov \in Int /\ cit \in Int
        BY <1>2, <2>3
      <4> HIDE DEF wr, wk, wa, wv, wc, rel, agr, cov, cit
      <4>2. wk * rel \in Int /\ wr * rel \in Int /\ wa * agr \in Int /\ wv * cov \in Int /\ wc * cit \in Int
        BY <4>1
      <4>3. QED
        BY <4>2 DEF wr, wk, wa, wv, wc, rel, agr, cov, cit
    <3>2. x \in Int
      BY <3>1
    <3>3. sum = Weights["relevance"] * Relevance(evidence) + x + Weights["agreement"] * Agreement(evidence)
                + Weights["coverage"] * Coverage(evidence) + Weights["citation"] * CitationShare(answer, evidence)
      BY DEF WeightedSum
    <3> HIDE DEF x, sum
    <3>4. QED
      BY <3>1, <3>2, <3>3
  <2> HIDE DEF sum
  <2>5. total \in Nat \ {0}
    BY <1>3, <1>5
  <2> HIDE DEF total
  <2>6. total * 20 * n \in Nat \ {0} /\ 100 * sum \in Int
    BY <2>3, <2>4, <2>5
  <2>7. QED
    BY <2>1, <2>6, DivIsInt
<1>6. QED
  BY <1>4, <1>5

\* Chunks that are relevant by one half or less do not reach the threshold.
LEMMA HalfIsNotEnough ==
  ASSUME NEW evidence \in Seq(ScoredChunk), NEW answer, HasAnswer(answer), NEW reranked, reranked,
         SumScores(evidence) <= Len(evidence)
  PROVE  Confidence(answer, evidence, reranked) < High
<1> DEFINE sum == WeightedSum(answer, evidence, reranked)
           n == Len(evidence)
           c == Clamped(SumScores(evidence), n)
           wr == Weights["relevance"]
           wk == Weights["rerank"]
           wa == Weights["agreement"]
           wv == Weights["coverage"]
           wc == Weights["citation"]
           K == 10 * wr + 10 * wk + 20 * wa + 15 * wv + 20 * wc
<1>1. \A f \in Factors : Weights[f] \in Nat
  BY AnswersAssumption
<1>2. wr \in Nat /\ wk \in Nat /\ wa \in Nat /\ wv \in Nat /\ wc \in Nat
  BY <1>1 DEF Factors
<1>3. High \in Nat /\ 0 < High /\ K < 20 * High
  <2>1. High \in 0..100 /\ Low \in 0..100 /\ Abstention \in 0..100 /\ Abstention <= Low /\ Low <= High
    BY AnswersAssumption
  <2>2. 0 < Abstention /\ 2 * (wr + wk) + 4 * wa + 3 * wv + 4 * wc < 4 * High
    BY RoutingAssumption
  <2> HIDE DEF wr, wk, wa, wv, wc
  <2>3. QED
    BY <1>2, <2>1, <2>2
<1>4. CASE evidence = <<>> \/ answer.fields = 0
  BY <1>3, <1>4 DEF Confidence
<1>5. CASE ~(evidence = <<>> \/ answer.fields = 0)
  <2>1. Confidence(answer, evidence, reranked) = (100 * sum) \div (100 * 20 * n)
    BY <1>5 DEF Confidence, WeightedSum
  <2>2. FactorsBounded(answer, evidence, n, c)
    BY <1>5, FactorBounds
  <2>3. c <= n
    BY <2>2, SumIsInt DEF Clamped, FactorsBounded
  <2> DEFINE rel == Relevance(evidence)
             agr == Agreement(evidence)
             cov == Coverage(evidence)
             cit == CitationShare(answer, evidence)
  <2>4. sum = wr * rel + wk * rel + wa * agr + wv * cov + wc * cit
    BY DEF WeightedSum
  <2>5. n \in Nat \ {0} /\ c \in Int /\ rel \in Int /\ agr \in Int /\ cov \in Int /\ cit \in Int
        /\ rel <= 10 * n /\ agr <= 20 * n /\ cov <= 15 * n /\ cit <= 20 * n
    <3> HIDE DEF n, c
    <3>1. QED
      BY <2>2, <2>3 DEF FactorsBounded
  <2> HIDE DEF n, c, wr, wk, wa, wv, wc, rel, agr, cov, cit, sum
  <2>6. /\ wr * rel <= wr * (10 * n) /\ wk * rel <= wk * (10 * n)
        /\ wr * rel \in Int /\ wk * rel \in Int
    BY <1>2, <2>5, Scaled
  <2>7. /\ wa * agr <= wa * (20 * n) /\ wv * cov <= wv * (15 * n) /\ wc * cit <= wc * (20 * n)
        /\ wa * agr \in Int /\ wv * cov \in Int /\ wc * cit \in Int
    BY <1>2, <2>5, Scaled
  <2>8. K * n = wr * (10 * n) + wk * (10 * n) + wa * (20 * n) + wv * (15 * n) + wc * (20 * n)
    BY <1>2, <2>5
  <2>9. sum \in Int /\ sum <= K * n
    <3> DEFINE x1 == wr * (10 * n)
               x2 == wk * (10 * n)
               x3 == wa * (20 * n)
               x4 == wv * (15 * n)
               x5 == wc * (20 * n)
    <3>1. x1 \in Int /\ x2 \in Int /\ x3 \in Int /\ x4 \in Int /\ x5 \in Int
      BY <1>2, <2>5
    <3>2. K * n = x1 + x2 + x3 + x4 + x5
      BY <2>8
    <3> HIDE DEF x1, x2, x3, x4, x5, K
    <3>3. wr * rel <= x1 /\ wk * rel <= x2 /\ wa * agr <= x3 /\ wv * cov <= x4 /\ wc * cit <= x5
      BY <2>6, <2>7 DEF x1, x2, x3, x4, x5
    <3> DEFINE y1 == wr * rel
               y2 == wk * rel
               y3 == wa * agr
               y4 == wv * cov
               y5 == wc * cit
               top == K * n
    <3>4. y1 \in Int /\ y2 \in Int /\ y3 \in Int /\ y4 \in Int /\ y5 \in Int
      BY <2>6, <2>7
    <3>5. sum = y1 + y2 + y3 + y4 + y5 /\ top = x1 + x2 + x3 + x4 + x5
      BY <2>4, <3>2
    <3>6. y1 <= x1 /\ y2 <= x2 /\ y3 <= x3 /\ y4 <= x4 /\ y5 <= x5
      BY <3>3
    <3> HIDE DEF y1, y2, y3, y4, y5, top
    <3>7. sum \in Int /\ sum <= top
      BY <3>1, <3>4, <3>5, <3>6
    <3>8. QED
      BY <3>7 DEF top
  <2>10. K \in Int /\ K * n < (20 * High) * n
    <3>1. K \in Int
      BY <1>2
    <3> HIDE DEF K
    <3>2. QED
      BY <1>3, <2>5, <3>1
  <2>11. 100 * sum < High * (100 * 20 * n)
    <3> HIDE DEF K
    <3>1. K * n \in Int /\ (20 * High) * n \in Int
      BY <1>3, <2>5, <2>10
    <3>2. High * (100 * 20 * n) = 100 * ((20 * High) * n)
      BY <1>3, <2>5
    <3>3. QED
      BY <2>9, <2>10, <3>1, <3>2
  <2>12. 100 * 20 * n \in Nat \ {0} /\ 100 * sum \in Int
    BY <2>5, <2>9
  <2>13. High \in Int
    BY <1>3
  <2>14. QED
    <3> DEFINE num == 100 * sum
               d == 100 * 20 * n
    <3>1. num \in Int /\ d \in Nat \ {0} /\ num < High * d
      BY <2>11, <2>12
    <3>2. Confidence(answer, evidence, reranked) = num \div d
      BY <2>1
    <3> HIDE DEF num, d
    <3>3. QED
      BY <2>13, <3>1, <3>2, DivBelow
<1>6. QED
  BY <1>4, <1>5

-----------------------------------------------------------------------------
Early == {"retrieve", "generate", "cite", "score"}
Routed == {"enrich", "audit", "answered"}
ContextFields == {"stage", "provider", "sim", "evidence", "reranked", "answer", "citations", "confidence",
                  "unsupported", "checked", "abstained", "review", "task", "recorded", "errors"}

\* What a context is.
ContextTyped(a) ==
  /\ DOMAIN a = ContextFields /\ a.stage \in PipelineStages
  /\ a.evidence \in Seq(ScoredChunk) /\ HasAnswer(a.answer) /\ a.confidence \in Int

\* Abstaining is decided where the evidence is missing; a score is there once
\* scoring did not fail; a flag is missing only by a high score.
ContextSound(a) ==
  /\ a.stage = "retrieve" => a.evidence = <<>> /\ ~a.abstained
  /\ a.stage # "retrieve" => (a.abstained <=> a.evidence = <<>>)
  /\ a.abstained => a.stage \in {"audit", "answered"}
  /\ a.stage \in Early => a.confidence = 0 /\ "score" \notin a.errors
  /\ "score" \in a.errors => a.confidence = 0
  /\ a.reranked /\ a.confidence >= High => SumScores(a.evidence) > Len(a.evidence)
  /\ a.stage \in Routed /\ ~a.abstained /\ ~a.review => a.confidence >= High
  /\ a.stage \notin Routed => ~a.task
  /\ a.stage # "answered" => ~a.recorded

QueryOK(q, a, ts, records) ==
  \/ a.stage \in {"none", "direct"} /\ q \notin ts
  \/ /\ ContextTyped(a) /\ ContextSound(a)
     /\ q \in ts => a.stage \in Routed /\ a.review /\ a.confidence < Low
     /\ a.recorded => [query |-> q, warning |-> a.review] \in records

\* The inductive invariant.
AnswersInv ==
  /\ DOMAIN answers = AnswerQueries
  /\ \A q \in AnswerQueries : QueryOK(q, answers[q], tasks, audited)

\* A step of one query, that may give it a review decision and an audit
\* record.
LEMMA OneMoves ==
  ASSUME AnswersInv, NEW q \in AnswerQueries, NEW b, answers' = [answers EXCEPT ![q] = b],
         tasks \subseteq tasks', tasks' \subseteq tasks \cup {q}, audited \subseteq audited',
         QueryOK(q, b, tasks', audited')
  PROVE  AnswersInv'
<1>1. DOMAIN answers' = AnswerQueries
  BY DEF AnswersInv
<1>2. ASSUME NEW p \in AnswerQueries PROVE QueryOK(p, answers'[p], tasks', audited')
  <2>1. CASE p = q
    <3>1. answers'[p] = b
      BY <2>1 DEF AnswersInv
    <3>2. QED
      BY <2>1, <3>1
  <2>2. CASE p # q
    <3>1. answers'[p] = answers[p] /\ (p \in tasks' <=> p \in tasks)
      BY <2>2 DEF AnswersInv
    <3>2. QueryOK(p, answers[p], tasks, audited)
      BY DEF AnswersInv
    <3>3. QueryOK(p, answers[p], tasks', audited')
      BY <3>1, <3>2 DEF QueryOK
    <3>4. QED
      BY <3>1, <3>3
  <2>3. QED
    BY <2>1, <2>2
<1>3. QED
  BY <1>1, <1>2 DEF AnswersInv

\* At a stage of the pipeline the context is sound.
LEMMA AtStage ==
  ASSUME AnswersInv, NEW q \in AnswerQueries, NEW s \in PipelineStages, At(q, s)
  PROVE  /\ ContextTyped(answers[q]) /\ ContextSound(answers[q]) /\ answers[q].stage = s
         /\ s \notin Routed => q \notin tasks
         /\ q \in tasks => answers[q].review /\ answers[q].confidence < Low
         /\ answers[q].recorded => [query |-> q, warning |-> answers[q].review] \in audited
<1>1. QueryOK(q, answers[q], tasks, audited) /\ answers[q].stage = s /\ s \notin {"none", "direct"}
  BY DEF AnswersInv, At, PipelineStages
<1>2. QED
  BY <1>1 DEF QueryOK

\* A step that leaves tasks and log alone only needs a sound context.
LEMMA ContextMoves ==
  ASSUME AnswersInv, NEW q \in AnswerQueries, NEW s \in PipelineStages, At(q, s), NEW ctx, NEW next \in PipelineStages,
         Goes(q, ctx, next), UNCHANGED <<tasks, audited>>,
         ContextTyped([ctx EXCEPT !.stage = next]), ContextSound([ctx EXCEPT !.stage = next]),
         s \in Routed => /\ next \in Routed /\ ctx.review = answers[q].review
                         /\ ctx.confidence = answers[q].confidence,
         DOMAIN ctx = ContextFields, ctx.recorded = answers[q].recorded, s # "answered"
  PROVE  AnswersInv'
<1> DEFINE b == [ctx EXCEPT !.stage = next]
<1>1. b.stage = next /\ b.review = ctx.review /\ b.confidence = ctx.confidence /\ b.recorded = ctx.recorded
  BY DEF ContextFields
<1>2. answers' = [answers EXCEPT ![q] = b] /\ tasks' = tasks /\ audited' = audited
  BY DEF Goes
<1>3. ~answers[q].recorded /\ (q \in tasks => s \in Routed /\ answers[q].review /\ answers[q].confidence < Low)
  <2>1. /\ ContextSound(answers[q]) /\ answers[q].stage = s
        /\ s \notin Routed => q \notin tasks
        /\ q \in tasks => answers[q].review /\ answers[q].confidence < Low
    BY AtStage
  <2>2. ~answers[q].recorded
    BY <2>1 DEF ContextSound
  <2>3. QED
    BY <2>1, <2>2
<1> HIDE DEF b
<1>4. QueryOK(q, b, tasks, audited)
  <2>1. ContextTyped(b) /\ ContextSound(b)
    BY DEF b
  <2>2. q \in tasks => b.stage \in Routed /\ b.review /\ b.confidence < Low
    BY <1>1, <1>3
  <2>3. ~b.recorded
    BY <1>1, <1>3
  <2>4. QED
    BY <2>1, <2>2, <2>3 DEF QueryOK
<1>5. QED
  BY <1>2, <1>4, OneMoves

\* Before the first query.
LEMMA AnswersInvInit == AnswersInit => AnswersInv
<1> SUFFICES ASSUME AnswersInit PROVE AnswersInv
  OBVIOUS
<1>1. \A q \in AnswerQueries : answers[q].stage = "none" /\ q \notin tasks
  BY DEF AnswersInit, NoQuery
<1>2. DOMAIN answers = AnswerQueries
  BY DEF AnswersInit
<1>3. QED
  BY <1>1, <1>2 DEF AnswersInv, QueryOK

\* A query starts with an empty context.
LEMMA StartKeeps ==
  ASSUME AnswersInv, NEW q \in AnswerQueries, NEW p, NEW sim, AnswerBegins(q, p, sim)
  PROVE  AnswersInv'
<1> DEFINE b == [stage |-> "retrieve", provider |-> p, sim |-> sim, evidence |-> <<>>, reranked |-> FALSE,
                 answer |-> Unanswered, citations |-> {}, confidence |-> 0, unsupported |-> {},
                 checked |-> FALSE, abstained |-> FALSE, review |-> FALSE, task |-> FALSE,
                 recorded |-> FALSE, errors |-> {}]
<1>1. answers' = [answers EXCEPT ![q] = b] /\ tasks' = tasks /\ audited' = audited /\ answers[q] = NoQuery
  BY DEF AnswerBegins
<1>2. q \notin tasks
  <2>1. QueryOK(q, answers[q], tasks, audited) /\ answers[q].stage = "none"
    BY <1>1 DEF AnswersInv, NoQuery
  <2>2. QED
    BY <2>1 DEF QueryOK, ContextTyped, PipelineStages
<1>3. ContextTyped(b)
  <2>1. DOMAIN b = ContextFields
    BY DEF ContextFields
  <2>2. b.stage = "retrieve" /\ b.evidence = <<>> /\ b.answer = Unanswered /\ b.confidence = 0
    OBVIOUS
  <2> HIDE DEF b
  <2>3. HasAnswer(Unanswered)
    BY EmptySeq DEF HasAnswer, Unanswered
  <2>4. QED
    BY <2>1, <2>2, <2>3, EmptySeq DEF ContextTyped, PipelineStages
<1>4. ContextSound(b)
  <2>1. b.stage = "retrieve" /\ b.evidence = <<>> /\ b.confidence = 0 /\ b.errors = {}
    OBVIOUS
  <2>2. ~b.abstained /\ ~b.task /\ ~b.recorded /\ ~b.reranked
    OBVIOUS
  <2> HIDE DEF b
  <2>3. QED
    BY <2>1, <2>2 DEF ContextSound, Routed, Early
<1>5. ~b.recorded
  OBVIOUS
<1> HIDE DEF b
<1>6. QueryOK(q, b, tasks, audited)
  BY <1>2, <1>3, <1>4, <1>5 DEF QueryOK
<1>7. QED
  BY <1>1, <1>6, OneMoves

\* A stage that fails leaves its error and nothing else.
LEMMA FailsKeeps ==
  ASSUME AnswersInv, NEW q \in AnswerQueries, NEW s, NEW next,
         <<s, next>> \in {<<"cite", "score">>, <<"score", "verify">>, <<"verify", "route">>,
                          <<"enrich", "audit">>, <<"audit", "answered">>},
         Fails(q, s, next)
  PROVE  AnswersInv'
<1> DEFINE a == answers[q]
           ctx == [a EXCEPT !.errors = @ \cup {s}]
           b == [ctx EXCEPT !.stage = next]
<1>1. At(q, s) /\ Goes(q, ctx, next) /\ UNCHANGED <<tasks, audited>> /\ s \in PipelineStages /\ next \in PipelineStages
  BY DEF Fails, PipelineStages
<1>2. ContextTyped(a) /\ ContextSound(a) /\ a.stage = s
  BY <1>1, AtStage
<1> HIDE DEF a
<1>3. DOMAIN a = ContextFields
  BY <1>2 DEF ContextTyped
<1>4. /\ DOMAIN b = ContextFields /\ b.stage = next /\ b.evidence = a.evidence /\ b.answer = a.answer
      /\ b.confidence = a.confidence /\ b.abstained = a.abstained /\ b.errors = a.errors \cup {s}
      /\ b.reranked = a.reranked /\ b.review = a.review /\ b.task = a.task /\ b.recorded = a.recorded
  BY <1>3 DEF ContextFields
<1>5. DOMAIN ctx = ContextFields /\ ctx.review = a.review /\ ctx.confidence = a.confidence /\ ctx.recorded = a.recorded
  BY <1>3 DEF ContextFields
<1> HIDE DEF b
<1>6. ContextTyped(b)
  BY <1>1, <1>2, <1>4 DEF ContextTyped
<1>7. ContextSound(b)
  BY <1>2, <1>4 DEF ContextSound, Early, Routed
<1>8. (s \in Routed => next \in Routed) /\ s # "answered"
  BY DEF Routed
<1>9. QED
  <2> HIDE DEF ctx
  <2>1. ContextTyped([ctx EXCEPT !.stage = next]) /\ ContextSound([ctx EXCEPT !.stage = next])
    BY <1>6, <1>7 DEF b
  <2>2. QED
    BY <1>1, <1>5, <1>8, <2>1, ContextMoves DEF a

\* The threshold is above a confidence that was never set.
LEMMA HighIsPositive == High \in Int /\ High > 0 /\ Low \in Int /\ Low <= High /\ 0 < Abstention /\ Abstention <= Low
<1>1. High \in 0..100 /\ Low \in 0..100 /\ Abstention \in 0..100 /\ Abstention <= Low /\ Low <= High
  BY AnswersAssumption
<1>2. 0 < Abstention
  BY RoutingAssumption
<1>3. QED
  BY <1>1, <1>2

\* Retrieval, and abstaining at once where it finds nothing.
LEMMA RetrieveKeeps ==
  ASSUME AnswersInv, NEW q \in AnswerQueries, NEW retrieval \in Retrievals, NEW reranked \in BOOLEAN,
         Retrieve(q, retrieval, reranked)
  PROVE  AnswersInv'
<1> DEFINE a == answers[q]
<1>1. /\ At(q, "retrieve") /\ UNCHANGED <<tasks, audited>>
      /\ Goes(q, IF retrieval = <<>> /\ 0 < Abstention
                 THEN [a EXCEPT !.abstained = TRUE, !.answer = Abstained]
                 ELSE [a EXCEPT !.evidence = retrieval, !.reranked = reranked],
              IF retrieval = <<>> /\ 0 < Abstention THEN "audit" ELSE "generate")
  BY DEF Retrieve
<1>2. ContextTyped(a) /\ ContextSound(a) /\ a.stage = "retrieve"
  BY <1>1, AtStage DEF PipelineStages
<1>3. retrieval \in Seq(ScoredChunk)
  BY AnswersAssumption DEF ScoredChunk
<1> HIDE DEF a
<1>4. DOMAIN a = ContextFields /\ a.confidence = 0 /\ a.evidence = <<>> /\ ~a.abstained /\ "score" \notin a.errors
      /\ ~a.task /\ ~a.recorded
  BY <1>2 DEF ContextTyped, ContextSound, Early, Routed
<1>5. CASE retrieval = <<>>
  <2> DEFINE ctx == [a EXCEPT !.abstained = TRUE, !.answer = Abstained]
             b == [ctx EXCEPT !.stage = "audit"]
  <2>1. Goes(q, ctx, "audit")
    BY <1>1, <1>5, HighIsPositive
  <2>2. /\ DOMAIN b = ContextFields /\ b.stage = "audit" /\ b.evidence = a.evidence /\ b.answer = Abstained
        /\ b.confidence = a.confidence /\ b.abstained /\ b.errors = a.errors
        /\ b.reranked = a.reranked /\ b.review = a.review /\ b.task = a.task /\ b.recorded = a.recorded
    BY <1>4 DEF ContextFields
  <2>3. DOMAIN ctx = ContextFields /\ ctx.recorded = a.recorded
    BY <1>4 DEF ContextFields
  <2> HIDE DEF b
  <2>4. ContextTyped(b)
    <3>1. HasAnswer(Abstained)
      BY EmptySeq DEF HasAnswer, Abstained
    <3>2. QED
      BY <1>2, <2>2, <3>1 DEF ContextTyped, PipelineStages
  <2>5. ContextSound(b)
    BY <1>4, <2>2, HighIsPositive DEF ContextSound, Early, Routed
  <2>6. ContextTyped([ctx EXCEPT !.stage = "audit"]) /\ ContextSound([ctx EXCEPT !.stage = "audit"])
    BY <2>4, <2>5 DEF b
  <2>7. "retrieve" \in PipelineStages /\ "audit" \in PipelineStages /\ "retrieve" \notin Routed
    BY DEF PipelineStages, Routed
  <2> HIDE DEF ctx
  <2>8. QED
    BY <1>1, <2>1, <2>3, <2>6, <2>7, ContextMoves DEF a
<1>6. CASE retrieval # <<>>
  <2> DEFINE ctx == [a EXCEPT !.evidence = retrieval, !.reranked = reranked]
             b == [ctx EXCEPT !.stage = "generate"]
  <2>1. Goes(q, ctx, "generate")
    BY <1>1, <1>6
  <2>2. /\ DOMAIN b = ContextFields /\ b.stage = "generate" /\ b.evidence = retrieval /\ b.answer = a.answer
        /\ b.confidence = a.confidence /\ b.abstained = a.abstained /\ b.errors = a.errors
        /\ b.task = a.task /\ b.recorded = a.recorded
    BY <1>4 DEF ContextFields
  <2>3. DOMAIN ctx = ContextFields /\ ctx.recorded = a.recorded
    BY <1>4 DEF ContextFields
  <2> HIDE DEF b
  <2>4. ContextTyped(b)
    BY <1>2, <1>3, <2>2 DEF ContextTyped, PipelineStages
  <2>5. ContextSound(b)
    BY <1>4, <1>6, <2>2, HighIsPositive DEF ContextSound, Early, Routed
  <2>6. ContextTyped([ctx EXCEPT !.stage = "generate"]) /\ ContextSound([ctx EXCEPT !.stage = "generate"])
    BY <2>4, <2>5 DEF b
  <2>7. "retrieve" \in PipelineStages /\ "generate" \in PipelineStages /\ "retrieve" \notin Routed
    BY DEF PipelineStages, Routed
  <2> HIDE DEF ctx
  <2>8. QED
    BY <1>1, <2>1, <2>3, <2>6, <2>7, ContextMoves DEF a
<1>7. QED
  BY <1>5, <1>6

\* Retrieval that fails is retrieval that finds nothing.
LEMMA RetrievalFailsKeeps ==
  ASSUME AnswersInv, NEW q \in AnswerQueries, RetrievalFails(q)
  PROVE  AnswersInv'
<1> DEFINE a == answers[q]
           ctx == [a EXCEPT !.errors = @ \cup {"retrieve"}, !.abstained = TRUE, !.answer = Abstained]
           b == [ctx EXCEPT !.stage = "audit"]
<1>1. At(q, "retrieve") /\ Goes(q, ctx, "audit") /\ UNCHANGED <<tasks, audited>>
  BY HighIsPositive DEF RetrievalFails
<1>2. ContextTyped(a) /\ ContextSound(a) /\ a.stage = "retrieve"
  BY <1>1, AtStage DEF PipelineStages
<1> HIDE DEF a
<1>3. DOMAIN a = ContextFields /\ a.confidence = 0 /\ a.evidence = <<>> /\ "score" \notin a.errors
      /\ ~a.task /\ ~a.recorded
  BY <1>2 DEF ContextTyped, ContextSound, Early, Routed
<1>4. /\ DOMAIN b = ContextFields /\ b.stage = "audit" /\ b.evidence = a.evidence /\ b.answer = Abstained
      /\ b.confidence = a.confidence /\ b.abstained /\ b.errors = a.errors \cup {"retrieve"}
      /\ b.task = a.task /\ b.recorded = a.recorded
  BY <1>3 DEF ContextFields
<1>5. DOMAIN ctx = ContextFields /\ ctx.recorded = a.recorded
  BY <1>3 DEF ContextFields
<1> HIDE DEF b
<1>6. ContextTyped(b)
  <2>1. HasAnswer(Abstained)
    BY EmptySeq DEF HasAnswer, Abstained
  <2>2. QED
    BY <1>2, <1>4, <2>1 DEF ContextTyped, PipelineStages
<1>7. ContextSound(b)
  BY <1>3, <1>4, HighIsPositive DEF ContextSound, Early, Routed
<1>8. ContextTyped([ctx EXCEPT !.stage = "audit"]) /\ ContextSound([ctx EXCEPT !.stage = "audit"])
  BY <1>6, <1>7 DEF b
<1>9. "retrieve" \in PipelineStages /\ "audit" \in PipelineStages /\ "retrieve" \notin Routed
  BY DEF PipelineStages, Routed
<1> HIDE DEF ctx
<1>10. QED
  BY <1>1, <1>5, <1>8, <1>9, ContextMoves DEF a

\* An answer, generated or quoted, goes to the citations.
LEMMA AnswerComes ==
  ASSUME AnswersInv, NEW q \in AnswerQueries, At(q, "generate"), UNCHANGED <<tasks, audited>>,
         NEW errors, errors \in {answers[q].errors, answers[q].errors \cup {"generate"}},
         NEW answer, HasAnswer(answer),
         Goes(q, [answers[q] EXCEPT !.errors = errors, !.answer = answer], "cite")
  PROVE  AnswersInv'
<1> DEFINE a == answers[q]
           ctx == [a EXCEPT !.errors = errors, !.answer = answer]
           b == [ctx EXCEPT !.stage = "cite"]
<1>2. ContextTyped(a) /\ ContextSound(a) /\ a.stage = "generate"
  BY AtStage DEF PipelineStages
<1>3. errors \in {a.errors, a.errors \cup {"generate"}}
  OBVIOUS
<1> HIDE DEF a
<1>4. DOMAIN a = ContextFields
  BY <1>2 DEF ContextTyped
<1>5. /\ DOMAIN b = ContextFields /\ b.stage = "cite" /\ b.evidence = a.evidence /\ b.answer = answer
      /\ b.confidence = a.confidence /\ b.abstained = a.abstained /\ b.errors = errors
      /\ b.reranked = a.reranked /\ b.review = a.review /\ b.task = a.task /\ b.recorded = a.recorded
  BY <1>4 DEF ContextFields
<1>6. DOMAIN ctx = ContextFields /\ ctx.recorded = a.recorded
  BY <1>4 DEF ContextFields
<1> HIDE DEF b
<1>7. ContextTyped(b)
  BY <1>2, <1>5 DEF ContextTyped, PipelineStages
<1>8. ContextSound(b)
  BY <1>2, <1>3, <1>5 DEF ContextSound, Early, Routed
<1>9. ContextTyped([ctx EXCEPT !.stage = "cite"]) /\ ContextSound([ctx EXCEPT !.stage = "cite"])
  BY <1>7, <1>8 DEF b
<1>10. "generate" \in PipelineStages /\ "cite" \in PipelineStages /\ "generate" \notin Routed
  BY DEF PipelineStages, Routed
<1>11. Goes(q, ctx, "cite")
  BY DEF a
<1> HIDE DEF ctx
<1>12. QED
  BY <1>6, <1>9, <1>10, <1>11, ContextMoves DEF a

\* The ids a model names, or the mock reads in its prompt, give a sequence of
\* chunks.
LEMMA GenerateKeeps ==
  ASSUME AnswersInv, NEW q \in AnswerQueries, NEW claims,
         NEW named \in NamedChunks \cup {MockNames(r) : r \in Retrievals}, Generate(q, claims, named)
  PROVE  AnswersInv'
<1> DEFINE a == answers[q]
           answer == Generated(claims, named, a.evidence)
<1>1. /\ At(q, "generate") /\ UNCHANGED <<tasks, audited>>
      /\ named \in NamedBy(a.provider, a.evidence)
      /\ Goes(q, [a EXCEPT !.answer = answer], "cite")
  BY DEF Generate
<1>2. ContextTyped(a)
  BY <1>1, AtStage DEF PipelineStages
<1>3. a.evidence \in Seq(ScoredChunk) /\ DOMAIN a = ContextFields
  BY <1>2 DEF ContextTyped
<1>4. Len(Supporting(named, a.evidence)) \in Nat
  <2>1. CASE named \in NamedChunks
    <3> DEFINE S == UNION {ToSet(n) : n \in NamedChunks}
    <3>1. named \in Seq(S)
      BY <2>1, AnswersAssumption
    <3> HIDE DEF S, a
    <3>2. QED
      BY <1>3, <3>1, SupportingIsSeq
  <2>2. CASE named = MockNames(a.evidence)
    <3> HIDE DEF a
    <3> DEFINE e == a.evidence
    <3>1. e \in Seq(ScoredChunk)
      BY <1>3
    <3> HIDE DEF e
    <3>2. Len(e) \in Nat /\ DOMAIN e = 1..Len(e) /\ \A i \in 1..Len(e) : e[i] \in ScoredChunk
      BY <3>1, LenProperties, ElementOfSeq
    <3>3. [i \in DOMAIN e |-> e[i].chunk] \in [1..Len(e) -> Chunks]
      BY <3>2 DEF ScoredChunk
    <3>4. MockNames(e) \in Seq(Chunks)
      BY <3>2, <3>3, SeqDef DEF MockNames
    <3>5. Len(Supporting(MockNames(e), e)) \in Nat
      BY <3>1, <3>4, SupportingIsSeq
    <3>6. QED
      BY <2>2, <3>5 DEF e
  <2>3. QED
    BY <1>1, <2>1, <2>2 DEF NamedBy
<1>5. HasAnswer(answer)
  BY <1>4 DEF HasAnswer, Generated
<1> HIDE DEF answer
<1>6. [a EXCEPT !.answer = answer] = [a EXCEPT !.errors = a.errors, !.answer = answer]
  <2> HIDE DEF a
  <2>1. QED
    BY <1>3 DEF ContextFields
<1>7. Goes(q, [a EXCEPT !.errors = a.errors, !.answer = answer], "cite")
  BY <1>1, <1>6
<1>8. QED
  <2> DEFINE errors == a.errors
  <2>1. Goes(q, [answers[q] EXCEPT !.errors = errors, !.answer = answer], "cite")
    BY <1>7
  <2>2. errors \in {answers[q].errors, answers[q].errors \cup {"generate"}}
    OBVIOUS
  <2> HIDE DEF errors
  <2>3. QED
    BY <1>1, <1>5, <2>1, <2>2, AnswerComes

\* The fallback quotes the evidence.
LEMMA GenerationFailsKeeps ==
  ASSUME AnswersInv, NEW q \in AnswerQueries, GenerationFails(q)
  PROVE  AnswersInv'
<1> DEFINE a == answers[q]
           answer == Fallback(a.evidence)
           errors == a.errors \cup {"generate"}
<1>1. At(q, "generate") /\ UNCHANGED <<tasks, audited>>
      /\ Goes(q, [answers[q] EXCEPT !.errors = errors, !.answer = answer], "cite")
  BY DEF GenerationFails
<1>2. ContextTyped(a)
  BY <1>1, AtStage DEF PipelineStages
<1>3. HasAnswer(answer)
  <2> DEFINE e == a.evidence
  <2>1. e \in Seq(ScoredChunk)
    BY <1>2 DEF ContextTyped
  <2>2. answer = Fallback(e)
    OBVIOUS
  <2> HIDE DEF e, answer
  <2>3. Len(e) \in Nat /\ DOMAIN e = 1..Len(e)
    BY <2>1, LenProperties
  <2> DEFINE s == [i \in DOMAIN e |-> e[i].chunk]
  <2>4. s \in [1..Len(e) -> {e[i].chunk : i \in 1..Len(e)}]
    BY <2>3
  <2>5. s \in Seq({e[i].chunk : i \in 1..Len(e)})
    BY <2>3, <2>4, SeqDef
  <2>6. Len(s) \in Nat
    BY <2>5, LenProperties
  <2>7. answer.support = s /\ answer.fields \in {0, 1, 2}
    BY <2>2 DEF Fallback
  <2> HIDE DEF s
  <2>8. QED
    BY <2>6, <2>7 DEF HasAnswer
<1> HIDE DEF answer
<1>4. errors \in {answers[q].errors, answers[q].errors \cup {"generate"}}
  OBVIOUS
<1> HIDE DEF errors
<1>5. QED
  BY <1>1, <1>3, <1>4, AnswerComes

\* Citing adds the citations.
LEMMA CiteKeeps ==
  ASSUME AnswersInv, NEW q \in AnswerQueries, Cite(q)
  PROVE  AnswersInv'
<1> DEFINE a == answers[q]
           cited == IF a.evidence = <<>> THEN {} ELSE Citations(a.answer, a.evidence, a.sim)
           ctx == [a EXCEPT !.citations = cited]
           b == [ctx EXCEPT !.stage = "score"]
<1>1. At(q, "cite") /\ Goes(q, ctx, "score") /\ UNCHANGED <<tasks, audited>>
  BY DEF Cite
<1>2. ContextTyped(a) /\ ContextSound(a) /\ a.stage = "cite"
  BY <1>1, AtStage DEF PipelineStages
<1> HIDE DEF a, cited
<1>3. DOMAIN a = ContextFields
  BY <1>2 DEF ContextTyped
<1>4. /\ DOMAIN b = ContextFields /\ b.stage = "score" /\ b.evidence = a.evidence /\ b.answer = a.answer
      /\ b.confidence = a.confidence /\ b.abstained = a.abstained /\ b.errors = a.errors
      /\ b.reranked = a.reranked /\ b.review = a.review /\ b.task = a.task /\ b.recorded = a.recorded
  BY <1>3 DEF ContextFields
<1>5. DOMAIN ctx = ContextFields /\ ctx.recorded = a.recorded
  BY <1>3 DEF ContextFields
<1> HIDE DEF b
<1>6. ContextTyped(b)
  BY <1>2, <1>4 DEF ContextTyped, PipelineStages
<1>7. ContextSound(b)
  BY <1>2, <1>4 DEF ContextSound, Early, Routed
<1>8. ContextTyped([ctx EXCEPT !.stage = "score"]) /\ ContextSound([ctx EXCEPT !.stage = "score"])
  BY <1>6, <1>7 DEF b
<1>9. "cite" \in PipelineStages /\ "score" \in PipelineStages /\ "cite" \notin Routed
  BY DEF PipelineStages, Routed
<1> HIDE DEF ctx
<1>10. QED
  BY <1>1, <1>5, <1>8, <1>9, ContextMoves DEF a

\* A score that reaches the threshold has the grounds for it.
LEMMA ScoreKeeps ==
  ASSUME AnswersInv, NEW q \in AnswerQueries, Score(q)
  PROVE  AnswersInv'
<1> DEFINE a == answers[q]
           score == Confidence(a.answer, a.evidence, a.reranked)
           ctx == [a EXCEPT !.confidence = score]
           b == [ctx EXCEPT !.stage = "verify"]
<1>1. At(q, "score") /\ Goes(q, ctx, "verify") /\ UNCHANGED <<tasks, audited>>
  BY DEF Score
<1>2. ContextTyped(a) /\ ContextSound(a) /\ a.stage = "score"
  BY <1>1, AtStage DEF PipelineStages
<1> HIDE DEF a
<1>3. DOMAIN a = ContextFields
  BY <1>2 DEF ContextTyped
<1>4. /\ score \in Int
      /\ a.reranked /\ score >= High => SumScores(a.evidence) > Len(a.evidence)
  <2>1. a.evidence \in Seq(ScoredChunk) /\ HasAnswer(a.answer)
    BY <1>2 DEF ContextTyped
  <2>2. SumScores(a.evidence) \in Int /\ Len(a.evidence) \in Int /\ score \in Int
    BY <2>1, SumIsInt, ConfidenceIsInt, LenProperties
  <2>3. ASSUME a.reranked, score >= High, ~(SumScores(a.evidence) > Len(a.evidence)) PROVE FALSE
    <3>1. SumScores(a.evidence) <= Len(a.evidence)
      BY <2>2, <2>3
    <3>2. score < High
      BY <2>1, <2>3, <3>1, HalfIsNotEnough
    <3> HIDE DEF score
    <3>3. QED
      BY <2>2, <2>3, <3>2, HighIsPositive
  <2>4. QED
    BY <2>2, <2>3
<1> HIDE DEF score
<1>5. /\ DOMAIN b = ContextFields /\ b.stage = "verify" /\ b.evidence = a.evidence /\ b.answer = a.answer
      /\ b.confidence = score /\ b.abstained = a.abstained /\ b.errors = a.errors
      /\ b.reranked = a.reranked /\ b.review = a.review /\ b.task = a.task /\ b.recorded = a.recorded
  BY <1>3 DEF ContextFields
<1>6. DOMAIN ctx = ContextFields /\ ctx.recorded = a.recorded
  BY <1>3 DEF ContextFields
<1> HIDE DEF b
<1>7. ContextTyped(b)
  BY <1>2, <1>4, <1>5 DEF ContextTyped, PipelineStages
<1>8. ContextSound(b)
  <2>1. "score" \notin b.errors
    BY <1>2, <1>5 DEF ContextSound, Early
  <2>2. b.reranked /\ b.confidence >= High => SumScores(b.evidence) > Len(b.evidence)
    BY <1>4, <1>5
  <2>3. QED
    BY <1>2, <1>5, <2>1, <2>2 DEF ContextSound, Early, Routed
<1>9. ContextTyped([ctx EXCEPT !.stage = "verify"]) /\ ContextSound([ctx EXCEPT !.stage = "verify"])
  BY <1>7, <1>8 DEF b
<1>10. "verify" \in PipelineStages /\ "score" \in PipelineStages /\ "score" \notin Routed
  BY DEF PipelineStages, Routed
<1> HIDE DEF ctx
<1>11. QED
  BY <1>1, <1>6, <1>9, <1>10, ContextMoves DEF a

\* What the routing and the audit look at is the same.
Agree(ctx, a) ==
  /\ DOMAIN ctx = ContextFields /\ ctx.evidence = a.evidence /\ ctx.answer = a.answer
  /\ ctx.confidence = a.confidence /\ ctx.abstained = a.abstained /\ ctx.errors = a.errors
  /\ ctx.reranked = a.reranked /\ ctx.review = a.review /\ ctx.task = a.task /\ ctx.recorded = a.recorded

\* A stage that adds to the context nothing of that.
PassedOn == {<<"verify", "route">>, <<"enrich", "audit">>}

\* It keeps the invariant.
LEMMA PassesOn ==
  ASSUME AnswersInv, NEW q \in AnswerQueries, NEW s, NEW next,
         <<s, next>> \in PassedOn,
         At(q, s), UNCHANGED <<tasks, audited>>, NEW ctx, Agree(ctx, answers[q]), Goes(q, ctx, next)
  PROVE  AnswersInv'
<1> DEFINE a == answers[q]
           b == [ctx EXCEPT !.stage = next]
<1>1. s \in PipelineStages /\ next \in PipelineStages /\ (s \in Routed => next \in Routed) /\ s # "answered"
  BY DEF PipelineStages, Routed, PassedOn
<1>2. ContextTyped(a) /\ ContextSound(a) /\ a.stage = s
  BY <1>1, AtStage
<1>3. Agree(ctx, a)
  OBVIOUS
<1> HIDE DEF a
<1>4. Agree(b, a) /\ b.stage = next
  BY <1>3 DEF ContextFields, Agree
<1> HIDE DEF b
<1>5. ContextTyped(b)
  BY <1>1, <1>2, <1>4 DEF ContextTyped, Agree
<1>6. ContextSound(b)
  BY <1>2, <1>4 DEF ContextSound, Early, Routed, Agree, PassedOn
<1>7. ContextTyped([ctx EXCEPT !.stage = next]) /\ ContextSound([ctx EXCEPT !.stage = next])
  BY <1>5, <1>6 DEF b
<1>8. QED
  BY <1>1, <1>3, <1>7, ContextMoves DEF a, Agree

\* What verification reports does not enter the routing.
LEMMA VerifyKeeps ==
  ASSUME AnswersInv, NEW q \in AnswerQueries, NEW unsupported, Verify(q, unsupported)
  PROVE  AnswersInv'
<1> DEFINE a == answers[q]
           ctx == IF a.evidence = <<>> THEN a ELSE [a EXCEPT !.unsupported = unsupported, !.checked = TRUE]
<1>1. At(q, "verify") /\ Goes(q, ctx, "route") /\ UNCHANGED <<tasks, audited>>
  BY DEF Verify
<1>2. DOMAIN a = ContextFields
  BY <1>1, AtStage DEF PipelineStages, ContextTyped
<1>3. Agree(ctx, answers[q])
  BY <1>2 DEF Agree, ContextFields
<1> HIDE DEF a, ctx
<1>4. <<"verify", "route">> \in PassedOn
  BY DEF PassedOn
<1>5. QED
  BY <1>1, <1>3, <1>4, PassesOn

\* Nor does what an agent adds.
LEMMA EnrichKeeps ==
  ASSUME AnswersInv, NEW q \in AnswerQueries, Enrich(q)
  PROVE  AnswersInv'
<1> DEFINE ctx == answers[q]
<1>1. At(q, "enrich") /\ Goes(q, ctx, "audit") /\ UNCHANGED <<tasks, audited>>
  BY DEF Enrich
<1>2. DOMAIN ctx = ContextFields
  BY <1>1, AtStage DEF PipelineStages, ContextTyped
<1>3. Agree(ctx, answers[q])
  BY <1>2 DEF Agree
<1>4. <<"enrich", "audit">> \in PassedOn
  BY DEF PassedOn
<1> HIDE DEF ctx
<1>5. QED
  BY <1>1, <1>3, <1>4, PassesOn

\* Routing flags whatever is below the threshold, and gives a review decision
\* to what is below the lower one.
LEMMA RouteKeeps ==
  ASSUME AnswersInv, NEW q \in AnswerQueries, NEW registered \in BOOLEAN, Route(q, registered)
  PROVE  AnswersInv'
<1> DEFINE a == answers[q]
           ctx == ByConfidence(a, registered)
           b == [ctx EXCEPT !.stage = "enrich"]
<1>1. /\ At(q, "route") /\ answers' = [answers EXCEPT ![q] = b] /\ audited' = audited
      /\ tasks' = IF ctx.task THEN tasks \cup {q} ELSE tasks
  BY DEF Route, Goes
<1>2. ContextTyped(a) /\ ContextSound(a) /\ a.stage = "route" /\ q \notin tasks
  <2>1. "route" \in PipelineStages /\ "route" \notin Routed
    BY DEF PipelineStages, Routed
  <2>2. QED
    BY <1>1, <2>1, AtStage
<1>3. ctx = IF a.confidence >= High THEN a
            ELSE IF a.confidence >= Low THEN [a EXCEPT !.review = TRUE]
            ELSE IF a.confidence < Abstention /\ a.evidence = <<>>
                 THEN [a EXCEPT !.abstained = TRUE, !.answer = Abstained]
            ELSE [a EXCEPT !.review = TRUE, !.task = registered]
  BY DEF ByConfidence
<1> HIDE DEF a, ctx
<1>4. DOMAIN a = ContextFields /\ a.confidence \in Int /\ ~a.task /\ ~a.abstained /\ a.evidence # <<>> /\ ~a.recorded
  BY <1>2 DEF ContextTyped, ContextSound, Routed
<1>5. /\ DOMAIN ctx = ContextFields /\ ctx.evidence = a.evidence /\ ctx.answer = a.answer
      /\ ctx.confidence = a.confidence /\ ctx.abstained = a.abstained /\ ctx.errors = a.errors
      /\ ctx.reranked = a.reranked /\ ctx.recorded = a.recorded
  BY <1>3, <1>4 DEF ContextFields
<1>6. ctx.review \/ a.confidence >= High
  <2>1. CASE a.confidence >= High
    BY <2>1
  <2>2. CASE ~(a.confidence >= High)
    <3>1. ctx \in {[a EXCEPT !.review = TRUE], [a EXCEPT !.review = TRUE, !.task = registered]}
      BY <1>3, <1>4, <2>2
    <3>2. QED
      BY <1>4, <3>1 DEF ContextFields
  <2>3. QED
    BY <2>1, <2>2
<1>7. ctx.task => ctx.review /\ a.confidence < Low
  <2> SUFFICES ASSUME ctx.task PROVE ctx.review /\ a.confidence < Low
    OBVIOUS
  <2>1. ~(a.confidence >= High)
    BY <1>3, <1>4
  <2>2. ~(a.confidence >= Low)
    <3> SUFFICES ASSUME a.confidence >= Low PROVE FALSE
      OBVIOUS
    <3>1. ctx = [a EXCEPT !.review = TRUE]
      BY <1>3, <2>1
    <3>2. QED
      BY <1>4, <3>1 DEF ContextFields
  <2>3. ctx.review
    BY <1>6, <2>1
  <2>4. QED
    BY <1>4, <2>2, <2>3, HighIsPositive
<1>8. /\ DOMAIN b = ContextFields /\ b.stage = "enrich" /\ b.evidence = a.evidence /\ b.answer = a.answer
      /\ b.confidence = a.confidence /\ b.abstained = a.abstained /\ b.errors = a.errors
      /\ b.reranked = a.reranked /\ b.review = ctx.review /\ b.task = ctx.task /\ b.recorded = a.recorded
  BY <1>5 DEF ContextFields
<1> HIDE DEF b
<1>9. ContextTyped(b)
  BY <1>2, <1>8 DEF ContextTyped, PipelineStages
<1>10. ContextSound(b)
  BY <1>2, <1>4, <1>6, <1>8 DEF ContextSound, Early, Routed
<1>11. (q \in tasks' => b.stage \in Routed /\ b.review /\ b.confidence < Low) /\ ~b.recorded
  BY <1>1, <1>2, <1>4, <1>7, <1>8 DEF Routed
<1>12. tasks \subseteq tasks' /\ tasks' \subseteq tasks \cup {q} /\ audited \subseteq audited'
  BY <1>1
<1>13. QueryOK(q, b, tasks', audited')
  BY <1>9, <1>10, <1>11 DEF QueryOK
<1>14. QED
  BY <1>1, <1>12, <1>13, OneMoves

\* The record has the flag of the answer.
LEMMA AuditKeeps ==
  ASSUME AnswersInv, NEW q \in AnswerQueries, Audit(q)
  PROVE  AnswersInv'
<1> DEFINE a == answers[q]
           ctx == [a EXCEPT !.recorded = TRUE]
           b == [ctx EXCEPT !.stage = "answered"]
<1>1. /\ At(q, "audit") /\ answers' = [answers EXCEPT ![q] = b] /\ tasks' = tasks
      /\ audited' = audited \cup {[query |-> q, warning |-> a.review]}
  BY DEF Audit, Goes
<1>2. ContextTyped(a) /\ ContextSound(a) /\ a.stage = "audit" /\ (q \in tasks => a.review /\ a.confidence < Low)
  <2>1. "audit" \in PipelineStages
    BY DEF PipelineStages
  <2>2. QED
    BY <1>1, <2>1, AtStage
<1> HIDE DEF a
<1>3. DOMAIN a = ContextFields
  BY <1>2 DEF ContextTyped
<1>4. /\ DOMAIN b = ContextFields /\ b.stage = "answered" /\ b.evidence = a.evidence /\ b.answer = a.answer
      /\ b.confidence = a.confidence /\ b.abstained = a.abstained /\ b.errors = a.errors
      /\ b.reranked = a.reranked /\ b.review = a.review /\ b.task = a.task
  BY <1>3 DEF ContextFields
<1> HIDE DEF b
<1>5. ContextTyped(b)
  BY <1>2, <1>4 DEF ContextTyped, PipelineStages
<1>6. ContextSound(b)
  BY <1>2, <1>4 DEF ContextSound, Early, Routed
<1>7. [query |-> q, warning |-> b.review] \in audited'
  BY <1>1, <1>4
<1>8. q \in tasks' => b.stage \in Routed /\ b.review /\ b.confidence < Low
  BY <1>1, <1>2, <1>4 DEF Routed
<1>9. QueryOK(q, b, tasks', audited')
  BY <1>5, <1>6, <1>7, <1>8 DEF QueryOK
<1>10. tasks \subseteq tasks' /\ tasks' \subseteq tasks \cup {q} /\ audited \subseteq audited'
  BY <1>1
<1>11. QED
  BY <1>1, <1>9, <1>10, OneMoves

\* A direct call keeps nothing.
LEMMA DirectCallKeeps ==
  ASSUME AnswersInv, NEW q \in AnswerQueries, NEW retrieval, NEW fails, NEW failOpen,
         DirectCall(q, retrieval, fails, failOpen)
  PROVE  AnswersInv'
<1>1. PICK end : answers' = [answers EXCEPT ![q] = [stage |-> "direct", end |-> end]]
  BY DEF DirectCall
<1>2. answers[q] = NoQuery /\ tasks' = tasks /\ audited' = audited
  BY DEF DirectCall
<1>3. q \notin tasks
  <2>1. QueryOK(q, answers[q], tasks, audited) /\ answers[q].stage = "none"
    BY <1>2 DEF AnswersInv, NoQuery
  <2>2. QED
    BY <2>1 DEF QueryOK, ContextTyped, PipelineStages
<1> DEFINE b == [stage |-> "direct", end |-> end]
<1>4. b.stage = "direct"
  OBVIOUS
<1> HIDE DEF b
<1>5. QueryOK(q, b, tasks, audited)
  BY <1>3, <1>4 DEF QueryOK
<1>6. QED
  BY <1>1, <1>2, <1>5, OneMoves DEF b

\* Every step keeps the invariant.
LEMMA AnswersInvNext == AnswersInv /\ [AnswersNext]_answersVars => AnswersInv'
<1> SUFFICES ASSUME AnswersInv, [AnswersNext]_answersVars PROVE AnswersInv'
  OBVIOUS
<1>1. ASSUME UNCHANGED answersVars PROVE AnswersInv'
  <2>1. answers' = answers /\ tasks' = tasks /\ audited' = audited
    BY <1>1 DEF answersVars
  <2>2. QED
    BY <2>1 DEF AnswersInv
<1>2. ASSUME NEW q \in AnswerQueries, NEW p \in Configured, NEW sim \in Similarities, AnswerBegins(q, p, sim)
      PROVE AnswersInv'
  BY <1>2, StartKeeps
<1>3. ASSUME NEW q \in AnswerQueries, NEW r \in Retrievals, NEW b \in BOOLEAN, Retrieve(q, r, b)
      PROVE AnswersInv'
  BY <1>3, RetrieveKeeps
<1>4. ASSUME NEW q \in AnswerQueries, NEW c \in (SUBSET Claims) \ {{}},
             NEW n \in NamedChunks \cup {MockNames(r) : r \in Retrievals}, Generate(q, c, n)
      PROVE AnswersInv'
  BY <1>4, GenerateKeeps
<1>5. ASSUME NEW q \in AnswerQueries, NEW u \in SUBSET Claims, Verify(q, u) PROVE AnswersInv'
  BY <1>5, VerifyKeeps
<1>6. ASSUME NEW q \in AnswerQueries, NEW ok \in BOOLEAN, Route(q, ok) PROVE AnswersInv'
  BY <1>6, RouteKeeps
<1>7. ASSUME NEW q \in AnswerQueries,
             RetrievalFails(q) \/ GenerationFails(q) \/ Cite(q) \/ Score(q) \/ Enrich(q) \/ Audit(q)
      PROVE AnswersInv'
  BY <1>7, RetrievalFailsKeeps, GenerationFailsKeeps, CiteKeeps, ScoreKeeps, EnrichKeeps, AuditKeeps
<1>8. ASSUME NEW q \in AnswerQueries,
             CitingFails(q) \/ ScoringFails(q) \/ VerifyingFails(q) \/ EnrichingFails(q) \/ AuditingFails(q)
      PROVE AnswersInv'
  <2>1. CASE CitingFails(q)
    BY <2>1, FailsKeeps DEF CitingFails
  <2>2. CASE ScoringFails(q)
    BY <2>2, FailsKeeps DEF ScoringFails
  <2>3. CASE VerifyingFails(q)
    BY <2>3, FailsKeeps DEF VerifyingFails
  <2>4. CASE EnrichingFails(q)
    BY <2>4, FailsKeeps DEF EnrichingFails
  <2>5. CASE AuditingFails(q)
    BY <2>5, FailsKeeps DEF AuditingFails
  <2>6. QED
    BY <1>8, <2>1, <2>2, <2>3, <2>4, <2>5
<1>9. ASSUME NEW q \in AnswerQueries, NEW r \in Retrievals, NEW f \in BOOLEAN, NEW o \in BOOLEAN,
             DirectCall(q, r, f, o)
      PROVE AnswersInv'
  BY <1>9, DirectCallKeeps
<1>10. QED
  BY <1>1, <1>2, <1>3, <1>4, <1>5, <1>6, <1>7, <1>8, <1>9 DEF AnswersNext

\* What the invariant says of an answer that left.
LEMMA GroundsFollow == AnswersInv => UnflaggedIsWellGrounded
<1> SUFFICES ASSUME AnswersInv, NEW q \in AnswerQueries, Answered(q)
             PROVE  LET a == answers[q]
                    IN /\ (~a.review /\ ~a.abstained /\ a.reranked) =>
                            /\ "score" \notin a.errors
                            /\ SumScores(a.evidence) > Len(a.evidence)
                       /\ (~a.review /\ ~a.abstained) => a.evidence # <<>>
                       /\ a.abstained <=> a.evidence = <<>>
                       /\ q \in tasks => a.review /\ a.confidence < Low
                       /\ a.recorded => [query |-> q, warning |-> a.review] \in audited
  BY DEF UnflaggedIsWellGrounded
<1> DEFINE a == answers[q]
<1>1. a.stage = "answered" /\ At(q, "answered") /\ "answered" \in PipelineStages
  BY DEF Answered, At, PipelineStages
<1>2. /\ ContextTyped(a) /\ ContextSound(a)
      /\ q \in tasks => a.review /\ a.confidence < Low
      /\ a.recorded => [query |-> q, warning |-> a.review] \in audited
  BY <1>1, AtStage
<1> HIDE DEF a
<1>3. a.abstained <=> a.evidence = <<>>
  BY <1>1, <1>2 DEF ContextSound
<1>4. ~a.review /\ ~a.abstained => a.confidence >= High
  BY <1>1, <1>2 DEF ContextSound, Routed
<1>5. "score" \in a.errors => ~(a.confidence >= High)
  BY <1>2, HighIsPositive DEF ContextSound
<1>6. a.reranked /\ a.confidence >= High => SumScores(a.evidence) > Len(a.evidence)
  BY <1>2 DEF ContextSound
<1>7. QED
  BY <1>2, <1>3, <1>4, <1>5, <1>6 DEF a

\* Whatever stages fail, in any order and for any number of queries, an
\* answer leaves with no flag only if it was scored and its reranked chunks
\* are relevant by more than one half on average; it abstains exactly where
\* there is no evidence, and decision and audit record agree with its flag
\* (_stage_route on the factors of the confidence service): for all chunks,
\* scores, replies of the models, and for all weights and thresholds that
\* meet RoutingAssumption.
THEOREM UnflaggedAnswersAreGrounded == AnswersSpec => []UnflaggedIsWellGrounded
<1>1. AnswersSpec => []AnswersInv
  BY AnswersInvInit, AnswersInvNext, PTL DEF AnswersSpec
<1>2. QED
  BY <1>1, GroundsFollow, PTL

=============================================================================
