------------------------------- MODULE Review -------------------------------
(***************************************************************************)
(* One human-in-the-loop review: the engine that moves its status, the     *)
(* coordinator that collects approvals and rejections against a list of    *)
(* requirements, and the store that appends it to a file.  No handler      *)
(* awaits anything between reading the review and saving it, so every      *)
(* request is one step.  Comments, corrections, the assignee, the audit    *)
(* trail and the field decision are left out: no status depends on them.   *)
(***************************************************************************)
EXTENDS Integers, Sequences, FiniteSets

CONSTANTS Actors,    \* who approves and rejects
          Roles,     \* the roles a requirement or a request can name
          NoRole,    \* a request that names no role
          Panels,    \* the lists of requirements a review can be created with
          Absent,    \* no review
          MaxFaults, \* bound: failed writes
          MaxCrashes \* bound: restarts

ASSUME ReviewAssumption ==
  /\ IsFiniteSet(Actors)
  /\ NoRole \notin Roles
  /\ MaxFaults \in Nat /\ MaxCrashes \in Nat

Undecided == {"PENDING", "IN_REVIEW"}
Statuses == Undecided \cup {"APPROVED", "REJECTED", "ESCALATED", "WITHDRAWN"}

\* The lists of approvers and of those who reject are kept as sets; `repeats`
\* counts the entries of approved_by that repeat another, as a list that
\* comes with the request of creation may have them.
Requirements == [role: Roles, min: Nat \ {0},
                 approved: SUBSET Actors, repeats: Nat,
                 rejected: SUBSET Actors]
ReviewType == [status: Statuses, needs: Seq(Requirements)]

ASSUME PanelsAssumption ==
  /\ Panels \subseteq Seq(Requirements)
  /\ \A panel \in Panels : panel # <<>>
ASSUME AbsentAssumption == Absent \notin ReviewType

VARIABLES review,  \* what the store holds in memory
          file,    \* the review's lines in reviews.jsonl
          created, \* history: the requirements it was created with
          faults,  \* writes that failed
          crashes, \* restarts
          clean    \* saves since the last failed write, counted up to 2

vars == <<review, file, created, faults, crashes, clean>>

Jsonl == INSTANCE JsonlFile WITH Objects <- ReviewType

Init ==
  /\ review = Absent
  /\ file = Jsonl!EmptyFile
  /\ created = <<>>
  /\ faults = 0 /\ crashes = 0 /\ clean = 2

Exists == review # Absent

-----------------------------------------------------------------------------
(* The store *)

\* add: the object is kept in memory and appended to the file; whoever
\* called is not told when the append fails.
Save(r) ==
  /\ review' = r
  /\ \/ /\ file' = Jsonl!Appended(file, r)
        /\ clean' = IF clean = 2 THEN 2 ELSE clean + 1
        /\ UNCHANGED faults
     \/ /\ faults < MaxFaults
        /\ faults' = faults + 1
        /\ file' \in Jsonl!Damaged(file)
        /\ clean' = 0
  /\ UNCHANGED crashes

\* The process starts anew and loads the file.
Restart ==
  /\ crashes < MaxCrashes
  /\ crashes' = crashes + 1
  /\ review' = Jsonl!Loaded(file)
  /\ UNCHANGED <<file, created, faults, clean>>

-----------------------------------------------------------------------------
(* Consensus *)

\* The consensus counts the entries of the list, repeated or not.
Met(need) ==
  /\ need.rejected = {}
  /\ Cardinality(need.approved) + need.repeats >= need.min

FullyApproved(r) == \A i \in DOMAIN r.needs : Met(r.needs[i])

Rejected(r) == \E i \in DOMAIN r.needs : r.needs[i].rejected # {}

\* Requirements of the role a request names.
Matching(r, role) == {i \in DOMAIN r.needs : r.needs[i].role = role}

\* Requirements the actor has not approved yet.
Open(r, actor) == {i \in DOMAIN r.needs : actor \notin r.needs[i].approved}

\* The requirement an approval counts for: the first of the role or, when
\* there is none, the first the actor has not approved.
ApprovalTargets(r, actor, role) ==
  LET found == IF Matching(r, role) # {} THEN Matching(r, role)
                                         ELSE Open(r, actor)
  IN  {i \in found : \A j \in found : i <= j}

WithApproval(r, i, actor) ==
  LET need == [r.needs[i] EXCEPT !.approved = @ \cup {actor}]
  IN  [r EXCEPT !.needs = [@ EXCEPT ![i] = need]]

\* The requirement a rejection counts for: the first of the role, or the
\* first of all.
RejectionTargets(r, role) ==
  LET found == IF Matching(r, role) # {} THEN Matching(r, role)
                                         ELSE DOMAIN r.needs
  IN  {i \in found : \A j \in found : i <= j}

WithRejection(r, i, actor) ==
  LET need == [r.needs[i] EXCEPT !.rejected = @ \cup {actor}]
  IN  [r EXCEPT !.needs = [@ EXCEPT ![i] = need]]

\* Mutant of Settled: one requirement that is met is enough.
SettledByOne(r) ==
  [r EXCEPT !.status = CASE Rejected(r) -> "REJECTED"
                         [] \E i \in DOMAIN r.needs : Met(r.needs[i]) -> "APPROVED"
                         [] OTHER -> @]

\* Mutant of Settled: the consensus is only looked at while in review.
SettledInReview(r) ==
  IF r.status = "IN_REVIEW"
  THEN [r EXCEPT !.status = CASE Rejected(r)      -> "REJECTED"
                              [] FullyApproved(r) -> "APPROVED"
                              [] OTHER            -> @]
  ELSE r

\* The verdict that the consensus leaves behind, whatever the status was.
Settled(r) ==
  [r EXCEPT !.status = CASE Rejected(r)      -> "REJECTED"
                         [] FullyApproved(r) -> "APPROVED"
                         [] OTHER            -> @]

-----------------------------------------------------------------------------
(* Requests *)

\* POST /review/create takes the requirements as they come, with approvals
\* and rejections if they have any, and looks at no consensus.
Create(panel) ==
  /\ ~Exists
  /\ created' = panel
  /\ Save([status |-> "PENDING", needs |-> panel])

Start ==
  /\ Exists /\ review.status \in Undecided
  /\ Save([review EXCEPT !.status = "IN_REVIEW"])

\* POST /decide and /approve.  Without a requirement left for the actor the
\* request fails before anything is saved: a stuttering step here.
DecideApprove(actor, role) ==
  /\ Exists
  /\ \E i \in ApprovalTargets(review, actor, role) :
       Save(Settled(WithApproval(review, i, actor)))

DecideReject(actor, role) ==
  /\ Exists
  /\ \E i \in RejectionTargets(review, role) :
       Save(Settled(WithRejection(review, i, actor)))

\* POST /approvals/{approver}/approve completes a review that is fully
\* approved and leaves the status alone otherwise, a rejection included.
RecordApproval(actor, role) ==
  /\ Exists
  /\ \E i \in ApprovalTargets(review, actor, role) :
       LET r == WithApproval(review, i, actor)
       IN  Save(IF FullyApproved(r) THEN [r EXCEPT !.status = "APPROVED"] ELSE r)

RecordRejection(actor, role) ==
  /\ Exists
  /\ \E i \in RejectionTargets(review, role) :
       Save([WithRejection(review, i, actor) EXCEPT !.status = "REJECTED"])

\* Any status can be escalated or withdrawn.
Escalate == Exists /\ Save([review EXCEPT !.status = "ESCALATED"])
Withdraw == Exists /\ Save([review EXCEPT !.status = "WITHDRAWN"])

\* Assignment, comments, corrections and the decision NEEDS_CHANGES change
\* only what is left out, and save the review.
Annotate == Exists /\ Save(review)

Request ==
  \/ \E panel \in Panels : Create(panel)
  \/ /\ UNCHANGED created
     /\ \/ Start \/ Escalate \/ Withdraw \/ Annotate
        \/ \E actor \in Actors, role \in Roles \cup {NoRole} :
             \/ DecideApprove(actor, role) \/ DecideReject(actor, role)
             \/ RecordApproval(actor, role) \/ RecordRejection(actor, role)

Next == Request \/ Restart

Spec == Init /\ [][Next]_vars

-----------------------------------------------------------------------------
(* Properties *)

TypeOK ==
  /\ review \in ReviewType \cup {Absent}
  /\ file \in Jsonl!Files
  /\ created \in Seq(Requirements)
  /\ faults \in 0..MaxFaults /\ crashes \in 0..MaxCrashes /\ clean \in 0..2

\* An approved review has, for each requirement it was created with, nobody
\* who rejected it and as many different approvers as it asked for, where
\* only the entries its list repeated at creation count for nobody.
UnanimousIn(r) ==
  r # Absent /\ r.status = "APPROVED" =>
    \A i \in DOMAIN created :
      /\ r.needs[i].rejected = {}
      /\ Cardinality(r.needs[i].approved) + created[i].repeats >= created[i].min

\* APPROVED is never the status of a review without unanimous requirements,
\* by whichever of the two approval endpoints, after escalations,
\* withdrawals, late rejections and restarts (engine.complete is never told
\* what status it overwrites); nor is it in what a restart finds.
ApprovedIsUnanimous == UnanimousIn(review) /\ UnanimousIn(Jsonl!Loaded(file))

\* Consensus takes effect at once: of a review that waits for a decision
\* nobody has rejected anything since its creation, and if everybody has
\* approved it, so they had when it was created.  (A review can be created
\* with its consensus, which only the next decision looks at.)
ConsensusTakesEffect ==
  Exists /\ review.status \in Undecided =>
    /\ \A i \in DOMAIN created : review.needs[i].rejected = created[i].rejected
    /\ FullyApproved(review) => review.needs = created

\* A failed write costs at most itself and the next save, which is appended
\* to the torn line: from the second save on, a restart finds the review as
\* its callers last saw it.
SecondSaveHeals == clean = 2 => Jsonl!Loaded(file) = review
=============================================================================
