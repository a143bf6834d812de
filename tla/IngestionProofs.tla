-------------------------- MODULE IngestionProofs --------------------------
(***************************************************************************)
(* Machine-checked proofs about Ingestion, for every value of its          *)
(* constants: type correctness, and the safety properties that follow from *)
(* the inductive invariant IInv.                                           *)
(***************************************************************************)
EXTENDS Ingestion, TLAPS

Reasons == {"none", "lookup", "download", "duplicate", "register", "parse",
            "chunk", "embed", "index"}
-----------------------------------------------------------------------------
(* The three ways a step ends keep the control variables well typed.       *)
LEMMA AdvanceTyped ==
  ASSUME NEW r \in Runs, NEW place \in Places, NEW s \in RunStatus,
         ControlOK, Advance(r, place, s)
  PROVE  ControlOK'
<1> USE BoundsAssumption
<1>1. 1 \in 1..MaxAttempts
  OBVIOUS
<1> QED
  BY <1>1 DEF ControlOK, Advance, store

(* What an append leaves: the run's line, or not even that.                *)
LEMMA AppendFate ==
  ASSUME NEW r \in Runs, NEW s \in {"pending"} \union Terminal,
         ControlOK, AppendRun(r, s)
  PROVE  /\ disk' \in [Runs -> {"none", "pending"} \union Terminal]
         /\ journal' \in {"whole", "cut"} /\ losses' \in Nat
         /\ disk'[r] \in {disk[r], s}
         /\ \A q \in Runs \ {r} : disk'[q] = disk[q]
BY DEF ControlOK, AppendRun

LEMMA SettleTyped ==
  ASSUME NEW r \in Runs, NEW s \in Terminal, NEW why \in Reasons,
         ControlOK, Settle(r, s, why)
  PROVE  ControlOK'
<1>1. /\ disk' \in [Runs -> {"none", "pending"} \union Terminal]
      /\ journal' \in {"whole", "cut"} /\ losses' \in Nat
  BY AppendFate DEF Settle
<1>2. safe' \subseteq Runs
  BY DEF ControlOK, Settle
<1>3. /\ answer' \in [Runs -> {"none", "rejected", "error", "processing"}
                                \union Terminal]
      /\ shown' \in [Runs -> {"none"} \union Terminal]
  BY DEF ControlOK, Settle
<1> QED
  BY <1>1, <1>2, <1>3
  DEF ControlOK, Settle, Reasons, Terminal, Places, Ended, RunStatus

LEMMA EscapeTyped ==
  ASSUME NEW r \in Runs, NEW response \in {"rejected", "error"},
         ControlOK, Escape(r, response)
  PROVE  ControlOK'
BY DEF ControlOK, Escape, store, Places, Ended

LEMMA StartTyped ==
  ASSUME NEW place \in Places
  PROVE  StepStart(place) \in Places
BY DEF StepStart, Places, Ended

LEMMA AttemptFailsTyped ==
  ASSUME NEW r \in Runs, NEW step \in Reasons,
         ControlOK, AttemptFails(r, step)
  PROVE  ControlOK'
<1> USE BoundsAssumption
<1>1. CASE Retry(r)
  <2>1. StepStart(pc[r]) \in Places
    BY StartTyped DEF ControlOK
  <2>2. attempt[r] + 1 \in 1..MaxAttempts
    BY <1>1 DEF Retry, ControlOK
  <2> QED
    BY <1>1, <2>1, <2>2 DEF Retry, ControlOK, record, store
<1>2. CASE Settle(r, "failed", step)
  BY <1>2, SettleTyped DEF Terminal
<1> QED
  BY <1>1, <1>2 DEF AttemptFails

(* A statement on the shared session keeps the budgets.                    *)
LEMMA StatementTyped ==
  ASSUME ControlOK, BudgetOK, UNCHANGED crashes, DbOk \/ DbFails
  PROVE  BudgetOK'
BY BoundsAssumption DEF ControlOK, BudgetOK, DbOk, DbFails
-----------------------------------------------------------------------------
(* One lemma per group of actions: a step of a well typed state leads to a *)
(* well typed state.                                                       *)
LEMMA UploadTyped ==
  ASSUME TypeOK, NEW r \in Runs, HasDocument(r),
         UploadStep(r) \/ \E c \in Contents : UploadCheck(r, c)
  PROVE  TypeOK'
<1> USE DEF TypeOK, tables, record, store, request, parsing, budget
<1>1. CASE \E c \in Contents : UploadCheck(r, c)
  <2>1. PICK c \in Contents : UploadCheck(r, c)
    BY <1>1
  <2>2. ControlOK'
    BY <2>1, AdvanceTyped, EscapeTyped
    DEF UploadCheck, Places, ControlOK
  <2> QED
    BY <2>1, <2>2 DEF UploadCheck, TablesOK, RequestOK, PatchOK, BudgetOK
<1>2. CASE StoreBlob(r)
  <2>1. ControlOK'
    BY <1>2, AdvanceTyped DEF StoreBlob, Places, ControlOK
  <2> QED
    BY <1>2, <2>1 DEF StoreBlob, TablesOK, RequestOK, PatchOK, BudgetOK
<1>3. CASE UploadRegister(r)
  <2>1. ControlOK'
    BY <1>3, AdvanceTyped, EscapeTyped
    DEF UploadRegister, Places, ControlOK
  <2> QED
    BY <1>3, <2>1, BoundsAssumption
    DEF UploadRegister, TablesOK, RequestOK, PatchOK, ControlOK, BudgetOK,
        StatusEnum, Registered
<1>4. CASE UploadStart(r)
  <2>1. ControlOK'
    BY <1>4, AppendFate DEF UploadStart, ControlOK, Places, RunStatus
  <2> QED
    BY <1>4, <2>1 DEF UploadStart, TablesOK, RequestOK, PatchOK, BudgetOK
<1>5. CASE Lookup(r)
  <2>1. ControlOK'
    BY <1>5, AdvanceTyped, SettleTyped
    DEF Lookup, Places, RunStatus, Terminal, Reasons
  <2>2. BudgetOK'
    BY <1>5, StatementTyped DEF Lookup
  <2> QED
    BY <1>5, <2>1, <2>2
    DEF Lookup, TablesOK, RequestOK, PatchOK, HasDocument, WithDocument,
        BeforeDocument, Places, Ended
<1> QED
  BY <1>1, <1>2, <1>3, <1>4, <1>5 DEF UploadStep

LEMMA UrlTyped ==
  ASSUME TypeOK, NEW r \in Runs, HasDocument(r),
         UrlStep(r) \/ \E force \in BOOLEAN : Trigger(r, force)
  PROVE  TypeOK'
<1> USE DEF TypeOK, tables, record, store, request, parsing, budget
<1>1. CASE \E force \in BOOLEAN : Trigger(r, force)
  <2>1. ControlOK'
    BY <1>1, AppendFate DEF Trigger, ControlOK, Places, RunStatus
  <2> QED
    BY <1>1, <2>1 DEF Trigger, TablesOK, RequestOK, PatchOK, BudgetOK
<1>2. CASE Download(r)
  <2>1. ControlOK'
    BY <1>2, AdvanceTyped, AttemptFailsTyped
    DEF Download, Places, RunStatus, Reasons
  <2>2. /\ forced' \in [Runs -> BOOLEAN]
        /\ checksum' \in [Runs -> Contents \union {NoContent}]
    BY <1>2 DEF Download, RequestOK
  <2>3. RequestOK'
    BY <1>2, <2>2 DEF Download, RequestOK
  <2> QED
    BY <1>2, <2>1, <2>3 DEF Download, TablesOK, PatchOK, BudgetOK
<1>3. CASE DuplicateCheck(r)
  <2>1. ControlOK'
    BY <1>3, AdvanceTyped, SettleTyped, EscapeTyped
    DEF DuplicateCheck, Places, RunStatus, Terminal, Reasons
  <2>2. BudgetOK'
    BY <1>3, StatementTyped DEF DuplicateCheck
  <2> QED
    BY <1>3, <2>1, <2>2 DEF DuplicateCheck, TablesOK, RequestOK, PatchOK
<1>4. CASE SaveDownload(r)
  <2>1. ControlOK'
    BY <1>4, AdvanceTyped, EscapeTyped
    DEF SaveDownload, Places, RunStatus
  <2> QED
    BY <1>4, <2>1 DEF SaveDownload, TablesOK, RequestOK, PatchOK, BudgetOK
<1>5. CASE RegisterCheck(r)
  <2>1. ControlOK'
    BY <1>5, AdvanceTyped, SettleTyped
    DEF RegisterCheck, Places, RunStatus, Terminal, Reasons
  <2>2. BudgetOK'
    BY <1>5, StatementTyped DEF RegisterCheck, BudgetOK
  <2> QED
    BY <1>5, <2>1, <2>2 DEF RegisterCheck, TablesOK, RequestOK, PatchOK
<1>6. CASE RegisterInsert(r)
  <2>1. ControlOK'
    BY <1>6, AdvanceTyped, SettleTyped
    DEF RegisterInsert, Places, RunStatus, Terminal, Reasons
  <2>2. BudgetOK'
    BY <1>6, StatementTyped DEF RegisterInsert, BudgetOK
  <2>3. TablesOK' /\ RequestOK'
    BY <1>6 DEF RegisterInsert, TablesOK, RequestOK, StatusEnum
  <2> QED
    BY <1>6, <2>1, <2>2, <2>3 DEF RegisterInsert, PatchOK
<1> QED
  BY <1>1, <1>2, <1>3, <1>4, <1>5, <1>6 DEF UrlStep

LEMMA WriteStatusTyped ==
  ASSUME NEW r \in Runs, NEW target \in StatusEnum, document[r] \in Contents,
         TypeOK, WriteStatus(r, target)
  PROVE  docs' \in [Contents -> StatusEnum \union {ABSENT}]
BY DEF TypeOK, TablesOK, WriteStatus

LEMMA MoveTyped ==
  ASSUME NEW r \in Runs, NEW place \in Places, ControlOK, Move(r, place)
  PROVE  ControlOK'
BY DEF ControlOK, Move, record, store

LEMMA ParseTyped ==
  ASSUME TypeOK, NEW r \in Runs, HasDocument(r),
         ParseLoad(r) \/ ParseBegin(r) \/ Refresh(r) \/ ParseBody(r)
           \/ ParseEnd(r)
  PROVE  TypeOK'
<1> USE DEF TypeOK, tables, record, store, request, parsing, budget
<1>d. document[r] \in Contents
  BY DEF ParseLoad, ParseBegin, Refresh, ParseBody, ParseEnd, HasDocument,
         WithDocument, BeforeDocument, Places, Ended
<1>v. docs[document[r]] \in StatusEnum \union {Unloaded, ABSENT}
  BY <1>d DEF TablesOK
<1>1. CASE ParseLoad(r)
  <2>1. ControlOK'
    BY <1>1, AttemptFailsTyped DEF ParseLoad, Reasons, ControlOK
  <2>2. BudgetOK'
    BY <1>1, StatementTyped DEF ParseLoad
  <2>3. view' \in [Runs -> StatusEnum \union {Unloaded, ABSENT}]
    BY <1>1, <1>v DEF ParseLoad, RequestOK
  <2> QED
    BY <1>1, <2>1, <2>2, <2>3 DEF ParseLoad, TablesOK, RequestOK, PatchOK
<1>2. CASE ParseBegin(r)
  <2>1. ControlOK'
    BY <1>2, AttemptFailsTyped, MoveTyped DEF ParseBegin, Reasons, Places
  <2>2. BudgetOK'
    BY <1>2, StatementTyped DEF ParseBegin
  <2>3. docs' \in [Contents -> StatusEnum \union {ABSENT}]
    BY <1>2, <1>d, WriteStatusTyped DEF ParseBegin, TablesOK, StatusEnum
  <2>4. entered' \in [Runs -> Nat]
    BY <1>2 DEF ParseBegin, RequestOK
  <2> QED
    BY <1>2, <2>1, <2>2, <2>3, <2>4
    DEF ParseBegin, TablesOK, RequestOK, PatchOK
<1>3. CASE Refresh(r)
  <2>1. ControlOK'
    BY <1>3, AttemptFailsTyped, MoveTyped, AdvanceTyped
    DEF Refresh, Reasons, Places, RunStatus
  <2>2. BudgetOK'
    BY <1>3, StatementTyped DEF Refresh
  <2>3. view' \in [Runs -> StatusEnum \union {Unloaded, ABSENT}]
    BY <1>3, <1>v DEF Refresh, RequestOK
  <2> QED
    BY <1>3, <2>1, <2>2, <2>3 DEF Refresh, TablesOK, RequestOK, PatchOK
<1>4. CASE ParseBody(r)
  <2>1. ControlOK'
    BY <1>4, AttemptFailsTyped, MoveTyped DEF ParseBody, Reasons, Places
  <2>2. BudgetOK'
    BY <1>4, StatementTyped DEF ParseBody, BudgetOK
  <2>3. docs' \in [Contents -> StatusEnum \union {ABSENT}]
    BY <1>4, <1>d, WriteStatusTyped DEF ParseBody, TablesOK, StatusEnum
  <2>4. pages' \in [Contents -> Nat]
    BY <1>4, <1>d DEF ParseBody, TablesOK
  <2>5. view' \in [Runs -> StatusEnum \union {Unloaded, ABSENT}]
    BY <1>4, <1>v DEF ParseBody, RequestOK
  <2> QED
    BY <1>4, <2>1, <2>2, <2>3, <2>4, <2>5
    DEF ParseBody, TablesOK, RequestOK, PatchOK
<1>5. CASE ParseEnd(r)
  <2>1. ControlOK'
    BY <1>5, MoveTyped, AttemptFailsTyped DEF ParseEnd, Reasons, Places
  <2>2. BudgetOK'
    BY <1>5, StatementTyped DEF ParseEnd
  <2>3. docs' \in [Contents -> StatusEnum \union {ABSENT}]
    BY <1>5, <1>d, WriteStatusTyped DEF ParseEnd, TablesOK, StatusEnum
  <2> QED
    BY <1>5, <2>1, <2>2, <2>3 DEF ParseEnd, TablesOK, RequestOK, PatchOK
<1> QED
  BY <1>1, <1>2, <1>3, <1>4, <1>5

LEMMA ChunkTyped ==
  ASSUME TypeOK, NEW r \in Runs, HasDocument(r),
         Chunk(r) \/ EmbedBegin(r) \/ EmbedEnd(r) \/ Index(r)
           \/ ExtractGraph(r)
  PROVE  TypeOK'
<1> USE DEF TypeOK, tables, record, store, request, parsing, budget
<1>d. document[r] \in Contents
  BY DEF Chunk, EmbedBegin, EmbedEnd, Index, ExtractGraph, HasDocument,
         WithDocument, BeforeDocument, Places, Ended
<1>1. CASE Chunk(r)
  <2>1. ControlOK'
    BY <1>1, AdvanceTyped, SettleTyped, AttemptFailsTyped
    DEF Chunk, Reasons, Places, RunStatus, Terminal
  <2>2. BudgetOK'
    BY <1>1, StatementTyped DEF Chunk
  <2>3. chunks' \in [Contents -> Nat]
    BY <1>1, <1>d DEF Chunk, TablesOK
  <2> QED
    BY <1>1, <2>1, <2>2, <2>3 DEF Chunk, TablesOK, RequestOK, PatchOK
<1>2. CASE EmbedBegin(r)
  <2>1. ControlOK'
    BY <1>2, AttemptFailsTyped, AdvanceTyped, MoveTyped
    DEF EmbedBegin, Reasons, Places, RunStatus
  <2>2. BudgetOK'
    BY <1>2, StatementTyped DEF EmbedBegin
  <2>3. embeddings' \in [Contents -> {"NONE", "PENDING", "PROCESSING",
                                      "COMPLETED", "FAILED"}]
    BY <1>2, <1>d DEF EmbedBegin, TablesOK
  <2> QED
    BY <1>2, <2>1, <2>2, <2>3 DEF EmbedBegin, TablesOK, RequestOK, PatchOK
<1>3. CASE EmbedEnd(r)
  <2>1. ControlOK'
    BY <1>3, AdvanceTyped, AttemptFailsTyped
    DEF EmbedEnd, Reasons, Places, RunStatus
  <2>2. BudgetOK'
    BY <1>3, StatementTyped DEF EmbedEnd
  <2>3. embeddings' \in [Contents -> {"NONE", "PENDING", "PROCESSING",
                                      "COMPLETED", "FAILED"}]
    BY <1>3, <1>d DEF EmbedEnd, TablesOK
  <2> QED
    BY <1>3, <2>1, <2>2, <2>3 DEF EmbedEnd, TablesOK, RequestOK, PatchOK
<1>4. CASE Index(r)
  <2>1. ControlOK'
    BY <1>4, AdvanceTyped, SettleTyped, AttemptFailsTyped
    DEF Index, Reasons, Places, RunStatus, Terminal
  <2>2. BudgetOK'
    BY <1>4, StatementTyped DEF Index
  <2> QED
    BY <1>4, <2>1, <2>2 DEF Index, TablesOK, RequestOK, PatchOK
<1>5. CASE ExtractGraph(r)
  <2>1. ControlOK'
    BY <1>5, SettleTyped DEF ExtractGraph, Reasons, Terminal
  <2>2. docs' \in [Contents -> StatusEnum \union {ABSENT}]
    BY <1>5, <1>d, WriteStatusTyped DEF ExtractGraph, TablesOK, StatusEnum
  <2> QED
    BY <1>5, <2>1, <2>2
    DEF ExtractGraph, TablesOK, RequestOK, PatchOK, BudgetOK
<1> QED
  BY <1>1, <1>2, <1>3, <1>4, <1>5

LEMMA OthersTyped ==
  ASSUME TypeOK,
         \/ \E q \in Patches, c \in Contents, s \in StatusEnum :
              PatchRead(q, c, s)
         \/ \E q \in Patches : PatchWrite(q)
         \/ AuditFails \/ Restart
  PROVE  TypeOK'
<1> USE DEF TypeOK, tables, record, store, request, parsing, budget
<1>1. CASE \E q \in Patches, c \in Contents, s \in StatusEnum :
             PatchRead(q, c, s)
  <2>1. PICK q \in Patches, c \in Contents, s \in StatusEnum :
          PatchRead(q, c, s)
    BY <1>1
  <2>2. docs[c] \in StatusEnum
    BY <2>1 DEF PatchRead, Registered, TablesOK
  <2>3. PatchOK'
    BY <2>1, <2>2 DEF PatchRead, PatchOK
  <2> QED
    BY <2>1, <2>3 DEF PatchRead, TablesOK, RequestOK, ControlOK, BudgetOK
<1>2. CASE \E q \in Patches : PatchWrite(q)
  <2>1. PICK q \in Patches : PatchWrite(q)
    BY <1>2
  <2>2. PatchOK'
    BY <2>1 DEF PatchWrite, PatchOK
  <2>3. patch[q].doc \in Contents /\ patch[q].target \in StatusEnum
    BY <2>1 DEF PatchWrite, PatchOK
  <2>4. TablesOK'
    BY <2>1, <2>3 DEF PatchWrite, TablesOK
  <2> QED
    BY <2>1, <2>2, <2>4 DEF PatchWrite, RequestOK, ControlOK, BudgetOK
<1>3. CASE Restart
  <2>1. PatchOK'
    BY <1>3 DEF Restart, PatchOK
  <2>2. ControlOK'
    BY <1>3 DEF Restart, ReadBack, ControlOK, Places, Ended, RunStatus, Terminal
  <2>3. BudgetOK'
    BY <1>3, BoundsAssumption DEF Restart, BudgetOK
  <2> QED
    BY <1>3, <2>1, <2>2, <2>3 DEF Restart, TablesOK, RequestOK
<1>4. CASE AuditFails
  <2>1. ControlOK'
    BY <1>4 DEF AuditFails, ControlOK
  <2> QED
    BY <1>4, <2>1 DEF AuditFails, TablesOK, RequestOK, PatchOK, BudgetOK
<1> QED
  BY <1>1, <1>2, <1>3, <1>4
-----------------------------------------------------------------------------
(* What a step leaves alone: of the other runs and of the other documents, *)
(* and that a broken session stays broken.                                 *)
SameRun(s) ==
  /\ pc'[s] = pc[s] /\ status'[s] = status[s] /\ disk'[s] = disk[s]
  /\ checksum'[s] = checksum[s] /\ document'[s] = document[s]
  /\ view'[s] = view[s] /\ entered'[s] = entered[s]

SameDocument(c) ==
  /\ Registered(c) => docs'[c] # ABSENT
  /\ Patches = {} => docs'[c] = docs[c]
  /\ pages'[c] = pages[c] /\ chunks'[c] = chunks[c]
  /\ embeddings'[c] = embeddings[c]

StaysBroken == session = "broken" => session' = "broken"

(* A run that a step does not touch, and whose document it does not touch, *)
(* keeps its invariant.                                                    *)
LEMMA Frame ==
  ASSUME TypeOK, TypeOK', NEW s \in Runs, RunInv(s), SameRun(s), StaysBroken,
         document[s] \in Contents => SameDocument(document[s])
  PROVE  RunInv(s)'
<1>1. HasDocument(s)'
  BY ContentAssumption
  DEF RunInv, HasDocument, SameRun, SameDocument, TypeOK, RequestOK, Registered
<1>2. ParseProgress(s)'
  BY DEF RunInv, HasDocument, ParseProgress, SameRun, SameDocument, StaysBroken,
         WithDocument, BeforeDocument, Places, Ended
<1>3. StoredSoFar(s)'
  BY DEF RunInv, StoredSoFar, SameRun, SameDocument, StaysBroken
<1>4. Finished(s)'
  BY DEF RunInv, Finished, SameRun, SameDocument
<1> QED
  BY <1>1, <1>2, <1>3, <1>4 DEF RunInv

(* A step of run r keeps the whole invariant if it keeps that of r, leaves *)
(* the others alone, and touches no document but the one r holds or has    *)
(* just registered.                                                        *)
LEMMA RunStep ==
  ASSUME IInv, TypeOK', NEW r \in Runs, RunInv(r)', StaysBroken,
         \A s \in Runs \ {r} : SameRun(s),
         \A c \in Contents \ {document'[r]} : SameDocument(c),
         \/ document'[r] = document[r]
         \/ document'[r] \in Contents /\ ~Registered(document'[r])
              /\ document[r] = NoContent
  PROVE  IInv'
<1> USE DEF IInv
<1>1. ASSUME NEW s \in Runs \ {r}, document[s] \in Contents
      PROVE  document[s] # document'[r]
  <2>1. Registered(document[s])
    BY <1>1 DEF RunInv, HasDocument
  <2>2. CASE document'[r] = document[r]
    BY <1>1, <2>2, ContentAssumption DEF OneRunPerDocument
  <2> QED
    BY <2>1, <2>2
<1>2. ASSUME NEW s \in Runs PROVE RunInv(s)'
  <2>1. CASE s # r
    BY <1>1, <2>1, Frame
  <2> QED
    BY <2>1
<1>3. OneRunPerDocument'
  BY <1>1 DEF OneRunPerDocument, SameRun, TypeOK, RequestOK
<1>4. UntouchedInv'
  <2> SUFFICES ASSUME NEW c \in Contents, \A s \in Runs : document'[s] # c
               PROVE  pages'[c] = 0 /\ chunks'[c] = 0
    BY DEF UntouchedInv
  <2>1. SameDocument(c)
    OBVIOUS
  <2>2. \A s \in Runs : document[s] # c
    BY ContentAssumption DEF SameRun
  <2> QED
    BY <2>1, <2>2 DEF UntouchedInv, SameDocument
<1> QED
  BY <1>2, <1>3, <1>4

(* A run that stops without completing, and leaves its document alone,     *)
(* keeps its invariant; so does one that FailureRecovery starts again.     *)
LEMMA Stopped ==
  ASSUME TypeOK, TypeOK', NEW r \in Runs, RunInv(r), pc'[r] \in Ended,
         "completed" \notin {status'[r], disk'[r]},
         document'[r] = document[r], entered'[r] = entered[r],
         document[r] \in Contents => SameDocument(document[r])
  PROVE  RunInv(r)'
<1>1. HasDocument(r)'
  BY ContentAssumption
  DEF RunInv, HasDocument, SameDocument, TypeOK, RequestOK, Registered, Ended,
      BeforeDocument, WithDocument
<1>2. ParseProgress(r)'
  BY DEF RunInv, ParseProgress, Ended, BeforeDocument, WithDocument
<1>3. StoredSoFar(r)'
  BY DEF RunInv, StoredSoFar, SameDocument, Ended
<1>4. Finished(r)'
  BY DEF Finished
<1> QED
  BY <1>1, <1>2, <1>3, <1>4 DEF RunInv

LEMMA SettleFate ==
  ASSUME ControlOK, NEW r \in Runs, NEW s \in Terminal, NEW why,
         Settle(r, s, why)
  PROVE  /\ pc'[r] = "returned" /\ status'[r] = s /\ disk'[r] \in {disk[r], s}
         /\ \A q \in Runs \ {r} : pc'[q] = pc[q] /\ status'[q] = status[q]
                                  /\ disk'[q] = disk[q]
<1>1. /\ disk'[r] \in {disk[r], s}
      /\ \A q \in Runs \ {r} : disk'[q] = disk[q]
  BY AppendFate DEF Settle
<1> QED
  BY <1>1 DEF ControlOK, Settle

LEMMA AttemptFailsFate ==
  ASSUME ControlOK, NEW r \in Runs, NEW step, AttemptFails(r, step)
  PROVE  /\ \A s \in Runs \ {r} : pc'[s] = pc[s] /\ status'[s] = status[s]
                                  /\ disk'[s] = disk[s]
         /\ \/ /\ pc'[r] = StepStart(pc[r])
               /\ status'[r] = status[r] /\ disk'[r] = disk[r]
            \/ /\ pc'[r] = "returned"
               /\ status'[r] = "failed" /\ disk'[r] \in {disk[r], "failed"}
<1>1. CASE Retry(r)
  BY <1>1 DEF ControlOK, Retry, record, store
<1>2. CASE Settle(r, "failed", step)
  BY <1>2, SettleFate DEF Terminal
<1> QED
  BY <1>1, <1>2 DEF AttemptFails

LEMMA StatementKeepsBroken ==
  ASSUME BudgetOK, DbOk \/ DbFails
  PROVE  StaysBroken
BY DEF DbOk, DbFails, StaysBroken, BudgetOK
-----------------------------------------------------------------------------
(* Every action keeps the invariant: those of an upload.                   *)
LEMMA UploadInv ==
  ASSUME IInv, TypeOK', NEW r \in Runs,
         UploadStep(r) \/ \E c \in Contents : UploadCheck(r, c)
  PROVE  IInv'
<1> USE DEF tables, record, store, request, parsing, budget
<1>i. TypeOK /\ RunInv(r)
  BY DEF IInv
<1>1. CASE \E c \in Contents : UploadCheck(r, c)
  <2>1. PICK c \in Contents : UploadCheck(r, c)
    BY <1>1
  <2>2. /\ \A s \in Runs \ {r} : SameRun(s)
        /\ \A d \in Contents : SameDocument(d)
        /\ StaysBroken /\ document'[r] = document[r]
    BY <1>i, <2>1
    DEF UploadCheck, Advance, Escape, TypeOK, ControlOK, RequestOK, SameRun,
        SameDocument, StaysBroken, Registered
  <2>3. CASE Escape(r, "rejected")
    <3>1. RunInv(r)'
      BY <1>i, <2>1, <2>2, <2>3, Stopped
      DEF UploadCheck, Escape, RunInv, Finished, TypeOK, ControlOK, Ended
    <3> QED
      BY <2>2, <3>1, RunStep
  <2>4. CASE Advance(r, "store", status[r])
    <3>1. HasDocument(r)'
      BY <1>i, <2>1, <2>4, ContentAssumption
      DEF UploadCheck, Advance, RunInv, HasDocument, TypeOK, ControlOK,
          RequestOK, BeforeDocument, WithDocument
    <3>2. ParseProgress(r)'
      BY <1>i, <2>1, <2>4
      DEF UploadCheck, Advance, RunInv, ParseProgress, TypeOK, ControlOK,
          RequestOK, BeforeDocument, WithDocument
    <3>3. StoredSoFar(r)' /\ Finished(r)'
      BY <1>i, <2>1, <2>4, ContentAssumption
      DEF UploadCheck, Advance, RunInv, HasDocument, StoredSoFar, Finished,
          TypeOK, ControlOK, RequestOK, BeforeDocument
    <3> QED
      BY <2>2, <3>1, <3>2, <3>3, RunStep DEF RunInv
  <2> QED
    BY <2>1, <2>3, <2>4 DEF UploadCheck
<1>2. CASE StoreBlob(r)
  <2>2. /\ \A s \in Runs \ {r} : SameRun(s)
        /\ \A d \in Contents : SameDocument(d)
        /\ StaysBroken /\ document'[r] = document[r]
    BY <1>i, <1>2
    DEF StoreBlob, Advance, TypeOK, ControlOK, SameRun, SameDocument,
        StaysBroken, Registered
  <2>3. RunInv(r)'
    BY <1>i, <1>2, ContentAssumption
    DEF StoreBlob, Advance, TypeOK, ControlOK, RunInv, HasDocument,
        ParseProgress, StoredSoFar, Finished, BeforeDocument, WithDocument
  <2> QED
    BY <2>2, <2>3, RunStep
<1>3. CASE UploadRegister(r)
  <2>1. CASE Escape(r, "rejected") /\ UNCHANGED <<docs, document>>
    <3>1. /\ \A s \in Runs \ {r} : SameRun(s)
          /\ \A d \in Contents : SameDocument(d)
          /\ StaysBroken /\ document'[r] = document[r]
      BY <1>i, <1>3, <2>1
      DEF UploadRegister, Escape, TypeOK, ControlOK, SameRun, SameDocument,
          StaysBroken, Registered
    <3>2. RunInv(r)'
      BY <1>i, <1>3, <2>1, <3>1, Stopped
      DEF UploadRegister, Escape, RunInv, Finished, TypeOK, ControlOK, Ended
    <3> QED
      BY <3>1, <3>2, RunStep
  <2>2. CASE /\ ~Registered(checksum[r])
             /\ docs' = [docs EXCEPT ![checksum[r]] = "UPLOADED"]
             /\ document' = [document EXCEPT ![r] = checksum[r]]
             /\ Advance(r, "start", status[r])
    <3>0. checksum[r] \in Contents /\ document[r] = NoContent
      BY <1>i, <1>3
      DEF UploadRegister, RunInv, HasDocument, BeforeDocument
    <3>1. /\ \A s \in Runs \ {r} : SameRun(s)
          /\ \A d \in Contents \ {document'[r]} : SameDocument(d)
          /\ StaysBroken /\ document'[r] = checksum[r]
      BY <1>i, <1>3, <2>2, <3>0
      DEF UploadRegister, Advance, TypeOK, ControlOK, RequestOK, TablesOK,
          SameRun, SameDocument, StaysBroken, Registered
    <3>2. pages[checksum[r]] = 0 /\ chunks[checksum[r]] = 0
      BY <2>2, <3>0
      DEF IInv, UntouchedInv, RunInv, HasDocument
    <3>3. RunInv(r)'
      BY <1>i, <1>3, <2>2, <3>0, <3>1, <3>2
      DEF UploadRegister, Advance, TypeOK, ControlOK, RequestOK, TablesOK,
          RunInv, HasDocument, ParseProgress, StoredSoFar, Finished,
          BeforeDocument, WithDocument, Registered, ABSENT
    <3> QED
      BY <2>2, <3>0, <3>1, <3>3, RunStep
  <2> QED
    BY <1>3, <2>1, <2>2 DEF UploadRegister
<1>4. CASE UploadStart(r)
  <2>2. /\ \A s \in Runs \ {r} : SameRun(s)
        /\ \A d \in Contents : SameDocument(d)
        /\ StaysBroken /\ document'[r] = document[r]
    BY <1>i, <1>4, AppendFate
    DEF UploadStart, TypeOK, ControlOK, SameRun, SameDocument, StaysBroken,
        Registered
  <2>3. disk'[r] \in {disk[r], "pending"}
    BY <1>i, <1>4, AppendFate DEF UploadStart, TypeOK
  <2>4. RunInv(r)'
    BY <1>i, <1>4, <2>3, ContentAssumption
    DEF UploadStart, TypeOK, ControlOK, RunInv, HasDocument, ParseProgress,
        StoredSoFar, Finished, BeforeDocument, WithDocument, Places, Ended,
        Registered
  <2> QED
    BY <2>2, <2>4, RunStep
<1>5. CASE Lookup(r)
  <2>2. /\ \A s \in Runs \ {r} : SameRun(s)
        /\ \A d \in Contents : SameDocument(d)
        /\ document'[r] = document[r]
    BY <1>i, <1>5, SettleFate
    DEF Lookup, Advance, store, TypeOK, ControlOK, RequestOK, SameRun,
        SameDocument, Registered, Terminal
  <2>3. StaysBroken
    BY <1>i, <1>5, StatementKeepsBroken DEF Lookup, TypeOK
  <2>4. CASE Settle(r, "failed", "lookup")
    <3>1. RunInv(r)'
      <4>1. /\ pc'[r] \in Ended /\ status'[r] = "failed"
            /\ disk'[r] \in {disk[r], "failed"}
        BY <1>i, <2>4, SettleFate DEF TypeOK, Terminal, Ended
      <4>2. disk[r] # "completed"
        BY <1>i, <1>5 DEF Lookup, RunInv, Finished
      <4> QED
        BY <1>i, <1>5, <2>2, <4>1, <4>2, Stopped DEF Lookup
    <3> QED
      BY <2>2, <2>3, <3>1, RunStep
  <2>5. CASE Advance(r, "parse", "parsing")
    <3>1. RunInv(r)'
      BY <1>i, <1>5, <2>5
      DEF Lookup, Advance, TypeOK, ControlOK, RunInv, HasDocument,
          ParseProgress, StoredSoFar, Finished, BeforeDocument, WithDocument,
          Places, Ended, Registered
    <3> QED
      BY <2>2, <2>3, <3>1, RunStep
  <2> QED
    BY <1>5, <2>4, <2>5 DEF Lookup
<1> QED
  BY <1>1, <1>2, <1>3, <1>4, <1>5 DEF UploadStep

(* The actions of a run by URL.                                            *)
LEMMA UrlInv ==
  ASSUME IInv, TypeOK', NEW r \in Runs,
         UrlStep(r) \/ \E force \in BOOLEAN : Trigger(r, force)
  PROVE  IInv'
<1> USE DEF tables, record, store, request, parsing, budget
<1>i. TypeOK /\ RunInv(r)
  BY DEF IInv
<1>1. CASE \E force \in BOOLEAN : Trigger(r, force)
  <2>1. /\ \A s \in Runs \ {r} : SameRun(s)
        /\ \A d \in Contents : SameDocument(d)
        /\ StaysBroken /\ document'[r] = document[r]
    BY <1>i, <1>1, AppendFate
    DEF Trigger, TypeOK, ControlOK, SameRun, SameDocument, StaysBroken,
        Registered
  <2>2. disk'[r] \in {disk[r], "pending"}
    BY <1>i, <1>1, AppendFate DEF Trigger, TypeOK
  <2>3. RunInv(r)'
    BY <1>i, <1>1, <2>2, ContentAssumption
    DEF Trigger, TypeOK, ControlOK, RunInv, HasDocument, ParseProgress,
        StoredSoFar, Finished, BeforeDocument, WithDocument
  <2> QED
    BY <2>1, <2>3, RunStep
<1>2. CASE Download(r)
  <2>1. /\ \A d \in Contents : SameDocument(d)
        /\ StaysBroken /\ document'[r] = document[r]
    BY <1>2 DEF Download, SameDocument, StaysBroken, Registered
  <2>2. CASE /\ AttemptFails(r, "download")
             /\ UNCHANGED checksum
    <3>1. \A s \in Runs \ {r} : SameRun(s)
      BY <1>i, <1>2, <2>2, AttemptFailsFate
      DEF Download, SameRun, TypeOK
    <3>2. \/ pc'[r] = "download" /\ status'[r] = status[r]
             /\ disk'[r] = disk[r]
          \/ /\ pc'[r] = "returned"
             /\ status'[r] = "failed" /\ disk'[r] \in {disk[r], "failed"}
      BY <1>i, <1>2, <2>2, AttemptFailsFate
      DEF Download, TypeOK, StepStart
    <3>3. RunInv(r)'
      BY <1>i, <1>2, <2>2, <3>2, ContentAssumption
      DEF Download, RunInv, HasDocument, ParseProgress, StoredSoFar, Finished,
          BeforeDocument, WithDocument, Ended
    <3> QED
      BY <2>1, <3>1, <3>3, RunStep
  <2>3. CASE \E c \in Contents :
               /\ checksum' = [checksum EXCEPT ![r] = c]
               /\ Advance(r, IF forced[r] THEN "save" ELSE "dupcheck",
                          "downloading")
    <3>1. /\ \A s \in Runs \ {r} : SameRun(s)
          /\ checksum'[r] \in Contents
          /\ pc'[r] \in {"save", "dupcheck"}
          /\ status'[r] = "downloading" /\ disk'[r] = disk[r]
      BY <1>i, <1>2, <2>3
      DEF Download, Advance, TypeOK, ControlOK, RequestOK, SameRun
    <3>2. RunInv(r)'
      BY <1>i, <1>2, <2>3, <3>1, ContentAssumption
      DEF Download, RunInv, HasDocument, ParseProgress, StoredSoFar, Finished,
          BeforeDocument, WithDocument
    <3> QED
      BY <2>1, <3>1, <3>2, RunStep
  <2> QED
    BY <1>2, <2>2, <2>3 DEF Download
<1>3. CASE DuplicateCheck(r) \/ SaveDownload(r) \/ RegisterCheck(r)
  <2>1. /\ \A s \in Runs \ {r} : SameRun(s)
        /\ \A d \in Contents : SameDocument(d)
        /\ document'[r] = document[r]
    BY <1>i, <1>3, SettleFate
    DEF DuplicateCheck, SaveDownload, RegisterCheck, Advance, Escape, Terminal,
        TypeOK, ControlOK, SameRun, SameDocument, Registered
  <2>2. StaysBroken
    BY <1>i, <1>3, StatementKeepsBroken
    DEF DuplicateCheck, SaveDownload, RegisterCheck, TypeOK, StaysBroken
  <2>3. pc[r] \in {"dupcheck", "save", "regcheck"} /\ entered'[r] = entered[r]
    BY <1>3 DEF DuplicateCheck, SaveDownload, RegisterCheck
  <2>4. CASE \/ Settle(r, "skipped", "none") \/ Escape(r, "error")
             \/ \E why \in {"register", "duplicate"} : Settle(r, "failed", why)
    <3>1. pc'[r] \in Ended /\ "completed" \notin {status'[r], disk'[r]}
      BY <1>i, <2>3, <2>4, SettleFate
      DEF Escape, RunInv, Finished, TypeOK, ControlOK, Ended, Terminal
    <3>2. RunInv(r)'
      BY <1>i, <2>1, <2>3, <3>1, Stopped
    <3> QED
      BY <2>1, <2>2, <3>2, RunStep
  <2>5. CASE \E place \in {"save", "regcheck", "reginsert"},
                s \in {"downloading", "downloaded"} : Advance(r, place, s)
    <3>1. /\ pc'[r] \in {"save", "regcheck", "reginsert"}
          /\ status'[r] # "completed" /\ disk'[r] = disk[r]
      BY <1>i, <2>5 DEF Advance, TypeOK, ControlOK
    <3>2. checksum'[r] = checksum[r]
      BY <1>3 DEF DuplicateCheck, SaveDownload, RegisterCheck
    <3>3. RunInv(r)'
      BY <1>i, <2>1, <2>3, <3>1, <3>2, ContentAssumption
      DEF RunInv, HasDocument, ParseProgress, StoredSoFar, Finished,
          BeforeDocument, WithDocument
    <3> QED
      BY <2>1, <2>2, <3>3, RunStep
  <2> QED
    BY <1>3, <2>4, <2>5 DEF DuplicateCheck, SaveDownload, RegisterCheck
<1>4. CASE RegisterInsert(r)
  <2>0. /\ checksum[r] \in Contents /\ document[r] = NoContent
        /\ entered'[r] = entered[r]
    BY <1>i, <1>4 DEF RegisterInsert, RunInv, HasDocument, BeforeDocument
  <2>1. StaysBroken
    BY <1>i, <1>4, StatementKeepsBroken
    DEF RegisterInsert, TypeOK, StaysBroken
  <2>2. CASE /\ \E why \in {"register", "duplicate"} : Settle(r, "failed", why)
             /\ UNCHANGED <<docs, document>>
    <3>1. /\ \A s \in Runs \ {r} : SameRun(s)
          /\ \A d \in Contents : SameDocument(d)
          /\ document'[r] = document[r]
      BY <1>i, <1>4, <2>2, SettleFate
      DEF RegisterInsert, TypeOK, ControlOK, SameRun, SameDocument, Registered,
          Terminal
    <3>2. pc'[r] \in Ended /\ "completed" \notin {status'[r], disk'[r]}
      BY <1>i, <1>4, <2>2, SettleFate
      DEF RegisterInsert, RunInv, Finished, TypeOK, Ended, Terminal
    <3>3. RunInv(r)'
      BY <1>i, <2>0, <3>1, <3>2, Stopped
    <3> QED
      BY <2>1, <3>1, <3>3, RunStep
  <2>3. CASE /\ ~Registered(checksum[r])
             /\ docs' = [docs EXCEPT ![checksum[r]] = "UPLOADED"]
             /\ document' = [document EXCEPT ![r] = checksum[r]]
             /\ Advance(r, "parse", "parsing")
    <3>1. /\ \A s \in Runs \ {r} : SameRun(s)
          /\ \A d \in Contents \ {document'[r]} : SameDocument(d)
          /\ document'[r] = checksum[r]
      BY <1>i, <1>4, <2>3, <2>0
      DEF RegisterInsert, Advance, TypeOK, ControlOK, RequestOK, TablesOK,
          SameRun, SameDocument, Registered
    <3>2. pages[checksum[r]] = 0 /\ chunks[checksum[r]] = 0
      BY <2>3, <2>0 DEF IInv, UntouchedInv, RunInv, HasDocument
    <3>3. RunInv(r)'
      BY <1>i, <1>4, <2>3, <2>0, <3>1, <3>2
      DEF RegisterInsert, Advance, TypeOK, ControlOK, RequestOK, TablesOK,
          RunInv, HasDocument, ParseProgress, StoredSoFar, Finished,
          BeforeDocument, WithDocument, Registered, ABSENT
    <3> QED
      BY <2>1, <2>3, <2>0, <3>1, <3>3, RunStep
  <2> QED
    BY <1>4, <2>2, <2>3 DEF RegisterInsert
<1> QED
  BY <1>1, <1>2, <1>3, <1>4 DEF UrlStep

(* A run with a document whose step fails: FailureRecovery starts the step *)
(* again or gives the run up.  The session is broken by then, or the       *)
(* parser has not begun, or it has left the document FAILED.               *)
LEMMA FailedStep ==
  ASSUME IInv, TypeOK', NEW r \in Runs, NEW step, AttemptFails(r, step),
         pc[r] \in WithDocument \ {"start", "lookup", "graph"},
         UNCHANGED <<docs, pages, chunks, checksum, document, entered>>,
         StaysBroken,
         \/ session' = "broken" /\ view' = view
         \/ pc[r] = "failing" /\ (Patches = {} => view'[r] = "FAILED")
         \/ pc[r] \in {"parse", "chunk"} /\ view' = view,
         \A s \in Runs \ {r} : view'[s] = view[s],
         \A c \in Contents \ {document[r]} : embeddings'[c] = embeddings[c],
         pc[r] \notin {"embed", "encode"} => embeddings' = embeddings
  PROVE  IInv'
<1>i. TypeOK /\ RunInv(r)
  BY DEF IInv
<1>1. /\ \A s \in Runs \ {r} : SameRun(s)
      /\ \/ pc'[r] = StepStart(pc[r]) /\ status'[r] = status[r]
            /\ disk'[r] = disk[r]
         \/ /\ pc'[r] = "returned"
            /\ status'[r] = "failed" /\ disk'[r] \in {disk[r], "failed"}
  BY <1>i, AttemptFailsFate DEF TypeOK, SameRun
<1>2. \A c \in Contents \ {document'[r]} : SameDocument(c)
  BY DEF SameDocument, Registered
<1>3. CASE pc'[r] = StepStart(pc[r]) /\ status'[r] = status[r]
            /\ disk'[r] = disk[r]
  <2>1. \/ /\ pc[r] \in {"parse", "begun", "body", "parsed", "ended", "failing"}
           /\ pc'[r] = "parse"
        \/ pc[r] = "chunk" /\ pc'[r] = "chunk"
        \/ pc[r] \in {"embed", "encode"} /\ pc'[r] = "embed"
        \/ pc[r] = "index" /\ pc'[r] = "index"
    BY <1>3
    DEF StepStart, WithDocument, BeforeDocument, Places, Ended
  <2>2. HasDocument(r)'
    BY <1>i, <2>1
    DEF RunInv, HasDocument, BeforeDocument, WithDocument, Places, Ended,
        Registered
  <2>3. ParseProgress(r)'
    BY <1>i, <2>1
    DEF RunInv, ParseProgress, BeforeDocument, WithDocument, Places, Ended,
        StaysBroken
  <2>4. StoredSoFar(r)'
    BY <1>i, <2>1
    DEF RunInv, StoredSoFar
  <2>5. Finished(r)'
    BY <1>i, <1>3, <2>1 DEF RunInv, Finished
  <2> QED
    BY <1>1, <1>2, <2>2, <2>3, <2>4, <2>5, RunStep DEF RunInv
<1>4. CASE pc'[r] = "returned" /\ status'[r] = "failed" /\ disk'[r] \in {disk[r], "failed"}
  <2>1. HasDocument(r)'
    BY <1>i, <1>4
    DEF RunInv, HasDocument, BeforeDocument, WithDocument, Ended, Registered
  <2>2. ParseProgress(r)' /\ StoredSoFar(r)' /\ Finished(r)'
    BY <1>i, <1>4
    DEF RunInv, ParseProgress, StoredSoFar, Finished, BeforeDocument,
        WithDocument, Ended
  <2> QED
    BY <1>1, <1>2, <2>1, <2>2, RunStep DEF RunInv
<1> QED
  BY <1>1, <1>3, <1>4

(* A step of the parser that moves a run on: the run, its places and what  *)
(* it has stored decide whether the invariant is kept.                     *)
LEMMA MovedOn ==
  ASSUME IInv, TypeOK', NEW r \in Runs, NEW place, Move(r, place),
         pc[r] \in WithDocument, place \in WithDocument,
         UNCHANGED <<checksum, document>>, StaysBroken,
         \A s \in Runs \ {r} : view'[s] = view[s] /\ entered'[s] = entered[s],
         \A c \in Contents : Registered(c) => docs'[c] # ABSENT,
         \A c \in Contents \ {document[r]} : SameDocument(c),
         ParseProgress(r)', StoredSoFar(r)'
  PROVE  IInv'
<1> USE DEF Move, record, store
<1>i. TypeOK /\ RunInv(r)
  BY DEF IInv
<1>1. (\A s \in Runs \ {r} : SameRun(s)) /\ pc'[r] = place
  BY <1>i DEF SameRun, TypeOK, ControlOK
<1>2. document[r] \in Contents /\ Registered(document[r])
  BY <1>i DEF RunInv, HasDocument
<1>3. HasDocument(r)'
  BY <1>1, <1>2 DEF HasDocument, WithDocument, Registered
<1>4. Finished(r)'
  BY <1>i, <1>1 DEF RunInv, Finished, WithDocument, Ended
<1> QED
  BY <1>1, <1>3, <1>4, RunStep DEF RunInv

(* The actions of the parser.                                              *)
LEMMA ParseInv ==
  ASSUME IInv, TypeOK', NEW r \in Runs,
         ParseLoad(r) \/ ParseBegin(r) \/ Refresh(r) \/ ParseBody(r)
           \/ ParseEnd(r)
  PROVE  IInv'
<1> USE DEF tables, record, store, request, parsing, budget
<1>i. TypeOK /\ RunInv(r)
  BY DEF IInv
<1>p. pc[r] \in {"parse", "begun", "body", "parsed", "ended", "failing"}
  BY DEF ParseLoad, ParseBegin, Refresh, ParseBody, ParseEnd
<1>d. /\ pc[r] \in WithDocument \ {"start", "lookup", "graph"}
      /\ document[r] \in Contents /\ Registered(document[r])
  BY <1>i, <1>p
  DEF RunInv, HasDocument, WithDocument, BeforeDocument, Places, Ended
<1>b. StaysBroken
  BY <1>i, StatementKeepsBroken
  DEF TypeOK, ParseLoad, ParseBegin, Refresh, ParseBody, ParseEnd, StaysBroken
<1>u. /\ UNCHANGED <<checksum, document, chunks, embeddings>>
      /\ \A s \in Runs \ {r} : view'[s] = view[s] /\ entered'[s] = entered[s]
      /\ \A c \in Contents : Registered(c) => docs'[c] # ABSENT
      /\ \A c \in Contents \ {document[r]} : SameDocument(c)
  BY <1>i, <1>d
  DEF ParseLoad, ParseBegin, Refresh, ParseBody, ParseEnd, WriteStatus, TypeOK,
      TablesOK, RequestOK, Registered, ABSENT, SameDocument
<1>w. \A place \in {"begun", "body", "parsed", "ended", "failing"} :
        place \in WithDocument
  BY DEF WithDocument, BeforeDocument, Places, Ended
<1>1. CASE ParseLoad(r)
  <2>1. CASE DbFails /\ AttemptFails(r, "parse") /\ UNCHANGED view
    BY <1>1, <1>d, <1>b, <1>u, <2>1, FailedStep DEF ParseLoad
  <2>2. CASE /\ DbOk /\ view' = [view EXCEPT ![r] = docs[document[r]]]
             /\ UNCHANGED <<pc, record, reason, attempt>>
    <3>1. \A s \in Runs \ {r} : SameRun(s)
      BY <1>1, <1>u, <2>2 DEF SameRun, ParseLoad
    <3>2. HasDocument(r)' /\ StoredSoFar(r)' /\ Finished(r)'
      BY <1>1, <1>i, <2>2
      DEF ParseLoad, RunInv, HasDocument, StoredSoFar, Finished, Registered,
          DbOk
    <3>3. ParseProgress(r)'
      BY <1>1, <1>i, <2>2
      DEF ParseLoad, RunInv, ParseProgress, DbOk, Unloaded
    <3> QED
      BY <1>b, <1>1, <1>u, <3>1, <3>2, <3>3, RunStep DEF RunInv
  <2> QED
    BY <1>1, <2>1, <2>2 DEF ParseLoad
<1>2. CASE ParseBegin(r)
  <2>1. CASE AttemptFails(r, "parse") /\ UNCHANGED <<docs, entered>>
    BY <1>2, <1>d, <1>b, <1>u, <2>1, FailedStep DEF ParseBegin
  <2>2. CASE /\ ValidTransition(view[r], "PARSING") /\ DbOk
             /\ WriteStatus(r, "PARSING")
             /\ Move(r, "begun")
             /\ entered' = [entered EXCEPT ![r] = @ + 1]
    <3>1. view[r] # "FAILED" /\ session = "usable" /\ pc'[r] = "begun"
      BY <1>i, <2>2
      DEF ValidTransition, Transitions, DbOk, Move, TypeOK, ControlOK
    <3>2. Patches = {} => entered[r] = 0 /\ entered'[r] = 1
      BY <1>2, <1>i, <2>2, <3>1
      DEF ParseBegin, RunInv, ParseProgress, TypeOK, RequestOK
    <3>3. ParseProgress(r)'
      BY <3>1, <3>2 DEF ParseProgress, BeforeDocument
    <3>4. StoredSoFar(r)'
      BY <1>2, <1>i, <1>d, <1>u, <3>1 DEF ParseBegin, RunInv, StoredSoFar
    <3> QED
      BY <1>2, <1>b, <1>d, <1>u, <1>w, <2>2, <3>3, <3>4, MovedOn
  <2> QED
    BY <1>2, <2>1, <2>2 DEF ParseBegin
<1>3. CASE Refresh(r)
  <2>1. CASE AttemptFails(r, "parse") /\ DbFails /\ UNCHANGED view
    BY <1>3, <1>d, <1>b, <1>u, <2>1, FailedStep DEF Refresh, DbFails
  <2>2. CASE /\ DbOk /\ view' = [view EXCEPT ![r] = docs[document[r]]]
             /\ pc[r] = "failing" /\ AttemptFails(r, "parse")
    <3>1. Patches = {} => view'[r] = "FAILED"
      BY <1>i, <2>2 DEF RunInv, ParseProgress, TypeOK, RequestOK
    <3> QED
      BY <1>3, <1>d, <1>b, <1>u, <2>2, <3>1, FailedStep DEF Refresh
  <2>3. CASE pc[r] = "begun" /\ Move(r, "body")
    <3>1. pc'[r] = "body"
      BY <1>i, <2>3 DEF Move, TypeOK, ControlOK
    <3>2. ParseProgress(r)' /\ StoredSoFar(r)'
      BY <1>3, <1>i, <1>d, <2>3, <3>1
      DEF Refresh, RunInv, ParseProgress, StoredSoFar, BeforeDocument,
          WithDocument
    <3> QED
      BY <1>b, <1>d, <1>u, <1>w, <2>3, <3>2, MovedOn
  <2>4. CASE pc[r] = "ended" /\ Advance(r, "chunk", "chunking")
    <3>1. /\ \A s \in Runs \ {r} : SameRun(s)
          /\ pc'[r] = "chunk" /\ status'[r] = "chunking"
          /\ disk'[r] = disk[r]
      BY <1>u, <1>i, <2>4 DEF SameRun, TypeOK, ControlOK, Advance
    <3>2. RunInv(r)'
      BY <1>3, <1>i, <1>d, <2>4, <3>1
      DEF Refresh, RunInv, HasDocument, ParseProgress, StoredSoFar, Finished,
          Registered, BeforeDocument, WithDocument, Places, Ended
    <3> QED
      BY <1>b, <1>u, <3>1, <3>2, RunStep
  <2> QED
    BY <1>3, <2>1, <2>2, <2>3, <2>4 DEF Refresh
<1>4. CASE ParseBody(r)
  <2>1. CASE AttemptFails(r, "parse") /\ UNCHANGED <<docs, view, pages>>
             /\ session' = "broken"
    BY <1>4, <1>d, <1>b, <1>u, <2>1, FailedStep DEF ParseBody
  <2>2. CASE WriteStatus(r, "FAILED") /\ Move(r, "failing") /\ UNCHANGED <<pages, view>>
    <3>1. pc'[r] = "failing" /\ docs'[document[r]] = "FAILED"
      BY <1>i, <1>d, <2>2
      DEF Move, WriteStatus, TypeOK, ControlOK, TablesOK
    <3>2. ParseProgress(r)' /\ StoredSoFar(r)'
      BY <1>4, <1>i, <1>d, <1>u, <2>2, <3>1
      DEF ParseBody, RunInv, ParseProgress, StoredSoFar, BeforeDocument,
          WithDocument
    <3> QED
      BY <1>b, <1>d, <1>u, <1>w, <2>2, <3>2, MovedOn
  <2>3. CASE /\ pages[document[r]] = 0
             /\ pages' = [pages EXCEPT ![document[r]] = @ + 1]
             /\ Move(r, "parsed")
    <3>1. pc'[r] = "parsed" /\ pages'[document[r]] = 1
      BY <1>i, <1>d, <2>3 DEF Move, TypeOK, ControlOK, TablesOK
    <3>2. ParseProgress(r)' /\ StoredSoFar(r)'
      BY <1>4, <1>i, <1>d, <1>u, <3>1
      DEF ParseBody, RunInv, ParseProgress, StoredSoFar, BeforeDocument,
          WithDocument
    <3> QED
      BY <1>b, <1>d, <1>u, <1>w, <2>3, <3>2, MovedOn
  <2> QED
    BY <1>4, <2>1, <2>2, <2>3 DEF ParseBody, DbFails
<1>5. CASE ParseEnd(r)
  <2>1. CASE DbFails /\ AttemptFails(r, "parse") /\ UNCHANGED docs
    BY <1>5, <1>d, <1>b, <1>u, <2>1, FailedStep DEF ParseEnd, DbFails
  <2>2. CASE \/ WriteStatus(r, "PARSED") /\ Move(r, "ended")
             \/ WriteStatus(r, "FAILED") /\ Move(r, "failing")
    <3>1. \/ pc'[r] = "ended" /\ Move(r, "ended")
          \/ /\ pc'[r] = "failing" /\ Move(r, "failing")
             /\ docs'[document[r]] = "FAILED"
      BY <1>i, <1>d, <2>2
      DEF Move, WriteStatus, TypeOK, ControlOK, TablesOK
    <3>2. ParseProgress(r)' /\ StoredSoFar(r)'
      BY <1>5, <1>i, <1>d, <1>u, <3>1
      DEF ParseEnd, RunInv, ParseProgress, StoredSoFar, BeforeDocument,
          WithDocument
    <3> QED
      BY <1>b, <1>d, <1>u, <1>w, <3>1, <3>2, MovedOn
  <2> QED
    BY <1>5, <2>1, <2>2 DEF ParseEnd
<1> QED
  BY <1>1, <1>2, <1>3, <1>4, <1>5

(* The actions after the parser.                                           *)
LEMMA ProcessInv ==
  ASSUME IInv, TypeOK', NEW r \in Runs,
         Chunk(r) \/ EmbedBegin(r) \/ EmbedEnd(r) \/ Index(r)
           \/ ExtractGraph(r)
  PROVE  IInv'
<1> USE DEF tables, record, store, request, parsing, budget
<1>i. TypeOK /\ RunInv(r)
  BY DEF IInv
<1>p. pc[r] \in {"chunk", "embed", "encode", "index", "graph"}
  BY DEF Chunk, EmbedBegin, EmbedEnd, Index, ExtractGraph
<1>d. /\ pc[r] \in WithDocument \ {"start", "lookup"}
      /\ document[r] \in Contents /\ Registered(document[r])
  BY <1>i, <1>p
  DEF RunInv, HasDocument, WithDocument, BeforeDocument, Places, Ended
<1>b. StaysBroken
  BY <1>i, StatementKeepsBroken
  DEF TypeOK, Chunk, EmbedBegin, EmbedEnd, Index, ExtractGraph, StaysBroken
<1>u. /\ UNCHANGED <<checksum, document, entered, pages>>
      /\ \A s \in Runs \ {r} : view'[s] = view[s]
      /\ \A c \in Contents : Registered(c) => docs'[c] # ABSENT
      /\ \A c \in Contents \ {document[r]} : SameDocument(c)
  BY <1>i, <1>d
  DEF Chunk, EmbedBegin, EmbedEnd, Index, ExtractGraph, WriteStatus, TypeOK,
      TablesOK, RequestOK, Registered, ABSENT, SameDocument
<1>1. CASE Chunk(r)
  <2>1. CASE AttemptFails(r, "chunk") /\ UNCHANGED chunks
    BY <1>1, <1>d, <1>b, <1>u, <2>1, FailedStep DEF Chunk
  <2>2. CASE Settle(r, "failed", "chunk") /\ UNCHANGED chunks
    <3>1. /\ \A s \in Runs \ {r} : SameRun(s)
          /\ pc'[r] \in Ended /\ status'[r] = "failed" /\ disk'[r] \in {disk[r], "failed"}
      BY <1>1, <1>u, <1>i, <2>2, SettleFate
      DEF SameRun, TypeOK, Chunk, Ended, Terminal
    <3>2. SameDocument(document[r])
      BY <1>1, <1>u, <1>d, <2>2 DEF Chunk, SameDocument
    <3>3. disk[r] # "completed"
      BY <1>i, <1>1 DEF Chunk, RunInv, Finished
    <3>4. RunInv(r)'
      BY <1>i, <1>u, <3>1, <3>2, <3>3, Stopped
    <3> QED
      BY <1>b, <1>u, <3>1, <3>4, RunStep
  <2>3. CASE /\ \E n \in {0, 1} :
                  chunks' = [chunks EXCEPT ![document[r]] = @ + n]
             /\ Advance(r, "embed", "embedding")
    <3>1. /\ \A s \in Runs \ {r} : SameRun(s)
          /\ pc'[r] = "embed" /\ status'[r] = "embedding"
          /\ disk'[r] = disk[r] /\ chunks'[document[r]] \in {0, 1}
      BY <1>1, <1>u, <1>i, <1>d, <2>3
      DEF SameRun, TypeOK, ControlOK, TablesOK, Chunk, Advance, RunInv,
          StoredSoFar
    <3>2. RunInv(r)'
      BY <1>1, <1>i, <1>d, <1>u, <3>1
      DEF Chunk, RunInv, HasDocument, ParseProgress, StoredSoFar, Finished,
          Registered, BeforeDocument, WithDocument, Places, Ended
    <3> QED
      BY <1>b, <1>u, <3>1, <3>2, RunStep
  <2> QED
    BY <1>1, <2>1, <2>2, <2>3 DEF Chunk
<1>2. CASE EmbedBegin(r)
  <2>1. CASE DbFails /\ AttemptFails(r, "embed")
    <3>1. session' = "broken"
      BY <2>1 DEF DbFails
    <3>2. \A c \in Contents \ {document[r]} : embeddings'[c] = embeddings[c]
      BY <1>u DEF SameDocument
    <3> QED
      BY <1>2, <1>d, <1>b, <1>u, <2>1, <3>1, <3>2, FailedStep DEF EmbedBegin
  <2>2. CASE \/ chunks[document[r]] # 0 /\ Move(r, "encode")
             \/ /\ chunks[document[r]] = 0 /\ Advance(r, "index", "indexing")
                /\ UNCHANGED embeddings
    <3>1. /\ \A s \in Runs \ {r} : SameRun(s)
          /\ disk'[r] = disk[r]
          /\ \/ /\ pc'[r] = "encode" /\ status'[r] = status[r]
                /\ chunks[document[r]] # 0
             \/ /\ pc'[r] = "index" /\ status'[r] = "indexing"
                /\ chunks[document[r]] = 0
      BY <1>2, <1>u, <1>i, <2>2
      DEF SameRun, TypeOK, ControlOK, EmbedBegin, Move, Advance
    <3>2. RunInv(r)'
      BY <1>2, <1>i, <1>d, <1>u, <3>1
      DEF EmbedBegin, RunInv, HasDocument, ParseProgress, StoredSoFar,
          Finished, Registered, BeforeDocument, WithDocument, Places, Ended
    <3> QED
      BY <1>b, <1>u, <3>1, <3>2, RunStep
  <2> QED
    BY <1>2, <2>1, <2>2 DEF EmbedBegin
<1>3. CASE EmbedEnd(r)
  <2>1. CASE DbFails /\ AttemptFails(r, "embed") /\ UNCHANGED embeddings
    <3>1. session' = "broken"
      BY <2>1 DEF DbFails
    <3> QED
      BY <1>3, <1>d, <1>b, <1>u, <2>1, <3>1, FailedStep DEF EmbedEnd
  <2>2. CASE /\ \E e \in {"COMPLETED", "FAILED"} :
                  embeddings' = [embeddings EXCEPT ![document[r]] = e]
             /\ Advance(r, "index", "indexing")
    <3>1. /\ \A s \in Runs \ {r} : SameRun(s)
          /\ pc'[r] = "index" /\ status'[r] = "indexing"
          /\ disk'[r] = disk[r]
          /\ embeddings'[document[r]] \in {"COMPLETED", "FAILED"}
      BY <1>3, <1>u, <1>i, <1>d, <2>2
      DEF SameRun, TypeOK, ControlOK, TablesOK, EmbedEnd, Advance
    <3>2. RunInv(r)'
      BY <1>3, <1>i, <1>d, <1>u, <3>1
      DEF EmbedEnd, RunInv, HasDocument, ParseProgress, StoredSoFar, Finished,
          Registered, BeforeDocument, WithDocument, Places, Ended
    <3> QED
      BY <1>b, <1>u, <3>1, <3>2, RunStep
  <2> QED
    BY <1>3, <2>1, <2>2 DEF EmbedEnd
<1>4. CASE Index(r)
  <2>1. CASE DbFails /\ AttemptFails(r, "index")
    <3>1. session' = "broken"
      BY <2>1 DEF DbFails
    <3> QED
      BY <1>4, <1>d, <1>b, <1>u, <2>1, <3>1, FailedStep DEF Index
  <2>2. CASE Settle(r, "completed", "none") \/ Advance(r, "graph", "indexing")
    <3>1. /\ \A s \in Runs \ {r} : SameRun(s)
          /\ \/ /\ pc'[r] = "returned"
             \/ /\ pc'[r] = "graph" /\ status'[r] = "indexing"
                /\ disk'[r] = disk[r]
      BY <1>4, <1>u, <1>i, <2>2, SettleFate
      DEF SameRun, TypeOK, ControlOK, Index, Advance, Terminal
    <3>2. RunInv(r)'
      BY <1>4, <1>i, <1>d, <1>u, <3>1
      DEF Index, RunInv, HasDocument, ParseProgress, StoredSoFar, Finished,
          Registered, BeforeDocument, WithDocument, Places, Ended
    <3> QED
      BY <1>b, <1>u, <3>1, <3>2, RunStep
  <2> QED
    BY <1>4, <2>1, <2>2 DEF Index
<1>5. CASE ExtractGraph(r)
  <2>1. /\ \A s \in Runs \ {r} : SameRun(s)
        /\ pc'[r] = "returned"
    BY <1>5, <1>u, <1>i, SettleFate
    DEF SameRun, TypeOK, ExtractGraph, Terminal
  <2>2. RunInv(r)'
    BY <1>5, <1>i, <1>d, <1>u, <2>1
    DEF ExtractGraph, RunInv, HasDocument, ParseProgress, StoredSoFar,
        Finished, Registered, BeforeDocument, WithDocument, Places, Ended
  <2> QED
    BY <1>b, <1>u, <2>1, <2>2, RunStep
<1> QED
  BY <1>1, <1>2, <1>3, <1>4, <1>5

(* Status changes by hand, and a restart.                                  *)
LEMMA OthersInv ==
  ASSUME IInv, TypeOK',
         \/ \E q \in Patches, c \in Contents, s \in StatusEnum :
              PatchRead(q, c, s)
         \/ \E q \in Patches : PatchWrite(q)
         \/ AuditFails \/ Restart
  PROVE  IInv'
<1> USE DEF tables, record, store, request, parsing, budget
<1>i. TypeOK
  BY DEF IInv
<1>t. /\ UNCHANGED <<document, pages, chunks, embeddings, checksum, view, entered>>
      /\ \A c \in Contents : SameDocument(c)
  <2>1. CASE \E q \in Patches, c \in Contents, s \in StatusEnum :
               PatchRead(q, c, s)
    BY <2>1 DEF PatchRead, SameDocument, Registered
  <2>2. CASE \E q \in Patches : PatchWrite(q)
    <3>1. PICK q \in Patches : PatchWrite(q)
      BY <2>2
    <3>2. patch[q].target \in StatusEnum /\ patch[q].doc \in Contents
      BY <1>i, <3>1 DEF PatchWrite, TypeOK, PatchOK
    <3>3. \A c \in Contents : Registered(c) => docs'[c] # ABSENT
      BY <1>i, <3>1, <3>2
      DEF PatchWrite, TypeOK, TablesOK, Registered, StatusEnum, ABSENT
    <3> QED
      BY <3>1, <3>3 DEF PatchWrite, SameDocument
  <2>3. CASE AuditFails \/ Restart
    BY <2>3 DEF AuditFails, Restart, SameDocument, Registered
  <2> QED
    BY <2>1, <2>2, <2>3
<1>1. ASSUME NEW s \in Runs PROVE RunInv(s)'
  <2>i. RunInv(s)
    BY DEF IInv
  <2>1. CASE Restart /\ pc[s] \notin {"idle"} \union Ended
    <3>1. /\ pc'[s] \in Ended
          /\ "completed" \notin {status'[s], disk'[s]}
      BY <2>1, <2>i
      DEF Restart, ReadBack, TypeOK, RunInv, Finished, Ended
    <3> QED
      BY <1>i, <1>t, <2>i, <3>1, Stopped
  <2>2. CASE Restart /\ pc[s] \in {"idle"} \union Ended
    <3>1. pc'[s] = pc[s] /\ status'[s] = disk[s] /\ disk' = disk
      BY <2>2 DEF Restart, ReadBack, TypeOK, ControlOK
    <3>2. HasDocument(s)' /\ StoredSoFar(s)' /\ Finished(s)'
      BY <1>t, <2>i, <2>2, <3>1, ContentAssumption
      DEF RunInv, HasDocument, StoredSoFar, Finished, SameDocument,
          BeforeDocument, WithDocument, Ended, TypeOK, RequestOK, Registered
    <3>3. ParseProgress(s)'
      BY <1>t, <2>i, <2>2, <3>1
      DEF RunInv, ParseProgress, BeforeDocument, WithDocument, Ended
    <3> QED
      BY <3>2, <3>3 DEF RunInv
  <2>3. CASE ~Restart
    <3>1. SameRun(s) /\ StaysBroken
      BY <1>t, <2>3 DEF PatchRead, PatchWrite, AuditFails, SameRun, StaysBroken
    <3> QED
      BY <1>i, <1>t, <2>i, <3>1, Frame
  <2> QED
    BY <2>1, <2>2, <2>3
<1>2. OneRunPerDocument'
  BY <1>t DEF IInv, OneRunPerDocument
<1>3. UntouchedInv'
  BY <1>t DEF IInv, UntouchedInv
<1> QED
  BY <1>1, <1>2, <1>3 DEF IInv
-----------------------------------------------------------------------------
LEMMA InitInv == Init => IInv
<1> SUFFICES ASSUME Init PROVE IInv
  OBVIOUS
<1> USE DEF Init
<1>1. TypeOK
  <2>1. 1 \in 1..MaxAttempts /\ 0 \in 0..MaxFaults /\ 0 \in 0..MaxCrashes
    BY BoundsAssumption
  <2>2. TablesOK
    BY DEF TablesOK
  <2>3. ControlOK
    BY <2>1 DEF ControlOK, Places, RunStatus
  <2>4. RequestOK
    BY DEF RequestOK
  <2>5. PatchOK
    BY DEF PatchOK
  <2> QED
    BY <2>1, <2>2, <2>3, <2>4, <2>5 DEF TypeOK, BudgetOK
<1>2. OneRunPerDocument /\ UntouchedInv
  BY DEF OneRunPerDocument, UntouchedInv
<1>3. ASSUME NEW r \in Runs PROVE RunInv(r)
  BY ContentAssumption
  DEF RunInv, HasDocument, ParseProgress, StoredSoFar, Finished,
      BeforeDocument, WithDocument
<1> QED
  BY <1>1, <1>2, <1>3 DEF IInv

LEMMA NextInv == IInv /\ [Next]_vars => IInv'
<1> SUFFICES ASSUME IInv, [Next]_vars PROVE IInv'
  OBVIOUS
<1>i. TypeOK /\ \A r \in Runs : HasDocument(r)
  BY DEF IInv, RunInv
<1>s. UrlRuns \subseteq Runs /\ UploadRuns \subseteq Runs
  BY DEF Runs
<1>1. ASSUME NEW r \in Runs,
             UploadStep(r) \/ \E c \in Contents : UploadCheck(r, c)
      PROVE  IInv'
  BY <1>1, <1>i, UploadTyped, UploadInv
<1>2. ASSUME NEW r \in Runs,
             UrlStep(r) \/ \E force \in BOOLEAN : Trigger(r, force)
      PROVE  IInv'
  BY <1>2, <1>i, UrlTyped, UrlInv
<1>3. ASSUME NEW r \in Runs, ProcessStep(r)
      PROVE  IInv'
  <2>1. CASE ParseLoad(r) \/ ParseBegin(r) \/ Refresh(r) \/ ParseBody(r)
               \/ ParseEnd(r)
    BY <1>i, <2>1, ParseTyped, ParseInv
  <2>2. CASE Chunk(r) \/ EmbedBegin(r) \/ EmbedEnd(r) \/ Index(r)
               \/ ExtractGraph(r)
    BY <1>i, <2>2, ChunkTyped, ProcessInv
  <2> QED
    BY <1>3, <2>1, <2>2 DEF ProcessStep
<1>4. CASE \/ \E q \in Patches, c \in Contents, s \in StatusEnum :
                PatchRead(q, c, s)
           \/ \E q \in Patches : PatchWrite(q)
           \/ AuditFails \/ Restart
  BY <1>4, <1>i, OthersTyped, OthersInv
<1>5. CASE UNCHANGED vars
  BY <1>5
  DEF vars, tables, record, store, request, parsing, budget, IInv, TypeOK, TablesOK,
      ControlOK, RequestOK, PatchOK, BudgetOK, OneRunPerDocument, UntouchedInv,
      RunInv, HasDocument, ParseProgress, StoredSoFar, Finished, Registered
<1> QED
  BY <1>s, <1>1, <1>2, <1>3, <1>4, <1>5 DEF Next, Step
-----------------------------------------------------------------------------
(* The inductive invariant holds in every reachable state.                 *)
THEOREM Invariance == Spec => []IInv
BY InitInv, NextInv, PTL DEF Spec

(* Every variable keeps its type, whatever the requests, faults, restarts  *)
(* and status changes by hand.  TypeOK is not inductive: that the lookup   *)
(* of a document finds a status needs HasDocument.                         *)
THEOREM TypeCorrect == Spec => []TypeOK
<1>1. IInv => TypeOK
  BY DEF IInv
<1> QED
  BY <1>1, Invariance, PTL

(* register_document, the check for duplicates and the UNIQUE checksum     *)
(* leave one run per document, for any number of concurrent runs.          *)
THEOREM OneWinner == Spec => []OneRunPerDocument
<1>1. IInv => OneRunPerDocument
  BY DEF IInv
<1> QED
  BY <1>1, Invariance, PTL

(* As long as no status is changed by hand, a run of parse_document gets   *)
(* past the update to PARSING once, for any number of retries, faults and  *)
(* concurrent runs.                                                        *)
THEOREM ParsedOnce ==
  ASSUME Patches = {}
  PROVE  Spec => []ParserEnteredOnce
<1>1. IInv => ParserEnteredOnce
  BY DEF IInv, RunInv, ParseProgress, ParserEnteredOnce
<1> QED
  BY <1>1, Invariance, PTL

(* No document has its pages or its chunks stored twice.                   *)
THEOREM NeverStoredTwice == Spec => []StoredOnce
<1>1. ASSUME IInv, NEW c \in Contents
      PROVE  pages[c] <= 1 /\ chunks[c] <= 1
  <2>1. CASE \E r \in Runs : document[r] = c
    BY <1>1, <2>1 DEF IInv, RunInv, StoredSoFar
  <2>2. CASE \A r \in Runs : document[r] # c
    BY <1>1, <2>2 DEF IInv, UntouchedInv
  <2> QED
    BY <2>1, <2>2
<1>2. IInv => StoredOnce
  BY <1>1 DEF StoredOnce
<1> QED
  BY <1>2, Invariance, PTL

(* A completed run has a document that is processed, restarts included.    *)
THEOREM CompletedSound == Spec => []CompletedIsProcessed
<1>1. IInv => CompletedIsProcessed
  BY ContentAssumption
  DEF IInv, RunInv, HasDocument, Finished, CompletedIsProcessed
<1> QED
  BY <1>1, Invariance, PTL

(* Only the run of a document stores something of it, and only while it is *)
(* going on.                                                               *)
LEMMA NextLeavesEnded ==
  ASSUME IInv, [Next]_vars, NEW r \in Runs,
         pc[r] \in Ended, document[r] # NoContent
  PROVE  LET c == document[r] IN
         pages'[c] = pages[c] /\ chunks'[c] = chunks[c]
           /\ embeddings'[c] = embeddings[c]
<1> USE DEF tables, record, store, request, parsing, budget, vars
<1>1. CASE \E s \in Runs : ParseBody(s) \/ Chunk(s) \/ EmbedBegin(s) \/ EmbedEnd(s)
  <2>1. PICK s \in Runs : ParseBody(s) \/ Chunk(s) \/ EmbedBegin(s) \/ EmbedEnd(s)
    BY <1>1
  <2>2. s # r
    BY <2>1 DEF ParseBody, Chunk, EmbedBegin, EmbedEnd, Ended
  <2>3. document[s] # document[r]
    BY <2>2 DEF IInv, OneRunPerDocument
  <2> QED
    BY <2>1, <2>3
    DEF IInv, TypeOK, TablesOK, RequestOK, ParseBody, Chunk, EmbedBegin,
        EmbedEnd
<1>2. CASE UNCHANGED <<pages, chunks, embeddings>>
  BY <1>2
<1>3. CASE \E s \in Runs : UploadStep(s) \/ UrlStep(s)
  BY <1>2, <1>3
  DEF UploadStep, UrlStep, StoreBlob, UploadRegister, UploadStart, Lookup,
      Download, DuplicateCheck, SaveDownload, RegisterCheck, RegisterInsert
<1>4. CASE \E s \in Runs : ParseLoad(s) \/ ParseBegin(s) \/ Refresh(s)
                             \/ ParseEnd(s) \/ Index(s) \/ ExtractGraph(s)
  BY <1>2, <1>4
  DEF ParseLoad, ParseBegin, Refresh, ParseEnd, Index, ExtractGraph
<1> QED
  BY <1>1, <1>2, <1>3, <1>4
  DEF Next, Step, ProcessStep, UploadCheck, Trigger, PatchRead, PatchWrite,
      AuditFails, Restart

(* What an ended run left undone of its document stays undone.             *)
THEOREM NothingResumes == Spec => AbandonedStaysUndone
<1>1. IInv /\ [Next]_vars =>
        [\A r \in Runs :
           pc[r] \in Ended /\ document[r] # NoContent =>
             LET c == document[r] IN
             /\ pages'[c] = pages[c] /\ chunks'[c] = chunks[c]
             /\ embeddings'[c] = embeddings[c]]_vars
  BY NextLeavesEnded
<1> QED
  BY <1>1, Invariance, PTL DEF Spec, AbandonedStaysUndone

-----------------------------------------------------------------------------
(* What AnswerSurvivesRestart rests on: a run that has not ended is at     *)
(* most pending in ingestion.jsonl, one that has ended is that, or what it *)
(* ended with, and surely so if no line was lost before it.                *)
MayKnow(r, s) == s \in {shown[r], "pending", "none"}

AnswerKept(r) ==
  /\ shown[r] = "none" => disk[r] \in {"none", "pending"} /\ r \notin safe
  /\ shown[r] \in Terminal =>
       /\ pc[r] \in Ended
       /\ MayKnow(r, status[r]) /\ MayKnow(r, disk[r])
       /\ r \in safe => status[r] = shown[r] /\ disk[r] = shown[r]
       /\ r \in UrlRuns => answer[r] = shown[r]

AnswerInv == \A r \in Runs : AnswerKept(r)

(* A run that has not ended takes a step of its own: it answers nothing,   *)
(* refuses, or settles.                                                    *)
Settles(r, a) ==
  /\ shown'[r] = a /\ pc'[r] \in Ended /\ status'[r] = a
  /\ disk'[r] \in {disk[r], a}
  /\ r \in safe' => r \in safe \/ disk'[r] = a
  /\ r \in UrlRuns => answer'[r] = a

Answers(r) ==
  \/ shown'[r] = shown[r] /\ (r \in safe' <=> r \in safe)
       /\ disk'[r] \in {disk[r], "pending"}
  \/ \E a \in Terminal : Settles(r, a)

OthersStay(r) ==
  \A s \in Runs \ {r} :
    /\ pc'[s] = pc[s] /\ status'[s] = status[s] /\ disk'[s] = disk[s]
    /\ answer'[s] = answer[s] /\ shown'[s] = shown[s]
    /\ s \in safe' <=> s \in safe

LEMMA SettleAnswers ==
  ASSUME ControlOK, RunsAssumption, NEW r \in Runs, NEW s \in Terminal, NEW step,
         Settle(r, s, step)
  PROVE  OthersStay(r) /\ Answers(r)
<1>1. /\ pc'[r] \in Ended /\ status'[r] = s /\ disk'[r] \in {disk[r], s}
      /\ \A q \in Runs \ {r} : pc'[q] = pc[q] /\ status'[q] = status[q]
                               /\ disk'[q] = disk[q]
  BY SettleFate DEF Ended
<1>2. /\ shown'[r] = s
      /\ \A q \in Runs \ {r} : answer'[q] = answer[q] /\ shown'[q] = shown[q]
      /\ r \in UrlRuns => answer'[r] = s
  BY DEF ControlOK, Settle
<1>3. \A q \in Runs \ {r} : q \in safe' <=> q \in safe
  BY DEF Settle
<1>4. r \in safe' => r \in safe \/ disk'[r] = s
  BY DEF ControlOK, Settle, AppendRun
<1>5. Settles(r, s)
  BY <1>1, <1>2, <1>4 DEF Settles
<1> QED
  BY <1>1, <1>2, <1>3, <1>5 DEF Answers, OthersStay

LEMMA OutcomesAnswer ==
  ASSUME ControlOK, NEW r \in Runs, NEW step, NEW s, NEW place,
         \/ Advance(r, place, s) \/ Move(r, place) \/ AttemptFails(r, step)
         \/ Escape(r, "rejected") \/ Escape(r, "error")
         \/ s \in Terminal /\ Settle(r, s, step)
         \/ UNCHANGED <<pc, record, reason, attempt>>
  PROVE  OthersStay(r) /\ Answers(r)
<1>1. CASE \/ s \in Terminal /\ Settle(r, s, step)
           \/ Settle(r, "failed", step)
  BY <1>1, SettleAnswers, RunsAssumption DEF Terminal
<1>2. CASE \/ Advance(r, place, s) \/ Move(r, place) \/ Retry(r)
           \/ UNCHANGED <<pc, record, reason, attempt>>
  BY <1>2
  DEF ControlOK, Advance, Move, Retry, record, store, Answers, OthersStay
<1>3. CASE Escape(r, "rejected") \/ Escape(r, "error")
  BY <1>3 DEF ControlOK, Escape, store, Answers, OthersStay
<1> QED
  BY <1>1, <1>2, <1>3 DEF AttemptFails

LEMMA StepAnswers ==
  ASSUME ControlOK, NEW r \in Runs,
         \/ Step(r)
         \/ \E c \in Contents : UploadCheck(r, c)
         \/ \E force \in BOOLEAN : Trigger(r, force)
  PROVE  pc[r] \notin Ended /\ OthersStay(r) /\ Answers(r)
<1>1. CASE \E c \in Contents : UploadCheck(r, c)
  BY <1>1, OutcomesAnswer DEF UploadCheck, Ended
<1>2. CASE \E force \in BOOLEAN : Trigger(r, force)
  BY <1>2, AppendFate DEF Trigger, ControlOK, Answers, OthersStay, Ended
<1>3. CASE UploadStep(r)
  <2>1. CASE UploadStart(r)
    BY <2>1, AppendFate DEF UploadStart, ControlOK, Answers, OthersStay, Ended
  <2>2. CASE StoreBlob(r) \/ UploadRegister(r) \/ Lookup(r)
    BY <2>2, OutcomesAnswer
    DEF StoreBlob, UploadRegister, Lookup, Ended, Terminal
  <2> QED
    BY <1>3, <2>1, <2>2 DEF UploadStep
<1>4. CASE UrlStep(r)
  <2>1. CASE Download(r)
    BY <2>1, OutcomesAnswer DEF Download, Ended
  <2>2. CASE DuplicateCheck(r) \/ SaveDownload(r)
    BY <2>2, OutcomesAnswer DEF DuplicateCheck, SaveDownload, Ended, Terminal
  <2>3. CASE RegisterCheck(r) \/ RegisterInsert(r)
    BY <2>3, OutcomesAnswer DEF RegisterCheck, RegisterInsert, Ended, Terminal
  <2> QED
    BY <1>4, <2>1, <2>2, <2>3 DEF UrlStep
<1>5. CASE ProcessStep(r)
  <2>1. CASE ParseLoad(r) \/ ParseBegin(r)
    BY <2>1, OutcomesAnswer DEF ParseLoad, ParseBegin, Ended
  <2>2. CASE Refresh(r)
    BY <2>2, OutcomesAnswer DEF Refresh, Ended
  <2>3. CASE ParseBody(r) \/ ParseEnd(r)
    BY <2>3, OutcomesAnswer DEF ParseBody, ParseEnd, Ended
  <2>4. CASE Chunk(r) \/ Index(r)
    BY <2>4, OutcomesAnswer DEF Chunk, Index, Ended, Terminal
  <2>5. CASE EmbedBegin(r) \/ EmbedEnd(r)
    BY <2>5, OutcomesAnswer DEF EmbedBegin, EmbedEnd, Ended
  <2>6. CASE ExtractGraph(r)
    BY <2>6, OutcomesAnswer DEF ExtractGraph, Ended, Terminal
  <2> QED
    BY <1>5, <2>1, <2>2, <2>3, <2>4, <2>5, <2>6 DEF ProcessStep
<1> QED
  BY <1>1, <1>2, <1>3, <1>4, <1>5 DEF Step

LEMMA AnswersKept ==
  ASSUME ControlOK, AnswerInv, [Next]_vars
  PROVE  AnswerInv'
<1> SUFFICES ASSUME NEW s \in Runs PROVE AnswerKept(s)'
  BY DEF AnswerInv
<1>0. AnswerKept(s)
  BY DEF AnswerInv
<1>1. ASSUME NEW r \in Runs, pc[r] \notin Ended, OthersStay(r), Answers(r)
      PROVE  AnswerKept(s)'
  <2>1. CASE s # r
    BY <1>0, <1>1, <2>1 DEF AnswerKept, MayKnow, OthersStay
  <2>2. CASE s = r
    <3>1. /\ shown[r] = "none" /\ disk[r] \in {"none", "pending"}
          /\ r \notin safe
      BY <1>0, <1>1, <2>2 DEF AnswerKept, ControlOK
    <3>2. CASE \E a \in Terminal : Settles(r, a)
      BY <2>2, <3>1, <3>2 DEF Settles, AnswerKept, MayKnow, Terminal
    <3>3. CASE ~ \E a \in Terminal : Settles(r, a)
      BY <1>1, <2>2, <3>1, <3>3 DEF Answers, AnswerKept, Terminal
    <3> QED
      BY <3>2, <3>3
  <2> QED
    BY <2>1, <2>2
<1>2. CASE \/ \E r \in Runs : Step(r)
           \/ \E r \in UploadRuns, c \in Contents : UploadCheck(r, c)
           \/ \E r \in UrlRuns, force \in BOOLEAN : Trigger(r, force)
  BY <1>1, <1>2, StepAnswers DEF Runs
<1>3. CASE Restart
  BY <1>0, <1>3
  DEF Restart, ReadBack, store, AnswerKept, MayKnow, ControlOK, Ended
<1>4. CASE \/ \E q \in Patches, c \in Contents, t \in StatusEnum :
                PatchRead(q, c, t)
           \/ \E q \in Patches : PatchWrite(q)
           \/ AuditFails
  BY <1>0, <1>4
  DEF PatchRead, PatchWrite, AuditFails, AnswerKept, MayKnow, record, store
<1>5. CASE UNCHANGED vars
  BY <1>0, <1>5 DEF vars, record, store, AnswerKept, MayKnow
<1> QED
  BY <1>2, <1>3, <1>4, <1>5 DEF Next

(* For any number of runs, failed appends and restarts: what a restart     *)
(* finds of a run that ended is its end or an earlier state, and its end   *)
(* if that was appended before a line was cut.                             *)
THEOREM AnswersSurvive == Spec => []AnswerSurvivesRestart
<1>1. Init => AnswerInv
  BY DEF Init, AnswerInv, AnswerKept, Terminal
<1>2. IInv => ControlOK
  BY DEF IInv, TypeOK
<1>3. AnswerInv => AnswerSurvivesRestart
  BY DEF AnswerInv, AnswerKept, MayKnow, AnswerSurvivesRestart
<1> QED
  BY <1>1, <1>2, <1>3, AnswersKept, Invariance, PTL DEF Spec
=============================================================================
