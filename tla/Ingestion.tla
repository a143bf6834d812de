----------------------------- MODULE Ingestion -----------------------------
(***************************************************************************)
(* The ingestion pipeline and the document registry it fills.              *)
(*                                                                         *)
(* A run is started by POST /ingestion/run (UrlRuns: download, check for a *)
(* duplicate, save, register) or by POST /documents/upload (UploadRuns:    *)
(* the file is stored and registered by the request, then the pipeline     *)
(* looks the document up).  From there both kinds parse, chunk, embed and  *)
(* index.  Every handler is a coroutine of one event loop: an action below *)
(* is what one run does between two awaits at which something else may     *)
(* happen.  All runs share the one database session of the service         *)
(* singleton, which nothing ever rolls back; uploads register, and         *)
(* administrators change a status, through a session of their own request. *)
(*                                                                         *)
(* A document is identified with its checksum, which the table declares    *)
(* UNIQUE, and a checksum with the content it is computed from.            *)
(***************************************************************************)
EXTENDS Naturals, DocumentLifecycle

CONSTANTS
  UrlRuns,       \* the runs started by URL
  UploadRuns,    \* the runs started by an upload
  Contents,      \* what can be downloaded or uploaded
  NoContent,     \* a run that has no checksum or no document yet
  Patches,       \* the requests that change a document's status by hand
  MaxAttempts,   \* FailureRecovery.max_retries
  MaxFaults,     \* bound: statements and appends that fail
  MaxCrashes     \* bound: restarts of the process

ASSUME RunsAssumption == UrlRuns \intersect UploadRuns = {}
ASSUME ContentAssumption == NoContent \notin Contents
ASSUME BoundsAssumption ==
  /\ MaxAttempts \in Nat \ {0}
  /\ MaxFaults \in Nat
  /\ MaxCrashes \in Nat

VARIABLES
  docs,       \* documents table: the status of each content, or ABSENT
  pages,      \* how many times the pages of each document were stored
  chunks,     \* how many times its chunks, if it has any, were stored
  embeddings, \* the status of its chunk embeddings
  session,    \* the service's AsyncSession
  pc,         \* where each run's coroutine is
  status,     \* IngestionRun.status in memory
  disk,       \* the status of the run in what a start reads of ingestion.jsonl
  journal,    \* whether that is the whole file or a bad line cuts it off
  answer,     \* what the caller was told
  shown,      \* history: the status GET /ingestion/runs has of an ended run
  safe,       \* history: the runs whose end was appended before a bad line
  forced,     \* IngestionTriggerRequest.force
  checksum,   \* IngestionRun.checksum, known once the bytes are
  document,   \* IngestionRun.document_id
  reason,     \* IngestionRun.failure_reason: the step that failed
  attempt,    \* FailureRecovery's loop counter
  view,       \* the status of the Document object the run keeps alive
  entered,    \* history: times the run got past the update to PARSING
  blob,       \* whether the upload's file was written to storage
  patch,      \* the status changes by hand
  faults, losses, crashes

tables   == <<docs, pages, chunks, embeddings>>
store    == <<disk, journal, losses>>
record   == <<status, store, answer, shown, safe>>
request  == <<forced, checksum, document, blob>>
parsing  == <<view, entered>>
budget   == <<faults, crashes>>
vars == <<tables, session, pc, record, request, reason, attempt, parsing,
          patch, budget>>

Runs == UrlRuns \union UploadRuns
ABSENT == "ABSENT"
Unloaded == "UNLOADED"   \* the run holds no Document object

Registered(c) == docs[c] # ABSENT

RunStatus == {"none", "pending", "downloading", "downloaded", "parsing",
              "chunking", "embedding", "indexing",
              "completed", "failed", "skipped"}
Terminal == {"completed", "failed", "skipped"}

Ended == {"returned", "raised", "lost"}
Places == {"idle", "store", "enter", "start", "lookup", "download", "dupcheck",
           "save", "regcheck", "reginsert", "parse", "begun", "body",
           "parsed", "ended", "failing", "chunk", "embed", "encode", "index", "graph"} \union Ended

Init ==
  /\ docs = [c \in Contents |-> ABSENT]
  /\ pages = [c \in Contents |-> 0]
  /\ chunks = [c \in Contents |-> 0]
  /\ embeddings = [c \in Contents |-> "NONE"]
  /\ session = "usable"
  /\ pc = [r \in Runs |-> "idle"]
  /\ status = [r \in Runs |-> "none"]
  /\ disk = [r \in Runs |-> "none"]
  /\ journal = "whole"
  /\ shown = [r \in Runs |-> "none"]
  /\ safe = {}
  /\ answer = [r \in Runs |-> "none"]
  /\ forced = [r \in Runs |-> FALSE]
  /\ checksum = [r \in Runs |-> NoContent]
  /\ document = [r \in Runs |-> NoContent]
  /\ reason = [r \in Runs |-> "none"]
  /\ attempt = [r \in Runs |-> 1]
  /\ view = [r \in Runs |-> Unloaded]
  /\ entered = [r \in Runs |-> 0]
  /\ blob = [r \in Runs |-> FALSE]
  /\ patch = [q \in Patches |-> [at |-> "idle"]]
  /\ faults = 0
  /\ losses = 0
  /\ crashes = 0
-----------------------------------------------------------------------------
(***************************************************************************)
(* The shared session.  A statement that fails leaves it in a transaction  *)
(* that must be rolled back, and nothing does: every later statement on it *)
(* fails too, until the process is restarted.                              *)
(***************************************************************************)
DbOk == session = "usable" /\ UNCHANGED <<session, faults>>

DbFails ==
  \/ session = "broken" /\ UNCHANGED <<session, faults>>
  \/ /\ session = "usable" /\ faults + losses < MaxFaults
     /\ session' = "broken"
     /\ faults' = faults + 1
-----------------------------------------------------------------------------
(***************************************************************************)
(* The run store appends a line for a run, or for an entry of its audit    *)
(* trail, to one file.  An append that fails is only logged: the line is   *)
(* missing, or a piece of it is there, and _load stops for good at the     *)
(* first line that cannot be parsed, whatever follows it.                  *)
(***************************************************************************)
AppendRun(r, s) ==
  \/ /\ disk' = IF journal = "cut" THEN disk ELSE [disk EXCEPT ![r] = s]
     /\ UNCHANGED <<journal, losses>>
  \/ /\ faults + losses < MaxFaults
     /\ losses' = losses + 1
     /\ journal' \in {journal, "cut"}
     /\ UNCHANGED disk

(* Mutant: a file with a bad line is not read at all.                      *)
ReadBackWhole ==
  [r \in Runs |-> IF journal = "cut" THEN "none" ELSE disk[r]]

(* What a start reads: the lines before the first bad one.                 *)
ReadBack == disk
-----------------------------------------------------------------------------
(***************************************************************************)
(* How a step of a run ends: the next step begins, the handler returns     *)
(* (the run is stored again and the caller answered), an exception leaves  *)
(* the handler (the run stays as it is), or FailureRecovery tries again.   *)
(***************************************************************************)
Advance(r, place, s) ==
  /\ pc' = [pc EXCEPT ![r] = place]
  /\ status' = [status EXCEPT ![r] = s]
  /\ attempt' = [attempt EXCEPT ![r] = 1]
  /\ UNCHANGED <<store, answer, shown, safe, reason>>

(* The final status is stored; then the caller is answered: a run by URL   *)
(* with its status, an upload with "processing" whatever came of it.       *)
Settle(r, s, why) ==
  /\ pc' = [pc EXCEPT ![r] = "returned"]
  /\ status' = [status EXCEPT ![r] = s]
  /\ AppendRun(r, s)
  /\ answer' = [answer EXCEPT ![r] = IF r \in UploadRuns THEN "processing" ELSE s]
  /\ shown' = [shown EXCEPT ![r] = s]
  /\ safe' = IF journal = "whole" /\ losses' = losses THEN safe \union {r} ELSE safe
  /\ reason' = [reason EXCEPT ![r] = why]
  /\ UNCHANGED attempt

Escape(r, response) ==
  /\ pc' = [pc EXCEPT ![r] = "raised"]
  /\ answer' = [answer EXCEPT ![r] = response]
  /\ UNCHANGED <<status, store, shown, safe, reason, attempt>>

StepStart(place) ==
  CASE place \in {"begun", "body", "parsed", "ended", "failing"} -> "parse"
    [] place = "encode"             -> "embed"
    [] OTHER                        -> place

(* Mutant: a loop that does not count.                                    *)
RetryForever(r) ==
  /\ attempt[r] < MaxAttempts
  /\ pc' = [pc EXCEPT ![r] = StepStart(@)]
  /\ UNCHANGED <<record, reason, attempt>>

Retry(r) ==
  /\ attempt[r] < MaxAttempts
  /\ attempt' = [attempt EXCEPT ![r] = @ + 1]
  /\ pc' = [pc EXCEPT ![r] = StepStart(@)]
  /\ UNCHANGED <<record, reason>>

AttemptFails(r, step) ==
  \/ Retry(r)
  \/ attempt[r] >= MaxAttempts /\ Settle(r, "failed", step)
-----------------------------------------------------------------------------

(* An upload: check the checksum, write the file, register, all in the     *)
(* request; then AutoIngestionService.ingest_upload.                       *)
UploadCheck(r, c) ==
  /\ pc[r] = "idle"
  /\ checksum' = [checksum EXCEPT ![r] = c]
  /\ IF Registered(c)
       THEN Escape(r, "rejected")
       ELSE Advance(r, "store", status[r])
  /\ UNCHANGED <<tables, session, forced, document, blob, parsing, patch,
                 budget>>

StoreBlob(r) ==
  /\ pc[r] = "store"
  /\ blob' = [blob EXCEPT ![r] = TRUE]
  /\ Advance(r, "enter", status[r])
  /\ UNCHANGED <<tables, session, forced, checksum, document, parsing, patch,
                 budget>>

(* register_document in the request's own session: a duplicate, found by   *)
(* the query or by the UNIQUE index, and a failing statement both end the  *)
(* request.                                                                *)
UploadRegister(r) ==
  LET c == checksum[r] IN
  /\ pc[r] = "enter"
  /\ \/ /\ ~Registered(c)
        /\ docs' = [docs EXCEPT ![c] = "UPLOADED"]
        /\ document' = [document EXCEPT ![r] = c]
        /\ Advance(r, "start", status[r])
        /\ UNCHANGED faults
     \/ /\ Registered(c)
        /\ Escape(r, "rejected")
        /\ UNCHANGED <<docs, document, faults>>
     \/ /\ faults + losses < MaxFaults
        /\ faults' = faults + 1
        /\ Escape(r, "rejected")
        /\ UNCHANGED <<docs, document>>
  /\ UNCHANGED <<pages, chunks, embeddings, session, forced, checksum, blob,
                 parsing, patch, crashes>>

UploadStart(r) ==
  /\ pc[r] = "start"
  /\ pc' = [pc EXCEPT ![r] = "lookup"]
  /\ status' = [status EXCEPT ![r] = "pending"]
  /\ AppendRun(r, "pending")
  /\ UNCHANGED <<tables, session, answer, shown, safe, request, reason, attempt,
                 parsing, patch, budget>>

(* get_by_id swallows its exception; the Document it finds stays           *)
(* referenced until the handler returns.                                   *)
Lookup(r) ==
  /\ pc[r] = "lookup"
  /\ \/ /\ DbOk
        /\ view' = [view EXCEPT ![r] = docs[document[r]]]
        /\ Advance(r, "parse", "parsing")
     \/ DbFails /\ Settle(r, "failed", "lookup") /\ UNCHANGED view
  /\ UNCHANGED <<tables, request, entered, patch, crashes>>
-----------------------------------------------------------------------------
(* A run by URL: AutoIngestionService.ingest up to the registration.       *)
Trigger(r, force) ==
  /\ pc[r] = "idle"
  /\ forced' = [forced EXCEPT ![r] = force]
  /\ pc' = [pc EXCEPT ![r] = "download"]
  /\ AppendRun(r, "pending")
  /\ status' = [status EXCEPT ![r] = "downloading"]
  /\ UNCHANGED <<tables, session, answer, shown, safe, checksum, document, blob, reason,
                 attempt, parsing, patch, budget>>

(* Whether the request was forced decides once, what follows the download. *)
Download(r) ==
  /\ pc[r] = "download"
  /\ \/ /\ \E c \in Contents :
             /\ checksum' = [checksum EXCEPT ![r] = c]
             /\ Advance(r, IF forced[r] THEN "save" ELSE "dupcheck",
                        "downloading")
        /\ forced' = [forced EXCEPT ![r] = FALSE]
     \/ AttemptFails(r, "download") /\ UNCHANGED <<checksum, forced>>
  /\ UNCHANGED <<tables, session, document, blob, parsing, patch, budget>>

(* DuplicateDetector.is_duplicate, outside any try.                        *)
DuplicateCheck(r) ==
  /\ pc[r] = "dupcheck"
  /\ \/ DbOk /\ Registered(checksum[r]) /\ Settle(r, "skipped", "none")
     \/ DbOk /\ ~Registered(checksum[r]) /\ Advance(r, "save", "downloading")
     \/ DbFails /\ Escape(r, "error")
  /\ UNCHANGED <<tables, request, parsing, patch, crashes>>

(* The bytes are written outside any try too.                              *)
SaveDownload(r) ==
  /\ pc[r] = "save"
  /\ Advance(r, "regcheck", "downloaded") \/ Escape(r, "error")
  /\ UNCHANGED <<tables, session, request, parsing, patch, budget>>

(* register_document reads the table, then inserts: a payload that does    *)
(* not validate and a checksum already there both fail the run.            *)
RegisterCheck(r) ==
  /\ pc[r] = "regcheck"
  /\ \/ Settle(r, "failed", "register") /\ UNCHANGED <<session, faults>>
     \/ DbOk /\ Registered(checksum[r]) /\ Settle(r, "failed", "duplicate")
     \/ /\ DbOk /\ ~Registered(checksum[r])
        /\ Advance(r, "reginsert", "downloaded")
     \/ DbFails /\ Settle(r, "failed", "register")
  /\ UNCHANGED <<tables, request, parsing, patch, crashes>>

(* Mutant: a checksum column that is not UNIQUE.                           *)
RegisterInsertTwice(r) ==
  LET c == checksum[r] IN
  /\ pc[r] = "reginsert"
  /\ \/ /\ DbOk
        /\ docs' = [docs EXCEPT ![c] = "UPLOADED"]
        /\ document' = [document EXCEPT ![r] = c]
        /\ Advance(r, "parse", "parsing")
     \/ /\ DbFails
        /\ Settle(r, "failed", "register")
        /\ UNCHANGED <<docs, document>>
  /\ UNCHANGED <<pages, chunks, embeddings, forced, checksum, blob, parsing,
                 patch, crashes>>

RegisterInsert(r) ==
  LET c == checksum[r] IN
  /\ pc[r] = "reginsert"
  /\ \/ /\ DbOk /\ ~Registered(c)
        /\ docs' = [docs EXCEPT ![c] = "UPLOADED"]
        /\ document' = [document EXCEPT ![r] = c]
        /\ Advance(r, "parse", "parsing")
     \/ /\ session = "usable" /\ Registered(c)
        /\ session' = "broken"
        /\ Settle(r, "failed", "duplicate")
        /\ UNCHANGED <<docs, document, faults>>
     \/ /\ DbFails
        /\ Settle(r, "failed", "register")
        /\ UNCHANGED <<docs, document>>
  /\ UNCHANGED <<pages, chunks, embeddings, forced, checksum, blob, parsing,
                 patch, crashes>>
-----------------------------------------------------------------------------
(* ParserService.parse_document.  The identity map of the session returns  *)
(* the object a reference is still held to, without reading the table: the *)
(* run's own, and in a retry the one the last exception's traceback holds. *)
ParseLoad(r) ==
  /\ pc[r] = "parse" /\ view[r] = Unloaded
  /\ \/ DbOk /\ view' = [view EXCEPT ![r] = docs[document[r]]]
        /\ UNCHANGED <<pc, record, reason, attempt>>
     \/ DbFails /\ AttemptFails(r, "parse") /\ UNCHANGED view
  /\ UNCHANGED <<tables, request, entered, patch, crashes>>

(* update_document_status: the rule is checked on the loaded object, the   *)
(* update is committed, and only then is the object read again (Refresh).  *)
WriteStatus(r, target) == docs' = [docs EXCEPT ![document[r]] = target]

Move(r, place) ==
  pc' = [pc EXCEPT ![r] = place] /\ UNCHANGED <<record, reason, attempt>>

ParseBegin(r) ==
  /\ pc[r] = "parse" /\ view[r] # Unloaded
  /\ \/ /\ ValidTransition(view[r], "PARSING") /\ DbOk
        /\ WriteStatus(r, "PARSING")
        /\ Move(r, "begun")
        /\ entered' = [entered EXCEPT ![r] = @ + 1]
     \/ /\ ~ValidTransition(view[r], "PARSING") /\ DbOk
        /\ AttemptFails(r, "parse")
        /\ UNCHANGED <<docs, entered>>
     \/ DbFails /\ AttemptFails(r, "parse") /\ UNCHANGED <<docs, entered>>
  /\ UNCHANGED <<pages, chunks, embeddings, view, request, patch, crashes>>

(* The refresh after the commit of PARSING, of PARSED, and of FAILED: what *)
(* a status change by hand committed meanwhile is what the object says.    *)
Refresh(r) ==
  /\ pc[r] \in {"begun", "ended", "failing"}
  /\ \/ /\ DbOk
        /\ view' = [view EXCEPT ![r] = docs[document[r]]]
        /\ \/ pc[r] = "begun" /\ Move(r, "body")
           \/ pc[r] = "ended" /\ Advance(r, "chunk", "chunking")
           \/ pc[r] = "failing" /\ AttemptFails(r, "parse")
     \/ DbFails /\ AttemptFails(r, "parse") /\ UNCHANGED view
  /\ UNCHANGED <<tables, request, entered, patch, crashes>>

(* Mutant: a document that cannot be parsed is FAILED, its run goes on.    *)
ParseBodySwallows(r) ==
  LET c == document[r] IN
  /\ pc[r] = "body"
  /\ \/ /\ DbOk
        /\ WriteStatus(r, "FAILED")
        /\ Advance(r, "chunk", "chunking")
        /\ UNCHANGED <<pages, view>>
     \/ /\ DbOk /\ pages[c] = 0
        /\ pages' = [pages EXCEPT ![c] = @ + 1]
        /\ Move(r, "parsed")
        /\ UNCHANGED <<docs, view>>
     \/ /\ DbFails
        /\ AttemptFails(r, "parse")
        /\ UNCHANGED <<docs, view, pages>>
  /\ UNCHANGED <<chunks, embeddings, request, entered, patch, crashes>>

(* The file is missing or is not a PDF that can be read: FAILED, which     *)
(* every status may become.  Or the page count is updated, if it is a new  *)
(* one, which refreshes the object, and the pages are stored, which their  *)
(* UNIQUE page numbers allow once.  Or a statement fails: then the update  *)
(* to FAILED fails as well.                                                *)
ParseBody(r) ==
  LET c == document[r] IN
  /\ pc[r] = "body"
  /\ \/ /\ DbOk
        /\ WriteStatus(r, "FAILED")
        /\ Move(r, "failing")
        /\ UNCHANGED <<pages, view>>
     \/ /\ DbOk /\ pages[c] = 0
        /\ pages' = [pages EXCEPT ![c] = @ + 1]
        /\ \E seen \in {view[r], docs[c]} : view' = [view EXCEPT ![r] = seen]
        /\ Move(r, "parsed")
        /\ UNCHANGED docs
     \/ /\ session = "usable" /\ pages[c] # 0
        /\ session' = "broken"
        /\ AttemptFails(r, "parse")
        /\ UNCHANGED <<faults, docs, view, pages>>
     \/ /\ DbFails
        /\ AttemptFails(r, "parse")
        /\ UNCHANGED <<docs, view, pages>>
  /\ UNCHANGED <<chunks, embeddings, request, entered, patch, crashes>>

ParseEnd(r) ==
  /\ pc[r] = "parsed"
  /\ \/ /\ ValidTransition(view[r], "PARSED") /\ DbOk
        /\ WriteStatus(r, "PARSED")
        /\ Move(r, "ended")
     \/ /\ ~ValidTransition(view[r], "PARSED") /\ DbOk
        /\ WriteStatus(r, "FAILED")
        /\ Move(r, "failing")
     \/ DbFails /\ AttemptFails(r, "parse") /\ UNCHANGED docs
  /\ UNCHANGED <<pages, chunks, embeddings, view, request, entered, patch,
                 crashes>>
-----------------------------------------------------------------------------

(* The chunker only reads and is retried; register_chunks_bulk is not.     *)
(* Pages without text have no chunks.                                      *)
Chunk(r) ==
  LET c == document[r] IN
  /\ pc[r] = "chunk"
  /\ \/ /\ DbOk
        /\ \E n \in {0, 1} : chunks' = [chunks EXCEPT ![c] = @ + n]
        /\ Advance(r, "embed", "embedding")
     \/ DbOk /\ AttemptFails(r, "chunk") /\ UNCHANGED chunks
     \/ /\ DbFails
        /\ AttemptFails(r, "chunk") \/ Settle(r, "failed", "chunk")
        /\ UNCHANGED chunks
  /\ UNCHANGED <<docs, pages, embeddings, request, parsing, patch, crashes>>

(* process_document_embeddings, for the chunks of one batch: marked        *)
(* PENDING and PROCESSING, encoded, then COMPLETED or, when the encoder    *)
(* keeps failing, FAILED; it returns normally in both cases, and at once   *)
(* when there are no chunks.                                               *)
EmbedBegin(r) ==
  LET c == document[r] IN
  /\ pc[r] = "embed"
  /\ \/ /\ DbOk /\ chunks[c] = 0
        /\ Advance(r, "index", "indexing")
        /\ UNCHANGED embeddings
     \/ /\ DbOk /\ chunks[c] # 0
        /\ embeddings' = [embeddings EXCEPT ![c] = "PROCESSING"]
        /\ Move(r, "encode")
     \/ /\ DbFails
        /\ AttemptFails(r, "embed")
        /\ \/ UNCHANGED embeddings
           \/ /\ session = "usable" /\ chunks[c] # 0
              /\ embeddings' = [embeddings EXCEPT ![c] = "PENDING"]
  /\ UNCHANGED <<docs, pages, chunks, request, parsing, patch, crashes>>

EmbedEnd(r) ==
  LET c == document[r] IN
  /\ pc[r] = "encode"
  /\ \/ /\ DbOk
        /\ \E e \in {"COMPLETED", "FAILED"} :
             embeddings' = [embeddings EXCEPT ![c] = e]
        /\ Advance(r, "index", "indexing")
     \/ DbFails /\ AttemptFails(r, "embed") /\ UNCHANGED embeddings
  /\ UNCHANGED <<docs, pages, chunks, request, parsing, patch, crashes>>

Index(r) ==
  /\ pc[r] = "index"
  /\ \/ DbOk /\ r \in UrlRuns /\ Settle(r, "completed", "none")
     \/ DbOk /\ r \in UploadRuns /\ Advance(r, "graph", "indexing")
     \/ DbFails /\ AttemptFails(r, "index")
  /\ UNCHANGED <<tables, request, parsing, patch, crashes>>

(* The registry adapter keeps the DocumentService as `_service`; the       *)
(* pipeline looks for an attribute `service`.                              *)
RegistryExposesService == FALSE

(* The graph is built on a session of its own, best effort; then the run   *)
(* is finished and the document would be marked INDEXED.                   *)
ExtractGraph(r) ==
  /\ pc[r] = "graph"
  /\ Settle(r, "completed", "none")
  /\ IF RegistryExposesService /\ ValidTransition(view[r], "INDEXED")
       THEN WriteStatus(r, "INDEXED")
       ELSE UNCHANGED docs
  /\ UNCHANGED <<pages, chunks, embeddings, session, request, parsing, patch,
                 budget>>
-----------------------------------------------------------------------------
(* PATCH /documents/{id}/status: the same rule, on a session of its own,   *)
(* which reads the status in one statement and writes it in another.       *)
PatchRead(q, c, target) ==
  /\ patch[q].at = "idle" /\ Registered(c)
  /\ patch' = [patch EXCEPT ![q] =
                 [at |-> "read", doc |-> c, seen |-> docs[c],
                  target |-> target]]
  /\ UNCHANGED <<tables, session, pc, record, request, reason, attempt,
                 parsing, budget>>

PatchWrite(q) ==
  LET p == patch[q] IN
  /\ p.at = "read"
  /\ IF ValidTransition(p.seen, p.target)
       THEN docs' = [docs EXCEPT ![p.doc] = p.target]
       ELSE UNCHANGED docs
  /\ patch' = [patch EXCEPT ![q] = [at |-> "done"]]
  /\ UNCHANGED <<pages, chunks, embeddings, session, pc, record, request,
                 reason, attempt, parsing, budget>>

(* Every step of a run adds an entry to the audit trail, in the same file: *)
(* a piece of one is left.  Nothing else is read from these entries here.  *)
AuditFails ==
  /\ \E r \in Runs : pc[r] \notin {"idle"} \union Ended
  /\ faults + losses < MaxFaults
  /\ losses' = losses + 1
  /\ journal' = "cut"
  /\ UNCHANGED <<tables, session, pc, status, disk, answer, shown, safe, request,
                 reason, attempt, parsing, patch, budget>>

(* The process dies and is started again: coroutines and requests are      *)
(* gone, the store is loaded from its file, the session is a new one.      *)
Restart ==
  /\ crashes < MaxCrashes
  /\ crashes' = crashes + 1
  /\ pc' = [r \in Runs |-> IF pc[r] \in {"idle"} \union Ended
                             THEN pc[r] ELSE "lost"]
  /\ status' = ReadBack
  /\ session' = "usable"
  /\ patch' = [q \in Patches |-> IF patch[q].at = "read"
                                   THEN [at |-> "done"] ELSE patch[q]]
  /\ UNCHANGED <<tables, store, answer, shown, safe, request, reason, attempt,
                 parsing, faults>>
-----------------------------------------------------------------------------
UploadStep(r) ==
  StoreBlob(r) \/ UploadRegister(r) \/ UploadStart(r) \/ Lookup(r)

UrlStep(r) ==
  \/ Download(r) \/ DuplicateCheck(r) \/ SaveDownload(r)
  \/ RegisterCheck(r) \/ RegisterInsert(r)

ProcessStep(r) ==
  \/ ParseLoad(r) \/ ParseBegin(r) \/ Refresh(r) \/ ParseBody(r)
  \/ ParseEnd(r) \/ Chunk(r) \/ EmbedBegin(r) \/ EmbedEnd(r) \/ Index(r) \/ ExtractGraph(r)

Step(r) == UploadStep(r) \/ UrlStep(r) \/ ProcessStep(r)

Next ==
  \/ \E r \in UploadRuns, c \in Contents : UploadCheck(r, c)
  \/ \E r \in UrlRuns, force \in BOOLEAN : Trigger(r, force)
  \/ \E r \in Runs : Step(r)
  \/ \E q \in Patches, c \in Contents, s \in StatusEnum : PatchRead(q, c, s)
  \/ \E q \in Patches : PatchWrite(q)
  \/ AuditFails \/ Restart

Spec == Init /\ [][Next]_vars

(* The event loop resumes every coroutine whose await has an answer, and   *)
(* downloads and statements have one; requests, faults and restarts come   *)
(* as they come.                                                           *)
Fairness == \A r \in Runs : WF_vars(Step(r))

FairSpec == Spec /\ Fairness
-----------------------------------------------------------------------------
TablesOK ==
  /\ docs \in [Contents -> StatusEnum \union {ABSENT}]
  /\ pages \in [Contents -> Nat]
  /\ chunks \in [Contents -> Nat]
  /\ embeddings \in [Contents -> {"NONE", "PENDING", "PROCESSING",
                                  "COMPLETED", "FAILED"}]

ControlOK ==
  /\ pc \in [Runs -> Places]
  /\ status \in [Runs -> RunStatus]
  /\ disk \in [Runs -> {"none", "pending"} \union Terminal]
  /\ journal \in {"whole", "cut"} /\ losses \in Nat
  /\ answer \in [Runs -> {"none", "rejected", "error", "processing"} \union Terminal]
  /\ shown \in [Runs -> {"none"} \union Terminal]
  /\ safe \subseteq Runs
  /\ reason \in [Runs -> {"none", "lookup", "download", "duplicate",
                          "register", "parse", "chunk", "embed", "index"}]
  /\ attempt \in [Runs -> 1..MaxAttempts]

RequestOK ==
  /\ forced \in [Runs -> BOOLEAN]
  /\ checksum \in [Runs -> Contents \union {NoContent}]
  /\ document \in [Runs -> Contents \union {NoContent}]
  /\ view \in [Runs -> StatusEnum \union {Unloaded, ABSENT}]
  /\ entered \in [Runs -> Nat]
  /\ blob \in [Runs -> BOOLEAN]

PatchOK ==
  patch \in [Patches -> [at : {"idle", "done"}] \union
                [at : {"read"}, doc : Contents, seen : StatusEnum,
                 target : StatusEnum]]

BudgetOK ==
  /\ session \in {"usable", "broken"}
  /\ faults \in 0..MaxFaults
  /\ crashes \in 0..MaxCrashes

TypeOK == TablesOK /\ ControlOK /\ RequestOK /\ PatchOK /\ BudgetOK
-----------------------------------------------------------------------------
(* No two runs ever hold the same document: the check for a duplicate, the *)
(* query of register_document and the UNIQUE checksum leave one winner.    *)
OneRunPerDocument ==
  \A r, s \in Runs :
    r # s /\ document[r] # NoContent => document[r] # document[s]

(* However often parse_document is retried, a run gets past the update to  *)
(* PARSING once: a retry of a failed parse never reads the file again.     *)
(* (A status change by hand between the commit of FAILED and the refresh   *)
(* after it opens the way to a second parse.)                              *)
ParserEnteredOnce == \A r \in Runs : entered[r] <= 1

(* The pages and the chunks of a document are never stored twice, though   *)
(* store_pages and register_chunks_bulk insert without looking, parsing is *)
(* retried, and a status change by hand can make it run again.             *)
StoredOnce == \A c \in Contents : pages[c] <= 1 /\ chunks[c] <= 1

(* A run that is COMPLETED, in memory or after a restart, belongs to a     *)
(* document with its pages and with chunks, if it has text, whose          *)
(* embeddings are settled, whatever other runs, restarts and status        *)
(* changes by hand happened in between.                                    *)
CompletedIsProcessed ==
  \A r \in Runs : "completed" \in {status[r], disk[r]} =>
    LET c == document[r] IN
    /\ c # NoContent /\ Registered(c)
    /\ pages[c] = 1
    /\ chunks[c] # 0 => embeddings[c] \in {"COMPLETED", "FAILED"}

(* A run whose end was appended before any line was cut keeps its status   *)
(* through every restart, whatever is lost later.  Of any other run that   *)
(* ended a restart may know less - that it was pending, or nothing -,      *)
(* never another end than the one it had and, for a run by URL, its caller *)
(* was told.                                                               *)
AnswerSurvivesRestart ==
  \A r \in Runs : shown[r] \in Terminal =>
    /\ status[r] \in {shown[r], "pending", "none"}
    /\ r \in safe => status[r] = shown[r]
    /\ r \in UrlRuns => answer[r] = shown[r]

(* Once the run that registered a document has ended, however it ended, no *)
(* other run ever adds pages, chunks or embeddings to it: what it left     *)
(* undone stays undone.                                                    *)
AbandonedStaysUndone ==
  [][\A r \in Runs :
       pc[r] \in Ended /\ document[r] # NoContent =>
         LET c == document[r] IN
         /\ pages'[c] = pages[c] /\ chunks'[c] = chunks[c]
         /\ embeddings'[c] = embeddings[c]]_vars

(* Every request that was taken up ends: with an answer, an exception or   *)
(* the process.                                                            *)
EveryRunEnds == \A r \in Runs : pc[r] # "idle" ~> pc[r] \in Ended
-----------------------------------------------------------------------------
(***************************************************************************)
(* The inductive invariant behind the properties above: how far the        *)
(* document of a run has come follows from where the run is.               *)
(***************************************************************************)
BeforeDocument == {"idle", "store", "enter", "download", "dupcheck", "save",
                   "regcheck", "reginsert"}
WithDocument == Places \ (BeforeDocument \union Ended)

(* A run has a document exactly from its registration on, and it is in the *)
(* table; before it has read what it is to register.                       *)
HasDocument(r) ==
  /\ pc[r] \in BeforeDocument \ {"idle", "download"} =>
       checksum[r] \in Contents
  /\ pc[r] \in BeforeDocument => document[r] = NoContent
  /\ pc[r] \in WithDocument => document[r] \in Contents
  /\ document[r] \in Contents => Registered(document[r])

(* Unless somebody changes a status by hand, a second attempt at parsing   *)
(* meets a Document object that says FAILED, which has no step to PARSING, *)
(* or a session that fails.                                                *)
ParseProgress(r) ==
  Patches = {} =>
    /\ pc[r] \in BeforeDocument \union {"start", "lookup"} => entered[r] = 0
    /\ pc[r] = "parse" /\ entered[r] # 0 =>
         entered[r] = 1 /\ (view[r] = "FAILED" \/ session = "broken")
    /\ pc[r] \in WithDocument \ {"start", "lookup", "parse"} => entered[r] = 1
    /\ pc[r] = "failing" => docs[document[r]] = "FAILED"
    /\ entered[r] \in {0, 1}

(* What is stored of the document of a run, by the place the run is at.    *)
StoredSoFar(r) ==
  document[r] \in Contents =>
    LET c == document[r] IN
    /\ pages[c] \in {0, 1} /\ chunks[c] \in {0, 1}
    /\ pc[r] \in {"parsed", "ended", "chunk", "embed", "encode", "index",
                  "graph"} => pages[c] = 1
    /\ pc[r] \in {"start", "lookup", "parse", "begun", "body", "parsed",
                  "ended", "failing", "chunk"} => chunks[c] = 0
    /\ pc[r] \in {"index", "graph"} /\ chunks[c] # 0 =>
         embeddings[c] \in {"COMPLETED", "FAILED"}

Finished(r) ==
  "completed" \in {status[r], disk[r]} =>
    /\ pc[r] = "returned"
    /\ document[r] \in Contents
    /\ pages[document[r]] = 1
    /\ chunks[document[r]] # 0 =>
         embeddings[document[r]] \in {"COMPLETED", "FAILED"}

RunInv(r) ==
  HasDocument(r) /\ ParseProgress(r) /\ StoredSoFar(r) /\ Finished(r)

UntouchedInv ==
  \A c \in Contents :
    (\A r \in Runs : document[r] # c) => pages[c] = 0 /\ chunks[c] = 0

IInv ==
  TypeOK /\ OneRunPerDocument /\ UntouchedInv /\ \A r \in Runs : RunInv(r)
=============================================================================
