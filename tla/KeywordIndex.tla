----------------------------- MODULE KeywordIndex -----------------------------
(***************************************************************************)
(* The two keyword indexes of app/services/bm25, which share a table: the  *)
(* one that each worker brings up to date when it starts (service.py, used *)
(* by the hybrid search) and the one in the memory of a worker that the    *)
(* endpoints of api/v1/bm25.py build (index_manager.py, retriever.py).     *)
(* A chunk is its id; tokens, scores and filters are left out.             *)
(***************************************************************************)
EXTENDS Naturals, FiniteSets

CONSTANTS IndexWorkers, MaxKeywordChunks, MaxIndexRequests, MaxStamps, IndexCrashes \* bounds

ASSUME KeywordIndexAssumption ==
  {MaxKeywordChunks, MaxIndexRequests, MaxStamps, IndexCrashes} \subseteq Nat

Default == 0            \* the row and file "default_bm25"; n stands for "bm25_v<n>"
ServiceFile == MaxIndexRequests + 1 \* bm25_index.pkl
Torn == [kind |-> "torn", ids |-> {}]
NoFile == [kind |-> "none", ids |-> {}]

VARIABLES chunks, chunksBorn, \* the chunks in the database, and how many there were
          rows,     \* bm25_index_metadata by name
          disk,     \* the pickled indexes
          warmup,   \* what each worker does at its start
          memory,   \* the index in each worker's memory
          indexAsked,    \* the request to the endpoints under way in each worker
          stamps, indexRequests, indexCrashes,
          disturbed \* history: builders overlapped, or an endpoint made a row

keywordVars == <<chunks, chunksBorn, rows, disk, warmup, memory, indexAsked, stamps,
                 indexRequests, indexCrashes, disturbed>>

Down == [at |-> "down"]
Up   == [at |-> "up"]
Idle == [at |-> "idle"]
EmptyMemory == [ids |-> {}, version |-> 0]

KeywordInit ==
  /\ chunks = {} /\ chunksBorn = 0
  /\ rows = [n \in {} |-> Down] /\ disk = [n \in 0..ServiceFile |-> NoFile]
  /\ warmup = [w \in IndexWorkers |-> Down]
  /\ memory = [w \in IndexWorkers |-> EmptyMemory]
  /\ indexAsked = [w \in IndexWorkers |-> Idle]
  /\ stamps = 0 /\ indexRequests = 0 /\ indexCrashes = 0 /\ disturbed = FALSE

\* get_active_metadata: the active row that was updated last.
Active == {n \in DOMAIN rows : rows[n].active}
Newest == {n \in Active : \A m \in Active : rows[m].stamp <= rows[n].stamp}

\* What _refresh_cache_if_needed can load: an index of its own kind.
Loadable == UNION {disk[rows[n].file].ids : n \in {m \in Newest : disk[rows[m].file].kind = "engine"}}

\* Chunks are added by the ingestion; no code removes one.
AddChunk ==
  /\ chunksBorn < MaxKeywordChunks /\ chunksBorn' = chunksBorn + 1
  /\ chunks' = chunks \cup {chunksBorn'}
  /\ UNCHANGED <<rows, disk, warmup, memory, indexAsked, stamps, indexRequests, indexCrashes, disturbed>>

-----------------------------------------------------------------------------
(* BM25IndexManager of service.py, called by warmup_bm25_index *)

WarmupStep(w, next) ==
  /\ warmup' = [warmup EXCEPT ![w] = next]
  /\ UNCHANGED <<chunks, chunksBorn, indexAsked, indexRequests, indexCrashes>>

\* The service of a new worker loads the file it finds.
StartWarmup(w) ==
  /\ warmup[w].at = "down"
  /\ WarmupStep(w, IF Newest = {} THEN [at |-> "building", name |-> Default]
                   ELSE LET n == CHOOSE m \in Newest : TRUE
                        IN  [at |-> "counting", name |-> n, size |-> rows[n].size])
  /\ memory' = [memory EXCEPT ![w] =
       IF disk[ServiceFile].kind = "state"
       THEN [ids |-> disk[ServiceFile].ids, version |-> disk[ServiceFile].version] ELSE EmptyMemory]
  /\ disturbed' = (disturbed \/ \E v \in IndexWorkers : warmup[v].at \notin {"down", "up"})
  /\ UNCHANGED <<rows, disk, stamps>>

\* Mutant of UpToDate: an index that is at least as large will do.
UpToDateIfNotLarger(size) == size > 0

\* Only the numbers are compared.
UpToDate(size) == Cardinality(chunks) = size

CountChunks(w) ==
  /\ warmup[w].at = "counting"
  /\ WarmupStep(w, IF UpToDate(warmup[w].size) THEN [at |-> "done", seen |-> chunks]
                   ELSE [at |-> "building", name |-> warmup[w].name])
  /\ UNCHANGED <<rows, disk, memory, stamps, disturbed>>

\* From the answer of the query to the end of the file there is no await.
BuildFile(w) ==
  LET name == warmup[w].name
  IN  /\ warmup[w].at = "building"
      /\ IF chunks = {} THEN WarmupStep(w, [at |-> "done", seen |-> {}]) /\ UNCHANGED disk
         ELSE /\ disk' = [disk EXCEPT ![name] = [kind |-> "engine", ids |-> chunks]]
              /\ WarmupStep(w, [at |-> "looking", name |-> name, ids |-> chunks])
      /\ UNCHANGED <<rows, memory, stamps, disturbed>>

FindRow(w) ==
  /\ warmup[w].at = "looking"
  /\ WarmupStep(w, [at |-> "publishing", name |-> warmup[w].name, ids |-> warmup[w].ids,
                    found |-> warmup[w].name \in DOMAIN rows])
  /\ UNCHANGED <<rows, disk, memory, stamps, disturbed>>

WithRow(table, name, row) == [n \in DOMAIN table \cup {name} |-> IF n = name THEN row ELSE table[n]]
Deactivated == [n \in DOMAIN rows |-> [rows[n] EXCEPT !.active = FALSE]]
NewRow(size, file) == [size |-> size, file |-> file, active |-> TRUE, stamp |-> stamps + 1]

\* A row that is there is updated, with no look at the others.  A row that
\* appeared since it was looked for makes the commit fail; the start goes on.
PublishRow(w) ==
  LET b == warmup[w]
  IN  /\ b.at = "publishing" /\ stamps < MaxStamps /\ stamps' = stamps + 1
      /\ rows' = IF b.found THEN WithRow(rows, b.name, NewRow(Cardinality(b.ids), b.name))
                 ELSE IF b.name \in DOMAIN rows THEN rows
                 ELSE WithRow(Deactivated, b.name, NewRow(Cardinality(b.ids), b.name))
      /\ WarmupStep(w, [at |-> "done", seen |-> b.ids])
      /\ UNCHANGED <<disk, memory, disturbed>>

FinishWarmup(w) ==
  /\ warmup[w].at = "done" /\ WarmupStep(w, Up)
  /\ UNCHANGED <<rows, disk, memory, stamps, disturbed>>

\* A worker is lost at any point, also in the middle of its file.
IndexCrash(w) ==
  /\ indexCrashes < IndexCrashes /\ indexCrashes' = indexCrashes + 1
  /\ warmup[w].at # "down"
  /\ disk' \in {disk} \cup IF warmup[w].at = "building" /\ chunks # {}
                           THEN {[disk EXCEPT ![warmup[w].name] = Torn]} ELSE {}
  /\ warmup' = [warmup EXCEPT ![w] = Down] /\ indexAsked' = [indexAsked EXCEPT ![w] = Idle]
  /\ memory' = [memory EXCEPT ![w] = EmptyMemory]
  /\ UNCHANGED <<chunks, chunksBorn, rows, stamps, indexRequests, disturbed>>

-----------------------------------------------------------------------------
(* BM25Service: build, update, rebuild and clear *)

ServiceStep(w, m, next) ==
  /\ memory' = [memory EXCEPT ![w] = m]
  /\ indexAsked' = [indexAsked EXCEPT ![w] = next]
  /\ UNCHANGED <<chunks, chunksBorn, warmup, indexCrashes>>

\* The state is pickled after each change of the memory.
Pickled(m) == [disk EXCEPT ![ServiceFile] = [kind |-> "state", ids |-> m.ids, version |-> m.version]]

\* A rebuild clears the index, and its version, before it reads the chunks.
RequestIndex(w) ==
  /\ warmup[w].at = "up" /\ indexAsked[w].at = "idle"
  /\ indexRequests < MaxIndexRequests /\ indexRequests' = indexRequests + 1
  /\ \/ \E op \in {"build", "update"} : /\ ServiceStep(w, memory[w], [at |-> op])
                                        /\ UNCHANGED disk
     \/ ServiceStep(w, EmptyMemory, [at |-> "build"]) /\ disk' = Pickled(EmptyMemory)
     \/ ServiceStep(w, EmptyMemory, Idle) /\ disk' = Pickled(EmptyMemory) \* clear_index
  /\ UNCHANGED <<rows, stamps, disturbed>>

\* With no chunks the index is left as it is; an update removes nothing.
BuildMemory(w) ==
  LET op == indexAsked[w].at
      m  == [ids |-> IF op = "update" THEN memory[w].ids \cup chunks ELSE chunks,
             version |-> memory[w].version + 1]
  IN  /\ op \in {"build", "update"}
      /\ IF chunks = {} THEN ServiceStep(w, memory[w], Idle) /\ UNCHANGED disk
         ELSE /\ ServiceStep(w, m, IF op = "update" THEN Idle
                                   ELSE [at |-> "recording", version |-> m.version])
              /\ disk' = Pickled(m)
      /\ UNCHANGED <<rows, stamps, indexRequests, disturbed>>

\* create_index_record: a name that was used before makes the request fail.
RecordIndex(w) ==
  LET v == indexAsked[w].version
  IN  /\ indexAsked[w].at = "recording" /\ stamps < MaxStamps /\ stamps' = stamps + 1
      /\ rows' = IF v \in DOMAIN rows THEN rows
                 ELSE WithRow(Deactivated, v, NewRow(Cardinality(memory[w].ids), ServiceFile))
      /\ ServiceStep(w, memory[w], Idle)
      /\ disturbed' = TRUE
      /\ UNCHANGED <<disk, indexRequests>>

KeywordNext ==
  \/ AddChunk
  \/ \E w \in IndexWorkers :
       \/ StartWarmup(w) \/ CountChunks(w) \/ BuildFile(w) \/ FindRow(w) \/ PublishRow(w)
       \/ FinishWarmup(w) \/ IndexCrash(w)
       \/ RequestIndex(w) \/ BuildMemory(w) \/ RecordIndex(w)

KeywordSpec == KeywordInit /\ [][KeywordNext]_keywordVars

-----------------------------------------------------------------------------
(* Properties *)

KeywordTypeOK ==
  /\ chunks \subseteq 1..chunksBorn /\ chunksBorn \in 0..MaxKeywordChunks
  /\ DOMAIN rows \subseteq 0..MaxIndexRequests
  /\ \A n \in DOMAIN rows : /\ rows[n].size \in 1..MaxKeywordChunks /\ rows[n].file \in {n, ServiceFile}
                            /\ rows[n].stamp \in 1..stamps
  /\ \A n \in DOMAIN disk : disk[n].kind \in {"none", "torn", "engine", "state"}
  /\ \A w \in IndexWorkers : memory[w].ids \subseteq 1..chunksBorn

\* The start of a worker compares two numbers and no contents, writes a file
\* and then a row, and can be lost at any point between.  It is enough as
\* long as one builder works at a time and no endpoint made a row: whatever
\* was lost before, when it is done the hybrid search can load an index with
\* every chunk that it saw.
AddedChunksAreFound ==
  \A w \in IndexWorkers :
    warmup[w].at = "done" /\ ~disturbed => warmup[w].seen \subseteq Loadable

=============================================================================
