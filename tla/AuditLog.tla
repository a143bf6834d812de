------------------------------ MODULE AuditLog ------------------------------
(***************************************************************************)
(* The audit platform's hash-chained log and the store that keeps it.      *)
(*                                                                         *)
(* Every worker process of the server has a store of its own, filled from  *)
(* the file when the worker first needs it: the records, the head of the   *)
(* chain, evidence and reports.  Every change rewrites the file, which all *)
(* workers share, from the first byte: it is opened, which truncates it,   *)
(* and then written in pieces.  A lock makes the two one step for the      *)
(* requests of the same worker, and for nobody else.  A write that fails   *)
(* is logged and otherwise ignored.                                        *)
(***************************************************************************)
EXTENDS Integers, Sequences

CONSTANTS Workers,     \* the processes of the server
          Bodies,      \* what records say in the fields the digest covers
          Attachments, \* evidence and reports
          Missing,     \* there is no file
          Torn,        \* a file that cannot be parsed
          Closed,      \* a worker that has no store yet
          Nobody,      \* not a worker
          AuditFaults,   \* bound: failed writes
          AuditCrashes   \* bound: workers that end

ASSUME AuditAssumption ==
  /\ AuditFaults \in Nat /\ AuditCrashes \in Nat
  /\ Nobody \notin Workers

VARIABLES memory,  \* the store of each worker
          used,    \* what some record says already: ids and times are new
          auditFile,    \* what audit.jsonl holds
          writing, \* whether a worker is between opening the file and the
                   \* end of its write, and if it is, whether another was too
          writer,  \* history: whose complete write the file holds, if any
          kept,    \* history: what a complete write put in the file
          overlapped, \* history: whether two writes ever overlapped
          auditFaults, auditCrashes

auditVars == <<memory, used, auditFile, writing, writer, kept, overlapped, auditFaults, auditCrashes>>

\* A digest of a record is a value that no other body, position or
\* predecessor gives: SHA-256 without its collisions.  The metadata of a
\* record is not in the payload that is hashed, and not in Bodies.
Digests == Seq((Nat \ {0}) \X Bodies)
Genesis == <<>>

Digest(prev, seq, body) == Append(prev, <<seq, body>>)

Records == [sequence: Nat \ {0}, body: Bodies, prev: Digests, hash: Digests]

\* A store, in memory and in the file.
Stores == [records: Seq(Records), sequence: Nat, lastHash: Digests,
           attached: SUBSET Attachments]

Blank == [records |-> <<>>, sequence |-> 0, lastHash |-> Genesis, attached |-> {}]

ASSUME FileAssumption ==
  Missing \notin Stores /\ Torn \notin Stores /\ Closed \notin Stores

HasStore(w) == memory[w] # Closed

AuditInit ==
  /\ memory = [w \in Workers |-> Closed]
  /\ used = {}
  /\ auditFile = Missing
  /\ writing = [w \in Workers |-> "no"]
  /\ writer = Nobody /\ kept = {} /\ overlapped = FALSE
  /\ auditFaults = 0 /\ auditCrashes = 0

-----------------------------------------------------------------------------
(* The store *)

\* Mutant of Found: a file that cannot be parsed keeps the number it had.
FoundHeadOnly ==
  IF auditFile = Torn THEN [Blank EXCEPT !.sequence = 1]
  ELSE IF auditFile = Missing THEN Blank ELSE auditFile

\* _load: a file that cannot be parsed is logged and counts as an empty one.
Found == IF auditFile \in {Missing, Torn} THEN Blank ELSE auditFile

\* The first request of a worker that needs the store.
Load(w) ==
  /\ memory[w] = Closed
  /\ memory' = [memory EXCEPT ![w] = Found]
  /\ UNCHANGED <<used, auditFile, writing, writer, kept, overlapped, auditFaults, auditCrashes>>

\* A worker ends, in a write or between two requests, as it does for good
\* after WORKER_MAX_REQUESTS of them; another one takes its place.
Stop(w) ==
  /\ HasStore(w) /\ auditCrashes < AuditCrashes
  /\ auditCrashes' = auditCrashes + 1
  /\ memory' = [memory EXCEPT ![w] = Closed]
  /\ writing' = [writing EXCEPT ![w] = "no"]
  /\ UNCHANGED <<used, auditFile, writer, kept, overlapped, auditFaults>>

OthersWrite(w) == \E u \in Workers \ {w} : writing[u] # "no"

\* _persist, up to the truncation, unless the file cannot be opened.
OpenFile(w) ==
  /\ writer' = Nobody
  /\ \/ /\ auditFile' = Torn
        /\ writing' = [v \in Workers |->
             IF v = w THEN IF OthersWrite(w) THEN "mixed" ELSE "alone"
             ELSE IF writing[v] = "no" THEN "no" ELSE "mixed"]
        /\ overlapped' = (overlapped \/ OthersWrite(w))
        /\ UNCHANGED auditFaults
     \/ /\ auditFaults < AuditFaults /\ auditFaults' = auditFaults + 1
        /\ UNCHANGED <<auditFile, writing, overlapped>>

Written(w) == {memory[w].records[i].body : i \in DOMAIN memory[w].records}

\* The file begins with the head of the chain: of two writes at a time one may
\* leave the head and the other the rest.
Mixture(s, t) == [t EXCEPT !.sequence = s.sequence, !.lastHash = s.lastHash]

\* What the pieces of w's write make of a file that others write, too.
Mixtures(w) == {Torn} \cup {Mixture(memory[u], memory[w]) : u \in {v \in Workers : HasStore(v)}}

\* The whole store is written.
WriteFile(w) ==
  /\ writing[w] # "no"
  /\ writing' = [writing EXCEPT ![w] = "no"]
  /\ auditFile' \in IF writing[w] = "alone" THEN {memory[w]} ELSE Mixtures(w)
  /\ writer' = IF writing[w] = "alone" THEN w ELSE Nobody
  /\ kept' = IF auditFile' = memory[w] THEN kept \cup Written(w) ELSE kept
  /\ UNCHANGED <<memory, used, overlapped, auditFaults, auditCrashes>>

\* The write ends in an exception, which _persist swallows.
WriteFails(w) ==
  /\ writing[w] # "no" /\ auditFaults < AuditFaults
  /\ auditFaults' = auditFaults + 1
  /\ writing' = [writing EXCEPT ![w] = "no"]
  /\ auditFile' \in {auditFile} \cup IF writing[w] = "alone" THEN {} ELSE Mixtures(w)
  /\ writer' = Nobody
  /\ UNCHANGED <<memory, used, kept, overlapped, auditCrashes>>

-----------------------------------------------------------------------------
(* Requests *)

\* The next record of a chain.
Entry(store, body) ==
  [sequence |-> store.sequence + 1, body |-> body, prev |-> store.lastHash,
   hash |-> Digest(store.lastHash, store.sequence + 1, body)]

With(store, entry) ==
  [store EXCEPT !.records = Append(@, entry), !.sequence = @ + 1,
                !.lastHash = entry.hash]

\* Mutant of AppendRecord: a record that is added again has the id it had.
AppendRecordAgain(w, body) ==
  /\ HasStore(w) /\ writing[w] = "no"
  /\ used' = used \cup {body}
  /\ memory' = [memory EXCEPT ![w] = With(@, Entry(@, body))]
  /\ OpenFile(w)
  /\ UNCHANGED <<kept, auditCrashes>>

\* AuditEngine.append, under the lock of the worker's store.
AppendRecord(w, body) ==
  /\ HasStore(w) /\ writing[w] = "no"
  /\ body \notin used /\ used' = used \cup {body}
  /\ memory' = [memory EXCEPT ![w] = With(@, Entry(@, body))]
  /\ OpenFile(w)
  /\ UNCHANGED <<kept, auditCrashes>>

\* add_evidence and add_report rewrite the same file.
Attach(w, a) ==
  /\ HasStore(w) /\ writing[w] = "no"
  /\ memory' = [memory EXCEPT ![w].attached = @ \cup {a}]
  /\ OpenFile(w)
  /\ UNCHANGED <<used, kept, auditCrashes>>

AuditNext ==
  \E w \in Workers :
    \/ Load(w) \/ Stop(w) \/ WriteFile(w) \/ WriteFails(w)
    \/ \E body \in Bodies : AppendRecord(w, body)
    \/ \E a \in Attachments : Attach(w, a)

AuditSpec == AuditInit /\ [][AuditNext]_auditVars

-----------------------------------------------------------------------------
(* Integrity *)

\* AuditEngine.verify_chain.
Verified(log) ==
  \A i \in DOMAIN log :
    /\ log[i].prev = IF i = 1 THEN Genesis ELSE log[i - 1].hash
    /\ log[i].hash = Digest(log[i].prev, log[i].sequence, log[i].body)

-----------------------------------------------------------------------------
(* Properties *)

AuditTypeOK ==
  /\ memory \in [Workers -> Stores \cup {Closed}]
  /\ used \subseteq Bodies
  /\ auditFile \in Stores \cup {Missing, Torn}
  /\ writing \in [Workers -> {"no", "alone", "mixed"}]
  /\ writer \in Workers \cup {Nobody}
  /\ kept \subseteq used
  /\ overlapped \in BOOLEAN
  /\ auditFaults \in 0..AuditFaults /\ auditCrashes \in 0..AuditCrashes

\* The chain of a store and its head agree: the next record goes where the
\* last one ended and takes the next number.
ChainOf(store) ==
  LET log == store.records IN
  /\ Verified(log)
  /\ store.sequence = Len(log)
  /\ \A i \in DOMAIN log : log[i].sequence = i
  /\ store.lastHash = IF log = <<>> THEN Genesis ELSE log[Len(log)].hash

\* GET /audit/integrity never reports a break that nobody made, as long as no
\* two writes overlap: whatever is appended by whichever worker, fails to be
\* written, is overwritten by another worker or is lost with the file, the
\* records of every worker verify and the head belongs to them.
ChainIntact == ~overlapped => \A w \in Workers : HasStore(w) => ChainOf(memory[w])

\* The copies of the log: of every worker that has one, and in the file.
Copies == {memory[w] : w \in {v \in Workers : HasStore(v)}} \cup {Found}

\* Two histories which have a record in common have it at the same place, and
\* in common with it all that led to it.
SharePast(s, t) ==
  \A i \in DOMAIN s, j \in DOMAIN t :
    s[i].body = t[j].body => i = j /\ \A k \in 1..i : s[k] = t[k]

\* Workers append to their copies without seeing each other, and each writes
\* its own over the file from which others start.  However writes fail,
\* overlap and overtake each other, histories that parted stay apart: no copy
\* has records of two branches, or one record twice, and what a rewrite
\* erases is the end of a history, from some record on.
ForksStayApart == \A s, t \in Copies : SharePast(s.records, t.records)

\* What the chain is for: two copies which have one digest in common have
\* everything up to it in common, although workers append to their copies
\* without seeing each other.
HeadsDecide ==
  ~overlapped => \A s, t \in Copies : \A i \in DOMAIN s.records \cap DOMAIN t.records :
    s.records[i].hash = t.records[i].hash =>
      \A j \in 1..i : s.records[j] = t.records[j]

\* A complete write brings everything into the file, also what an earlier
\* failed write left out: until somebody opens the file again a worker that
\* starts finds all that the last one to write had.
OneWriteSavesAll ==
  writer # Nobody => memory[writer] \in {Closed, Found}

-----------------------------------------------------------------------------
(* What the repository says and the code does not do.                       *)

\* "Append-only log": a record that was written to the file is still found
\* there whenever no write is going on.
AppendOnly ==
  (\A w \in Workers : writing[w] = "no") =>
    kept \subseteq {Found.records[i].body : i \in DOMAIN Found.records}
=============================================================================
