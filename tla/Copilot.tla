--------------------------------- MODULE Copilot ---------------------------------
(***************************************************************************)
(* The regulatory copilot with its two stores: conversations               *)
(* (services/conversation) and memories (services/memory), each a dict     *)
(* over an append-only JSON Lines file whose last line per id wins at a    *)
(* start, and CopilotService.ask (services/copilot), which awaits the      *)
(* search and the answer between reading the memories and writing the      *)
(* turn.  A failed append is swallowed, and a start stops at the first bad *)
(* line.  Texts are left out: a message is its role and its origin.        *)
(***************************************************************************)
EXTENDS Integers, FiniteSets, SequencesExt

CONSTANTS CopilotQueries,           \* requests to the copilot
          People,            \* users; Anonymous is a request without user id
          MaxConversations, MaxMemories,  \* bounds: ids ever made
          MaxTouches,        \* bound: calls of the two stores' endpoints, expiries, restarts
          MaxLostCalls,      \* bound: calls with failing appends
          MemoryTopK         \* memory_top_k of a request

Anonymous == "anonymous"
ASSUME CopilotAssumption ==
  /\ IsFiniteSet(CopilotQueries) /\ IsFiniteSet(People) /\ Anonymous \notin People
  /\ MaxConversations \in Nat /\ MaxMemories \in Nat /\ MaxTouches \in Nat
  /\ MaxLostCalls \in Nat /\ MemoryTopK \in Nat \ {0}

Conversations == 1..MaxConversations
Memories == 1..MaxMemories
Askers == People \cup {Anonymous}
Roles == {"user", "assistant", "system"}
CopilotModes == {"answer", "summarise", "search"}
Awaiting == {"retrieving", "answering"}

Absent == [absent |-> TRUE]
Message(role, of) == [role |-> role, of |-> of]   \* of: the request, or "api"
NewConversation(person, ttl) ==
  [owner |-> person, ttl |-> ttl, archived |-> FALSE, messages |-> <<>>, summary |-> "empty"]
Memory(type, person, c, ttl, pinned, from) ==
  [type |-> type, user |-> person, conversation |-> c, ttl |-> ttl, pinned |-> pinned, from |-> from]
NoAsk == [stage |-> "new", person |-> Anonymous, conversation |-> 0, from |-> {}, reported |-> FALSE]

VARIABLES conversations, memories,          \* id -> record, or Absent
          conversationFile, memoryFile,     \* their files
          begun, recorded,   \* history: the conversations begun, the memories as first recorded
          expired,           \* ids of each store whose time to live has run out
          asks,              \* request -> [stage, person, conversation, from, reported]
          retrievalInvoked,  \* CopilotService._retrieval_invoked, one for all requests
          touches
copilotVars == <<conversations, conversationFile, begun, memories, memoryFile, recorded, expired, asks,
                 retrievalInvoked, touches>>

\* A file: the last line of each id that a start reads; whether a piece of
\* a line, which hides all that is appended behind it; calls whose appends failed.
NewFile(ids) == [lines |-> [id \in ids |-> Absent], cut |-> FALSE, losses |-> 0]

CopilotInit ==
  /\ conversations = [c \in Conversations |-> Absent] /\ conversationFile = NewFile(Conversations)
  /\ memories = [m \in Memories |-> Absent] /\ memoryFile = NewFile(Memories)
  /\ begun = 0 /\ recorded = <<>>
  /\ expired = [conversations |-> {}, memories |-> {}]
  /\ asks = [q \in CopilotQueries |-> NoAsk] /\ retrievalInvoked = FALSE /\ touches = 0

-----------------------------------------------------------------------------
(* The stores *)

Held(store) == {id \in DOMAIN store : store[id] # Absent}
Touch == touches < MaxTouches /\ touches' = touches + 1

\* What appends of one call leave of a file: the lines as meant; or, when
\* some of them fail, one of the lines in parts, and perhaps a piece.
Appends(file, meant, parts) ==
  {IF file.cut THEN file ELSE [file EXCEPT !.lines = meant]} \cup
  {[lines |-> IF file.cut THEN file.lines ELSE lines, cut |-> file.cut \/ cut, losses |-> file.losses + 1] :
     lines \in IF conversationFile.losses + memoryFile.losses < MaxLostCalls THEN parts ELSE {},
     cut \in BOOLEAN}

\* Every change of a record appends all of it to the file.
AppendRecord(file, id, record) ==
  Appends(file, [file.lines EXCEPT ![id] = record], {file.lines})
KeepConversation(c, conversation) ==
  /\ conversations' = [conversations EXCEPT ![c] = conversation]
  /\ conversationFile' \in AppendRecord(conversationFile, c, conversation)
KeepMemory(m, memory) ==
  /\ memories' = [memories EXCEPT ![m] = memory]
  /\ memoryFile' \in AppendRecord(memoryFile, m, memory)
conversationStore == <<conversations, conversationFile, begun>>
memoryStore == <<memories, memoryFile, recorded>>

\* New records have new ids.
BeginConversation(person, ttl) ==
  /\ begun < MaxConversations /\ begun' = begun + 1
  /\ KeepConversation(begun + 1, NewConversation(person, ttl))
RecordMemory(memory) ==
  /\ Len(recorded) < MaxMemories /\ recorded' = Append(recorded, memory)
  /\ KeepMemory(Len(recorded) + 1, memory)

\* A search counts the access to each memory it finds, and saves it.
SaveFound(found) ==
  LET with(saved) == [m \in Memories |-> IF m \in saved THEN memories[m] ELSE memoryFile.lines[m]]
  IN /\ memoryFile' \in Appends(memoryFile, with(found), {with(saved) : saved \in SUBSET found})
     /\ UNCHANGED <<memories, recorded>>

WithMessages(c, new) == [conversations[c] EXCEPT !.messages = @ \o new]

Trimmed(messages, keep) == SubSeq(messages, Len(messages) - keep + 1, Len(messages))
Trim(c, keep) ==
  IF Len(conversations[c].messages) <= keep THEN KeepConversation(c, conversations[c])
  ELSE KeepConversation(c, [conversations[c] EXCEPT !.messages = Trimmed(@, keep), !.summary = "text"])

\* refresh_summary: from the messages of users and assistant that are left.
RefreshSummary(c) ==
  LET heard == \E k \in DOMAIN conversations[c].messages : conversations[c].messages[k].role # "system"
  IN KeepConversation(c, [conversations[c] EXCEPT !.summary = IF heard THEN "text" ELSE "empty"])

\* Deleting and purging leave the file as it is.
Forget(c) == conversations' = [conversations EXCEPT ![c] = Absent] /\ UNCHANGED conversationFile
PurgeConversations ==
  /\ conversations' = [c \in Conversations |->
       IF c \in expired.conversations /\ conversations[c] # Absent /\ ~conversations[c].archived
       THEN Absent ELSE conversations[c]]
  /\ UNCHANGED conversationFile

ConversationCall ==
  /\ Touch /\ UNCHANGED <<memoryStore, expired, asks, retrievalInvoked>>
  /\ \/ \E person \in Askers, ttl \in BOOLEAN : BeginConversation(person, ttl)
     \/ /\ UNCHANGED begun
        /\ \/ PurgeConversations
           \/ \E c \in Held(conversations) :
                \/ \E role \in Roles : KeepConversation(c, WithMessages(c, <<Message(role, "api")>>))
                \/ \E keep \in 1..Len(conversations[c].messages) : Trim(c, keep)
                \/ RefreshSummary(c)
                \/ KeepConversation(c, [conversations[c] EXCEPT !.archived = TRUE])
                \/ Forget(c)

\* The kinds of memory: of a message (24 h, in a conversation), of an
\* answer (30 days), long-term (pinned) and whatever POST /memory asks for.
RecordedTurn(person, c) ==
  {Memory("short_term", person, c, TRUE, FALSE, {}), Memory("long_term", person, 0, FALSE, TRUE, {}),
   Memory("retrieval", person, c, TRUE, FALSE, {}), Memory("retrieval", person, c, TRUE, TRUE, {})}
PurgeMemories ==
  /\ memories' = [m \in Memories |->
       IF m \in expired.memories /\ memories[m] # Absent /\ ~memories[m].pinned THEN Absent ELSE memories[m]]
  /\ UNCHANGED <<memoryFile, recorded>>

Shown == Held(memories) \ expired.memories   \* pinned or not, an expired memory is not found

MemoryCall ==
  /\ Touch /\ UNCHANGED <<conversationStore, expired, asks, retrievalInvoked>>
  /\ \/ \E person \in Askers, c \in Conversations \cup {0} :
          \E memory \in RecordedTurn(person, c) : RecordMemory(memory)
     \/ \E m \in Held(memories), pinned \in BOOLEAN :
          KeepMemory(m, [memories[m] EXCEPT !.pinned = pinned]) /\ UNCHANGED recorded
     \/ \E found \in SUBSET Shown : SaveFound(found)
     \/ /\ \E m \in Held(memories) : memories' = [memories EXCEPT ![m] = Absent]
        /\ UNCHANGED <<memoryFile, recorded>>
     \/ PurgeMemories

\* Time passes for one record with a time to live.
Expire ==
  /\ Touch /\ UNCHANGED <<conversationStore, memoryStore, asks, retrievalInvoked>>
  /\ \/ \E c \in Held(conversations) \ expired.conversations :
          conversations[c].ttl /\ expired' = [expired EXCEPT !.conversations = @ \cup {c}]
     \/ \E m \in Held(memories) \ expired.memories :
          memories[m].ttl /\ expired' = [expired EXCEPT !.memories = @ \cup {m}]

-----------------------------------------------------------------------------
(* CopilotService.ask *)

OfAnyUser(m, person) == TRUE
OfUser(m, person) == person = Anonymous \/ memories[m].user = person
\* MemoryRepository.search for the answers remembered of this conversation;
\* which of them score MEMORY_SCORE_THRESHOLD is left open.
Remembered(person, c) ==
  {m \in Shown : memories[m].type = "retrieval" /\ OfUser(m, person) /\ memories[m].conversation = c}
LongTerm(person) == {m \in Shown : memories[m].type = "long_term" /\ OfUser(m, person)}
Strong(person, c) == {strong \in SUBSET Remembered(person, c) : strong # {} /\ Cardinality(strong) <= MemoryTopK}

\* get_or_create: an id that is not there gives a new conversation.
GetOrCreate(person, given, c) ==
  IF given \in Held(conversations) THEN c = given /\ UNCHANGED conversationStore
  ELSE c = begun + 1 /\ BeginConversation(person, FALSE)

\* From the request to the first await: the chunks are the caller's, those
\* of strong memories, or to be searched for.  The memories are read for
\* every mode, and what is found, the strong ones included, is saved.
AskCopilot(q, person, given) ==
  \E c \in Conversations, mode \in CopilotModes, useMemory \in BOOLEAN, chunks \in BOOLEAN :
    /\ asks[q].stage = "new" /\ GetOrCreate(person, given, c)
    /\ UNCHANGED <<expired, touches>>
    /\ \E found \in SUBSET (IF useMemory THEN LongTerm(person) \cup Remembered(person, c) ELSE {}) :
         /\ SaveFound(found)
         /\ LET Go(stage, from, invoked) ==
                  /\ asks' = [asks EXCEPT ![q] = [NoAsk EXCEPT !.stage = stage, !.person = person,
                                                   !.conversation = c, !.from = from]]
                  /\ retrievalInvoked' = invoked
            IN \/ mode # "answer" /\ Go("shown", {}, retrievalInvoked)
               \/ mode = "answer" /\ chunks /\ Go("answering", {}, FALSE)
               \/ /\ mode = "answer" /\ ~chunks
                  /\ \E strong \in Strong(person, c) : strong \subseteq found /\ Go("answering", strong, FALSE)
               \/ mode = "answer" /\ ~chunks /\ Go("retrieving", {}, TRUE)

\* Both messages, each saved with all before it, or none when the
\* conversation is gone: the error is swallowed.
Question(q) == <<Message("user", q)>>
Turn(q) == <<Message("user", q), Message("assistant", q)>>
WithLine(c, new) == [conversationFile.lines EXCEPT ![c] = WithMessages(c, new)]
WriteTurn(q) ==
  LET c == asks[q].conversation
  IN IF c \in Held(conversations)
     THEN /\ conversations' = [conversations EXCEPT ![c] = WithMessages(c, Turn(q))]
          /\ conversationFile' \in
               Appends(conversationFile, WithLine(c, Turn(q)), {conversationFile.lines, WithLine(c, Question(q))})
          /\ UNCHANGED begun
     ELSE UNCHANGED conversationStore

\* The answer carries the flag as it is now.
Reply(q) ==
  /\ asks' = [asks EXCEPT ![q].stage = "answered", ![q].reported = retrievalInvoked]
  /\ WriteTurn(q) /\ UNCHANGED <<expired, retrievalInvoked, touches>>
Step(q, stage) ==
  asks' = [asks EXCEPT ![q].stage = stage] /\ UNCHANGED <<conversationStore, memoryStore, expired, retrievalInvoked, touches>>

Retrieved(q) == asks[q].stage = "retrieving" /\ (Step(q, "answering") \/ (Reply(q) /\ UNCHANGED memoryStore))
\* An error of the search or of the orchestrator leaves no trace in the conversation.
AskFails(q) == asks[q].stage \in Awaiting /\ Step(q, "failed")

\* The answer is remembered unless it is too long for a memory.
MemoryOfAnswer(q) == Memory("retrieval", asks[q].person, asks[q].conversation, TRUE, FALSE, asks[q].from)
RecordRetrieval(q) ==
  \/ RecordMemory(MemoryOfAnswer(q))
  \/ UNCHANGED memoryStore
CopilotAnswered(q) == asks[q].stage = "answering" /\ RecordRetrieval(q) /\ Reply(q)

-----------------------------------------------------------------------------
(* The process ends and starts *)

Lost == [q \in CopilotQueries |-> IF asks[q].stage \in Awaiting THEN [asks[q] EXCEPT !.stage = "lost"] ELSE asks[q]]
Reload ==
  /\ conversations' = conversationFile'.lines /\ memories' = memoryFile'.lines /\ asks' = Lost
  /\ retrievalInvoked' = FALSE /\ UNCHANGED <<expired, begun>>
RestartCopilot == Touch /\ UNCHANGED <<conversationFile, memoryFile, recorded>> /\ Reload
\* It ends before, in or between the lines of a turn; the memory of an
\* answer is written before them.
CrashInTurn(q) ==
  LET c == asks[q].conversation
      m == Len(recorded) + 1
  IN /\ asks[q].stage \in Awaiting /\ c \in Held(conversations) /\ Touch
     /\ conversationFile' \in {conversationFile} \cup
          Appends(conversationFile, WithLine(c, Question(q)), {conversationFile.lines})
     /\ \/ UNCHANGED <<memoryFile, recorded>>
        \/ /\ asks[q].stage = "answering" /\ m \in Memories
           /\ recorded' = Append(recorded, MemoryOfAnswer(q))
           /\ memoryFile' \in AppendRecord(memoryFile, m, MemoryOfAnswer(q))
     /\ Reload

Asking(q) ==
  \/ \E person \in Askers, given \in Conversations \cup {0} : AskCopilot(q, person, given)
  \/ Retrieved(q) \/ CopilotAnswered(q) \/ AskFails(q) \/ CrashInTurn(q)
CopilotNext == ConversationCall \/ MemoryCall \/ Expire \/ RestartCopilot \/ \E q \in CopilotQueries : Asking(q)
CopilotSpec == CopilotInit /\ [][CopilotNext]_copilotVars

-----------------------------------------------------------------------------
\* A memory is that of the user, the conversation and the answer it was
\* recorded for.
AsRecorded(m, memory) ==
  /\ m \in DOMAIN recorded
  /\ memory.user = recorded[m].user /\ memory.conversation = recorded[m].conversation
  /\ memory.from = recorded[m].from

\* What is held is on file with the same content as long as no append fails.
CopilotTypeOK ==
  /\ conversationFile.losses \in 0..MaxLostCalls /\ memoryFile.losses \in 0..MaxLostCalls
  /\ conversationFile.losses = 0 =>
       \A c \in Held(conversations) : conversationFile.lines[c] = conversations[c]
  /\ memoryFile.losses = 0 => \A m \in Held(memories) : memoryFile.lines[m] = memories[m]
  /\ Held(conversations) \cup Held(conversationFile.lines) \subseteq 1..begun
  /\ \A m \in Held(memories) : AsRecorded(m, memories[m])
  /\ \A m \in Held(memoryFile.lines) : AsRecorded(m, memoryFile.lines[m])
  /\ expired.conversations \subseteq 1..begun /\ expired.memories \subseteq DOMAIN recorded
  /\ \A q \in CopilotQueries : asks[q].from \subseteq DOMAIN recorded /\ asks[q].person \in Askers

\* Earlier answers become evidence of later ones; what is remembered of an
\* answer to a user rests, at every remove, on that user's memories of the
\* same conversation only: also of memories that are deleted, expired, lost
\* or brought back by a restart.
MemoryStaysWithItsUser ==
  \A m \in DOMAIN recorded :
    \A e \in recorded[m].from :
      /\ recorded[e].conversation = recorded[m].conversation
      /\ recorded[m].user \in People => recorded[e].user = recorded[m].user

==================================================================================
