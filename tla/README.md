# ReadMate in TLA+

ReadMate takes documents in, parses and indexes them in the background, and answers
questions about them with an agent that may cite only what its tools have shown it. These
modules model the program as its code runs: TLC checks them on small instances, TLAPS proves
the main safety properties for all of them.

Paths are relative to the repository; `src/...` below is the Python package.

## 1. The system

| Component | Code | State it keeps | Operations |
|---|---|---|---|
| Document registry | `src/storage/document_registry.py` | `registry.json`, `uploads/`, `registry.lock` | register, replace, delete, update (status, stage, task, counts), alias/enabled, list, get |
| Document routes | `src/api/app.py` | none of its own but a ledger of queued task ids and caches | POST/PUT/DELETE `/documents`, retry, `/indexes/rebuild`, task status, file, health |
| Celery tasks | `src/tasks/` | the broker's queue and results | parse one document, rebuild all, summarise a session |
| Parser | `src/ingestion/` | `parsed/<id>/ordered.json`, quality report | transcode, convert (Docling), export, number pages, refine |
| Chunker | `src/ingestion/ordered_chunker.py` | `parsed/<id>/chunks.jsonl` | pack elements into chunks |
| Index builder | `src/retrieval/index_builder.py` | `chroma/.build.lock` | lock, parse, snapshot, plan reuse, chunk, embed, publish, mark documents |
| Chroma store | `src/retrieval/chroma_store.py` | `chroma/versions/*`, `chroma/current.json` | publish, collect garbage, load, query |
| Retrieval | `src/retrieval/`, `src/rag/`, `src/adapter/` | loaded models | plan or route a query, dense search, fusion, gate, rerank, diversify, neighbours, read windows |
| Agent runtime | `src/agent/runtime.py`, `tools.py`, `answer_protocol.py` | one turn: rounds, observations, blocks, warnings | ReAct loop, evidence gate, citation check, event stream |
| Agent sessions | `src/storage/agent_db.py`, `src/api/agent_routes.py`, `src/agent/collections.py` | SQLite: sessions, messages, collections | scope lock, prompt snapshot, history selection, SSE |
| Summary | `src/agent/summary.py`, `src/tasks/summary.py` | summary, covered message id, failure count | plan, build, store, breaker |
| Memory | `src/agent/memory/service.py` | candidates, profile, preferences, progress | note, confirm, reject, write through |
| Frontend | `frontend/src` | the state of the turn on screen | reduce the event stream |
| Settings, LLM client, evaluation, scripts | `src/config`, `src/llm`, `src/evaluation`, `eval`, `scripts` | -- | -- |

How they interact. The API process and the Celery worker share a directory (registry,
uploads, parsed artifacts, index) and a broker. A route changes the registry, then queues a
task, then stamps the task's id on the document: three calls, between which anything may
happen. A parse task reports each stage to the registry through a callback, holds the build
lock from parsing to marking, rebuilds the index from *all* documents and publishes it as a
new version. The API loads the version `current.json` names for each search. The agent calls
the adapter through tools; its sessions live in SQLite; after a turn a summary job may be
queued.

What is hard here:

- the registry, the artifacts and the index are three stores that are written at different
  times, and a build reads all of them;
- the routes do not take the build lock and the builds do not take any lock of the routes;
- a build writes the records of documents it was not asked for;
- files are written in place or in several operations, by processes that can die;
- the locks are files with a holder, an age and a takeover rule;
- the agent's turns share a session without a lock, and every summary job, confirmation and
  turn reads before it writes.

- the chunker, the ranking and the reads are chains of small steps that each add, drop or reorder
  something, so that what one keeps the next may lose.

`PROJECT.json` lists each such hazard at its line, with the property that would show it going
wrong, or the reason why none does.

What makes each component correct, in short:

- **Registry and routes**: no change is lost; a file is not replaced under a running task; a
  document that waits has somebody to move it on.
- **Builder**: as long as builds exclude each other, a COMPLETED document is in the index and the
  index never goes back to older text; a document that waits is carried; a deleted one leaves.
- **Build lock**: one holder; a dead holder does not hold up the next one.
- **Store**: the current version is whole; a reader sees one version or learns that it was
  overtaken.
- **Retrieval**: the result respects scope, limits and budgets; nothing is duplicated; a
  fallback is reported.
- **Agent**: a citation is of an observed chunk; a deep turn answers from evidence or says it
  has none; what was streamed and taken back is not shown; the loop ends.
- **Sessions, summary, memory**: the scope is fixed once; covered messages grow only; nothing
  durable is written without a confirmation or an explicit request.

## 2. What is modelled

| Family | Modules | Composition |
|---|---|---|
| Pipeline | `Ingestion` | registry calls, routes, queue, tasks and the steps of a build |
| Publication | `ChromaPublish` implements `AtomicIndex` | what the `Publish` step of `Ingestion` amounts to |
| Build lock | `BuildLock` | what `AcquireLock` and the release in `Ingestion` amount to |
| Registry | `RegistryStore` | what one registry call of `Ingestion` amounts to |
| Turn | `AgentTurn` | the loop, the event stream and the browser |
| Session | `AgentSession` over `Memory` over `Conversation` over `AgentDB` | requests of one session side by side; a turn's loop is one step |
| Library | `Library` over `Retrieval` over `Chunker` | from the parsed document to what a tool shows |

An `MC` module gives TLC the constants of each family, a `...Proofs` module holds its theorems
(`LibraryProofs` rests on `ChunkerProofs`, which says what the chunker computes of any document).

### `Ingestion` -- registry, routes, queue, tasks, build

The core of the system. One variable for each store: `registry` (record of a document),
`uploads` (stored files by extension), `ordered` and `chunkFile` (parsed artifacts), `index`
(for each document the revision the manifest lists and the content of its chunks), `lock`,
`job` (tasks), `req` (requests between two of their calls).

The content of a file is named by the upload that brought it, 1, 2, ...; "revision 2" in the
registry and "content 2" on disk can thus be compared, which is what most properties do.
`Torn` is a file whose write was cut short.

| Action | Code |
|---|---|
| `Register`, `Replace`, `Delete`, `RetryCheck`, `RetryRequeue`, `RequestRebuild` | the registry call of the route |
| `Enqueue`, `Stamp` | `delay()`; `update_document(task_id=...)` |
| `AbandonRequest` | the request ends after any of its calls |
| `Begin`, `ReportStart` | the worker takes the task and `parse_document_task` reads its record; its first update |
| `AcquireLock` | check of the file whose path was read, build lock, report PARSING, list what to parse |
| `TakeOverLive` | the same with the lock of a build that goes on |
| `ReadSource`, `Parsed` | `parse_document`: read the stored file; write `ordered.json`, record PARSED |
| `TakeSnapshot`, `ReportChunking` | `all_documents = list_documents()`; report CHUNKING |
| `Chunk` | gather, `_reuse_plan`, re-chunk or reuse, report EMBEDDING |
| `Publish` | report INDEXING, publish |
| `Mark`, `Finish` | COMPLETED for each document; report COMPLETED, release |
| `Fail` | an exception anywhere: partial writes, `finally`, `except` |
| `FailUnrecorded` | an exception outside the `try`, or a second one in the `except` |
| `Crash` | the worker is killed: partial writes, the lock stays |

Abstractions. A registry call is one step, as the registry lock makes it (`RegistryStore` takes
the call apart). `ReadSource` reads record and file in one step. `Publish` is one step;
`ChromaPublish` has the details, and shows that a step is what it amounts to. Fingerprints other
than the revision (chunker version, parser settings) do not change while the program runs and are
left out. The chunk count is kept because reuse compares it; it may be 0, for a document of
headings or pictures only, which a build publishes and marks COMPLETED like any other.

The lock file is known by its holder. A build takes it if it is free or its holder is not building
any more (`LockFree`), and may be refused in the latter case, since a dead pid may look alive. It
may also take it from a build that goes on (`TakeOverLive`): `_acquire_lock` does that when the TTL
is over, when it reads a file that its creator has not written yet, and when two have found the same
stale file. `BuildLock` has these races step by step. From then on `overrun` is TRUE and two builds
run side by side, each with its own snapshot: the later one may publish what it listed before the
other's. `CompletedIsIndexed` and `IndexNeverGoesBack` are therefore said until a build is overrun;
`TypeOK` and `WaitingIsCarried` are said in any case. `_release_lock` removes the file whoever holds
it, or leaves it there on an `OSError` (`AfterRelease`).

A task ends as `EndedJob`: nothing of it but that it has ended is read again. `abandoned` names the
documents whose request ended before `delay()`, whose task could not record its end, or whose worker
was killed.

### `AtomicIndex`, `ChromaPublish` -- publication

`AtomicIndex` says what readers are promised: one current version, changed in one step, and a
reader that gets what was current when it looked, or an error only if that has changed.

`ChromaPublish` is the code: staging directory, files, rename or copy, pointer flip, listing
and removing old directories part by part; a load reads the pointer, sees the directory, opens
the files, reads the manifest. `Fail` and `Crash` come at every step, `"refuse"` is a file
system that refuses a rename or a removal. With the refinement mapping `current <- pointer`
and the reader's intermediate steps as "loading", it implements `AtomicIndex`.

### `BuildLock` -- the lock file

`chroma/.build.lock` as the file system sees it: creation, the write that follows, the reading
and judging of an existing file, truncation, the write of a takeover, unlink. A process is one
life of a worker, with a host and a pid; a later life may have the same pid. `handles` records
whose open handle still means the present file. `raced` is history: two attempts have
overlapped, or a build has outlived the TTL; the lock is not sound from then on, and the
code's comments do not say it is.

### `AgentTurn` -- one question to the agent

The loop of `AgentRuntime.run`, with the tools as it sees them, the event queue of the SSE
route and the browser's side of the turn. `ask` is what the turn meets and does not change:
the mode, whether the session names collections, what `relevance.py` makes of the question.
`run` is the loop's position with its `RunState`; `stored` the rows it adds to the session;
`events` the queue; `client` the browser's live state.

| Action | Code |
|---|---|
| `Start` | the scope's mismatch is noted, the user's row stored |
| `Delta` | `stream_complete` hands on text before the reply is known |
| `CallTools`, `RunTool` | a round with tool calls: reset, then each call with `_absorb`; the round ends with the last |
| `Block` | the gate refuses: reset, `gate_block`, next round or failure |
| `Accept` | the gate lets the reply through: parse, check citations, warnings (`_finish` up to its write) |
| `Store` | the row of `_finish` or `_failure`; `turn_end` or the synchronous response |
| `Raise` | an exception becomes an error event or an error response; the row may be stored by then |
| `Receive` | `applyTurnEvent`, and `send`'s reaction to `turn_end` and `error` |
| `Degrade` | after an error frame the same question goes to the synchronous route, once |
| `Abort` | the user or the watchdog stops waiting; the worker goes on |

The model may do anything: call tools when none are offered, cite what it never saw, decline,
write no envelope at all. A text is only the round it was streamed in, a tool result only what
the loop reads of it. Between the write of a reply and its `turn_end` the request may still fail
(`append_message` has a second statement, `agent_db.py:387-404`): such a row is `UntoldRow`, left
behind in the session without ever having been sent; `OneReply` counts replies a request has told
of, since the browser asks again and the session keeps both.
`Observation.signals` is left out because no tool fills it. A connection
that breaks while the worker goes on is left out, too: the second request then runs beside the
first, as two turns of `AgentSession`.

### `AgentDB`, `Conversation`, `Memory`, `AgentSession` -- one session, several requests

`AgentDB` is the tables of `data/app.db` and the statements on them. Connections are in autocommit
mode, so each statement is a transaction and each database call of a request is a step of its own;
`work[c]` is what the thread of request `c` has read so far. `Conversation` is a turn, a summary
job and its manual twin, and the deletion of a session or a collection; `Memory` is a candidate's
way from proposal to the long-term record. `AgentSession` puts them side by side over one session
that is new or has turns behind it.

| Action | Code |
|---|---|
| `StartTurn`, `LoadSession`, `LockScope`, `AskQuestion` | `agent_chat` and the start of `AgentRuntime.run` |
| `FreezePrompt`, `BuildHistory` | prompt snapshot and `_build_messages` |
| `Reply`, `AfterTurn` | `_finish` or `_failure`; `summary_due` and the enqueueing |
| `StartJob`, `StartCompact`, `ReadBudget` | `run_summary`, `POST compact`, the breaker |
| `PlanRows`, `PlanBound` | `summary_boundary` |
| `ReadPrevious`, `ReadTurns`, `Generate`, `StoreSummary`, `CountOutcome` | `SessionSummaryService.build` and the counting around it |
| `Note`, `StartConfirm`, `ReadPending`, `NextItem`, `WriteItem`, `MarkConfirmed` | `MemoryService.note`, `confirm`, the write-through |
| `StartReject`, `MarkRejected` | `reject` |
| `StartEdit`, `WriteEdit`, `EditPreference`, `EditEntry`, `DeleteEntry` | the routes of the memory page |
| `DeleteSession`, `DeleteCollection` | the routes, with SQLite's cascades |
| `Killed` | the process dies between two calls |

Abstractions. A summary's text is the set of messages it was made from, a frozen prompt the material
it declares. Tokens are not counted: a history is the newest rows, as many as fit, but at least
`Floor`. Values of candidates are named by the candidate or request that brought them. A job's transcript
may be cut anywhere, for it is as long as its rows; `session.cut` remembers which rows the stored
summary lost in this way. Ids count the rows of all sessions, so a
session's first id may be any (`Gap`).

### `RegistryStore` -- a registry call taken apart

Each call of a process is: take `registry.lock` (or judge it stale, remove it by name and try
again, or give up), load the JSON, move the upload into place, replace the JSON, remove the old
file, remove the lock. Between any two of them the process may die, and the write may fail. A
revision is named by the process that brought it, which is what the registry's counter makes of
it: unique for each document. `Slow` lets a living process hold the lock longer than
`LOCK_STALE_SECONDS`; it is FALSE in the run and assumed FALSE in the proofs, since a critical
section is two small file operations, and TRUE would let any two calls overlap. Even then two
waiters may find the same lock stale, and the second removes the lock the first has made since:
`Overtaken` names these states, and the properties except them.

### `Chunker`, `Retrieval`, `Library` -- what is indexed, found and read

`Chunker` is `chunk_ordered_document` as an operator over a document that is a sequence of
elements, each with the sizes of its sentences or of what a table is packed from (its rows, or its
facts, or the element's text if it has neither: one at least). A word is known by where it came from, so
that a chunk's words can be compared with the document's. `Retrieval` is `retrieve_multi` as
operators over ids and scores: fusion, quota, floor, collapse, table gate, insurance, sufficiency,
tables and neighbours. `Library` is the state machine around them: a snapshot is published, a tool
call resolves its scope against the registry in two reads while the user switches or deletes
documents, the search is answered with any scores, any order of the reranker and either behaviour
of the store's filter, and a read walks along the hints.

| Action | Code |
|---|---|
| `Publish` | chunk every document, one snapshot |
| `Search`, `ReadMembers`, `ReadDisabled`, `ReadDisabledFirst`, `ReadRecords` | `_search` of the tools, `document_ids`, `library_document_ids` |
| `Switch`, `Delete` | the document routes |
| `Recall` | windows, dense channels, fusion, scope filter, quota |
| `KnowledgeBaseEmpty` | no snapshot |
| `Rank`, `Answered` | rerank or its failure, selection, sufficiency, presentation, the tool's limit |
| `ReadPage`, `ReadChunk`, `ReadOn`, `EndRead` | `_read_page`, `_read_chunk`, `_read` with its next offset |

Abstractions. Every query text is a dense channel (there is no other any more). Planner and route
planner choose how many texts are searched (`1..MaxTexts`), not which. Vectors are scores. Costs
are words, so that a heading path, a caption and a truncation are lengths. A formula's or a
figure's wording is its words. Filters of Chroma are membership, honored or not.

## 3. Runs

| Run | Instance | Shows |
|---|---|---|
| `ingest_two_workers` | 2 documents, 3 tasks, 2 uploads, 2 workers, 1 request, all faults, locks taken over | `TypeOK`, `CompletedIsIndexed`, `WaitingIsCarried`, `IndexNeverGoesBack` |
| `ingest_live` | 2 documents, 3 tasks, 3 uploads, 1 worker, 2 requests, no faults, fair | `ParsesTheStoredFile`, `EveryDocumentSettles`, `DeletedLeavesIndex` |
| `ingest_reuse` | 1 document, 3 tasks, no faults | *violated*: `SettledIsCurrent` |
| `publish_one` | 3 versions, 1 reader, all faults, builds exclude each other | `PointerNamesWhole`, `FailedLoadWasOvertaken`, `ImplementsAtomicIndex` |
| `lock` | 2 lives on one host with the same pid, 1 on another, fair | `OneHolder`, `NoPermanentDoorstop` |
| `lock_restart` | the same, no fairness | *violated*: `GoneOwnerIsStale` |
| `registry` | 3 calls, 1 document there before, 2 formats, failing writes, deaths, stale locks | `BytesStay`, `BytesAreTheRecords`, `NoUpdateLost` |
| `agent_turn` | 1 chunk, 3 rounds, 2 blocks, 1 call per round, all faults, fair | `CitationsWereShown`, `DeepAnswersFromEvidence`, `UnsourcedIsMarked`, `FailureTellsTruth`, `DraftIsOpen`, `OneReply`, `SendSettles` |
| `session` | 2 requests, up to 2 turns and 2 candidates behind them, deaths | `TypeOK`, `SummaryMissesOnlyTheCut`, `OneScope`, `AskedOnce`, `ConfirmedHasLanded`, `OnlyCallsFail`, `BudgetHolds`, `DecisionIsFinal`, `WritesOnlyItsFields` |
| `summary_cut` | the same | *violated*: `SummaryHoldsItsTurns` |
| `library` | 2 documents, papers of up to 3 elements, 3 scores, 2 texts | `EveryWordIsIndexed`, `PagesCoverText`, `NeighborsSurround`, `OffMeansOff`, `GateDemotes`, `DenseTopInsured`, `TableComesWhole`, `ReadsWalkOn` |
| `table_shards` | the same | *violated*: `TableStandsAlone` |

Bounds. Two documents are enough for a build of one to touch the other; three tasks for two builds
and a third that finds their results; two uploads for a replacement, or for two documents. One
request in flight is enough for a request to be overtaken by tasks; with two workers, two tasks
overtake each other. Three versions give a current one, one being collected and one being built.
`ChunkCount` is the same for all contents where reuse must be able to mistake one for the other
(`SameCount`), different where the count must tell them apart (`OwnCount`), and 0 for the first of
two uploads with two workers (`FirstEmpty`). The sets of tasks,
versions and processes are finite, so every behaviour ends: (In `AgentTurn` the question is
answered or given up in the end.) `CHECK_DEADLOCK FALSE` is said for that reason; a system that
can no longer do what it should is found by the liveness properties.

For a turn, three rounds allow a tool round, a block and the last round in any order, and a
failure by blocks as well as by steps; the code's default is six, with the same two blocks. One
chunk is enough to be cited without having been shown. A reply with several calls does one
`RunTool` after another and ends its round after the last; the run has one call per round, the
proofs any number.

`ParsesTheStoredFile` is claimed for one worker only, which is what the deployment runs
(`--pool=solo`, `docker-compose.yml:105`). With two workers it fails as soon as there are three
uploads: two tasks of one document run beside each other, the second is refused the build lock and
marks the document FAILED, and a replacement is let through while the first is still parsing. Two
uploads, which is what the two-worker run has, are too few to show it; the other properties of that
run do not depend on it. Either run has one file format; a change of format is in `registry`, and
the theorems are about any formats.

In a session, two requests make every pair of kinds meet at every pair of steps; a third would be
caught up in what the two leave behind, which is the sessions with a past: up to two turns, some
of them summarised, candidates pending, one failure short of the breaker. `Keep` and `Floor` are 2
and `Window` is 4 (the code: 8, 12 and 200) so that four old rows and the new ones are kept,
folded in and cut off. In the registry three calls let one die with the lock, one judge it stale
and one come in between. A paper of three elements puts anything between two others; with a target
of 3 words and a limit of 5, texts of 1 to 11 words are joined, carried over, split and windowed.
The scores are below zero, between the floor and the gate, and above both; the ids of the tables
are the same in both documents in one of the libraries. `SearchBound` keeps searches to papers of
two elements, `Unsettled` changes of the registry to the second document. In the session and the
registry each request is served once and then the instance is at rest, hence `CHECK_DEADLOCK
FALSE`; the library is never at rest.

Fairness. A request that has begun runs on in its thread (`RetryRequeue`, `Enqueue`, `Stamp`);
a worker that is up takes messages and runs its task to an end (`Begin`, the steps of a build,
and a failure where the build cannot go on). Nothing is assumed about users, faults or which
of several tasks goes first. For the lock: a build that is refused is asked for again, and
time passes. For a turn (`FairSpec`): the worker runs on, since the model's and the tools' clients
have timeouts, or its thread raises; the browser reads what has arrived and asks again by itself.
Nothing is assumed of the user, and a request whose client has gone before its first byte starts no
worker at all.

The session, registry and library runs assume no fairness: they check safety only, and nothing there
waits for another but the registry lock, which gives up after five seconds.

`Expire` and the other faults need no fairness except there; a crash and an unrecorded failure
are allowed by `WaitingIsCarried` explicitly (`abandoned`), so that the property says that
nothing *else* loses a document. The largest instances are `session` (about 4.2 million states),
`ingest_two_workers` (2.3 million) and `agent_turn` (1.9 million); each ends within three minutes
or so on two cores.

## 4. Proofs

Every theorem holds for all values of the constants, under the named assumptions of the modules
(`IngestionConstants`, `PublishConstants`, `BuildLockConstants`: that `None` is none of the ids,
that counts are positive, which faults there are; `ConversationConstants`, `RegistryConstants`; `ChunkerConstants`, `RetrievalConstants`,
`LibraryConstants`: positive limits, an overlap shorter than a chunk, a finite number of documents,
each of any finite length).

- `IngestionProofs`
  - `IngestionTyped`. `TypeOK` is not inductive: `Mark` takes a chunk count from the content a
    build published, so a build in its marking phase must have published one for each document
    left to mark (`MarksPublished`). The two together are inductive.
  - `NoDocumentIsLost`. `WaitingIsCarried` is inductive with `TypeOK`: whatever ends a request
    or a task names the next carrier or changes the status in the same step.
  - `CompletedDocumentsAreSearchable`. The invariant needs to look into the running build
    (`JobSound`: what it has read, gathered and published), at each document (`DocSound`: a
    COMPLETED one is indexed and has an `ordered.json`), and at the two together (`Covers`: a
    COMPLETED document is in the snapshot of whoever is about to publish). The last part holds
    because nobody but the build itself completes a document as long as none is overrun: that the
    lock then names the one task that builds is a lemma (`OneBuildAtATime`), not a result, for it
    is no more than what `overrun` means.
  - `IndexMovesOn`. Contents are numbered by upload, and `AgeInv` orders what there is of a document
    by age: nothing in the index is newer than in `chunks.jsonl`, nothing there newer than in
    `ordered.json`, nothing there newer than the record's revision, a torn file excepted. A running
    build has read nothing older than what it will replace, and what it will publish is in
    `chunks.jsonl` (`SourceAge`, `BuildAge`). Again it is the exclusion of builds that
    keeps this true, and it ends with the first build that is overrun.
  - `SoloTaskParsesTheStoredFile`, for `Workers = 1`. One task runs at a time, its document is busy
    from its first step to the publish, and what it has read is the stored file (`SoloInv`); a
    request that stamps a task id has one to stamp, and every request and task is about a document
    that was uploaded.
- `ChromaPublishProofs`
  - `PublishTyped`, `PublishIsAtomic`, `FailedLoadsAreOvertaken`, `PublishImplementsAtomicIndex`,
    all under the assumption `~Concurrent`, that builds exclude each other. The invariant says
    that the parts of a version are complete from its rename on, that garbage never holds the
    current version or one being made, and that a version that is being collected has been
    overtaken.
- `BuildLockProofs`
  - `LockTyped`, `OneHolderAtATime`. As long as nothing has raced: at most one process is in an
    attempt, a builder is named by the file unless somebody is just replacing it, and whoever is
    about to write has the file to itself.

- `AgentTurnProofs`
  - `TurnTyped`, with two facts `TypeOK` needs to be inductive: a tool round has calls left, a
    closing turn has its row.
  - `CitationsWereShownAlways`, `DeepAnswersFromEvidenceAlways`, `UnsourcedIsMarkedAlways`,
    `FailureTellsTruthAlways`. A stored row is judged by the observations stored with it, while the
    loop decides by what it has concluded on the way. `SafeInv` says that in every round the two
    agree (`RunSound`) and that the row about to be stored, like those already stored, is right
    (`RowSound`). That a block leaves a warning behind is part of it: the chat mark rests on that.
  - `OneReplyAlways`. The frame that ends a request is the last in the queue, the row it names is
    stored, and there is one such row (`QueueInv`, `ReplyInv`).
  - `DraftIsOpenAlways`. Of what is still in the queue and what the browser has shown: texts come in
    the order of their rounds, and between the texts of two rounds there is the frame that takes the
    former back (`Tidy`, `UpTo`, `Cleared` and their meeting with the loop's position, `InStream`).

- `AgentSessionProofs`
  - `TypeCorrect`, `Typed`. A request uses what an earlier step of it has read: a turn its session's
    row, a confirm its item. `Staged` says at which steps that is there; with it `TypeOK` is
    inductive. The messages stay in the order of their ids because an append takes an id above
    `lastId` and nobody else inserts.
  - `DecisionCorrect`. Whatever step is taken, the rows of candidates change only as
    `CandidateEffect` says: appended, marked if pending, edited, or deleted.
  - `LandedCorrect`. `ConfirmedHasLanded` looks at a request that has ended; `LandedInv` says of one
    that runs that each candidate it has read is still to do, in hand, written or not
    to be written (`Accounted`), so that at the mark nothing is left to do.
  - `WritesCorrect`, `BudgetCorrect`, `FailuresCorrect`: action properties, from what each step of
    a request has read. For the budget a job about to count has looked at the failures (`BudgetInv`);
    for the failures a job that has planned to fold in a row still finds one.
  - `SummaryCorrect`. A job's bound is at most the last id handed out, and
    what the job holds when it stores is every row up to that bound, but for those cut from its
    transcript or from one the previous summary was made of; a new row gets a higher id, so no row
    is ever added below a bound.
  - `ScopeCorrect`. What a turn uses is what it has read, or what it has written as the first; a
    second first turn makes the exception, and once that is so it stays so.
  - `AskedCorrect`. A turn's own question is the newest row unless another turn has stored one since.
- `RegistryProofs`, for `~Slow`
  - `RegistryTyped`, with `Prepared`: who is about to write has read a record to change.
  - `BytesStayCorrect`, `BytesAreTheRecordsCorrect`, `UpdatesCorrect`. While no two calls have judged the same lock stale, only
    the holder is between load and release (`Exclusive`), and what it has read still is what the
    registry says (`KnowsRegistry`). `Consistent` adds what it knows of the files, and that a file
    which a record no longer names is all that is ever removed. That two calls have judged one
    lock is stable, so the exception does not have to be undone.
- `ChunkerProofs`, which lists no theorem of its own: what the chunker makes of any document, by
  induction. The induction theorems of the library take an operator and are out of reach; what serves
  instead is that a nonempty set of numbers has a least one, taken from `WFMin` (`LeastOfNat`), so that
  a statement is a set of numbers and not an operator (`UpTo`, `ByAdding`, `ByRemoving`). From it:
  what a fold has computed after each step (`FoldExists`, `FoldLeftRuns`), what a filter picks
  (`PlacesPick`), that a sort lists a set in its order, each element once (`InOrderLists`), what
  flattening lays where (`FlattenLays`). On these the chunker is followed step by step: sentences,
  packs, splits, overlaps, tables, reading order, neighbours, truncation (`ChunkDocumentIs`). `Chunker`
  sorts and filters with `Sorted` and `Only`, and not with `SortSeq` and `SelectSeq`, since the provers
  see definitions of the former only.
- `LibraryProofs`
  - `NoWordIsLost`, `CitationsNameThePages`, `NearestProseIsShown`. Whatever is published is `Store` of
    the papers (`Published`), and that is `ChunkDocumentIs` for each of them. `NearestProseIsBound` is the
    part that needs no induction: `BindNeighbors` over any chunks in the order of their anchors.
  - `ReadsMissNothing`. What a read has been given is what lies before its hint (`ReadInv`); the
    arithmetic of one window after another is `WindowsJoin`.
  - `ScopeLeavesOffOut`. The two reads of the registry with switches in between: a document that is
    still off is off at the first read (`records`) or at the second (`disabled`).
  - `SwitchedOffIsNotFound`, `GateNeverBlanks`, `BestIsInsured`, `TablesAreShownWhole`. The pool that
    `Recall` leaves behind is of the scope, with a score for each chunk (`RankInv`). `Rank` is followed
    from there: the floor leaves exactly what is near the best (`AboveFloorIs`); one slot for each key
    (`DiversifyIs`); the gate is opened only if it would leave nothing of that (`SelectIs`); the insured
    one is there and is the only one that may share a slot, from the first place (`EnsureIs`); the last
    score gate keeps what scores as high as anything it keeps (`SufficientIs`, `Upward`); the filter by
    the scope has nothing left to do (`ScopeKeeps`). `HitsInv` says the outcome of each hit list, and of
    each window shown that a table has all its shards by their packs, no two of them alike
    (`TablesAreApart`), and that what was cut has no room for a neighbour (`PresentationIs`).

What the composed modules rest on each other for is proved piece by piece: `Ingestion` takes the
lock, the publication and a registry call for single steps; `OneHolderAtATime`,
`PublishImplementsAtomicIndex` and `UpdatesCorrect` say when they may be taken so.

Every invariant, action property and refinement that a passing run checks is the statement of one of
these theorems. Model-checked only are the liveness properties (`EveryDocumentSettles`,
`DeletedLeavesIndex`, `SendSettles`, `NoPermanentDoorstop`): there is no proof under fairness, nor of
what is enabled, with these provers. The exceptions that theorems make (`~Concurrent`, `~Slow`,
`~overrun`, `Workers = 1`) are those of section 2 and of section 5; without them the code does not
keep what the property says.

Some exceptions are races the code has, named so that the property can be said of everything else:
two publishes at once (`PointerNamesWhole`), overlapping attempts and an expired lock (`OneHolder`),
two first turns (`OneScope`), another turn's row (`AskedOnce`), jobs that pass the breaker together
(`BudgetHolds`), a record changed since it was read (`WritesOnlyItsFields`), the second unlink of a
stale lock (`Overtaken`), a page longer than the adapter's ceiling (`ReadsWalkOn`). These
properties do not catch the race they except, and `hazards` in `PROJECT.json` says so at each of them.

## 5. What the checks found

Four disagreements between the code and what its text says, each with a run (`findings` in
`PROJECT.json`): an equal revision does not mean the same file (`ingest_reuse`); a restarted worker
with its predecessor's pid respects its predecessor's lock (`lock_restart`); a summary does not cover
everything up to its bound, since the rows cut from a transcript of more than 6000 characters count
as covered (`summary_cut`); a table's body holds shards of another document's table (`table_shards`).

Also seen while modelling, without a run of their own:

- A killed worker's document stays PROCESSING: the message was acknowledged when it was received (no
  `acks_late`, `celery_app.py:15`), retry refuses what is not FAILED and replace what is busy.
  `README.md:7` says that background work recovers after a restart. In `Ingestion` that is `Crash`,
  which `WaitingIsCarried` names as a loss; the fair run has no crashes.
- A document of headings or pictures only makes no chunks (`ordered_chunker.py:129-131`), for
  `EmptyDocumentError` (`document_parser.py:88`) asks the parser's elements only, and is COMPLETED
  with a chunk count of 0: `CompletedIsIndexed` says that it is in the index, not that a search can
  find it.
- `README.md` says that the build lock never heals itself (section on known limits, D1); the code
  takes over stale locks.
- `_acquire_lock` takes over a lock that is empty because its creator has not written it yet;
  two processes may take over the same stale lock; `_release_lock` removes whatever lock is there.
- `retry` passes `task_id=None` to clear the id; `update_document` skips arguments that are
  `None`, so that it stays.
- A task's last report (COMPLETED) comes after its own `Mark`; a document that is replaced in
  between is COMPLETED with no chunks counted until its next task runs.
- A rebuild that fails leaves COMPLETED documents with the stage `parsed` and a chunk count of 0.
- One torn `ordered.json` makes every later build fail until that document is parsed again, and a
  failing document fails a whole rebuild, so that a deleted document stays searchable as long.
- `runtime.py:558-559` says that a degraded retrieval "rides into the answer envelope"; no tool
  fills `Observation.signals`, and `_finish` does not pass the run's warnings on.
- The chat gate is called soft ("warn once, then let the turn finish"), but a block in the last
  round ends the turn with `max_steps_without_answer`.
- When the file names cannot be listed, a deep turn's gate goes on without them and a chat turn
  fails.
- A failed turn does not report `memory_auto_written`, though the note has been written.
- `AnswerMeta.tsx:8` words a warning `chat_mode_requires_search`; the code's is
  `chat_related_requires_search`.
- After an error frame the question is asked again on the synchronous route, so that the session has
  the user's row twice.
- The prompt snapshot is frozen with the mode of the first turn (`runtime.py:474`), while
  `ChatPanel.tsx:362` lets each question name its own.
- Two publishes at once would let the garbage collection of one remove the version the other has
  just named (`chroma_store.py:45`); the build lock is what keeps them apart.
- In a session over the whole library no question counts as being about the material
  (`runtime.py:629`, `has_collection` is false without a scope), so that the deep gate never asks
  for evidence.
- `set_session_scope` is "never rewritten afterwards" (`agent_db.py:339`); two first turns of a
  session both write it, which is why `OneScope` excepts them.
- `_build_messages` drops the newest row for the question; with another turn's row after it, the
  question stands twice in the prompt (excepted by `AskedOnce`).
- `summary_due` looks at the oldest row of the window of 200; rows the token budget drops do not
  make a summary due before that.
- `GET /sessions/{id}/messages` promises the newest `limit` rows (`agent_routes.py:545`), but asks
  without `before_id`, for which `list_messages` returns the oldest (`agent_db.py:432`): a
  reloaded session shows its first 100 rows and no way to later ones.
- A progress candidate with a key the record has no column for is confirmed without being written.
  Deleting or editing a memory entry leaves the value it has written.
- A full disk while `replace_upload` writes the registry leaves the new bytes under the old record
  if the format is the same (`document_registry.py:196`); its docstring allows for a missing
  document only.
- `delete_document` is called atomic and is two steps; killed in between, it leaves a file no
  record names.
- A page longer than 6000 characters cannot be read to its end: `_read_page` returns its first
  `page_chars` whatever the offset, and the hint stays there (`tools.py:282-345`).
- The table gate counts a table's score as the top even when the table is not wanted, so that all
  prose may fall below the floor; the insurance may put a second chunk of one table into the hits,
  or evict the weakest hit.
- What is insured is the selection of `top_k`, which the model may set up to 20 (`tools.py:76`); the
  tool shows `tool_max_hits` of it (`tools.py:236`), five by default, and a best hit that had been
  selected anyway stays where the reranker put it. With a `top_k` above `tool_max_hits` the best score
  may thus be cut off, which is why `DenseTopInsured` asks for it only if `FinalK <= MaxHits`.
- The quota holds in the pool only; the reranker and the limit come after it.
- `primary_min_ratio` has no effect in `build_presentation`; the farther of two chunks before a
  table takes budget before the nearer one.
- A sentence longer than the limit that is not the last of its element is truncated
  (`_split_long_prose` cuts only the last into windows); with a heading path of over 2000 tokens it
  would not come to an end.
- The overlap of a piece carries words without their element ids and pages.
- A page is read structural chunks first, then its prose.
- `disabled_document_ids` takes a registry it cannot read for one with nothing disabled
  (`collections.py:52`); a disabled document that is deleted is in a collection's scope again
  until the next rebuild; the read tool has no scope at all.
- The migration of the database reads the version before it begins its transaction.

## 6. Not modelled, and why

Conversion, refinement and page numbering transform text without shared state and mostly call
Docling; their content is abstract in `Ingestion`, and their result is any sequence of elements in
`Chunker`. The model cache, the LLM client, Chroma's storage format and the embedding models are
outside or answer anything. The keyword rules of the planners, streaks of empty searches, prompts'
wording, titles and modes of sessions, the cadence of memory reviews, export, the members of a
collection (one SQL statement each), caches of the health probe and of document quality, settings,
evaluation and scripts change nothing that another component depends on for its correctness.
Read-only routes are left out. In the frontend, the panels other than the turn's are views.

The models themselves leave out: the fingerprints of chunker and parser settings, which do not
change while the program runs; a clock (ages and time-outs are steps that may come at any time);
and registry contents that are not JSON any more, which a replaced file cannot be.

## 7. What is left

1. `BuildLock` as a refinement of a one-variable mutual exclusion, while nothing has raced: the step
   `AcquireLock` of `Ingestion` would rest on it as `Publish` does on `AtomicIndex`.
2. That a turn stores one user's row for each time it is asked, and that what `AgentSession` takes
   for a turn is what `AgentTurn` leaves in the tables.
3. A run of `Library` with `FinalK > MaxHits`, papers of more than three elements, and heading paths
   that fill a chunk.
