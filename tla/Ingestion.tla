----------------------------- MODULE Ingestion -----------------------------
(***************************************************************************)
(* The ingestion pipeline of ReadMate: the document registry, the HTTP     *)
(* routes that change it, the Celery queue and the parse and rebuild tasks *)
(* with every step of IndexBuilder.build that other processes can observe. *)
(*                                                                         *)
(* A file's content is named by the revision that uploaded it, so          *)
(* "content r" is what upload number r stored.  Artifacts on disk          *)
(* (ordered.json, chunks.jsonl) and the published index hold contents.     *)
(* The publish itself is one step here; ChromaPublish opens it up.  The    *)
(* lock file is known by its holder; BuildLock opens up its races.         *)
(***************************************************************************)
EXTENDS Integers, FiniteSets

CONSTANTS
    Doc,         \* document ids (uuid4: an id is never used twice)
    Job,         \* Celery task ids
    Req,         \* HTTP requests that may be in flight at the same time
    Ext,         \* file extensions a stored file may carry
    MaxRev,      \* bound: uploads and replacements in one behaviour
    Workers,     \* Celery worker processes
    ChunkCount,  \* number of chunks the chunker makes of each content, 0 if
                 \* it is all headings or pictures
    Faults,      \* which faults may occur
    None

Rev == 1..MaxRev
Missing == 0                \* no file, or no entry
Torn == -1                  \* a file whose write was cut short
Artifact == Rev \cup {Missing, Torn}

ASSUME IngestionConstants ==
    /\ MaxRev \in Nat
    /\ Workers \in Nat
    /\ ChunkCount \in [Rev -> Nat]
    /\ Faults \subseteq {"fail", "crash", "drop", "busy"}
    /\ None \notin Doc \cup Job \cup Ext
    /\ Ext # {}

VARIABLES
    registry,    \* registry.json
    uploads,     \* uploads/<document id><extension>
    ordered,     \* parsed/<document id>/ordered.json
    chunkFile,   \* parsed/<document id>/chunks.jsonl
    index,       \* the version current.json names: manifest entry and chunks
    lock,        \* chroma/.build.lock, by holder
    job,         \* Celery tasks, queued, running and ended
    req,         \* HTTP requests between two of their steps
    nextRev,     \* the next upload's revision
    abandoned,   \* history: documents whose request ended before delay(), whose
                 \* task ended without recording it or whose worker was killed
    overrun      \* history: a build's lock was taken over while it went on

vars == <<registry, uploads, ordered, chunkFile, index, lock, job, req,
          nextRev, abandoned, overrun>>

(***************************************************************************)
(* Records                                                                 *)
(***************************************************************************)
Status == {"queued", "processing", "completed", "failed"}
Stage == {"queued", "parsing", "parsed", "chunking", "embedding", "indexing",
          "completed", "failed"}

DocumentRecord ==
    [life: {"unused", "live", "deleted"}, rev: Rev \cup {Missing}, ext: Ext,
     status: Status, stage: Stage, task: Job \cup {None}, chunks: Nat]

\* "started": record read, nothing reported; "begun": about to build.
\* "parsing": between two documents to parse; "converting": source read,
\* ordered.json not yet written; "listed": registry snapshot taken; "gathered":
\* CHUNKING reported; "chunked": chunks.jsonl written; "marking": published,
\* statuses pending.
BuildPhase == {"parsing", "converting", "listed", "gathered", "chunked", "marking"}
RunPhase == BuildPhase \cup {"started", "begun"}
JobPhase == RunPhase \cup {"unused", "pending", "ended"}

JobRecord ==
    [phase: JobPhase,
     doc: Doc \cup {None},              \* None: rebuild_index_task
     path: Ext \cup {None},             \* pdf_path, by the file's extension
     todo: SUBSET Doc,                  \* still to parse, then still to mark
     cur: Doc \cup {None},              \* the document being converted
     src: Rev \cup {Missing},           \* the content read for it
     snap: [Doc -> Rev \cup {Missing}], \* all_documents, by revision
     build: [Doc -> Rev \cup {Missing}]]\* contents whose chunks it publishes

ReqRecord ==
    [step: {"idle", "requeue", "enqueue", "stamp"},
     doc: Doc \cup {None}, job: Job \cup {None}]

\* Of a deleted document only the last revision is kept, to compare ages with.
NoRecord ==
    [life |-> "unused", rev |-> Missing, ext |-> CHOOSE x \in Ext : TRUE,
     status |-> "queued", stage |-> "queued", task |-> None, chunks |-> 0]
Nothing == [d \in Doc |-> Missing]
IdleReq == [step |-> "idle", doc |-> None, job |-> None]
NewJob(phase, d) ==
    [phase |-> phase, doc |-> d, path |-> None, todo |-> {}, cur |-> None,
     src |-> Missing, snap |-> Nothing, build |-> Nothing]

EndedJob == NewJob("ended", None)

Init ==
    /\ registry = [d \in Doc |-> NoRecord]
    /\ uploads = [d \in Doc |-> [x \in Ext |-> Missing]]
    /\ ordered = Nothing
    /\ chunkFile = Nothing
    /\ index = [d \in Doc |-> [rev |-> Missing, content |-> Missing]]
    /\ lock = None
    /\ job = [j \in Job |-> NewJob("unused", None)]
    /\ req = [r \in Req |-> IdleReq]
    /\ nextRev = 1
    /\ abandoned = {}
    /\ overrun = FALSE

Live(d) == registry[d].life = "live"
Running(j) == job[j].phase \in RunPhase
Building(j) == job[j].phase \in BuildPhase
Stored(d) == uploads[d][registry[d].ext]
artifacts == <<ordered, chunkFile>>
history == <<abandoned, overrun>>

\* Bound: a request starts only if its delay() will find an unused task id.
Enqueues == {r \in Req : req[r].step \in {"requeue", "enqueue"}}
RoomToEnqueue ==
    Cardinality(Enqueues) < Cardinality({j \in Job : job[j].phase = "unused"})

(***************************************************************************)
(* HTTP routes.  Each registry call is atomic (the registry lock); between *)
(* the calls of one request anything may happen.                           *)
(***************************************************************************)

\* POST /documents: register_upload, then delay() and the task id stamp.
Register(r, d) ==
    /\ req[r].step = "idle" /\ RoomToEnqueue
    /\ nextRev \in Rev
    /\ registry[d].life = "unused"
    /\ \E x \in Ext :
        /\ uploads' = [uploads EXCEPT ![d][x] = nextRev]
        /\ registry' = [registry EXCEPT ![d] =
               [life |-> "live", rev |-> nextRev, ext |-> x, status |-> "queued",
                stage |-> "queued", task |-> None, chunks |-> 0]]
    /\ nextRev' = nextRev + 1
    /\ req' = [req EXCEPT ![r] = [step |-> "enqueue", doc |-> d, job |-> None]]
    /\ UNCHANGED <<artifacts, index, lock, job, history>>

\* Mutant of Busy: a document that is being parsed does not count as busy.
BusyWhenQueued(d) == registry[d].status = "queued" /\ registry[d].task # None

Busy(d) == registry[d].status \in {"queued", "processing"} /\ registry[d].task # None

\* PUT /documents/{id}: replace_upload refuses a document with an active task.
Replace(r, d) ==
    /\ req[r].step = "idle" /\ RoomToEnqueue
    /\ nextRev \in Rev
    /\ Live(d) /\ ~Busy(d)
    /\ \E x \in Ext :
        /\ uploads' = [uploads EXCEPT ![d] =
               [y \in Ext |-> IF y = x THEN nextRev
                              ELSE IF y = registry[d].ext THEN Missing ELSE @[y]]]
        /\ registry' = [registry EXCEPT ![d] =
               [@ EXCEPT !.rev = nextRev, !.ext = x, !.status = "queued",
                         !.stage = "queued", !.task = None, !.chunks = 0]]
    /\ nextRev' = nextRev + 1
    /\ req' = [req EXCEPT ![r] = [step |-> "enqueue", doc |-> d, job |-> None]]
    /\ UNCHANGED <<artifacts, index, lock, job, history>>

\* POST /documents/{id}/retry reads the status without the lock ...
RetryCheck(r, d) ==
    /\ req[r].step = "idle" /\ RoomToEnqueue
    /\ Live(d) /\ registry[d].status = "failed"
    /\ req' = [req EXCEPT ![r] = [step |-> "requeue", doc |-> d, job |-> None]]
    /\ UNCHANGED <<registry, uploads, artifacts, index, lock, job, nextRev, history>>

\* ... and then requeues.  update_document skips arguments that are None, so
\* the old task id stays.
RetryRequeue(r) ==
    LET d == req[r].doc IN
    /\ req[r].step = "requeue"
    /\ IF Live(d)
       THEN /\ registry' = [registry EXCEPT ![d].status = "queued", ![d].stage = "queued"]
            /\ req' = [req EXCEPT ![r].step = "enqueue"]
       ELSE /\ req' = [req EXCEPT ![r] = IdleReq]
            /\ UNCHANGED registry
    /\ UNCHANGED <<uploads, artifacts, index, lock, job, nextRev, history>>

\* DELETE /documents/{id}: the record goes, then the current stored file; the
\* parsed artifacts stay.  A rebuild is queued next.
Delete(r, d) ==
    /\ req[r].step = "idle" /\ RoomToEnqueue
    /\ Live(d)
    /\ registry' = [registry EXCEPT ![d] =
           [NoRecord EXCEPT !.life = "deleted", !.rev = registry[d].rev]]
    /\ uploads' = [uploads EXCEPT ![d][registry[d].ext] = Missing]
    /\ req' = [req EXCEPT ![r] = [step |-> "enqueue", doc |-> None, job |-> None]]
    /\ UNCHANGED <<artifacts, index, lock, job, nextRev, history>>

\* POST /indexes/rebuild.
RequestRebuild(r) ==
    /\ req[r].step = "idle" /\ RoomToEnqueue
    /\ req' = [req EXCEPT ![r] = [step |-> "enqueue", doc |-> None, job |-> None]]
    /\ UNCHANGED <<registry, uploads, artifacts, index, lock, job, nextRev, history>>

\* delay(): the broker takes the message.  A rebuild's id is stamped nowhere.
Enqueue(r) ==
    LET d == req[r].doc IN
    /\ req[r].step = "enqueue"
    /\ \E j \in Job :
        /\ job[j].phase = "unused"
        /\ job' = [job EXCEPT ![j] = NewJob("pending", d)]
        /\ req' = [req EXCEPT ![r] =
               IF d = None THEN IdleReq ELSE [step |-> "stamp", doc |-> d, job |-> j]]
    /\ UNCHANGED <<registry, uploads, artifacts, index, lock, nextRev, history>>

\* update_document(task_id=task.id), or 404 when the document is gone by now.
Stamp(r) ==
    LET d == req[r].doc IN
    /\ req[r].step = "stamp"
    /\ registry' = IF Live(d) THEN [registry EXCEPT ![d].task = req[r].job] ELSE registry
    /\ req' = [req EXCEPT ![r] = IdleReq]
    /\ UNCHANGED <<uploads, artifacts, index, lock, job, nextRev, history>>

\* Nobody carries document d any more; a rebuild is for none.
GivenUp(d) == abandoned \cup ({d} \ {None})

\* The broker refuses the message, the registry lock times out, or the API
\* process dies: the request ends where it stands, without undoing anything.
AbandonRequest(r) ==
    /\ "drop" \in Faults
    /\ req[r].step # "idle"
    /\ abandoned' = IF req[r].step = "enqueue" THEN GivenUp(req[r].doc) ELSE abandoned
    /\ req' = [req EXCEPT ![r] = IdleReq]
    /\ UNCHANGED <<registry, uploads, artifacts, index, lock, job, nextRev, overrun>>

(***************************************************************************)
(* Celery tasks                                                            *)
(***************************************************************************)
target(j) == job[j].doc
TargetLive(j) == target(j) \in {None} \cup {d \in Doc : Live(d)}
TargetStored(j) == target(j) # None => uploads[target(j)][job[j].path] # Missing

WorkerFree == Cardinality({k \in Job : Running(k)}) < Workers

\* Mutants of ReportStage: the stage also becomes the status; COMPLETED is
\* recorded like any other stage.
ReportStageAsStatus(j, stage) ==
    IF target(j) = None THEN registry
    ELSE [registry EXCEPT ![target(j)].status = stage, ![target(j)].stage = stage,
                          ![target(j)].task = j]
ReportStageProcessing(j, stage) ==
    IF target(j) = None THEN registry
    ELSE [registry EXCEPT ![target(j)].status = "processing",
                          ![target(j)].stage = stage, ![target(j)].task = j]

\* report_stage, the progress callback of a parse task; a rebuild has none.
ReportStage(j, stage) ==
    IF target(j) = None THEN registry
    ELSE [registry EXCEPT ![target(j)] =
            [@ EXCEPT !.status = IF stage = "completed" THEN "completed" ELSE "processing",
                      !.stage = stage, !.task = j]]

\* A worker takes the task.  parse_document_task reads its document, whose file
\* it will look for later, and fails outside its try block if that is gone.
Begin(j) ==
    /\ job[j].phase = "pending"
    /\ WorkerFree
    /\ job' = [job EXCEPT ![j] =
           IF ~TargetLive(j) THEN EndedJob
           ELSE IF target(j) = None THEN [@ EXCEPT !.phase = "begun"]
           ELSE [@ EXCEPT !.phase = "started", !.path = registry[target(j)].ext]]
    /\ UNCHANGED <<registry, uploads, artifacts, index, lock, req, nextRev, history>>

\* It records PROCESSING, still outside its try block.
ReportStart(j) ==
    /\ job[j].phase = "started"
    /\ TargetLive(j)
    /\ registry' = ReportStage(j, "parsing")
    /\ job' = [job EXCEPT ![j].phase = "begun"]
    /\ UNCHANGED <<uploads, artifacts, index, lock, req, nextRev, history>>

\* IndexBuilder.build with the lock in hand: report PARSING, list what to parse.
EnterBuild(j) ==
    /\ job[j].phase = "begun"
    /\ TargetLive(j) /\ TargetStored(j)
    /\ lock' = j
    /\ registry' = ReportStage(j, "parsing")
    /\ job' = [job EXCEPT ![j].phase = "parsing",
                          ![j].todo = IF target(j) = None THEN {d \in Doc : Live(d)}
                                      ELSE {target(j)}]
    /\ UNCHANGED <<uploads, artifacts, index, req, nextRev, abandoned>>

\* Nobody builds under the lock: it was released, its holder was killed, or the
\* file could not be removed and has expired.
LockFree == lock \in {None} \cup {j \in Job : ~Building(j)}

\* _acquire_lock: make the lock file, or take over a stale one.
AcquireLock(j) == LockFree /\ EnterBuild(j) /\ UNCHANGED overrun

\* _acquire_lock takes the lock from a build that goes on: its TTL is over, its
\* file was read before its content was written, or both found the same stale
\* file.  Whose name the file keeps in the end is BuildLock's subject; here
\* nothing asks for it once a build was overrun.
TakeOverLive(j) == ~LockFree /\ EnterBuild(j) /\ overrun' = TRUE

\* DocumentParser.parse_document: look up the record and read the stored file.
ReadSource(j, d) ==
    /\ job[j].phase = "parsing"
    /\ d \in job[j].todo
    /\ Live(d) /\ Stored(d) # Missing
    /\ job' = [job EXCEPT ![j].phase = "converting", ![j].cur = d, ![j].src = Stored(d)]
    /\ UNCHANGED <<registry, uploads, artifacts, index, lock, req, nextRev, history>>

\* Write ordered.json, then record PARSED: status and task id stay, the chunk
\* count is reset, chunks.jsonl is left alone.
Parsed(j) ==
    LET d == job[j].cur IN
    /\ job[j].phase = "converting"
    /\ Live(d)
    /\ ordered' = [ordered EXCEPT ![d] = job[j].src]
    /\ registry' = [registry EXCEPT ![d].stage = "parsed", ![d].chunks = 0]
    /\ job' = [job EXCEPT ![j].phase = "parsing", ![j].todo = @ \ {d},
                          ![j].cur = None, ![j].src = Missing]
    /\ UNCHANGED <<uploads, chunkFile, index, lock, req, nextRev, history>>

\* all_documents = registry.list_documents().
TakeSnapshot(j) ==
    /\ job[j].phase = "parsing" /\ job[j].todo = {}
    /\ TargetLive(j)
    /\ job' = [job EXCEPT ![j].phase = "listed",
                          ![j].snap = [d \in Doc |->
                              IF Live(d) THEN registry[d].rev ELSE Missing]]
    /\ UNCHANGED <<registry, uploads, artifacts, index, lock, req, nextRev, history>>

\* Report CHUNKING.
ReportChunking(j) ==
    /\ job[j].phase = "listed"
    /\ TargetLive(j)
    /\ registry' = ReportStage(j, "chunking")
    /\ job' = [job EXCEPT ![j].phase = "gathered"]
    /\ UNCHANGED <<uploads, artifacts, index, lock, req, nextRev, history>>

\* Mutants of Gathered: the target only; whatever lies in parsed/.
GatheredTarget(j) == {d \in {target(j)} \ {None} : ordered[d] # Missing}
GatheredFromDisk(j) == {d \in Doc : ordered[d] # Missing}

\* The documents of the snapshot that have an ordered.json.
Gathered(j) == {d \in Doc : job[j].snap[d] # Missing /\ ordered[d] # Missing}

\* _reuse_plan: keep chunks.jsonl when the previous manifest has the same
\* revision and the file is whole and has the manifest's number of chunks,
\* which counts as unknown when it is 0.
Unchanged(j) ==
    {d \in Gathered(j) :
        /\ index[d].rev = job[j].snap[d]
        /\ chunkFile[d] \in Rev
        /\ index[d].content \in Rev
        /\ ChunkCount[index[d].content] # 0
        /\ ChunkCount[index[d].content] = ChunkCount[chunkFile[d]]}

\* Chunk what changed, reuse the rest, then report EMBEDDING.
Chunk(j) ==
    /\ job[j].phase = "gathered"
    /\ \A d \in Gathered(j) : ordered[d] # Torn
    /\ TargetLive(j)
    /\ LET contents == [d \in Doc |-> IF d \notin Gathered(j) THEN Missing
                                      ELSE IF d \in Unchanged(j) THEN chunkFile[d]
                                      ELSE ordered[d]]
       IN /\ chunkFile' = [d \in Doc |-> IF d \in Gathered(j) THEN contents[d]
                                         ELSE chunkFile[d]]
          /\ job' = [job EXCEPT ![j].phase = "chunked", ![j].build = contents]
    /\ registry' = ReportStage(j, "embedding")
    /\ UNCHANGED <<uploads, ordered, index, lock, req, nextRev, history>>

\* Report INDEXING and publish: the manifest lists every document of the
\* snapshot with the registry's revision, and the chunks that were gathered.
Publish(j) ==
    /\ job[j].phase = "chunked"
    /\ TargetLive(j)
    /\ registry' = ReportStage(j, "indexing")
    /\ index' = [d \in Doc |-> [rev |-> job[j].snap[d], content |-> job[j].build[d]]]
    /\ job' = [job EXCEPT ![j].phase = "marking",
                          ![j].todo = {d \in Doc : job[j].build[d] # Missing}]
    /\ UNCHANGED <<uploads, artifacts, lock, req, nextRev, history>>

\* Every document of the build becomes COMPLETED, whatever its status is now.
Mark(j, d) ==
    /\ job[j].phase = "marking"
    /\ d \in job[j].todo
    /\ Live(d)
    /\ registry' = [registry EXCEPT ![d].status = "completed", ![d].stage = "completed",
                                    ![d].chunks = ChunkCount[job[j].build[d]]]
    /\ job' = [job EXCEPT ![j].todo = @ \ {d}]
    /\ UNCHANGED <<uploads, artifacts, index, lock, req, nextRev, history>>

\* Mutant of AfterRelease: a build that was refused the lock removes it too.
AfterReleaseByAnyone(j) == {None}

\* build's finally block, which only a build that took the lock reaches.  It
\* removes the file, whoever holds it by now; an OSError leaves it there.
AfterRelease(j) ==
    IF Building(j) THEN {None} \cup (IF "fail" \in Faults THEN {lock} ELSE {}) ELSE {lock}

\* Report COMPLETED, release the lock, end.
Finish(j) ==
    /\ job[j].phase = "marking" /\ job[j].todo = {}
    /\ TargetLive(j)
    /\ registry' = ReportStage(j, "completed")
    /\ job' = [job EXCEPT ![j] = EndedJob]
    /\ lock' \in AfterRelease(j)
    /\ UNCHANGED <<uploads, artifacts, index, req, nextRev, history>>

(***************************************************************************)
(* Failure of a step, and death of the worker                              *)
(***************************************************************************)

\* A step that ends early may leave its output unwritten, cut short or whole.
PartialWrites(j) ==
    \/ /\ job[j].phase = "converting"
       /\ \E a \in {ordered[job[j].cur], Torn, job[j].src} :
            ordered' = [ordered EXCEPT ![job[j].cur] = a]
       /\ UNCHANGED chunkFile
    \/ /\ job[j].phase = "gathered"
       /\ \A d \in Gathered(j) : ordered[d] # Torn
       /\ \E done \in SUBSET (Gathered(j) \ Unchanged(j)) :
          \E cut \in SUBSET ((Gathered(j) \ Unchanged(j)) \ done) :
            /\ Cardinality(cut) <= 1
            /\ chunkFile' = [d \in Doc |-> IF d \in done THEN ordered[d]
                                           ELSE IF d \in cut THEN Torn
                                           ELSE chunkFile[d]]
       /\ UNCHANGED ordered
    \/ /\ job[j].phase = "gathered" => \E d \in Gathered(j) : ordered[d] = Torn
       /\ job[j].phase # "converting"
       /\ UNCHANGED artifacts

\* The build cannot go on: lock held, document or file gone, torn ordered.json.
\* After a crash the holder's pid may have been reused, so that a dead holder's
\* lock can look live until its TTL expires.
Blocked(j) ==
    \/ job[j].phase = "begun" /\ (lock # None \/ ~TargetStored(j))
    \/ job[j].phase # "converting" /\ ~TargetLive(j)
    \/ job[j].phase = "parsing" /\ \E d \in job[j].todo : ~Live(d) \/ Stored(d) = Missing
    \/ job[j].phase = "converting" /\ ~Live(job[j].cur)
    \/ job[j].phase = "gathered" /\ \E d \in Gathered(j) : ordered[d] = Torn
    \/ job[j].phase = "marking" /\ \E d \in job[j].todo : ~Live(d)

\* Mutant of RecordFailed: the exception passes and nothing is recorded.
RecordNothing(j) == registry

\* The parse task's except block; it fails itself when the document is gone.
RecordFailed(j) ==
    IF target(j) # None /\ Live(target(j))
    THEN [registry EXCEPT ![target(j)].status = "failed", ![target(j)].stage = "failed",
                          ![target(j)].task = j]
    ELSE registry

\* An exception in the task; it is recorded once the try block is entered.
Fail(j) ==
    /\ Running(j)
    /\ ("fail" \in Faults /\ job[j].phase # "started") \/ Blocked(j)
    /\ PartialWrites(j)
    /\ lock' \in AfterRelease(j)
    /\ registry' = RecordFailed(j)
    /\ job' = [job EXCEPT ![j] = EndedJob]
    /\ UNCHANGED <<uploads, index, req, nextRev, history>>

\* An exception that is recorded nowhere: the registry lock stays taken for
\* more than five seconds when the task begins, outside its try block, or again
\* in its except block.
FailUnrecorded(j) ==
    /\ "busy" \in Faults
    /\ target(j) # None
    /\ (job[j].phase = "pending" /\ WorkerFree) \/ Running(j)
    /\ PartialWrites(j)
    /\ lock' \in AfterRelease(j)
    /\ job' = [job EXCEPT ![j] = EndedJob]
    /\ abandoned' = GivenUp(target(j))
    /\ UNCHANGED <<registry, uploads, index, req, nextRev, overrun>>

\* The worker is killed.  The message was acknowledged when it was received,
\* so nobody runs the task again; the lock file stays.
Crash(j) ==
    /\ "crash" \in Faults
    /\ Running(j)
    /\ PartialWrites(j)
    /\ job' = [job EXCEPT ![j] = EndedJob]
    /\ abandoned' = GivenUp(target(j))
    /\ UNCHANGED <<registry, uploads, index, lock, req, nextRev, overrun>>

RouteStep(r) ==
    \/ \E d \in Doc : Register(r, d) \/ Replace(r, d) \/ RetryCheck(r, d) \/ Delete(r, d)
    \/ RequestRebuild(r)
    \/ RetryRequeue(r)
    \/ Enqueue(r)
    \/ Stamp(r)
    \/ AbandonRequest(r)

BuildStep(j) ==
    \/ ReportStart(j)
    \/ AcquireLock(j)
    \/ TakeOverLive(j)
    \/ \E d \in Doc : ReadSource(j, d)
    \/ Parsed(j)
    \/ TakeSnapshot(j)
    \/ ReportChunking(j)
    \/ Chunk(j)
    \/ Publish(j)
    \/ \E d \in Doc : Mark(j, d)
    \/ Finish(j)

Next ==
    \/ \E r \in Req : RouteStep(r)
    \/ \E j \in Job : Begin(j) \/ BuildStep(j) \/ Fail(j) \/ FailUnrecorded(j) \/ Crash(j)

Spec == Init /\ [][Next]_vars

\* A request that has begun runs on in its thread, and a worker that is up
\* takes messages and runs its task to an end, by success or by exception.
Fairness ==
    /\ \A r \in Req : WF_vars(RetryRequeue(r) \/ Enqueue(r) \/ Stamp(r))
    /\ \A j \in Job : WF_vars(Begin(j) \/ BuildStep(j) \/ (Fail(j) /\ Blocked(j)))
FairSpec == Spec /\ Fairness

(***************************************************************************)
(* Properties                                                              *)
(***************************************************************************)
TypeOK ==
    /\ registry \in [Doc -> DocumentRecord]
    /\ uploads \in [Doc -> [Ext -> Rev \cup {Missing}]]
    /\ ordered \in [Doc -> Artifact]
    /\ chunkFile \in [Doc -> Artifact]
    /\ index \in [Doc -> [rev : Rev \cup {Missing}, content : Rev \cup {Missing}]]
    /\ lock \in Job \cup {None}
    /\ job \in [Job -> JobRecord]
    /\ req \in [Req -> ReqRecord]
    /\ nextRev \in 1..(MaxRev + 1)
    /\ abandoned \in SUBSET Doc
    /\ overrun \in BOOLEAN

\* A document the library shows as COMPLETED is in the published index, with
\* the chunks made of an upload of it.  No later build, failed build or crash
\* takes them away, whichever document that build was for.  They may be none:
\* a document of headings or pictures only is COMPLETED with 0 chunks.  Not
\* promised once a build's lock was taken over while it went on, for it then
\* publishes what it listed before the other build.
CompletedIsIndexed ==
    ~overrun => \A d \in Doc :
        Live(d) /\ registry[d].status = "completed" => index[d].content # Missing

\* From reading the source until its chunks are published, a parse task works
\* on the file that is stored now: replace_upload refuses to change a document
\* whose task is active (DocumentBusyError).  Said of one worker, as deployed:
\* with two, a second task of the document that is refused the build lock marks
\* it FAILED under the first, and a replacement is let through.
ParsesTheStoredFile ==
    \A j \in Job :
        LET d == job[j].doc IN
        d # None /\ Live(d) =>
            /\ job[j].phase = "converting" => job[j].src = Stored(d)
            /\ job[j].phase \in {"listed", "gathered", "chunked"} => ordered[d] = Stored(d)

\* A document waits (QUEUED or PROCESSING) only while some request or task
\* still has to move it on, unless a request ended before its delay(), a task
\* could not record its end or a worker was killed: no interleaving of the
\* routes and tasks loses it.
Carried(d) ==
    \/ \E r \in Req : req[r].doc = d /\ req[r].step = "enqueue"
    \/ \E j \in Job : job[j].doc = d /\ (job[j].phase = "pending" \/ Running(j))
WaitingIsCarried ==
    \A d \in Doc :
        Live(d) /\ registry[d].status \in {"queued", "processing"} => Carried(d) \/ d \in abandoned

\* What is searchable never goes back to an earlier upload of a document:
\* neither an older task nor a reused chunks.jsonl brings old text back, as
\* long as no build's lock was taken over while it went on.
IndexNeverGoesBack ==
    [][~overrun => \A d \in Doc :
         index'[d].content = Missing \/ index'[d].content >= index[d].content]_index

\* Every upload is worked off: a QUEUED or PROCESSING document becomes
\* COMPLETED or FAILED, or is deleted.
EveryDocumentSettles ==
    \A d \in Doc :
        (Live(d) /\ registry[d].status \in {"queued", "processing"})
            ~> (~Live(d) \/ registry[d].status \in {"completed", "failed"})

\* A deleted document leaves the published index, also when a build that
\* listed it was running.
DeletedLeavesIndex ==
    \A d \in Doc : (registry[d].life = "deleted") ~> [](index[d].content = Missing)

\* What _reuse_plan relies on, where it matters: "an equal revision means same
\* file, parsed the same way".  Once nothing is in flight, a COMPLETED document
\* is searched in the very file that is stored for it.
Quiet ==
    /\ \A r \in Req : req[r].step = "idle"
    /\ \A j \in Job : ~Running(j) /\ job[j].phase # "pending"
SettledIsCurrent ==
    Quiet => \A d \in Doc :
        Live(d) /\ registry[d].status = "completed" => index[d].content = Stored(d)

=============================================================================
