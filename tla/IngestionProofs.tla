-------------------------- MODULE IngestionProofs --------------------------
(***************************************************************************)
(* Proofs about Ingestion, for any documents, tasks, requests, number of   *)
(* workers, bound on uploads, chunk counts and faults.                     *)
(***************************************************************************)
EXTENDS Ingestion, FiniteSetTheorems, TLAPS

USE IngestionConstants DEF history, EndedJob

(***************************************************************************)
(* Type correctness.  Mark writes the chunk count of what was published,   *)
(* so the types rest on one fact more: only documents whose chunks were    *)
(* published are marked.                                                   *)
(***************************************************************************)
MarksPublished ==
    \A j \in Job : job[j].phase = "marking" => \A d \in job[j].todo : job[j].build[d] # Missing

Typed == TypeOK /\ MarksPublished

LEMMA NewJobType ==
  ASSUME NEW phase \in JobPhase, NEW d \in Doc \cup {None}
  PROVE  NewJob(phase, d) \in JobRecord
BY DEF NewJob, JobRecord, Nothing, Rev, Missing

LEMMA ReportStageType ==
  ASSUME TypeOK, NEW j \in Job, NEW stage \in Stage
  PROVE  ReportStage(j, stage) \in [Doc -> DocumentRecord]
<1>1. target(j) \in Doc \cup {None}
  BY DEF TypeOK, target, JobRecord
<1>2. CASE target(j) = None
  BY <1>2 DEF TypeOK, ReportStage
<1>3. CASE target(j) \in Doc
  <2> DEFINE status == IF stage = "completed" THEN "completed" ELSE "processing"
             d == target(j)
             new == [registry[d] EXCEPT !.status = status, !.stage = stage, !.task = j]
  <2>1. registry[d] \in DocumentRecord
    BY <1>3 DEF TypeOK
  <2>2. status \in Status
    BY DEF Status
  <2> HIDE DEF status
  <2>3. new \in DocumentRecord
    BY <2>1, <2>2 DEF DocumentRecord
  <2>4. ReportStage(j, stage) = [registry EXCEPT ![d] = new]
    BY <1>3 DEF ReportStage, status
  <2> QED
    BY <2>3, <2>4, <1>3 DEF TypeOK
<1> QED
  BY <1>1, <1>2, <1>3

LEMMA RecordFailedType ==
  ASSUME TypeOK, NEW j \in Job
  PROVE  RecordFailed(j) \in [Doc -> DocumentRecord]
<1>1. target(j) \in Doc \cup {None}
  BY DEF TypeOK, target, JobRecord
<1>2. CASE target(j) # None /\ Live(target(j))
  <2> DEFINE d == target(j)
             new == [registry[d] EXCEPT !.status = "failed", !.stage = "failed", !.task = j]
  <2>1. registry[d] \in DocumentRecord /\ d \in Doc
    BY <1>1, <1>2 DEF TypeOK
  <2>2. new \in DocumentRecord
    BY <2>1 DEF DocumentRecord, Status, Stage
  <2>3. RecordFailed(j) = [registry EXCEPT ![d] = new]
    BY <1>2, <2>1 DEF RecordFailed, DocumentRecord
  <2> QED
    BY <2>1, <2>2, <2>3 DEF TypeOK
<1> QED
  BY <1>2 DEF RecordFailed, TypeOK

LEMMA InitTyped == Init => Typed
<1> SUFFICES ASSUME Init PROVE Typed
  OBVIOUS
<1>1. job \in [Job -> JobRecord]
  BY NewJobType DEF Init, JobPhase
<1>2. registry \in [Doc -> DocumentRecord]
  BY DEF Init, NoRecord, DocumentRecord, Status, Stage, Rev, Missing
<1>3. req \in [Req -> ReqRecord]
  BY DEF Init, ReqRecord, IdleReq
<1>4. /\ uploads \in [Doc -> [Ext -> Rev \cup {Missing}]]
      /\ index \in [Doc -> [rev : Rev \cup {Missing}, content : Rev \cup {Missing}]]
  BY DEF Init
<1>5. ordered \in [Doc -> Artifact] /\ chunkFile \in [Doc -> Artifact]
  BY DEF Init, Nothing, Artifact
<1>6. lock \in Job \cup {None} /\ nextRev \in 1..(MaxRev + 1) /\ abandoned \in SUBSET Doc
  BY DEF Init
<1>8. overrun \in BOOLEAN
  BY Zenon DEF Init
<1>7. MarksPublished
  BY DEF Init, MarksPublished, NewJob
<1> QED
  BY <1>1, <1>2, <1>3, <1>4, <1>5, <1>6, <1>7, <1>8 DEF Typed, TypeOK

LEMMA IdleReqType == IdleReq \in ReqRecord
BY DEF IdleReq, ReqRecord

LEMMA RouteTyped ==
  ASSUME Typed, NEW r \in Req, RouteStep(r)
  PROVE  Typed'
<1> USE DEF Typed
<1>a. req[r] \in ReqRecord
  BY DEF TypeOK
<1>1. ASSUME NEW d \in Doc, Register(r, d) PROVE Typed'
  <2>1. PICK x \in Ext :
          /\ uploads' = [uploads EXCEPT ![d][x] = nextRev]
          /\ registry' = [registry EXCEPT ![d] =
               [life |-> "live", rev |-> nextRev, ext |-> x, status |-> "queued",
                stage |-> "queued", task |-> None, chunks |-> 0]]
    BY <1>1 DEF Register
  <2>2. nextRev \in Rev /\ nextRev' \in 1..(MaxRev + 1)
    BY <1>1 DEF Register, Rev
  <2>3. registry' \in [Doc -> DocumentRecord]
    BY <2>1, <2>2 DEF TypeOK, DocumentRecord, Status, Stage
  <2>4. uploads' \in [Doc -> [Ext -> Rev \cup {Missing}]]
    BY <2>1, <2>2 DEF TypeOK
  <2>5. req' \in [Req -> ReqRecord]
    BY <1>1 DEF Register, TypeOK, ReqRecord
  <2> QED
    BY <1>1, <2>2, <2>3, <2>4, <2>5 DEF Register, TypeOK, MarksPublished, artifacts
<1>2. ASSUME NEW d \in Doc, Replace(r, d) PROVE Typed'
  <2>1. PICK x \in Ext :
          /\ uploads' = [uploads EXCEPT ![d] =
               [y \in Ext |-> IF y = x THEN nextRev
                              ELSE IF y = registry[d].ext THEN Missing ELSE @[y]]]
          /\ registry' = [registry EXCEPT ![d] =
               [@ EXCEPT !.rev = nextRev, !.ext = x, !.status = "queued",
                         !.stage = "queued", !.task = None, !.chunks = 0]]
    BY <1>2 DEF Replace
  <2>2. nextRev \in Rev /\ nextRev' \in 1..(MaxRev + 1)
    BY <1>2 DEF Replace, Rev
  <2>3. registry' \in [Doc -> DocumentRecord]
    <3>1. registry[d] \in DocumentRecord
      BY DEF TypeOK
    <3>2. [registry[d] EXCEPT !.rev = nextRev, !.ext = x, !.status = "queued",
               !.stage = "queued", !.task = None, !.chunks = 0] \in DocumentRecord
      BY <3>1, <2>2 DEF DocumentRecord, Status, Stage
    <3> QED
      BY <2>1, <3>2 DEF TypeOK
  <2>4. uploads' \in [Doc -> [Ext -> Rev \cup {Missing}]]
    BY <2>1, <2>2 DEF TypeOK
  <2>5. req' \in [Req -> ReqRecord]
    BY <1>2 DEF Replace, TypeOK, ReqRecord
  <2> QED
    BY <1>2, <2>2, <2>3, <2>4, <2>5 DEF Replace, TypeOK, MarksPublished, artifacts
<1>3. ASSUME NEW d \in Doc, RetryCheck(r, d) PROVE Typed'
  BY <1>3 DEF RetryCheck, TypeOK, MarksPublished, ReqRecord, artifacts
<1>4. ASSUME NEW d \in Doc, Delete(r, d) PROVE Typed'
  <2>1. registry' \in [Doc -> DocumentRecord]
    <3>1. registry[d] \in DocumentRecord
      BY DEF TypeOK
    <3>2. [NoRecord EXCEPT !.life = "deleted", !.rev = registry[d].rev] \in DocumentRecord
      BY <3>1 DEF NoRecord, DocumentRecord, Status, Stage
    <3> QED
      BY <1>4, <3>2 DEF Delete, TypeOK
  <2>2. uploads' \in [Doc -> [Ext -> Rev \cup {Missing}]]
    BY <1>4 DEF Delete, TypeOK
  <2>3. req' \in [Req -> ReqRecord]
    BY <1>4 DEF Delete, TypeOK, ReqRecord
  <2> QED
    BY <1>4, <2>1, <2>2, <2>3 DEF Delete, TypeOK, MarksPublished, artifacts
<1>5. CASE RequestRebuild(r)
  BY <1>5 DEF RequestRebuild, TypeOK, MarksPublished, ReqRecord, artifacts
<1>6. CASE RetryRequeue(r)
  <2>1. registry' \in [Doc -> DocumentRecord]
    <3> DEFINE d == req[r].doc
               new == [registry[d] EXCEPT !.status = "queued", !.stage = "queued"]
    <3>1. CASE Live(d) /\ d \in Doc
      <4>1. registry[d] \in DocumentRecord
        BY <3>1 DEF TypeOK
      <4>2. new \in DocumentRecord
        BY <4>1 DEF DocumentRecord, Status, Stage
      <4>3. registry' = [registry EXCEPT ![d] = new]
        BY <1>6, <3>1, <4>1 DEF RetryRequeue, TypeOK, DocumentRecord
      <4> QED
        BY <4>2, <4>3 DEF TypeOK
    <3>2. CASE ~Live(d)
      BY <1>6, <3>2 DEF RetryRequeue, TypeOK
    <3>3. CASE d = None
      BY <1>6, <3>3 DEF RetryRequeue, TypeOK
    <3> QED
      BY <1>a, <3>1, <3>2, <3>3 DEF ReqRecord
  <2>2. req' \in [Req -> ReqRecord]
    <3>1. [req[r] EXCEPT !.step = "enqueue"] \in ReqRecord
      BY <1>a DEF ReqRecord
    <3> QED
      BY <1>6, <3>1, IdleReqType DEF RetryRequeue, TypeOK
  <2> QED
    BY <1>6, <2>1, <2>2 DEF RetryRequeue, TypeOK, MarksPublished, artifacts
<1>7. CASE Enqueue(r)
  <2>1. PICK j \in Job :
          /\ job' = [job EXCEPT ![j] = NewJob("pending", req[r].doc)]
          /\ req' = [req EXCEPT ![r] =
               IF req[r].doc = None THEN IdleReq
               ELSE [step |-> "stamp", doc |-> req[r].doc, job |-> j]]
    BY <1>7 DEF Enqueue
  <2>2. NewJob("pending", req[r].doc) \in JobRecord
    BY <1>a, NewJobType DEF JobPhase, ReqRecord
  <2>3. job' \in [Job -> JobRecord] /\ MarksPublished'
    BY <2>1, <2>2 DEF NewJob, TypeOK, MarksPublished
  <2>4. req' \in [Req -> ReqRecord]
    BY <2>1, <1>a, IdleReqType DEF TypeOK, ReqRecord
  <2> QED
    BY <1>7, <2>3, <2>4 DEF Enqueue, TypeOK, artifacts
<1>8. CASE Stamp(r)
  <2>1. registry' \in [Doc -> DocumentRecord]
    <3> DEFINE d == req[r].doc
    <3>1. CASE d \in Doc
      <4>1. registry[d] \in DocumentRecord
        BY <3>1 DEF TypeOK
      <4>2. [registry[d] EXCEPT !.task = req[r].job] \in DocumentRecord
        BY <4>1, <1>a DEF DocumentRecord, ReqRecord
      <4> QED
        BY <1>8, <4>2 DEF Stamp, TypeOK
    <3>2. CASE d = None
      BY <1>8, <3>2 DEF Stamp, TypeOK
    <3> QED
      BY <1>a, <3>1, <3>2 DEF ReqRecord
  <2>2. req' \in [Req -> ReqRecord]
    BY <1>8, IdleReqType DEF Stamp, TypeOK
  <2> QED
    BY <1>8, <2>1, <2>2 DEF Stamp, TypeOK, MarksPublished, artifacts
<1>9. CASE AbandonRequest(r)
  <2>1. req' \in [Req -> ReqRecord]
    BY <1>9, IdleReqType DEF AbandonRequest, TypeOK
  <2>2. abandoned' \in SUBSET Doc
    BY <1>9, <1>a DEF AbandonRequest, GivenUp, TypeOK, ReqRecord
  <2> QED
    BY <1>9, <2>1, <2>2 DEF AbandonRequest, TypeOK, MarksPublished, artifacts
<1> QED
  BY <1>1, <1>2, <1>3, <1>4, <1>5, <1>6, <1>7, <1>8, <1>9 DEF RouteStep

LEMMA PartialWritesType ==
  ASSUME TypeOK, NEW j \in Job, PartialWrites(j)
  PROVE  ordered' \in [Doc -> Artifact] /\ chunkFile' \in [Doc -> Artifact]
<1>1. job[j] \in JobRecord
  BY DEF TypeOK
<1>2. CASE /\ \E a \in {ordered[job[j].cur], Torn, job[j].src} :
                ordered' = [ordered EXCEPT ![job[j].cur] = a]
           /\ UNCHANGED chunkFile
  <2>1. ordered[job[j].cur] \in Artifact \/ job[j].cur = None
    BY <1>1 DEF TypeOK, JobRecord
  <2>2. Torn \in Artifact /\ job[j].src \in Artifact
    BY <1>1 DEF JobRecord, Artifact
  <2>3. PICK a : ordered' = [ordered EXCEPT ![job[j].cur] = a]
                 /\ (a \in Artifact \/ job[j].cur = None)
    BY <1>2, <2>1, <2>2
  <2>4. ordered \in [Doc -> Artifact]
    BY DEF TypeOK
  <2>5. ordered' \in [Doc -> Artifact]
    BY <2>3, <2>4
  <2> QED
    BY <1>2, <2>5 DEF TypeOK
<1>3. CASE /\ \E done \in SUBSET (Gathered(j) \ Unchanged(j)) :
              \E cut \in SUBSET ((Gathered(j) \ Unchanged(j)) \ done) :
                chunkFile' = [d \in Doc |-> IF d \in done THEN ordered[d]
                                            ELSE IF d \in cut THEN Torn
                                            ELSE chunkFile[d]]
           /\ UNCHANGED ordered
  BY <1>3 DEF TypeOK, Artifact
<1>4. CASE UNCHANGED artifacts
  BY <1>4 DEF TypeOK, artifacts
<1> QED
  BY <1>2, <1>3, <1>4 DEF PartialWrites

LEMMA TaskTyped ==
  ASSUME Typed, NEW j \in Job, Begin(j) \/ BuildStep(j) \/ Fail(j) \/ FailUnrecorded(j) \/ Crash(j)
  PROVE  Typed'
<1> USE DEF Typed
<1>a. job[j] \in JobRecord /\ target(j) \in Doc \cup {None}
  BY DEF TypeOK, JobRecord, target
<1>b. \A stage \in Stage : ReportStage(j, stage) \in [Doc -> DocumentRecord]
  BY ReportStageType
<1>c. EndedJob \in JobRecord /\ EndedJob.phase # "marking"
  BY NewJobType DEF JobPhase, NewJob
<1>d. ASSUME NEW new \in JobRecord, job' = [job EXCEPT ![j] = new],
             new.phase = "marking" => \A d \in new.todo : new.build[d] # Missing
      PROVE  job' \in [Job -> JobRecord] /\ MarksPublished'
  BY <1>d DEF TypeOK, MarksPublished
<1>1. CASE Begin(j)
  <2> DEFINE new == IF ~TargetLive(j) THEN EndedJob
                    ELSE IF target(j) = None THEN [job[j] EXCEPT !.phase = "begun"]
                    ELSE [job[j] EXCEPT !.phase = "started", !.path = registry[target(j)].ext]
  <2>1. target(j) # None => registry[target(j)].ext \in Ext
    BY <1>a DEF TypeOK, DocumentRecord
  <2>2. new \in JobRecord /\ new.phase # "marking"
    BY <1>a, <1>c, <2>1 DEF JobRecord, JobPhase, RunPhase
  <2>3. job' = [job EXCEPT ![j] = new]
    BY <1>1 DEF Begin, TypeOK
  <2> QED
    BY <1>1, <1>d, <2>2, <2>3 DEF Begin, TypeOK, artifacts
<1>13. CASE ReportStart(j) \/ ReportChunking(j)
  <2> DEFINE new == [job[j] EXCEPT !.phase = job'[j].phase]
  <2>1. job'[j].phase \in {"begun", "gathered"} /\ job' = [job EXCEPT ![j] = new]
    BY <1>13, <1>a DEF ReportStart, ReportChunking, JobRecord, TypeOK
  <2>2. new \in JobRecord /\ new.phase # "marking"
    BY <1>a, <2>1 DEF JobRecord, JobPhase, RunPhase, BuildPhase
  <2>3. registry' \in [Doc -> DocumentRecord]
    BY <1>13, <1>b DEF ReportStart, ReportChunking, Stage
  <2> QED
    BY <1>13, <1>d, <2>1, <2>2, <2>3 DEF ReportStart, ReportChunking, TypeOK, artifacts
<1>2. CASE AcquireLock(j) \/ TakeOverLive(j)
  <2> DEFINE new == [job[j] EXCEPT !.phase = "parsing",
                          !.todo = IF target(j) = None THEN {d \in Doc : Live(d)}
                                   ELSE {target(j)}]
  <2>0. EnterBuild(j) /\ overrun' \in BOOLEAN
    BY <1>2 DEF AcquireLock, TakeOverLive, TypeOK
  <2>1. new \in JobRecord /\ new.phase # "marking"
    BY <1>a DEF JobRecord, JobPhase, RunPhase, BuildPhase
  <2>2. job' = [job EXCEPT ![j] = new]
    BY <2>0, <1>a DEF EnterBuild, JobRecord, TypeOK
  <2>3. registry' \in [Doc -> DocumentRecord]
    BY <2>0, <1>b DEF EnterBuild, Stage
  <2> QED
    BY <2>0, <1>d, <2>1, <2>2, <2>3 DEF EnterBuild, TypeOK, artifacts
<1>3. ASSUME NEW d \in Doc, ReadSource(j, d) PROVE Typed'
  <2> DEFINE new == [job[j] EXCEPT !.phase = "converting", !.cur = d, !.src = Stored(d)]
  <2>1. Stored(d) \in Rev \cup {Missing}
    BY DEF TypeOK, Stored, DocumentRecord
  <2>2. new \in JobRecord /\ new.phase # "marking"
    BY <1>a, <2>1 DEF JobRecord, JobPhase, RunPhase, BuildPhase
  <2>3. job' = [job EXCEPT ![j] = new]
    BY <1>3, <1>a DEF ReadSource, JobRecord, TypeOK
  <2> QED
    BY <1>3, <1>d, <2>2, <2>3 DEF ReadSource, TypeOK, artifacts
<1>4. CASE Parsed(j)
  <2> DEFINE d == job[j].cur
             new == [job[j] EXCEPT !.phase = "parsing", !.todo = @ \ {d},
                                   !.cur = None, !.src = Missing]
             rec == [registry[d] EXCEPT !.stage = "parsed", !.chunks = 0]
  <2>1. new \in JobRecord /\ new.phase # "marking"
    BY <1>a DEF JobRecord, JobPhase, RunPhase, BuildPhase
  <2>2. job' = [job EXCEPT ![j] = new]
    BY <1>4, <1>a DEF Parsed, JobRecord, TypeOK
  <2>3. registry' \in [Doc -> DocumentRecord]
    <3>1. CASE d \in Doc
      <4>1. registry[d] \in DocumentRecord
        BY <3>1 DEF TypeOK
      <4>2. rec \in DocumentRecord
        BY <4>1 DEF DocumentRecord, Stage
      <4>3. registry' = [registry EXCEPT ![d] = rec]
        BY <1>4, <3>1, <4>1 DEF Parsed, TypeOK, DocumentRecord
      <4> QED
        BY <4>2, <4>3 DEF TypeOK
    <3>2. CASE d = None
      BY <1>4, <3>2 DEF Parsed, TypeOK
    <3> QED
      BY <1>a, <3>1, <3>2 DEF JobRecord
  <2>4. ordered' \in [Doc -> Artifact]
    BY <1>4, <1>a DEF Parsed, TypeOK, JobRecord, Artifact
  <2> QED
    BY <1>4, <1>d, <2>1, <2>2, <2>3, <2>4 DEF Parsed, TypeOK
<1>5. CASE TakeSnapshot(j)
  <2> DEFINE new == [job[j] EXCEPT !.phase = "listed",
                          !.snap = [d \in Doc |-> IF Live(d) THEN registry[d].rev ELSE Missing]]
  <2>1. new \in JobRecord /\ new.phase # "marking"
    BY <1>a DEF JobRecord, JobPhase, RunPhase, BuildPhase, TypeOK, DocumentRecord
  <2>2. job' = [job EXCEPT ![j] = new]
    BY <1>5, <1>a DEF TakeSnapshot, JobRecord, TypeOK
  <2> QED
    BY <1>5, <1>d, <2>1, <2>2 DEF TakeSnapshot, TypeOK, artifacts
<1>6. CASE Chunk(j)
  <2> DEFINE contents == [d \in Doc |-> IF d \notin Gathered(j) THEN Missing
                                        ELSE IF d \in Unchanged(j) THEN chunkFile[d]
                                        ELSE ordered[d]]
             new == [job[j] EXCEPT !.phase = "chunked", !.build = contents]
  <2>1. contents \in [Doc -> Rev \cup {Missing}]
    BY <1>6 DEF Chunk, Unchanged, TypeOK, Artifact
  <2>2. /\ job' = [job EXCEPT ![j].phase = "chunked", ![j].build = contents]
        /\ chunkFile' = [d \in Doc |-> IF d \in Gathered(j) THEN contents[d] ELSE chunkFile[d]]
    BY <1>6 DEF Chunk
  <2> HIDE DEF contents
  <2>3. new \in JobRecord /\ new.phase # "marking"
    BY <1>a, <2>1 DEF JobRecord, JobPhase, RunPhase, BuildPhase
  <2>4. job' = [job EXCEPT ![j] = new]
    BY <1>a, <2>2 DEF JobRecord, TypeOK
  <2>5. chunkFile' \in [Doc -> Artifact]
    BY <2>1, <2>2 DEF TypeOK, Artifact
  <2>6. registry' \in [Doc -> DocumentRecord]
    BY <1>6, <1>b DEF Chunk, Stage
  <2> QED
    BY <1>6, <1>d, <2>3, <2>4, <2>5, <2>6 DEF Chunk, TypeOK
<1>7. CASE Publish(j)
  <2> DEFINE new == [job[j] EXCEPT !.phase = "marking",
                          !.todo = {d \in Doc : job[j].build[d] # Missing}]
  <2>1. new \in JobRecord /\ \A d \in new.todo : new.build[d] # Missing
    BY <1>a DEF JobRecord, JobPhase, RunPhase, BuildPhase
  <2>2. job' = [job EXCEPT ![j] = new]
    BY <1>7, <1>a DEF Publish, JobRecord, TypeOK
  <2>3. registry' \in [Doc -> DocumentRecord]
    BY <1>7, <1>b DEF Publish, Stage
  <2>4. index' \in [Doc -> [rev : Rev \cup {Missing}, content : Rev \cup {Missing}]]
    BY <1>7, <1>a DEF Publish, JobRecord
  <2> QED
    BY <1>7, <1>d, <2>1, <2>2, <2>3, <2>4 DEF Publish, TypeOK, artifacts
<1>8. ASSUME NEW d \in Doc, Mark(j, d) PROVE Typed'
  <2> DEFINE new == [job[j] EXCEPT !.todo = @ \ {d}]
             count == ChunkCount[job[j].build[d]]
             rec == [registry[d] EXCEPT !.status = "completed", !.stage = "completed",
                                        !.chunks = count]
  <2>1. new \in JobRecord
    BY <1>a DEF JobRecord
  <2>2. job' = [job EXCEPT ![j] = new]
    BY <1>8, <1>a DEF Mark, JobRecord, TypeOK
  <2>3. job[j].build[d] \in Rev
    BY <1>8, <1>a DEF Mark, MarksPublished, JobRecord
  <2>4. count \in Nat
    BY <2>3
  <2> HIDE DEF count
  <2>5. registry[d] \in DocumentRecord
    BY DEF TypeOK
  <2>6. rec \in DocumentRecord
    BY <2>4, <2>5 DEF DocumentRecord, Status, Stage
  <2>7. registry' = [registry EXCEPT ![d] = rec]
    BY <1>8, <2>5 DEF Mark, TypeOK, DocumentRecord, count
  <2>8. new.phase = "marking" => \A e \in new.todo : new.build[e] # Missing
    BY <1>8, <1>a DEF Mark, MarksPublished, JobRecord
  <2>9. job' \in [Job -> JobRecord] /\ MarksPublished'
    BY <1>d, <2>1, <2>2, <2>8
  <2>10. registry' \in [Doc -> DocumentRecord]
    BY <2>6, <2>7 DEF TypeOK
  <2> QED
    BY <1>8, <2>9, <2>10 DEF Mark, TypeOK, artifacts
<1>9. CASE Finish(j)
  <2>1. registry' \in [Doc -> DocumentRecord] /\ lock' \in Job \cup {None}
    BY <1>9, <1>b DEF Finish, Stage, AfterRelease, TypeOK
  <2> QED
    BY <1>9, <1>c, <1>d, <2>1 DEF Finish, TypeOK, artifacts
<1>10. CASE Fail(j)
  <2>2. registry' \in [Doc -> DocumentRecord] /\ lock' \in Job \cup {None}
    BY <1>10, RecordFailedType DEF Fail, AfterRelease, TypeOK
  <2>3. ordered' \in [Doc -> Artifact] /\ chunkFile' \in [Doc -> Artifact]
    BY <1>10, PartialWritesType DEF Fail
  <2> QED
    BY <1>10, <1>c, <1>d, <2>2, <2>3 DEF Fail, TypeOK
<1>11. CASE Crash(j)
  <2>3. abandoned' \in SUBSET Doc
    BY <1>11, <1>a DEF Crash, GivenUp, TypeOK
  <2>2. ordered' \in [Doc -> Artifact] /\ chunkFile' \in [Doc -> Artifact]
    BY <1>11, PartialWritesType DEF Crash
  <2> QED
    BY <1>11, <1>c, <1>d, <2>2, <2>3 DEF Crash, TypeOK
<1>12. CASE FailUnrecorded(j)
  <2>2. lock' \in Job \cup {None} /\ abandoned' \in SUBSET Doc
    BY <1>12, <1>a DEF FailUnrecorded, AfterRelease, GivenUp, TypeOK
  <2>3. ordered' \in [Doc -> Artifact] /\ chunkFile' \in [Doc -> Artifact]
    BY <1>12, PartialWritesType DEF FailUnrecorded
  <2> QED
    BY <1>12, <1>c, <1>d, <2>2, <2>3 DEF FailUnrecorded, TypeOK
<1> QED
  BY <1>1, <1>2, <1>3, <1>4, <1>5, <1>6, <1>7, <1>8, <1>9, <1>10, <1>11, <1>12, <1>13
  DEF BuildStep

\* Every variable keeps its type, whatever fails and however many workers run.
THEOREM IngestionTyped == Spec => []TypeOK
<1>1. Typed /\ [Next]_vars => Typed'
  <2> SUFFICES ASSUME Typed, [Next]_vars PROVE Typed'
    OBVIOUS
  <2>1. CASE UNCHANGED vars
    BY <2>1 DEF Typed, TypeOK, MarksPublished, vars
  <2>2. CASE Next
    BY <2>2, RouteTyped, TaskTyped DEF Next
  <2> QED
    BY <2>1, <2>2
<1>2. Typed => TypeOK
  BY DEF Typed
<1> QED
  BY InitTyped, <1>1, <1>2, PTL DEF Spec

(***************************************************************************)
(* Mutual exclusion of builds                                              *)
(***************************************************************************)

\* A step of one task leaves the records of the others alone, and a request
\* touches only a task that does not exist yet.
LEMMA OtherTasks ==
  ASSUME TypeOK, NEW j \in Job,
         Begin(j) \/ BuildStep(j) \/ Fail(j) \/ FailUnrecorded(j) \/ Crash(j),
         NEW k \in Job, k # j
  PROVE  job'[k] = job[k]
BY DEF TypeOK, Begin, BuildStep, ReportStart, AcquireLock, TakeOverLive, EnterBuild,
   ReadSource, Parsed, TakeSnapshot, ReportChunking, Chunk, Publish, Mark, Finish, Fail,
   FailUnrecorded, Crash

LEMMA RouteTasks ==
  ASSUME TypeOK, NEW r \in Req, RouteStep(r), NEW k \in Job
  PROVE  \/ job'[k] = job[k]
         \/ Enqueue(r) /\ job[k].phase = "unused" /\ job'[k] = NewJob("pending", req[r].doc)
BY DEF TypeOK, RouteStep, Register, Replace, RetryCheck, Delete, RequestRebuild,
       RetryRequeue, Enqueue, Stamp, AbandonRequest

\* Where a task is after a worker took it.
LEMMA BeginsOrEnds ==
  ASSUME TypeOK, NEW j \in Job, Begin(j)
  PROVE  /\ job'[j].phase \in {"started", "begun", "ended"}
         /\ job'[j].phase = "ended" <=> ~TargetLive(j)
         /\ job'[j].phase = "begun" => target(j) = None
         /\ TargetLive(j) => job'[j].doc = job[j].doc
<1>1. job[j] \in JobRecord
  BY DEF TypeOK
<1>2. CASE ~TargetLive(j)
  <2>1. job'[j] = EndedJob
    BY <1>2 DEF Begin, TypeOK
  <2> QED
    BY <1>2, <2>1 DEF NewJob
<1>3. CASE TargetLive(j) /\ target(j) = None
  <2>1. job'[j] = [job[j] EXCEPT !.phase = "begun"]
    BY <1>3 DEF Begin, TypeOK
  <2> QED
    BY <1>1, <1>3, <2>1 DEF JobRecord
<1>4. CASE TargetLive(j) /\ target(j) # None
  <2>1. job'[j] = [job[j] EXCEPT !.phase = "started", !.path = registry[target(j)].ext]
    BY <1>4 DEF Begin, TypeOK
  <2> QED
    BY <1>1, <1>4, <2>1 DEF JobRecord
<1> QED
  BY <1>2, <1>3, <1>4

\* What exclusion means here: unless a build's lock was taken over while it went
\* on, every task between taking the lock and releasing it is the one it names.
OneBuilder == ~overrun => \A j \in Job : Building(j) => lock = j

\* The history forgets nothing, and only taking over from a living build adds to it.
LEMMA OverrunStays ==
  ASSUME TypeOK, [Next]_vars, ~overrun'
  PROVE  ~overrun /\ \A j \in Job : ~TakeOverLive(j)
<1>1. \A j \in Job : ~TakeOverLive(j)
  BY DEF TakeOverLive
<1>2. UNCHANGED overrun
  BY <1>1 DEF vars, Next, RouteStep, BuildStep, Register, Replace, RetryCheck, Delete,
     RequestRebuild, RetryRequeue, Enqueue, Stamp, AbandonRequest, Begin, ReportStart,
     AcquireLock, ReadSource, Parsed, TakeSnapshot, ReportChunking, Chunk, Publish, Mark,
     Finish, Fail, FailUnrecorded, Crash
<1> QED
  BY <1>1, <1>2

\* Builds exclude each other, on any number of workers, until one is overrun; a
\* refused build does not release the lock of the one that runs.
LEMMA OneBuildAtATime == Spec => []OneBuilder
<1>1. Init => OneBuilder
  BY DEF Init, OneBuilder, Building, BuildPhase, NewJob
<1>2. ASSUME TypeOK, OneBuilder, [Next]_vars PROVE OneBuilder'
  <2>0. SUFFICES ASSUME ~overrun' PROVE (\A j \in Job : Building(j) => lock = j)'
    BY DEF OneBuilder
  <2> DEFINE Only == \A j \in Job : Building(j) => lock = j
  <2>a. Only /\ \A j \in Job : ~TakeOverLive(j)
    BY <1>2, <2>0, OverrunStays DEF OneBuilder
  <2>1. CASE UNCHANGED vars
    BY <2>a, <2>1 DEF Building, vars
  <2>2. ASSUME NEW r \in Req, RouteStep(r) PROVE Only'
    <3>1. lock' = lock
      BY <2>2 DEF RouteStep, Register, Replace, RetryCheck, Delete, RequestRebuild,
         RetryRequeue, Enqueue, Stamp, AbandonRequest
    <3>2. \A k \in Job : Building(k)' => Building(k)
      <4> TAKE k \in Job
      <4>1. job'[k] = job[k] \/ job'[k] = NewJob("pending", req[r].doc)
        BY <1>2, <2>2, RouteTasks
      <4> QED
        BY <4>1 DEF Building, BuildPhase, NewJob
    <3> QED
      BY <2>a, <3>1, <3>2
  <2>3. ASSUME NEW j \in Job, Begin(j) \/ BuildStep(j) \/ Fail(j) \/ FailUnrecorded(j) \/ Crash(j)
        PROVE  Only'
    <3> USE DEF Building, BuildPhase, RunPhase
    <3>1. \A k \in Job \ {j} : job'[k] = job[k]
      BY <1>2, <2>3, OtherTasks
    <3>2. job[j] \in JobRecord
      BY <1>2 DEF TypeOK
    <3>3. CASE Begin(j) \/ ReportStart(j)
      <4>1. lock' = lock
        BY <3>3 DEF Begin, ReportStart
      <4>2. CASE Begin(j)
        <5>1. job'[j].phase \in {"started", "begun", "ended"}
          BY <1>2, <4>2, BeginsOrEnds
        <5> QED
          BY <2>a, <3>1, <4>1, <5>1
      <4>3. CASE ReportStart(j)
        <5>1. job'[j].phase = "begun"
          BY <1>2, <3>2, <4>3 DEF ReportStart, TypeOK, JobRecord
        <5> QED
          BY <2>a, <3>1, <4>1, <5>1
      <4> QED
        BY <3>3, <4>2, <4>3
    <3>4. CASE AcquireLock(j)
      <4>1. \A k \in Job \ {j} : ~Building(k)
        BY <2>a, <3>4 DEF AcquireLock, LockFree
      <4> QED
        BY <3>1, <3>4, <4>1 DEF AcquireLock, EnterBuild
    <3>5. CASE BuildStep(j) /\ ~ReportStart(j) /\ ~AcquireLock(j) /\ ~Finish(j)
      <4>1. lock' = lock /\ job[j].phase \in BuildPhase
        BY <2>a, <3>5 DEF BuildStep, ReadSource, Parsed, TakeSnapshot, ReportChunking,
           Chunk, Publish, Mark
      <4> QED
        BY <2>a, <3>1, <4>1
    <3>6. CASE Finish(j) \/ Fail(j) \/ FailUnrecorded(j)
      <4>1. ~Building(j)' /\ lock' \in AfterRelease(j)
        BY <1>2, <3>6 DEF Finish, Fail, FailUnrecorded, TypeOK, NewJob
      <4>2. ~Building(j) => lock' = lock
        BY <4>1 DEF AfterRelease
      <4>3. Building(j) => lock = j
        BY <2>a
      <4> QED
        BY <2>a, <3>1, <4>1, <4>2, <4>3
    <3>7. CASE Crash(j)
      BY <1>2, <2>a, <3>1, <3>7 DEF Crash, TypeOK, NewJob
    <3> QED
      BY <2>3, <3>3, <3>4, <3>5, <3>6, <3>7
  <2> QED
    BY <1>2, <2>1, <2>2, <2>3 DEF Next
<1> QED
  BY <1>1, <1>2, IngestionTyped, PTL DEF Spec

(***************************************************************************)
(* No document is lost.  The property is inductive on its own: who takes   *)
(* over from a request or task is written in the same step that ends it.   *)
(***************************************************************************)
Waiting(d) == Live(d) /\ registry[d].status \in {"queued", "processing"}

LEMMA LossStays ==
  ASSUME Next
  PROVE  abandoned \subseteq abandoned'
BY DEF GivenUp, Next, RouteStep, BuildStep, Register, Replace, RetryCheck, Delete,
   RequestRebuild, RetryRequeue, Enqueue, Stamp, AbandonRequest, Begin, ReportStart,
   AcquireLock, TakeOverLive, EnterBuild, ReadSource, Parsed, TakeSnapshot, ReportChunking,
   Chunk, Publish, Mark, Finish, Fail, FailUnrecorded, Crash

LEMMA RouteCarries ==
  ASSUME TypeOK, WaitingIsCarried, NEW r \in Req, RouteStep(r), NEW d \in Doc, Waiting(d)'
  PROVE  Carried(d)' \/ d \in abandoned'
<1>0. /\ req[r] \in ReqRecord /\ r \in DOMAIN req
      /\ \A e \in Doc : registry[e] \in DocumentRecord
  BY DEF TypeOK
<1>1. ASSUME d \in abandoned PROVE d \in abandoned'
  BY <1>1, LossStays DEF Next
<1>2. ASSUME NEW k \in Job, job[k].doc = d, job[k].phase = "pending" \/ Running(k)
      PROVE  Carried(d)'
  <2>1. job'[k] = job[k]
    BY <1>2, RouteTasks DEF Running, RunPhase, BuildPhase
  <2> QED
    BY <1>2, <2>1 DEF Carried, Running
<1>3. ASSUME NEW q \in Req, req[q].doc = d, req[q].step = "enqueue"
      PROVE  Carried(d)' \/ d \in abandoned'
  <2>1. CASE Enqueue(r) /\ q = r
    <3>1. PICK j \in Job : job' = [job EXCEPT ![j] = NewJob("pending", d)]
      BY <1>3, <2>1 DEF Enqueue
    <3> QED
      BY <3>1 DEF Carried, NewJob, TypeOK
  <2>2. CASE AbandonRequest(r) /\ q = r
    BY <1>3, <2>2 DEF AbandonRequest, GivenUp
  <2>3. CASE ~(Enqueue(r) /\ q = r) /\ ~(AbandonRequest(r) /\ q = r)
    <3>1. req'[q] = req[q]
      BY <1>3, <2>3 DEF TypeOK, RouteStep, Register, Replace, RetryCheck, Delete,
         RequestRebuild, RetryRequeue, Enqueue, Stamp, AbandonRequest
    <3> QED
      BY <1>3, <3>1 DEF Carried
  <2> QED
    BY <2>1, <2>2, <2>3
<1>4. CASE Waiting(d)
  BY <1>1, <1>2, <1>3, <1>4 DEF WaitingIsCarried, Waiting, Carried
<1>5. CASE ~Waiting(d)
  <2>1. req'[r].doc = d /\ req'[r].step = "enqueue"
    <3> USE <1>0, <1>5 DEF Waiting, Live
    <3>1. ASSUME NEW e \in Doc, Register(r, e) \/ Replace(r, e)
          PROVE  req'[r].doc = d /\ req'[r].step = "enqueue"
      <4>1. e = d
        BY <3>1 DEF Register, Replace, TypeOK
      <4>2. req' = [req EXCEPT ![r] = [step |-> "enqueue", doc |-> e, job |-> None]]
        BY <3>1 DEF Register, Replace
      <4> QED
        BY <4>1, <4>2 DEF TypeOK
    <3>2. ASSUME NEW e \in Doc, Delete(r, e) PROVE FALSE
      BY <3>2 DEF Delete, TypeOK
    <3>3. CASE RetryRequeue(r)
      <4>1. req[r].doc = d /\ Live(req[r].doc)
        BY <3>3 DEF RetryRequeue, TypeOK
      <4>2. req' = [req EXCEPT ![r].step = "enqueue"]
        BY <3>3, <4>1 DEF RetryRequeue
      <4> QED
        BY <4>1, <4>2 DEF TypeOK, ReqRecord
    <3>4. CASE Stamp(r)
      BY <3>4 DEF Stamp, TypeOK
    <3>5. CASE UNCHANGED registry
      BY <3>5
    <3> QED
      BY <3>1, <3>2, <3>3, <3>4, <3>5 DEF RouteStep, RetryCheck, RequestRebuild, Enqueue,
         AbandonRequest
  <2> QED
    BY <2>1 DEF Carried
<1> QED
  BY <1>4, <1>5

\* A step of a task changes the status of its own document, or completes one.
LEMMA TaskStatus ==
  ASSUME TypeOK, NEW j \in Job,
         Begin(j) \/ BuildStep(j) \/ Fail(j) \/ FailUnrecorded(j) \/ Crash(j),
         NEW d \in Doc, Waiting(d)'
  PROVE  Waiting(d) \/ target(j) = d
<1>0. \A e \in Doc : registry[e] \in DocumentRecord
  BY DEF TypeOK
<1> USE <1>0 DEF Waiting, Live
<1>1. ASSUME NEW stage \in Stage, registry' = ReportStage(j, stage)
      PROVE  Waiting(d) \/ target(j) = d
  BY <1>1 DEF ReportStage, TypeOK
<1>2. CASE registry' = RecordFailed(j)
  BY <1>2 DEF RecordFailed, TypeOK
<1>3. CASE Parsed(j)
  BY <1>3 DEF Parsed, TypeOK
<1>4. ASSUME NEW e \in Doc, Mark(j, e) PROVE Waiting(d) \/ target(j) = d
  BY <1>4 DEF Mark, TypeOK
<1>5. CASE UNCHANGED registry
  BY <1>5
<1> QED
  BY <1>1, <1>2, <1>3, <1>4, <1>5 DEF Stage, Begin, BuildStep, ReportStart, AcquireLock,
     TakeOverLive, EnterBuild, ReadSource, TakeSnapshot, ReportChunking, Chunk, Publish,
     Finish, Fail, FailUnrecorded, Crash

LEMMA TaskCarries ==
  ASSUME TypeOK, WaitingIsCarried, NEW j \in Job,
         Begin(j) \/ BuildStep(j) \/ Fail(j) \/ FailUnrecorded(j) \/ Crash(j),
         NEW d \in Doc, Waiting(d)'
  PROVE  Carried(d)' \/ d \in abandoned'
<1>1. ASSUME d \in abandoned PROVE d \in abandoned'
  BY <1>1, LossStays DEF Next
<1>2. UNCHANGED req
  BY DEF Begin, BuildStep, ReportStart, AcquireLock, TakeOverLive, EnterBuild,
     ReadSource, Parsed, TakeSnapshot, ReportChunking, Chunk, Publish, Mark, Finish,
     Fail, FailUnrecorded, Crash
<1>3. ASSUME NEW q \in Req, req[q].doc = d, req[q].step = "enqueue" PROVE Carried(d)'
  BY <1>2, <1>3 DEF Carried
<1>4. ASSUME NEW k \in Job, k # j, job[k].doc = d, job[k].phase = "pending" \/ Running(k)
      PROVE  Carried(d)'
  <2>1. job'[k] = job[k]
    BY <1>4, OtherTasks
  <2> QED
    BY <1>4, <2>1 DEF Carried, Running
<1>5. ASSUME target(j) = d PROVE Carried(d)' \/ d \in abandoned'
  <2> USE <1>5 DEF target, Waiting, Live, Running, RunPhase, BuildPhase
  <2>0. job[j] \in JobRecord /\ registry[d] \in DocumentRecord /\ d # None
    BY DEF TypeOK
  <2>1. CASE job'[j].doc = d /\ Running(j)'
    BY <2>1 DEF Carried
  <2>2. CASE Begin(j) /\ ~TargetLive(j)
    BY <2>0, <2>2 DEF Begin, TargetLive, TypeOK
  <2>3. CASE Begin(j) /\ TargetLive(j)
    <3>1. job'[j].phase \in {"started", "begun"} /\ job'[j].doc = job[j].doc
      BY <2>3, BeginsOrEnds
    <3> QED
      BY <3>1, <2>1
  <2>4. CASE ReportStart(j) \/ AcquireLock(j) \/ TakeOverLive(j)
    BY <2>0, <2>1, <2>4 DEF ReportStart, AcquireLock, TakeOverLive, EnterBuild, TypeOK,
       JobRecord
  <2>5. CASE \E e \in Doc : ReadSource(j, e) \/ Mark(j, e)
    BY <2>0, <2>1, <2>5 DEF ReadSource, Mark, TypeOK, JobRecord
  <2>6. CASE Parsed(j) \/ TakeSnapshot(j) \/ ReportChunking(j) \/ Publish(j)
    BY <2>0, <2>1, <2>6 DEF Parsed, TakeSnapshot, ReportChunking, Publish, TypeOK, JobRecord
  <2>7. CASE Chunk(j)
    <3>1. job'[j].doc = job[j].doc /\ job'[j].phase = "chunked"
      BY <2>0, <2>7 DEF Chunk, TypeOK, JobRecord
    <3> QED
      BY <3>1, <2>1
  <2>8. CASE Finish(j)
    <3>1. registry'[d].status = "completed"
      BY <2>0, <2>8 DEF Finish, ReportStage, TypeOK, DocumentRecord
    <3> QED
      BY <3>1
  <2>9. CASE Fail(j)
    <3>1. registry' = RecordFailed(j)
      BY <2>9 DEF Fail
    <3>2. CASE Live(d)
      BY <2>0, <3>1, <3>2 DEF RecordFailed, TypeOK, DocumentRecord
    <3>3. CASE ~Live(d)
      BY <2>0, <3>1, <3>3 DEF RecordFailed
    <3> QED
      BY <3>2, <3>3
  <2>10. CASE Crash(j)
    BY <2>0, <2>10 DEF Crash, GivenUp
  <2>11. CASE FailUnrecorded(j)
    BY <2>0, <2>11 DEF FailUnrecorded, GivenUp
  <2> QED
    BY <2>2, <2>3, <2>4, <2>5, <2>6, <2>7, <2>8, <2>9, <2>10, <2>11 DEF BuildStep
<1>6. CASE Waiting(d)
  <2>1. Carried(d) \/ d \in abandoned
    BY <1>6 DEF WaitingIsCarried, Waiting
  <2> QED
    BY <2>1, <1>1, <1>3, <1>4, <1>5 DEF Carried, target
<1> QED
  BY <1>5, <1>6, TaskStatus

\* No interleaving of routes and tasks leaves a document waiting for nobody:
\* a document stuck in QUEUED or PROCESSING had its request cut off before
\* delay(), its task unable to record its end, or its worker killed.
THEOREM NoDocumentIsLost == Spec => []WaitingIsCarried
<1>1. Init => WaitingIsCarried
  BY DEF Init, NoRecord, WaitingIsCarried, Live
<1>2. ASSUME TypeOK, WaitingIsCarried, [Next]_vars PROVE WaitingIsCarried'
  <2>1. CASE UNCHANGED vars
    BY <1>2, <2>1 DEF WaitingIsCarried, Live, Carried, Running, vars
  <2>2. CASE Next
    <3> SUFFICES ASSUME NEW d \in Doc, Waiting(d)' PROVE Carried(d)' \/ d \in abandoned'
      BY DEF WaitingIsCarried, Waiting
    <3> QED
      BY <1>2, <2>2, RouteCarries, TaskCarries DEF Next
  <2> QED
    BY <1>2, <2>1, <2>2
<1> QED
  BY <1>1, <1>2, IngestionTyped, PTL DEF Spec

(***************************************************************************)
(* A COMPLETED document can be searched.                                   *)
(*                                                                         *)
(* A build publishes a whole new index from one registry snapshot and from *)
(* the ordered.json files it finds.  So a document that is COMPLETED when  *)
(* the snapshot is taken must be in it and must have its ordered.json, and *)
(* none may become COMPLETED between the snapshot and the publish.  The    *)
(* latter holds because only a build completes documents, and builds       *)
(* exclude each other (OneBuilder); an overrun build ends it for good.     *)
(***************************************************************************)
Done(d) == Live(d) /\ registry[d].status = "completed"

\* What a build has achieved, by the point it has reached.
SourceRead(j) ==
    job[j].phase = "converting" => job[j].src # Missing /\ job[j].cur \in Doc
TargetAt(j, d) ==
    /\ job[j].phase \in {"parsing", "converting"} => d \in job[j].todo \/ ordered[d] # Missing
    /\ job[j].phase \in {"listed", "gathered"} => job[j].snap[d] # Missing /\ ordered[d] # Missing
    /\ job[j].phase = "chunked" => job[j].build[d] # Missing /\ ordered[d] # Missing
    /\ job[j].phase = "marking" => index[d].content # Missing /\ ordered[d] # Missing
MarksIndexed(j) ==
    job[j].phase = "marking" =>
        \A d \in job[j].todo : index[d].content # Missing /\ ordered[d] # Missing
BuildsParsed(j) ==
    job[j].phase = "chunked" =>
        \A d \in Doc : job[j].build[d] # Missing => ordered[d] # Missing

JobSound(j) ==
    /\ SourceRead(j) /\ MarksIndexed(j) /\ BuildsParsed(j)
    /\ job[j].doc # None => TargetAt(j, job[j].doc)

\* A live document has a revision, a COMPLETED one its artifact and its chunks.
DocSound(d) ==
    /\ Live(d) => registry[d].rev # Missing
    /\ Done(d) => index[d].content # Missing /\ ordered[d] # Missing

\* A build under way has every COMPLETED document.
Covers(j, d) ==
    Done(d) => /\ job[j].phase \in {"listed", "gathered"} => job[j].snap[d] # Missing
               /\ job[j].phase = "chunked" => job[j].build[d] # Missing

SearchInv ==
    /\ \A j \in Job : JobSound(j)
    /\ \A d \in Doc : DocSound(d)
    /\ \A j \in Job, d \in Doc : Covers(j, d)

LEMMA InitSearchInv == Init => SearchInv
BY DEF Init, NoRecord, SearchInv, JobSound, DocSound, Covers, SourceRead, MarksIndexed,
   BuildsParsed, TargetAt, Done, Live, NewJob

\* Outside a build the invariant asks nothing of a task.
LEMMA IdleIsSound ==
  ASSUME NEW j \in Job, job[j].phase \notin BuildPhase
  PROVE  JobSound(j) /\ \A d \in Doc : Covers(j, d)
BY DEF JobSound, SourceRead, MarksIndexed, BuildsParsed, TargetAt, Covers, BuildPhase

\* ordered.json, once written, is never missing again.
LEMMA OrderedStays ==
  ASSUME TypeOK, SearchInv, Next, NEW d \in Doc, ordered[d] # Missing
  PROVE  ordered'[d] # Missing
<1>1. CASE UNCHANGED ordered
  BY <1>1
<1>2. ASSUME NEW j \in Job, Parsed(j) PROVE ordered'[d] # Missing
  <2>1. job[j].src # Missing
    BY <1>2 DEF Parsed, SearchInv, JobSound, SourceRead
  <2> QED
    BY <1>2, <2>1 DEF Parsed, TypeOK
<1>3. ASSUME NEW j \in Job, PartialWrites(j) PROVE ordered'[d] # Missing
  <2>1. job[j].phase = "converting" => job[j].src # Missing
    BY DEF SearchInv, JobSound, SourceRead
  <2> QED
    BY <1>3, <2>1 DEF PartialWrites, TypeOK, artifacts, Torn, Missing
<1> QED
  BY <1>1, <1>2, <1>3 DEF Next, RouteStep, BuildStep, Register, Replace, RetryCheck,
     Delete, RequestRebuild, RetryRequeue, Enqueue, Stamp, AbandonRequest, Begin,
     ReportStart, AcquireLock, TakeOverLive, EnterBuild, ReadSource, TakeSnapshot,
     ReportChunking, Chunk, Publish, Mark, Finish, Fail, FailUnrecorded, Crash,
     artifacts

\* A task that did not move keeps its part, as long as the index stays.
LEMMA JobSoundStays ==
  ASSUME TypeOK, SearchInv, Next, NEW j \in Job, job'[j] = job[j], UNCHANGED index
  PROVE  JobSound(j)'
<1>1. job[j] \in JobRecord /\ JobSound(j)
  BY DEF TypeOK, SearchInv
<1>2. \A d \in Doc : ordered[d] # Missing => ordered'[d] # Missing
  BY OrderedStays
<1> QED
  BY <1>1, <1>2 DEF JobSound, SourceRead, MarksIndexed, BuildsParsed, TargetAt, JobRecord

LEMMA RouteKeepsSearchInv ==
  ASSUME TypeOK, SearchInv, NEW r \in Req, RouteStep(r)
  PROVE  SearchInv'
<1>1. UNCHANGED <<ordered, index>>
  BY DEF RouteStep, Register, Replace, RetryCheck, Delete, RequestRebuild, RetryRequeue,
     Enqueue, Stamp, AbandonRequest, artifacts
<1>2. ASSUME NEW d \in Doc PROVE (Done(d)' => Done(d)) /\ (Live(d)' => registry'[d].rev # Missing)
  <2>0. /\ registry[d] \in DocumentRecord /\ req[r].doc \in Doc \cup {None}
        /\ Live(d) => registry[d].rev # Missing
    BY DEF TypeOK, ReqRecord, SearchInv, DocSound
  <2> USE DEF Done, Live
  <2> DEFINE Kept == registry'[d].life = "live" =>
                       /\ registry'[d].rev # Missing
                       /\ registry'[d].status = "completed" => Done(d)
  <2>1. ASSUME NEW e \in Doc, Register(r, e) \/ Replace(r, e) PROVE Kept
    <3>1. registry'[e].rev = nextRev /\ registry'[e].status = "queued"
      <4>1. CASE Register(r, e)
        BY <4>1 DEF Register, TypeOK
      <4>2. CASE Replace(r, e)
        <5>1. PICK x \in Ext : registry' = [registry EXCEPT ![e] =
               [@ EXCEPT !.rev = nextRev, !.ext = x, !.status = "queued",
                         !.stage = "queued", !.task = None, !.chunks = 0]]
          BY <4>2 DEF Replace
        <5>2. registry[e] \in DocumentRecord
          BY DEF TypeOK
        <5> QED
          BY <5>1, <5>2 DEF TypeOK, DocumentRecord
      <4> QED
        BY <2>1, <4>1, <4>2
    <3>2. nextRev # Missing
      <4>1. nextRev \in Rev
        BY <2>1 DEF Register, Replace
      <4> QED
        BY <4>1 DEF Rev, Missing
    <3>3. d # e => registry'[d] = registry[d]
      BY <2>1 DEF Register, Replace, TypeOK
    <3> QED
      BY <2>0, <3>1, <3>2, <3>3
  <2>2. ASSUME NEW e \in Doc, Delete(r, e) PROVE Kept
    BY <2>0, <2>2 DEF Delete, TypeOK
  <2>3. CASE RetryRequeue(r)
    <3> DEFINE e == req[r].doc
               new == [registry[e] EXCEPT !.status = "queued", !.stage = "queued"]
    <3>1. CASE ~Live(e)
      BY <2>0, <2>3, <3>1 DEF RetryRequeue
    <3>2. CASE e = None
      <4>1. registry' = [registry EXCEPT ![e].status = "queued", ![e].stage = "queued"]
            \/ registry' = registry
        BY <2>3 DEF RetryRequeue
      <4>2. registry'[d] = registry[d]
        BY <3>2, <4>1 DEF TypeOK
      <4> QED
        BY <2>0, <4>2
    <3>3. CASE Live(e) /\ e \in Doc
      <4>1. registry[e] \in DocumentRecord
        BY <3>3 DEF TypeOK
      <4>2. registry' = [registry EXCEPT ![e] = new]
        BY <2>3, <3>3, <4>1 DEF RetryRequeue, TypeOK, DocumentRecord
      <4>3. new.rev = registry[e].rev /\ new.status = "queued" /\ new.life = registry[e].life
        BY <4>1 DEF DocumentRecord
      <4> HIDE DEF new
      <4> QED
        BY <2>0, <4>2, <4>3 DEF TypeOK
    <3> QED
      BY <2>0, <3>1, <3>2, <3>3
  <2>4. CASE Stamp(r)
    BY <2>0, <2>4 DEF Stamp, TypeOK, DocumentRecord
  <2>5. CASE UNCHANGED registry
    BY <2>0, <2>5
  <2> QED
    BY <2>1, <2>2, <2>3, <2>4, <2>5
    DEF RouteStep, RetryCheck, RequestRebuild, Enqueue, AbandonRequest
<1>3. ASSUME NEW j \in Job PROVE JobSound(j)' /\ \A d \in Doc : Covers(j, d)'
  <2>1. CASE job'[j] = job[j]
    <3>1. JobSound(j)'
      BY <1>1, <2>1, JobSoundStays DEF Next
    <3>2. \A d \in Doc : Covers(j, d)'
      BY <1>2, <2>1 DEF SearchInv, Covers
    <3> QED
      BY <3>1, <3>2
  <2>2. CASE job'[j] # job[j]
    <3>1. job'[j].phase = "pending"
      <4>1. job'[j] = NewJob("pending", req[r].doc)
        BY <2>2, RouteTasks
      <4> QED
        BY <4>1 DEF NewJob
    <3> QED
      BY <3>1 DEF JobSound, SourceRead, MarksIndexed, BuildsParsed, TargetAt, Covers
  <2> QED
    BY <2>1, <2>2
<1>4. ASSUME NEW d \in Doc PROVE DocSound(d)'
  BY <1>1, <1>2 DEF SearchInv, DocSound
<1> QED
  BY <1>3, <1>4 DEF SearchInv

\* What a step of a task does to the status of a document: nothing completes
\* one but Mark and Finish, at the end of a build.
LEMMA TaskCompletes ==
  ASSUME TypeOK, NEW j \in Job,
         Begin(j) \/ BuildStep(j) \/ Fail(j) \/ FailUnrecorded(j) \/ Crash(j),
         NEW d \in Doc
  PROVE  /\ Live(d)' = Live(d) /\ registry'[d].rev = registry[d].rev
         /\ Done(d)' => \/ Done(d)
                        \/ Mark(j, d)
                        \/ Finish(j) /\ target(j) = d
<1>0. \A e \in Doc : registry[e] \in DocumentRecord
  BY DEF TypeOK
<1> USE <1>0 DEF Done, Live
<1>1. ASSUME NEW stage \in Stage, registry' = ReportStage(j, stage)
      PROVE  /\ Live(d)' = Live(d) /\ registry'[d].rev = registry[d].rev
             /\ Done(d)' => Done(d) \/ (stage = "completed" /\ target(j) = d)
  <2>1. CASE target(j) # d
    <3>1. registry'[d] = registry[d]
      BY <1>1, <2>1 DEF ReportStage, TypeOK
    <3> QED
      BY <3>1
  <2>2. CASE target(j) = d
    <3>1. registry'[d] = [registry[d] EXCEPT
              !.status = IF stage = "completed" THEN "completed" ELSE "processing",
              !.stage = stage, !.task = j]
      BY <1>1, <2>2 DEF ReportStage, TypeOK
    <3>2. /\ registry'[d].life = registry[d].life /\ registry'[d].rev = registry[d].rev
          /\ registry'[d].status = "completed" => stage = "completed"
      BY <3>1 DEF DocumentRecord
    <3> QED
      BY <2>2, <3>2
  <2> QED
    BY <2>1, <2>2
<1>2. CASE registry' = RecordFailed(j)
  <2>1. CASE target(j) # d
    <3>1. registry'[d] = registry[d]
      BY <1>2, <2>1 DEF RecordFailed, TypeOK
    <3> QED
      BY <3>1
  <2>2. CASE target(j) = d /\ Live(d)
    <3>1. /\ registry'[d].life = registry[d].life /\ registry'[d].rev = registry[d].rev
          /\ registry'[d].status = "failed"
      BY <1>2, <2>2 DEF RecordFailed, TypeOK, DocumentRecord
    <3> QED
      BY <3>1
  <2>3. CASE target(j) = d /\ ~Live(d)
    BY <1>2, <2>3 DEF RecordFailed
  <2> QED
    BY <2>1, <2>2, <2>3
<1>3. CASE Parsed(j)
  <2>1. /\ registry'[d].life = registry[d].life /\ registry'[d].rev = registry[d].rev
        /\ registry'[d].status = registry[d].status
    BY <1>3 DEF Parsed, TypeOK, DocumentRecord
  <2> QED
    BY <2>1
<1>4. ASSUME NEW e \in Doc, Mark(j, e)
      PROVE  /\ Live(d)' = Live(d) /\ registry'[d].rev = registry[d].rev
             /\ Done(d)' => Done(d) \/ Mark(j, d)
  <2>1. CASE e # d
    <3>1. registry'[d] = registry[d]
      BY <1>4, <2>1 DEF Mark, TypeOK
    <3> QED
      BY <3>1
  <2>2. CASE e = d
    <3>1. registry'[d].life = registry[d].life /\ registry'[d].rev = registry[d].rev
      BY <1>4, <2>2 DEF Mark, TypeOK, DocumentRecord
    <3> QED
      BY <1>4, <2>2, <3>1
  <2> QED
    BY <2>1, <2>2
<1>5. CASE UNCHANGED registry
  BY <1>5
<1>6. CASE Finish(j)
  BY <1>1, <1>6 DEF Finish, Stage
<1> QED
  BY <1>1, <1>2, <1>3, <1>4, <1>5, <1>6 DEF Stage, Begin, BuildStep, ReportStart,
     AcquireLock, TakeOverLive, EnterBuild, ReadSource, TakeSnapshot, ReportChunking,
     Chunk, Publish, Fail, FailUnrecorded, Crash

LEMMA TaskKeepsSearchInv ==
  ASSUME TypeOK, OneBuilder, ~overrun, SearchInv, NEW j \in Job, ~TakeOverLive(j),
          Begin(j) \/ BuildStep(j) \/ Fail(j) \/ FailUnrecorded(j) \/ Crash(j)
  PROVE  SearchInv'
<1>0. /\ job[j] \in JobRecord /\ JobSound(j)
      /\ \A d \in Doc : DocSound(d) /\ Covers(j, d)
  BY DEF TypeOK, SearchInv
<1>1. \A d \in Doc : ordered[d] # Missing => ordered'[d] # Missing
  BY OrderedStays DEF Next
<1>2. ASSUME NEW k \in Job, k # j PROVE JobSound(k)' /\ \A d \in Doc : Covers(k, d)'
  <2>1. job'[k] = job[k]
    BY <1>2, OtherTasks
  <2>2. CASE Building(k)
    <3>1. ~Building(j)
      BY <1>2, <2>2 DEF OneBuilder
    <3>2. UNCHANGED index /\ ~Finish(j) /\ \A d \in Doc : ~Mark(j, d)
      BY <3>1 DEF Building, BuildPhase, Begin, BuildStep, ReportStart, AcquireLock,
         TakeOverLive, EnterBuild, ReadSource, Parsed, TakeSnapshot, ReportChunking,
         Chunk, Publish, Mark, Finish, Fail, FailUnrecorded, Crash
    <3>3. JobSound(k)'
      BY <2>1, <3>2, JobSoundStays DEF Next
    <3>4. \A d \in Doc : Done(d)' => Done(d)
      BY <3>2, TaskCompletes
    <3>5. \A d \in Doc : Covers(k, d)'
      BY <2>1, <3>4 DEF SearchInv, Covers
    <3> QED
      BY <3>3, <3>5
  <2>3. CASE ~Building(k)
    BY <2>1, <2>3 DEF Building, BuildPhase, JobSound, SourceRead, MarksIndexed,
       BuildsParsed, TargetAt, Covers
  <2> QED
    BY <2>2, <2>3
<1>3. ASSUME NEW d \in Doc PROVE DocSound(d)'
  <2>1. CASE Publish(j)
    <3>1. index'[d].content = job[j].build[d] /\ UNCHANGED ordered
      BY <2>1 DEF Publish, artifacts
    <3>2. Done(d)' => Done(d)
      BY <2>1, TaskCompletes DEF Publish, Mark, Finish
    <3>3. Done(d) => job[j].build[d] # Missing
      BY <1>0, <2>1 DEF Publish, Covers
    <3> QED
      BY <1>0, <3>1, <3>2, <3>3, TaskCompletes DEF DocSound
  <2>2. CASE ~Publish(j)
    <3>1. UNCHANGED index
      BY <2>2 DEF Begin, BuildStep, ReportStart, AcquireLock, TakeOverLive, EnterBuild,
         ReadSource, Parsed, TakeSnapshot, ReportChunking, Chunk, Mark, Finish, Fail,
         FailUnrecorded, Crash
    <3>2. Mark(j, d) => index[d].content # Missing /\ ordered[d] # Missing
      BY <1>0 DEF Mark, JobSound, MarksIndexed
    <3>3. Finish(j) /\ target(j) = d => index[d].content # Missing /\ ordered[d] # Missing
      BY <1>0 DEF Finish, JobSound, TargetAt, target
    <3> QED
      BY <1>0, <1>1, <3>1, <3>2, <3>3, TaskCompletes DEF DocSound
  <2> QED
    BY <2>1, <2>2
<1>4. JobSound(j)' /\ \A d \in Doc : Covers(j, d)'
  <2> USE <1>0 DEF JobSound, SourceRead, MarksIndexed, BuildsParsed, TargetAt, Covers
  <2>1. CASE job'[j].phase \notin BuildPhase
    BY <2>1 DEF BuildPhase
  <2>2. CASE Begin(j) \/ ReportStart(j) \/ Finish(j) \/ Fail(j) \/ FailUnrecorded(j) \/ Crash(j)
    <3>1. job'[j].phase \notin BuildPhase
      BY <2>2, BeginsOrEnds DEF ReportStart, Finish, Fail, FailUnrecorded, Crash, TypeOK,
         JobRecord, NewJob, BuildPhase
    <3> QED
      BY <2>1, <3>1
  <2>3. CASE AcquireLock(j)
    <3>1. /\ job'[j].phase = "parsing" /\ job'[j].doc = job[j].doc
          /\ job[j].doc # None => job'[j].todo = {job[j].doc}
      BY <2>3 DEF AcquireLock, EnterBuild, TypeOK, JobRecord, target
    <3> QED
      BY <3>1
  <2>4. ASSUME NEW d \in Doc, ReadSource(j, d)
        PROVE  JobSound(j)' /\ \A e \in Doc : Covers(j, e)'
    <3>1. /\ job'[j].phase = "converting" /\ job'[j].doc = job[j].doc
          /\ job'[j].todo = job[j].todo /\ job'[j].cur = d /\ job'[j].src = Stored(d)
          /\ job[j].phase = "parsing" /\ Stored(d) # Missing
      BY <2>4 DEF ReadSource, TypeOK, JobRecord
    <3> QED
      BY <1>1, <3>1 DEF JobRecord
  <2>5. CASE Parsed(j)
    <3>1. /\ job'[j].phase = "parsing" /\ job'[j].doc = job[j].doc
          /\ job'[j].todo = job[j].todo \ {job[j].cur} /\ job[j].phase = "converting"
      BY <2>5 DEF Parsed, TypeOK, JobRecord
    <3>2. ordered'[job[j].cur] # Missing
      BY <2>5 DEF Parsed, TypeOK
    <3> QED
      BY <1>1, <3>1, <3>2 DEF JobRecord
  <2>6. CASE TakeSnapshot(j)
    <3>1. /\ job'[j].phase = "listed" /\ job'[j].doc = job[j].doc
          /\ job'[j].snap = [d \in Doc |-> IF Live(d) THEN registry[d].rev ELSE Missing]
          /\ UNCHANGED ordered /\ job[j].phase = "parsing" /\ job[j].todo = {}
      BY <2>6 DEF TakeSnapshot, TypeOK, JobRecord, artifacts
    <3>2. \A d \in Doc : Live(d) => job'[j].snap[d] # Missing
      BY <3>1 DEF DocSound
    <3>3. \A d \in Doc : Done(d)' => Live(d)
      BY <2>6, TaskCompletes DEF TakeSnapshot, Mark, Finish, Done
    <3>4. job[j].doc # None => job[j].doc \in Doc /\ Live(job[j].doc)
      BY <2>6 DEF TakeSnapshot, TargetLive, target
    <3> QED
      BY <3>1, <3>2, <3>3, <3>4
  <2>10. CASE ReportChunking(j)
    <3>1. /\ job'[j].phase = "gathered" /\ job'[j].doc = job[j].doc
          /\ job'[j].snap = job[j].snap
          /\ UNCHANGED ordered /\ job[j].phase = "listed"
      BY <2>10 DEF ReportChunking, TypeOK, JobRecord, artifacts
    <3>2. \A d \in Doc : Done(d)' => Done(d)
      BY <2>10, TaskCompletes DEF ReportChunking, Mark, Finish
    <3> QED
      BY <3>1, <3>2
  <2>7. CASE Chunk(j)
    <3> DEFINE contents == [d \in Doc |-> IF d \notin Gathered(j) THEN Missing
                                          ELSE IF d \in Unchanged(j) THEN chunkFile[d]
                                          ELSE ordered[d]]
    <3>1. /\ job' = [job EXCEPT ![j].phase = "chunked", ![j].build = contents]
          /\ job[j].phase = "gathered" /\ UNCHANGED ordered
      BY <2>7 DEF Chunk
    <3>2. \A d \in Doc : contents[d] # Missing <=> job[j].snap[d] # Missing /\ ordered[d] # Missing
      BY DEF Gathered, Unchanged, Rev, Missing
    <3> HIDE DEF contents
    <3>3. job'[j].phase = "chunked" /\ job'[j].doc = job[j].doc /\ job'[j].build = contents
      BY <3>1 DEF TypeOK, JobRecord
    <3>4. \A d \in Doc : Done(d)' => Done(d)
      BY <2>7, TaskCompletes DEF Chunk, Mark, Finish
    <3> QED
      BY <3>1, <3>2, <3>3, <3>4 DEF DocSound, JobRecord
  <2>8. CASE Publish(j)
    <3>1. /\ job'[j].phase = "marking" /\ job'[j].doc = job[j].doc
          /\ job'[j].todo = {d \in Doc : job[j].build[d] # Missing}
          /\ UNCHANGED ordered /\ job[j].phase = "chunked"
      BY <2>8 DEF Publish, TypeOK, JobRecord, artifacts
    <3>2. \A d \in Doc : index'[d].content = job[j].build[d]
      BY <2>8 DEF Publish
    <3> QED
      BY <3>1, <3>2 DEF JobRecord
  <2>9. ASSUME NEW d \in Doc, Mark(j, d)
        PROVE  JobSound(j)' /\ \A e \in Doc : Covers(j, e)'
    <3>1. /\ job'[j].phase = "marking" /\ job'[j].doc = job[j].doc
          /\ job'[j].todo = job[j].todo \ {d}
          /\ UNCHANGED <<ordered, index>> /\ job[j].phase = "marking"
      BY <2>9 DEF Mark, TypeOK, JobRecord, artifacts
    <3> QED
      BY <3>1 DEF JobRecord
  <2> QED
    BY <2>2, <2>3, <2>4, <2>5, <2>6, <2>7, <2>8, <2>9, <2>10 DEF BuildStep
<1> QED
  BY <1>2, <1>3, <1>4 DEF SearchInv

\* A COMPLETED document stays in the published index, with the chunks made of an
\* upload of it, on any number of workers and through failures and crashes at any
\* point, until a build is overrun by another.
THEOREM CompletedDocumentsAreSearchable == Spec => []CompletedIsIndexed
<1> DEFINE Inv == ~overrun => SearchInv
<1>1. ASSUME TypeOK, OneBuilder, Inv, [Next]_vars PROVE Inv'
  <2>0. SUFFICES ASSUME ~overrun' PROVE SearchInv'
    OBVIOUS
  <2>a. ~overrun /\ SearchInv /\ \A j \in Job : ~TakeOverLive(j)
    BY <1>1, <2>0, OverrunStays
  <2>1. CASE UNCHANGED vars
    BY <2>a, <2>1 DEF SearchInv, JobSound, DocSound, Covers, SourceRead, MarksIndexed,
       BuildsParsed, TargetAt, Done, Live, vars
  <2>2. CASE Next
    BY <1>1, <2>a, <2>2, RouteKeepsSearchInv, TaskKeepsSearchInv DEF Next
  <2> QED
    BY <1>1, <2>1, <2>2
<1>2. Inv => CompletedIsIndexed
  BY DEF SearchInv, DocSound, Done, CompletedIsIndexed
<1>3. Init => Inv
  BY InitSearchInv
<1> QED
  BY <1>1, <1>2, <1>3, IngestionTyped, OneBuildAtATime, PTL DEF Spec

(***************************************************************************)
(* The index never goes back to an earlier upload.  Contents are numbered  *)
(* by upload, and along the way from the stored file to the index none is  *)
(* older than what comes after it: index, chunks.jsonl, ordered.json, the  *)
(* stored file.  A file that was cut short has no content to compare, and  *)
(* is not read either.                                                     *)
(***************************************************************************)
NotNewer(x, y) == y = Torn \/ x <= y

DocAge(d) ==
    /\ registry[d].rev < nextRev
    /\ Live(d) => Stored(d) = registry[d].rev
    /\ ordered[d] <= registry[d].rev
    /\ chunkFile[d] <= registry[d].rev
    /\ index[d].content <= registry[d].rev
    /\ NotNewer(index[d].content, chunkFile[d])
    /\ NotNewer(index[d].content, ordered[d])
    /\ NotNewer(chunkFile[d], ordered[d])

\* What a build has read is not older than what it will replace.
SourceAge(j) ==
    job[j].phase = "converting" =>
        /\ job[j].cur \in Doc
        /\ job[j].src <= registry[job[j].cur].rev
        /\ index[job[j].cur].content <= job[j].src
        /\ chunkFile[job[j].cur] <= job[j].src
BuildAge(j) ==
    job[j].phase = "chunked" =>
        \A d \in Doc : job[j].build[d] # Missing =>
            /\ job[j].build[d] = chunkFile[d]
            /\ job[j].build[d] <= ordered[d]
            /\ index[d].content <= job[j].build[d]

AgeInv ==
    /\ \A d \in Doc : DocAge(d)
    /\ \A j \in Job : SourceAge(j) /\ BuildAge(j)

LEMMA InitAge == Init => AgeInv
<1> SUFFICES ASSUME Init PROVE AgeInv
  OBVIOUS
<1>1. \A d \in Doc : DocAge(d)
  BY DEF Init, NoRecord, DocAge, NotNewer, Nothing, Missing, Live
<1>2. \A j \in Job : SourceAge(j) /\ BuildAge(j)
  BY DEF Init, SourceAge, BuildAge, NewJob
<1> QED
  BY <1>1, <1>2 DEF AgeInv

\* What age is measured in.
LEMMA Ages ==
  ASSUME TypeOK, NEW d \in Doc
  PROVE  /\ registry[d] \in DocumentRecord /\ registry[d].rev \in Nat /\ nextRev \in Nat
         /\ ordered[d] \in Int /\ ordered[d] >= Torn
         /\ chunkFile[d] \in Int /\ chunkFile[d] >= Torn
         /\ index[d].content \in Nat
<1>1. \A x \in Artifact : x \in Int /\ x >= Torn
  BY DEF Artifact, Rev, Missing, Torn
<1>2. \A x \in Rev \cup {Missing} : x \in Nat
  BY DEF Rev, Missing
<1> QED
  BY <1>1, <1>2 DEF TypeOK, DocumentRecord

\* The routes only ever move a document on to a later upload, and the file of a
\* live document is the one its record names.
LEMMA RouteMovesOn ==
  ASSUME TypeOK, AgeInv, NEW r \in Req, RouteStep(r), NEW d \in Doc
  PROVE  /\ registry'[d].rev \in Nat /\ registry[d].rev <= registry'[d].rev
         /\ registry'[d].rev < nextRev'
         /\ Live(d)' => Stored(d)' = registry'[d].rev
<1> DEFINE Goal == /\ registry'[d].rev \in Nat /\ registry[d].rev <= registry'[d].rev
                   /\ registry'[d].rev < nextRev'
                   /\ Live(d)' => Stored(d)' = registry'[d].rev
<1>0. /\ registry[d] \in DocumentRecord /\ registry[d].rev \in Nat /\ nextRev \in Nat
      /\ registry[d].rev < nextRev
      /\ Live(d) => Stored(d) = registry[d].rev
      /\ registry[d].ext \in Ext
      /\ uploads[d] \in [Ext -> Rev \cup {Missing}]
  BY Ages DEF AgeInv, DocAge, TypeOK, DocumentRecord
<1>1. ASSUME nextRev' \in Nat, nextRev <= nextRev', registry'[d].rev = registry[d].rev,
             uploads'[d] = uploads[d], registry'[d].ext = registry[d].ext,
             Live(d)' => Live(d)
      PROVE  Goal
  BY <1>0, <1>1 DEF Stored
<1>2. ASSUME NEW e \in Doc, Register(r, e) PROVE Goal
  <2>1. PICK x \in Ext :
          /\ uploads' = [uploads EXCEPT ![e][x] = nextRev]
          /\ registry' = [registry EXCEPT ![e] =
               [life |-> "live", rev |-> nextRev, ext |-> x, status |-> "queued",
                stage |-> "queued", task |-> None, chunks |-> 0]]
    BY <1>2 DEF Register
  <2>2. nextRev' = nextRev + 1
    BY <1>2 DEF Register
  <2>3. CASE d = e
    <3>1. registry'[d].rev = nextRev /\ registry'[d].ext = x /\ uploads'[d][x] = nextRev
      BY <1>0, <2>1, <2>3 DEF TypeOK
    <3> QED
      BY <1>0, <2>2, <3>1 DEF Stored
  <2>4. CASE d # e
    <3>1. registry'[d] = registry[d] /\ uploads'[d] = uploads[d]
      BY <2>1, <2>4 DEF TypeOK
    <3> QED
      BY <1>0, <1>1, <2>2, <3>1 DEF Live
  <2> QED
    BY <2>3, <2>4
<1>3. ASSUME NEW e \in Doc, Replace(r, e) PROVE Goal
  <2>1. PICK x \in Ext :
          /\ uploads' = [uploads EXCEPT ![e] =
               [y \in Ext |-> IF y = x THEN nextRev
                              ELSE IF y = registry[e].ext THEN Missing ELSE @[y]]]
          /\ registry' = [registry EXCEPT ![e] =
               [@ EXCEPT !.rev = nextRev, !.ext = x, !.status = "queued",
                         !.stage = "queued", !.task = None, !.chunks = 0]]
    BY <1>3 DEF Replace
  <2>2. nextRev' = nextRev + 1
    BY <1>3 DEF Replace
  <2>3. CASE d = e
    <3>1. uploads'[d][x] = nextRev
      BY <2>1, <2>3 DEF TypeOK
    <3>2. registry'[d].rev = nextRev /\ registry'[d].ext = x
      BY <1>0, <2>1, <2>3 DEF TypeOK, DocumentRecord
    <3> QED
      BY <1>0, <2>2, <3>1, <3>2 DEF Stored
  <2>4. CASE d # e
    <3>1. registry'[d] = registry[d] /\ uploads'[d] = uploads[d]
      BY <2>1, <2>4 DEF TypeOK
    <3> QED
      BY <1>0, <1>1, <2>2, <3>1 DEF Live
  <2> QED
    BY <2>3, <2>4
<1>4. ASSUME NEW e \in Doc, Delete(r, e) PROVE Goal
  <2>1. /\ registry' = [registry EXCEPT ![e] =
               [NoRecord EXCEPT !.life = "deleted", !.rev = registry[e].rev]]
        /\ uploads' = [uploads EXCEPT ![e][registry[e].ext] = Missing]
        /\ nextRev' = nextRev
    BY <1>4 DEF Delete
  <2>2. CASE d = e
    <3>1. registry'[d].life = "deleted" /\ registry'[d].rev = registry[d].rev
      BY <1>0, <2>1, <2>2 DEF TypeOK, NoRecord
    <3> QED
      BY <1>0, <2>1, <3>1 DEF Live
  <2>3. CASE d # e
    <3>1. registry'[d] = registry[d] /\ uploads'[d] = uploads[d]
      BY <2>1, <2>3 DEF TypeOK
    <3> QED
      BY <1>0, <1>1, <2>1, <3>1 DEF Live
  <2> QED
    BY <2>2, <2>3
<1>5. CASE RetryRequeue(r)
  <2> DEFINE e == req[r].doc
  <2>1. /\ registry' = registry
           \/ registry' = [registry EXCEPT ![e].status = "queued", ![e].stage = "queued"]
        /\ uploads' = uploads /\ nextRev' = nextRev
    BY <1>5 DEF RetryRequeue
  <2> DEFINE new == [registry[d] EXCEPT !.status = "queued", !.stage = "queued"]
  <2>2. registry'[d] = registry[d] \/ registry'[d] = new
    <3>1. CASE e = d
      BY <1>0, <2>1, <3>1 DEF TypeOK, DocumentRecord
    <3>2. CASE e # d
      BY <2>1, <3>2 DEF TypeOK
    <3> QED
      BY <3>1, <3>2
  <2>3. /\ new.rev = registry[d].rev /\ new.ext = registry[d].ext
        /\ new.life = registry[d].life
    BY <1>0 DEF DocumentRecord
  <2> HIDE DEF new
  <2> QED
    BY <1>0, <1>1, <2>1, <2>2, <2>3 DEF Live
<1>6. CASE Stamp(r)
  <2>1. /\ registry'[d].rev = registry[d].rev /\ registry'[d].ext = registry[d].ext
        /\ registry'[d].life = registry[d].life
    BY <1>0, <1>6 DEF Stamp, TypeOK, DocumentRecord
  <2> QED
    BY <1>0, <1>1, <1>6, <2>1 DEF Stamp, Live
<1>7. CASE UNCHANGED <<registry, uploads, nextRev>>
  BY <1>0, <1>1, <1>7 DEF Live
<1> QED
  BY <1>2, <1>3, <1>4, <1>5, <1>6, <1>7
  DEF RouteStep, RetryCheck, RequestRebuild, Enqueue, AbandonRequest

LEMMA RouteKeepsAge ==
  ASSUME TypeOK, AgeInv, NEW r \in Req, RouteStep(r)
  PROVE  AgeInv'
<1>1. UNCHANGED <<ordered, chunkFile, index>>
  BY DEF RouteStep, Register, Replace, RetryCheck, Delete, RequestRebuild, RetryRequeue,
     Enqueue, Stamp, AbandonRequest, artifacts
<1>2. ASSUME NEW d \in Doc PROVE DocAge(d)'
  BY <1>1, <1>2, Ages, RouteMovesOn DEF AgeInv, DocAge
<1>3. ASSUME NEW j \in Job PROVE SourceAge(j)' /\ BuildAge(j)'
  <2>1. CASE job'[j] = job[j]
    <3>1. SourceAge(j)'
      <4> SUFFICES ASSUME job[j].phase = "converting"
                   PROVE  job[j].src <= registry'[job[j].cur].rev
        BY <1>1, <2>1 DEF AgeInv, SourceAge
      <4>1. job[j].cur \in Doc /\ job[j].src <= registry[job[j].cur].rev
        BY DEF AgeInv, SourceAge
      <4>2. job[j].src \in Nat
        BY DEF TypeOK, JobRecord, Rev, Missing
      <4> QED
        BY <4>1, <4>2, Ages, RouteMovesOn
    <3>2. BuildAge(j)'
      BY <1>1, <2>1 DEF AgeInv, BuildAge
    <3> QED
      BY <3>1, <3>2
  <2>2. CASE job'[j] # job[j]
    <3>1. job'[j].phase = "pending"
      <4>1. job'[j] = NewJob("pending", req[r].doc)
        BY <2>2, RouteTasks
      <4> QED
        BY <4>1 DEF NewJob
    <3> QED
      BY <3>1 DEF SourceAge, BuildAge
  <2> QED
    BY <2>1, <2>2
<1> QED
  BY <1>2, <1>3 DEF AgeInv

\* A step of a task leaves the files of the documents to the routes.
LEMMA TaskKeepsFile ==
  ASSUME TypeOK, NEW j \in Job,
         Begin(j) \/ BuildStep(j) \/ Fail(j) \/ FailUnrecorded(j) \/ Crash(j),
         NEW d \in Doc
  PROVE  /\ registry'[d].rev = registry[d].rev
         /\ registry'[d].life = registry[d].life
         /\ Live(d)' = Live(d)
         /\ Stored(d)' = Stored(d)
         /\ nextRev' = nextRev
<1> DEFINE Kept == /\ registry'[d].rev = registry[d].rev /\ registry'[d].ext = registry[d].ext
                   /\ registry'[d].life = registry[d].life
<1>0. registry[d] \in DocumentRecord
  BY DEF TypeOK
<1>1. ASSUME NEW stage \in Stage, registry' = ReportStage(j, stage) PROVE Kept
  <2>1. CASE target(j) # d
    <3>1. registry'[d] = registry[d]
      BY <1>1, <2>1 DEF ReportStage, TypeOK
    <3> QED
      BY <3>1
  <2>2. CASE target(j) = d
    <3>1. registry'[d] = [registry[d] EXCEPT
              !.status = IF stage = "completed" THEN "completed" ELSE "processing",
              !.stage = stage, !.task = j]
      BY <1>1, <2>2 DEF ReportStage, TypeOK
    <3> QED
      BY <1>0, <3>1 DEF DocumentRecord
  <2> QED
    BY <2>1, <2>2
<1>2. ASSUME registry' = RecordFailed(j) PROVE Kept
  BY <1>0, <1>2 DEF RecordFailed, TypeOK, DocumentRecord
<1>3. ASSUME Parsed(j) PROVE Kept
  BY <1>0, <1>3 DEF Parsed, TypeOK, DocumentRecord
<1>4. ASSUME NEW e \in Doc, Mark(j, e) PROVE Kept
  BY <1>0, <1>4 DEF Mark, TypeOK, DocumentRecord
<1>5. ASSUME UNCHANGED registry PROVE Kept
  BY <1>5
<1>6. Kept
  BY <1>1, <1>2, <1>3, <1>4, <1>5 DEF Stage, Begin, BuildStep, ReportStart, AcquireLock,
     TakeOverLive, EnterBuild, ReadSource, TakeSnapshot, ReportChunking, Chunk, Publish,
     Finish, Fail, FailUnrecorded, Crash
<1>7. UNCHANGED <<uploads, nextRev>>
  BY DEF Begin, BuildStep, ReportStart, AcquireLock, TakeOverLive, EnterBuild,
     ReadSource, Parsed, TakeSnapshot, ReportChunking, Chunk, Publish, Mark, Finish,
     Fail, FailUnrecorded, Crash
<1> QED
  BY <1>6, <1>7 DEF Live, Stored

\* A task outside a build touches neither the artifacts nor the index.
LEMMA OutsideBuilds ==
  ASSUME NEW j \in Job, ~Building(j),
         Begin(j) \/ BuildStep(j) \/ Fail(j) \/ FailUnrecorded(j) \/ Crash(j)
  PROVE  UNCHANGED <<ordered, chunkFile, index>>
BY DEF Building, BuildPhase, artifacts, Begin, BuildStep, ReportStart, AcquireLock,
   TakeOverLive, EnterBuild, ReadSource, Parsed, TakeSnapshot, ReportChunking, Chunk,
   Publish, Mark, Finish, Fail, FailUnrecorded, Crash, PartialWrites

\* Gathered artifacts in any order of age: index, chunks.jsonl, ordered.json.
ArtifactAge(d) ==
    /\ ordered[d] <= registry[d].rev
    /\ chunkFile[d] <= registry[d].rev
    /\ index[d].content <= registry[d].rev
    /\ NotNewer(index[d].content, chunkFile[d])
    /\ NotNewer(index[d].content, ordered[d])
    /\ NotNewer(chunkFile[d], ordered[d])

\* What a build writes, in whole or in part, keeps the order of age.
LEMMA WritesKeepAge ==
  ASSUME TypeOK, AgeInv, NEW j \in Job, NEW d \in Doc, registry'[d].rev = registry[d].rev,
         \/ Parsed(j) \/ Chunk(j) \/ Publish(j)
         \/ PartialWrites(j) /\ UNCHANGED index
         \/ UNCHANGED <<ordered, chunkFile, index>>
  PROVE  ArtifactAge(d)'
<1>0. /\ registry[d].rev \in Nat
      /\ ordered[d] \in Int /\ ordered[d] >= Torn
      /\ chunkFile[d] \in Int /\ chunkFile[d] >= Torn
      /\ index[d].content \in Nat
      /\ ArtifactAge(d)
  BY Ages DEF AgeInv, DocAge, ArtifactAge
<1>a. job[j].phase = "converting" =>
        /\ job[j].cur \in Doc /\ job[j].src \in Nat
        /\ job[j].src <= registry[job[j].cur].rev
        /\ index[job[j].cur].content <= job[j].src
        /\ chunkFile[job[j].cur] <= job[j].src
  BY DEF AgeInv, SourceAge, TypeOK, JobRecord, Rev, Missing
<1> USE DEF ArtifactAge, NotNewer, Torn, Missing
<1>1. ASSUME UNCHANGED <<chunkFile, index>>, job[j].phase = "converting",
             NEW a \in {ordered[job[j].cur], Torn, job[j].src},
             ordered' = [ordered EXCEPT ![job[j].cur] = a]
      PROVE  ArtifactAge(d)'
  <2>1. CASE job[j].cur = d
    <3>1. ordered'[d] = a
      BY <1>1, <2>1 DEF TypeOK
    <3> QED
      BY <1>0, <1>a, <1>1, <2>1, <3>1
  <2>2. CASE job[j].cur # d
    <3>1. ordered'[d] = ordered[d]
      BY <1>1, <2>2 DEF TypeOK
    <3> QED
      BY <1>0, <1>1, <3>1
  <2> QED
    BY <2>1, <2>2
<1>2. CASE Parsed(j)
  BY <1>1, <1>2 DEF Parsed
<1>3. CASE Chunk(j)
  <2>1. /\ UNCHANGED <<ordered, index>>
        /\ d \in Gathered(j) => ordered[d] # Torn
        /\ chunkFile'[d] \in {chunkFile[d], ordered[d]}
        /\ d \notin Gathered(j) => chunkFile'[d] = chunkFile[d]
    BY <1>3 DEF Chunk
  <2> QED
    BY <1>0, <2>1
<1>4. CASE Publish(j)
  <2>1. /\ UNCHANGED <<ordered, chunkFile>> /\ index'[d].content = job[j].build[d]
        /\ job[j].build[d] # Missing =>
              job[j].build[d] = chunkFile[d] /\ job[j].build[d] <= ordered[d]
    BY <1>4 DEF Publish, artifacts, AgeInv, BuildAge
  <2> QED
    BY <1>0, <2>1
<1>5. CASE PartialWrites(j) /\ UNCHANGED index
  <2>1. CASE job[j].phase = "converting"
    BY <1>1, <1>5, <2>1 DEF PartialWrites
  <2>2. CASE job[j].phase = "gathered" /\ UNCHANGED ordered
    <3>1. \/ chunkFile'[d] = chunkFile[d]
          \/ chunkFile'[d] = Torn
          \/ chunkFile'[d] = ordered[d] /\ ordered[d] # Torn
      BY <1>5, <2>2 DEF PartialWrites, artifacts
    <3> QED
      BY <1>0, <1>5, <2>2, <3>1
  <2>3. CASE UNCHANGED artifacts
    BY <1>0, <1>5, <2>3 DEF artifacts
  <2> QED
    BY <1>5, <2>1, <2>2, <2>3 DEF PartialWrites
<1>6. CASE UNCHANGED <<ordered, chunkFile, index>>
  BY <1>0, <1>6
<1> QED
  BY <1>2, <1>3, <1>4, <1>5, <1>6

LEMMA TaskKeepsAge ==
  ASSUME TypeOK, OneBuilder, ~overrun, AgeInv, NEW j \in Job, ~TakeOverLive(j),
         Begin(j) \/ BuildStep(j) \/ Fail(j) \/ FailUnrecorded(j) \/ Crash(j)
  PROVE  AgeInv'
<1>0. \A d \in Doc : /\ registry'[d].rev = registry[d].rev /\ nextRev' = nextRev
                     /\ Live(d)' = Live(d) /\ Stored(d)' = Stored(d)
  BY TaskKeepsFile
<1>1. ASSUME NEW d \in Doc PROVE DocAge(d)'
  <2>1. \/ Parsed(j) \/ Chunk(j) \/ Publish(j)
        \/ PartialWrites(j) /\ UNCHANGED index
        \/ UNCHANGED <<ordered, chunkFile, index>>
    BY DEF Begin, BuildStep, ReportStart, AcquireLock, TakeOverLive, EnterBuild,
       ReadSource, TakeSnapshot, ReportChunking, Mark, Finish, Fail, FailUnrecorded,
       Crash, artifacts
  <2>2. ArtifactAge(d)'
    BY <1>0, <2>1, WritesKeepAge
  <2> QED
    BY <1>0, <2>2 DEF AgeInv, DocAge, ArtifactAge
<1>2. ASSUME NEW k \in Job, k # j PROVE SourceAge(k)' /\ BuildAge(k)'
  <2>1. job'[k] = job[k]
    BY <1>2, OtherTasks
  <2>2. CASE Building(k)
    <3>1. ~Building(j)
      BY <1>2, <2>2 DEF OneBuilder
    <3>2. UNCHANGED <<ordered, chunkFile, index>>
      BY <3>1, OutsideBuilds
    <3> QED
      BY <1>0, <2>1, <3>2 DEF AgeInv, SourceAge, BuildAge
  <2>3. CASE ~Building(k)
    BY <2>1, <2>3 DEF Building, BuildPhase, SourceAge, BuildAge
  <2> QED
    BY <2>2, <2>3
<1>3. SourceAge(j)' /\ BuildAge(j)'
  <2>0. job[j] \in JobRecord
    BY DEF TypeOK
  <2>1. CASE job'[j].phase \notin {"converting", "chunked"}
    BY <2>1 DEF SourceAge, BuildAge
  <2>2. ASSUME NEW d \in Doc, ReadSource(j, d) PROVE SourceAge(j)' /\ BuildAge(j)'
    <3>1. /\ job'[j].phase = "converting" /\ job'[j].cur = d /\ job'[j].src = registry[d].rev
          /\ UNCHANGED <<chunkFile, index>>
      BY <2>0, <2>2 DEF ReadSource, TypeOK, JobRecord, AgeInv, DocAge, artifacts
    <3>2. index[d].content <= registry[d].rev /\ chunkFile[d] <= registry[d].rev
      BY DEF AgeInv, DocAge
    <3> QED
      BY <1>0, <3>1, <3>2, Ages DEF SourceAge, BuildAge
  <2>3. CASE Chunk(j)
    <3> DEFINE contents == [d \in Doc |-> IF d \notin Gathered(j) THEN Missing
                                          ELSE IF d \in Unchanged(j) THEN chunkFile[d]
                                          ELSE ordered[d]]
    <3>1. /\ job'[j].phase = "chunked" /\ job'[j].build = contents
          /\ UNCHANGED <<ordered, index>>
      BY <2>0, <2>3 DEF Chunk, TypeOK, JobRecord
    <3>2. ASSUME NEW d \in Doc, contents[d] # Missing
          PROVE  /\ contents[d] = chunkFile'[d]
                 /\ contents[d] <= ordered[d]
                 /\ index[d].content <= contents[d]
      <4>1. d \in Gathered(j) /\ ordered[d] # Torn
        BY <2>3, <3>2 DEF Chunk
      <4>2. chunkFile'[d] = contents[d]
        BY <2>3, <4>1 DEF Chunk
      <4>3. DocAge(d) /\ ordered[d] \in Int
        BY Ages DEF AgeInv
      <4>4. CASE d \in Unchanged(j)
        <5>1. chunkFile[d] # Torn /\ contents[d] = chunkFile[d]
          BY <4>1, <4>4 DEF Unchanged, Rev, Torn
        <5> QED
          BY <4>1, <4>2, <4>3, <5>1 DEF DocAge, NotNewer
      <4>5. CASE d \notin Unchanged(j)
        <5>1. contents[d] = ordered[d]
          BY <4>1, <4>5
        <5> QED
          BY <4>1, <4>2, <4>3, <5>1 DEF DocAge, NotNewer
      <4> QED
        BY <4>4, <4>5
    <3> HIDE DEF contents
    <3> QED
      BY <3>1, <3>2 DEF SourceAge, BuildAge
  <2>4. CASE ~Chunk(j) /\ \A d \in Doc : ~ReadSource(j, d)
    <3>1. CASE \/ AcquireLock(j) \/ Parsed(j) \/ TakeSnapshot(j) \/ ReportChunking(j)
               \/ Publish(j)
      <4>1. job'[j].phase \in {"parsing", "listed", "gathered", "marking"}
        BY <2>0, <3>1 DEF AcquireLock, EnterBuild, Parsed, TakeSnapshot, ReportChunking,
           Publish, TypeOK, JobRecord
      <4> QED
        BY <2>1, <4>1
    <3>2. CASE Begin(j) \/ ReportStart(j)
      <4>1. job'[j].phase \in {"started", "begun", "ended"}
        BY <2>0, <3>2, BeginsOrEnds DEF ReportStart, TypeOK, JobRecord
      <4> QED
        BY <2>1, <4>1
    <3>4. CASE Finish(j) \/ Fail(j) \/ FailUnrecorded(j) \/ Crash(j)
      <4>1. job'[j].phase = "ended"
        BY <3>4 DEF Finish, Fail, FailUnrecorded, Crash, TypeOK, NewJob
      <4> QED
        BY <2>1, <4>1
    <3>3. ASSUME NEW d \in Doc, Mark(j, d) PROVE SourceAge(j)' /\ BuildAge(j)'
      <4>1. job'[j].phase = "marking"
        BY <2>0, <3>3 DEF Mark, TypeOK, JobRecord
      <4> QED
        BY <2>1, <4>1
    <3> QED
      BY <2>4, <3>1, <3>2, <3>3, <3>4 DEF BuildStep
  <2> QED
    BY <2>2, <2>3, <2>4
<1> QED
  BY <1>1, <1>2, <1>3 DEF AgeInv

\* No build, retry, replacement or reused chunks.jsonl brings an earlier upload
\* of a document back into the index: on any number of workers, and through
\* failures and crashes at any point, until a build is overrun by another.
THEOREM IndexMovesOn == Spec => IndexNeverGoesBack
<1> DEFINE Inv == ~overrun => AgeInv
           NotBack == ~overrun => \A d \in Doc :
                         index'[d].content = Missing \/ index'[d].content >= index[d].content
<1>1. ASSUME TypeOK, OneBuilder, Inv, [Next]_vars PROVE Inv'
  <2>0. SUFFICES ASSUME ~overrun' PROVE AgeInv'
    OBVIOUS
  <2>a. ~overrun /\ AgeInv /\ \A j \in Job : ~TakeOverLive(j)
    BY <1>1, <2>0, OverrunStays
  <2>1. CASE UNCHANGED vars
    BY <2>a, <2>1 DEF AgeInv, DocAge, SourceAge, BuildAge, Live, Stored, vars
  <2>2. CASE Next
    BY <1>1, <2>a, <2>2, RouteKeepsAge, TaskKeepsAge DEF Next
  <2> QED
    BY <1>1, <2>1, <2>2
<1>2. Inv /\ [Next]_vars => [NotBack]_index
  <2> SUFFICES ASSUME Inv, [Next]_vars, ~overrun, index' # index,
                      NEW d \in Doc
               PROVE  index'[d].content = Missing \/ index'[d].content >= index[d].content
    OBVIOUS
  <2>1. ASSUME NEW j \in Job, Publish(j)
        PROVE  index'[d].content = Missing \/ index'[d].content >= index[d].content
    <3>1. index'[d].content = job[j].build[d]
      BY <2>1 DEF Publish
    <3>2. job[j].build[d] = Missing \/ index[d].content <= job[j].build[d]
      BY <2>1 DEF AgeInv, BuildAge, Publish
    <3> QED
      BY <3>1, <3>2
  <2>2. \E j \in Job : Publish(j)
    BY DEF Next, RouteStep, BuildStep, Register, Replace, RetryCheck, Delete,
       RequestRebuild, RetryRequeue, Enqueue, Stamp, AbandonRequest, Begin, ReportStart,
       AcquireLock, TakeOverLive, EnterBuild, ReadSource, Parsed, TakeSnapshot,
       ReportChunking, Chunk, Mark, Finish, Fail, FailUnrecorded, Crash, artifacts, vars
  <2> QED
    BY <2>1, <2>2
<1>3. Init => Inv
  BY InitAge
<1> QED
  BY <1>1, <1>2, <1>3, IngestionTyped, OneBuildAtATime, PTL DEF Spec, IndexNeverGoesBack

(***************************************************************************)
(* With one worker, as the repository deploys it, a parse task works on    *)
(* the stored file.  The document is busy from the task's first step until *)
(* its chunks are published, so that no replacement is let through; a      *)
(* second worker breaks this, for a task that is refused the build lock    *)
(* marks the document FAILED while another task is parsing it.             *)
(***************************************************************************)
Known(d) == d = None \/ registry[d].life # "unused"

\* What the one task that runs relies on: its document is busy, and what it
\* holds of it is the stored file.
OnItsFile(j, d) ==
    /\ job[j].phase \in {"parsing", "converting"} => job[j].todo \subseteq {d}
    /\ job[j].phase = "converting" => job[j].cur = d
    /\ Live(d) =>
         /\ job[j].phase \notin {"started", "marking"} => Busy(d)
         /\ job[j].phase = "converting" => job[j].src = Stored(d)
         /\ job[j].phase = "parsing" /\ d \notin job[j].todo => ordered[d] = Stored(d)
         /\ job[j].phase \in {"listed", "gathered", "chunked"} => ordered[d] = Stored(d)

OneTask == \A j, k \in Job : Running(j) /\ Running(k) => j = k
TaskSound(j) ==
    /\ Known(job[j].doc)
    /\ Running(j) /\ job[j].doc # None => OnItsFile(j, job[j].doc)
ReqSound(r) == Known(req[r].doc) /\ (req[r].step = "stamp" => req[r].job # None)

SoloInv ==
    /\ OneTask
    /\ \A j \in Job : TaskSound(j)
    /\ \A r \in Req : ReqSound(r)

LEMMA InitSolo == Init => SoloInv
BY DEF Init, SoloInv, OneTask, TaskSound, ReqSound, Known, Running, RunPhase, BuildPhase,
       NewJob, IdleReq

\* The one worker takes a task only when none is running.
LEMMA NoneRunning ==
  ASSUME Workers = 1, OneTask, WorkerFree, NEW k \in Job
  PROVE  ~Running(k)
<1> SUFFICES ASSUME Running(k) PROVE FALSE
  OBVIOUS
<1>1. {x \in Job : Running(x)} = {k}
  BY DEF OneTask
<1>2. Cardinality({x \in Job : Running(x)}) = 1
  BY <1>1, FS_Singleton
<1> QED
  BY <1>2 DEF WorkerFree

\* Only POST /documents makes a document; the file of a busy one stays, and it
\* stays busy, until it is deleted.
LEMMA RouteKeepsBusy ==
  ASSUME TypeOK, NEW r \in Req, ReqSound(r), RouteStep(r),
         NEW d \in Doc, registry[d].life # "unused"
  PROVE  /\ registry'[d].life # "unused"
         /\ Live(d)' => Live(d)
         /\ Live(d)' /\ Busy(d) => Busy(d)' /\ Stored(d)' = Stored(d)
<1> DEFINE Goal == /\ registry'[d].life # "unused"
                   /\ Live(d)' => Live(d)
                   /\ Live(d)' /\ Busy(d) => Busy(d)' /\ Stored(d)' = Stored(d)
<1>0. registry[d] \in DocumentRecord /\ uploads[d] \in [Ext -> Rev \cup {Missing}]
  BY DEF TypeOK
<1>1. ASSUME registry'[d] = registry[d], uploads'[d] = uploads[d] PROVE Goal
  BY <1>1 DEF Live, Busy, Stored
<1>2. ASSUME NEW e \in Doc, Register(r, e) PROVE Goal
  <2>1. registry'[d] = registry[d] /\ uploads'[d] = uploads[d]
    BY <1>2 DEF Register, TypeOK
  <2> QED
    BY <1>1, <2>1
<1>3. ASSUME NEW e \in Doc, Replace(r, e) PROVE Goal
  <2>1. CASE d = e
    BY <1>0, <1>3, <2>1 DEF Replace, TypeOK, DocumentRecord, Live
  <2>2. CASE d # e
    <3>1. registry'[d] = registry[d] /\ uploads'[d] = uploads[d]
      BY <1>3, <2>2 DEF Replace, TypeOK
    <3> QED
      BY <1>1, <3>1
  <2> QED
    BY <2>1, <2>2
<1>4. ASSUME NEW e \in Doc, Delete(r, e) PROVE Goal
  <2>1. CASE d = e
    <3>1. registry'[d].life = "deleted"
      BY <1>0, <1>4, <2>1 DEF Delete, TypeOK, DocumentRecord
    <3> QED
      BY <3>1 DEF Live
  <2>2. CASE d # e
    <3>1. registry'[d] = registry[d] /\ uploads'[d] = uploads[d]
      BY <1>4, <2>2 DEF Delete, TypeOK
    <3> QED
      BY <1>1, <3>1
  <2> QED
    BY <2>1, <2>2
<1>5. ASSUME RetryRequeue(r) PROVE Goal
  <2> DEFINE e == req[r].doc
             new == [registry[d] EXCEPT !.status = "queued", !.stage = "queued"]
  <2>1. /\ registry' = registry
           \/ registry' = [registry EXCEPT ![e].status = "queued", ![e].stage = "queued"]
        /\ uploads' = uploads
    BY <1>5 DEF RetryRequeue
  <2>2. registry'[d] = registry[d] \/ registry'[d] = new
    <3>1. CASE e = d
      BY <1>0, <2>1, <3>1 DEF TypeOK, DocumentRecord
    <3>2. CASE e # d
      BY <2>1, <3>2 DEF TypeOK
    <3> QED
      BY <3>1, <3>2
  <2>3. /\ new.ext = registry[d].ext /\ new.life = registry[d].life
        /\ new.task = registry[d].task /\ new.status = "queued"
    BY <1>0 DEF DocumentRecord
  <2> HIDE DEF new
  <2> QED
    BY <2>1, <2>2, <2>3 DEF Live, Busy, Stored
<1>6. ASSUME Stamp(r) PROVE Goal
  <2> DEFINE new == [registry[d] EXCEPT !.task = req[r].job]
  <2>1. (registry'[d] = registry[d] \/ registry'[d] = new) /\ uploads' = uploads
    BY <1>6 DEF Stamp, TypeOK
  <2>2. /\ new.ext = registry[d].ext /\ new.life = registry[d].life
        /\ new.task = req[r].job /\ new.status = registry[d].status
    BY <1>0 DEF DocumentRecord
  <2>3. req[r].job # None
    BY <1>6 DEF Stamp, ReqSound
  <2> HIDE DEF new
  <2> QED
    BY <2>1, <2>2, <2>3 DEF Live, Busy, Stored
<1>7. ASSUME UNCHANGED <<registry, uploads>> PROVE Goal
  BY <1>1, <1>7
<1> QED
  BY <1>2, <1>3, <1>4, <1>5, <1>6, <1>7
  DEF RouteStep, RetryCheck, RequestRebuild, Enqueue, AbandonRequest

LEMMA RouteKeepsReqs ==
  ASSUME TypeOK, SoloInv, NEW r \in Req, RouteStep(r), NEW x \in Req
  PROVE  ReqSound(x)'
<1>0. /\ ReqSound(r) /\ ReqSound(x) /\ req[x] \in ReqRecord /\ req[r] \in ReqRecord
      /\ \A d \in Doc : registry[d] \in DocumentRecord
  BY DEF SoloInv, TypeOK
<1>a. \A d \in Doc \cup {None} : Known(d) => Known(d)'
  BY <1>0, RouteKeepsBusy DEF Known
<1>b. Known(None)'
  BY DEF Known
<1>1. ASSUME req'[x] = req[x] PROVE ReqSound(x)'
  BY <1>0, <1>1, <1>a DEF ReqSound, ReqRecord
<1>2. ASSUME req'[x].doc = None, req'[x].step # "stamp" PROVE ReqSound(x)'
  BY <1>2, <1>b DEF ReqSound
<1>3. ASSUME x = r, req'[r].doc = req[r].doc,
             req'[r].step = "stamp" => req'[r].job # None
      PROVE  ReqSound(x)'
  BY <1>0, <1>3, <1>a DEF ReqSound, ReqRecord
<1>4. CASE x # r
  <2>1. req'[x] = req[x]
    BY <1>4 DEF TypeOK, RouteStep, Register, Replace, RetryCheck, Delete, RequestRebuild,
       RetryRequeue, Enqueue, Stamp, AbandonRequest
  <2> QED
    BY <1>1, <2>1
<1>5. CASE x = r
  <2>1. ASSUME NEW d \in Doc, Register(r, d) PROVE ReqSound(x)'
    <3>1. req'[r].doc = d /\ req'[r].step = "enqueue" /\ registry'[d].life = "live"
      BY <2>1 DEF Register, TypeOK
    <3> QED
      BY <1>5, <3>1 DEF ReqSound, Known
  <2>2. ASSUME NEW d \in Doc, Replace(r, d) \/ RetryCheck(r, d) PROVE ReqSound(x)'
    <3>1. req'[r].doc = d /\ req'[r].step \in {"enqueue", "requeue"} /\ Known(d)
      <4>1. Live(d)
        BY <2>2 DEF Replace, RetryCheck
      <4>2. CASE Replace(r, d)
        BY <4>1, <4>2 DEF Replace, TypeOK, Live, Known
      <4>3. CASE RetryCheck(r, d)
        BY <4>1, <4>3 DEF RetryCheck, TypeOK, Live, Known
      <4> QED
        BY <2>2, <4>2, <4>3
    <3> QED
      BY <1>5, <1>a, <3>1 DEF ReqSound
  <2>3. ASSUME NEW d \in Doc, Delete(r, d) PROVE ReqSound(x)'
    <3>1. req'[r].doc = None /\ req'[r].step = "enqueue"
      BY <2>3 DEF Delete, TypeOK
    <3> QED
      BY <1>2, <1>5, <3>1
  <2>4. CASE RequestRebuild(r) \/ Stamp(r) \/ AbandonRequest(r)
    <3>1. req'[r].doc = None /\ req'[r].step # "stamp"
      BY <2>4 DEF RequestRebuild, Stamp, AbandonRequest, TypeOK, IdleReq
    <3> QED
      BY <1>2, <1>5, <3>1
  <2>5. CASE RetryRequeue(r)
    <3>1. \/ req'[r].doc = None /\ req'[r].step # "stamp"
          \/ req'[r].doc = req[r].doc /\ req'[r].step = "enqueue"
      BY <1>0, <2>5 DEF RetryRequeue, TypeOK, IdleReq, ReqRecord
    <3> QED
      BY <1>2, <1>3, <1>5, <3>1
  <2>6. CASE Enqueue(r)
    <3>1. PICK j \in Job : req' = [req EXCEPT ![r] =
               IF req[r].doc = None THEN IdleReq
               ELSE [step |-> "stamp", doc |-> req[r].doc, job |-> j]]
      BY <2>6 DEF Enqueue
    <3>2. j # None
      OBVIOUS
    <3>3. \/ req'[r].doc = None /\ req'[r].step # "stamp"
          \/ req'[r].doc = req[r].doc /\ req'[r].job # None
      BY <3>1, <3>2 DEF TypeOK, IdleReq
    <3> QED
      BY <1>2, <1>3, <1>5, <3>3
  <2> QED
    BY <2>1, <2>2, <2>3, <2>4, <2>5, <2>6 DEF RouteStep
<1> QED
  BY <1>4, <1>5

LEMMA RouteKeepsSolo ==
  ASSUME TypeOK, SoloInv, NEW r \in Req, RouteStep(r)
  PROVE  SoloInv'
<1>0. UNCHANGED ordered /\ ReqSound(r) /\ req[r] \in ReqRecord
  BY DEF RouteStep, Register, Replace, RetryCheck, Delete, RequestRebuild, RetryRequeue,
     Enqueue, Stamp, AbandonRequest, artifacts, SoloInv, TypeOK
<1>a. ASSUME NEW d \in Doc, Known(d)
      PROVE  /\ Known(d)'
             /\ Live(d)' => Live(d)
             /\ Live(d)' /\ Busy(d) => Busy(d)' /\ Stored(d)' = Stored(d)
  <2>1. registry[d].life # "unused"
    BY <1>a DEF Known
  <2> QED
    BY <1>0, <2>1, RouteKeepsBusy DEF Known
<1>1. ASSUME NEW j \in Job PROVE (Running(j)' => Running(j)) /\ TaskSound(j)'
  <2>1. CASE job'[j] = job[j]
    <3>1. TaskSound(j) /\ job[j].doc \in Doc \cup {None}
      BY DEF SoloInv, TypeOK, JobRecord
    <3>2. Running(j)' = Running(j)
      BY <2>1 DEF Running
    <3>3. CASE job[j].doc = None
      BY <2>1, <3>2, <3>3 DEF TaskSound, Known
    <3>4. CASE job[j].doc \in Doc
      <4> PICK d \in Doc : d = job[j].doc
        BY <3>4
      <4>1. /\ Known(d) /\ Known(d)'
            /\ Live(d)' => Live(d)
            /\ Live(d)' /\ Busy(d) => Busy(d)' /\ Stored(d)' = Stored(d)
        <5>1. Known(d)
          BY <3>1 DEF TaskSound
        <5> QED
          BY <1>a, <5>1
      <4>2. ASSUME Running(j) PROVE OnItsFile(j, d)'
        BY <1>0, <2>1, <3>1, <3>4, <4>1, <4>2 DEF TaskSound, OnItsFile
      <4> QED
        BY <2>1, <3>2, <4>1, <4>2 DEF TaskSound
    <3> QED
      BY <3>1, <3>2, <3>3, <3>4
  <2>2. CASE job'[j] # job[j]
    <3>1. job'[j].phase = "pending" /\ job'[j].doc = req[r].doc
      <4>1. job'[j] = NewJob("pending", req[r].doc)
        BY <2>2, RouteTasks
      <4> QED
        BY <4>1 DEF NewJob
    <3>2. ~Running(j)'
      BY <3>1 DEF Running, RunPhase, BuildPhase
    <3>3. PICK d \in Doc \cup {None} : d = req[r].doc
      BY <1>0 DEF ReqRecord
    <3>4. Known(d)
      BY <1>0, <3>3 DEF ReqSound
    <3>5. Known(d)'
      BY <1>a, <3>4 DEF Known
    <3> QED
      BY <3>1, <3>2, <3>3, <3>5 DEF TaskSound, Known
  <2> QED
    BY <2>1, <2>2
<1>2. OneTask'
  BY <1>1 DEF SoloInv, OneTask
<1> QED
  BY <1>1, <1>2, RouteKeepsReqs DEF SoloInv

LEMMA TaskKeepsSolo ==
  ASSUME Workers = 1, TypeOK, SoloInv,
         NEW j \in Job, Begin(j) \/ BuildStep(j) \/ Fail(j) \/ FailUnrecorded(j) \/ Crash(j)
  PROVE  SoloInv'
<1>0. /\ job[j] \in JobRecord /\ TaskSound(j) /\ UNCHANGED req
      /\ \A e \in Doc : registry[e] \in DocumentRecord
  BY DEF SoloInv, TypeOK, Begin, BuildStep, ReportStart, AcquireLock, TakeOverLive,
     EnterBuild, ReadSource, Parsed, TakeSnapshot, ReportChunking, Chunk, Publish, Mark,
     Finish, Fail, FailUnrecorded, Crash
<1>1. ASSUME NEW d \in Doc
      PROVE  /\ registry'[d].rev = registry[d].rev
             /\ Known(d)' = Known(d)
             /\ Live(d)' = Live(d)
             /\ Stored(d)' = Stored(d)
  BY TaskKeepsFile DEF Known
<1>2. ASSUME NEW k \in Job, k # j PROVE ~Running(k) /\ job'[k] = job[k]
  <2>1. job'[k] = job[k]
    BY <1>2, OtherTasks
  <2>2. CASE Running(j)
    BY <1>2, <2>1, <2>2 DEF SoloInv, OneTask
  <2>3. CASE ~Running(j)
    <3>1. WorkerFree
      BY <2>3 DEF Running, RunPhase, BuildPhase, Begin, BuildStep, ReportStart,
         AcquireLock, TakeOverLive, EnterBuild, ReadSource, Parsed, TakeSnapshot,
         ReportChunking, Chunk, Publish, Mark, Finish, Fail, FailUnrecorded, Crash
    <3> QED
      BY <2>1, <3>1, NoneRunning DEF SoloInv
  <2> QED
    BY <2>1, <2>2, <2>3
<1>3. OneTask'
  <2> SUFFICES ASSUME NEW i \in Job, NEW k \in Job, Running(i)', Running(k)' PROVE i = k
    BY DEF OneTask
  <2>1. i = j /\ k = j
    BY <1>2 DEF Running
  <2> QED
    BY <2>1
<1>4. job'[j].doc = job[j].doc \/ job'[j].doc = None
  <2>1. CASE Finish(j) \/ Fail(j) \/ FailUnrecorded(j) \/ Crash(j)
    BY <1>0, <2>1 DEF TypeOK, NewJob, Finish, Fail, FailUnrecorded, Crash
  <2>2. CASE Begin(j)
    BY <1>0, <2>2 DEF TypeOK, JobRecord, NewJob, Begin
  <2>3. CASE BuildStep(j) /\ ~Finish(j)
    <3>1. CASE ReportStart(j) \/ AcquireLock(j) \/ TakeOverLive(j) \/ Parsed(j)
      BY <1>0, <3>1 DEF TypeOK, JobRecord, ReportStart, AcquireLock, TakeOverLive,
         EnterBuild, Parsed
    <3>2. CASE TakeSnapshot(j) \/ ReportChunking(j) \/ Chunk(j) \/ Publish(j)
      BY <1>0, <3>2 DEF TypeOK, JobRecord, TakeSnapshot, ReportChunking, Chunk, Publish
    <3>3. CASE \E d \in Doc : ReadSource(j, d) \/ Mark(j, d)
      BY <1>0, <3>3 DEF TypeOK, JobRecord, ReadSource, Mark
    <3> QED
      BY <2>3, <3>1, <3>2, <3>3 DEF BuildStep
  <2> QED
    BY <2>1, <2>2, <2>3
<1>5. ASSUME NEW k \in Job, NEW d \in Doc \cup {None}, job'[k].doc = d
      PROVE  Known(d)' /\ (d # None => job[k].doc = d)
  <2>1. CASE d = None
    BY <2>1 DEF Known
  <2>2. CASE d # None
    <3>1. job[k].doc = d
      BY <1>2, <1>4, <1>5, <2>2
    <3>2. Known(d)
      BY <3>1 DEF SoloInv, TaskSound
    <3> QED
      BY <1>1, <3>1, <3>2 DEF Known
  <2> QED
    BY <2>1, <2>2
<1>6. ASSUME NEW d \in Doc, d = job[j].doc, Running(j)' PROVE OnItsFile(j, d)'
  <2>0. target(j) = d
    BY <1>6 DEF target
  <2>1. ASSUME NEW stage \in Stage \ {"completed"}, registry' = ReportStage(j, stage)
        PROVE  Busy(d)'
    <3>1. registry'[d] = [registry[d] EXCEPT
              !.status = IF stage = "completed" THEN "completed" ELSE "processing",
              !.stage = stage, !.task = j]
      BY <2>0, <2>1 DEF ReportStage, TypeOK
    <3>2. registry'[d].status = "processing" /\ registry'[d].task = j
      BY <1>0, <2>1, <3>1 DEF DocumentRecord
    <3>3. j # None
      OBVIOUS
    <3> QED
      BY <3>2, <3>3 DEF Busy
  <2> USE DEF OnItsFile
  <2>2. CASE Begin(j)
    <3>1. job'[j].phase = "started"
      <4>1. target(j) # None
        BY <2>0
      <4>2. job'[j].phase # "ended"
        BY <1>6 DEF Running, RunPhase, BuildPhase
      <4> QED
        BY <2>2, <4>1, <4>2, BeginsOrEnds
    <3> QED
      BY <3>1
  <2>10. CASE ReportStart(j)
    <3>1. job'[j].phase = "begun"
      BY <1>0, <2>10 DEF ReportStart, TypeOK, JobRecord
    <3>2. Busy(d)'
      BY <2>1, <2>10 DEF ReportStart, Stage
    <3> QED
      BY <3>1, <3>2
  <2>3. CASE AcquireLock(j) \/ TakeOverLive(j)
    <3>0. EnterBuild(j)
      BY <2>3 DEF AcquireLock, TakeOverLive
    <3>1. job'[j].phase = "parsing" /\ job'[j].todo = {d}
      BY <1>0, <1>6, <3>0 DEF EnterBuild, TypeOK, JobRecord, target
    <3>2. Busy(d)'
      BY <2>1, <3>0 DEF EnterBuild, Stage
    <3> QED
      BY <3>1, <3>2
  <2>a. job[j].phase \in RunPhase => OnItsFile(j, d)
    BY <1>0, <1>6 DEF TaskSound, Running
  <2>4. ASSUME NEW e \in Doc, ReadSource(j, e) PROVE OnItsFile(j, d)'
    <3>1. /\ job[j].phase = "parsing" /\ e \in job[j].todo
          /\ job'[j].phase = "converting" /\ job'[j].todo = job[j].todo
          /\ job'[j].cur = e /\ job'[j].src = Stored(e)
          /\ registry' = registry
      BY <1>0, <2>4 DEF ReadSource, TypeOK, JobRecord
    <3>2. e = d
      BY <2>a, <3>1 DEF RunPhase, BuildPhase
    <3> QED
      BY <1>1, <2>a, <3>1, <3>2 DEF RunPhase, BuildPhase, Busy
  <2>5. CASE Parsed(j)
    <3>1. /\ job[j].phase = "converting" /\ OnItsFile(j, d)
          /\ job'[j].phase = "parsing" /\ job'[j].todo = job[j].todo \ {job[j].cur}
      BY <1>0, <2>5, <2>a DEF Parsed, TypeOK, JobRecord, RunPhase, BuildPhase
    <3>2. job[j].cur = d /\ ordered'[d] = job[j].src
      BY <2>5, <3>1 DEF Parsed, TypeOK
    <3>3. registry'[d].status = registry[d].status /\ registry'[d].task = registry[d].task
      BY <1>0, <2>5 DEF Parsed, TypeOK, DocumentRecord
    <3>4. Live(d) => Busy(d)' /\ job[j].src = Stored(d)
      BY <3>1, <3>3 DEF Busy
    <3>5. job'[j].todo \subseteq {d}
      BY <1>0, <2>a, <3>1
    <3> QED
      BY <1>1, <3>1, <3>2, <3>4, <3>5
  <2>6. CASE TakeSnapshot(j)
    <3>1. /\ Live(d) => ordered[d] = Stored(d) /\ Busy(d)
          /\ job'[j].phase = "listed"
          /\ UNCHANGED <<ordered, registry>>
      BY <1>0, <2>6, <2>a DEF TakeSnapshot, TypeOK, JobRecord, RunPhase, BuildPhase,
         artifacts
    <3> QED
      BY <1>1, <3>1 DEF Busy
  <2>11. CASE ReportChunking(j) \/ Chunk(j)
    <3>1. /\ Live(d) => ordered[d] = Stored(d)
          /\ job'[j].phase \in {"gathered", "chunked"}
          /\ UNCHANGED ordered
      BY <1>0, <2>11, <2>a DEF ReportChunking, Chunk, TypeOK, JobRecord, RunPhase,
         BuildPhase, artifacts
    <3>2. Busy(d)'
      BY <2>1, <2>11 DEF ReportChunking, Chunk, Stage
    <3> QED
      BY <1>1, <3>1, <3>2
  <2>7. CASE Publish(j)
    <3>1. job'[j].phase = "marking"
      BY <1>0, <2>7 DEF Publish, TypeOK, JobRecord
    <3> QED
      BY <3>1
  <2>8. ASSUME NEW e \in Doc, Mark(j, e) PROVE OnItsFile(j, d)'
    <3>1. job'[j].phase = "marking"
      BY <1>0, <2>8 DEF Mark, TypeOK, JobRecord
    <3> QED
      BY <3>1
  <2>9. CASE Finish(j) \/ Fail(j) \/ FailUnrecorded(j) \/ Crash(j)
    <3>1. ~Running(j)'
      BY <2>9 DEF Finish, Fail, FailUnrecorded, Crash, TypeOK, NewJob, Running, RunPhase,
         BuildPhase
    <3> QED
      BY <1>6, <3>1
  <2> QED
    BY <2>2, <2>3, <2>4, <2>5, <2>6, <2>7, <2>8, <2>9, <2>10, <2>11 DEF BuildStep
<1>7. ASSUME NEW k \in Job PROVE TaskSound(k)'
  <2> PICK d \in Doc \cup {None} : d = job'[k].doc
    BY <1>2, <1>4 DEF TypeOK, JobRecord
  <2>1. Known(d)' /\ (d # None => job[k].doc = d)
    BY <1>5
  <2>2. CASE k # j
    <3>1. ~Running(k)'
      BY <1>2, <2>2 DEF Running
    <3> QED
      BY <2>1, <3>1 DEF TaskSound, Known
  <2>3. CASE k = j
    <3>1. d # None /\ Running(j)' => OnItsFile(j, d)'
      BY <1>6, <2>1, <2>3
    <3> QED
      BY <2>1, <2>3, <3>1 DEF TaskSound, Known, OnItsFile, Live, Busy, Stored
  <2> QED
    BY <2>2, <2>3
<1>8. ASSUME NEW r \in Req PROVE ReqSound(r)'
  <2>1. ReqSound(r) /\ req[r].doc \in Doc \cup {None} /\ req'[r] = req[r]
    BY <1>0 DEF SoloInv, TypeOK, ReqRecord
  <2> PICK d \in Doc \cup {None} : d = req[r].doc
    BY <2>1
  <2>2. Known(d) => Known(d)'
    BY <1>1 DEF Known
  <2> QED
    BY <2>1, <2>2 DEF ReqSound, Known
<1> QED
  BY <1>3, <1>7, <1>8 DEF SoloInv

\* With the one worker of the deployment, a parse task works on the stored file
\* from reading it until its chunks are published, whatever the requests do and
\* whatever fails.
THEOREM SoloTaskParsesTheStoredFile ==
  ASSUME Workers = 1
  PROVE  Spec => []ParsesTheStoredFile
<1>1. ASSUME TypeOK, SoloInv, [Next]_vars PROVE SoloInv'
  <2>1. CASE UNCHANGED vars
    BY <1>1, <2>1 DEF SoloInv, OneTask, TaskSound, ReqSound, OnItsFile, Known, Running,
       Busy, Live, Stored, vars
  <2>2. CASE Next
    BY <1>1, <2>2, RouteKeepsSolo, TaskKeepsSolo DEF Next
  <2> QED
    BY <1>1, <2>1, <2>2
<1>2. SoloInv => ParsesTheStoredFile
  <2> SUFFICES ASSUME SoloInv, NEW j \in Job, job[j].doc # None, Live(job[j].doc)
               PROVE  /\ job[j].phase = "converting" => job[j].src = Stored(job[j].doc)
                      /\ job[j].phase \in {"listed", "gathered", "chunked"} =>
                            ordered[job[j].doc] = Stored(job[j].doc)
    BY DEF ParsesTheStoredFile
  <2> QED
    BY DEF SoloInv, TaskSound, OnItsFile, Running, RunPhase, BuildPhase
<1> QED
  BY InitSolo, <1>1, <1>2, IngestionTyped, PTL DEF Spec

=============================================================================
