--------------------------- MODULE ChromaPublish ---------------------------
(***************************************************************************)
(* ChromaVectorStore.publish, _gc_versions and the load of a snapshot, on  *)
(* the file system that the Celery worker (publishing) and the API process *)
(* (loading, once per search) share.                                       *)
(*                                                                         *)
(* A directory is the set of its parts that exist: the directory itself,   *)
(* the Chroma files and manifest.json.  A publish creates one staging and  *)
(* one version directory, both named here by the version it publishes.     *)
(***************************************************************************)
EXTENDS FiniteSets

CONSTANTS
    Version,     \* version ids, one for each publish
    Reader,      \* threads that load the current snapshot
    Concurrent,  \* TRUE: two builds may run at once (a build lock that expired)
    Faults,      \* which faults may occur
    None

Part == {"dir", "chunks", "manifest"}
Absent == {}

ASSUME PublishConstants ==
    /\ None \notin Version
    /\ Concurrent \in BOOLEAN
    /\ Faults \subseteq {"fail", "crash", "refuse"}

VARIABLES
    staging,    \* versions/.building-*
    versions,   \* versions/<version id>
    pointer,    \* current.json
    phase,      \* where each publish stands
    garbage,    \* directories that a publish's GC has still to remove
    aged,       \* staging directories older than stale_staging_after_s
    reader,     \* loads in progress
    published   \* history: versions current.json has named

vars == <<staging, versions, pointer, phase, garbage, aged, reader, published>>
publishVars == <<staging, versions, pointer, phase, garbage, aged, published>>

ActivePhase == {"staging", "copying", "flipping", "collecting"}
Phase == ActivePhase \cup {"unused", "done", "failed", "dead"}

\* A load: pointer read, version directory seen, Chroma files opened, and
\* the manifest read -- or an error at one of these steps.
ReaderRecord ==
    [step: {"idle", "pointed", "checked", "opened", "loaded", "failed"},
     version: Version \cup {None}]
IdleReader == [step |-> "idle", version |-> None]

\* A GC entry: a directory under versions/, either a staging one or a version.
Entry == [kind: {"staging", "version"}, of: Version]

Init ==
    /\ staging = [v \in Version |-> Absent]
    /\ versions = [v \in Version |-> Absent]
    /\ pointer = None
    /\ phase = [v \in Version |-> "unused"]
    /\ garbage = [v \in Version |-> {}]
    /\ aged = {}
    /\ reader = [r \in Reader |-> IdleReader]
    /\ published = {}

(***************************************************************************)
(* publish                                                                 *)
(***************************************************************************)
Publishing(v) == phase[v] \in ActivePhase

\* staging_dir.mkdir.  The build lock admits one build, if it is sound.
Start(v) ==
    /\ phase[v] = "unused"
    /\ Concurrent \/ \A w \in Version : ~Publishing(w)
    /\ staging' = [staging EXCEPT ![v] = {"dir"}]
    /\ phase' = [phase EXCEPT ![v] = "staging"]
    /\ UNCHANGED <<versions, pointer, garbage, aged, reader, published>>

\* collection.add, then manifest.json.
WriteStaging(v) ==
    /\ phase[v] = "staging"
    /\ "dir" \in staging[v] /\ staging[v] # Part
    /\ staging' = [staging EXCEPT ![v] =
           @ \cup (IF "chunks" \in @ THEN {"manifest"} ELSE {"chunks"})]
    /\ UNCHANGED <<versions, pointer, phase, garbage, aged, reader, published>>

\* Mutant of Rename: the staging directory moves before its manifest is written.
RenameEarly(v) ==
    /\ phase[v] = "staging" /\ "chunks" \in staging[v]
    /\ versions' = [versions EXCEPT ![v] = staging[v]]
    /\ staging' = [staging EXCEPT ![v] = Absent]
    /\ phase' = [phase EXCEPT ![v] = "flipping"]
    /\ UNCHANGED <<pointer, garbage, aged, reader, published>>

\* os.replace(staging_dir, version_dir) ...
Rename(v) ==
    /\ phase[v] = "staging" /\ staging[v] = Part
    /\ versions' = [versions EXCEPT ![v] = staging[v]]
    /\ staging' = [staging EXCEPT ![v] = Absent]
    /\ phase' = [phase EXCEPT ![v] = "flipping"]
    /\ UNCHANGED <<pointer, garbage, aged, reader, published>>

\* ... or, where the file system refuses it, copytree and rmtree.
RenameRefused(v) ==
    /\ "refuse" \in Faults
    /\ phase[v] = "staging" /\ staging[v] = Part
    /\ phase' = [phase EXCEPT ![v] = "copying"]
    /\ UNCHANGED <<staging, versions, pointer, garbage, aged, reader, published>>

CopyPart(v) ==
    /\ phase[v] = "copying"
    /\ \E p \in staging[v] \ versions[v] :
        /\ p = "dir" \/ "dir" \in versions[v]
        /\ versions' = [versions EXCEPT ![v] = @ \cup {p}]
    /\ UNCHANGED <<staging, pointer, phase, garbage, aged, reader, published>>

\* Mutant of CopyDone: a copy that stopped halfway counts as done.
CopyDoneHalfway(v) ==
    /\ phase[v] = "copying" /\ staging[v] # Absent
    /\ staging' = [staging EXCEPT ![v] = Absent]
    /\ phase' = [phase EXCEPT ![v] = "flipping"]
    /\ UNCHANGED <<versions, pointer, garbage, aged, reader, published>>

\* rmtree(staging_dir, ignore_errors=True).  What it cannot remove stays, like
\* the staging directory of a build that crashed, for a later GC.
CopyDone(v) ==
    /\ phase[v] = "copying"
    /\ staging[v] # Absent /\ staging[v] \subseteq versions[v]
    /\ staging' = [staging EXCEPT ![v] = Absent]
    /\ phase' = [phase EXCEPT ![v] = "flipping"]
    /\ UNCHANGED <<versions, pointer, garbage, aged, reader, published>>

\* Mutant of Removable: the version to keep is not spared.
RemovableAll(v) ==
    {e \in Entry : e.kind = "version" /\ versions[e.of] # Absent}

\* What _gc_versions(keep=v) lists: every directory but v's own; staging ones
\* only once they are old enough.
Removable(v) ==
    {e \in Entry :
        \/ e.kind = "version" /\ e.of # v /\ versions[e.of] # Absent
        \/ e.kind = "staging" /\ e.of \in aged /\ staging[e.of] # Absent}

\* os.replace(temporary, current.json), then the GC's listing.
Flip(v) ==
    /\ phase[v] = "flipping"
    /\ pointer' = v
    /\ published' = published \cup {v}
    /\ garbage' = [garbage EXCEPT ![v] = Removable(v)]
    /\ phase' = [phase EXCEPT ![v] = "collecting"]
    /\ UNCHANGED <<staging, versions, aged, reader>>

\* One step of rmtree: a file goes, and the directory after its files.
Without(parts, p) == IF p = "dir" THEN Absent ELSE parts \ {p}
DirOf(e) == IF e.kind = "version" THEN versions[e.of] ELSE staging[e.of]

RemovePart(v, e) ==
    /\ phase[v] = "collecting" /\ e \in garbage[v]
    /\ \E p \in DirOf(e) :
        /\ p # "dir" \/ DirOf(e) = {"dir"}
        /\ IF e.kind = "version"
           THEN /\ versions' = [versions EXCEPT ![e.of] = Without(@, p)]
                /\ UNCHANGED staging
           ELSE /\ staging' = [staging EXCEPT ![e.of] = Without(@, p)]
                /\ UNCHANGED versions
    /\ UNCHANGED <<pointer, phase, garbage, aged, reader, published>>

\* The directory is gone, or the file system refuses to remove more of it.
NextEntry(v, e) ==
    /\ phase[v] = "collecting" /\ e \in garbage[v]
    /\ DirOf(e) = Absent \/ "refuse" \in Faults
    /\ garbage' = [garbage EXCEPT ![v] = @ \ {e}]
    /\ UNCHANGED <<staging, versions, pointer, phase, aged, reader, published>>

Done(v) ==
    /\ phase[v] = "collecting" /\ garbage[v] = {}
    /\ phase' = [phase EXCEPT ![v] = "done"]
    /\ UNCHANGED <<staging, versions, pointer, garbage, aged, reader, published>>

\* A step before the flip raises: the staging directory is removed, a version
\* directory that was renamed or partly copied stays.  A staging directory
\* that another build's GC has emptied makes every such step raise.
Fail(v) ==
    /\ phase[v] \in ActivePhase \ {"collecting"}
    /\ "fail" \in Faults \/ (staging[v] = Absent /\ phase[v] # "flipping")
    /\ staging' = [staging EXCEPT ![v] = Absent]
    /\ phase' = [phase EXCEPT ![v] = "failed"]
    /\ UNCHANGED <<versions, pointer, garbage, aged, reader, published>>

\* The worker dies: everything stays as it is.
Crash(v) ==
    /\ "crash" \in Faults
    /\ Publishing(v)
    /\ phase' = [phase EXCEPT ![v] = "dead"]
    /\ garbage' = [garbage EXCEPT ![v] = {}]
    /\ UNCHANGED <<staging, versions, pointer, aged, reader, published>>

\* Time passes: an hour after its last change a staging directory is stale.
Age(v) ==
    /\ staging[v] # Absent /\ v \notin aged
    /\ aged' = aged \cup {v}
    /\ UNCHANGED <<staging, versions, pointer, phase, garbage, reader, published>>

(***************************************************************************)
(* ChromaVectorStore.load                                                  *)
(***************************************************************************)
StepTo(r, step) == reader' = [reader EXCEPT ![r].step = step]

ReadPointer(r) ==
    /\ reader[r].step = "idle"
    /\ reader' = [reader EXCEPT ![r] =
           [step |-> IF pointer = None THEN "failed" ELSE "pointed", version |-> pointer]]
    /\ UNCHANGED publishVars

CheckVersion(r) ==
    /\ reader[r].step = "pointed"
    /\ StepTo(r, IF "dir" \in versions[reader[r].version] THEN "checked" ELSE "failed")
    /\ UNCHANGED publishVars

\* PersistentClient makes a directory that is not there; get_collection then
\* finds nothing in it.
OpenClient(r) ==
    LET v == reader[r].version IN
    /\ reader[r].step = "checked"
    /\ StepTo(r, IF "chunks" \in versions[v] THEN "opened" ELSE "failed")
    /\ versions' = [versions EXCEPT ![v] = @ \cup {"dir"}]
    /\ UNCHANGED <<staging, pointer, phase, garbage, aged, published>>

ReadManifest(r) ==
    /\ reader[r].step = "opened"
    /\ StepTo(r, IF "manifest" \in versions[reader[r].version] THEN "loaded" ELSE "failed")
    /\ UNCHANGED publishVars

\* The search ends; the next one loads again.
EndLoad(r) ==
    /\ reader[r].step \in {"loaded", "failed"}
    /\ reader' = [reader EXCEPT ![r] = IdleReader]
    /\ UNCHANGED publishVars

PublishStep(v) ==
    \/ Start(v) \/ WriteStaging(v) \/ Rename(v) \/ RenameRefused(v)
    \/ CopyPart(v) \/ CopyDone(v) \/ Flip(v) \/ Done(v)
    \/ \E e \in Entry : RemovePart(v, e) \/ NextEntry(v, e)
    \/ Fail(v) \/ Crash(v) \/ Age(v)

LoadStep(r) ==
    ReadPointer(r) \/ CheckVersion(r) \/ OpenClient(r) \/ ReadManifest(r) \/ EndLoad(r)

Next ==
    \/ \E v \in Version : PublishStep(v)
    \/ \E r \in Reader : LoadStep(r)

Spec == Init /\ [][Next]_vars

(***************************************************************************)
(* Properties                                                              *)
(***************************************************************************)
TypeOK ==
    /\ staging \in [Version -> SUBSET Part]
    /\ versions \in [Version -> SUBSET Part]
    /\ pointer \in Version \cup {None}
    /\ phase \in [Version -> Phase]
    /\ garbage \in [Version -> SUBSET Entry]
    /\ aged \in SUBSET Version
    /\ reader \in [Reader -> ReaderRecord]
    /\ published \in SUBSET Version

\* Whatever fails or dies at whatever point, current.json names a version
\* directory that is there in full: a half-written version is never current
\* and the GC of a later publish never eats the current one.
PointerNamesWhole == pointer # None => versions[pointer] = Part

\* A load that fails although an index was published was overtaken: another
\* version has become current since it read the pointer.
FailedLoadWasOvertaken ==
    \A r \in Reader :
        reader[r].step = "failed" /\ reader[r].version # None => reader[r].version # pointer

\* Publish and load implement the abstract index.
View(r) ==
    [state |-> CASE reader[r].step \in {"pointed", "checked", "opened"} -> "loading"
                 [] OTHER -> reader[r].step,
     version |-> reader[r].version]
Abstract == INSTANCE AtomicIndex WITH
    current <- pointer, view <- [r \in Reader |-> View(r)]
ImplementsAtomicIndex == Abstract!Spec

=============================================================================
