---------------------------- MODULE RegistryStore ----------------------------
(***************************************************************************)
(* registry.json, the uploaded files and registry.lock, file operation by  *)
(* file operation: storage/document_registry.  Ingestion takes each call   *)
(* of the registry as one step; here it is taken apart.                    *)
(*                                                                         *)
(* A process makes one call.  The document it registers and the revision   *)
(* it brings, uuids in the code, bear its name.  A call whose upload is    *)
(* not acceptable ends before it touches anything and is left out.         *)
(***************************************************************************)
EXTENDS FiniteSets

CONSTANTS
    Process,      \* of the API and of the worker
    Existing,     \* documents registered before
    Format,       \* extensions of stored files
    Slow,         \* whether a living process may hold the lock for 30 seconds
    None

Doc == Existing \cup Process
Revision == Existing \cup Process
\* "busy": QUEUED or PROCESSING with a task.
Record == [rev: Revision, format: Format, busy: BOOLEAN, enabled: BOOLEAN]
Lock == [by: Process, aged: BOOLEAN]

ASSUME RegistryConstants ==
    /\ Slow \in BOOLEAN /\ Existing \cap Process = {}
    /\ None \notin Revision \cup Format \cup Record \cup Lock

VARIABLES
    registry,     \* registry.json: document -> record, or None
    files,        \* uploads: document and format -> the revision of the bytes
    lock,         \* registry.lock: who created it and whether it has aged
    work          \* the calls

vars == <<registry, files, lock, work>>

Registry == [Doc -> Record \cup {None}]
Unread == [d \in Doc |-> None]

Op == {"register", "replace", "update", "meta", "delete"}
Call ==
    [op: Op, doc: Doc, format: Format \cup {None}, value: BOOLEAN,
     at: {"lock", "break", "load", "move", "write", "unlink", "release",
          "done", "refused", "dead"},
     read: Registry, judged: SUBSET Process, wrote: BOOLEAN]
Idle == [at |-> "idle"]

Init ==
    /\ \E format \in Format, busy \in BOOLEAN :
         /\ registry = [d \in Doc |->
                IF d \in Existing
                THEN [rev |-> d, format |-> format, busy |-> busy, enabled |-> TRUE] ELSE None]
         /\ files = [k \in Doc \X Format |->
                     IF k[1] \in Existing /\ k[2] = format THEN k[1] ELSE None]
    /\ lock = None
    /\ work = [p \in Process |-> Idle]

To(p, at) == work' = [work EXCEPT ![p].at = at]
At(p, at) == work[p].at = at

\* The arguments a call takes; "value" is an update's busy, a switch's enabled.
Arguments(p) ==
    LET known == {d \in Doc : registry[d] # None}
    IN  {[op |-> "register", doc |-> p, format |-> f, value |-> FALSE] : f \in Format}
        \cup {[op |-> "replace", doc |-> d, format |-> f, value |-> FALSE] :
                 d \in known, f \in Format}
        \cup {[op |-> op, doc |-> d, format |-> None, value |-> v] :
                 op \in {"update", "meta"}, d \in known, v \in BOOLEAN}
        \cup {[op |-> "delete", doc |-> d, format |-> None, value |-> FALSE] : d \in known}

\* A call with its arguments checked and its upload spooled.
Begin(p) ==
    /\ At(p, "idle")
    /\ \E a \in Arguments(p) :
         work' = [work EXCEPT ![p] =
            [op |-> a.op, doc |-> a.doc, format |-> a.format, value |-> a.value, at |-> "lock",
             read |-> Unread, judged |-> {}, wrote |-> FALSE]]
    /\ UNCHANGED <<registry, files, lock>>

(***************************************************************************)
(* _registry_lock                                                          *)
(***************************************************************************)
\* Mutant of Acquire: the file is opened whether it is there or not.
AcquireAnyway(p) ==
    /\ At(p, "lock")
    /\ lock' = [by |-> p, aged |-> FALSE]
    /\ To(p, "load")
    /\ UNCHANGED <<registry, files>>

Acquire(p) ==
    /\ At(p, "lock") /\ lock = None
    /\ lock' = [by |-> p, aged |-> FALSE]
    /\ To(p, "load")
    /\ UNCHANGED <<registry, files>>

\* The file's age is asked for by name ...
Judge(p) ==
    /\ At(p, "lock") /\ lock # None /\ lock.aged
    /\ work' = [work EXCEPT ![p].at = "break", ![p].judged = @ \cup {lock.by}]
    /\ UNCHANGED <<registry, files, lock>>

\* ... and so is the file removed, whichever it is by then.
Break(p) ==
    /\ At(p, "break")
    /\ lock' = None
    /\ To(p, "lock")
    /\ UNCHANGED <<registry, files>>

\* Five seconds are over: registry_busy.
Refused(p) ==
    /\ At(p, "lock") /\ lock # None /\ ~lock.aged
    /\ To(p, "refused")
    /\ UNCHANGED <<registry, files, lock>>

Release(p) ==
    /\ At(p, "release")
    /\ lock' = None
    /\ work' = [work EXCEPT ![p].at = "done", ![p].read = Unread]
    /\ UNCHANGED <<registry, files>>

(***************************************************************************)
(* The calls                                                               *)
(***************************************************************************)
\* What is not there, or busy, is left alone.
Acceptable(p) ==
    LET old == registry[work[p].doc]
    IN  work[p].op = "register" \/ (old # None /\ (work[p].op = "replace" => ~old.busy))

Load(p) ==
    /\ At(p, "load")
    /\ work' = [work EXCEPT ![p].read = registry,
                            ![p].at = IF ~Acceptable(p) THEN "release"
                                      ELSE IF work[p].op \in {"register", "replace"} THEN "move"
                                      ELSE "write"]
    /\ UNCHANGED <<registry, files, lock>>

\* Mutant of Move: the old file is removed before the registry is written.
MoveAndUnlink(p) ==
    /\ At(p, "move")
    /\ files' = [k \in DOMAIN files |->
                    IF k = <<work[p].doc, work[p].format>> THEN p
                    ELSE IF k[1] = work[p].doc THEN None ELSE files[k]]
    /\ To(p, "write")
    /\ UNCHANGED <<registry, lock>>

\* The upload takes its place, over a file of the same name.
Move(p) ==
    /\ At(p, "move")
    /\ files' = [files EXCEPT ![<<work[p].doc, work[p].format>>] = p]
    /\ To(p, "write")
    /\ UNCHANGED <<registry, lock>>

\* Mutant of Changed: a replacement keeps the revision.
ChangedSameRevision(p) ==
    LET w == work[p]
        old == w.read[w.doc]
    IN  CASE w.op = "register" ->
               [rev |-> p, format |-> w.format, busy |-> FALSE, enabled |-> TRUE]
          [] w.op = "replace" -> [old EXCEPT !.format = w.format, !.busy = FALSE]
          [] w.op = "update" -> [old EXCEPT !.busy = w.value]
          [] w.op = "meta" -> [old EXCEPT !.enabled = w.value]
          [] w.op = "delete" -> None

\* The record that is written for the one that was read.
Changed(p) ==
    LET w == work[p]
        old == w.read[w.doc]
    IN  CASE w.op = "register" ->
               [rev |-> p, format |-> w.format, busy |-> FALSE, enabled |-> TRUE]
          [] w.op = "replace" -> [old EXCEPT !.rev = p, !.format = w.format, !.busy = FALSE]
          [] w.op = "update" -> [old EXCEPT !.busy = w.value]
          [] w.op = "meta" -> [old EXCEPT !.enabled = w.value]
          [] w.op = "delete" -> None

\* Files that the call removes once the registry no longer names them.
Leftover(p) ==
    LET w == work[p]
        old == w.read[w.doc]
    IN  IF w.op = "delete" \/ (w.op = "replace" /\ old.format # w.format)
        THEN {<<w.doc, old.format>>} ELSE {}

Write(p) ==
    /\ At(p, "write")
    /\ registry' = [work[p].read EXCEPT ![work[p].doc] = Changed(p)]
    /\ work' = [work EXCEPT ![p].wrote = TRUE,
                            ![p].at = IF Leftover(p) = {} THEN "release" ELSE "unlink"]
    /\ UNCHANGED <<files, lock>>

\* The disk is full: a registration takes its file back, a replacement does not.
WriteFails(p) ==
    /\ At(p, "write")
    /\ files' = IF work[p].op = "register"
                THEN [files EXCEPT ![<<p, work[p].format>>] = None] ELSE files
    /\ To(p, "release")
    /\ UNCHANGED <<registry, lock>>

Unlink(p) ==
    /\ At(p, "unlink")
    /\ files' = [k \in DOMAIN files |-> IF k \in Leftover(p) THEN None ELSE files[k]]
    /\ To(p, "release")
    /\ UNCHANGED <<registry, lock>>

Killed(p) ==
    /\ ~At(p, "idle") /\ ~At(p, "done") /\ ~At(p, "refused") /\ ~At(p, "dead")
    /\ To(p, "dead")
    /\ UNCHANGED <<registry, files, lock>>

\* LOCK_STALE_SECONDS go by.
Age ==
    /\ lock # None /\ ~lock.aged
    /\ Slow \/ At(lock.by, "dead")
    /\ lock' = [lock EXCEPT !.aged = TRUE]
    /\ UNCHANGED <<registry, files, work>>

Step(p) ==
    \/ Begin(p) \/ Acquire(p) \/ Judge(p) \/ Break(p) \/ Refused(p) \/ Release(p)
    \/ Load(p) \/ Move(p) \/ Write(p) \/ WriteFails(p) \/ Unlink(p) \/ Killed(p)

Next == Age \/ \E p \in Process : Step(p)

Spec == Init /\ [][Next]_vars

(***************************************************************************)
(* Properties                                                              *)
(***************************************************************************)
TypeOK ==
    /\ registry \in Registry
    /\ files \in [Doc \X Format -> Revision \cup {None}]
    /\ lock \in Lock \cup {None}
    /\ work \in [Process -> Call \cup {Idle}]

Stored(d) == <<d, registry[d].format>>

\* Two calls have found the same lock stale: the second may remove the lock that
\* the first, or a third, has made since.
Overtaken ==
    \E p, q \in Process :
        /\ p # q /\ ~At(p, "idle") /\ ~At(q, "idle")
        /\ work[p].judged \cap work[q].judged # {}

\* registry.json is read, changed and replaced as a whole, yet no change of one
\* call is undone by another, through deaths and stale locks too, unless two have
\* taken the same stale lock away.
NoUpdateLost ==
    [][registry' # registry =>
         Overtaken \/ \E p \in Process : At(p, "write") /\ work[p].read = registry]_vars

\* "never a document whose bytes are gone": the file that a record names is there,
\* wherever a replacement in another format, a deletion or a registration stops.
BytesStay ==
    \/ Overtaken
    \/ \A d \in Doc : registry[d] # None => files[Stored(d)] # None

\* The bytes are those of the record's revision, or of a replacement in the same
\* format that has not come to write the registry, or never will.
BytesAreTheRecords ==
    \/ Overtaken
    \/ \A d \in Doc :
         registry[d] # None =>
            \/ files[Stored(d)] = registry[d].rev
            \/ \E p \in Process : /\ files[Stored(d)] = p
                                  /\ work[p].op = "replace" /\ ~work[p].wrote

=============================================================================
