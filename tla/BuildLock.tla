----------------------------- MODULE BuildLock -----------------------------
(***************************************************************************)
(* The file chroma/.build.lock, step by step as the file system sees it:   *)
(* IndexBuilder._acquire_lock, _stale_reason, _pid_alive, _release_lock.   *)
(*                                                                         *)
(* Creating the file is atomic, writing the holder into it is not; taking  *)
(* over a stale lock is a read, a decision, a truncation and a write, each *)
(* open to the others.  A process is one life of a worker: the worker that *)
(* starts after a crash is another process, possibly with the same pid.    *)
(***************************************************************************)
EXTENDS FiniteSets

CONSTANTS
    Proc,       \* worker processes, each started at most once
    host, pid,  \* where each runs, and its process id there
    None

ASSUME BuildLockConstants == None \notin Proc

VARIABLES
    at,      \* where each process stands
    file,    \* the lock file
    handles, \* processes whose open handle is the present file
    raced    \* history: attempts have overlapped, or a build outlived the lock

vars == <<at, file, handles, raced>>

\* "created": file made, not written; "inspecting": file found to exist;
\* "taking": decided that it is stale; "overwriting": truncated, not written.
Attempting == {"created", "inspecting", "taking", "overwriting"}
Place == Attempting \cup {"off", "idle", "building", "dead"}

\* A blank file is one that names no holder: empty or cut short.
Absent == [is |-> "absent", by |-> None, old |-> FALSE]
Blank == [is |-> "blank", by |-> None, old |-> FALSE]

Held(p) == [is |-> "held", by |-> p, old |-> FALSE]

Init ==
    /\ at = [p \in Proc |-> "off"]
    /\ file = Absent
    /\ handles = {}
    /\ raced = FALSE

Live(p) == at[p] \notin {"off", "dead"}
Move(p, place) == at' = [at EXCEPT ![p] = place]

\* A worker starts; no other process of its host has its pid.
Start(p) ==
    /\ at[p] = "off"
    /\ \A q \in Proc : Live(q) => host[q] # host[p] \/ pid[q] # pid[p]
    /\ Move(p, "idle")
    /\ UNCHANGED <<file, handles, raced>>

(***************************************************************************)
(* _acquire_lock                                                           *)
(***************************************************************************)
BeginAttempt(p) ==
    /\ at[p] = "idle"
    /\ raced' = (raced \/ \E q \in Proc : at[q] \in Attempting)

\* open("x") succeeds ...
Create(p) ==
    /\ BeginAttempt(p)
    /\ file = Absent
    /\ file' = Blank
    /\ handles' = {p}
    /\ Move(p, "created")

\* ... or raises FileExistsError.
FindExisting(p) ==
    /\ BeginAttempt(p)
    /\ file # Absent
    /\ Move(p, "inspecting")
    /\ UNCHANGED <<file, handles>>

\* kill(pid, 0), asked on p's host.
PidAlive(p, q) == \E r \in Proc : Live(r) /\ host[r] = host[p] /\ pid[r] = pid[q]

\* Mutants of Stale: the pid of a holder on another host is looked up here;
\* only a holder that is gone makes a lock stale, a file without one does not.
StaleAnyHost(p) ==
    file.is # "held" \/ file.old \/ ~PidAlive(p, file.by)
StaleIfGone(p) ==
    file.is = "held" /\ (file.old \/ (host[file.by] = host[p] /\ ~PidAlive(p, file.by)))

\* _stale_reason: unreadable, unparseable, expired or holder_gone.
Stale(p) ==
    \/ file.is # "held"
    \/ file.old
    \/ host[file.by] = host[p] /\ ~PidAlive(p, file.by)

Inspect(p) ==
    /\ at[p] = "inspecting"
    /\ Move(p, IF Stale(p) THEN "taking" ELSE "idle")    \* else IndexBuildBusyError
    /\ UNCHANGED <<file, handles, raced>>

\* write_text: open("w") truncates the file, or makes it again ...
Truncate(p) ==
    /\ at[p] = "taking"
    /\ file' = Blank
    /\ handles' = IF file = Absent THEN {p} ELSE handles \cup {p}
    /\ Move(p, "overwriting")
    /\ UNCHANGED raced

\* ... and the payload follows.  It lands in the present file only if that is
\* the one p opened; over another payload it may leave a rest of that one.
WriteHolder(p) ==
    /\ at[p] \in {"created", "overwriting"}
    /\ file' \in IF p \notin handles THEN {file}
                 ELSE IF file.is = "held" THEN {Held(p), Blank}
                 ELSE {Held(p)}
    /\ handles' = handles \ {p}
    /\ Move(p, "building")
    /\ UNCHANGED raced

\* _release_lock unlinks whatever file is there now.
Release(p) ==
    /\ at[p] = "building"
    /\ file' = Absent
    /\ handles' = {}
    /\ Move(p, "idle")
    /\ UNCHANGED raced

Crash(p) ==
    /\ Live(p)
    /\ handles' = handles \ {p}
    /\ Move(p, "dead")
    /\ UNCHANGED <<file, raced>>

\* index_build_lock_ttl_s has passed since the holder's started_at.
Expire ==
    /\ file.is = "held" /\ ~file.old
    /\ file' = [file EXCEPT !.old = TRUE]
    /\ raced' = (raced \/ at[file.by] = "building")
    /\ UNCHANGED <<at, handles>>

Attempt(p) ==
    Create(p) \/ FindExisting(p) \/ Inspect(p) \/ Truncate(p) \/ WriteHolder(p)

Next ==
    \/ \E p \in Proc : Start(p) \/ Attempt(p) \/ Release(p) \/ Crash(p)
    \/ Expire

Spec == Init /\ [][Next]_vars

\* A build that is refused is asked for again, and time passes.
FairSpec == Spec /\ (\A p \in Proc : WF_vars(Attempt(p))) /\ WF_vars(Expire)

(***************************************************************************)
(* Properties                                                              *)
(***************************************************************************)
TypeOK ==
    /\ at \in [Proc -> Place]
    /\ file \in [is : {"absent", "blank"}, by : {None}, old : {FALSE}]
                \cup [is : {"held"}, by : Proc, old : BOOLEAN]
    /\ handles \in SUBSET Proc
    /\ raced \in BOOLEAN

\* One process builds at a time, on any host, across crashes and takeovers --
\* until two attempts overlap or a build outlives the TTL.
OneHolder ==
    ~raced => \A p, q \in Proc : at[p] = "building" /\ at[q] = "building" => p = q

\* The lock is no permanent doorstop: a worker that is alone, whatever dead
\* workers left behind at whatever step, gets to build if it keeps asking.
Alone(p) == Live(p) /\ \A q \in Proc \ {p} : ~Live(q)
NoPermanentDoorstop ==
    \A p \in Proc : Alone(p) ~> (at[p] = "building" \/ ~Alone(p))

\* "A lock ... whose owner is gone is stale": on its own host a dead process
\* does not hold up the next one.
GoneOwnerIsStale ==
    \A p \in Proc :
        /\ at[p] = "inspecting" /\ file.is = "held"
        /\ host[file.by] = host[p] /\ at[file.by] = "dead"
        => Stale(p)

=============================================================================
