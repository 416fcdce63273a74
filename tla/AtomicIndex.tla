---------------------------- MODULE AtomicIndex ----------------------------
(***************************************************************************)
(* What the published index promises its readers: there is one current     *)
(* version, a publish moves on to a version never current before, and a    *)
(* reader gets the version that was current when it looked -- or an error, *)
(* and that only if the current version has changed since.                 *)
(***************************************************************************)
CONSTANTS Version, Reader, None

VARIABLES
    current,    \* the version readers are directed to, or None
    published,  \* the versions that have been current
    view        \* what each reader is doing, and with which version

vars == <<current, published, view>>

Views == [state: {"idle", "loading", "loaded", "failed"}, version: Version \cup {None}]

Init ==
    /\ current = None
    /\ published = {}
    /\ view = [r \in Reader |-> [state |-> "idle", version |-> None]]

Publish(v) ==
    /\ v \notin published
    /\ current' = v
    /\ published' = published \cup {v}
    /\ UNCHANGED view

\* A reader learns the current version; without one it fails at once.
Look(r) ==
    /\ view[r].state = "idle"
    /\ view' = [view EXCEPT ![r] =
           [state |-> IF current = None THEN "failed" ELSE "loading", version |-> current]]
    /\ UNCHANGED <<current, published>>

Load(r) ==
    /\ view[r].state = "loading"
    /\ view' = [view EXCEPT ![r].state = "loaded"]
    /\ UNCHANGED <<current, published>>

LoseTrack(r) ==
    /\ view[r].state = "loading"
    /\ view[r].version # current
    /\ view' = [view EXCEPT ![r].state = "failed"]
    /\ UNCHANGED <<current, published>>

Leave(r) ==
    /\ view[r].state \in {"loaded", "failed"}
    /\ view' = [view EXCEPT ![r] = [state |-> "idle", version |-> None]]
    /\ UNCHANGED <<current, published>>

Next ==
    \/ \E v \in Version : Publish(v)
    \/ \E r \in Reader : Look(r) \/ Load(r) \/ LoseTrack(r) \/ Leave(r)

Spec == Init /\ [][Next]_vars

=============================================================================
