-------------------------- MODULE BuildLockProofs --------------------------
(***************************************************************************)
(* Proofs about BuildLock, for any processes, hosts and pids.              *)
(*                                                                         *)
(* While no attempts have overlapped and no build has outlived the lock,   *)
(* the file names the process that builds; a process that is between       *)
(* deciding and writing is alone, and its handle is the present file.      *)
(***************************************************************************)
EXTENDS BuildLock, TLAPS

USE BuildLockConstants

LEMMA LockTypeOK == TypeOK /\ [Next]_vars => TypeOK'
<1> SUFFICES ASSUME TypeOK, [Next]_vars PROVE TypeOK'
  OBVIOUS
<1> USE DEF TypeOK, Place, Attempting, Move, Absent, Blank
<1>1. ASSUME NEW p \in Proc, Start(p) PROVE TypeOK'
  BY <1>1 DEF Start
<1>2. ASSUME NEW p \in Proc, Create(p) PROVE TypeOK'
  BY <1>2 DEF Create, BeginAttempt
<1>3. ASSUME NEW p \in Proc, FindExisting(p) PROVE TypeOK'
  BY <1>3 DEF FindExisting, BeginAttempt
<1>4. ASSUME NEW p \in Proc, Inspect(p) PROVE TypeOK'
  BY <1>4 DEF Inspect
<1>5. ASSUME NEW p \in Proc, Truncate(p) PROVE TypeOK'
  BY <1>5 DEF Truncate
<1>6. ASSUME NEW p \in Proc, WriteHolder(p) PROVE TypeOK'
  <2>1. file' \in {file, Held(p), Blank}
    BY <1>6 DEF WriteHolder
  <2>2. Held(p) \in [is : {"held"}, by : Proc, old : BOOLEAN]
    BY DEF Held
  <2>3. Blank \in [is : {"absent", "blank"}, by : {None}, old : {FALSE}]
    OBVIOUS
  <2> HIDE DEF Blank
  <2>4. file' \in [is : {"absent", "blank"}, by : {None}, old : {FALSE}]
                 \cup [is : {"held"}, by : Proc, old : BOOLEAN]
    BY <2>1, <2>2, <2>3
  <2> QED
    BY <1>6, <2>4 DEF WriteHolder
<1>7. ASSUME NEW p \in Proc, Release(p) PROVE TypeOK'
  BY <1>7 DEF Release
<1>8. ASSUME NEW p \in Proc, Crash(p) PROVE TypeOK'
  BY <1>8 DEF Crash
<1>9. CASE Expire
  <2>1. file \in [is : {"held"}, by : Proc, old : BOOLEAN]
    BY <1>9 DEF Expire
  <2>2. [file EXCEPT !.old = TRUE] \in [is : {"held"}, by : Proc, old : BOOLEAN]
    BY <2>1
  <2> QED
    BY <1>9, <2>2, Zenon DEF Expire
<1>10. CASE UNCHANGED vars
  BY <1>10 DEF vars
<1> QED
  BY <1>1, <1>2, <1>3, <1>4, <1>5, <1>6, <1>7, <1>8, <1>9, <1>10 DEF Next, Attempt

\* Every variable keeps its type, and the file names a holder or none.
THEOREM LockTyped == Spec => []TypeOK
<1>1. Init => TypeOK
  <2> SUFFICES ASSUME Init PROVE TypeOK
    OBVIOUS
  <2>1. file \in [is : {"absent", "blank"}, by : {None}, old : {FALSE}]
    BY DEF Init, Absent
  <2>2. raced \in BOOLEAN
    BY DEF Init
  <2> QED
    BY <2>1, <2>2 DEF Init, TypeOK, Place
<1> QED
  BY <1>1, LockTypeOK, PTL DEF Spec

OneAttempt == \A p, q \in Proc : at[p] \in Attempting /\ at[q] \in Attempting => p = q
HolderIsNamed ==
    \A p \in Proc : at[p] = "building" => file.is = "held" /\ file.by = p /\ ~file.old
NobodyMeddles ==
    \A p, q \in Proc :
        at[p] = "building" => at[q] \notin {"created", "taking", "overwriting"}
WriterHasTheFile ==
    \A p \in Proc : at[p] \in {"created", "overwriting"} => p \in handles /\ file.is = "blank"

LockInv ==
    ~raced => OneAttempt /\ HolderIsNamed /\ NobodyMeddles /\ WriterHasTheFile

LEMMA LockInvStep == TypeOK /\ LockInv /\ [Next]_vars => LockInv'
<1> SUFFICES ASSUME TypeOK, LockInv, [Next]_vars, ~raced' PROVE LockInv'
  BY DEF LockInv
<1>0. ~raced
  BY DEF Next, Attempt, Start, Create, FindExisting, BeginAttempt, Inspect, Truncate,
     WriteHolder, Release, Crash, Expire, vars, TypeOK
<1> USE <1>0 DEF LockInv, OneAttempt, HolderIsNamed, NobodyMeddles, WriterHasTheFile, Attempting,
        Move, TypeOK
<1>1. ASSUME NEW p \in Proc, Start(p) PROVE LockInv'
  BY <1>1 DEF Start
<1>2. ASSUME NEW p \in Proc, Create(p) PROVE LockInv'
  BY <1>2 DEF Create, BeginAttempt, Absent, Blank
<1>3. ASSUME NEW p \in Proc, FindExisting(p) PROVE LockInv'
  BY <1>3 DEF FindExisting, BeginAttempt
<1>4. ASSUME NEW p \in Proc, Inspect(p) PROVE LockInv'
  <2>1. ASSUME NEW q \in Proc, at[q] = "building" PROVE ~Stale(p)
    BY <2>1 DEF Stale, PidAlive, Live
  <2> QED
    BY <1>4, <2>1 DEF Inspect
<1>5. ASSUME NEW p \in Proc, Truncate(p) PROVE LockInv'
  BY <1>5 DEF Truncate, Blank
<1>6. ASSUME NEW p \in Proc, WriteHolder(p) PROVE LockInv'
  BY <1>6 DEF WriteHolder, Held
<1>7. ASSUME NEW p \in Proc, Release(p) PROVE LockInv'
  BY <1>7 DEF Release
<1>8. ASSUME NEW p \in Proc, Crash(p) PROVE LockInv'
  BY <1>8 DEF Crash
<1>9. CASE Expire
  BY <1>9 DEF Expire
<1>10. CASE UNCHANGED vars
  BY <1>10 DEF vars
<1> QED
  BY <1>1, <1>2, <1>3, <1>4, <1>5, <1>6, <1>7, <1>8, <1>9, <1>10 DEF Next, Attempt

\* Builds exclude each other as long as no two attempts to take the lock
\* overlap and no build outlives index_build_lock_ttl_s, whoever crashes.
THEOREM OneHolderAtATime == Spec => []OneHolder
<1>1. Init => LockInv
  BY DEF Init, LockInv, OneAttempt, HolderIsNamed, NobodyMeddles, WriterHasTheFile, Attempting
<1>2. LockInv => OneHolder
  BY DEF LockInv, HolderIsNamed, OneHolder
<1> QED
  BY <1>1, <1>2, LockInvStep, LockTyped, PTL DEF Spec

=============================================================================
