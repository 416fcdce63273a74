---------------------------- MODULE RegistryProofs ----------------------------
(***************************************************************************)
(* The registry's files under any number of calls: type correctness, and   *)
(* what holds as long as no two calls have found the same lock stale and   *)
(* no living call keeps the lock until it looks stale.                     *)
(***************************************************************************)
EXTENDS RegistryStore, TLAPS

USE RegistryConstants

Called(p) == work[p] \in Call

LEMMA CalledUnlessIdle ==
    ASSUME TypeOK, NEW p \in Process, ~At(p, "idle")
    PROVE  Called(p)
BY DEF TypeOK, At, Idle, Called

LEMMA IdleIsNoCall ==
    ASSUME NEW p \in Process, Called(p)
    PROVE  ~At(p, "idle")
BY DEF Called, Call, At

\* A step that only moves a call on.
LEMMA Moved ==
    ASSUME TypeOK, NEW p \in Process, Called(p), NEW at, To(p, at),
           at \in {"lock", "break", "load", "move", "write", "unlink", "release",
                   "done", "refused", "dead"}
    PROVE  /\ work' \in [Process -> Call \cup {Idle}] /\ Called(p)'
           /\ \A q \in Process : q # p => work'[q] = work[q]
           /\ work'[p].at = at /\ work'[p].op = work[p].op /\ work'[p].doc = work[p].doc
           /\ work'[p].format = work[p].format /\ work'[p].value = work[p].value
           /\ work'[p].read = work[p].read /\ work'[p].judged = work[p].judged
           /\ work'[p].wrote = work[p].wrote
<1> DEFINE w == [work[p] EXCEPT !.at = at]
<1>1. work' = [work EXCEPT ![p] = w]
  BY DEF To
<1>2. /\ w \in Call /\ w.at = at /\ w.op = work[p].op /\ w.doc = work[p].doc
      /\ w.format = work[p].format /\ w.value = work[p].value /\ w.read = work[p].read
      /\ w.judged = work[p].judged /\ w.wrote = work[p].wrote
  BY DEF Called, Call
<1> HIDE DEF w
<1>3. work'[p] = w /\ work' \in [Process -> Call \cup {Idle}]
  BY <1>1, <1>2 DEF TypeOK
<1> QED
  BY <1>1, <1>2, <1>3 DEF Called, TypeOK

LEMMA BeginEffect ==
    ASSUME TypeOK, NEW p \in Process, Begin(p)
    PROVE  /\ work' \in [Process -> Call \cup {Idle}] /\ Called(p)'
           /\ \A q \in Process : q # p => work'[q] = work[q]
           /\ work'[p].at = "lock" /\ work'[p].judged = {} /\ work'[p].wrote = FALSE
           /\ work'[p].op = "register" => work'[p].doc = p
           /\ work'[p].op \in {"register", "replace"} => work'[p].format \in Format
           /\ work'[p].op # "register" => registry[work'[p].doc] # None
<1>1. PICK a \in Arguments(p) :
        work' = [work EXCEPT ![p] =
            [op |-> a.op, doc |-> a.doc, format |-> a.format, value |-> a.value, at |-> "lock",
             read |-> Unread, judged |-> {}, wrote |-> FALSE]]
  BY DEF Begin
<1> DEFINE w == [op |-> a.op, doc |-> a.doc, format |-> a.format, value |-> a.value, at |-> "lock",
                 read |-> Unread, judged |-> {}, wrote |-> FALSE]
<1>2. /\ a.op \in Op /\ a.doc \in Doc /\ a.format \in Format \cup {None} /\ a.value \in BOOLEAN
      /\ a.op \in {"register", "replace"} => a.format \in Format
      /\ a.op = "register" => a.doc = p
      /\ a.op # "register" => registry[a.doc] # None
  <2> DEFINE known == {d \in Doc : registry[d] # None}
  <2>1. CASE \E f \in Format : a = [op |-> "register", doc |-> p, format |-> f, value |-> FALSE]
    BY <2>1 DEF Op, Doc
  <2>2. CASE \E d \in known, f \in Format :
               a = [op |-> "replace", doc |-> d, format |-> f, value |-> FALSE]
    BY <2>2 DEF Op
  <2>3. CASE \E op \in {"update", "meta"}, d \in known, v \in BOOLEAN :
               a = [op |-> op, doc |-> d, format |-> None, value |-> v]
    BY <2>3 DEF Op
  <2>4. CASE \E d \in known :
               a = [op |-> "delete", doc |-> d, format |-> None, value |-> FALSE]
    BY <2>4 DEF Op
  <2> QED
    BY <2>1, <2>2, <2>3, <2>4 DEF Arguments
<1>3. Unread \in Registry
  BY DEF Unread, Registry
<1>4. /\ w \in Call /\ w.at = "lock" /\ w.judged = {} /\ w.wrote = FALSE /\ w.op = a.op
      /\ w.doc = a.doc /\ w.format = a.format
  BY <1>2, <1>3 DEF Call
<1> HIDE DEF w
<1>5. work'[p] = w /\ work' \in [Process -> Call \cup {Idle}]
  BY <1>1, <1>4 DEF TypeOK, w
<1> QED
  BY <1>1, <1>2, <1>4, <1>5 DEF Called, TypeOK

LEMMA JudgeEffect ==
    ASSUME TypeOK, NEW p \in Process, Judge(p)
    PROVE  /\ work' \in [Process -> Call \cup {Idle}] /\ Called(p) /\ Called(p)'
           /\ \A q \in Process : q # p => work'[q] = work[q]
           /\ lock # None /\ lock.by \in Process
           /\ work'[p].at = "break" /\ work'[p].op = work[p].op /\ work'[p].doc = work[p].doc
           /\ work'[p].format = work[p].format /\ work'[p].wrote = work[p].wrote
           /\ work'[p].judged = work[p].judged \cup {lock.by}
<1>1. Called(p) /\ lock # None /\ lock.by \in Process
  BY CalledUnlessIdle DEF Judge, At, TypeOK, Lock
<1> DEFINE w == [work[p] EXCEPT !.at = "break", !.judged = @ \cup {lock.by}]
<1>2. work' = [work EXCEPT ![p] = w]
  BY DEF Judge
<1>3. /\ w \in Call /\ w.at = "break" /\ w.op = work[p].op /\ w.doc = work[p].doc
      /\ w.format = work[p].format /\ w.wrote = work[p].wrote
      /\ w.judged = work[p].judged \cup {lock.by}
  BY <1>1 DEF Called, Call
<1> HIDE DEF w
<1>4. work'[p] = w /\ work' \in [Process -> Call \cup {Idle}]
  BY <1>2, <1>3 DEF TypeOK
<1> QED
  BY <1>1, <1>2, <1>3, <1>4 DEF Called, TypeOK

LEMMA ReleaseEffect ==
    ASSUME TypeOK, NEW p \in Process, Release(p)
    PROVE  /\ work' \in [Process -> Call \cup {Idle}] /\ Called(p) /\ Called(p)'
           /\ \A q \in Process : q # p => work'[q] = work[q]
           /\ work'[p].at = "done" /\ work'[p].op = work[p].op /\ work'[p].doc = work[p].doc
           /\ work'[p].format = work[p].format /\ work'[p].wrote = work[p].wrote
           /\ work'[p].judged = work[p].judged
<1>1. Called(p) /\ Unread \in Registry
  BY CalledUnlessIdle DEF Release, At, Unread, Registry
<1> DEFINE w == [work[p] EXCEPT !.at = "done", !.read = Unread]
<1>2. work' = [work EXCEPT ![p] = w]
  BY DEF Release
<1>3. /\ w \in Call /\ w.at = "done" /\ w.op = work[p].op /\ w.doc = work[p].doc
      /\ w.format = work[p].format /\ w.wrote = work[p].wrote /\ w.judged = work[p].judged
  BY <1>1 DEF Called, Call
<1> HIDE DEF w
<1>4. work'[p] = w /\ work' \in [Process -> Call \cup {Idle}]
  BY <1>2, <1>3 DEF TypeOK
<1> QED
  BY <1>1, <1>2, <1>3, <1>4 DEF Called, TypeOK

LEMMA LoadEffect ==
    ASSUME TypeOK, NEW p \in Process, Load(p)
    PROVE  /\ work' \in [Process -> Call \cup {Idle}] /\ Called(p) /\ Called(p)'
           /\ \A q \in Process : q # p => work'[q] = work[q]
           /\ work'[p].at = IF ~Acceptable(p) THEN "release"
                            ELSE IF work[p].op \in {"register", "replace"} THEN "move"
                            ELSE "write"
           /\ work'[p].op = work[p].op /\ work'[p].doc = work[p].doc
           /\ work'[p].format = work[p].format /\ work'[p].wrote = work[p].wrote
           /\ work'[p].judged = work[p].judged /\ work'[p].read = registry
<1>1. Called(p) /\ registry \in Registry
  BY CalledUnlessIdle DEF Load, At, TypeOK
<1> DEFINE at == IF ~Acceptable(p) THEN "release"
                 ELSE IF work[p].op \in {"register", "replace"} THEN "move" ELSE "write"
           w == [work[p] EXCEPT !.read = registry, !.at = at]
<1>2. work' = [work EXCEPT ![p] = w]
  BY DEF Load
<1>3. at \in {"release", "move", "write"}
  OBVIOUS
<1>4. /\ w \in Call /\ w.at = at /\ w.op = work[p].op /\ w.doc = work[p].doc
      /\ w.format = work[p].format /\ w.wrote = work[p].wrote /\ w.judged = work[p].judged
      /\ w.read = registry
  <2> HIDE DEF at
  <2> QED
    BY <1>1, <1>3 DEF Called, Call
<1> HIDE DEF w
<1>5. work'[p] = w /\ work' \in [Process -> Call \cup {Idle}]
  BY <1>2, <1>4 DEF TypeOK
<1> QED
  BY <1>1, <1>2, <1>4, <1>5 DEF Called, TypeOK

LEMMA WriteEffect ==
    ASSUME TypeOK, NEW p \in Process, Write(p)
    PROVE  /\ work' \in [Process -> Call \cup {Idle}] /\ Called(p) /\ Called(p)'
           /\ \A q \in Process : q # p => work'[q] = work[q]
           /\ work'[p].at = IF Leftover(p) = {} THEN "release" ELSE "unlink"
           /\ work'[p].op = work[p].op /\ work'[p].doc = work[p].doc
           /\ work'[p].format = work[p].format /\ work'[p].wrote = TRUE
           /\ work'[p].judged = work[p].judged /\ work'[p].read = work[p].read
<1>1. Called(p)
  BY CalledUnlessIdle DEF Write, At
<1> DEFINE at == IF Leftover(p) = {} THEN "release" ELSE "unlink"
           w == [work[p] EXCEPT !.wrote = TRUE, !.at = at]
<1>2. work' = [work EXCEPT ![p] = w]
  BY DEF Write
<1>3. at \in {"release", "unlink"}
  OBVIOUS
<1>4. /\ w \in Call /\ w.at = at /\ w.op = work[p].op /\ w.doc = work[p].doc
      /\ w.format = work[p].format /\ w.wrote = TRUE /\ w.judged = work[p].judged
      /\ w.read = work[p].read
  <2> HIDE DEF at
  <2> QED
    BY <1>1, <1>3 DEF Called, Call
<1> HIDE DEF w
<1>5. work'[p] = w /\ work' \in [Process -> Call \cup {Idle}]
  BY <1>2, <1>4 DEF TypeOK
<1> QED
  BY <1>1, <1>2, <1>4, <1>5 DEF Called, TypeOK

(***************************************************************************)
(* What every call knows of itself, in every state.                        *)
(***************************************************************************)
Prepared(p) ==
    Called(p) =>
        /\ work[p].op \in {"register", "replace"} => work[p].format \in Format
        /\ work[p].op = "register" => work[p].doc = p
        /\ At(p, "move") => work[p].op \in {"register", "replace"}
        /\ work[p].at \in {"move", "write", "unlink"} /\ work[p].op # "register" =>
               work[p].read[work[p].doc] # None

Typed == TypeOK /\ \A p \in Process : Prepared(p)


LEMMA InitTyped ==
    ASSUME Init
    PROVE  Typed
<1>1. PICK format \in Format, busy \in BOOLEAN :
        /\ registry = [d \in Doc |->
                IF d \in Existing
                THEN [rev |-> d, format |-> format, busy |-> busy, enabled |-> TRUE] ELSE None]
        /\ files = [k \in Doc \X Format |->
                    IF k[1] \in Existing /\ k[2] = format THEN k[1] ELSE None]
  BY DEF Init
<1>2. registry \in Registry
  BY <1>1 DEF Registry, Record, Revision
<1>3. files \in [Doc \X Format -> Revision \cup {None}]
  BY <1>1 DEF Revision
<1>4. work = [p \in Process |-> Idle] /\ lock = None
  BY DEF Init
<1>5. \A p \in Process : Prepared(p)
  <2> TAKE p \in Process
  <2>1. At(p, "idle")
    BY <1>4 DEF At, Idle
  <2> QED
    BY <2>1, IdleIsNoCall DEF Prepared
<1> QED
  BY <1>2, <1>3, <1>4, <1>5 DEF Typed, TypeOK

\* What is written for a call that knows its arguments.
LEMMA ChangedTyped ==
    ASSUME Typed, NEW p \in Process, At(p, "write")
    PROVE  /\ Called(p) /\ work[p].doc \in Doc /\ work[p].read \in Registry
           /\ Changed(p) \in Record \cup {None}
           /\ work[p].op = "register" =>
                 Changed(p) # None /\ Changed(p).rev = p /\ Changed(p).format = work[p].format
           /\ work[p].op = "replace" =>
                 Changed(p) # None /\ Changed(p).rev = p /\ Changed(p).format = work[p].format
           /\ work[p].op \in {"update", "meta"} =>
                 /\ Changed(p) # None /\ Changed(p).rev = work[p].read[work[p].doc].rev
                 /\ Changed(p).format = work[p].read[work[p].doc].format
           /\ work[p].op = "delete" => Changed(p) = None
<1> DEFINE w == work[p]
           old == w.read[w.doc]
<1>1. /\ Called(p) /\ w.op \in Op /\ w.doc \in Doc /\ w.read \in Registry /\ w.value \in BOOLEAN
      /\ p \in Revision
  BY CalledUnlessIdle DEF Typed, At, Called, Call, Revision
<1>2. /\ w.op # "register" => old # None
      /\ w.op \in {"register", "replace"} => w.format \in Format
  BY <1>1 DEF Typed, Prepared, At
<1>3. w.op # "register" => old \in Record
  BY <1>1, <1>2 DEF Registry
<1>4. \A r \in Record : r # None
  OBVIOUS
<1>5. CASE w.op = "register"
  BY <1>1, <1>2, <1>4, <1>5 DEF Changed, Record
<1>6. CASE w.op = "replace"
  BY <1>1, <1>2, <1>3, <1>4, <1>6 DEF Changed, Record
<1>7. CASE w.op \in {"update", "meta"}
  BY <1>1, <1>3, <1>4, <1>7 DEF Changed, Record
<1>8. CASE w.op = "delete"
  BY <1>1, <1>8 DEF Changed
<1> QED
  BY <1>1, <1>5, <1>6, <1>7, <1>8 DEF Op

LEMMA WriteRegistry ==
    ASSUME Typed, NEW p \in Process, Write(p)
    PROVE  /\ registry' \in Registry
           /\ registry'[work[p].doc] = Changed(p)
           /\ \A d \in Doc : d # work[p].doc => registry'[d] = work[p].read[d]
<1>1. /\ work[p].doc \in Doc /\ work[p].read \in Registry /\ Changed(p) \in Record \cup {None}
  BY ChangedTyped DEF Write
<1>2. registry' = [work[p].read EXCEPT ![work[p].doc] = Changed(p)]
  BY DEF Write
<1> HIDE DEF Changed
<1> QED
  BY <1>1, <1>2 DEF Registry

\* The steps that only move a call on.
LEMMA MovesOn ==
    ASSUME TypeOK, NEW p \in Process,
           \/ Acquire(p)
           \/ Break(p)
           \/ Refused(p)
           \/ Move(p)
           \/ WriteFails(p)
           \/ Unlink(p)
           \/ Killed(p)
    PROVE  /\ Called(p)
           /\ \E at \in {"lock", "load", "write", "release", "refused", "dead"} : To(p, at)
<1>1. ~At(p, "idle")
  BY DEF Acquire, Break, Refused, Move, WriteFails, Unlink, Killed, At
<1>2. Called(p)
  BY <1>1, CalledUnlessIdle
<1> QED
  BY <1>2 DEF Acquire, Break, Refused, Move, WriteFails, Unlink, Killed

LEMMA WorkTyped ==
    ASSUME TypeOK, NEW p \in Process, Step(p)
    PROVE  /\ work' \in [Process -> Call \cup {Idle}]
           /\ \A q \in Process : q # p => work'[q] = work[q]
<1>1. CASE Begin(p)
  BY <1>1, BeginEffect
<1>2. CASE Judge(p)
  BY <1>2, JudgeEffect
<1>3. CASE Release(p)
  BY <1>3, ReleaseEffect
<1>4. CASE Load(p)
  BY <1>4, LoadEffect
<1>5. CASE Write(p)
  BY <1>5, WriteEffect
<1>6. ASSUME \/ Acquire(p)
             \/ Break(p)
             \/ Refused(p)
             \/ Move(p)
             \/ WriteFails(p)
             \/ Unlink(p)
             \/ Killed(p)
      PROVE  /\ work' \in [Process -> Call \cup {Idle}]
             /\ \A q \in Process : q # p => work'[q] = work[q]
  BY <1>6, MovesOn, Moved
<1> QED
  BY <1>1, <1>2, <1>3, <1>4, <1>5, <1>6 DEF Step

LEMMA StepTyped ==
    ASSUME Typed, NEW p \in Process, Step(p)
    PROVE  TypeOK'
<1>1. work' \in [Process -> Call \cup {Idle}]
  BY WorkTyped DEF Typed
<1>2. registry' \in Registry
  <2>1. CASE Write(p)
    BY <2>1, WriteRegistry
  <2>2. CASE registry' = registry
    BY <2>2 DEF Typed, TypeOK
  <2> QED
    BY <2>1, <2>2 DEF Step, Begin, Acquire, Judge, Break, Refused, Release, Load, Move, WriteFails,
                      Unlink, Killed
<1>3. files' \in [Doc \X Format -> Revision \cup {None}]
  <2>1. files \in [Doc \X Format -> Revision \cup {None}] /\ p \in Revision
    BY DEF Typed, TypeOK, Revision
  <2>2. CASE Move(p) \/ WriteFails(p)
    BY <2>1, <2>2 DEF Move, WriteFails
  <2>3. CASE Unlink(p)
    BY <2>1, <2>3 DEF Unlink
  <2>4. CASE files' = files
    BY <2>1, <2>4
  <2> QED
    BY <2>2, <2>3, <2>4 DEF Step, Begin, Acquire, Judge, Break, Refused, Release, Load, Write, Killed
<1>4. lock' \in Lock \cup {None}
  <2>1. CASE Acquire(p)
    BY <2>1 DEF Acquire, Lock
  <2>2. CASE lock' = None \/ lock' = lock
    BY <2>2 DEF Typed, TypeOK
  <2> QED
    BY <2>1, <2>2 DEF Step, Begin, Judge, Break, Refused, Release, Load, Move, Write, WriteFails,
                      Unlink, Killed
<1> QED
  BY <1>1, <1>2, <1>3, <1>4 DEF TypeOK

LEMMA StepPrepared ==
    ASSUME Typed, NEW p \in Process, Step(p)
    PROVE  Prepared(p)'
<1> USE DEF Prepared, At
<1>0. TypeOK /\ Prepared(p)
  BY DEF Typed
<1>1. CASE Begin(p)
  BY <1>1, BeginEffect, <1>0
<1>2. CASE Judge(p)
  BY <1>2, JudgeEffect, <1>0
<1>3. CASE Release(p)
  BY <1>3, ReleaseEffect, <1>0
<1>4. CASE Load(p)
  BY <1>4, LoadEffect, <1>0 DEF Acceptable
<1>5. CASE Write(p)
  <2>1. work[p].op # "register" => work[p].read[work[p].doc] # None
    BY <1>5, WriteEffect, <1>0 DEF Write
  <2> QED
    BY <1>5, <2>1, WriteEffect, <1>0
<1>6. CASE Move(p)
  BY <1>6, MovesOn, Moved, <1>0 DEF Move
<1>7. ASSUME \/ Acquire(p)
             \/ Break(p)
             \/ Refused(p)
             \/ WriteFails(p)
             \/ Unlink(p)
             \/ Killed(p)
      PROVE  Prepared(p)'
  <2>1. PICK at \in {"lock", "load", "release", "refused", "dead"} : To(p, at)
    BY <1>7 DEF Acquire, Break, Refused, WriteFails, Unlink, Killed
  <2>2. Called(p)
    BY <1>7, MovesOn, <1>0
  <2> QED
    BY <2>1, <2>2, Moved, <1>0
<1> QED
  BY <1>1, <1>2, <1>3, <1>4, <1>5, <1>6, <1>7 DEF Step

LEMMA NextTyped ==
    ASSUME Typed, [Next]_vars
    PROVE  Typed'
<1>1. CASE UNCHANGED vars
  BY <1>1 DEF vars, Typed, TypeOK, Prepared, Called, At
<1>2. CASE Age
  BY <1>2 DEF Age, Lock, Typed, TypeOK, Prepared, Called, At
<1>3. ASSUME NEW p \in Process, Step(p)
      PROVE  Typed'
  <2>1. TypeOK' /\ Prepared(p)'
    BY <1>3, StepTyped, StepPrepared
  <2>2. \A q \in Process : q # p => Prepared(q)'
    BY <1>3, WorkTyped DEF Typed, Prepared, Called, At
  <2> QED
    BY <2>1, <2>2 DEF Typed
<1> QED
  BY <1>1, <1>2, <1>3 DEF Next

\* The registry, the files, the lock and every call keep their types, and a call
\* that is about to write has read a record to change.
THEOREM RegistryTyped == Spec => []Typed
<1>1. Init => Typed
  BY InitTyped
<1>2. Typed /\ [Next]_vars => Typed'
  BY NextTyped
<1> QED
  BY <1>1, <1>2, PTL DEF Spec

(***************************************************************************)
(* The lock excludes, as long as no two calls have found one lock stale    *)
(* and only a dead holder's lock ages.                                     *)
(***************************************************************************)
Inside(p) == work[p].at \in {"load", "move", "write", "unlink", "release"}

Holds(p) == lock # None /\ lock.by = p

Exclusive ==
    /\ \A p \in Process : Inside(p) => Holds(p)
    /\ \A p \in Process :
         At(p, "break") => lock # None /\ lock.by \in work[p].judged /\ At(lock.by, "dead")
    /\ lock # None /\ lock.aged => At(lock.by, "dead")

(***************************************************************************)
(* What a call that holds the lock knows of the registry and the files.    *)
(***************************************************************************)
Early(p) == work[p].at \in {"lock", "break", "load", "move"}

Fresh(p) == At(p, "idle") \/ (work[p].op = "register" /\ ~work[p].wrote)

KnowsRegistry(p) ==
    /\ work[p].at \in {"move", "write"} => work[p].read = registry
    /\ Called(p) /\ work[p].op # "register" => work[p].doc # p
    /\ Fresh(p) => registry[p] = None
    /\ Early(p) \/ At(p, "write") => ~work[p].wrote

KnowsFiles(p) ==
    /\ At(p, "write") /\ work[p].op \in {"register", "replace"} =>
           files[<<work[p].doc, work[p].format>>] = p
    /\ \A d \in Doc, f \in Format :
         files[<<d, f>>] = p =>
            ~At(p, "idle") /\ ~Early(p) /\ d = work[p].doc /\ f = work[p].format

\* The old file of a document is removed after the registry has let go of it.
LetGo(p) ==
    At(p, "unlink") =>
        \/ work[p].op = "delete" /\ registry[work[p].doc] = None
        \/ /\ work[p].op = "replace" /\ registry[work[p].doc] # None
           /\ registry[work[p].doc].format = work[p].format
           /\ work[p].read[work[p].doc].format # work[p].format

NoneGone == \A d \in Doc : registry[d] # None => files[Stored(d)] # None

OnTheWay(p, k) == files[k] = p /\ work[p].op = "replace" /\ ~work[p].wrote

Matching ==
    \A d \in Doc :
        registry[d] # None =>
            \/ files[Stored(d)] = registry[d].rev
            \/ \E p \in Process : OnTheWay(p, Stored(d))

Consistent ==
    /\ \A p \in Process : KnowsRegistry(p) /\ KnowsFiles(p) /\ LetGo(p)
    /\ NoneGone /\ Matching

RegistryInv == Typed /\ (Overtaken \/ (Exclusive /\ Consistent))

\* What a call has found stale it keeps.
LEMMA OvertakenStays ==
    ASSUME Typed, [Next]_vars, Overtaken
    PROVE  Overtaken'
<1>1. PICK p \in Process, q \in Process :
        /\ p # q /\ ~At(p, "idle") /\ ~At(q, "idle")
        /\ work[p].judged \cap work[q].judged # {}
  BY DEF Overtaken
<1>2. ASSUME NEW c \in Process, NEW a \in Process, Step(c), ~At(a, "idle")
      PROVE  ~At(a, "idle")' /\ work[a].judged \subseteq work'[a].judged
  <2>1. CASE a # c
    BY <1>2, <2>1, WorkTyped DEF Typed, At
  <2>2. CASE a = c /\ Begin(c)
    BY <1>2, <2>2 DEF Begin
  <2>3. CASE a = c /\ (Judge(c) \/ Release(c) \/ Load(c) \/ Write(c))
    <3>1. Called(a)' /\ work[a].judged \subseteq work'[a].judged
      BY <2>3, JudgeEffect, ReleaseEffect, LoadEffect, WriteEffect DEF Typed
    <3> QED
      BY <3>1 DEF Called, Call, At
  <2>4. ASSUME a = c,
               \/ Acquire(c)
               \/ Break(c)
               \/ Refused(c)
               \/ Move(c)
               \/ WriteFails(c)
               \/ Unlink(c)
               \/ Killed(c)
        PROVE  ~At(a, "idle")' /\ work[a].judged \subseteq work'[a].judged
    BY <2>4, MovesOn, Moved DEF Typed, At
  <2> QED
    BY <1>2, <2>1, <2>2, <2>3, <2>4 DEF Step
<1>3. CASE UNCHANGED work
  BY <1>1, <1>3 DEF Overtaken, At
<1>4. ASSUME NEW c \in Process, Step(c)
      PROVE  Overtaken'
  <2>1. /\ ~At(p, "idle")' /\ work[p].judged \subseteq work'[p].judged
        /\ ~At(q, "idle")' /\ work[q].judged \subseteq work'[q].judged
    BY <1>1, <1>2, <1>4
  <2> QED
    BY <1>1, <2>1 DEF Overtaken
<1> QED
  BY <1>3, <1>4 DEF Next, Age, vars

\* Two that have found one lock stale.
LEMMA BothJudged ==
    ASSUME Typed, ~Overtaken, Exclusive, NEW p \in Process, NEW q \in Process,
           At(p, "break"), At(q, "break")
    PROVE  p = q
<1>1. lock.by \in work[p].judged /\ lock.by \in work[q].judged
  BY DEF Exclusive
<1>2. ~At(p, "idle") /\ ~At(q, "idle")
  BY DEF At
<1> QED
  BY <1>1, <1>2 DEF Overtaken

LEMMA OtherOut ==
    ASSUME Exclusive, NEW p \in Process, NEW q \in Process, Inside(p), Inside(q)
    PROVE  p = q
BY DEF Exclusive, Holds

LEMMA StepExclusive ==
    ASSUME Typed, ~Overtaken, Exclusive, NEW p \in Process, Step(p)
    PROVE  Exclusive'
<1>0. TypeOK /\ \A q \in Process : q # p => work'[q] = work[q]
  BY WorkTyped DEF Typed
<1> USE DEF Inside, Holds, At
<1>1. CASE Begin(p)
  BY <1>0, <1>1, BeginEffect DEF Exclusive, Begin
<1>2. CASE Acquire(p)
  <2>0. [by |-> p, aged |-> FALSE] \in Lock
    BY DEF Lock
  <2>1. lock = None /\ lock' = [by |-> p, aged |-> FALSE] /\ lock' # None
    BY <1>2, <2>0 DEF Acquire
  <2>2. \A q \in Process : ~Inside(q) /\ ~At(q, "break")
    BY <2>1 DEF Exclusive
  <2>3. work'[p].at = "load"
    BY <1>2, <1>0, MovesOn, Moved DEF Acquire
  <2> QED
    BY <1>0, <2>1, <2>2, <2>3 DEF Exclusive
<1>3. CASE Judge(p)
  <2>1. lock # None /\ lock.aged /\ lock' = lock /\ ~Inside(p)
    BY <1>3 DEF Judge
  <2>2. At(lock.by, "dead") /\ work'[p].at = "break" /\ lock.by \in work'[p].judged
        /\ lock.by # p
    BY <2>1, <1>3, <1>0, JudgeEffect DEF Exclusive, Judge
  <2>3. At(lock.by, "dead")'
    BY <2>1, <2>2, <1>0, <1>3, JudgeEffect
  <2> QED
    BY <1>0, <2>1, <2>2, <2>3 DEF Exclusive
<1>4. CASE Break(p)
  <2>1. lock' = None /\ At(p, "break") /\ work'[p].at = "lock"
    BY <1>4, <1>0, MovesOn, Moved DEF Break
  <2>2. \A q \in Process : q # p => ~At(q, "break")
    BY <2>1, BothJudged
  <2>3. \A q \in Process : ~Inside(q)
    BY <2>1 DEF Exclusive
  <2> QED
    BY <1>0, <2>1, <2>2, <2>3 DEF Exclusive
<1>5. CASE Release(p)
  <2>1. lock' = None /\ work'[p].at = "done" /\ Inside(p)
    BY <1>5, <1>0, ReleaseEffect DEF Release
  <2>2. \A q \in Process : ~At(q, "break")
    BY <2>1 DEF Exclusive
  <2>3. \A q \in Process : q # p => ~Inside(q)
    BY <2>1, OtherOut
  <2> QED
    BY <1>0, <2>1, <2>2, <2>3 DEF Exclusive
<1>6. ASSUME lock' = lock, ~At(p, "break")', Inside(p) \/ ~Inside(p)', ~At(p, "dead")
      PROVE  Exclusive'
  <2>1. lock # None => lock.by \in Process
    BY <1>0 DEF TypeOK, Lock
  <2>2. lock # None /\ At(lock.by, "dead") => At(lock.by, "dead")'
    BY <1>0, <1>6, <2>1
  <2>3. \A q \in Process : Inside(q)' => Holds(q)'
    BY <1>0, <1>6 DEF Exclusive
  <2>4. \A q \in Process :
           At(q, "break")' => lock' # None /\ lock'.by \in work'[q].judged /\ At(lock.by, "dead")'
    BY <1>0, <1>6, <2>2 DEF Exclusive
  <2> QED
    BY <1>6, <2>2, <2>3, <2>4 DEF Exclusive
<1>7. CASE Load(p)
  <2>1. work'[p].at \in {"release", "move", "write"}
    BY <1>0, <1>7, LoadEffect
  <2> QED
    BY <1>6, <1>7, <2>1 DEF Load
<1>8. CASE Write(p)
  <2>1. work'[p].at \in {"release", "unlink"}
    BY <1>0, <1>8, WriteEffect
  <2> QED
    BY <1>6, <1>8, <2>1 DEF Write
<1>9. CASE Refused(p) \/ Move(p) \/ WriteFails(p) \/ Unlink(p)
  <2>1. work'[p].at \in {"refused", "write", "release"} /\ (Inside(p) \/ work'[p].at = "refused")
    BY <1>0, <1>9, MovesOn, Moved DEF Refused, Move, WriteFails, Unlink
  <2> QED
    BY <1>6, <1>9, <2>1 DEF Refused, Move, WriteFails, Unlink
<1>10. CASE Killed(p)
  <2>1. lock' = lock /\ work'[p].at = "dead" /\ ~At(p, "dead")
    BY <1>0, <1>10, MovesOn, Moved DEF Killed
  <2> QED
    BY <1>6, <2>1
<1> QED
  BY <1>1, <1>2, <1>3, <1>4, <1>5, <1>7, <1>8, <1>9, <1>10 DEF Step

(***************************************************************************)
(* The registry and the files.                                             *)
(***************************************************************************)
LEMMA StoredTyped ==
    ASSUME TypeOK, NEW d \in Doc, registry[d] # None
    PROVE  registry[d] \in Record /\ Stored(d) \in Doc \X Format
BY DEF TypeOK, Registry, Record, Stored

\* A step that leaves the registry and the files alone.
LEMMA FilesAlone ==
    ASSUME Consistent, NEW p \in Process, registry' = registry, files' = files,
           \A q \in Process : q # p => work'[q] = work[q],
           KnowsRegistry(p)', KnowsFiles(p)', LetGo(p)',
           \A k : OnTheWay(p, k) => OnTheWay(p, k)'
    PROVE  Consistent'
<1>1. \A q \in Process : q # p => KnowsRegistry(q)' /\ KnowsFiles(q)' /\ LetGo(q)'
  BY DEF Consistent, KnowsRegistry, KnowsFiles, LetGo, Called, At, Fresh, Early
<1>2. NoneGone'
  BY DEF Consistent, NoneGone, Stored
<1>3. \A q \in Process : \A k : OnTheWay(q, k) => OnTheWay(q, k)'
  BY DEF OnTheWay
<1>4. Matching'
  <2> SUFFICES ASSUME NEW d \in Doc, registry[d] # None
               PROVE  \/ files[Stored(d)] = registry[d].rev
                      \/ \E q \in Process : OnTheWay(q, Stored(d))'
    BY DEF Matching, Stored
  <2>1. \/ files[Stored(d)] = registry[d].rev
        \/ \E q \in Process : OnTheWay(q, Stored(d))
    BY DEF Consistent, Matching
  <2>2. Stored(d)' = Stored(d)
    BY DEF Stored
  <2> QED
    BY <1>3, <2>1, <2>2 DEF OnTheWay
<1> QED
  BY <1>1, <1>2, <1>4 DEF Consistent

LEMMA BeginConsistent ==
    ASSUME Typed, Consistent, NEW p \in Process, Begin(p)
    PROVE  Consistent'
<1> USE DEF At
<1>1. TypeOK /\ KnowsRegistry(p) /\ KnowsFiles(p)
  BY DEF Typed, Consistent
<1>2. registry' = registry /\ files' = files /\ At(p, "idle")
  BY DEF Begin
<1>3. registry[p] = None
  BY <1>1, <1>2 DEF KnowsRegistry, Fresh
<1>4. KnowsRegistry(p)'
  BY <1>1, <1>2, <1>3, BeginEffect DEF KnowsRegistry, Fresh
<1>5. \A d \in Doc, f \in Format : files[<<d, f>>] # p
  BY <1>1, <1>2 DEF KnowsFiles
<1>6. KnowsFiles(p)' /\ LetGo(p)'
  BY <1>1, <1>2, <1>5, BeginEffect DEF KnowsFiles, LetGo
<1>7. \A q \in Process : q # p => work'[q] = work[q]
  BY <1>1, BeginEffect
<1>8. \A q \in Process : q # p => KnowsRegistry(q)' /\ KnowsFiles(q)' /\ LetGo(q)'
  BY <1>2, <1>7 DEF Consistent, KnowsRegistry, KnowsFiles, LetGo, Called, Fresh, Early
<1>9. Matching'
  <2> SUFFICES ASSUME NEW d \in Doc, registry[d] # None
               PROVE  \/ files[Stored(d)] = registry[d].rev
                      \/ \E q \in Process : OnTheWay(q, Stored(d))'
    BY <1>2 DEF Matching, Stored
  <2>1. \/ files[Stored(d)] = registry[d].rev
        \/ \E q \in Process : OnTheWay(q, Stored(d))
    BY DEF Consistent, Matching
  <2>2. Stored(d)' = Stored(d)
    BY <1>2 DEF Stored
  <2>3. \A q \in Process : OnTheWay(q, Stored(d)) => q # p
    BY <1>1, <1>5, StoredTyped DEF OnTheWay, Stored
  <2> QED
    BY <1>2, <1>7, <2>1, <2>2, <2>3 DEF OnTheWay
<1>10. NoneGone'
  BY <1>2 DEF Consistent, NoneGone, Stored
<1> QED
  BY <1>4, <1>6, <1>8, <1>9, <1>10 DEF Consistent

\* The steps of a call that leave the registry and the files alone.
LEMMA QuietConsistent ==
    ASSUME Typed, Consistent, NEW p \in Process,
           \/ Acquire(p)
           \/ Judge(p)
           \/ Break(p)
           \/ Refused(p)
           \/ Release(p)
           \/ Load(p)
           \/ Killed(p)
    PROVE  Consistent'
<1> USE DEF At
<1>1. /\ TypeOK /\ Prepared(p) /\ KnowsRegistry(p) /\ KnowsFiles(p)
      /\ registry' = registry /\ files' = files
  BY DEF Typed, Consistent, Acquire, Judge, Break, Refused, Release, Load, Killed
<1>2. /\ Called(p) /\ Called(p)'
      /\ \A q \in Process : q # p => work'[q] = work[q]
      /\ work'[p].op = work[p].op /\ work'[p].doc = work[p].doc
      /\ work'[p].format = work[p].format /\ work'[p].wrote = work[p].wrote
      /\ work'[p].at \in {"lock", "break", "load", "release", "refused", "done", "dead",
                          "move", "write"}
      /\ Early(p)' => Early(p)
      /\ work'[p].at \in {"move", "write"} => Early(p) /\ work'[p].read = registry
      /\ work'[p].at = "write" => work[p].op \notin {"register", "replace"}
  <2>1. CASE Judge(p) \/ Release(p)
    BY <1>1, <2>1, JudgeEffect, ReleaseEffect DEF Judge, Release, Early
  <2>2. CASE Load(p)
    <3>1. /\ work'[p].at \in {"release", "move", "write"}
          /\ work'[p].at = "write" => work[p].op \notin {"register", "replace"}
      BY <1>1, <2>2, LoadEffect
    <3>2. Early(p)
      BY <2>2 DEF Load, Early
    <3> QED
      BY <1>1, <2>2, <3>1, <3>2, LoadEffect
  <2>3. ASSUME \/ Acquire(p)
               \/ Break(p)
               \/ Refused(p)
               \/ Killed(p)
        PROVE  /\ Called(p) /\ \E at \in {"lock", "load", "refused", "dead"} : To(p, at)
               /\ Early(p) \/ To(p, "dead")
    BY <1>1, <2>3, MovesOn DEF Acquire, Break, Refused, Killed, Early
  <2>4. CASE Acquire(p) \/ Break(p) \/ Refused(p) \/ Killed(p)
    BY <1>1, <2>3, <2>4, Moved DEF Early
  <2> QED
    BY <2>1, <2>2, <2>4
<1>3. KnowsRegistry(p)'
  <2>1. ~At(p, "idle")
    BY <1>2, IdleIsNoCall
  <2> QED
    BY <1>1, <1>2, <2>1 DEF KnowsRegistry, Fresh
<1>4. KnowsFiles(p)' /\ LetGo(p)'
  BY <1>1, <1>2 DEF KnowsFiles, LetGo
<1>5. \A k : OnTheWay(p, k) => OnTheWay(p, k)'
  BY <1>1, <1>2 DEF OnTheWay
<1> QED
  BY <1>1, <1>2, <1>3, <1>4, <1>5, FilesAlone

LEMMA MoveConsistent ==
    ASSUME Typed, Exclusive, Consistent, NEW p \in Process, Move(p)
    PROVE  Consistent'
<1> USE DEF At
<1> DEFINE k == <<work[p].doc, work[p].format>>
<1>1. /\ TypeOK /\ Prepared(p) /\ KnowsRegistry(p) /\ KnowsFiles(p)
      /\ At(p, "move") /\ registry' = registry /\ files' = [files EXCEPT ![k] = p]
  BY DEF Typed, Consistent, Move
<1>2. /\ Called(p) /\ work'[p].at = "write"
      /\ \A q \in Process : q # p => work'[q] = work[q]
      /\ work'[p].op = work[p].op /\ work'[p].doc = work[p].doc
      /\ work'[p].format = work[p].format /\ work'[p].wrote = work[p].wrote
      /\ work'[p].read = work[p].read
  BY <1>1, MovesOn, Moved DEF Move
<1>3. /\ k \in Doc \X Format /\ work[p].op \in {"register", "replace"} /\ ~work[p].wrote
      /\ work[p].read = registry
  BY <1>1, <1>2 DEF Prepared, Called, Call, KnowsRegistry, Early
<1>4. /\ files'[k] = p
      /\ \A j \in Doc \X Format : j # k => files'[j] = files[j]
  BY <1>1, <1>3 DEF TypeOK
<1>5. \A d \in Doc, f \in Format : files[<<d, f>>] # p
  BY <1>1 DEF KnowsFiles, Early
<1>6. \A q \in Process : q # p => ~Inside(q)
  BY <1>1, OtherOut DEF Inside
<1>7. KnowsRegistry(p)' /\ LetGo(p)'
  <2>1. Called(p)' => Called(p)
    BY <1>2
  <2> QED
    BY <1>1, <1>2, <1>3, <2>1 DEF KnowsRegistry, Fresh, LetGo
<1>8. KnowsFiles(p)'
  <2>1. \A d \in Doc, f \in Format : files'[<<d, f>>] = p => <<d, f>> = k
    BY <1>4, <1>5
  <2> QED
    BY <1>2, <1>4, <2>1 DEF KnowsFiles, Early
<1>9. ASSUME NEW q \in Process, q # p
      PROVE  KnowsRegistry(q)' /\ KnowsFiles(q)' /\ LetGo(q)'
  <2>1. ~Inside(q) /\ work'[q] = work[q] /\ KnowsRegistry(q) /\ KnowsFiles(q)
    BY <1>2, <1>6, <1>9 DEF Consistent
  <2>2. KnowsRegistry(q)' /\ LetGo(q)'
    BY <1>1, <2>1 DEF KnowsRegistry, Called, Fresh, Early, LetGo, Inside
  <2>3. \A d \in Doc, f \in Format : files'[<<d, f>>] = q => files[<<d, f>>] = q
    BY <1>4, <1>9
  <2> QED
    BY <2>1, <2>2, <2>3 DEF KnowsFiles, Early, Inside
<1> HIDE DEF k
<1>10. NoneGone'
  <2> SUFFICES ASSUME NEW d \in Doc, registry[d] # None
               PROVE  files'[Stored(d)] # None
    BY <1>1 DEF NoneGone, Stored
  <2>1. Stored(d) \in Doc \X Format /\ files[Stored(d)] # None
    BY <1>1, StoredTyped DEF Consistent, NoneGone
  <2> QED
    BY <1>4, <2>1 DEF Revision
<1>11. Matching'
  <2> SUFFICES ASSUME NEW d \in Doc, registry[d] # None
               PROVE  \/ files'[Stored(d)] = registry[d].rev
                      \/ \E q \in Process : OnTheWay(q, Stored(d))'
    BY <1>1 DEF Matching, Stored
  <2>1. Stored(d) \in Doc \X Format /\ Stored(d)' = Stored(d)
    BY <1>1, StoredTyped DEF Stored
  <2>2. CASE Stored(d) = k
    <3>1. d = work[p].doc
      BY <2>2 DEF Stored, k
    <3>2. work[p].op = "replace"
      BY <1>1, <1>2, <1>3, <3>1 DEF Prepared, KnowsRegistry, Fresh
    <3>3. OnTheWay(p, Stored(d))'
      BY <1>2, <1>3, <1>4, <2>1, <2>2, <3>2 DEF OnTheWay
    <3> QED
      BY <3>3
  <2>3. CASE Stored(d) # k
    <3>1. files'[Stored(d)] = files[Stored(d)]
      BY <1>4, <2>1, <2>3
    <3>2. \A q \in Process : OnTheWay(q, Stored(d)) => OnTheWay(q, Stored(d))'
      BY <1>2, <2>1, <3>1 DEF OnTheWay
    <3> QED
      BY <3>1, <3>2 DEF Consistent, Matching
  <2> QED
    BY <2>2, <2>3
<1> QED
  BY <1>7, <1>8, <1>9, <1>10, <1>11 DEF Consistent

\* A step of a call that has the lock to itself and takes files away that no record
\* names.
LEMMA RemovedConsistent ==
    ASSUME Typed, Exclusive, Consistent, NEW p \in Process, NEW R \in SUBSET (Doc \X Format),
           Inside(p), ~Early(p), To(p, "release"), registry' = registry,
           \A k \in Doc \X Format : files'[k] = IF k \in R THEN None ELSE files[k],
           \A d \in Doc : registry[d] # None => Stored(d) \notin R
    PROVE  Consistent'
<1> USE DEF At
<1>1. /\ TypeOK /\ KnowsRegistry(p) /\ KnowsFiles(p) /\ ~At(p, "idle")
  BY DEF Typed, Consistent, Inside
<1>2. /\ Called(p) /\ work'[p].at = "release"
      /\ \A q \in Process : q # p => work'[q] = work[q]
      /\ work'[p].op = work[p].op /\ work'[p].doc = work[p].doc
      /\ work'[p].format = work[p].format /\ work'[p].wrote = work[p].wrote
  BY <1>1, CalledUnlessIdle, Moved
<1>3. \A q \in Process : q # p => ~Inside(q)
  BY OtherOut
<1>4. \A q \in Process, d \in Doc, f \in Format : files'[<<d, f>>] = q => files[<<d, f>>] = q
  <2> TAKE q \in Process, d \in Doc, f \in Format
  <2>1. <<d, f>> \in Doc \X Format /\ q # None
    BY DEF Revision
  <2> QED
    BY <2>1
<1>5. KnowsRegistry(p)' /\ LetGo(p)' /\ KnowsFiles(p)'
  BY <1>1, <1>2, <1>4 DEF KnowsRegistry, Fresh, LetGo, KnowsFiles, Early
<1>6. ASSUME NEW q \in Process, q # p
      PROVE  KnowsRegistry(q)' /\ KnowsFiles(q)' /\ LetGo(q)'
  <2>1. ~Inside(q) /\ work'[q] = work[q] /\ KnowsRegistry(q) /\ KnowsFiles(q)
    BY <1>2, <1>3, <1>6 DEF Consistent
  <2>2. KnowsRegistry(q)' /\ LetGo(q)'
    BY <2>1 DEF KnowsRegistry, Called, Fresh, Early, LetGo, Inside
  <2> QED
    BY <1>4, <2>1, <2>2 DEF KnowsFiles, Early, Inside
<1>7. ASSUME NEW d \in Doc, registry[d] # None
      PROVE  /\ Stored(d)' = Stored(d) /\ files'[Stored(d)] = files[Stored(d)]
             /\ \A q \in Process : OnTheWay(q, Stored(d)) => OnTheWay(q, Stored(d))'
  <2>1. Stored(d) \in Doc \X Format /\ Stored(d)' = Stored(d) /\ Stored(d) \notin R
    BY <1>1, <1>7, StoredTyped DEF Stored
  <2>2. files'[Stored(d)] = files[Stored(d)]
    BY <2>1
  <2> QED
    BY <1>2, <2>1, <2>2 DEF OnTheWay
<1>8. NoneGone'
  <2> SUFFICES ASSUME NEW d \in Doc, registry[d] # None
               PROVE  files'[Stored(d)'] # None
    BY DEF NoneGone
  <2> QED
    BY <1>7 DEF Consistent, NoneGone
<1>9. Matching'
  <2> SUFFICES ASSUME NEW d \in Doc, registry[d] # None
               PROVE  \/ files'[Stored(d)'] = registry[d].rev
                      \/ \E q \in Process : OnTheWay(q, Stored(d))'
    BY DEF Matching
  <2> QED
    BY <1>7 DEF Consistent, Matching
<1> QED
  BY <1>5, <1>6, <1>8, <1>9 DEF Consistent

LEMMA WriteFailsConsistent ==
    ASSUME Typed, Exclusive, Consistent, NEW p \in Process, WriteFails(p)
    PROVE  Consistent'
<1>1. /\ TypeOK /\ Prepared(p) /\ KnowsRegistry(p) /\ At(p, "write") /\ To(p, "release")
      /\ registry' = registry /\ Inside(p) /\ ~Early(p)
  BY DEF Typed, Consistent, WriteFails, At, Inside, Early
<1>2. Called(p) /\ DOMAIN files = Doc \X Format
  BY <1>1, CalledUnlessIdle DEF At, TypeOK
<1>3. CASE work[p].op = "register"
  <2>1. work[p].doc = p /\ registry[p] = None /\ work[p].format \in Format /\ p \in Doc
    BY <1>1, <1>2, <1>3 DEF Prepared, KnowsRegistry, Fresh, Doc
  <2> DEFINE R == {<<p, work[p].format>>}
  <2>2. files' = [files EXCEPT ![<<p, work[p].format>>] = None] /\ R \in SUBSET (Doc \X Format)
    BY <1>3, <2>1 DEF WriteFails
  <2>3. \A k \in Doc \X Format : files'[k] = IF k \in R THEN None ELSE files[k]
    BY <1>2, <2>2
  <2>4. \A d \in Doc : registry[d] # None => Stored(d) \notin R
    BY <2>1 DEF Stored
  <2> QED
    BY <1>1, <2>2, <2>3, <2>4, RemovedConsistent
<1>4. CASE work[p].op # "register"
  <2>1. files' = files
    BY <1>4 DEF WriteFails
  <2> QED
    BY <1>1, <2>1, RemovedConsistent
<1> QED
  BY <1>3, <1>4

LEMMA UnlinkConsistent ==
    ASSUME Typed, Exclusive, Consistent, NEW p \in Process, Unlink(p)
    PROVE  Consistent'
<1>1. /\ TypeOK /\ Prepared(p) /\ LetGo(p) /\ At(p, "unlink") /\ To(p, "release")
      /\ registry' = registry /\ Inside(p) /\ ~Early(p)
      /\ files' = [k \in DOMAIN files |-> IF k \in Leftover(p) THEN None ELSE files[k]]
  BY DEF Typed, Consistent, Unlink, At, Inside, Early
<1>2. Called(p) /\ DOMAIN files = Doc \X Format
  BY <1>1, CalledUnlessIdle DEF At, TypeOK
<1>3. /\ work[p].doc \in Doc /\ work[p].read[work[p].doc] \in Record
      /\ work[p].op # "register"
  BY <1>1, <1>2 DEF Prepared, At, Called, Call, Registry, LetGo
<1>4. Leftover(p) \in SUBSET (Doc \X Format)
  BY <1>3 DEF Leftover, Record
<1>5. \A d \in Doc : registry[d] # None => Stored(d) \notin Leftover(p)
  BY <1>1 DEF LetGo, Leftover, Stored
<1>6. \A k \in Doc \X Format : files'[k] = IF k \in Leftover(p) THEN None ELSE files[k]
  BY <1>1, <1>2
<1> QED
  BY <1>1, <1>4, <1>5, <1>6, RemovedConsistent

LEMMA WriteConsistent ==
    ASSUME Typed, Exclusive, Consistent, NEW p \in Process, Write(p)
    PROVE  Consistent'
<1> USE DEF At
<1> DEFINE doc == work[p].doc
           new == Changed(p)
<1>1. /\ TypeOK /\ Prepared(p) /\ KnowsRegistry(p) /\ KnowsFiles(p)
      /\ At(p, "write") /\ files' = files /\ work[p].read = registry
  BY DEF Typed, Consistent, Write, KnowsRegistry
<1>2. /\ Called(p) /\ work'[p].at = IF Leftover(p) = {} THEN "release" ELSE "unlink"
      /\ \A q \in Process : q # p => work'[q] = work[q]
      /\ work'[p].op = work[p].op /\ work'[p].doc = doc
      /\ work'[p].format = work[p].format /\ work'[p].wrote = TRUE
      /\ work'[p].read = work[p].read
  BY <1>1, WriteEffect
<1>3. /\ doc \in Doc /\ registry'[doc] = new
      /\ \A d \in Doc : d # doc => registry'[d] = registry[d]
      /\ work[p].op \in Op
  BY <1>1, WriteRegistry, ChangedTyped DEF Called, Call
<1>4. /\ work[p].op \in {"register", "replace"} =>
            new # None /\ new.rev = p /\ new.format = work[p].format
      /\ work[p].op \in {"update", "meta"} =>
            /\ new # None /\ new.rev = registry[doc].rev
            /\ new.format = registry[doc].format /\ registry[doc] # None
      /\ work[p].op = "delete" => new = None
      /\ work[p].op # "register" => registry[doc] # None
  <2>1. work[p].op # "register" => registry[doc] # None
    BY <1>1, <1>2 DEF Prepared
  <2> HIDE DEF new
  <2> QED
    BY <1>1, <2>1, ChangedTyped DEF new
<1> HIDE DEF new
<1>5. work'[p].at \in {"release", "unlink"}
  BY <1>2
<1>6. KnowsRegistry(p)' /\ KnowsFiles(p)'
  <2>1. Called(p)' => Called(p)
    BY <1>2
  <2> QED
    BY <1>1, <1>2, <1>5, <2>1 DEF KnowsRegistry, KnowsFiles, Fresh, Early
<1>7. LetGo(p)'
  <2> SUFFICES ASSUME Leftover(p) # {}
               PROVE  LetGo(p)'
    BY <1>2 DEF LetGo
  <2>1. \/ work[p].op = "delete"
        \/ work[p].op = "replace" /\ registry[doc].format # work[p].format
    BY <1>1 DEF Leftover
  <2> QED
    BY <1>1, <1>2, <1>3, <1>4, <2>1 DEF LetGo
<1>8. ASSUME NEW q \in Process, q # p
      PROVE  KnowsRegistry(q)' /\ KnowsFiles(q)' /\ LetGo(q)'
  <2>1. ~Inside(q) /\ work'[q] = work[q] /\ KnowsRegistry(q) /\ KnowsFiles(q) /\ q \in Doc
    BY <1>1, <1>2, <1>8, OtherOut DEF Consistent, Inside, Doc
  <2>2. registry[q] = None => registry'[q] = None
    <3>1. CASE doc = q
      <4>1. work[p].op # "register"
        BY <1>1, <1>2, <1>8, <3>1 DEF Prepared
      <4> QED
        BY <1>4, <3>1, <4>1
    <3>2. CASE doc # q
      BY <1>3, <2>1, <3>2
    <3> QED
      BY <3>1, <3>2
  <2>3. KnowsRegistry(q)' /\ LetGo(q)'
    BY <2>1, <2>2 DEF KnowsRegistry, Called, Fresh, Early, LetGo, Inside
  <2> QED
    BY <1>1, <2>1, <2>3 DEF KnowsFiles, Early
<1>9. ASSUME NEW d \in Doc, registry'[d] # None
      PROVE  /\ files'[Stored(d)'] # None
             /\ \/ files'[Stored(d)'] = registry'[d].rev
                \/ \E q \in Process : OnTheWay(q, Stored(d))'
  <2>1. CASE d = doc /\ work[p].op \in {"register", "replace"}
    <3>1. Stored(d)' = <<doc, work[p].format>>
      BY <1>3, <1>4, <2>1 DEF Stored
    <3>2. files'[Stored(d)'] = p /\ registry'[d].rev = p /\ p # None
      BY <1>1, <1>3, <1>4, <2>1, <3>1 DEF KnowsFiles, Revision
    <3> QED
      BY <3>2
  <2>2. ASSUME registry[d] # None, Stored(d)' = Stored(d), registry'[d].rev = registry[d].rev,
               ~OnTheWay(p, Stored(d))
        PROVE  /\ files'[Stored(d)'] # None
               /\ \/ files'[Stored(d)'] = registry'[d].rev
                  \/ \E q \in Process : OnTheWay(q, Stored(d))'
    <3>1. \A q \in Process : OnTheWay(q, Stored(d)) => OnTheWay(q, Stored(d))'
      BY <1>1, <1>2, <2>2 DEF OnTheWay
    <3> QED
      BY <1>1, <2>2, <3>1 DEF Consistent, NoneGone, Matching
  <2>3. CASE d = doc /\ work[p].op \notin {"register", "replace"}
    <3>1. work[p].op \in {"update", "meta"}
      BY <1>3, <1>4, <1>9, <2>3 DEF Op
    <3>2. Stored(d)' = Stored(d) /\ registry'[d].rev = registry[d].rev /\ registry[d] # None
      BY <1>3, <1>4, <2>3, <3>1 DEF Stored
    <3> QED
      BY <2>2, <3>1, <3>2 DEF OnTheWay
  <2>4. CASE d # doc
    <3>1. registry'[d] = registry[d] /\ Stored(d)' = Stored(d)
      BY <1>3, <2>4 DEF Stored
    <3>2. ~OnTheWay(p, Stored(d))
      BY <1>1, <1>9, <2>4, <3>1, StoredTyped DEF OnTheWay, KnowsFiles, Stored
    <3> QED
      BY <1>9, <2>2, <3>1, <3>2
  <2> QED
    BY <2>1, <2>3, <2>4
<1>10. NoneGone' /\ Matching'
  BY <1>9 DEF NoneGone, Matching
<1> QED
  BY <1>6, <1>7, <1>8, <1>10 DEF Consistent

LEMMA InitConsistent ==
    ASSUME Init
    PROVE  Exclusive /\ Consistent
<1>1. PICK format \in Format, busy \in BOOLEAN :
        /\ registry = [d \in Doc |->
                IF d \in Existing
                THEN [rev |-> d, format |-> format, busy |-> busy, enabled |-> TRUE] ELSE None]
        /\ files = [k \in Doc \X Format |->
                    IF k[1] \in Existing /\ k[2] = format THEN k[1] ELSE None]
  BY DEF Init
<1>2. lock = None /\ \A p \in Process : At(p, "idle")
  BY DEF Init, At, Idle
<1>3. Exclusive
  BY <1>2 DEF Exclusive, Inside, At
<1>4. ASSUME NEW p \in Process
      PROVE  KnowsRegistry(p) /\ KnowsFiles(p) /\ LetGo(p)
  <2>1. p \in Doc /\ p \notin Existing /\ p # None
    BY DEF Doc, Revision
  <2>2. registry[p] = None /\ \A d \in Doc, f \in Format : files[<<d, f>>] # p
    BY <1>1, <2>1
  <2>3. ~Called(p)
    BY <1>2, IdleIsNoCall
  <2> QED
    BY <1>2, <2>2, <2>3 DEF KnowsRegistry, KnowsFiles, LetGo, At, Early
<1>5. ASSUME NEW d \in Doc, registry[d] # None
      PROVE  files[Stored(d)] = registry[d].rev /\ registry[d].rev # None
  <2>1. /\ d \in Existing /\ registry[d].rev = d /\ Stored(d) = <<d, format>>
    BY <1>1, <1>5 DEF Stored
  <2> QED
    BY <1>1, <2>1 DEF Revision
<1> QED
  BY <1>3, <1>4, <1>5 DEF Consistent, NoneGone, Matching

LEMMA StepConsistent ==
    ASSUME Typed, Exclusive, Consistent, NEW p \in Process, Step(p)
    PROVE  Consistent'
<1>1. CASE Begin(p)
  BY <1>1, BeginConsistent
<1>2. ASSUME \/ Acquire(p)
             \/ Judge(p)
             \/ Break(p)
             \/ Refused(p)
             \/ Release(p)
             \/ Load(p)
             \/ Killed(p)
      PROVE  Consistent'
  BY <1>2, QuietConsistent
<1>3. CASE Move(p)
  BY <1>3, MoveConsistent
<1>4. CASE Write(p)
  BY <1>4, WriteConsistent
<1>5. CASE WriteFails(p)
  BY <1>5, WriteFailsConsistent
<1>6. CASE Unlink(p)
  BY <1>6, UnlinkConsistent
<1> QED
  BY <1>1, <1>2, <1>3, <1>4, <1>5, <1>6 DEF Step

LEMMA NextConsistent ==
    ASSUME ~Slow, RegistryInv, [Next]_vars
    PROVE  RegistryInv'
<1>1. Typed' /\ Typed
  BY NextTyped DEF RegistryInv
<1>2. CASE Overtaken
  BY <1>1, <1>2, OvertakenStays DEF RegistryInv
<1>3. ASSUME ~Overtaken
      PROVE  Exclusive' /\ Consistent'
  <2>1. Exclusive /\ Consistent
    BY <1>3 DEF RegistryInv
  <2>2. CASE UNCHANGED vars
    BY <2>1, <2>2 DEF vars, Exclusive, Consistent, Inside, Holds, At, KnowsRegistry, KnowsFiles, LetGo,
                      NoneGone, Matching, Fresh, Early, Called, Stored, OnTheWay
  <2>3. CASE Age
    <3>1. /\ lock # None /\ lock' # None /\ lock'.by = lock.by /\ At(lock.by, "dead")
          /\ work' = work /\ registry' = registry /\ files' = files
      <4>1. lock \in Lock /\ lock' = [lock EXCEPT !.aged = TRUE]
        BY <1>1, <2>3 DEF Age, Typed, TypeOK
      <4>2. lock' \in Lock /\ lock'.by = lock.by
        BY <4>1 DEF Lock
      <4> QED
        BY <2>3, <4>2 DEF Age
    <3>2. Exclusive'
      BY <2>1, <3>1 DEF Exclusive, Inside, Holds, At
    <3>3. Consistent'
      BY <2>1, <3>1 DEF Consistent, At, KnowsRegistry, KnowsFiles, LetGo,
                        NoneGone, Matching, Fresh, Early, Called, Stored, OnTheWay
    <3> QED
      BY <3>2, <3>3
  <2>4. ASSUME NEW p \in Process, Step(p)
        PROVE  Exclusive' /\ Consistent'
    BY <1>1, <1>3, <2>1, <2>4, StepExclusive, StepConsistent
  <2> QED
    BY <2>2, <2>3, <2>4 DEF Next
<1> QED
  BY <1>1, <1>2, <1>3 DEF RegistryInv

LEMMA RegistryAlways ==
    ASSUME ~Slow
    PROVE  Spec => []RegistryInv
<1>1. Init => RegistryInv
  BY InitTyped, InitConsistent DEF RegistryInv
<1>2. RegistryInv /\ [Next]_vars => RegistryInv'
  BY NextConsistent
<1> QED
  BY <1>1, <1>2, PTL DEF Spec

\* A record never names a file that is not there, for any number of processes,
\* documents and formats, as long as no living call keeps the lock for 30 seconds.
THEOREM BytesStayCorrect ==
    ASSUME ~Slow
    PROVE  Spec => []BytesStay
<1>1. RegistryInv => BytesStay
  BY DEF RegistryInv, Consistent, NoneGone, BytesStay
<1> QED
  BY <1>1, RegistryAlways, PTL

\* The bytes are those of the record's revision, or of a replacement in the same
\* format that did not come to write the registry.
THEOREM BytesAreTheRecordsCorrect ==
    ASSUME ~Slow
    PROVE  Spec => []BytesAreTheRecords
<1>1. RegistryInv => BytesAreTheRecords
  BY DEF RegistryInv, Consistent, Matching, BytesAreTheRecords, OnTheWay
<1> QED
  BY <1>1, RegistryAlways, PTL

\* A call changes the registry that it has read, and not one that another has changed
\* since.
THEOREM UpdatesCorrect ==
    ASSUME ~Slow
    PROVE  Spec => NoUpdateLost
<1> DEFINE Kept == registry' # registry =>
                      Overtaken \/ \E p \in Process : At(p, "write") /\ work[p].read = registry
<1>1. RegistryInv /\ [Next]_vars => [Kept]_vars
  <2> SUFFICES ASSUME RegistryInv, [Next]_vars, registry' # registry, ~Overtaken
               PROVE  \E p \in Process : At(p, "write") /\ work[p].read = registry
    OBVIOUS
  <2>1. PICK p \in Process : Write(p)
    BY DEF Next, Step, vars, Age, Begin, Acquire, Judge, Break, Refused, Release, Load, Move,
           WriteFails, Unlink, Killed
  <2>2. At(p, "write") /\ KnowsRegistry(p)
    BY <2>1 DEF Write, RegistryInv, Consistent
  <2> QED
    BY <2>2 DEF KnowsRegistry, At
<1> QED
  BY <1>1, RegistryAlways, PTL DEF Spec, NoUpdateLost

=============================================================================
