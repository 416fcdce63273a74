------------------------ MODULE ChromaPublishProofs ------------------------
(***************************************************************************)
(* Proofs about ChromaPublish, for any sets of versions and readers, when  *)
(* the build lock admits one publish at a time (Concurrent = FALSE).       *)
(***************************************************************************)
EXTENDS ChromaPublish, TLAPS

USE PublishConstants

(***************************************************************************)
(* Type correctness                                                        *)
(***************************************************************************)

LEMMA InitTypeOK == Init => TypeOK
  BY DEF Init, TypeOK, Phase, ActivePhase, ReaderRecord, IdleReader, Absent, Entry, Part

LEMMA PublishTypeOK ==
  ASSUME TypeOK, NEW v \in Version, PublishStep(v)
  PROVE  TypeOK'
<1> USE DEF TypeOK, Phase, ActivePhase
<1>1. CASE Start(v)
  BY <1>1 DEF Start, Part
<1>2. CASE WriteStaging(v)
  BY <1>2 DEF WriteStaging, Part
<1>3. CASE Rename(v)
  BY <1>3 DEF Rename, Absent
<1>4. CASE RenameRefused(v)
  BY <1>4 DEF RenameRefused
<1>5. CASE CopyPart(v)
  BY <1>5 DEF CopyPart
<1>6. CASE CopyDone(v)
  BY <1>6 DEF CopyDone, Absent
<1>7. CASE Flip(v)
  BY <1>7 DEF Flip, Removable
<1>8. CASE Done(v)
  BY <1>8 DEF Done
<1>9. ASSUME NEW e \in Entry, RemovePart(v, e) PROVE TypeOK'
  BY <1>9 DEF RemovePart, Entry, Without, Absent
<1>10. ASSUME NEW e \in Entry, NextEntry(v, e) PROVE TypeOK'
  BY <1>10 DEF NextEntry
<1>11. CASE Fail(v)
  BY <1>11 DEF Fail, Absent
<1>12. CASE Crash(v)
  BY <1>12 DEF Crash
<1>13. CASE Age(v)
  BY <1>13 DEF Age
<1> QED
  BY <1>1, <1>2, <1>3, <1>4, <1>5, <1>6, <1>7, <1>8, <1>9, <1>10, <1>11, <1>12, <1>13
  DEF PublishStep

LEMMA LoadTypeOK ==
  ASSUME TypeOK, NEW r \in Reader, LoadStep(r)
  PROVE  TypeOK'
<1> USE DEF TypeOK, ReaderRecord
<1>1. CASE ReadPointer(r)
  BY <1>1 DEF ReadPointer, publishVars
<1>2. CASE CheckVersion(r)
  BY <1>2 DEF CheckVersion, StepTo, publishVars
<1>3. CASE OpenClient(r)
  BY <1>3 DEF OpenClient, StepTo, Part
<1>4. CASE ReadManifest(r)
  BY <1>4 DEF ReadManifest, StepTo, publishVars
<1>5. CASE EndLoad(r)
  BY <1>5 DEF EndLoad, IdleReader, publishVars
<1> QED
  BY <1>1, <1>2, <1>3, <1>4, <1>5 DEF LoadStep

\* Every variable keeps its type, under every fault and any concurrency.
THEOREM PublishTyped == Spec => []TypeOK
<1>1. TypeOK /\ [Next]_vars => TypeOK'
  <2> SUFFICES ASSUME TypeOK, [Next]_vars PROVE TypeOK'
    OBVIOUS
  <2>1. CASE UNCHANGED vars
    BY <2>1 DEF TypeOK, vars
  <2>2. CASE Next
    BY <2>2, PublishTypeOK, LoadTypeOK DEF Next
  <2> QED
    BY <2>1, <2>2
<1> QED
  BY InitTypeOK, <1>1, PTL DEF Spec

(***************************************************************************)
(* current.json names a whole version.  The invariant says why: only the   *)
(* publish that owns a directory writes to it, the version being published *)
(* is whole before the pointer moves, and what a GC removes is never the   *)
(* version the pointer names, because no other publish is under way.       *)
(***************************************************************************)
PastFlip == {"collecting", "done", "dead"}

OnePublish == \A v, w \in Version : Publishing(v) /\ Publishing(w) => v = w
WholeBeforeFlip ==
    \A v \in Version :
        /\ phase[v] = "copying" => staging[v] = Part
        /\ phase[v] = "flipping" => versions[v] = Part
GarbageIsOld ==
    \A v \in Version :
        phase[v] = "collecting" =>
            pointer = v /\ [kind |-> "version", of |-> v] \notin garbage[v]
PublishedWasFlipped ==
    /\ \A v \in published : phase[v] \in PastFlip
    /\ pointer # None => pointer \in published

PublishInv ==
    /\ TypeOK /\ OnePublish /\ WholeBeforeFlip /\ GarbageIsOld
    /\ PublishedWasFlipped /\ PointerNamesWhole

LEMMA InitPublishInv == Init => PublishInv
  BY InitTypeOK DEF Init, PublishInv, OnePublish, WholeBeforeFlip, GarbageIsOld,
     PublishedWasFlipped, PointerNamesWhole, Publishing, ActivePhase

LEMMA PublishKeepsInv ==
  ASSUME Concurrent = FALSE, PublishInv, NEW v \in Version, PublishStep(v)
  PROVE  PublishInv'
<1> USE DEF PublishInv, OnePublish, WholeBeforeFlip, GarbageIsOld, PublishedWasFlipped,
        PointerNamesWhole, Publishing, ActivePhase, PastFlip
<1>0. TypeOK'
  BY PublishTypeOK
<1> USE <1>0
<1>1. CASE Start(v)
  BY <1>1 DEF Start, TypeOK
<1>2. CASE WriteStaging(v)
  BY <1>2 DEF WriteStaging, TypeOK
<1>3. CASE Rename(v)
  BY <1>3 DEF Rename, TypeOK
<1>4. CASE RenameRefused(v)
  BY <1>4 DEF RenameRefused, TypeOK
<1>5. CASE CopyPart(v)
  BY <1>5 DEF CopyPart, TypeOK
<1>6. CASE CopyDone(v)
  <2>1. staging[v] = Part /\ staging[v] \subseteq versions[v]
    BY <1>6 DEF CopyDone
  <2>2. versions[v] \subseteq Part
    BY DEF TypeOK
  <2>3. versions[v] = Part
    BY <2>1, <2>2, Zenon
  <2> QED
    BY <1>6, <2>3 DEF CopyDone, TypeOK
<1>7. CASE Flip(v)
  <2>1. [kind |-> "version", of |-> v] \notin Removable(v)
    BY DEF Removable
  <2> QED
    BY <1>7, <2>1 DEF Flip, TypeOK
<1>8. CASE Done(v)
  BY <1>8 DEF Done, TypeOK
<1>9. ASSUME NEW e \in Entry, RemovePart(v, e) PROVE PublishInv'
  <2>1. phase[v] = "collecting" /\ pointer = v
    BY <1>9 DEF RemovePart
  <2>2. e.kind = "version" => e.of # v
    BY <1>9, <2>1 DEF RemovePart, Entry
  <2>3. \A w \in Version : phase[w] \notin {"copying", "flipping"}
    BY <2>1 DEF TypeOK
  <2>4. versions'[v] = versions[v]
    BY <1>9, <2>2 DEF RemovePart, TypeOK, Entry
  <2> QED
    BY <1>9, <2>1, <2>3, <2>4 DEF RemovePart, TypeOK
<1>10. ASSUME NEW e \in Entry, NextEntry(v, e) PROVE PublishInv'
  BY <1>10 DEF NextEntry, TypeOK
<1>11. CASE Fail(v)
  BY <1>11 DEF Fail, TypeOK
<1>12. CASE Crash(v)
  BY <1>12 DEF Crash, TypeOK
<1>13. CASE Age(v)
  BY <1>13 DEF Age, TypeOK
<1> QED
  BY <1>1, <1>2, <1>3, <1>4, <1>5, <1>6, <1>7, <1>8, <1>9, <1>10, <1>11, <1>12, <1>13
  DEF PublishStep

LEMMA LoadKeepsInv ==
  ASSUME PublishInv, NEW r \in Reader, LoadStep(r)
  PROVE  PublishInv'
<1> USE DEF PublishInv, OnePublish, WholeBeforeFlip, GarbageIsOld, PublishedWasFlipped,
        PointerNamesWhole, Publishing
<1>0. TypeOK'
  BY LoadTypeOK
<1>1. CASE OpenClient(r)
  <2>1. \A v \in Version : versions[v] = Part => versions'[v] = Part
    BY <1>1 DEF OpenClient, TypeOK, ReaderRecord, Part
  <2> QED
    BY <1>0, <1>1, <2>1 DEF OpenClient, TypeOK
<1>2. CASE ReadPointer(r) \/ CheckVersion(r) \/ ReadManifest(r) \/ EndLoad(r)
  BY <1>0, <1>2 DEF ReadPointer, CheckVersion, ReadManifest, EndLoad, publishVars
<1> QED
  BY <1>1, <1>2 DEF LoadStep

LEMMA PublishInvInductive ==
  ASSUME Concurrent = FALSE
  PROVE  PublishInv /\ [Next]_vars => PublishInv'
<1> SUFFICES ASSUME PublishInv, [Next]_vars PROVE PublishInv'
  OBVIOUS
<1>1. CASE UNCHANGED vars
  BY <1>1 DEF vars, PublishInv, TypeOK, OnePublish, WholeBeforeFlip, GarbageIsOld,
     PublishedWasFlipped, PointerNamesWhole, Publishing
<1>2. CASE Next
  BY <1>2, PublishKeepsInv, LoadKeepsInv DEF Next
<1> QED
  BY <1>1, <1>2

\* If the build lock keeps builds apart, current.json never names a version
\* that is missing or half written, whatever crashes, failures and refusals
\* of the file system occur.
THEOREM PublishIsAtomic ==
  ASSUME Concurrent = FALSE
  PROVE  Spec => []PointerNamesWhole
<1>1. PublishInv => PointerNamesWhole
  BY DEF PublishInv
<1> QED
  BY InitPublishInv, PublishInvInductive, <1>1, PTL DEF Spec

(***************************************************************************)
(* Readers.  A version is current only once, so a reader that has seen a   *)
(* version fail can never meet it as the current one again.                *)
(***************************************************************************)
ReadersSawPublished ==
    \A r \in Reader :
        /\ reader[r].version \in published \cup {None}
        /\ reader[r].step \in {"pointed", "checked", "opened"} => reader[r].version # None

ReaderInv == PublishInv /\ ReadersSawPublished /\ FailedLoadWasOvertaken

LEMMA InitReaderInv == Init => ReaderInv
  BY InitPublishInv DEF Init, ReaderInv, ReadersSawPublished, FailedLoadWasOvertaken, IdleReader

LEMMA PublishKeepsReaderInv ==
  ASSUME Concurrent = FALSE, ReaderInv, NEW v \in Version, PublishStep(v)
  PROVE  ReaderInv'
<1>1. PublishInv'
  BY PublishKeepsInv DEF ReaderInv
<1>2. reader' = reader
  BY DEF PublishStep, Start, WriteStaging, Rename, RenameRefused, CopyPart, CopyDone, Flip,
     Done, RemovePart, NextEntry, Fail, Crash, Age
<1>3. CASE Flip(v)
  <2>1. v \notin published
    BY <1>3 DEF Flip, ReaderInv, PublishInv, PublishedWasFlipped, PastFlip
  <2> QED
    BY <1>1, <1>2, <1>3, <2>1
    DEF Flip, ReaderInv, ReadersSawPublished, FailedLoadWasOvertaken
<1>4. CASE ~Flip(v)
  <2>1. pointer' = pointer /\ published' = published
    BY <1>4 DEF PublishStep, Start, WriteStaging, Rename, RenameRefused, CopyPart, CopyDone,
       Done, RemovePart, NextEntry, Fail, Crash, Age
  <2> QED
    BY <1>1, <1>2, <2>1 DEF ReaderInv, ReadersSawPublished, FailedLoadWasOvertaken
<1> QED
  BY <1>3, <1>4

LEMMA LoadKeepsReaderInv ==
  ASSUME ReaderInv, NEW r \in Reader, LoadStep(r)
  PROVE  ReaderInv'
<1>0. PublishInv' /\ TypeOK
  BY LoadKeepsInv DEF ReaderInv, PublishInv
<1>1. pointer' = pointer /\ published' = published
  BY DEF LoadStep, ReadPointer, CheckVersion, OpenClient, ReadManifest, EndLoad, publishVars
<1>2. reader \in [Reader -> ReaderRecord]
  BY <1>0 DEF TypeOK
<1>3. reader[r].version = pointer /\ pointer # None => versions[reader[r].version] = Part
  BY DEF ReaderInv, PublishInv, PointerNamesWhole
<1> USE DEF ReaderInv, ReadersSawPublished, FailedLoadWasOvertaken, ReaderRecord, Part
<1>4. CASE ReadPointer(r)
  BY <1>0, <1>1, <1>2, <1>4 DEF ReadPointer, PublishInv, PublishedWasFlipped
<1>5. CASE CheckVersion(r)
  BY <1>0, <1>1, <1>2, <1>3, <1>5 DEF CheckVersion, StepTo
<1>6. CASE OpenClient(r)
  BY <1>0, <1>1, <1>2, <1>3, <1>6 DEF OpenClient, StepTo
<1>7. CASE ReadManifest(r)
  BY <1>0, <1>1, <1>2, <1>3, <1>7 DEF ReadManifest, StepTo
<1>8. CASE EndLoad(r)
  BY <1>0, <1>1, <1>2, <1>8 DEF EndLoad, IdleReader
<1> QED
  BY <1>4, <1>5, <1>6, <1>7, <1>8 DEF LoadStep

LEMMA ReaderInvInductive ==
  ASSUME Concurrent = FALSE
  PROVE  ReaderInv /\ [Next]_vars => ReaderInv'
<1> SUFFICES ASSUME ReaderInv, [Next]_vars PROVE ReaderInv'
  OBVIOUS
<1>1. CASE UNCHANGED vars
  <2>1. PublishInv'
    BY <1>1, PublishInvInductive DEF ReaderInv
  <2> QED
    BY <1>1, <2>1 DEF vars, ReaderInv, ReadersSawPublished, FailedLoadWasOvertaken
<1>2. CASE Next
  BY <1>2, PublishKeepsReaderInv, LoadKeepsReaderInv DEF Next
<1> QED
  BY <1>1, <1>2

\* A search that cannot load the index although one was published has been
\* overtaken by a newer one: trying again meets a whole version.
THEOREM FailedLoadsAreOvertaken ==
  ASSUME Concurrent = FALSE
  PROVE  Spec => []FailedLoadWasOvertaken
<1>1. ReaderInv => FailedLoadWasOvertaken
  BY DEF ReaderInv
<1> QED
  BY InitReaderInv, ReaderInvInductive, <1>1, PTL DEF Spec

(***************************************************************************)
(* Refinement.  Only Flip moves the abstract index; loads map one to one,  *)
(* their steps in the middle of a load are stuttering steps.               *)
(***************************************************************************)
LEMMA InitRefines == Init => Abstract!Init
  BY DEF Init, Abstract!Init, View, IdleReader

LEMMA PublishRefines ==
  ASSUME ReaderInv, NEW v \in Version, PublishStep(v)
  PROVE  [Abstract!Next]_(Abstract!vars)
<1>1. [r \in Reader |-> View(r)]' = [r \in Reader |-> View(r)]
  BY DEF PublishStep, Start, WriteStaging, Rename, RenameRefused, CopyPart, CopyDone, Flip,
     Done, RemovePart, NextEntry, Fail, Crash, Age, View
<1>2. CASE Flip(v)
  <2>1. v \notin published
    BY <1>2 DEF Flip, ReaderInv, PublishInv, PublishedWasFlipped, PastFlip
  <2>2. Abstract!Publish(v)
    BY <1>1, <1>2, <2>1 DEF Flip, Abstract!Publish
  <2> QED
    BY <2>2 DEF Abstract!Next
<1>3. CASE ~Flip(v)
  <2>1. pointer' = pointer /\ published' = published
    BY <1>3 DEF PublishStep, Start, WriteStaging, Rename, RenameRefused, CopyPart, CopyDone,
       Done, RemovePart, NextEntry, Fail, Crash, Age
  <2> QED
    BY <1>1, <2>1 DEF Abstract!vars
<1> QED
  BY <1>2, <1>3

LEMMA LoadRefines ==
  ASSUME ReaderInv, ReaderInv', NEW r \in Reader, LoadStep(r)
  PROVE  [Abstract!Next]_(Abstract!vars)
<1> DEFINE view == [q \in Reader |-> View(q)]
<1>1. pointer' = pointer /\ published' = published
  BY DEF LoadStep, ReadPointer, CheckVersion, OpenClient, ReadManifest, EndLoad, publishVars
<1>2. reader \in [Reader -> ReaderRecord]
  BY DEF ReaderInv, PublishInv, TypeOK
<1>3. \A q \in Reader : q # r => View(q)' = View(q)
  BY <1>2 DEF LoadStep, ReadPointer, CheckVersion, OpenClient, ReadManifest, EndLoad, StepTo, View
<1>4. view' = [view EXCEPT ![r] = View(r)']
  BY <1>3
<1>5. CASE ReadPointer(r)
  <2>1. View(r)' = [state |-> IF pointer = None THEN "failed" ELSE "loading",
                    version |-> pointer]
    BY <1>2, <1>5 DEF ReadPointer, View
  <2>2. view[r].state = "idle"
    BY <1>5 DEF ReadPointer, View
  <2>3. Abstract!Look(r)
    BY <1>1, <1>4, <2>1, <2>2 DEF Abstract!Look
  <2> QED
    BY <2>3 DEF Abstract!Next
<1>6. CASE LoadStep(r) /\ reader[r].step \in {"pointed", "checked", "opened"}
  <2>1. View(r) = [state |-> "loading", version |-> reader[r].version]
    BY <1>6 DEF View
  <2>2. /\ reader'[r].version = reader[r].version
        /\ reader'[r].step \in {"checked", "opened", "loaded", "failed"}
    BY <1>2, <1>6 DEF LoadStep, ReadPointer, CheckVersion, OpenClient, ReadManifest, EndLoad,
       StepTo, ReaderRecord
  <2>3. CASE reader'[r].step \in {"checked", "opened"}
    <3>1. View(r)' = View(r)
      BY <2>1, <2>2, <2>3 DEF View
    <3>2. view' = view
      BY <1>4, <3>1
    <3> QED
      BY <1>1, <3>2 DEF Abstract!vars
  <2>4. CASE reader'[r].step = "loaded"
    <3>1. View(r)' = [view[r] EXCEPT !.state = "loaded"]
      BY <2>1, <2>2, <2>4 DEF View
    <3>2. Abstract!Load(r)
      BY <1>1, <1>4, <2>1, <3>1 DEF Abstract!Load
    <3> QED
      BY <3>2 DEF Abstract!Next
  <2>5. CASE reader'[r].step = "failed"
    <3>1. View(r)' = [view[r] EXCEPT !.state = "failed"]
      BY <2>1, <2>2, <2>5 DEF View
    <3>2. reader[r].version # None
      BY <1>6 DEF ReaderInv, ReadersSawPublished
    <3>3. reader[r].version # pointer
      BY <1>1, <2>2, <2>5, <3>2 DEF ReaderInv, FailedLoadWasOvertaken
    <3>4. Abstract!LoseTrack(r)
      BY <1>1, <1>4, <2>1, <3>1, <3>3 DEF Abstract!LoseTrack
    <3> QED
      BY <3>4 DEF Abstract!Next
  <2> QED
    BY <2>2, <2>3, <2>4, <2>5
<1>7. CASE EndLoad(r)
  <2>1. View(r)' = [state |-> "idle", version |-> None]
    BY <1>2, <1>7 DEF EndLoad, View, IdleReader
  <2>2. view[r].state \in {"loaded", "failed"}
    BY <1>7 DEF EndLoad, View
  <2>3. Abstract!Leave(r)
    BY <1>1, <1>4, <2>1, <2>2 DEF Abstract!Leave
  <2> QED
    BY <2>3 DEF Abstract!Next
<1> QED
  BY <1>5, <1>6, <1>7 DEF LoadStep, CheckVersion, OpenClient, ReadManifest

\* Publish, GC and load together implement the abstract index.
THEOREM PublishImplementsAtomicIndex ==
  ASSUME Concurrent = FALSE
  PROVE  Spec => ImplementsAtomicIndex
<1>1. ReaderInv /\ ReaderInv' /\ [Next]_vars => [Abstract!Next]_(Abstract!vars)
  <2> SUFFICES ASSUME ReaderInv, ReaderInv', [Next]_vars
               PROVE  [Abstract!Next]_(Abstract!vars)
    OBVIOUS
  <2>1. CASE UNCHANGED vars
    BY <2>1 DEF vars, Abstract!vars, View
  <2>2. CASE Next
    BY <2>2, PublishRefines, LoadRefines DEF Next
  <2> QED
    BY <2>1, <2>2
<1> QED
  BY InitReaderInv, ReaderInvInductive, InitRefines, <1>1, PTL
  DEF Spec, ImplementsAtomicIndex, Abstract!Spec

=============================================================================
