------------------------------- MODULE Memory -------------------------------
(***************************************************************************)
(* The learner's memory: the candidates the model proposes in a session,   *)
(* and the long-term record they are written to once the user has agreed.  *)
(* A confirm reads the pending rows, writes one after the other and marks  *)
(* them last; a profile or progress is written by reading the record and   *)
(* storing it whole.                                                       *)
(***************************************************************************)
EXTENDS Conversation

CONSTANT
    MaxCandidates    \* bound: candidates ever proposed

\* "topic" stands for keys the record has no column for: a profile takes them
\* as "goal", a progress not at all.
Kind == {"profile", "progress", "preference"}
Field == {"goal", "focus"}
Key == Field \cup {"topic"}

\* Values are named by the candidate or the request that brought them.
Value == Nat \cup Client \cup {None}
CandidateRow ==
    [id: Nat, kind: Kind, field: Key, value: Value, status: Status]

NoValue == [f \in Key |-> None]
Empty == [k \in Kind |-> NoValue]

\* The column a candidate is written to, and whether there is one.
Column(kind, key) == IF kind = "preference" \/ key \in Field THEN key ELSE "goal"
Lands(kind, key, home) ==
    \/ kind \in {"profile", "preference"}
    \/ kind = "progress" /\ home # None /\ key \in Field

ConfirmWork ==
    [op: {"confirm"}, at: {"pending", "next", "write", "mark", "done"},
     home: Collection \cup {None}, asked: SUBSET Nat,
     rows: SUBSET CandidateRow, todo: SUBSET CandidateRow,
     item: CandidateRow \cup {None}, read: [Key -> Value], written: SUBSET Nat]
RejectWork == [op: {"reject"}, at: {"mark", "done"}, ids: SUBSET Nat]
EditWork ==
    [op: {"edit"}, at: {"write", "done"}, kind: {"profile", "progress"},
     fields: SUBSET Field, read: [Key -> Value]]

Confirming(home, todo) ==
    [op |-> "confirm", at |-> "pending", home |-> home, asked |-> todo, rows |-> {},
     todo |-> {}, item |-> None, read |-> NoValue, written |-> {}]

Marked(w) == {row.id : row \in w.rows}

\* memory_note in a turn: a pending candidate, or, when the user asked for it
\* in so many words, one that is confirmed at once.
Note(c) ==
    /\ work[c] = Idle /\ session.exists
    /\ Len(candidates) < MaxCandidates
    /\ \E kind \in Kind, key \in Key, explicit \in BOOLEAN :
         LET id == Len(candidates) + 1
         IN  /\ AddCandidate(kind, key)
             /\ work' = [work EXCEPT ![c] =
                  IF explicit /\ (kind # "progress" \/ session.home # None)
                  THEN Confirming(session.home, {id}) ELSE Finished]
    /\ UNCHANGED <<session, messages, lastId, collections, longterm>>

\* POST /memory/confirm, for some of the candidates or for all.
StartConfirm(c) ==
    /\ work[c] = Idle /\ session.exists
    /\ \E asked \in SUBSET DOMAIN candidates :
         work' = [work EXCEPT ![c] = Confirming(session.home, asked)]
    /\ UNCHANGED tables

\* Mutant of ReadPending: the candidates are marked before they are written.
ReadPendingAndMark(c) ==
    /\ At(c, "confirm", "pending")
    /\ LET rows == {candidates[i] : i \in Pending \cap work[c].asked}
       IN  /\ MarkCandidates({row.id : row \in rows}, "confirmed")
           /\ With(c, [work[c] EXCEPT !.todo = rows, !.rows = rows],
                   IF rows = {} THEN "done" ELSE "next")
    /\ UNCHANGED <<session, messages, lastId, collections, longterm>>

ReadPending(c) ==
    /\ At(c, "confirm", "pending")
    /\ LET rows == {candidates[i] : i \in Pending \cap work[c].asked}
       IN  With(c, [work[c] EXCEPT !.todo = rows, !.rows = rows],
                IF rows = {} THEN "done" ELSE "next")
    /\ UNCHANGED tables

\* The next candidate in id order: passed over, or on to its table.
NextItem(c) ==
    /\ At(c, "confirm", "next")
    /\ \/ work[c].todo = {} /\ To(c, "mark")
       \/ \E item \in work[c].todo :
            /\ \A other \in work[c].todo : item.id <= other.id
            /\ With(c, [work[c] EXCEPT !.todo = @ \ {item}, !.item = item,
                                       !.read = IF item.kind = "preference" THEN NoValue
                                                ELSE longterm[item.kind]],
                    IF Lands(item.kind, item.field, work[c].home) THEN "write" ELSE "next")
    /\ UNCHANGED tables

\* The fields a request is about to write.
Given(w) == IF w.op = "edit" THEN w.fields ELSE {Column(w.item.kind, w.item.field)}

WriteItem(c) ==
    /\ At(c, "confirm", "write")
    /\ LET w == work[c]
       IN  /\ WriteFields(w.item.kind, w.read, Given(w), w.item.value)
           /\ With(c, [w EXCEPT !.written = @ \cup {w.item.id}], "next")
    /\ UNCHANGED <<session, messages, lastId, collections, candidates>>

\* Every candidate that was pending is marked, the ones passed over included.
MarkConfirmed(c) ==
    /\ At(c, "confirm", "mark")
    /\ MarkCandidates(Marked(work[c]), "confirmed")
    /\ To(c, "done")
    /\ UNCHANGED <<session, messages, lastId, collections, longterm>>

StartReject(c) ==
    /\ work[c] = Idle /\ session.exists
    /\ \E asked \in SUBSET DOMAIN candidates :
         work' = [work EXCEPT ![c] =
            [op |-> "reject", at |-> "mark", ids |-> Pending \cap asked]]
    /\ UNCHANGED tables

MarkRejected(c) ==
    /\ At(c, "reject", "mark")
    /\ MarkCandidates(work[c].ids, "rejected")
    /\ To(c, "done")
    /\ UNCHANGED <<session, messages, lastId, collections, longterm>>

\* The memory page: PATCH profile or progress, PUT or DELETE a preference,
\* and the entries themselves -- a row changes or goes, what it has written stays.
StartEdit(c) ==
    /\ work[c] = Idle
    /\ \E kind \in {"profile", "progress"}, fields \in SUBSET Field :
         work' = [work EXCEPT ![c] =
            [op |-> "edit", at |-> "write", kind |-> kind, fields |-> fields,
             read |-> longterm[kind]]]
    /\ UNCHANGED tables

WriteEdit(c) ==
    /\ At(c, "edit", "write")
    /\ WriteFields(work[c].kind, work[c].read, work[c].fields, c)
    /\ To(c, "done")
    /\ UNCHANGED <<session, messages, lastId, collections, candidates>>

EditPreference(c) ==
    /\ work[c] = Idle
    /\ \E key \in Field :
         \/ WriteFields("preference", NoValue, {key}, c)
         \/ DropPreference(key)
    /\ work' = [work EXCEPT ![c] = Finished]
    /\ UNCHANGED <<session, messages, lastId, collections, candidates>>

\* PATCH an entry: its key or its value, whatever its status.
EditEntry(c) ==
    /\ work[c] = Idle
    /\ \E i \in DOMAIN candidates : \E key \in Key, value \in {c, candidates[i].value} :
         /\ candidates[i].status # "deleted"
         /\ candidates' = [candidates EXCEPT ![i].field = key, ![i].value = value]
    /\ work' = [work EXCEPT ![c] = Finished]
    /\ UNCHANGED <<session, messages, lastId, collections, longterm>>

DeleteEntry(c) ==
    /\ work[c] = Idle
    /\ \E i \in DOMAIN candidates : candidates' = [candidates EXCEPT ![i].status = "deleted"]
    /\ work' = [work EXCEPT ![c] = Finished]
    /\ UNCHANGED <<session, messages, lastId, collections, longterm>>

MemoryStep(c) ==
    \/ Note(c) \/ StartConfirm(c) \/ ReadPending(c) \/ NextItem(c) \/ WriteItem(c)
    \/ MarkConfirmed(c) \/ StartReject(c) \/ MarkRejected(c)
    \/ StartEdit(c) \/ WriteEdit(c) \/ EditPreference(c)
    \/ EditEntry(c) \/ DeleteEntry(c)

=============================================================================
