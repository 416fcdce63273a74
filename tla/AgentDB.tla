------------------------------ MODULE AgentDB ------------------------------
(***************************************************************************)
(* The tables of data/app.db that a conversation touches, and the SQL      *)
(* statements on them.  Connections run in autocommit mode, so every       *)
(* statement is a transaction of its own and a method that calls several   *)
(* of them can be interleaved with every other request: the modules that   *)
(* extend this one take one step per database call.                        *)
(*                                                                         *)
(* One session is followed.  "work" holds what each request in flight has  *)
(* read so far, the local variables of its thread; a request that has      *)
(* ended keeps them, for the properties to look at.                        *)
(***************************************************************************)
EXTENDS Integers, Sequences, FiniteSets

CONSTANTS
    Client,       \* threads of the API and of the worker; each serves one request
    Collection,   \* ids of the collections that exist at the start
    Home,         \* collections a session may be bound to at creation, or None
    None          \* SQL's NULL

ASSUME HomesExist == Home \subseteq Collection \cup {None}

VARIABLES
    session,      \* its row of "sessions"
    messages,     \* its rows of "messages", oldest first
    lastId,       \* sqlite_sequence of "messages", shared by all sessions
    collections,  \* ids in "collections"
    candidates,   \* rows of "memory_candidates" by id; ids are never used twice
    longterm,     \* "user_profile", "learning_progress", "user_preferences"
    work          \* the requests in flight

tables == <<session, messages, lastId, collections, candidates, longterm>>

Scope == SUBSET Collection            \* {}: the whole library, on purpose

(***************************************************************************)
(* sessions                                                                *)
(***************************************************************************)
\* A frozen prompt is the material it declares; "folded" is what the text of the
\* summary was made from, "cut" (history) what its transcripts had no room for.
SessionRow ==
    [exists: BOOLEAN, home: Collection \cup {None},
     scope: Scope \cup {None}, prompt: Scope \cup {None},
     upto: Nat, folded: SUBSET Nat, cut: SUBSET Nat, failures: Nat]

ASSUME NoneIsNoValue ==
    /\ None \notin Client \cup Collection
    /\ \A ids \in Scope : ids # None
    /\ None \notin SessionRow

\* An UPDATE of a session that is gone changes nothing and says nothing.
UpdateSession(row) == session' = IF session.exists THEN row ELSE session

SetScope(ids) == UpdateSession([session EXCEPT !.scope = ids])
SetPrompt(ids) == UpdateSession([session EXCEPT !.prompt = ids])
SetSummary(folded, cut, upto) ==
    UpdateSession([session EXCEPT !.folded = folded, !.cut = cut, !.upto = upto])
BumpFailures == UpdateSession([session EXCEPT !.failures = @ + 1])
ResetFailures == UpdateSession([session EXCEPT !.failures = 0])

\* Both child tables declare ON DELETE CASCADE.
DropSession ==
    /\ session' = [session EXCEPT !.exists = FALSE]
    /\ messages' = <<>>
    /\ candidates' = [i \in DOMAIN candidates |->
                        [candidates[i] EXCEPT !.status = "deleted"]]

\* A session bound to the collection is detached, and keeps its scope.
DropCollection(k) ==
    /\ collections' = collections \ {k}
    /\ session' = [session EXCEPT !.home = IF @ = k THEN None ELSE @]

(***************************************************************************)
(* messages                                                                *)
(***************************************************************************)
MessageRow == [id: Nat, role: {"user", "assistant"}, by: Client \cup {None}]

\* Mutant of AppendMessage: ids count the rows of the session.
AppendNumbered(role, by) ==
    /\ lastId' = lastId + 1
    /\ messages' = Append(messages, [id |-> Len(messages) + 1, role |-> role, by |-> by])

AppendMessage(role, by) ==
    /\ lastId' = lastId + 1
    /\ messages' = Append(messages, [id |-> lastId + 1, role |-> role, by |-> by])

Newest(rows, n) == SubSeq(rows, IF Len(rows) > n THEN Len(rows) - n + 1 ELSE 1, Len(rows))
RecentMessages(n) == Newest(messages, n)

Ids(rows) == {rows[i].id : i \in DOMAIN rows}

(***************************************************************************)
(* memory                                                                  *)
(***************************************************************************)
Status == {"pending", "confirmed", "rejected", "deleted"}
Pending == {i \in DOMAIN candidates : candidates[i].status = "pending"}

AddCandidate(kind, field) ==
    LET id == Len(candidates) + 1
    IN  candidates' = Append(candidates, [id |-> id, kind |-> kind, field |-> field,
                                          value |-> id, status |-> "pending"])

\* Mutant of MarkCandidates: whatever the row says by now.
MarkAny(ids, status) ==
    candidates' = [i \in DOMAIN candidates |->
        IF i \in ids /\ candidates[i].status # "deleted"
        THEN [candidates[i] EXCEPT !.status = status] ELSE candidates[i]]

\* Only rows that are still pending are marked.
MarkCandidates(ids, status) ==
    candidates' = [i \in DOMAIN candidates |->
        IF i \in ids /\ candidates[i].status = "pending"
        THEN [candidates[i] EXCEPT !.status = status] ELSE candidates[i]]

\* Mutant of WriteFields: the other fields are not merged.
WriteFieldsAlone(kind, read, fields, value) ==
    longterm' = [longterm EXCEPT ![kind] =
        [f \in DOMAIN @ |-> IF f \in fields THEN value ELSE None]]

\* set_profile and set_progress write the whole record they read before, with
\* the fields they were given replaced; a preference is a row of its own.
WriteFields(kind, read, fields, value) ==
    LET rest == IF kind = "preference" THEN longterm[kind] ELSE read
    IN  longterm' = [longterm EXCEPT ![kind] =
            [f \in DOMAIN rest |-> IF f \in fields THEN value ELSE rest[f]]]

DropPreference(key) == longterm' = [longterm EXCEPT !["preference"][key] = None]

=============================================================================
