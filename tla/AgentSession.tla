---------------------------- MODULE AgentSession ----------------------------
(***************************************************************************)
(* One session of the agent and everything that may happen to it at once:  *)
(* turns, summary jobs, decisions about memory candidates, the memory page *)
(* and deletion.  Each client serves one request, of any kind, one         *)
(* database call per step; a process may be killed between two of them.    *)
(***************************************************************************)
EXTENDS Memory

CONSTANT
    Past          \* bound: candidates that earlier turns may have left

ASSUME PastIsCandidates ==
    \A rows \in Past :
        /\ rows \in Seq(CandidateRow) /\ Len(rows) <= MaxCandidates
        /\ \A i \in DOMAIN rows : rows[i].id = i /\ rows[i].status = "pending"

vars == <<session, messages, lastId, collections, candidates, longterm, work, jobs>>

\* n finished turns, the first row preceded by rows of other sessions.
PastRows(n, gap) ==
    [i \in 1..2 * n |-> [id |-> gap + i, by |-> None,
                         role |-> IF i % 2 = 1 THEN "user" ELSE "assistant"]]

\* A session at rest: new, or with n turns behind it, their scope and prompt
\* fixed and the first k of their rows summarised.
AtRest(n, gap, home, failures, k) ==
    LET rows == PastRows(n, gap)
        scope == IF n = 0 THEN None ELSE IF home = None THEN {} ELSE {home}
    IN  /\ k = 0 \/ k <= 2 * n - Keep
        /\ failures = 0 \/ n > 0
        /\ session = [exists |-> TRUE, home |-> home, scope |-> scope, prompt |-> scope,
             upto |-> IF k = 0 THEN 0 ELSE rows[k].id,
             folded |-> {rows[i].id : i \in 1..k}, cut |-> {}, failures |-> failures]
        /\ messages = rows
        /\ lastId = gap + 2 * n
        /\ collections = Collection
        /\ candidates \in Past
        /\ longterm = Empty
        /\ work = [c \in Client |-> Idle]
        /\ jobs \in IF n = 0 THEN {0} ELSE 0..MaxJobs

Init ==
    \E n \in 0..MaxPast, gap \in Gap, home \in Home,
       failures \in {0, MaxFailures - 1}, k \in 0..2 * MaxPast :
        AtRest(n, gap, home, failures, k)

Next == \E c \in Client : ConversationStep(c) \/ (MemoryStep(c) /\ UNCHANGED jobs)

Spec == Init /\ [][Next]_vars

(***************************************************************************)
(* Properties                                                              *)
(***************************************************************************)
Work ==
    {Idle, Finished} \cup TurnWork \cup JobWork \cup ConfirmWork
        \cup RejectWork \cup EditWork

\* Every table holds rows of its type and a session's messages come in the
\* order of their ids.
TypeOK ==
    /\ session \in SessionRow
    /\ messages \in Seq(MessageRow)
    /\ \A i, j \in DOMAIN messages : i < j => messages[i].id < messages[j].id
    /\ lastId \in Nat /\ \A i \in DOMAIN messages : messages[i].id <= lastId
    /\ collections \subseteq Collection
    /\ candidates \in Seq(CandidateRow)
    /\ longterm \in [Kind -> [Key -> Value]]
    /\ work \in [Client -> Work]
    /\ jobs \in 0..MaxJobs

\* Of the messages up to the summary's bound, its text was made from all but
\* those a transcript had no room for, whichever of several jobs stored last and
\* whatever was stored while it worked: SessionSummaryService reads text and
\* bound together and stores them together.
SummaryMissesOnlyTheCut ==
    session.exists =>
        {i \in Ids(messages) : i <= session.upto} \subseteq session.folded \cup session.cut

\* What summary.py says of it: "the summary covers everything older than" the
\* newest messages, up to its bound.
SummaryHoldsItsTurns ==
    session.exists =>
        {i \in Ids(messages) : i <= session.upto} \subseteq session.folded

\* Finding nothing new to fold in is no failure: one is counted only after a call
\* of the model, or when another job has moved the bound since this one planned.
OnlyCallsFail ==
    [][session'.failures > session.failures =>
         \E c \in Client : /\ At(c, "summary", "failed")
                           /\ work[c].called \/ work[c].from # work[c].seen]_vars

\* Turns that found the session undecided and have set its scope.
FirstTurns ==
    {c \in Client : /\ work[c].op = "turn" /\ work[c].at # "load"
                    /\ work[c].row # None /\ work[c].row.scope = None
                    /\ work[c].scope # None}

\* A turn searches the material its session is locked to, and the frozen prompt
\* declares the same, unless two turns were the session's first at once.
OneScope ==
    \/ \E c, d \in FirstTurns : c # d
    \/ ~session.exists
    \/ /\ \A c \in Client :
            work[c].op = "turn" /\ work[c].scope # None
                => work[c].scope = session.scope
       /\ session.prompt # None => session.prompt = session.scope

\* A turn's prompt does not show the question among the earlier messages unless
\* another turn's row had come after it: _build_messages drops the newest row.
AskedOnce ==
    \A c \in Client :
        work[c].op = "turn" /\ work[c].question \in work[c].history
            => \/ ~session.exists
               \/ \E i \in DOMAIN messages :
                    messages[i].by # c /\ messages[i].id > work[c].question

\* A confirmed candidate has been written to the long-term record, by a request
\* that is there to tell, unless the record had no place for it: the status is
\* set last and only if still pending, however confirms, rejects, edits and
\* deaths of the process interleave.
ConfirmedHasLanded ==
    \A i \in DOMAIN candidates :
        candidates[i].status = "confirmed" =>
            \E c \in Client : /\ work[c].op = "confirm"
                              /\ \E row \in work[c].rows :
                                   /\ row.id = i
                                   /\ \/ i \in work[c].written
                                      \/ ~Lands(row.kind, row.field, work[c].home)

\* What was decided about a candidate is never decided again: of a confirm and
\* a reject at once, the first to mark it wins.
DecisionIsFinal ==
    [][\A i \in DOMAIN candidates :
         candidates[i].status # "pending" =>
            candidates'[i].status \in {candidates[i].status, "deleted"}]_vars

\* A write to the profile or to a progress changes no field but the ones it was
\* given, unless the record has changed since the writer read it: the record is
\* stored whole, and what another writer has stored in between is lost.
WritesOnlyItsFields ==
    [][\A kind \in {"profile", "progress"}, f \in Key :
         longterm'[kind][f] # longterm[kind][f] =>
            \E c \in Client : /\ work[c].at = "write" /\ work'[c].at # "write"
                              /\ f \in Given(work[c]) \/ work[c].read # longterm[kind]]_vars

\* A failure is counted beyond the budget only for a summary the user forced or
\* by a job whose look at the budget another one has overtaken: run_summary calls
\* no model once MAX_SUMMARY_FAILURES have been counted.
BudgetHolds ==
    [][session'.failures > session.failures /\ session'.failures > MaxFailures =>
         \E c \in Client : /\ At(c, "summary", "failed")
                           /\ work[c].force \/ work[c].failures # session.failures]_vars

=============================================================================
