---------------------------- MODULE Conversation ----------------------------
(***************************************************************************)
(* What the requests of one session do to its row and its messages: a turn *)
(* from the route's check to the summary it may enqueue, the summary job   *)
(* and its manual twin, and deleting the session.  The loop of a turn is   *)
(* AgentTurn's; here it is one step that ends in an answer or in an        *)
(* exception.                                                              *)
(***************************************************************************)
EXTENDS AgentDB

CONSTANTS
    MaxPast,      \* bound: turns the session has behind it at the start
    Gap,          \* rows of other sessions that precede its first row
    Floor,        \* max(1, settings.history_turns * 2)
    Window,       \* max(Floor, 200)
    Keep,         \* SUMMARY_KEEP_RECENT_MESSAGES
    MaxFailures,  \* MAX_SUMMARY_FAILURES
    MaxJobs       \* bound: summary jobs waiting for the worker

ASSUME ConversationConstants ==
    /\ MaxPast \in Nat /\ Gap \subseteq Nat
    /\ Floor \in Nat \ {0} /\ Window \in Nat /\ Floor <= Window
    /\ Keep \in Nat \ {0} /\ MaxFailures \in Nat \ {0}
    /\ MaxJobs \in Nat

VARIABLE
    jobs          \* summary jobs of the session that wait in the broker

Idle == [op |-> "idle", at |-> "start"]
To(c, at) == work' = [work EXCEPT ![c].at = at]
With(c, w, at) == work' = [work EXCEPT ![c] = [w EXCEPT !.at = at]]
At(c, op, at) == work[c].op = op /\ work[c].at = at

(***************************************************************************)
(* A turn                                                                  *)
(***************************************************************************)
TurnWork ==
    [op: {"turn"},
     at: {"load", "scope", "ask", "prompt", "history", "reply", "after", "done"},
     ids: Scope, row: SessionRow \cup {None},
     scope: Scope \cup {None}, prompt: Scope \cup {None},
     question: Nat, history: SUBSET Nat, answered: BOOLEAN]

\* The route: ids that are going to decide are checked, those of a locked
\* session are passed on unseen.
StartTurn(c) ==
    /\ work[c] = Idle
    /\ \E ids \in Scope :
        /\ (session.exists /\ session.scope # None) \/ ids \subseteq collections
        /\ work' = [work EXCEPT ![c] =
             [op |-> "turn", at |-> "load", ids |-> ids, row |-> None, scope |-> None,
              prompt |-> None, question |-> 0, history |-> {}, answered |-> FALSE]]
    /\ UNCHANGED tables

\* get_session: the row the whole turn goes on with.
LoadSession(c) ==
    /\ At(c, "turn", "load")
    /\ IF session.exists THEN With(c, [work[c] EXCEPT !.row = session], "scope")
       ELSE To(c, "done")
    /\ UNCHANGED tables

\* What the request asks for, else the collection the session is bound to.
Requested(w) ==
    IF w.ids # {} \/ w.row.home = None THEN w.ids ELSE {w.row.home}

\* Mutant of LockScope: a request's own ids win over the session's.
LockScopeAnew(c) ==
    /\ At(c, "turn", "scope")
    /\ With(c, [work[c] EXCEPT !.scope = Requested(work[c])], "ask")
    /\ IF work[c].row.scope = None THEN SetScope(Requested(work[c])) ELSE UNCHANGED session
    /\ UNCHANGED <<messages, lastId, collections, candidates, longterm>>

\* The first turn decides the scope and locks it.
LockScope(c) ==
    /\ At(c, "turn", "scope")
    /\ LET w == work[c]
           used == IF w.row.scope = None THEN Requested(w) ELSE w.row.scope
       IN  /\ With(c, [w EXCEPT !.scope = used], "ask")
           /\ IF w.row.scope = None THEN SetScope(used) ELSE UNCHANGED session
    /\ UNCHANGED <<messages, lastId, collections, candidates, longterm>>

\* The row of a session that is gone violates its foreign key.
AskQuestion(c) ==
    /\ At(c, "turn", "ask")
    /\ IF session.exists
       THEN /\ AppendMessage("user", c)
            /\ With(c, [work[c] EXCEPT !.question = lastId + 1], "prompt")
       ELSE To(c, "done") /\ UNCHANGED <<messages, lastId>>
    /\ UNCHANGED <<session, collections, candidates, longterm>>

\* The prompt the session was born with, or the one this turn makes of its
\* scope.
FreezePrompt(c) ==
    /\ At(c, "turn", "prompt")
    /\ LET w == work[c]
       IN  IF w.row.prompt = None
           THEN SetPrompt(w.scope) /\ With(c, [w EXCEPT !.prompt = w.scope], "history")
           ELSE UNCHANGED session /\ With(c, [w EXCEPT !.prompt = w.row.prompt], "history")
    /\ UNCHANGED <<messages, lastId, collections, candidates, longterm>>

\* Mutant of BuildHistory: the question's own row stays.
BuildHistoryWhole(c) ==
    /\ At(c, "turn", "history")
    /\ \E n \in 0..Len(RecentMessages(Window)) :
         /\ n >= Floor \/ n = Len(RecentMessages(Window))
         /\ With(c, [work[c] EXCEPT !.history =
                Ids(Newest(RecentMessages(Window), n))], "reply")
    /\ UNCHANGED tables

\* The rows of the prompt: the newest that fit the budget and at least Floor of
\* them, less the last, which is taken for the question itself.
BuildHistory(c) ==
    /\ At(c, "turn", "history")
    /\ LET recent == RecentMessages(Window)
       IN  \E n \in 0..Len(recent) :
             /\ n >= Floor \/ n = Len(recent)
             /\ LET rows == Newest(recent, n)
                IN  With(c, [work[c] EXCEPT !.history =
                        Ids(IF n = 0 THEN rows ELSE SubSeq(rows, 1, n - 1))], "reply")
    /\ UNCHANGED tables

\* The loop ends: an answer or a failure text is stored, unless an exception
\* of the model, or of the foreign key, takes the turn with it.
Reply(c) ==
    /\ At(c, "turn", "reply")
    /\ \/ /\ session.exists
          /\ AppendMessage("assistant", c)
          /\ With(c, [work[c] EXCEPT !.answered = TRUE], "after")
       \/ To(c, "done") /\ UNCHANGED <<messages, lastId>>
    /\ UNCHANGED <<session, collections, candidates, longterm>>

\* summary_due: the window's oldest row lies beyond the summary's bound.
SummaryDue ==
    LET recent == RecentMessages(Window)
    IN  session.exists /\ Len(recent) > Floor /\ recent[1].id - 1 > session.upto

\* The check costs nothing; the job it enqueues may find nothing to do.  A broker
\* that cannot be reached takes no job, and the turn does not mind.
AfterTurn(c) ==
    /\ At(c, "turn", "after")
    /\ To(c, "done")
    /\ jobs' = IF SummaryDue /\ jobs < MaxJobs THEN jobs + 1 ELSE jobs
    /\ UNCHANGED tables

(***************************************************************************)
(* The summary                                                             *)
(***************************************************************************)
JobWork ==
    [op: {"summary"},
     at: {"budget", "rows", "plan", "previous", "turns", "generate", "store",
          "stored", "failed", "done"},
     force: BOOLEAN, failures: Nat, bound: Nat, seen: Nat, from: Nat,
     folded: SUBSET Nat, cut: SUBSET Nat, called: BOOLEAN]

Job(force) ==
    [op |-> "summary", at |-> "budget", force |-> force, failures |-> 0,
     bound |-> 0, seen |-> 0, from |-> 0, folded |-> {}, cut |-> {}, called |-> FALSE]

\* POST /compact, after its own look at the session.
StartCompact(c) ==
    /\ work[c] = Idle /\ session.exists
    /\ work' = [work EXCEPT ![c] = Job(TRUE)]
    /\ UNCHANGED tables

\* The worker takes a job some turn has enqueued; the broker forgets it.
StartJob(c) ==
    /\ work[c] = Idle /\ jobs > 0
    /\ jobs' = jobs - 1
    /\ work' = [work EXCEPT ![c] = Job(FALSE)]
    /\ UNCHANGED tables

\* Mutant of ReadBudget: the breaker never opens.
ReadNoBudget(c) ==
    /\ At(c, "summary", "budget")
    /\ With(c, [work[c] EXCEPT !.failures = session.failures], "rows")
    /\ UNCHANGED tables

ReadBudget(c) ==
    /\ At(c, "summary", "budget")
    /\ IF session.failures >= MaxFailures /\ ~work[c].force
       THEN To(c, "done")
       ELSE With(c, [work[c] EXCEPT !.failures = session.failures], "rows")
    /\ UNCHANGED tables

\* summary_boundary, first half: the row before the newest Keep.
PlanRows(c) ==
    /\ At(c, "summary", "rows")
    /\ IF Len(messages) <= Keep THEN To(c, "done")
       ELSE With(c, [work[c] EXCEPT !.bound = messages[Len(messages) - Keep].id], "plan")
    /\ UNCHANGED tables

\* Mutant of PlanBound: whatever the rows say is summarised.
PlanAnyBound(c) ==
    /\ At(c, "summary", "plan")
    /\ With(c, [work[c] EXCEPT !.seen = session.upto], "previous")
    /\ UNCHANGED tables

\* Second half: only what the summary does not cover yet is worth a call.
PlanBound(c) ==
    /\ At(c, "summary", "plan")
    /\ IF work[c].bound > session.upto
       THEN With(c, [work[c] EXCEPT !.seen = session.upto], "previous")
       ELSE To(c, "done")
    /\ UNCHANGED tables

\* build: text and bound of the previous summary come from one row.
ReadPrevious(c) ==
    /\ At(c, "summary", "previous")
    /\ With(c, [work[c] EXCEPT !.folded = IF session.exists THEN session.folded ELSE {},
                               !.cut = IF session.exists THEN session.cut ELSE {},
                               !.from = IF session.exists THEN session.upto ELSE 0], "turns")
    /\ UNCHANGED tables

\* Mutant of ReadTurns: the previous text is not extended but replaced.
ReadTurnsAfresh(c) ==
    /\ At(c, "summary", "turns")
    /\ With(c, [work[c] EXCEPT !.called = TRUE, !.folded =
           {i \in Ids(messages) : work[c].from < i /\ i <= work[c].bound}], "generate")
    /\ UNCHANGED tables

\* The transcript takes the rows between the two bounds, oldest first, until its
\* 6000 characters are full, which the first row alone may do; without any row
\* the job has failed.
ReadTurns(c) ==
    /\ At(c, "summary", "turns")
    /\ LET w == work[c]
           due == {i \in DOMAIN messages : w.from < messages[i].id /\ messages[i].id <= w.bound}
       IN  \E taken \in SUBSET due :
             /\ \A i \in taken, j \in due : j < i => j \in taken
             /\ taken = {} => due = {}
             /\ IF due = {} THEN To(c, "failed")
                ELSE With(c, [w EXCEPT !.folded = @ \cup {messages[i].id : i \in taken},
                                       !.cut = @ \cup {messages[i].id : i \in due \ taken},
                                       !.called = TRUE], "generate")
    /\ UNCHANGED tables

\* The model answers, or not, or with nothing.
Generate(c) ==
    /\ At(c, "summary", "generate")
    /\ To(c, "store") \/ To(c, "failed")
    /\ UNCHANGED tables

\* The text and its bound are stored together, over whatever is there.
StoreSummary(c) ==
    /\ At(c, "summary", "store")
    /\ SetSummary(work[c].folded, work[c].cut, work[c].bound)
    /\ To(c, "stored")
    /\ UNCHANGED <<messages, lastId, collections, candidates, longterm>>

CountOutcome(c) ==
    /\ \/ At(c, "summary", "stored") /\ ResetFailures
       \/ At(c, "summary", "failed") /\ BumpFailures
    /\ To(c, "done")
    /\ UNCHANGED <<messages, lastId, collections, candidates, longterm>>

(***************************************************************************)
(* Other requests                                                          *)
(***************************************************************************)
Finished == [op |-> "other", at |-> "done"]

DeleteSession(c) ==
    /\ work[c] = Idle /\ session.exists
    /\ DropSession
    /\ work' = [work EXCEPT ![c] = Finished]
    /\ UNCHANGED <<lastId, collections, longterm>>

DeleteCollection(c) ==
    /\ work[c] = Idle
    /\ \E k \in collections : DropCollection(k)
    /\ work' = [work EXCEPT ![c] = Finished]
    /\ UNCHANGED <<messages, lastId, candidates, longterm>>

\* A process that is killed leaves what its statements have written.
Killed(c) ==
    /\ work[c].at \notin {"start", "done"}
    /\ To(c, "done")
    /\ UNCHANGED tables

ConversationStep(c) ==
    \/ AfterTurn(c) \/ StartJob(c)
    \/ /\ \/ StartTurn(c) \/ LoadSession(c) \/ LockScope(c) \/ AskQuestion(c)
          \/ FreezePrompt(c) \/ BuildHistory(c) \/ Reply(c)
          \/ StartCompact(c) \/ ReadBudget(c) \/ PlanRows(c) \/ PlanBound(c)
          \/ ReadPrevious(c) \/ ReadTurns(c) \/ Generate(c) \/ StoreSummary(c)
          \/ CountOutcome(c) \/ DeleteSession(c) \/ DeleteCollection(c) \/ Killed(c)
       /\ UNCHANGED jobs

=============================================================================
