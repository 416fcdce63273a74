------------------------- MODULE AgentSessionProofs -------------------------
EXTENDS AgentSession, SequenceTheorems, TLAPS

USE NoneIsNoValue, HomesExist, ConversationConstants

\* What a request has read by the time it uses it.
Staged(w) ==
    /\ w.op = "turn" /\ w.at \in {"scope", "ask", "prompt"} => w.row \in SessionRow
    /\ w.op = "turn" /\ w.at \in {"ask", "prompt"} => w.scope \in Scope
    /\ w.op = "confirm" /\ w.at = "write" => w.item \in CandidateRow

Rows ==
    /\ session \in SessionRow
    /\ messages \in Seq(MessageRow)
    /\ \A i, j \in DOMAIN messages : i < j => messages[i].id < messages[j].id
    /\ lastId \in Nat /\ \A i \in DOMAIN messages : messages[i].id <= lastId
    /\ collections \subseteq Collection
    /\ candidates \in Seq(CandidateRow)
    /\ longterm \in [Kind -> [Key -> Value]]

TypeInv == TypeOK /\ \A c \in Client : Staged(work[c])

LEMMA RowsKept == Rows /\ UNCHANGED tables => Rows'
BY DEF Rows, tables

LEMMA Advance ==
    ASSUME TypeInv, NEW c \in Client, NEW w,
           work' = [work EXCEPT ![c] = w], w \in Work, Staged(w)
    PROVE  work' \in [Client -> Work] /\ \A d \in Client : Staged(work'[d])
BY DEF TypeInv, TypeOK

LEMMA TurnTyped ==
    ASSUME TypeInv, NEW c \in Client, work[c].op = "turn"
    PROVE  work[c] \in TurnWork
BY DEF TypeInv, TypeOK, Work, Idle, Finished, JobWork, ConfirmWork, RejectWork, EditWork

LEMMA JobTyped ==
    ASSUME TypeInv, NEW c \in Client, work[c].op = "summary"
    PROVE  work[c] \in JobWork
BY DEF TypeInv, TypeOK, Work, Idle, Finished, TurnWork, ConfirmWork, RejectWork, EditWork

LEMMA ConfirmTyped ==
    ASSUME TypeInv, NEW c \in Client, work[c].op = "confirm"
    PROVE  work[c] \in ConfirmWork
BY DEF TypeInv, TypeOK, Work, Idle, Finished, TurnWork, JobWork, RejectWork, EditWork

LEMMA RejectTyped ==
    ASSUME TypeInv, NEW c \in Client, work[c].op = "reject"
    PROVE  work[c] \in RejectWork
BY DEF TypeInv, TypeOK, Work, Idle, Finished, TurnWork, JobWork, ConfirmWork, EditWork

LEMMA EditTyped ==
    ASSUME TypeInv, NEW c \in Client, work[c].op = "edit"
    PROVE  work[c] \in EditWork
BY DEF TypeInv, TypeOK, Work, Idle, Finished, TurnWork, JobWork, ConfirmWork, RejectWork

LEMMA RowsOfType ==
    /\ TypeOK <=> Rows /\ work \in [Client -> Work] /\ jobs \in 0..MaxJobs
    /\ TypeOK' <=> Rows' /\ work' \in [Client -> Work] /\ jobs' \in 0..MaxJobs
BY DEF TypeOK, Rows

LEMMA StepKilled ==
    ASSUME TypeInv, NEW c \in Client, Killed(c), UNCHANGED jobs
    PROVE  TypeInv'
<1>1. Rows'
  BY RowsKept, RowsOfType DEF TypeInv, Killed
<1> DEFINE w == [work[c] EXCEPT !.at = "done"]
<1>2. work' = [work EXCEPT ![c] = w]
  BY DEF Killed, To, TypeInv, TypeOK
<1>3. work[c] \in TurnWork \cup JobWork \cup ConfirmWork \cup RejectWork \cup EditWork
  BY DEF TypeInv, TypeOK, Work, Killed, Idle, Finished
<1>4. w \in Work /\ Staged(w)
  BY <1>3 DEF Work, Staged, TurnWork, JobWork, ConfirmWork, RejectWork, EditWork
<1> HIDE DEF w
<1> QED
  BY <1>1, <1>2, <1>4, Advance, RowsOfType DEF TypeInv


LEMMA Moved ==
    ASSUME TypeInv, Rows', NEW c \in Client, NEW w, jobs' \in 0..MaxJobs,
           work' = [work EXCEPT ![c] = w], w \in Work, Staged(w)
    PROVE  TypeInv'
BY Advance, RowsOfType DEF TypeInv

LEMMA NewestTyped ==
    ASSUME NEW S, NEW rows \in Seq(S), NEW n \in Nat
    PROVE  Newest(rows, n) \in Seq(S)
BY DEF Newest

LEMMA StepStartTurn ==
    ASSUME TypeInv, NEW c \in Client, StartTurn(c), UNCHANGED jobs
    PROVE  TypeInv'
<1>1. PICK ids \in Scope :
        work' = [work EXCEPT ![c] =
          [op |-> "turn", at |-> "load", ids |-> ids, row |-> None, scope |-> None,
           prompt |-> None, question |-> 0, history |-> {}, answered |-> FALSE]]
  BY DEF StartTurn
<1> DEFINE w == [op |-> "turn", at |-> "load", ids |-> ids, row |-> None, scope |-> None,
                 prompt |-> None, question |-> 0, history |-> {}, answered |-> FALSE]
<1>2. w \in Work /\ Staged(w)
  BY DEF Work, TurnWork, Staged
<1>3. Rows' /\ jobs' \in 0..MaxJobs
  BY RowsKept, RowsOfType DEF TypeInv, StartTurn
<1> QED
  BY <1>1, <1>2, <1>3, Moved

LEMMA StepLoadSession ==
    ASSUME TypeInv, NEW c \in Client, LoadSession(c), UNCHANGED jobs
    PROVE  TypeInv'
<1>1. Rows' /\ jobs' \in 0..MaxJobs /\ session \in SessionRow
  BY RowsKept, RowsOfType DEF TypeInv, LoadSession, Rows
<1>2. work[c] \in TurnWork
  BY TurnTyped DEF LoadSession, At
<1>3. CASE session.exists
  <2> DEFINE w == [[work[c] EXCEPT !.row = session] EXCEPT !.at = "scope"]
  <2>1. w \in TurnWork /\ w.row = session /\ w.at = "scope" /\ w.op = "turn"
    BY <1>1, <1>2 DEF TurnWork
  <2>2. work' = [work EXCEPT ![c] = w]
    BY <1>3 DEF LoadSession, With
  <2> HIDE DEF w
  <2>3. w \in Work /\ Staged(w)
    BY <1>1, <2>1 DEF Work, Staged
  <2> QED
    BY <1>1, <2>2, <2>3, Moved
<1>4. CASE ~session.exists
  <2> DEFINE w == [work[c] EXCEPT !.at = "done"]
  <2>1. w \in TurnWork /\ w.at = "done" /\ w.op = "turn"
    BY <1>2 DEF TurnWork
  <2>2. work' = [work EXCEPT ![c] = w]
    BY <1>4, TypeInv DEF LoadSession, To, TypeInv, TypeOK
  <2> HIDE DEF w
  <2>3. w \in Work /\ Staged(w)
    BY <2>1 DEF Work, Staged
  <2> QED
    BY <1>1, <2>2, <2>3, Moved
<1> QED
  BY <1>3, <1>4

LEMMA ToTyped ==
    ASSUME TypeInv, Rows', NEW c \in Client, NEW at, To(c, at), jobs' \in 0..MaxJobs,
           [work[c] EXCEPT !.at = at] \in Work, Staged([work[c] EXCEPT !.at = at])
    PROVE  TypeInv'
BY Moved DEF To, TypeInv, TypeOK

LEMMA AppendTyped ==
    ASSUME Rows, NEW role \in {"user", "assistant"}, NEW by \in Client,
           AppendMessage(role, by), UNCHANGED <<session, collections, candidates, longterm>>
    PROVE  Rows' /\ lastId' = lastId + 1
<1> DEFINE row == [id |-> lastId + 1, role |-> role, by |-> by]
<1>1. /\ row \in MessageRow /\ row.id = lastId + 1
      /\ messages' = Append(messages, row) /\ lastId' = lastId + 1
  BY DEF AppendMessage, MessageRow, Rows
<1> HIDE DEF row
<1>2. /\ messages' \in Seq(MessageRow) /\ Len(messages') = Len(messages) + 1
      /\ \A i \in DOMAIN messages : messages'[i] = messages[i]
      /\ messages'[Len(messages) + 1] = row
      /\ DOMAIN messages = 1..Len(messages) /\ DOMAIN messages' = 1..(Len(messages) + 1)
      /\ Len(messages) \in Nat
  BY <1>1, AppendProperties DEF Rows
<1>3. \A i \in DOMAIN messages : messages[i].id \in Nat /\ messages[i].id <= lastId
  <2>1. messages \in Seq(MessageRow) /\ \A i \in DOMAIN messages : messages[i].id <= lastId
    BY DEF Rows
  <2>2. \A i \in DOMAIN messages : messages[i] \in MessageRow
    BY <2>1
  <2> QED
    BY <2>1, <2>2 DEF MessageRow
<1>4. \A i \in DOMAIN messages' : i \in DOMAIN messages \/ i = Len(messages) + 1
  BY <1>2
<1>5. lastId' \in Nat /\ \A i \in DOMAIN messages' : messages'[i].id <= lastId'
  BY <1>1, <1>2, <1>3, <1>4 DEF Rows
<1>6. ASSUME NEW i \in DOMAIN messages', NEW j \in DOMAIN messages', i < j
      PROVE  messages'[i].id < messages'[j].id
  <2>1. i \in DOMAIN messages
    BY <1>2, <1>6
  <2>2. CASE j \in DOMAIN messages
    BY <1>2, <1>6, <2>1, <2>2 DEF Rows
  <2>3. CASE j = Len(messages) + 1
    BY <1>1, <1>2, <1>3, <2>1, <2>3 DEF Rows
  <2> QED
    BY <1>4, <2>2, <2>3
<1> QED
  BY <1>1, <1>2, <1>5, <1>6 DEF Rows

LEMMA StepLockScope ==
    ASSUME TypeInv, NEW c \in Client, LockScope(c), UNCHANGED jobs
    PROVE  TypeInv'
<1> DEFINE used == IF work[c].row.scope = None THEN Requested(work[c]) ELSE work[c].row.scope
           w == [[work[c] EXCEPT !.scope = used] EXCEPT !.at = "ask"]
<1>1. work[c] \in TurnWork /\ work[c].row \in SessionRow
  BY TurnTyped DEF LockScope, At, TypeInv, Staged
<1>2. used \in Scope
  BY <1>1 DEF Requested, SessionRow, TurnWork, Scope
<1>3. work' = [work EXCEPT ![c] = w]
  BY DEF LockScope, With
<1>4. session' \in SessionRow
  BY <1>1, <1>2 DEF LockScope, SetScope, UpdateSession, SessionRow, TypeInv, TypeOK
<1>5. Rows' /\ jobs' \in 0..MaxJobs
  BY <1>4 DEF LockScope, TypeInv, TypeOK, Rows
<1> HIDE DEF used
<1>6. w \in TurnWork /\ w.op = "turn" /\ w.row = work[c].row /\ w.scope = used
  BY <1>1, <1>2 DEF TurnWork
<1> HIDE DEF w
<1>7. w \in Work /\ Staged(w)
  BY <1>1, <1>2, <1>6 DEF Work, Staged
<1> QED
  BY <1>3, <1>5, <1>7, Moved

LEMMA StepAskQuestion ==
    ASSUME TypeInv, NEW c \in Client, AskQuestion(c), UNCHANGED jobs
    PROVE  TypeInv'
<1>1. /\ work[c] \in TurnWork /\ work[c].row \in SessionRow /\ work[c].scope \in Scope
      /\ Rows /\ jobs \in 0..MaxJobs /\ work \in [Client -> Work]
  BY TurnTyped, RowsOfType DEF AskQuestion, At, TypeInv, Staged
<1>2. CASE session.exists
  <2> DEFINE w == [[work[c] EXCEPT !.question = lastId + 1] EXCEPT !.at = "prompt"]
  <2>1. work' = [work EXCEPT ![c] = w] /\ AppendMessage("user", c)
    BY <1>2 DEF AskQuestion, With
  <2>2. Rows'
    <3>1. UNCHANGED <<session, collections, candidates, longterm>>
      BY DEF AskQuestion
    <3> QED
      BY <1>1, <2>1, <3>1, AppendTyped
  <2> lastId + 1 \in Nat
    BY <1>1 DEF Rows
  <2>3. w \in TurnWork /\ w.op = "turn" /\ w.row = work[c].row /\ w.scope = work[c].scope
    BY <1>1 DEF TurnWork, Rows
  <2> HIDE DEF w
  <2>4. w \in Work /\ Staged(w)
    BY <1>1, <2>3 DEF Work, Staged
  <2> QED
    BY <1>1, <2>1, <2>2, <2>4, Moved
<1>3. CASE ~session.exists
  <2>1. Rows' /\ To(c, "done")
    BY <1>1, <1>3 DEF AskQuestion, Rows
  <2>2. [work[c] EXCEPT !.at = "done"] \in Work /\ Staged([work[c] EXCEPT !.at = "done"])
    BY <1>1 DEF Work, TurnWork, Staged
  <2> QED
    BY <1>1, <2>1, <2>2, ToTyped
<1> QED
  BY <1>2, <1>3

LEMMA StepFreezePrompt ==
    ASSUME TypeInv, NEW c \in Client, FreezePrompt(c), UNCHANGED jobs
    PROVE  TypeInv'
<1> DEFINE used == IF work[c].row.prompt = None THEN work[c].scope ELSE work[c].row.prompt
           w == [[work[c] EXCEPT !.prompt = used] EXCEPT !.at = "history"]
<1>1. work[c] \in TurnWork /\ work[c].row \in SessionRow /\ work[c].scope \in Scope
  BY TurnTyped DEF FreezePrompt, At, TypeInv, Staged
<1>2. used \in Scope
  BY <1>1 DEF SessionRow
<1>3. work' = [work EXCEPT ![c] = w]
  BY DEF FreezePrompt, With
<1>4. session' \in SessionRow
  BY <1>1, <1>2 DEF FreezePrompt, SetPrompt, UpdateSession, SessionRow, TypeInv, TypeOK
<1>5. Rows' /\ jobs' \in 0..MaxJobs
  BY <1>4 DEF FreezePrompt, TypeInv, TypeOK, Rows
<1> HIDE DEF used
<1>6. w \in TurnWork /\ w.op = "turn" /\ w.at = "history"
  BY <1>1, <1>2 DEF TurnWork
<1> HIDE DEF w
<1>7. w \in Work /\ Staged(w)
  BY <1>6 DEF Work, Staged
<1> QED
  BY <1>3, <1>5, <1>7, Moved

LEMMA IdsTyped ==
    ASSUME NEW rows \in Seq(MessageRow)
    PROVE  Ids(rows) \in SUBSET Nat
<1>1. \A i \in DOMAIN rows : rows[i] \in MessageRow
  OBVIOUS
<1> QED
  BY <1>1 DEF Ids, MessageRow

LEMMA StepBuildHistory ==
    ASSUME TypeInv, NEW c \in Client, BuildHistory(c), UNCHANGED jobs
    PROVE  TypeInv'
<1>1. work[c] \in TurnWork /\ RecentMessages(Window) \in Seq(MessageRow)
  BY TurnTyped, NewestTyped DEF BuildHistory, At, RecentMessages, TypeInv, TypeOK
<1>2. PICK n \in 0..Len(RecentMessages(Window)) :
        LET rows == Newest(RecentMessages(Window), n)
        IN  With(c, [work[c] EXCEPT !.history =
                Ids(IF n = 0 THEN rows ELSE SubSeq(rows, 1, n - 1))], "reply")
  BY DEF BuildHistory
<1> DEFINE rows == Newest(RecentMessages(Window), n)
           shown == IF n = 0 THEN rows ELSE SubSeq(rows, 1, n - 1)
           w == [[work[c] EXCEPT !.history = Ids(shown)] EXCEPT !.at = "reply"]
<1>3. rows \in Seq(MessageRow)
  BY <1>1, NewestTyped
<1>4. n - 1 <= Len(rows)
  BY <1>1 DEF Newest
<1>5. shown \in Seq(MessageRow)
  BY <1>3, <1>4
<1>6. work' = [work EXCEPT ![c] = w]
  BY <1>2 DEF With
<1> HIDE DEF shown
<1>7. w \in TurnWork /\ w.op = "turn" /\ w.at = "reply"
  BY <1>1, <1>5, IdsTyped DEF TurnWork
<1> HIDE DEF w
<1>8. w \in Work /\ Staged(w)
  BY <1>7 DEF Work, Staged
<1>9. Rows' /\ jobs' \in 0..MaxJobs
  BY RowsKept, RowsOfType DEF TypeInv, BuildHistory
<1> QED
  BY <1>6, <1>8, <1>9, Moved

LEMMA StepReply ==
    ASSUME TypeInv, NEW c \in Client, Reply(c), UNCHANGED jobs
    PROVE  TypeInv'
<1>1. work[c] \in TurnWork /\ Rows /\ jobs \in 0..MaxJobs
  BY TurnTyped, RowsOfType DEF Reply, At, TypeInv
<1>2. CASE AppendMessage("assistant", c) /\ With(c, [work[c] EXCEPT !.answered = TRUE], "after")
  <2> DEFINE w == [[work[c] EXCEPT !.answered = TRUE] EXCEPT !.at = "after"]
  <2>1. work' = [work EXCEPT ![c] = w]
    BY <1>2 DEF With
  <2>2. Rows'
    BY <1>1, <1>2, AppendTyped DEF Reply
  <2>3. w \in TurnWork /\ w.op = "turn" /\ w.at = "after"
    BY <1>1 DEF TurnWork
  <2> HIDE DEF w
  <2>4. w \in Work /\ Staged(w)
    BY <2>3 DEF Work, Staged
  <2> QED
    BY <1>1, <2>1, <2>2, <2>4, Moved
<1>3. CASE To(c, "done") /\ UNCHANGED <<messages, lastId>>
  <2>1. Rows'
    BY <1>1, <1>3 DEF Reply, Rows
  <2>2. [work[c] EXCEPT !.at = "done"] \in Work /\ Staged([work[c] EXCEPT !.at = "done"])
    BY <1>1 DEF Work, TurnWork, Staged
  <2> QED
    BY <1>1, <1>3, <2>1, <2>2, ToTyped
<1> QED
  BY <1>2, <1>3 DEF Reply

LEMMA StepAfterTurn ==
    ASSUME TypeInv, NEW c \in Client, AfterTurn(c)
    PROVE  TypeInv'
<1>1. work[c] \in TurnWork /\ Rows' /\ jobs \in 0..MaxJobs
  BY TurnTyped, RowsOfType, RowsKept DEF AfterTurn, At, TypeInv
<1>2. jobs' \in 0..MaxJobs
  BY <1>1 DEF AfterTurn
<1>3. [work[c] EXCEPT !.at = "done"] \in Work /\ Staged([work[c] EXCEPT !.at = "done"])
  BY <1>1 DEF Work, TurnWork, Staged
<1> QED
  BY <1>1, <1>2, <1>3, ToTyped DEF AfterTurn

LEMMA ToDoneTyped ==
    ASSUME TypeInv, Rows', NEW c \in Client, To(c, "done"), jobs' \in 0..MaxJobs,
           work[c] \in TurnWork \cup JobWork \cup ConfirmWork \cup RejectWork \cup EditWork
    PROVE  TypeInv'
<1>1. [work[c] EXCEPT !.at = "done"] \in Work /\ Staged([work[c] EXCEPT !.at = "done"])
  BY DEF Work, Staged, TurnWork, JobWork, ConfirmWork, RejectWork, EditWork
<1> QED
  BY <1>1, ToTyped

LEMMA StepStartCompact ==
    ASSUME TypeInv, NEW c \in Client, StartCompact(c), UNCHANGED jobs
    PROVE  TypeInv'
<1>1. Job(TRUE) \in Work /\ Staged(Job(TRUE))
  BY DEF Job, Work, JobWork, Staged
<1>2. Rows' /\ jobs' \in 0..MaxJobs
  BY RowsKept, RowsOfType DEF TypeInv, StartCompact
<1> QED
  BY <1>1, <1>2, Moved DEF StartCompact

LEMMA StepStartJob ==
    ASSUME TypeInv, NEW c \in Client, StartJob(c)
    PROVE  TypeInv'
<1>1. Job(FALSE) \in Work /\ Staged(Job(FALSE))
  BY DEF Job, Work, JobWork, Staged
<1>2. Rows' /\ jobs \in 0..MaxJobs
  BY RowsKept, RowsOfType DEF TypeInv, StartJob
<1>3. jobs' \in 0..MaxJobs
  BY <1>2 DEF StartJob
<1> QED
  BY <1>1, <1>2, <1>3, Moved DEF StartJob

\* The steps of a summary job that only read.
LEMMA JobMoved ==
    ASSUME TypeInv, UNCHANGED <<tables, jobs>>, NEW c \in Client, NEW w \in JobWork,
           work' = [work EXCEPT ![c] = w]
    PROVE  TypeInv'
<1>1. w \in Work /\ Staged(w)
  BY DEF Work, Staged, JobWork
<1>2. Rows' /\ jobs' \in 0..MaxJobs
  BY RowsKept, RowsOfType DEF TypeInv
<1> QED
  BY <1>1, <1>2, Moved

LEMMA StepReadBudget ==
    ASSUME TypeInv, NEW c \in Client, ReadBudget(c), UNCHANGED jobs
    PROVE  TypeInv'
<1> DEFINE w == IF session.failures >= MaxFailures /\ ~work[c].force
                THEN [work[c] EXCEPT !.at = "done"]
                ELSE [[work[c] EXCEPT !.failures = session.failures] EXCEPT !.at = "rows"]
<1>1. work[c] \in JobWork /\ session.failures \in Nat
  BY JobTyped DEF ReadBudget, At, TypeInv, TypeOK, SessionRow
<1>2. w \in JobWork
  BY <1>1 DEF JobWork
<1>3. work' = [work EXCEPT ![c] = w]
  BY DEF ReadBudget, To, With, TypeInv, TypeOK
<1> QED
  BY <1>2, <1>3, JobMoved DEF ReadBudget

LEMMA StepPlanRows ==
    ASSUME TypeInv, NEW c \in Client, PlanRows(c), UNCHANGED jobs
    PROVE  TypeInv'
<1> DEFINE bound == messages[Len(messages) - Keep].id
           w == IF Len(messages) <= Keep THEN [work[c] EXCEPT !.at = "done"]
                ELSE [[work[c] EXCEPT !.bound = bound] EXCEPT !.at = "plan"]
<1>1. work[c] \in JobWork /\ messages \in Seq(MessageRow)
  BY JobTyped DEF PlanRows, At, TypeInv, TypeOK
<1>2. Len(messages) > Keep => bound \in Nat
  <2>1. Len(messages) > Keep => messages[Len(messages) - Keep] \in MessageRow
    BY <1>1
  <2> QED
    BY <2>1 DEF MessageRow
<1>3. work' = [work EXCEPT ![c] = w]
  BY DEF PlanRows, To, With, TypeInv, TypeOK
<1> HIDE DEF bound
<1>4. w \in JobWork
  <2>1. CASE Len(messages) <= Keep
    BY <1>1, <2>1 DEF JobWork
  <2>2. CASE ~(Len(messages) <= Keep)
    <3>1. bound \in Nat
      BY <1>1, <1>2, <2>2
    <3> QED
      BY <1>1, <2>2, <3>1 DEF JobWork
  <2> QED
    BY <2>1, <2>2
<1> QED
  BY <1>3, <1>4, JobMoved DEF PlanRows

LEMMA StepPlanBound ==
    ASSUME TypeInv, NEW c \in Client, PlanBound(c), UNCHANGED jobs
    PROVE  TypeInv'
<1> DEFINE w == IF work[c].bound > session.upto
                THEN [[work[c] EXCEPT !.seen = session.upto] EXCEPT !.at = "previous"]
                ELSE [work[c] EXCEPT !.at = "done"]
<1>1. work[c] \in JobWork /\ session.upto \in Nat
  BY JobTyped DEF PlanBound, At, TypeInv, TypeOK, SessionRow
<1>2. w \in JobWork
  BY <1>1 DEF JobWork
<1>3. work' = [work EXCEPT ![c] = w]
  BY DEF PlanBound, To, With, TypeInv, TypeOK
<1> QED
  BY <1>2, <1>3, JobMoved DEF PlanBound

LEMMA StepReadPrevious ==
    ASSUME TypeInv, NEW c \in Client, ReadPrevious(c), UNCHANGED jobs
    PROVE  TypeInv'
<1> DEFINE folded == IF session.exists THEN session.folded ELSE {}
           cut == IF session.exists THEN session.cut ELSE {}
           from == IF session.exists THEN session.upto ELSE 0
           w == [[work[c] EXCEPT !.folded = folded, !.cut = cut, !.from = from]
                    EXCEPT !.at = "turns"]
<1>1. work[c] \in JobWork /\ folded \in SUBSET Nat /\ cut \in SUBSET Nat /\ from \in Nat
  BY JobTyped DEF ReadPrevious, At, TypeInv, TypeOK, SessionRow
<1>2. work' = [work EXCEPT ![c] = w]
  BY DEF ReadPrevious, With
<1> HIDE DEF folded, cut, from
<1>3. w \in JobWork
  BY <1>1 DEF JobWork
<1> QED
  BY <1>2, <1>3, JobMoved DEF ReadPrevious

LEMMA StepReadTurns ==
    ASSUME TypeInv, NEW c \in Client, ReadTurns(c), UNCHANGED jobs
    PROVE  TypeInv'
<1> DEFINE due == {i \in DOMAIN messages :
                     work[c].from < messages[i].id /\ messages[i].id <= work[c].bound}
<1>1. work[c] \in JobWork /\ messages \in Seq(MessageRow)
  BY JobTyped DEF ReadTurns, At, TypeInv, TypeOK
<1>2. PICK taken \in SUBSET due :
        IF due = {} THEN To(c, "failed")
        ELSE With(c, [work[c] EXCEPT !.folded = @ \cup {messages[i].id : i \in taken},
                                     !.cut = @ \cup {messages[i].id : i \in due \ taken},
                                     !.called = TRUE], "generate")
  BY DEF ReadTurns
<1> DEFINE ids == {messages[i].id : i \in taken}
           rest == {messages[i].id : i \in due \ taken}
           w == IF due = {} THEN [work[c] EXCEPT !.at = "failed"]
                ELSE [[work[c] EXCEPT !.folded = @ \cup ids, !.cut = @ \cup rest,
                                      !.called = TRUE]
                        EXCEPT !.at = "generate"]
<1>3. \A i \in DOMAIN messages : messages[i] \in MessageRow
  BY <1>1
<1>4. ids \in SUBSET Nat /\ rest \in SUBSET Nat
  BY <1>3 DEF MessageRow
<1>5. work' = [work EXCEPT ![c] = w]
  BY <1>2 DEF To, With, TypeInv, TypeOK
<1> HIDE DEF ids, rest, due
<1>6. w \in JobWork
  BY <1>1, <1>4 DEF JobWork
<1> QED
  BY <1>5, <1>6, JobMoved DEF ReadTurns

LEMMA StepGenerate ==
    ASSUME TypeInv, NEW c \in Client, Generate(c), UNCHANGED jobs
    PROVE  TypeInv'
<1>1. work[c] \in JobWork
  BY JobTyped DEF Generate, At
<1>2. PICK at \in {"store", "failed"} : work' = [work EXCEPT ![c] = [work[c] EXCEPT !.at = at]]
  BY DEF Generate, To, TypeInv, TypeOK
<1>3. [work[c] EXCEPT !.at = at] \in JobWork
  BY <1>1 DEF JobWork
<1> QED
  BY <1>2, <1>3, JobMoved DEF Generate

LEMMA StepStoreSummary ==
    ASSUME TypeInv, NEW c \in Client, StoreSummary(c), UNCHANGED jobs
    PROVE  TypeInv'
<1>1. work[c] \in JobWork
  BY JobTyped DEF StoreSummary, At
<1>2. session' \in SessionRow
  BY <1>1 DEF StoreSummary, SetSummary, UpdateSession, SessionRow, JobWork, TypeInv, TypeOK
<1>3. Rows' /\ jobs' \in 0..MaxJobs
  BY <1>2 DEF StoreSummary, TypeInv, TypeOK, Rows
<1>4. [work[c] EXCEPT !.at = "stored"] \in Work /\ Staged([work[c] EXCEPT !.at = "stored"])
  BY <1>1 DEF Work, JobWork, Staged
<1> QED
  BY <1>3, <1>4, ToTyped DEF StoreSummary

LEMMA StepCountOutcome ==
    ASSUME TypeInv, NEW c \in Client, CountOutcome(c), UNCHANGED jobs
    PROVE  TypeInv'
<1>1. work[c] \in JobWork
  BY JobTyped DEF CountOutcome, At
<1>2. session' \in SessionRow
  <2>1. session \in SessionRow
    BY DEF TypeInv, TypeOK
  <2>2. CASE ResetFailures
    BY <2>1, <2>2 DEF ResetFailures, UpdateSession, SessionRow
  <2>3. CASE BumpFailures
    BY <2>1, <2>3 DEF BumpFailures, UpdateSession, SessionRow
  <2> QED
    BY <2>2, <2>3 DEF CountOutcome
<1>3. Rows' /\ jobs' \in 0..MaxJobs
  BY <1>2 DEF CountOutcome, TypeInv, TypeOK, Rows
<1> QED
  BY <1>1, <1>3, ToDoneTyped DEF CountOutcome

LEMMA FinishedMoved ==
    ASSUME TypeInv, Rows', UNCHANGED jobs, NEW c \in Client,
           work' = [work EXCEPT ![c] = Finished]
    PROVE  TypeInv'
<1>1. Finished \in Work /\ Staged(Finished) /\ jobs' \in 0..MaxJobs
  BY DEF Work, Staged, Finished, TypeInv, TypeOK
<1> QED
  BY <1>1, Moved

LEMMA MapTyped ==
    ASSUME NEW rows \in Seq(CandidateRow), NEW new,
           new = [i \in DOMAIN rows |-> new[i]], \A i \in DOMAIN rows : new[i] \in CandidateRow
    PROVE  new \in Seq(CandidateRow)
<1>1. new \in [1..Len(rows) -> CandidateRow]
  OBVIOUS
<1> QED
  BY <1>1, SeqDef

LEMMA StepDeleteSession ==
    ASSUME TypeInv, NEW c \in Client, DeleteSession(c), UNCHANGED jobs
    PROVE  TypeInv'
<1>1. session' \in SessionRow
  BY DEF DeleteSession, DropSession, SessionRow, TypeInv, TypeOK
<1>2. candidates' = [i \in DOMAIN candidates |-> [candidates[i] EXCEPT !.status = "deleted"]]
  BY DEF DeleteSession, DropSession
<1>3. \A i \in DOMAIN candidates : candidates[i] \in CandidateRow
  BY DEF TypeInv, TypeOK
<1>4. candidates' \in Seq(CandidateRow)
  <2>1. \A i \in DOMAIN candidates : candidates'[i] \in CandidateRow
    BY <1>2, <1>3 DEF CandidateRow, Status
  <2> QED
    BY <1>2, <2>1, MapTyped DEF TypeInv, TypeOK
<1>5. messages' = <<>>
  BY DEF DeleteSession, DropSession
<1>6. Rows'
  BY <1>1, <1>4, <1>5 DEF DeleteSession, TypeInv, TypeOK, Rows
<1> QED
  BY <1>6, FinishedMoved DEF DeleteSession

LEMMA StepDeleteCollection ==
    ASSUME TypeInv, NEW c \in Client, DeleteCollection(c), UNCHANGED jobs
    PROVE  TypeInv'
<1>1. PICK k \in collections : DropCollection(k)
  BY DEF DeleteCollection
<1>2. session' \in SessionRow /\ collections' \subseteq Collection
  BY <1>1 DEF DropCollection, SessionRow, TypeInv, TypeOK
<1>3. Rows'
  BY <1>2 DEF DeleteCollection, TypeInv, TypeOK, Rows
<1> QED
  BY <1>3, FinishedMoved DEF DeleteCollection

LEMMA CandidateTyped ==
    ASSUME TypeInv, NEW i \in DOMAIN candidates
    PROVE  candidates[i] \in CandidateRow
BY DEF TypeInv, TypeOK

LEMMA FieldsTyped ==
    /\ Field \subseteq Key /\ NoValue \in [Key -> Value] /\ None \in Value
    /\ \A kind, key \in Key : Column(kind, key) \in Key
    /\ Client \subseteq Value
BY DEF Field, Key, NoValue, Value, Column

LEMMA WriteTyped ==
    ASSUME longterm \in [Kind -> [Key -> Value]], NEW kind \in Kind, NEW read \in [Key -> Value],
           NEW fields \in SUBSET Key, NEW value \in Value, WriteFields(kind, read, fields, value)
    PROVE  longterm' \in [Kind -> [Key -> Value]]
BY DEF WriteFields

LEMMA AddTyped ==
    ASSUME candidates \in Seq(CandidateRow), NEW kind \in Kind, NEW key \in Key,
           AddCandidate(kind, key)
    PROVE  /\ candidates' \in Seq(CandidateRow) /\ Len(candidates') = Len(candidates) + 1
           /\ \A i \in DOMAIN candidates : candidates'[i] = candidates[i]
           /\ candidates'[Len(candidates) + 1].status = "pending"
           /\ candidates'[Len(candidates) + 1].id = Len(candidates) + 1
<1> DEFINE id == Len(candidates) + 1
           row == [id |-> id, kind |-> kind, field |-> key, value |-> id, status |-> "pending"]
<1>1. row \in CandidateRow /\ row.status = "pending" /\ row.id = id
  BY DEF CandidateRow, Value, Status
<1>2. candidates' = Append(candidates, row)
  BY DEF AddCandidate
<1> HIDE DEF row
<1> QED
  BY <1>1, <1>2, AppendProperties

LEMMA MarkTyped ==
    ASSUME TypeInv, NEW ids, NEW status \in Status, MarkCandidates(ids, status)
    PROVE  candidates' \in Seq(CandidateRow)
<1>1. candidates' = [i \in DOMAIN candidates |->
                       IF i \in ids /\ candidates[i].status = "pending"
                       THEN [candidates[i] EXCEPT !.status = status] ELSE candidates[i]]
  BY DEF MarkCandidates
<1>2. \A i \in DOMAIN candidates : candidates'[i] \in CandidateRow
  BY <1>1, CandidateTyped DEF CandidateRow
<1> QED
  BY <1>1, <1>2, MapTyped DEF TypeInv, TypeOK

LEMMA ConfirmingTyped ==
    ASSUME NEW home \in Collection \cup {None}, NEW asked \in SUBSET Nat
    PROVE  Confirming(home, asked) \in Work /\ Staged(Confirming(home, asked))
BY FieldsTyped DEF Confirming, Work, ConfirmWork, Staged

LEMMA StepNote ==
    ASSUME TypeInv, NEW c \in Client, Note(c), UNCHANGED jobs
    PROVE  TypeInv'
<1> DEFINE id == Len(candidates) + 1
<1>1. PICK kind \in Kind, key \in Key, explicit \in BOOLEAN :
        /\ AddCandidate(kind, key)
        /\ work' = [work EXCEPT ![c] =
             IF explicit /\ (kind # "progress" \/ session.home # None)
             THEN Confirming(session.home, {id}) ELSE Finished]
  BY DEF Note
<1>2. candidates' \in Seq(CandidateRow)
  BY <1>1, AddTyped DEF TypeInv, TypeOK
<1>3. Rows' /\ jobs' \in 0..MaxJobs
  BY <1>2 DEF Note, TypeInv, TypeOK, Rows
<1>4. session.home \in Collection \cup {None} /\ {id} \in SUBSET Nat
  BY DEF TypeInv, TypeOK, SessionRow
<1>5. PICK w : w \in {Confirming(session.home, {id}), Finished} /\ work' = [work EXCEPT ![c] = w]
  BY <1>1
<1> HIDE DEF id
<1>6. w \in Work /\ Staged(w)
  BY <1>4, <1>5, ConfirmingTyped DEF Work, Finished, Staged
<1> QED
  BY <1>3, <1>5, <1>6, Moved

LEMMA AskedTyped ==
    ASSUME TypeInv PROVE DOMAIN candidates \in SUBSET Nat
BY DEF TypeInv, TypeOK

LEMMA StepStartConfirm ==
    ASSUME TypeInv, NEW c \in Client, StartConfirm(c), UNCHANGED jobs
    PROVE  TypeInv'
<1>1. PICK asked \in SUBSET DOMAIN candidates :
        work' = [work EXCEPT ![c] = Confirming(session.home, asked)]
  BY DEF StartConfirm
<1>2. session.home \in Collection \cup {None}
  BY DEF TypeInv, TypeOK, SessionRow
<1>3. Rows' /\ jobs' \in 0..MaxJobs
  BY RowsKept, RowsOfType DEF TypeInv, StartConfirm
<1>4. Confirming(session.home, asked) \in Work /\ Staged(Confirming(session.home, asked))
  BY <1>2, AskedTyped, ConfirmingTyped
<1> QED
  BY <1>1, <1>3, <1>4, Moved

LEMMA ConfirmMoved ==
    ASSUME TypeInv, Rows', UNCHANGED jobs, NEW c \in Client, NEW w \in ConfirmWork,
           w.at = "write" => w.item \in CandidateRow, work' = [work EXCEPT ![c] = w]
    PROVE  TypeInv'
<1>1. w \in Work /\ Staged(w) /\ jobs' \in 0..MaxJobs
  BY DEF Work, Staged, ConfirmWork, TypeInv, TypeOK
<1> QED
  BY <1>1, Moved

LEMMA StepReadPending ==
    ASSUME TypeInv, NEW c \in Client, ReadPending(c), UNCHANGED jobs
    PROVE  TypeInv'
<1> DEFINE rows == {candidates[i] : i \in Pending \cap work[c].asked}
           w == [[work[c] EXCEPT !.todo = rows, !.rows = rows]
                    EXCEPT !.at = IF rows = {} THEN "done" ELSE "next"]
<1>1. work[c] \in ConfirmWork /\ rows \in SUBSET CandidateRow
  BY ConfirmTyped, CandidateTyped DEF ReadPending, At, Pending
<1>2. work' = [work EXCEPT ![c] = w]
  BY DEF ReadPending, With
<1>3. Rows'
  BY RowsKept, RowsOfType DEF TypeInv, ReadPending
<1> HIDE DEF rows
<1>4. w \in ConfirmWork /\ w.at # "write"
  BY <1>1 DEF ConfirmWork
<1> QED
  BY <1>2, <1>3, <1>4, ConfirmMoved

LEMMA StepNextItem ==
    ASSUME TypeInv, NEW c \in Client, NextItem(c), UNCHANGED jobs
    PROVE  TypeInv'
<1>1. work[c] \in ConfirmWork /\ Rows'
  BY ConfirmTyped, RowsKept, RowsOfType DEF NextItem, At, TypeInv
<1>2. CASE work[c].todo = {} /\ To(c, "mark")
  <2> DEFINE w == [work[c] EXCEPT !.at = "mark"]
  <2>1. w \in ConfirmWork /\ w.at # "write"
    BY <1>1 DEF ConfirmWork
  <2>2. work' = [work EXCEPT ![c] = w]
    BY <1>2 DEF To, TypeInv, TypeOK
  <2> QED
    BY <1>1, <2>1, <2>2, ConfirmMoved
<1>3. ASSUME NEW item \in work[c].todo,
             With(c, [work[c] EXCEPT !.todo = @ \ {item}, !.item = item,
                                     !.read = IF item.kind = "preference" THEN NoValue
                                              ELSE longterm[item.kind]],
                  IF Lands(item.kind, item.field, work[c].home) THEN "write" ELSE "next")
      PROVE  TypeInv'
  <2> DEFINE read == IF item.kind = "preference" THEN NoValue ELSE longterm[item.kind]
             at == IF Lands(item.kind, item.field, work[c].home) THEN "write" ELSE "next"
             w == [[work[c] EXCEPT !.todo = @ \ {item}, !.item = item, !.read = read]
                      EXCEPT !.at = at]
  <2>1. item \in CandidateRow
    BY <1>1 DEF ConfirmWork
  <2>2. read \in [Key -> Value]
    BY <2>1, FieldsTyped DEF CandidateRow, TypeInv, TypeOK
  <2>3. work' = [work EXCEPT ![c] = w]
    BY <1>3 DEF With
  <2> HIDE DEF read
  <2>4. w \in ConfirmWork /\ w.item = item
    BY <1>1, <2>1, <2>2 DEF ConfirmWork
  <2> QED
    BY <1>1, <2>1, <2>3, <2>4, ConfirmMoved
<1> QED
  BY <1>2, <1>3 DEF NextItem

LEMMA StepWriteItem ==
    ASSUME TypeInv, NEW c \in Client, WriteItem(c), UNCHANGED jobs
    PROVE  TypeInv'
<1> DEFINE item == work[c].item
           w == [[work[c] EXCEPT !.written = @ \cup {item.id}] EXCEPT !.at = "next"]
<1>1. work[c] \in ConfirmWork /\ item \in CandidateRow
  BY ConfirmTyped DEF WriteItem, At, TypeInv, Staged
<1>2. WriteFields(item.kind, work[c].read, {Column(item.kind, item.field)}, item.value)
  BY DEF WriteItem, Given, At
<1>3. longterm' \in [Kind -> [Key -> Value]]
  <2>1. /\ item.kind \in Kind /\ item.value \in Value /\ work[c].read \in [Key -> Value]
        /\ {Column(item.kind, item.field)} \in SUBSET Key
    BY <1>1, FieldsTyped DEF ConfirmWork, CandidateRow, Column, Key, Field
  <2> QED
    BY <1>2, <2>1, WriteTyped DEF TypeInv, TypeOK
<1>4. Rows'
  BY <1>3 DEF WriteItem, TypeInv, TypeOK, Rows
<1>5. work' = [work EXCEPT ![c] = w]
  BY DEF WriteItem, With
<1>6. item.id \in Nat
  BY <1>1 DEF CandidateRow
<1> HIDE DEF item
<1>7. w \in ConfirmWork /\ w.at # "write"
  BY <1>1, <1>6 DEF ConfirmWork
<1> QED
  BY <1>4, <1>5, <1>7, ConfirmMoved

LEMMA StepMarkConfirmed ==
    ASSUME TypeInv, NEW c \in Client, MarkConfirmed(c), UNCHANGED jobs
    PROVE  TypeInv'
<1>1. work[c] \in ConfirmWork /\ candidates' \in Seq(CandidateRow)
  BY ConfirmTyped, MarkTyped DEF MarkConfirmed, At, Status
<1>2. Rows' /\ jobs' \in 0..MaxJobs
  BY <1>1 DEF MarkConfirmed, TypeInv, TypeOK, Rows
<1> QED
  BY <1>1, <1>2, ToDoneTyped DEF MarkConfirmed

LEMMA StepStartReject ==
    ASSUME TypeInv, NEW c \in Client, StartReject(c), UNCHANGED jobs
    PROVE  TypeInv'
<1>1. PICK asked \in SUBSET DOMAIN candidates :
        work' = [work EXCEPT ![c] = [op |-> "reject", at |-> "mark", ids |-> Pending \cap asked]]
  BY DEF StartReject
<1> DEFINE w == [op |-> "reject", at |-> "mark", ids |-> Pending \cap asked]
<1>2. w \in Work /\ Staged(w)
  BY AskedTyped DEF Work, RejectWork, Staged
<1>3. Rows' /\ jobs' \in 0..MaxJobs
  BY RowsKept, RowsOfType DEF TypeInv, StartReject
<1> QED
  BY <1>1, <1>2, <1>3, Moved

LEMMA StepMarkRejected ==
    ASSUME TypeInv, NEW c \in Client, MarkRejected(c), UNCHANGED jobs
    PROVE  TypeInv'
<1>1. work[c] \in RejectWork /\ candidates' \in Seq(CandidateRow)
  BY RejectTyped, MarkTyped DEF MarkRejected, At, Status
<1>2. Rows' /\ jobs' \in 0..MaxJobs
  BY <1>1 DEF MarkRejected, TypeInv, TypeOK, Rows
<1> QED
  BY <1>1, <1>2, ToDoneTyped DEF MarkRejected

LEMMA StepStartEdit ==
    ASSUME TypeInv, NEW c \in Client, StartEdit(c), UNCHANGED jobs
    PROVE  TypeInv'
<1>1. PICK kind \in {"profile", "progress"}, fields \in SUBSET Field :
        work' = [work EXCEPT ![c] =
            [op |-> "edit", at |-> "write", kind |-> kind, fields |-> fields,
             read |-> longterm[kind]]]
  BY DEF StartEdit
<1> DEFINE w == [op |-> "edit", at |-> "write", kind |-> kind, fields |-> fields,
                 read |-> longterm[kind]]
<1>2. w \in Work /\ Staged(w)
  BY DEF Work, EditWork, Staged, TypeInv, TypeOK, Kind
<1>3. Rows' /\ jobs' \in 0..MaxJobs
  BY RowsKept, RowsOfType DEF TypeInv, StartEdit
<1> QED
  BY <1>1, <1>2, <1>3, Moved

LEMMA StepWriteEdit ==
    ASSUME TypeInv, NEW c \in Client, WriteEdit(c), UNCHANGED jobs
    PROVE  TypeInv'
<1>1. work[c] \in EditWork
  BY EditTyped DEF WriteEdit, At
<1>2. longterm' \in [Kind -> [Key -> Value]]
  <2>1. /\ work[c].kind \in Kind /\ work[c].read \in [Key -> Value]
        /\ work[c].fields \in SUBSET Key /\ c \in Value
    BY <1>1, FieldsTyped DEF EditWork, Kind
  <2> QED
    BY <2>1, WriteTyped DEF WriteEdit, TypeInv, TypeOK
<1>3. Rows' /\ jobs' \in 0..MaxJobs
  BY <1>2 DEF WriteEdit, TypeInv, TypeOK, Rows
<1> QED
  BY <1>1, <1>3, ToDoneTyped DEF WriteEdit

LEMMA StepEditPreference ==
    ASSUME TypeInv, NEW c \in Client, EditPreference(c), UNCHANGED jobs
    PROVE  TypeInv'
<1>1. PICK key \in Field : \/ WriteFields("preference", NoValue, {key}, c)
                          \/ DropPreference(key)
  BY DEF EditPreference
<1>2. longterm' \in [Kind -> [Key -> Value]]
  <2>1. CASE WriteFields("preference", NoValue, {key}, c)
    BY <2>1, WriteTyped, FieldsTyped DEF Kind, TypeInv, TypeOK
  <2>2. CASE DropPreference(key)
    BY <2>2, FieldsTyped DEF DropPreference, TypeInv, TypeOK
  <2> QED
    BY <1>1, <2>1, <2>2
<1>3. Rows'
  BY <1>2 DEF EditPreference, TypeInv, TypeOK, Rows
<1> QED
  BY <1>3, FinishedMoved DEF EditPreference

LEMMA StepEditEntry ==
    ASSUME TypeInv, NEW c \in Client, EditEntry(c), UNCHANGED jobs
    PROVE  TypeInv'
<1>1. PICK i \in DOMAIN candidates : \E key \in Key, value \in {c, candidates[i].value} :
        candidates' = [candidates EXCEPT ![i].field = key, ![i].value = value]
  BY DEF EditEntry
<1>2. PICK key \in Key, value \in {c, candidates[i].value} :
        candidates' = [candidates EXCEPT ![i].field = key, ![i].value = value]
  BY <1>1
<1> DEFINE row == [[candidates[i] EXCEPT !.field = key] EXCEPT !.value = value]
<1>3. row \in CandidateRow
  BY CandidateTyped, FieldsTyped DEF CandidateRow
<1>4. candidates' = [candidates EXCEPT ![i] = row]
  BY <1>2
<1> HIDE DEF row
<1>5. candidates' \in Seq(CandidateRow)
  BY <1>3, <1>4 DEF TypeInv, TypeOK
<1>6. Rows'
  BY <1>5 DEF EditEntry, TypeInv, TypeOK, Rows
<1> QED
  BY <1>6, FinishedMoved DEF EditEntry

LEMMA StepDeleteEntry ==
    ASSUME TypeInv, NEW c \in Client, DeleteEntry(c), UNCHANGED jobs
    PROVE  TypeInv'
<1>1. PICK i \in DOMAIN candidates : candidates' = [candidates EXCEPT ![i].status = "deleted"]
  BY DEF DeleteEntry
<1>2. [candidates[i] EXCEPT !.status = "deleted"] \in CandidateRow
  BY CandidateTyped DEF CandidateRow, Status
<1>3. candidates' \in Seq(CandidateRow)
  BY <1>1, <1>2 DEF TypeInv, TypeOK
<1>4. Rows'
  BY <1>3 DEF DeleteEntry, TypeInv, TypeOK, Rows
<1> QED
  BY <1>4, FinishedMoved DEF DeleteEntry

\* A step of any client is one of the actions, and leaves "jobs" alone unless
\* it is one of the two that do not.
LEMMA Steps ==
    ASSUME NEW c \in Client, ConversationStep(c) \/ (MemoryStep(c) /\ UNCHANGED jobs)
    PROVE  \/ AfterTurn(c) \/ StartJob(c)
           \/ UNCHANGED jobs /\ \/ StartTurn(c) \/ LoadSession(c) \/ LockScope(c)
                                \/ AskQuestion(c) \/ FreezePrompt(c) \/ BuildHistory(c)
                                \/ Reply(c) \/ StartCompact(c) \/ ReadBudget(c)
                                \/ PlanRows(c) \/ PlanBound(c) \/ ReadPrevious(c)
                                \/ ReadTurns(c) \/ Generate(c) \/ StoreSummary(c)
                                \/ CountOutcome(c) \/ DeleteSession(c)
                                \/ DeleteCollection(c) \/ Killed(c)
           \/ UNCHANGED jobs /\ \/ Note(c) \/ StartConfirm(c) \/ ReadPending(c)
                                \/ NextItem(c) \/ WriteItem(c) \/ MarkConfirmed(c)
                                \/ StartReject(c) \/ MarkRejected(c) \/ StartEdit(c)
                                \/ WriteEdit(c) \/ EditPreference(c) \/ EditEntry(c)
                                \/ DeleteEntry(c)
BY DEF ConversationStep, MemoryStep

\* Type correctness of the session tables and of every request in flight,
\* however their statements interleave.
THEOREM TypeCorrect == Spec => []TypeInv
<1> USE PastIsCandidates
<1>1. Init => TypeInv
  <2> SUFFICES ASSUME Init PROVE TypeInv
    OBVIOUS
  <2>1. PICK n \in 0..MaxPast, gap \in Gap, home \in Home,
             failures \in {0, MaxFailures - 1}, k \in 0..2 * MaxPast :
        AtRest(n, gap, home, failures, k)
    BY DEF Init
  <2> DEFINE rows == PastRows(n, gap)
             scope == IF n = 0 THEN None ELSE IF home = None THEN {} ELSE {home}
             upto == IF k = 0 THEN 0 ELSE rows[k].id
             folded == {rows[i].id : i \in 1..k}
  <2>2. n \in Nat /\ gap \in Nat /\ k \in Nat /\ failures \in Nat /\ 2 * n \in Nat
    OBVIOUS
  <2>3. /\ rows \in Seq(MessageRow) /\ DOMAIN rows = 1..2 * n
        /\ \A i \in 1..2 * n : rows[i].id = gap + i
    <3>1. /\ DOMAIN rows = 1..2 * n
          /\ \A i \in 1..2 * n : rows[i].id = gap + i /\ rows[i] \in MessageRow
      BY <2>2 DEF PastRows, MessageRow
    <3>2. rows \in [1..2 * n -> MessageRow]
      BY <3>1 DEF PastRows
    <3> HIDE DEF rows
    <3> QED
      BY <2>2, <3>1, <3>2, SeqDef
  <2>4. k <= 2 * n
    BY <2>1, <2>2 DEF AtRest
  <2>5. upto \in Nat /\ folded \in SUBSET Nat
    <3>1. \A i \in 1..k : rows[i].id = gap + i /\ gap + i \in Nat
      BY <2>2, <2>3, <2>4
    <3> HIDE DEF rows
    <3>2. k # 0 => k \in 1..k
      BY <2>2
    <3> QED
      BY <3>1, <3>2
  <2>6. scope \in Scope \cup {None} /\ home \in Collection \cup {None}
    BY DEF Scope
  <2> HIDE DEF rows, scope, upto, folded
  <2>7. session = [exists |-> TRUE, home |-> home, scope |-> scope, prompt |-> scope,
                   upto |-> upto, folded |-> folded, cut |-> {}, failures |-> failures]
        /\ messages = rows
    BY <2>1 DEF AtRest, rows, scope, upto, folded
  <2>8. session \in SessionRow
    BY <2>2, <2>5, <2>6, <2>7 DEF SessionRow
  <2>9. /\ messages \in Seq(MessageRow) /\ lastId \in Nat
        /\ \A i \in DOMAIN messages : messages[i].id <= lastId
        /\ \A i, j \in DOMAIN messages : i < j => messages[i].id < messages[j].id
    <3>1. DOMAIN messages = 1..2 * n /\ lastId = gap + 2 * n
      BY <2>1, <2>3, <2>7 DEF AtRest
    <3>2. \A i \in DOMAIN messages : messages[i].id = gap + i
      BY <2>3, <2>7, <3>1
    <3> QED
      BY <2>2, <2>3, <2>7, <3>1, <3>2
  <2>10. candidates \in Seq(CandidateRow) /\ collections \subseteq Collection
    BY <2>1 DEF AtRest
  <2>11. longterm \in [Kind -> [Key -> Value]]
    BY <2>1, FieldsTyped DEF AtRest, Empty
  <2>12. work \in [Client -> Work] /\ \A c \in Client : Staged(work[c])
    BY <2>1 DEF AtRest, Work, Idle, Staged
  <2>13. jobs \in 0..MaxJobs
    BY <2>1 DEF AtRest
  <2> QED
    BY <2>8, <2>9, <2>10, <2>11, <2>12, <2>13 DEF TypeInv, TypeOK
<1>2. TypeInv /\ [Next]_vars => TypeInv'
  <2> SUFFICES ASSUME TypeInv, [Next]_vars PROVE TypeInv'
    OBVIOUS
  <2>1. CASE Next
    <3>1. PICK c \in Client : ConversationStep(c) \/ (MemoryStep(c) /\ UNCHANGED jobs)
      BY <2>1 DEF Next
    <3>2. CASE AfterTurn(c) \/ StartJob(c)
      BY <3>2, StepAfterTurn, StepStartJob
    <3>3. CASE UNCHANGED jobs /\ (StartTurn(c) \/ LoadSession(c) \/ LockScope(c) \/ AskQuestion(c)
               \/ FreezePrompt(c) \/ BuildHistory(c) \/ Reply(c))
      BY <3>3, StepStartTurn, StepLoadSession, StepLockScope, StepAskQuestion,
         StepFreezePrompt, StepBuildHistory, StepReply
    <3>4. CASE UNCHANGED jobs /\ (StartCompact(c) \/ ReadBudget(c) \/ PlanRows(c) \/ PlanBound(c)
               \/ ReadPrevious(c) \/ ReadTurns(c) \/ Generate(c) \/ StoreSummary(c) \/ CountOutcome(c))
      BY <3>4, StepStartCompact, StepReadBudget, StepPlanRows, StepPlanBound, StepReadPrevious,
         StepReadTurns, StepGenerate, StepStoreSummary, StepCountOutcome
    <3>5. CASE UNCHANGED jobs /\ (DeleteSession(c) \/ DeleteCollection(c) \/ Killed(c))
      BY <3>5, StepDeleteSession, StepDeleteCollection, StepKilled
    <3>6. CASE UNCHANGED jobs /\ (Note(c) \/ StartConfirm(c) \/ ReadPending(c) \/ NextItem(c)
               \/ WriteItem(c) \/ MarkConfirmed(c) \/ StartReject(c) \/ MarkRejected(c))
      BY <3>6, StepNote, StepStartConfirm, StepReadPending, StepNextItem, StepWriteItem,
         StepMarkConfirmed, StepStartReject, StepMarkRejected
    <3>7. CASE UNCHANGED jobs /\ (StartEdit(c) \/ WriteEdit(c) \/ EditPreference(c)
               \/ EditEntry(c) \/ DeleteEntry(c))
      BY <3>7, StepStartEdit, StepWriteEdit, StepEditPreference, StepEditEntry, StepDeleteEntry
    <3> QED
      BY <3>1, <3>2, <3>3, <3>4, <3>5, <3>6, <3>7, Steps
  <2>2. CASE UNCHANGED vars
    BY <2>2 DEF vars, TypeInv, TypeOK
  <2> QED
    BY <2>1, <2>2
<1> QED
  BY <1>1, <1>2, PTL DEF Spec

\* The tables hold rows of their types.
COROLLARY Typed == Spec => []TypeOK
BY TypeCorrect, PTL DEF TypeInv

(***************************************************************************)
(* Memory candidates                                                       *)
(***************************************************************************)
Step(c) == ConversationStep(c) \/ (MemoryStep(c) /\ UNCHANGED jobs)

LEMMA OneMoves ==
    ASSUME TypeInv, NEW c \in Client, Step(c), NEW d \in Client, d # c
    PROVE  work'[d] = work[d]
<1>1. \E w : work' = [work EXCEPT ![c] = w]
  <2>1. CASE AfterTurn(c) \/ StartJob(c)
    BY <2>1, Zenon DEF AfterTurn, StartJob, To
  <2>2. CASE StartTurn(c) \/ LoadSession(c) \/ LockScope(c) \/ AskQuestion(c)
             \/ FreezePrompt(c) \/ BuildHistory(c) \/ Reply(c)
    BY <2>2, Zenon DEF StartTurn, LoadSession, LockScope, AskQuestion, FreezePrompt,
                BuildHistory, Reply, To, With
  <2>3. CASE StartCompact(c) \/ ReadBudget(c) \/ PlanRows(c) \/ PlanBound(c) \/ ReadPrevious(c)
             \/ ReadTurns(c) \/ Generate(c) \/ StoreSummary(c) \/ CountOutcome(c)
    BY <2>3, Zenon DEF StartCompact, ReadBudget, PlanRows, PlanBound, ReadPrevious, ReadTurns,
                Generate, StoreSummary, CountOutcome, To, With
  <2>4. CASE DeleteSession(c) \/ DeleteCollection(c) \/ Killed(c)
    BY <2>4, Zenon DEF DeleteSession, DeleteCollection, Killed, To
  <2>5. CASE Note(c) \/ StartConfirm(c) \/ ReadPending(c) \/ NextItem(c) \/ WriteItem(c)
             \/ MarkConfirmed(c) \/ StartReject(c) \/ MarkRejected(c)
    BY <2>5, Zenon DEF Note, StartConfirm, ReadPending, NextItem, WriteItem, MarkConfirmed,
                StartReject, MarkRejected, To, With
  <2>6. CASE StartEdit(c) \/ WriteEdit(c) \/ EditPreference(c) \/ EditEntry(c) \/ DeleteEntry(c)
    BY <2>6, Zenon DEF StartEdit, WriteEdit, EditPreference, EditEntry, DeleteEntry, To
  <2> QED
    BY <2>1, <2>2, <2>3, <2>4, <2>5, <2>6, Steps DEF Step
<1> QED
  BY <1>1 DEF TypeInv, TypeOK

LEMMA CandidateSteps ==
    ASSUME NEW c \in Client, Step(c)
    PROVE  \/ UNCHANGED candidates
           \/ Note(c) \/ MarkConfirmed(c) \/ MarkRejected(c) \/ EditEntry(c)
           \/ DeleteEntry(c) \/ DeleteSession(c)
BY Steps DEF Step, tables, AfterTurn, StartJob, StartTurn, LoadSession, LockScope, AskQuestion,
   FreezePrompt, BuildHistory, Reply, StartCompact, ReadBudget, PlanRows, PlanBound, ReadPrevious,
   ReadTurns, Generate, StoreSummary, CountOutcome, DeleteCollection, Killed, StartConfirm,
   ReadPending, NextItem, WriteItem, StartReject, StartEdit, WriteEdit, EditPreference

\* What a mark does to the rows.
LEMMA MarkEffect ==
    ASSUME TypeInv, NEW ids, NEW status, MarkCandidates(ids, status)
    PROVE  /\ DOMAIN candidates' = DOMAIN candidates
           /\ \A i \in DOMAIN candidates :
                /\ candidates'[i].id = candidates[i].id
                /\ candidates'[i].status =
                     IF i \in ids /\ candidates[i].status = "pending" THEN status
                     ELSE candidates[i].status
<1>1. candidates' = [i \in DOMAIN candidates |->
                       IF i \in ids /\ candidates[i].status = "pending"
                       THEN [candidates[i] EXCEPT !.status = status] ELSE candidates[i]]
  BY DEF MarkCandidates
<1>2. ASSUME NEW i \in DOMAIN candidates
      PROVE  /\ candidates'[i].id = candidates[i].id
             /\ candidates'[i].status =
                     IF i \in ids /\ candidates[i].status = "pending" THEN status
                     ELSE candidates[i].status
  <2>1. candidates[i] \in CandidateRow
    BY CandidateTyped
  <2> QED
    BY <1>1, <2>1 DEF CandidateRow
<1> QED
  BY <1>1, <1>2

Confirmed(i) == i \in DOMAIN candidates /\ candidates[i].status = "confirmed"

\* Rows stay where they are and keep their ids; what is decided stays decided;
\* a row becomes confirmed only by the mark at the end of a confirm.
LEMMA CandidateEffect ==
    ASSUME TypeInv, NEW c \in Client, Step(c)
    PROVE  /\ \A i \in DOMAIN candidates :
                /\ i \in DOMAIN candidates' /\ candidates'[i].id = candidates[i].id
                /\ candidates[i].status # "pending" =>
                      candidates'[i].status \in {candidates[i].status, "deleted"}
           /\ \A i \in DOMAIN candidates' :
                i \notin DOMAIN candidates => candidates'[i].id = i
           /\ \A i \in DOMAIN candidates' :
                candidates'[i].status = "confirmed" =>
                   \/ Confirmed(i)
                   \/ MarkConfirmed(c) /\ i \in DOMAIN candidates /\ i \in Marked(work[c])
<1>1. CASE UNCHANGED candidates
  BY <1>1 DEF Confirmed
<1>2. CASE Note(c)
  <2>1. PICK kind \in Kind, key \in Key : AddCandidate(kind, key)
    BY <1>2 DEF Note
  <2>2. /\ candidates' \in Seq(CandidateRow) /\ Len(candidates') = Len(candidates) + 1
        /\ \A i \in DOMAIN candidates : candidates'[i] = candidates[i]
        /\ candidates'[Len(candidates) + 1].status = "pending"
        /\ candidates'[Len(candidates) + 1].id = Len(candidates) + 1
    BY <2>1, AddTyped DEF TypeInv, TypeOK
  <2>3. /\ DOMAIN candidates = 1..Len(candidates) /\ Len(candidates) \in Nat
        /\ DOMAIN candidates' = 1..(Len(candidates) + 1)
    BY <2>2 DEF TypeInv, TypeOK
  <2>4. \A i \in DOMAIN candidates' : i \in DOMAIN candidates \/ i = Len(candidates) + 1
    BY <2>3
  <2> QED
    BY <2>2, <2>3, <2>4 DEF Confirmed
<1>3. CASE MarkConfirmed(c)
  <2>1. MarkCandidates(Marked(work[c]), "confirmed")
    BY <1>3 DEF MarkConfirmed
  <2> QED
    BY <1>3, <2>1, MarkEffect DEF Confirmed
<1>4. CASE MarkRejected(c)
  <2>1. MarkCandidates(work[c].ids, "rejected")
    BY <1>4 DEF MarkRejected
  <2> QED
    BY <2>1, MarkEffect DEF Confirmed
<1>5. CASE EditEntry(c)
  <2>1. PICK k \in DOMAIN candidates : \E key \in Key, value \in {c, candidates[k].value} :
          candidates' = [candidates EXCEPT ![k].field = key, ![k].value = value]
    BY <1>5 DEF EditEntry
  <2>2. PICK key \in Key, value \in {c, candidates[k].value} :
          candidates' = [candidates EXCEPT ![k].field = key, ![k].value = value]
    BY <2>1
  <2> DEFINE row == [[candidates[k] EXCEPT !.field = key] EXCEPT !.value = value]
  <2>3. row.id = candidates[k].id /\ row.status = candidates[k].status
    BY CandidateTyped DEF CandidateRow
  <2>4. candidates' = [candidates EXCEPT ![k] = row]
    BY <2>2
  <2> HIDE DEF row
  <2>5. /\ DOMAIN candidates' = DOMAIN candidates
        /\ \A i \in DOMAIN candidates : candidates'[i] = IF i = k THEN row ELSE candidates[i]
    BY <2>4
  <2> QED
    BY <2>3, <2>5 DEF Confirmed
<1>6. CASE DeleteEntry(c)
  <2>1. PICK k \in DOMAIN candidates : candidates' = [candidates EXCEPT ![k].status = "deleted"]
    BY <1>6 DEF DeleteEntry
  <2> DEFINE row == [candidates[k] EXCEPT !.status = "deleted"]
  <2>2. row.id = candidates[k].id /\ row.status = "deleted"
    BY CandidateTyped DEF CandidateRow
  <2>3. candidates' = [candidates EXCEPT ![k] = row]
    BY <2>1
  <2> HIDE DEF row
  <2>4. /\ DOMAIN candidates' = DOMAIN candidates
        /\ \A i \in DOMAIN candidates : candidates'[i] = IF i = k THEN row ELSE candidates[i]
    BY <2>3
  <2> QED
    BY <2>2, <2>4 DEF Confirmed
<1>7. CASE DeleteSession(c)
  <2>1. candidates' = [i \in DOMAIN candidates |-> [candidates[i] EXCEPT !.status = "deleted"]]
    BY <1>7 DEF DeleteSession, DropSession
  <2>2. \A i \in DOMAIN candidates :
          candidates'[i].id = candidates[i].id /\ candidates'[i].status = "deleted"
    BY <2>1, CandidateTyped DEF CandidateRow
  <2> QED
    BY <2>1, <2>2
<1> QED
  BY <1>1, <1>2, <1>3, <1>4, <1>5, <1>6, <1>7, CandidateSteps

\* A decision about a candidate is final: a later mark finds it decided, and
\* the memory page can only delete it.
THEOREM DecisionCorrect == Spec => DecisionIsFinal
<1>1. TypeInv /\ [Next]_vars =>
        [\A i \in DOMAIN candidates :
           candidates[i].status # "pending" =>
              candidates'[i].status \in {candidates[i].status, "deleted"}]_vars
  <2> SUFFICES ASSUME TypeInv, Next
               PROVE  \A i \in DOMAIN candidates :
                        candidates[i].status # "pending" =>
                          candidates'[i].status \in {candidates[i].status, "deleted"}
    OBVIOUS
  <2>1. PICK c \in Client : Step(c)
    BY DEF Next, Step
  <2> QED
    BY <2>1, CandidateEffect
<1> QED
  BY <1>1, TypeCorrect, PTL DEF Spec, DecisionIsFinal

\* Of the rows a confirm has read, each is still to do, being written, written,
\* or has no place to land; when it comes to mark them none is left.
Accounted(w) ==
    w.op = "confirm" =>
        /\ w.at = "pending" => w.rows = {}
        /\ w.at \in {"next", "write", "mark"} =>
             \A row \in w.rows :
                \/ row \in w.todo
                \/ w.at = "write" /\ row = w.item
                \/ row.id \in w.written \/ ~Lands(row.kind, row.field, w.home)
        /\ w.at = "mark" => w.todo = {}

\* Request w is there to tell that candidate i has landed.
Tells(w, i) ==
    /\ w.op = "confirm"
    /\ \E row \in w.rows :
         /\ row.id = i
         /\ i \in w.written \/ ~Lands(row.kind, row.field, w.home)

LandedInv ==
    /\ \A i \in DOMAIN candidates : candidates[i].id = i
    /\ \A c \in Client : Accounted(work[c])
    /\ \A i \in DOMAIN candidates :
         candidates[i].status = "confirmed" => \E c \in Client : Tells(work[c], i)

\* What a request of each kind may do next.
TurnStep(c) ==
    \/ LoadSession(c) \/ LockScope(c) \/ AskQuestion(c) \/ FreezePrompt(c)
    \/ BuildHistory(c) \/ Reply(c) \/ AfterTurn(c)
SummaryStep(c) ==
    \/ ReadBudget(c) \/ PlanRows(c) \/ PlanBound(c) \/ ReadPrevious(c)
    \/ ReadTurns(c) \/ Generate(c) \/ StoreSummary(c) \/ CountOutcome(c)
ConfirmStep(c) == ReadPending(c) \/ NextItem(c) \/ WriteItem(c) \/ MarkConfirmed(c)
Begin(c) ==
    \/ StartTurn(c) \/ StartCompact(c) \/ StartJob(c) \/ DeleteSession(c)
    \/ DeleteCollection(c) \/ Note(c) \/ StartConfirm(c) \/ StartReject(c)
    \/ StartEdit(c) \/ EditPreference(c) \/ EditEntry(c) \/ DeleteEntry(c)

LEMMA Guards ==
    ASSUME NEW c \in Client
    PROVE  /\ TurnStep(c) => work[c].op = "turn"
           /\ SummaryStep(c) => work[c].op = "summary"
           /\ ConfirmStep(c) => work[c].op = "confirm"
           /\ MarkRejected(c) => work[c].op = "reject"
           /\ WriteEdit(c) => work[c].op = "edit"
           /\ Begin(c) => work[c] = Idle /\ work[c].op = "idle"
<1>1. TurnStep(c) => work[c].op = "turn"
  BY DEF TurnStep, LoadSession, LockScope, AskQuestion, FreezePrompt, BuildHistory, Reply,
         AfterTurn, At
<1>2. SummaryStep(c) => work[c].op = "summary"
  BY DEF SummaryStep, ReadBudget, PlanRows, PlanBound, ReadPrevious, ReadTurns, Generate,
         StoreSummary, CountOutcome, At
<1>3. ConfirmStep(c) => work[c].op = "confirm"
  BY DEF ConfirmStep, ReadPending, NextItem, WriteItem, MarkConfirmed, At
<1>4. (MarkRejected(c) => work[c].op = "reject") /\ (WriteEdit(c) => work[c].op = "edit")
  BY DEF MarkRejected, WriteEdit, At
<1>5. Begin(c) => work[c] = Idle
  BY DEF Begin, StartTurn, StartCompact, StartJob, DeleteSession, DeleteCollection, Note,
         StartConfirm, StartReject, StartEdit, EditPreference, EditEntry, DeleteEntry
<1> QED
  BY <1>1, <1>2, <1>3, <1>4, <1>5 DEF Idle

LEMMA IdleOp == Idle.op = "idle"
BY DEF Idle

LEMMA StepsOf ==
    ASSUME NEW c \in Client, Step(c)
    PROVE  /\ \/ TurnStep(c) \/ SummaryStep(c) \/ ConfirmStep(c) \/ MarkRejected(c)
              \/ WriteEdit(c) \/ Begin(c) \/ Killed(c)
           /\ work[c].op = "turn" => TurnStep(c) \/ Killed(c)
           /\ work[c].op = "summary" => SummaryStep(c) \/ Killed(c)
           /\ work[c].op = "confirm" => ConfirmStep(c) \/ Killed(c)
           /\ work[c] = Idle => Begin(c)
<1>1. \/ TurnStep(c) \/ SummaryStep(c) \/ ConfirmStep(c) \/ MarkRejected(c)
      \/ WriteEdit(c) \/ Begin(c) \/ Killed(c)
  BY Steps DEF Step, TurnStep, SummaryStep, ConfirmStep, Begin
<1>2. Killed(c) => work[c] # Idle
  BY DEF Killed, Idle
<1> QED
  BY <1>1, <1>2, Guards, IdleOp

LEMMA HasOp ==
    ASSUME NEW w \in Work
    PROVE  "op" \in DOMAIN w
BY DEF Work, Idle, Finished, TurnWork, JobWork, ConfirmWork, RejectWork, EditWork

\* A request does not become another one.
LEMMA OpKept ==
    ASSUME TypeInv, NEW c \in Client, Step(c), work[c] # Idle
    PROVE  work'[c].op = work[c].op
<1>1. work \in [Client -> Work] /\ "op" \in DOMAIN work[c]
  BY HasOp DEF TypeInv, TypeOK
<1>2. CASE Killed(c) \/ AfterTurn(c) \/ MarkConfirmed(c) \/ MarkRejected(c) \/ WriteEdit(c)
           \/ Generate(c) \/ StoreSummary(c) \/ CountOutcome(c)
  <2>1. PICK at : To(c, at)
    BY <1>2, Zenon DEF Killed, AfterTurn, MarkConfirmed, MarkRejected, WriteEdit, Generate,
                StoreSummary, CountOutcome
  <2> QED
    BY <1>1, <2>1 DEF To
<1>3. CASE LoadSession(c)
  BY <1>1, <1>3 DEF LoadSession, With, To
<1>4. CASE LockScope(c)
  BY <1>1, <1>4 DEF LockScope, With
<1>5. CASE AskQuestion(c)
  BY <1>1, <1>5 DEF AskQuestion, With, To
<1>6. CASE FreezePrompt(c)
  BY <1>1, <1>6 DEF FreezePrompt, With
<1>7. CASE BuildHistory(c)
  BY <1>1, <1>7 DEF BuildHistory, With
<1>8. CASE Reply(c)
  <2>1. \/ With(c, [work[c] EXCEPT !.answered = TRUE], "after")
        \/ To(c, "done")
    BY <1>8 DEF Reply
  <2> QED
    BY <1>1, <2>1 DEF With, To
<1>9. CASE ReadBudget(c)
  <2>1. \/ With(c, [work[c] EXCEPT !.failures = session.failures], "rows")
        \/ To(c, "done")
    BY <1>9 DEF ReadBudget
  <2> QED
    BY <1>1, <2>1 DEF With, To
<1>10. CASE PlanRows(c) \/ PlanBound(c)
  BY <1>1, <1>10 DEF PlanRows, PlanBound, With, To
<1>11. CASE ReadPrevious(c)
  BY <1>1, <1>11 DEF ReadPrevious, With
<1>12. CASE ReadTurns(c)
  BY <1>1, <1>12 DEF ReadTurns, With, To
<1>13. CASE ReadPending(c)
  BY <1>1, <1>13 DEF ReadPending, With
<1>14. CASE NextItem(c)
  BY <1>1, <1>14 DEF NextItem, With, To
<1>15. CASE WriteItem(c)
  BY <1>1, <1>15 DEF WriteItem, With
<1> QED
  BY <1>2, <1>3, <1>4, <1>5, <1>6, <1>7, <1>8, <1>9, <1>10, <1>11, <1>12, <1>13, <1>14, <1>15,
     StepsOf, Guards DEF TurnStep, SummaryStep, ConfirmStep

LEMMA ConfirmFields ==
    ASSUME NEW w \in ConfirmWork, NEW at
    PROVE  LET v == [w EXCEPT !.at = at]
           IN  /\ v.op = "confirm" /\ v.at = at /\ v.home = w.home /\ v.rows = w.rows
               /\ v.todo = w.todo /\ v.item = w.item /\ v.written = w.written
BY DEF ConfirmWork

\* A confirm in flight keeps its account, and what it can tell.
LEMMA ConfirmEffect ==
    ASSUME TypeInv, NEW c \in Client, Step(c), work[c].op = "confirm", Accounted(work[c])
    PROVE  /\ Accounted(work'[c])
           /\ \A i : Tells(work[c], i) => Tells(work'[c], i)
<1>1. work[c] \in ConfirmWork /\ work \in [Client -> Work]
  BY ConfirmTyped DEF TypeInv, TypeOK
<1>2. CASE ReadPending(c)
  <2> DEFINE rows == {candidates[i] : i \in Pending \cap work[c].asked}
             w == [[work[c] EXCEPT !.todo = rows, !.rows = rows]
                      EXCEPT !.at = IF rows = {} THEN "done" ELSE "next"]
  <2>1. work'[c] = w /\ work[c].at = "pending"
    BY <1>1, <1>2 DEF ReadPending, With, At
  <2> HIDE DEF rows
  <2>2. w.op = "confirm" /\ w.rows = rows /\ w.todo = rows /\ w.at \in {"done", "next"}
    BY <1>1 DEF ConfirmWork
  <2> HIDE DEF w
  <2>3. Accounted(w)
    BY <2>2 DEF Accounted
  <2>4. work[c].rows = {}
    BY <2>1 DEF Accounted
  <2> QED
    BY <2>1, <2>3, <2>4 DEF Tells
<1>3. CASE NextItem(c)
  <2>1. CASE work[c].todo = {} /\ To(c, "mark")
    <3>1. work'[c] = [work[c] EXCEPT !.at = "mark"] /\ work[c].at = "next"
      BY <1>1, <1>3, <2>1 DEF NextItem, To, At
    <3> QED
      BY <1>1, <2>1, <3>1, ConfirmFields DEF Accounted, Tells
  <2>2. ASSUME NEW item \in work[c].todo,
               With(c, [work[c] EXCEPT !.todo = @ \ {item}, !.item = item,
                                       !.read = IF item.kind = "preference" THEN NoValue
                                                ELSE longterm[item.kind]],
                    IF Lands(item.kind, item.field, work[c].home) THEN "write" ELSE "next")
        PROVE  /\ Accounted(work'[c]) /\ \A i : Tells(work[c], i) => Tells(work'[c], i)
    <3> DEFINE read == IF item.kind = "preference" THEN NoValue ELSE longterm[item.kind]
               at == IF Lands(item.kind, item.field, work[c].home) THEN "write" ELSE "next"
               w == [[work[c] EXCEPT !.todo = @ \ {item}, !.item = item, !.read = read]
                        EXCEPT !.at = at]
    <3>1. work'[c] = w /\ work[c].at = "next"
      BY <1>1, <1>3, <2>2 DEF NextItem, With, At
    <3> HIDE DEF read
    <3>2. /\ w.op = "confirm" /\ w.at = at /\ w.home = work[c].home /\ w.rows = work[c].rows
          /\ w.todo = work[c].todo \ {item} /\ w.item = item /\ w.written = work[c].written
      BY <1>1 DEF ConfirmWork
    <3> HIDE DEF w
    <3>3. ASSUME NEW row \in w.rows
          PROVE  \/ row \in w.todo
                 \/ w.at = "write" /\ row = w.item
                 \/ row.id \in w.written \/ ~Lands(row.kind, row.field, w.home)
      <4>1. \/ row \in work[c].todo \/ row.id \in work[c].written
            \/ ~Lands(row.kind, row.field, work[c].home)
        BY <3>1, <3>2 DEF Accounted
      <4> QED
        BY <3>2, <4>1
    <3>4. Accounted(w)
      BY <3>2, <3>3 DEF Accounted
    <3> QED
      BY <3>1, <3>2, <3>4 DEF Tells
  <2> QED
    BY <1>3, <2>1, <2>2 DEF NextItem
<1>4. CASE WriteItem(c)
  <2> DEFINE id == work[c].item.id
             w == [[work[c] EXCEPT !.written = @ \cup {id}] EXCEPT !.at = "next"]
  <2>1. work'[c] = w /\ work[c].at = "write"
    BY <1>1, <1>4 DEF WriteItem, With, At
  <2>2. /\ w.op = "confirm" /\ w.at = "next" /\ w.home = work[c].home /\ w.rows = work[c].rows
        /\ w.todo = work[c].todo /\ w.written = work[c].written \cup {id}
    BY <1>1 DEF ConfirmWork
  <2> HIDE DEF w
  <2>3. Accounted(w)
    BY <2>1, <2>2 DEF Accounted
  <2> QED
    BY <2>1, <2>2, <2>3 DEF Tells
<1>5. CASE MarkConfirmed(c) \/ Killed(c)
  <2>1. work'[c] = [work[c] EXCEPT !.at = "done"]
    BY <1>1, <1>5 DEF MarkConfirmed, Killed, To
  <2> QED
    BY <1>1, <2>1, ConfirmFields DEF Accounted, Tells
<1> QED
  BY <1>2, <1>3, <1>4, <1>5, StepsOf DEF ConfirmStep

\* A confirm begins with nothing read.
LEMMA ConfirmBegins ==
    ASSUME TypeInv, NEW c \in Client, Step(c), work[c].op # "confirm"
    PROVE  Accounted(work'[c])
<1> SUFFICES ASSUME work'[c].op = "confirm"
             PROVE  work'[c].at = "pending" /\ work'[c].rows = {}
  BY DEF Accounted
<1>1. work \in [Client -> Work] /\ work[c] = Idle
  BY OpKept DEF TypeInv, TypeOK
<1>2. CASE Note(c) \/ StartConfirm(c)
  <2>1. \E todo : work'[c] = Confirming(session.home, todo) \/ work'[c] = Finished
    BY <1>1, <1>2 DEF Note, StartConfirm
  <2> QED
    BY <2>1 DEF Confirming, Finished
<1>3. CASE DeleteSession(c) \/ DeleteCollection(c) \/ EditPreference(c) \/ EditEntry(c)
           \/ DeleteEntry(c)
  BY <1>1, <1>3 DEF DeleteSession, DeleteCollection, EditPreference, EditEntry, DeleteEntry,
                    Finished
<1>4. CASE StartTurn(c) \/ StartCompact(c) \/ StartJob(c)
  BY <1>1, <1>4 DEF StartTurn, StartCompact, StartJob, Job
<1>5. CASE StartReject(c) \/ StartEdit(c)
  BY <1>1, <1>5 DEF StartReject, StartEdit
<1> QED
  BY <1>1, <1>2, <1>3, <1>4, <1>5, StepsOf DEF Begin

\* What is confirmed has landed: the mark is a confirm's last step, it comes to
\* it only when none of its rows is left, and no other action confirms.
THEOREM LandedCorrect == Spec => []ConfirmedHasLanded
<1>1. Init => LandedInv
  <2> SUFFICES ASSUME Init PROVE LandedInv
    OBVIOUS
  <2>1. candidates \in Past /\ work = [c \in Client |-> Idle]
    BY DEF Init, AtRest
  <2>2. \A c \in Client : Accounted(work[c])
    BY <2>1, IdleOp DEF Accounted
  <2> QED
    BY <2>1, <2>2, PastIsCandidates DEF LandedInv
<1>2. TypeInv /\ LandedInv /\ [Next]_vars => LandedInv'
  <2> SUFFICES ASSUME TypeInv, LandedInv, [Next]_vars PROVE LandedInv'
    OBVIOUS
  <2>1. CASE Next
    <3>1. PICK c \in Client : Step(c)
      BY <2>1 DEF Next, Step
    <3>2. \A i \in DOMAIN candidates' : candidates'[i].id = i
      BY <3>1, CandidateEffect DEF LandedInv
    <3>3. Accounted(work'[c])
      BY <3>1, ConfirmEffect, ConfirmBegins DEF LandedInv
    <3>4. \A d \in Client : Accounted(work'[d])
      BY <3>1, <3>3, OneMoves DEF LandedInv
    <3>5. ASSUME NEW i, NEW d \in Client, Tells(work[d], i)
          PROVE  Tells(work'[d], i)
      BY <3>1, <3>5, OneMoves, ConfirmEffect DEF LandedInv, Tells
    <3>6. ASSUME NEW i \in DOMAIN candidates', candidates'[i].status = "confirmed"
          PROVE  \E d \in Client : Tells(work'[d], i)
      <4>1. CASE Confirmed(i)
        BY <3>5, <4>1 DEF Confirmed, LandedInv
      <4>2. CASE MarkConfirmed(c) /\ i \in Marked(work[c])
        <5>1. work[c].op = "confirm" /\ work[c].at = "mark"
          BY <4>2 DEF MarkConfirmed, At
        <5>2. PICK row \in work[c].rows : row.id = i
          BY <4>2 DEF Marked
        <5>3. i \in work[c].written \/ ~Lands(row.kind, row.field, work[c].home)
          BY <5>1, <5>2 DEF LandedInv, Accounted
        <5> QED
          BY <3>5, <5>1, <5>2, <5>3 DEF Tells
      <4> QED
        BY <3>1, <3>6, <4>1, <4>2, CandidateEffect
    <3> QED
      BY <3>2, <3>4, <3>6 DEF LandedInv
  <2>2. CASE UNCHANGED vars
    BY <2>2 DEF vars, LandedInv, Accounted, Tells
  <2> QED
    BY <2>1, <2>2
<1>3. LandedInv => ConfirmedHasLanded
  BY DEF LandedInv, ConfirmedHasLanded, Tells
<1> QED
  BY <1>1, <1>2, <1>3, TypeCorrect, PTL DEF Spec


(***************************************************************************)
(* What a step does to the tables and to the request that takes it         *)
(***************************************************************************)
LEMMA SessionSteps ==
    ASSUME NEW c \in Client, Step(c)
    PROVE  \/ UNCHANGED session
           \/ LockScope(c) \/ FreezePrompt(c) \/ StoreSummary(c) \/ CountOutcome(c)
           \/ DeleteSession(c) \/ DeleteCollection(c)
BY Steps DEF Step, tables, AfterTurn, StartJob, StartTurn, LoadSession, AskQuestion, BuildHistory,
   Reply, StartCompact, ReadBudget, PlanRows, PlanBound, ReadPrevious, ReadTurns, Generate, Killed,
   Note, StartConfirm, ReadPending, NextItem, WriteItem, MarkConfirmed, StartReject, MarkRejected,
   StartEdit, WriteEdit, EditPreference, EditEntry, DeleteEntry

LEMMA LongtermSteps ==
    ASSUME NEW c \in Client, Step(c)
    PROVE  UNCHANGED longterm \/ WriteItem(c) \/ WriteEdit(c) \/ EditPreference(c)
BY Steps DEF Step, tables, AfterTurn, StartJob, StartTurn, LoadSession, LockScope, AskQuestion,
   FreezePrompt, BuildHistory, Reply, StartCompact, ReadBudget, PlanRows, PlanBound, ReadPrevious,
   ReadTurns, Generate, StoreSummary, CountOutcome, DeleteSession, DeleteCollection, Killed, Note,
   StartConfirm, ReadPending, NextItem, MarkConfirmed, StartReject, MarkRejected, StartEdit,
   EditEntry, DeleteEntry

LEMMA MessageSteps ==
    ASSUME NEW c \in Client, Step(c)
    PROVE  UNCHANGED <<messages, lastId>> \/ AskQuestion(c) \/ Reply(c) \/ DeleteSession(c)
BY Steps DEF Step, tables, AfterTurn, StartJob, StartTurn, LoadSession, LockScope,
   FreezePrompt, BuildHistory, StartCompact, ReadBudget, PlanRows, PlanBound, ReadPrevious,
   ReadTurns, Generate, StoreSummary, CountOutcome, DeleteCollection, Killed, Note,
   StartConfirm, ReadPending, NextItem, WriteItem, MarkConfirmed, StartReject, MarkRejected,
   StartEdit, WriteEdit, EditPreference, EditEntry, DeleteEntry

\* Each column of the session's row is written by one statement, and a session
\* that is gone does not come back.
LEMMA SessionEffect ==
    ASSUME TypeInv, NEW c \in Client, Step(c)
    PROVE  /\ session'.exists => session.exists
           /\ \/ /\ session'.upto = session.upto
                 /\ session'.folded = session.folded /\ session'.cut = session.cut
              \/ /\ StoreSummary(c) /\ session'.upto = work[c].bound
                 /\ session'.folded = work[c].folded /\ session'.cut = work[c].cut
           /\ session'.failures > session.failures =>
                /\ At(c, "summary", "failed") /\ session.exists
                /\ session'.failures = session.failures + 1
           /\ \/ session'.scope = session.scope
              \/ /\ LockScope(c) /\ work[c].row.scope = None
                 /\ session'.scope = Requested(work[c])
           /\ \/ session'.prompt = session.prompt
              \/ /\ FreezePrompt(c) /\ session'.prompt = work[c].scope
<1>1. session \in SessionRow /\ session.failures \in Nat
  BY DEF TypeInv, TypeOK, SessionRow
<1>2. CASE UNCHANGED session
  BY <1>1, <1>2
<1>3. CASE LockScope(c)
  BY <1>1, <1>3 DEF LockScope, SetScope, UpdateSession, SessionRow
<1>4. CASE FreezePrompt(c)
  BY <1>1, <1>4 DEF FreezePrompt, SetPrompt, UpdateSession, SessionRow
<1>5. CASE StoreSummary(c)
  BY <1>1, <1>5 DEF StoreSummary, SetSummary, UpdateSession, SessionRow
<1>6. CASE CountOutcome(c)
  <2>1. CASE At(c, "summary", "stored") /\ ResetFailures
    BY <1>1, <2>1 DEF ResetFailures, UpdateSession, SessionRow
  <2>2. CASE At(c, "summary", "failed") /\ BumpFailures
    BY <1>1, <2>2 DEF BumpFailures, UpdateSession, SessionRow
  <2> QED
    BY <1>6, <2>1, <2>2 DEF CountOutcome
<1>7. CASE DeleteSession(c)
  BY <1>1, <1>7 DEF DeleteSession, DropSession, SessionRow
<1>8. CASE DeleteCollection(c)
  BY <1>1, <1>8 DEF DeleteCollection, DropCollection, SessionRow
<1> QED
  BY <1>2, <1>3, <1>4, <1>5, <1>6, <1>7, <1>8, SessionSteps

\* Messages go only with their session; until then they stay, and a new one is
\* the newest and by the turn that takes the step.
LEMMA MessagesEffect ==
    ASSUME TypeInv, NEW c \in Client, Step(c)
    PROVE  \/ UNCHANGED <<messages, lastId>>
           \/ messages' = <<>> /\ lastId' = lastId /\ ~session'.exists
           \/ /\ AskQuestion(c) \/ Reply(c)
              /\ lastId' = lastId + 1
              /\ DOMAIN messages' = DOMAIN messages \cup {Len(messages) + 1}
              /\ Len(messages) + 1 \notin DOMAIN messages
              /\ \A i \in DOMAIN messages : messages'[i] = messages[i]
              /\ messages'[Len(messages) + 1].id = lastId + 1
              /\ messages'[Len(messages) + 1].by = c
<1>1. CASE DeleteSession(c)
  <2>1. messages' = <<>> /\ lastId' = lastId /\ session' = [session EXCEPT !.exists = FALSE]
    BY <1>1 DEF DeleteSession, DropSession
  <2>2. ~session'.exists
    BY <2>1 DEF TypeInv, TypeOK, SessionRow
  <2> QED
    BY <2>1, <2>2
<1>2. ASSUME NEW role \in {"user", "assistant"}, AppendMessage(role, c)
      PROVE  /\ lastId' = lastId + 1
             /\ DOMAIN messages' = DOMAIN messages \cup {Len(messages) + 1}
             /\ Len(messages) + 1 \notin DOMAIN messages
             /\ \A i \in DOMAIN messages : messages'[i] = messages[i]
             /\ messages'[Len(messages) + 1].id = lastId + 1
             /\ messages'[Len(messages) + 1].by = c
  <2> DEFINE row == [id |-> lastId + 1, role |-> role, by |-> c]
  <2>1. row \in MessageRow /\ row.id = lastId + 1 /\ row.by = c
    BY DEF MessageRow, TypeInv, TypeOK
  <2>2. messages' = Append(messages, row) /\ lastId' = lastId + 1
    BY <1>2 DEF AppendMessage
  <2>3. messages \in Seq(MessageRow)
    BY DEF TypeInv, TypeOK
  <2> HIDE DEF row
  <2>4. /\ Len(messages') = Len(messages) + 1 /\ messages' \in Seq(MessageRow)
        /\ \A i \in DOMAIN messages : messages'[i] = messages[i]
        /\ messages'[Len(messages) + 1] = row
    BY <2>1, <2>2, <2>3, AppendProperties
  <2>5. /\ DOMAIN messages = 1..Len(messages) /\ DOMAIN messages' = 1..(Len(messages) + 1)
        /\ Len(messages) \in Nat
    BY <2>3, <2>4
  <2> QED
    BY <2>1, <2>2, <2>4, <2>5
<1>3. CASE AskQuestion(c) \/ Reply(c)
  <2>1. \/ UNCHANGED <<messages, lastId>>
        \/ \E role \in {"user", "assistant"} : AppendMessage(role, c)
    BY <1>3 DEF AskQuestion, Reply
  <2> QED
    BY <1>2, <1>3, <2>1
<1> QED
  BY <1>1, <1>3, MessageSteps

LEMMA IdBounds ==
    ASSUME TypeInv
    PROVE  lastId \in Nat /\ \A i \in Ids(messages) : i \in Nat /\ i <= lastId
<1>1. messages \in Seq(MessageRow)
  BY DEF TypeInv, TypeOK
<1> QED
  BY <1>1, IdsTyped DEF TypeInv, TypeOK, Ids

\* Ids of messages are never used again: what is at or below an id taken so far
\* can only go, and all of it at once.
LEMMA IdsEffect ==
    ASSUME TypeInv, NEW c \in Client, Step(c)
    PROVE  /\ lastId <= lastId' /\ lastId' \in Nat
           /\ \A i \in Ids(messages') : i \in Ids(messages) \/ i = lastId + 1
           /\ session'.exists => Ids(messages) \subseteq Ids(messages')
<1>1. CASE UNCHANGED <<messages, lastId>>
  BY <1>1, IdBounds DEF Ids
<1>2. CASE messages' = <<>> /\ lastId' = lastId /\ ~session'.exists
  BY <1>2, IdBounds DEF Ids
<1>3. CASE /\ lastId' = lastId + 1
           /\ DOMAIN messages' = DOMAIN messages \cup {Len(messages) + 1}
           /\ \A i \in DOMAIN messages : messages'[i] = messages[i]
           /\ messages'[Len(messages) + 1].id = lastId + 1
  BY <1>3, IdBounds DEF Ids
<1> QED
  BY <1>1, <1>2, <1>3, MessagesEffect

(***************************************************************************)
(* The long-term record                                                    *)
(***************************************************************************)
\* Whole records are stored, so a write changes a field it was not given only
\* when the record it has read is not the one it replaces.
THEOREM WritesCorrect == Spec => WritesOnlyItsFields
<1>1. TypeInv /\ [Next]_vars =>
        [\A kind \in {"profile", "progress"}, f \in Key :
           longterm'[kind][f] # longterm[kind][f] =>
              \E c \in Client : /\ work[c].at = "write" /\ work'[c].at # "write"
                                /\ f \in Given(work[c]) \/ work[c].read # longterm[kind]]_vars
  <2> SUFFICES ASSUME TypeInv, Next, NEW kind \in {"profile", "progress"}, NEW f \in Key,
                      longterm'[kind][f] # longterm[kind][f]
               PROVE  \E c \in Client :
                        /\ work[c].at = "write" /\ work'[c].at # "write"
                        /\ f \in Given(work[c]) \/ work[c].read # longterm[kind]
    OBVIOUS
  <2>1. PICK c \in Client : Step(c)
    BY DEF Next, Step
  <2>2. longterm \in [Kind -> [Key -> Value]] /\ kind \in Kind /\ work \in [Client -> Work]
    BY DEF TypeInv, TypeOK, Kind
  <2>3. ASSUME NEW other \in Kind, NEW read \in [Key -> Value], NEW fields, NEW value,
               WriteFields(other, read, fields, value)
        PROVE  other = kind /\ (f \in fields \/ read # longterm[kind])
    <3> DEFINE rest == IF other = "preference" THEN longterm[other] ELSE read
               row == [g \in DOMAIN rest |-> IF g \in fields THEN value ELSE rest[g]]
    <3>1. longterm' = [longterm EXCEPT ![other] = row] /\ DOMAIN rest = Key
      BY <2>2, <2>3 DEF WriteFields
    <3>2. row[f] = IF f \in fields THEN value ELSE rest[f]
      BY <3>1
    <3> HIDE DEF row
    <3>3. other = kind
      BY <2>2, <3>1
    <3>4. rest = read /\ longterm'[kind][f] = IF f \in fields THEN value ELSE read[f]
      BY <2>2, <3>1, <3>2, <3>3
    <3> QED
      BY <3>3, <3>4
  <2>4. CASE WriteItem(c)
    <3> DEFINE item == work[c].item
               w == [[work[c] EXCEPT !.written = @ \cup {item.id}] EXCEPT !.at = "next"]
    <3>1. work[c] \in ConfirmWork /\ item \in CandidateRow /\ work[c].at = "write"
      BY <2>4, ConfirmTyped DEF WriteItem, At, TypeInv, Staged
    <3>2. item.kind \in Kind /\ work[c].read \in [Key -> Value]
      BY <3>1 DEF ConfirmWork, CandidateRow
    <3>3. WriteFields(item.kind, work[c].read, Given(work[c]), item.value) /\ work'[c] = w
      BY <2>2, <2>4 DEF WriteItem, With
    <3>4. w.at = "next"
      BY <3>1 DEF ConfirmWork
    <3> HIDE DEF w, item
    <3> QED
      BY <2>3, <3>1, <3>2, <3>3, <3>4
  <2>5. CASE WriteEdit(c)
    <3>1. work[c] \in EditWork /\ work[c].at = "write" /\ work[c].op = "edit"
      BY <2>5, EditTyped DEF WriteEdit, At
    <3>2. work[c].kind \in Kind /\ work[c].read \in [Key -> Value]
      BY <3>1 DEF EditWork, Kind
    <3>3. WriteFields(work[c].kind, work[c].read, work[c].fields, c)
          /\ work'[c] = [work[c] EXCEPT !.at = "done"]
      BY <2>2, <2>5 DEF WriteEdit, To
    <3>4. work'[c].at = "done" /\ Given(work[c]) = work[c].fields
      BY <3>1, <3>3 DEF EditWork, Given
    <3> QED
      BY <2>3, <3>1, <3>2, <3>3, <3>4
  <2>6. CASE EditPreference(c)
    <3>1. PICK key \in Field : \/ WriteFields("preference", NoValue, {key}, c)
                              \/ DropPreference(key)
      BY <2>6 DEF EditPreference
    <3>2. ~WriteFields("preference", NoValue, {key}, c)
      BY <2>3, FieldsTyped DEF Kind
    <3> QED
      BY <2>2, <3>1, <3>2 DEF DropPreference
  <2> QED
    BY <2>1, <2>4, <2>5, <2>6, LongtermSteps
<1> QED
  BY <1>1, TypeCorrect, PTL DEF Spec, WritesOnlyItsFields

(***************************************************************************)
(* The summary                                                             *)
(***************************************************************************)
\* A step of a summary job: what it takes over from the tables, and what it
\* still knows from before.
JobMove(w, v) ==
    \/ v.at = "done"
    \/ /\ w.at = "budget" /\ v.at = "rows"
       /\ v.failures = session.failures /\ (session.failures < MaxFailures \/ w.force)
    \/ /\ v.failures = w.failures
       /\ \/ w.at = "rows" /\ v.at = "plan" /\ v.bound \in Ids(messages)
          \/ /\ w.at = "plan" /\ v.at = "previous"
             /\ v.bound = w.bound /\ v.seen = session.upto /\ session.upto < w.bound
          \/ /\ w.at = "previous" /\ v.at = "turns" /\ v.bound = w.bound /\ v.seen = w.seen
             /\ session.exists => /\ v.folded = session.folded /\ v.cut = session.cut
                                  /\ v.from = session.upto
             /\ ~session.exists => v.from = 0
          \/ /\ w.at = "turns" /\ v.at = "failed" /\ v.from = w.from /\ v.seen = w.seen
             /\ \A i \in Ids(messages) : ~(w.from < i /\ i <= w.bound)
          \/ /\ w.at = "turns" /\ v.at = "generate" /\ v.bound = w.bound /\ v.called
             /\ w.folded \cup w.cut \subseteq v.folded \cup v.cut
             /\ {i \in Ids(messages) : w.from < i /\ i <= w.bound} \subseteq v.folded \cup v.cut
          \/ /\ w.at = "generate" /\ v.at \in {"store", "failed"}
             /\ v.bound = w.bound /\ v.folded = w.folded /\ v.cut = w.cut /\ v.called = w.called
          \/ w.at = "store" /\ v.at = "stored"

LEMMA JobAt ==
    ASSUME NEW w \in JobWork, NEW at
    PROVE  LET v == [w EXCEPT !.at = at]
           IN  /\ v.op = "summary" /\ v.at = at /\ v.force = w.force /\ v.failures = w.failures
               /\ v.bound = w.bound /\ v.seen = w.seen /\ v.from = w.from
               /\ v.folded = w.folded /\ v.cut = w.cut /\ v.called = w.called
BY DEF JobWork

LEMMA JobEffect ==
    ASSUME TypeInv, NEW c \in Client, Step(c), work[c].op = "summary"
    PROVE  /\ work[c] \in JobWork
           /\ work'[c].op = "summary" /\ work'[c].force = work[c].force
           /\ JobMove(work[c], work'[c])
<1>1. work[c] \in JobWork /\ work \in [Client -> Work] /\ messages \in Seq(MessageRow)
  BY JobTyped DEF TypeInv, TypeOK
<1>2. \A i \in DOMAIN messages : messages[i].id \in Ids(messages)
  BY DEF Ids
<1>3. CASE To(c, "done")
  <2>1. work'[c] = [work[c] EXCEPT !.at = "done"]
    BY <1>1, <1>3 DEF To
  <2> QED
    BY <1>1, <2>1, JobAt DEF JobMove
<1>4. CASE ReadBudget(c)
  <2>1. CASE ~(session.failures >= MaxFailures /\ ~work[c].force)
    <3> DEFINE w == [[work[c] EXCEPT !.failures = session.failures] EXCEPT !.at = "rows"]
    <3>1. work'[c] = w /\ work[c].at = "budget"
      BY <1>1, <1>4, <2>1 DEF ReadBudget, With, At
    <3>2. w.op = "summary" /\ w.force = work[c].force /\ w.at = "rows"
          /\ w.failures = session.failures
      BY <1>1 DEF JobWork
    <3>3. session.failures \in Nat
      BY DEF TypeInv, TypeOK, SessionRow
    <3> HIDE DEF w
    <3> QED
      BY <1>1, <2>1, <3>1, <3>2, <3>3 DEF JobMove
  <2> QED
    BY <1>3, <1>4, <2>1 DEF ReadBudget
<1>5. CASE PlanRows(c)
  <2>1. CASE ~(Len(messages) <= Keep)
    <3> DEFINE bound == messages[Len(messages) - Keep].id
               w == [[work[c] EXCEPT !.bound = bound] EXCEPT !.at = "plan"]
    <3>1. work'[c] = w /\ work[c].at = "rows"
      BY <1>1, <1>5, <2>1 DEF PlanRows, With, At
    <3>2. bound \in Ids(messages)
      BY <1>1, <1>2, <2>1
    <3> HIDE DEF bound
    <3>3. w.op = "summary" /\ w.force = work[c].force /\ w.at = "plan" /\ w.bound = bound
          /\ w.failures = work[c].failures
      BY <1>1 DEF JobWork
    <3> HIDE DEF w
    <3> QED
      BY <1>1, <3>1, <3>2, <3>3 DEF JobMove
  <2> QED
    BY <1>3, <1>5, <2>1 DEF PlanRows
<1>6. CASE PlanBound(c)
  <2>1. CASE work[c].bound > session.upto
    <3> DEFINE w == [[work[c] EXCEPT !.seen = session.upto] EXCEPT !.at = "previous"]
    <3>1. work'[c] = w /\ work[c].at = "plan"
      BY <1>1, <1>6, <2>1 DEF PlanBound, With, At
    <3>2. w.op = "summary" /\ w.force = work[c].force /\ w.at = "previous"
          /\ w.bound = work[c].bound /\ w.seen = session.upto /\ w.failures = work[c].failures
      BY <1>1 DEF JobWork
    <3>3. session.upto \in Nat /\ work[c].bound \in Nat
      BY <1>1 DEF TypeInv, TypeOK, SessionRow, JobWork
    <3> HIDE DEF w
    <3> QED
      BY <1>1, <2>1, <3>1, <3>2, <3>3 DEF JobMove
  <2> QED
    BY <1>3, <1>6, <2>1 DEF PlanBound
<1>7. CASE ReadPrevious(c)
  <2> DEFINE folded == IF session.exists THEN session.folded ELSE {}
             cut == IF session.exists THEN session.cut ELSE {}
             from == IF session.exists THEN session.upto ELSE 0
             w == [[work[c] EXCEPT !.folded = folded, !.cut = cut, !.from = from]
                      EXCEPT !.at = "turns"]
  <2>1. work'[c] = w /\ work[c].at = "previous"
    BY <1>1, <1>7 DEF ReadPrevious, With, At
  <2>2. /\ session.exists => /\ folded = session.folded /\ cut = session.cut
                             /\ from = session.upto
        /\ ~session.exists => from = 0
    OBVIOUS
  <2> HIDE DEF folded, cut, from
  <2>3. /\ w.op = "summary" /\ w.force = work[c].force /\ w.at = "turns" /\ w.seen = work[c].seen
        /\ w.bound = work[c].bound /\ w.failures = work[c].failures
        /\ w.folded = folded /\ w.cut = cut /\ w.from = from
    BY <1>1 DEF JobWork
  <2> HIDE DEF w
  <2> QED
    BY <1>1, <2>1, <2>2, <2>3 DEF JobMove
<1>8. CASE ReadTurns(c)
  <2> DEFINE due == {i \in DOMAIN messages :
                       work[c].from < messages[i].id /\ messages[i].id <= work[c].bound}
             dueIds == {i \in Ids(messages) : work[c].from < i /\ i <= work[c].bound}
  <2>1. PICK taken \in SUBSET due :
          IF due = {} THEN To(c, "failed")
          ELSE With(c, [work[c] EXCEPT !.folded = @ \cup {messages[i].id : i \in taken},
                                       !.cut = @ \cup {messages[i].id : i \in due \ taken},
                                       !.called = TRUE], "generate")
    BY <1>8 DEF ReadTurns
  <2>2. dueIds = {messages[i].id : i \in due}
    BY DEF Ids
  <2>3. CASE due = {}
    <3>1. work'[c] = [work[c] EXCEPT !.at = "failed"] /\ work[c].at = "turns"
      BY <1>1, <1>8, <2>1, <2>3 DEF ReadTurns, To, At
    <3>2. dueIds = {}
      BY <2>2, <2>3
    <3> QED
      BY <1>1, <3>1, <3>2, JobAt DEF JobMove
  <2>4. CASE due # {}
    <3> DEFINE ids == {messages[i].id : i \in taken}
               rest == {messages[i].id : i \in due \ taken}
               w == [[work[c] EXCEPT !.folded = @ \cup ids, !.cut = @ \cup rest,
                                     !.called = TRUE] EXCEPT !.at = "generate"]
    <3>1. work'[c] = w /\ work[c].at = "turns"
      BY <1>1, <1>8, <2>1, <2>4 DEF ReadTurns, With, At
    <3>2. dueIds \subseteq ids \cup rest
      BY <2>2
    <3> HIDE DEF ids, rest
    <3>3. /\ w.op = "summary" /\ w.force = work[c].force /\ w.at = "generate" /\ w.called
          /\ w.bound = work[c].bound /\ w.failures = work[c].failures
          /\ w.folded = work[c].folded \cup ids /\ w.cut = work[c].cut \cup rest
      BY <1>1 DEF JobWork
    <3> HIDE DEF w, due
    <3> QED
      BY <1>1, <3>1, <3>2, <3>3 DEF JobMove
  <2> QED
    BY <2>3, <2>4
<1>9. CASE Generate(c)
  <2>1. PICK at \in {"store", "failed"} : To(c, at)
    BY <1>9 DEF Generate
  <2>2. work'[c] = [work[c] EXCEPT !.at = at] /\ work[c].at = "generate"
    BY <1>1, <1>9, <2>1 DEF Generate, To, At
  <2> QED
    BY <1>1, <2>2, JobAt DEF JobMove
<1>10. CASE StoreSummary(c)
  <2>1. work'[c] = [work[c] EXCEPT !.at = "stored"] /\ work[c].at = "store"
    BY <1>1, <1>10 DEF StoreSummary, To, At
  <2> QED
    BY <1>1, <2>1, JobAt DEF JobMove
<1>11. CASE CountOutcome(c) \/ Killed(c)
  BY <1>3, <1>11 DEF CountOutcome, Killed
<1> QED
  BY <1>4, <1>5, <1>6, <1>7, <1>8, <1>9, <1>10, <1>11, StepsOf DEF SummaryStep

\* A request that is no job yet begins as one at its look at the budget.
LEMMA JobBegins ==
    ASSUME TypeInv, NEW c \in Client, Step(c), work[c].op # "summary", work'[c].op = "summary"
    PROVE  work'[c].at = "budget"
<1>1. work \in [Client -> Work] /\ work[c] = Idle
  BY OpKept DEF TypeInv, TypeOK
<1>2. CASE Note(c) \/ StartConfirm(c)
  <2>1. \E todo : work'[c] = Confirming(session.home, todo) \/ work'[c] = Finished
    BY <1>1, <1>2 DEF Note, StartConfirm
  <2> QED
    BY <2>1 DEF Confirming, Finished
<1>3. CASE DeleteSession(c) \/ DeleteCollection(c) \/ EditPreference(c) \/ EditEntry(c)
           \/ DeleteEntry(c)
  BY <1>1, <1>3 DEF DeleteSession, DeleteCollection, EditPreference, EditEntry, DeleteEntry,
                    Finished
<1>4. CASE StartTurn(c) \/ StartReject(c) \/ StartEdit(c)
  BY <1>1, <1>4 DEF StartTurn, StartReject, StartEdit
<1>5. CASE StartCompact(c) \/ StartJob(c)
  BY <1>1, <1>5 DEF StartCompact, StartJob, Job
<1> QED
  BY <1>1, <1>2, <1>3, <1>4, <1>5, StepsOf DEF Begin

\* A property of every job that holds at its start and over its own steps, while
\* the steps of others leave it alone, is an invariant: the two cases of the
\* proofs below.
LEMMA JobCases ==
    ASSUME TypeInv, NEW c \in Client, Step(c), NEW d \in Client, work'[d].op = "summary"
    PROVE  \/ d # c /\ work'[d] = work[d]
           \/ d = c /\ work'[c].at = "budget"
           \/ d = c /\ work[c].op = "summary" /\ JobMove(work[c], work'[c])
BY OneMoves, JobEffect, JobBegins

LEMMA NoJobs ==
    ASSUME Init
    PROVE  \A c \in Client : work[c] = Idle /\ work[c].op = "idle"
<1>1. work = [c \in Client |-> Idle]
  BY DEF Init, AtRest
<1> QED
  BY <1>1, IdleOp

\* A job that is past its look at the budget, and was not forced, has seen some
\* of it left.
WithinBudget(w) ==
    w.op = "summary" /\ w.at \notin {"budget", "done"} /\ ~w.force
        => w.failures < MaxFailures
BudgetInv == \A c \in Client : WithinBudget(work[c])

\* The breaker: beyond the budget a failure is counted only for a forced summary
\* or by a job that looked before another one's failure was counted.
THEOREM BudgetCorrect == Spec => BudgetHolds
<1>1. Init => BudgetInv
  BY NoJobs DEF BudgetInv, WithinBudget
<1>2. TypeInv /\ BudgetInv /\ [Next]_vars => BudgetInv'
  <2> SUFFICES ASSUME TypeInv, BudgetInv, [Next]_vars PROVE BudgetInv'
    OBVIOUS
  <2>1. CASE Next
    <3>1. PICK c \in Client : Step(c)
      BY <2>1 DEF Next, Step
    <3> SUFFICES ASSUME NEW d \in Client, work'[d].op = "summary"
                 PROVE  WithinBudget(work'[d])
      BY DEF BudgetInv, WithinBudget
    <3>2. CASE d = c /\ work[c].op = "summary" /\ JobMove(work[c], work'[c])
      <4>1. work'[c].force = work[c].force /\ WithinBudget(work[c])
        BY <3>1, <3>2, JobEffect DEF BudgetInv
      <4> QED
        BY <3>2, <4>1 DEF JobMove, WithinBudget
    <3> QED
      BY <3>1, <3>2, JobCases DEF BudgetInv, WithinBudget
  <2>2. CASE UNCHANGED vars
    BY <2>2 DEF vars, BudgetInv, WithinBudget
  <2> QED
    BY <2>1, <2>2
<1>3. TypeInv /\ BudgetInv /\ [Next]_vars =>
        [session'.failures > session.failures /\ session'.failures > MaxFailures =>
           \E c \in Client : /\ At(c, "summary", "failed")
                             /\ work[c].force \/ work[c].failures # session.failures]_vars
  <2> SUFFICES ASSUME TypeInv, BudgetInv, Next, session'.failures > session.failures,
                      session'.failures > MaxFailures
               PROVE  \E c \in Client : /\ At(c, "summary", "failed")
                                        /\ work[c].force \/ work[c].failures # session.failures
    OBVIOUS
  <2>1. PICK c \in Client : Step(c)
    BY DEF Next, Step
  <2>2. At(c, "summary", "failed") /\ session'.failures = session.failures + 1
    BY <2>1, SessionEffect
  <2>3. session.failures \in Nat
    BY DEF TypeInv, TypeOK, SessionRow
  <2>4. ~work[c].force => work[c].failures < MaxFailures
    BY <2>2 DEF BudgetInv, WithinBudget, At
  <2> QED
    BY <2>2, <2>3, <2>4
<1> QED
  BY <1>1, <1>2, <1>3, TypeCorrect, PTL DEF Spec, BudgetHolds

\* Why a job is where it is: its bound is the id of a row and lies beyond the
\* bound it saw, and it has failed only where that can no longer be true.
Grounded(w) ==
    w.op = "summary" =>
        /\ w.at \in {"plan", "previous", "turns"} /\ session.exists => w.bound \in Ids(messages)
        /\ w.at \in {"previous", "turns"} => w.seen < w.bound
        /\ w.at \in {"generate", "store"} => w.called
        /\ w.at = "failed" /\ session.exists => w.called \/ w.from # w.seen
GroundsInv == \A c \in Client : Grounded(work[c])

LEMMA GroundsKept ==
    ASSUME TypeInv, GroundsInv, NEW c \in Client, Step(c)
    PROVE  GroundsInv'
<1>1. session'.exists => session.exists /\ Ids(messages) \subseteq Ids(messages')
  BY SessionEffect, IdsEffect
<1> SUFFICES ASSUME NEW d \in Client, work'[d].op = "summary"
             PROVE  Grounded(work[d])'
  BY DEF GroundsInv, Grounded
<1>2. CASE d # c /\ work'[d] = work[d]
  BY <1>1, <1>2 DEF GroundsInv, Grounded
<1>3. CASE d = c /\ work'[c].at = "budget"
  BY <1>3 DEF Grounded
<1>4. CASE d = c /\ work[c].op = "summary" /\ JobMove(work[c], work'[c])
  <2> DEFINE w == work[c]  v == work'[c]
  <2>1. Grounded(w)
    BY DEF GroundsInv
  <2>2. w \in JobWork /\ session.upto \in Nat
    BY <1>4, JobTyped DEF TypeInv, TypeOK, SessionRow
  <2>3. /\ w.seen \in Nat /\ w.from \in Nat /\ w.bound \in Nat
    BY <2>2 DEF JobWork
  <2>4. CASE w.at = "turns" /\ v.at = "failed" /\ session'.exists
    <3>1. w.bound \in Ids(messages) /\ w.seen < w.bound
      BY <1>1, <1>4, <2>1, <2>4 DEF Grounded
    <3>2. v.from = w.from /\ v.seen = w.seen /\ ~(w.from < w.bound /\ w.bound <= w.bound)
      BY <1>4, <2>4, <3>1 DEF JobMove
    <3> QED
      BY <1>4, <2>3, <2>4, <3>1, <3>2 DEF Grounded
  <2>5. CASE ~(w.at = "turns" /\ v.at = "failed" /\ session'.exists)
    BY <1>1, <1>4, <2>1, <2>5 DEF JobMove, Grounded
  <2> QED
    BY <2>4, <2>5
<1> QED
  BY <1>2, <1>3, <1>4, JobCases

\* A failure stands for a call of the model or for a summary another job has
\* moved: a job that planned to fold in a row finds at least that row, unless
\* the bound it then reads is not the one it had planned from.
THEOREM FailuresCorrect == Spec => OnlyCallsFail
<1>1. Init => GroundsInv
  BY NoJobs DEF GroundsInv, Grounded
<1>2. TypeInv /\ GroundsInv /\ [Next]_vars => GroundsInv'
  <2> SUFFICES ASSUME TypeInv, GroundsInv, [Next]_vars PROVE GroundsInv'
    OBVIOUS
  <2>1. CASE Next
    BY <2>1, GroundsKept DEF Next, Step
  <2>2. CASE UNCHANGED vars
    BY <2>2 DEF vars, GroundsInv, Grounded, Ids
  <2> QED
    BY <2>1, <2>2
<1>3. TypeInv /\ GroundsInv /\ [Next]_vars =>
        [session'.failures > session.failures =>
           \E c \in Client : /\ At(c, "summary", "failed")
                             /\ work[c].called \/ work[c].from # work[c].seen]_vars
  <2> SUFFICES ASSUME TypeInv, GroundsInv, Next, session'.failures > session.failures
               PROVE  \E c \in Client : /\ At(c, "summary", "failed")
                                        /\ work[c].called \/ work[c].from # work[c].seen
    OBVIOUS
  <2>1. PICK c \in Client : Step(c)
    BY DEF Next, Step
  <2>2. At(c, "summary", "failed") /\ session.exists
    BY <2>1, SessionEffect
  <2> QED
    BY <2>2 DEF GroundsInv, Grounded, At
<1> QED
  BY <1>1, <1>2, <1>3, TypeCorrect, PTL DEF Spec, OnlyCallsFail

\* What a job holds by the time it stores it: every row up to its bound, folded
\* in or cut; none can still be added below.
Covers(rows, seen, bound) == {i \in Ids(rows) : i <= bound} \subseteq seen
Covered(w) ==
    w.op = "summary" /\ session.exists =>
        /\ w.at \in {"plan", "previous", "turns", "generate", "store"} => w.bound <= lastId
        /\ w.at = "turns" =>
              w.from <= lastId /\ Covers(messages, w.folded \cup w.cut, w.from)
        /\ w.at \in {"generate", "store"} => Covers(messages, w.folded \cup w.cut, w.bound)
SummaryInv ==
    /\ session.exists =>
         /\ session.upto <= lastId
         /\ Covers(messages, session.folded \cup session.cut, session.upto)
    /\ \A c \in Client : Covered(work[c])

\* New rows are beyond every bound taken so far.
LEMMA CoverKept ==
    ASSUME TypeInv, NEW c \in Client, Step(c), NEW seen, NEW bound \in Nat,
           bound <= lastId
    PROVE  /\ bound <= lastId'
           /\ Covers(messages, seen, bound) => Covers(messages', seen, bound)
<1>1. \A i \in Ids(messages') : i \in Ids(messages) \/ i = lastId + 1
  BY IdsEffect
<1>2. lastId \in Nat /\ lastId' \in Nat /\ lastId <= lastId'
  BY IdsEffect, IdBounds
<1> QED
  BY <1>1, <1>2 DEF Covers

LEMMA SummaryKept ==
    ASSUME TypeInv, SummaryInv, NEW c \in Client, Step(c)
    PROVE  SummaryInv'
<1> SUFFICES ASSUME session'.exists PROVE SummaryInv'
  BY DEF SummaryInv, Covered
<1>1. session.exists /\ session.upto \in Nat
  BY SessionEffect DEF TypeInv, TypeOK, SessionRow
<1>2. /\ session'.upto <= lastId'
      /\ Covers(messages', session'.folded \cup session'.cut, session'.upto)
  <2>1. CASE /\ session'.upto = session.upto
             /\ session'.folded = session.folded /\ session'.cut = session.cut
    BY <1>1, <2>1, CoverKept DEF SummaryInv
  <2>2. CASE /\ StoreSummary(c) /\ session'.upto = work[c].bound
             /\ session'.folded = work[c].folded /\ session'.cut = work[c].cut
    <3>1. work[c].op = "summary" /\ work[c].at = "store"
      BY <2>2 DEF StoreSummary, At
    <3>2. work[c].bound \in Nat
      BY <3>1, JobTyped DEF JobWork
    <3>3. /\ work[c].bound <= lastId
          /\ Covers(messages, work[c].folded \cup work[c].cut, work[c].bound)
      BY <1>1, <3>1 DEF SummaryInv, Covered
    <3> QED
      BY <2>2, <3>2, <3>3, CoverKept
  <2> QED
    BY <2>1, <2>2, SessionEffect
<1>3. ASSUME NEW d \in Client, work[d].op = "summary"
      PROVE  /\ work[d].bound \in Nat /\ work[d].from \in Nat
             /\ work[d].bound <= lastId => work[d].bound <= lastId'
             /\ work[d].from <= lastId => work[d].from <= lastId'
             /\ \A seen :
                  /\ work[d].bound <= lastId /\ Covers(messages, seen, work[d].bound)
                        => Covers(messages', seen, work[d].bound)
                  /\ work[d].from <= lastId /\ Covers(messages, seen, work[d].from)
                        => Covers(messages', seen, work[d].from)
  <2>1. work[d].bound \in Nat /\ work[d].from \in Nat
    BY <1>3, JobTyped DEF JobWork
  <2> QED
    BY <2>1, CoverKept
<1>4. ASSUME NEW d \in Client, work'[d].op = "summary"
      PROVE  Covered(work[d])'
  <2>1. CASE d # c /\ work'[d] = work[d]
    BY <1>1, <1>3, <2>1 DEF SummaryInv, Covered
  <2>2. CASE d = c /\ work'[c].at = "budget"
    BY <2>2 DEF Covered
  <2>3. CASE d = c /\ work[c].op = "summary" /\ JobMove(work[c], work'[c])
    <3> DEFINE w == work[c]  v == work'[c]
    <3>1. Covered(w) /\ w \in JobWork
      BY <2>3, JobTyped DEF SummaryInv
    <3>2. CASE w.at = "rows" /\ v.at = "plan"
      <4>1. v.bound <= lastId /\ v.bound \in Nat
        BY <2>3, <3>2, IdBounds DEF JobMove
      <4> QED
        BY <2>3, <3>2, <4>1, CoverKept DEF Covered
    <3>3. CASE w.at = "plan" /\ v.at = "previous"
      BY <1>1, <1>3, <2>3, <3>1, <3>3 DEF JobMove, Covered
    <3>4. CASE w.at = "previous" /\ v.at = "turns"
      <4>1. /\ v.bound = w.bound /\ v.from = session.upto
            /\ v.folded = session.folded /\ v.cut = session.cut
        BY <1>1, <2>3, <3>4 DEF JobMove
      <4>2. v.from <= lastId' /\ Covers(messages', v.folded \cup v.cut, v.from)
        BY <1>1, <4>1, CoverKept DEF SummaryInv
      <4>3. v.bound <= lastId'
        BY <1>1, <1>3, <2>3, <3>1, <3>4, <4>1 DEF Covered
      <4> QED
        BY <2>3, <3>4, <4>2, <4>3 DEF Covered
    <3>5. CASE w.at = "turns" /\ v.at = "generate"
      <4>1. /\ v.bound = w.bound /\ w.folded \cup w.cut \subseteq v.folded \cup v.cut
            /\ {i \in Ids(messages) : w.from < i /\ i <= w.bound}
                  \subseteq v.folded \cup v.cut
        BY <2>3, <3>5 DEF JobMove
      <4>2. w.bound <= lastId /\ Covers(messages, w.folded \cup w.cut, w.from)
        BY <1>1, <2>3, <3>1, <3>5 DEF Covered
      <4>3. Covers(messages, v.folded \cup v.cut, w.bound)
        <5>1. \A i \in Ids(messages) : i \in Nat
          BY IdBounds
        <5>2. w.from \in Nat /\ w.bound \in Nat
          BY <3>1 DEF JobWork
        <5> QED
          BY <4>1, <4>2, <5>1, <5>2 DEF Covers
      <4> QED
        BY <1>3, <2>3, <3>5, <4>1, <4>2, <4>3 DEF Covered
    <3>6. CASE w.at = "generate" /\ v.at \in {"store", "failed"}
      BY <1>1, <1>3, <2>3, <3>1, <3>6 DEF JobMove, Covered
    <3>7. v.at \in {"plan", "previous", "turns", "generate", "store"} =>
            \/ w.at = "rows" /\ v.at = "plan"
            \/ w.at = "plan" /\ v.at = "previous"
            \/ w.at = "previous" /\ v.at = "turns"
            \/ w.at = "turns" /\ v.at = "generate"
            \/ w.at = "generate" /\ v.at \in {"store", "failed"}
      BY <2>3 DEF JobMove
    <3> QED
      BY <2>3, <3>2, <3>3, <3>4, <3>5, <3>6, <3>7 DEF Covered
  <2> QED
    BY <1>4, <2>1, <2>2, <2>3, JobCases
<1> QED
  BY <1>2, <1>4 DEF SummaryInv, Covered

\* The first rows of a session are those its summary was made from.
LEMMA SummaryBegins == ASSUME Init PROVE SummaryInv
<1>1. PICK n \in 0..MaxPast, gap \in Gap, home \in Home,
           failures \in {0, MaxFailures - 1}, k \in 0..2 * MaxPast :
        AtRest(n, gap, home, failures, k)
  BY DEF Init
<1> DEFINE rows == PastRows(n, gap)
           upto == IF k = 0 THEN 0 ELSE rows[k].id
           folded == {rows[i].id : i \in 1..k}
<1>2. n \in Nat /\ gap \in Nat /\ k \in Nat /\ 2 * n \in Nat
  OBVIOUS
<1>3. k <= 2 * n
  BY <1>1, <1>2 DEF AtRest
<1>4. DOMAIN rows = 1..2 * n /\ \A i \in 1..2 * n : rows[i].id = gap + i
  BY <1>2 DEF PastRows
<1> HIDE DEF rows
<1>5. upto = IF k = 0 THEN 0 ELSE gap + k
  <2>1. k # 0 => k \in 1..2 * n
    BY <1>2, <1>3
  <2> QED
    BY <1>4, <2>1
<1>6. /\ session.upto = upto /\ session.folded = folded /\ session.cut = {}
      /\ messages = rows /\ lastId = gap + 2 * n
  BY <1>1 DEF AtRest, rows
<1>7. upto <= lastId
  BY <1>2, <1>3, <1>5, <1>6
<1>8. Covers(messages, folded, upto)
  <2>1. ASSUME NEW i \in 1..2 * n, gap + i <= upto PROVE i \in 1..k
    BY <1>2, <1>5, <2>1
  <2> QED
    BY <1>4, <1>6, <2>1 DEF Covers, Ids
<1> QED
  BY <1>6, <1>7, <1>8, NoJobs DEF SummaryInv, Covered

\* The summary is made from every row up to its bound but those a transcript had
\* no room for.  Two jobs may both fold in the same rows and store in either
\* order; each stores what it has read together with the bound it has read to,
\* and no row is ever added below one.
THEOREM SummaryCorrect == Spec => []SummaryMissesOnlyTheCut
<1>1. Init => SummaryInv
  BY SummaryBegins
<1>2. TypeInv /\ SummaryInv /\ [Next]_vars => SummaryInv'
  <2> SUFFICES ASSUME TypeInv, SummaryInv, [Next]_vars PROVE SummaryInv'
    OBVIOUS
  <2>1. CASE Next
    BY <2>1, SummaryKept DEF Next, Step
  <2>2. CASE UNCHANGED vars
    BY <2>2 DEF vars, SummaryInv, Covered, Covers, Ids
  <2> QED
    BY <2>1, <2>2
<1>3. SummaryInv => SummaryMissesOnlyTheCut
  BY DEF SummaryInv, Covers, SummaryMissesOnlyTheCut
<1> QED
  BY <1>1, <1>2, <1>3, TypeCorrect, PTL DEF Spec

(***************************************************************************)
(* A turn                                                                  *)
(***************************************************************************)
LEMMA NewestRows ==
    ASSUME NEW S, NEW rows \in Seq(S), NEW n \in Nat
    PROVE  /\ Newest(rows, n) \in Seq(S)
           /\ Len(Newest(rows, n)) = IF Len(rows) > n THEN n ELSE Len(rows)
           /\ \A i \in 1..Len(Newest(rows, n)) :
                Newest(rows, n)[i] = rows[i + (Len(rows) - Len(Newest(rows, n)))]
<1> DEFINE first == IF Len(rows) > n THEN Len(rows) - n + 1 ELSE 1
           late == SubSeq(rows, first, Len(rows))
<1>1. Newest(rows, n) = late
  BY DEF Newest
<1>2. Len(rows) \in Nat /\ first \in Nat \ {0} /\ first <= Len(rows) + 1
  OBVIOUS
<1> HIDE DEF first
<1>3. /\ late \in Seq(S) /\ Len(late) = Len(rows) + 1 - first
      /\ \A i \in 1..Len(rows) + 1 - first : late[i] = rows[first + i - 1]
  BY <1>2
<1>4. Len(rows) + 1 - first = IF Len(rows) > n THEN n ELSE Len(rows)
  BY <1>2 DEF first
<1> HIDE DEF late
<1>5. ASSUME NEW i \in 1..Len(late)
      PROVE  late[i] = rows[i + (Len(rows) - Len(late))]
  <2>1. i \in Nat /\ i + (Len(rows) - Len(late)) = first + i - 1
    BY <1>2, <1>3
  <2> QED
    BY <1>3, <2>1
<1> QED
  BY <1>1, <1>3, <1>4, <1>5

\* Whatever the budget lets through, the newest row of the session is not shown.
LEMMA NewestIsDropped ==
    ASSUME NEW rows \in Seq(MessageRow), NEW n \in 0..Len(Newest(rows, Window)), NEW id,
           id \in Ids(IF n = 0 THEN Newest(Newest(rows, Window), n)
                      ELSE SubSeq(Newest(Newest(rows, Window), n), 1, n - 1))
    PROVE  \E i \in DOMAIN rows : rows[i].id = id /\ i < Len(rows)
<1> DEFINE recent == Newest(rows, Window)
           late == Newest(recent, n)
<1>1. /\ recent \in Seq(MessageRow) /\ Len(recent) <= Len(rows)
      /\ \A i \in 1..Len(recent) : recent[i] = rows[i + (Len(rows) - Len(recent))]
  BY NewestRows
<1>2. n \in Nat /\ n <= Len(recent) /\ Len(recent) \in Nat /\ Len(rows) \in Nat
  BY <1>1
<1> HIDE DEF recent
<1>3. /\ late \in Seq(MessageRow) /\ Len(late) = n
      /\ \A i \in 1..n : late[i] = recent[i + (Len(recent) - n)]
  <2>1. /\ late \in Seq(MessageRow) /\ Len(late) = IF Len(recent) > n THEN n ELSE Len(recent)
        /\ \A i \in 1..Len(late) : late[i] = recent[i + (Len(recent) - Len(late))]
    BY <1>1, <1>2, NewestRows
  <2>2. Len(late) = n
    BY <1>2, <2>1
  <2> QED
    BY <2>1, <2>2
<1>4. id \in Ids(IF n = 0 THEN late ELSE SubSeq(late, 1, n - 1))
  BY DEF recent
<1> HIDE DEF late
<1>5. CASE n = 0
  <2>1. DOMAIN late = {}
    BY <1>3, <1>5
  <2> QED
    BY <1>4, <1>5, <2>1 DEF Ids
<1>6. CASE n # 0
  <2>1. /\ DOMAIN SubSeq(late, 1, n - 1) = 1..(n - 1)
        /\ \A i \in 1..(n - 1) : SubSeq(late, 1, n - 1)[i] = late[i]
    BY <1>2, <1>3, <1>6
  <2>2. PICK i \in 1..(n - 1) : late[i].id = id
    BY <1>4, <1>6, <2>1 DEF Ids
  <2>3. i \in 1..n /\ i + (Len(recent) - n) \in 1..Len(recent)
    BY <1>2, <1>6
  <2> DEFINE j == i + (Len(recent) - n) + (Len(rows) - Len(recent))
  <2>4. rows[j].id = id
    BY <1>1, <1>3, <2>2, <2>3
  <2>5. j \in 1..Len(rows) /\ j < Len(rows)
    BY <1>1, <1>2, <2>3
  <2> QED
    BY <2>4, <2>5
<1> QED
  BY <1>5, <1>6

\* A step of a turn: what it reads, and what it remembers.
TurnMove(w, v) ==
    \/ /\ w.at = "load" /\ v.at = "scope" /\ session.exists /\ v.row = session
       /\ v.scope = w.scope /\ v.question = w.question /\ v.history = w.history
    \/ /\ w.at = "scope" /\ v.at = "ask"
       /\ v.scope = IF w.row.scope = None THEN Requested(w) ELSE w.row.scope
       /\ v.row = w.row /\ v.question = w.question /\ v.history = w.history
    \/ /\ w.at = "history" /\ v.at = "reply"
       /\ \A id \in v.history : \E i \in DOMAIN messages : messages[i].id = id /\ i < Len(messages)
       /\ v.row = w.row /\ v.scope = w.scope /\ v.question = w.question
    \/ /\ v.row = w.row /\ v.scope = w.scope /\ v.history = w.history
       /\ \/ v.at = "done" /\ v.question = w.question
          \/ w.at = "ask" /\ v.at = "prompt" /\ session.exists /\ v.question = lastId + 1
          \/ w.at = "prompt" /\ v.at = "history" /\ v.question = w.question
          \/ w.at = "reply" /\ v.at = "after" /\ v.question = w.question

LEMMA TurnEffect ==
    ASSUME TypeInv, NEW c \in Client, Step(c), work[c].op = "turn"
    PROVE  work[c] \in TurnWork /\ work'[c].op = "turn" /\ TurnMove(work[c], work'[c])
<1>1. work[c] \in TurnWork /\ work \in [Client -> Work] /\ messages \in Seq(MessageRow)
  BY TurnTyped DEF TypeInv, TypeOK
<1>2. CASE To(c, "done")
  <2> DEFINE v == [work[c] EXCEPT !.at = "done"]
  <2>1. work'[c] = v
    BY <1>1, <1>2 DEF To
  <2>2. /\ v.op = "turn" /\ v.at = "done" /\ v.row = work[c].row /\ v.scope = work[c].scope
        /\ v.question = work[c].question /\ v.history = work[c].history
    BY <1>1 DEF TurnWork
  <2> HIDE DEF v
  <2> QED
    BY <1>1, <2>1, <2>2 DEF TurnMove
<1>3. CASE LoadSession(c)
  <2>1. CASE session.exists
    <3> DEFINE v == [[work[c] EXCEPT !.row = session] EXCEPT !.at = "scope"]
    <3>1. work'[c] = v /\ work[c].at = "load"
      BY <1>1, <1>3, <2>1 DEF LoadSession, With, At
    <3>2. /\ v.op = "turn" /\ v.at = "scope" /\ v.row = session /\ v.scope = work[c].scope
          /\ v.question = work[c].question /\ v.history = work[c].history
      BY <1>1 DEF TurnWork
    <3> HIDE DEF v
    <3> QED
      BY <1>1, <2>1, <3>1, <3>2 DEF TurnMove
  <2> QED
    BY <1>2, <1>3, <2>1 DEF LoadSession
<1>4. CASE LockScope(c)
  <2> DEFINE used == IF work[c].row.scope = None THEN Requested(work[c]) ELSE work[c].row.scope
             v == [[work[c] EXCEPT !.scope = used] EXCEPT !.at = "ask"]
  <2>1. work'[c] = v /\ work[c].at = "scope"
    BY <1>1, <1>4 DEF LockScope, With, At
  <2>2. used = IF work[c].row.scope = None THEN Requested(work[c]) ELSE work[c].row.scope
    OBVIOUS
  <2> HIDE DEF used
  <2>3. /\ v.op = "turn" /\ v.at = "ask" /\ v.row = work[c].row /\ v.scope = used
        /\ v.question = work[c].question /\ v.history = work[c].history
    BY <1>1 DEF TurnWork
  <2> HIDE DEF v
  <2> QED
    BY <1>1, <2>1, <2>2, <2>3 DEF TurnMove
<1>5. CASE AskQuestion(c)
  <2>1. CASE session.exists
    <3> DEFINE v == [[work[c] EXCEPT !.question = lastId + 1] EXCEPT !.at = "prompt"]
    <3>1. work'[c] = v /\ work[c].at = "ask"
      BY <1>1, <1>5, <2>1 DEF AskQuestion, With, At
    <3>2. /\ v.op = "turn" /\ v.at = "prompt" /\ v.row = work[c].row
          /\ v.scope = work[c].scope /\ v.question = lastId + 1 /\ v.history = work[c].history
      BY <1>1 DEF TurnWork
    <3> HIDE DEF v
    <3> QED
      BY <1>1, <2>1, <3>1, <3>2 DEF TurnMove
  <2> QED
    BY <1>2, <1>5, <2>1 DEF AskQuestion
<1>6. CASE FreezePrompt(c)
  <2> DEFINE used == IF work[c].row.prompt = None THEN work[c].scope ELSE work[c].row.prompt
             v == [[work[c] EXCEPT !.prompt = used] EXCEPT !.at = "history"]
  <2>1. work'[c] = v /\ work[c].at = "prompt"
    BY <1>1, <1>6 DEF FreezePrompt, With, At
  <2> HIDE DEF used
  <2>2. /\ v.op = "turn" /\ v.at = "history" /\ v.row = work[c].row /\ v.scope = work[c].scope
        /\ v.question = work[c].question /\ v.history = work[c].history
    BY <1>1 DEF TurnWork
  <2> HIDE DEF v
  <2> QED
    BY <1>1, <2>1, <2>2 DEF TurnMove
<1>7. CASE BuildHistory(c)
  <2>1. PICK n \in 0..Len(Newest(messages, Window)) :
          LET rows == Newest(Newest(messages, Window), n)
          IN  With(c, [work[c] EXCEPT !.history =
                  Ids(IF n = 0 THEN rows ELSE SubSeq(rows, 1, n - 1))], "reply")
    BY <1>7 DEF BuildHistory, RecentMessages
  <2> DEFINE rows == Newest(Newest(messages, Window), n)
             shown == Ids(IF n = 0 THEN rows ELSE SubSeq(rows, 1, n - 1))
             v == [[work[c] EXCEPT !.history = shown] EXCEPT !.at = "reply"]
  <2>2. work'[c] = v /\ work[c].at = "history"
    BY <1>1, <1>7, <2>1 DEF BuildHistory, With, At
  <2>3. \A id \in shown : \E i \in DOMAIN messages : messages[i].id = id /\ i < Len(messages)
    BY <1>1, NewestIsDropped
  <2> HIDE DEF shown
  <2>4. /\ v.op = "turn" /\ v.at = "reply" /\ v.row = work[c].row /\ v.scope = work[c].scope
        /\ v.question = work[c].question /\ v.history = shown
    BY <1>1 DEF TurnWork
  <2> HIDE DEF v
  <2> QED
    BY <1>1, <2>2, <2>3, <2>4 DEF TurnMove
<1>8. CASE Reply(c)
  <2>1. CASE With(c, [work[c] EXCEPT !.answered = TRUE], "after")
    <3> DEFINE v == [[work[c] EXCEPT !.answered = TRUE] EXCEPT !.at = "after"]
    <3>1. work'[c] = v /\ work[c].at = "reply"
      BY <1>1, <1>8, <2>1 DEF Reply, With, At
    <3>2. /\ v.op = "turn" /\ v.at = "after" /\ v.row = work[c].row /\ v.scope = work[c].scope
          /\ v.question = work[c].question /\ v.history = work[c].history
      BY <1>1 DEF TurnWork
    <3> HIDE DEF v
    <3> QED
      BY <1>1, <3>1, <3>2 DEF TurnMove
  <2> QED
    BY <1>2, <1>8, <2>1 DEF Reply
<1>9. CASE AfterTurn(c) \/ Killed(c)
  BY <1>2, <1>9 DEF AfterTurn, Killed
<1> QED
  BY <1>3, <1>4, <1>5, <1>6, <1>7, <1>8, <1>9, StepsOf DEF TurnStep

\* A request that is no turn yet begins as one that has read nothing.
LEMMA TurnBegins ==
    ASSUME TypeInv, NEW c \in Client, Step(c), work[c].op # "turn", work'[c].op = "turn"
    PROVE  /\ work'[c].at = "load" /\ work'[c].row = None /\ work'[c].scope = None
           /\ work'[c].question = 0 /\ work'[c].history = {}
<1>1. work \in [Client -> Work] /\ work[c] = Idle
  BY OpKept DEF TypeInv, TypeOK
<1>2. CASE Note(c) \/ StartConfirm(c)
  <2>1. \E todo : work'[c] = Confirming(session.home, todo) \/ work'[c] = Finished
    BY <1>1, <1>2 DEF Note, StartConfirm
  <2> QED
    BY <2>1 DEF Confirming, Finished
<1>3. CASE DeleteSession(c) \/ DeleteCollection(c) \/ EditPreference(c) \/ EditEntry(c)
           \/ DeleteEntry(c)
  BY <1>1, <1>3 DEF DeleteSession, DeleteCollection, EditPreference, EditEntry, DeleteEntry,
                    Finished
<1>4. CASE StartReject(c) \/ StartEdit(c)
  BY <1>1, <1>4 DEF StartReject, StartEdit
<1>5. CASE StartCompact(c) \/ StartJob(c)
  BY <1>1, <1>5 DEF StartCompact, StartJob, Job
<1>6. CASE StartTurn(c)
  BY <1>1, <1>6 DEF StartTurn
<1> QED
  BY <1>1, <1>2, <1>3, <1>4, <1>5, <1>6, StepsOf DEF Begin

LEMMA TurnCases ==
    ASSUME TypeInv, NEW c \in Client, Step(c), NEW d \in Client, work'[d].op = "turn"
    PROVE  \/ d # c /\ work'[d] = work[d]
           \/ /\ d = c /\ work[c].op # "turn"
              /\ work'[c].at = "load" /\ work'[c].row = None /\ work'[c].scope = None
              /\ work'[c].question = 0 /\ work'[c].history = {}
           \/ d = c /\ work[c].op = "turn" /\ TurnMove(work[c], work'[c])
BY OneMoves, TurnEffect, TurnBegins

\* A turn has no scope before it locks one, and no row before it loads one.
Fresh(w) ==
    w.op = "turn" =>
        /\ w.at = "load" => w.row = None
        /\ w.at \in {"load", "scope"} => w.scope = None

\* As long as the session's scope is undecided nobody works with one.
Undecided ==
    /\ session.prompt = None
    /\ \A c \in Client : work[c].op = "turn" =>
         work[c].scope = None /\ (work[c].row # None => work[c].row.scope = None)

TwoFirst == \E c, d \in FirstTurns : c # d

\* Everything that has been read from the scope, or made from it, is the scope.
Agreed ==
    /\ \A c \in Client : work[c].op = "turn" =>
         /\ work[c].scope # None => work[c].scope = session.scope
         /\ work[c].row # None /\ work[c].row.scope # None => work[c].row.scope = session.scope
    /\ session.prompt # None => session.prompt = session.scope

\* A turn that still holds an undecided row finds the scope decided only if
\* another one has been first.
ScopeInv ==
    /\ \A c \in Client : Fresh(work[c])
    /\ session.exists =>
         /\ session.scope = None => Undecided
         /\ session.scope # None /\ FirstTurns = {} =>
              \A c \in Client :
                work[c].op = "turn" /\ work[c].row # None => work[c].row.scope # None
         /\ TwoFirst \/ Agreed

LEMMA FreshKept ==
    ASSUME TypeInv, NEW c \in Client, Step(c), \A d \in Client : Fresh(work[d])
    PROVE  \A d \in Client : Fresh(work'[d])
<1> SUFFICES ASSUME NEW d \in Client, work'[d].op = "turn"
             PROVE  Fresh(work'[d])
  BY DEF Fresh
<1>1. CASE d = c /\ work[c].op = "turn" /\ TurnMove(work[c], work'[c])
  BY <1>1 DEF TurnMove, Fresh
<1> QED
  BY <1>1, TurnCases DEF Fresh

\* Only the step that locks the scope goes on to the question.
LEMMA AskIsLocked ==
    ASSUME TypeInv, NEW c \in Client, Step(c), work[c].op = "turn",
           work[c].at = "scope", work'[c].at = "ask"
    PROVE  LockScope(c)
<1>1. ~Killed(c)
  <2> SUFFICES ASSUME To(c, "done") PROVE FALSE
    BY DEF Killed
  <2> DEFINE v == [work[c] EXCEPT !.at = "done"]
  <2>1. work'[c] = v /\ work[c] \in TurnWork
    BY TurnTyped DEF To, TypeInv, TypeOK
  <2>2. v.at = "done"
    BY <2>1 DEF TurnWork
  <2> QED
    BY <2>1, <2>2
<1>2. /\ LoadSession(c) => work[c].at = "load"
      /\ AskQuestion(c) => work[c].at = "ask"
      /\ FreezePrompt(c) => work[c].at = "prompt"
      /\ BuildHistory(c) => work[c].at = "history"
      /\ Reply(c) => work[c].at = "reply"
      /\ AfterTurn(c) => work[c].at = "after"
  BY DEF LoadSession, AskQuestion, FreezePrompt, BuildHistory, Reply, AfterTurn, At
<1> QED
  BY <1>1, <1>2, StepsOf DEF TurnStep

\* The rows and scopes of the turns in flight after a step.
LEMMA TurnReads ==
    ASSUME TypeInv, \A d \in Client : Fresh(work[d]), NEW c \in Client, Step(c),
           session.exists, NEW d \in Client, work'[d].op = "turn"
    PROVE  /\ \/ work'[d].row = None
              \/ work[d].op = "turn" /\ work'[d].row = work[d].row
              \/ d = c /\ work[c].at = "load" /\ work'[d].row = session
           /\ \/ work'[d].scope = None
              \/ work[d].op = "turn" /\ work'[d].scope = work[d].scope
              \/ /\ d = c /\ LockScope(c)
                 /\ work'[d].scope = IF work[d].row.scope = None THEN Requested(work[d])
                                     ELSE work[d].row.scope
<1>1. CASE d = c /\ work[c].op = "turn" /\ TurnMove(work[c], work'[c])
  <2>1. work[c].at = "scope" /\ work'[c].at = "ask" => LockScope(c)
    BY <1>1, AskIsLocked
  <2> QED
    BY <1>1, <2>1 DEF TurnMove
<1> QED
  BY <1>1, TurnCases

\* Turns that were first stay so.
LEMMA FirstTurnsKept ==
    ASSUME TypeInv, NEW c \in Client, Step(c), \A d \in Client : Fresh(work[d])
    PROVE  FirstTurns \subseteq FirstTurns'
<1> SUFFICES ASSUME NEW d \in FirstTurns PROVE d \in FirstTurns'
  OBVIOUS
<1>1. /\ d \in Client /\ work[d].op = "turn" /\ work[d].at # "load" /\ work[d].row # None
      /\ work[d].row.scope = None /\ work[d].scope # None
  BY DEF FirstTurns
<1>2. work[d].at # "scope"
  BY <1>1 DEF Fresh
<1>3. CASE d # c
  BY <1>1, <1>3, OneMoves DEF FirstTurns
<1>4. CASE d = c
  <2>1. work'[c].op = "turn" /\ TurnMove(work[c], work'[c])
    BY <1>1, <1>4, TurnEffect
  <2>2. work'[c].row = work[c].row /\ work'[c].scope = work[c].scope /\ work'[c].at # "load"
    BY <1>1, <1>2, <1>4, <2>1 DEF TurnMove
  <2> QED
    BY <1>1, <1>4, <2>1, <2>2 DEF FirstTurns
<1> QED
  BY <1>3, <1>4

\* Locking an undecided scope makes a turn one of the first.
LEMMA LockEffect ==
    ASSUME TypeInv, \A d \in Client : Fresh(work[d]), NEW c \in Client, Step(c), LockScope(c)
    PROVE  /\ work[c].op = "turn" /\ work[c].row \in SessionRow
           /\ work[c].scope = None /\ Requested(work[c]) \in Scope
           /\ work'[c].op = "turn" /\ work'[c].row = work[c].row
           /\ work'[c].scope = IF work[c].row.scope = None THEN Requested(work[c])
                               ELSE work[c].row.scope
           /\ work[c].row.scope = None => c \in FirstTurns' /\ c \notin FirstTurns
           /\ work[c].row.scope # None => session' = session
           /\ work[c].row.scope = None /\ session.exists
                => session'.scope = Requested(work[c]) /\ session'.prompt = session.prompt
<1>1. work[c].op = "turn" /\ work[c].at = "scope" /\ work[c] \in TurnWork
  BY TurnTyped DEF LockScope, At
<1>2. work[c].row \in SessionRow /\ work[c].scope = None
  BY <1>1 DEF TypeInv, Staged, Fresh
<1>3. Requested(work[c]) \in Scope
  BY <1>1, <1>2 DEF Requested, SessionRow, TurnWork, Scope
<1>4. work'[c].op = "turn" /\ TurnMove(work[c], work'[c])
  BY <1>1, TurnEffect
<1>5. work'[c].at # "done"
  <2> DEFINE v == [work[c] EXCEPT !.scope = IF work[c].row.scope = None THEN Requested(work[c])
                                            ELSE work[c].row.scope]
             u == [v EXCEPT !.at = "ask"]
  <2>1. v \in [DOMAIN work[c] -> {v[f] : f \in DOMAIN work[c]}] /\ "at" \in DOMAIN work[c]
    BY <1>1 DEF TurnWork
  <2>2. work'[c] = u
    BY DEF LockScope, With, TypeInv, TypeOK
  <2> HIDE DEF v
  <2> QED
    BY <2>1, <2>2
<1>6. /\ work'[c].at = "ask" /\ work'[c].row = work[c].row
      /\ work'[c].scope = IF work[c].row.scope = None THEN Requested(work[c])
                          ELSE work[c].row.scope
  BY <1>1, <1>4, <1>5 DEF TurnMove
<1>7. Requested(work[c]) # None /\ None # work[c].row
  BY <1>2, <1>3
<1>8. work[c].row.scope = None => c \in FirstTurns' /\ c \notin FirstTurns
  BY <1>2, <1>4, <1>6, <1>7 DEF FirstTurns
<1>9. session \in SessionRow
  BY DEF TypeInv, TypeOK
<1>10. /\ work[c].row.scope # None => session' = session
       /\ work[c].row.scope = None /\ session.exists
            => session'.scope = Requested(work[c]) /\ session'.prompt = session.prompt
  BY <1>9 DEF LockScope, SetScope, UpdateSession, SessionRow
<1> QED
  BY <1>1, <1>2, <1>3, <1>4, <1>6, <1>8, <1>10

LEMMA ScopeKept ==
    ASSUME TypeInv, ScopeInv, NEW c \in Client, Step(c)
    PROVE  ScopeInv'
<1>1. \A d \in Client : Fresh(work[d])
  BY DEF ScopeInv
<1>2. \A d \in Client : Fresh(work'[d])
  BY <1>1, FreshKept
<1> SUFFICES ASSUME session'.exists
             PROVE  /\ session'.scope = None => Undecided'
                    /\ session'.scope # None /\ FirstTurns' = {} =>
                         \A d \in Client : work'[d].op = "turn" /\ work'[d].row # None
                                              => work'[d].row.scope # None
                    /\ TwoFirst' \/ Agreed'
  BY <1>2 DEF ScopeInv, Fresh
<1>3. session.exists /\ session \in SessionRow /\ session # None
  BY SessionEffect DEF TypeInv, TypeOK
<1>4. TwoFirst => TwoFirst'
  BY <1>1, FirstTurnsKept DEF TwoFirst
<1>5. CASE LockScope(c) /\ work[c].row.scope = None
  <2>1. /\ session'.scope = Requested(work[c]) /\ session'.scope # None
        /\ session'.prompt = session.prompt
        /\ c \in FirstTurns' /\ c \notin FirstTurns /\ work[c].op = "turn" /\ work[c].row # None
    BY <1>1, <1>3, <1>5, LockEffect
  <2>2. CASE session.scope # None
    <3>1. FirstTurns # {}
      BY <1>3, <1>5, <2>1, <2>2 DEF ScopeInv
    <3> QED
      BY <1>1, <2>1, <3>1, FirstTurnsKept DEF TwoFirst
  <2>3. CASE session.scope = None
    <3>1. Undecided
      BY <1>3, <2>3 DEF ScopeInv
    <3>2. ASSUME NEW d \in Client, work'[d].op = "turn"
          PROVE  /\ work'[d].scope # None => work'[d].scope = session'.scope
                 /\ work'[d].row # None => work'[d].row.scope = None
      BY <1>1, <1>3, <1>5, <2>1, <2>3, <3>1, <3>2, TurnReads DEF Undecided
    <3> QED
      BY <2>1, <3>1, <3>2 DEF Agreed, Undecided
  <2> QED
    BY <2>1, <2>2, <2>3
<1>6. CASE ~(LockScope(c) /\ work[c].row.scope = None)
  <2>1. session'.scope = session.scope
    BY <1>6, SessionEffect
  <2>2. \/ session'.prompt = session.prompt
        \/ /\ work[c].op = "turn" /\ work[c].scope # None
           /\ session'.prompt = work[c].scope
    BY SessionEffect DEF FreezePrompt, At, TypeInv, Staged
  <2>3. ASSUME NEW d \in Client, work'[d].op = "turn"
        PROVE  /\ \/ work'[d].row = None
                  \/ work[d].op = "turn" /\ work'[d].row = work[d].row
                  \/ work'[d].row = session
               /\ \/ work'[d].scope = None
                  \/ work[d].op = "turn" /\ work'[d].scope = work[d].scope
                  \/ /\ work[d].op = "turn" /\ work[d].row # None /\ work[d].row.scope # None
                     /\ work'[d].scope = work[d].row.scope
    BY <1>1, <1>3, <1>6, <2>3, TurnReads, LockEffect
  <2>4. CASE session.scope = None
    <3>1. Undecided
      BY <1>3, <2>4 DEF ScopeInv
    <3>2. session'.prompt = None
      BY <2>2, <3>1 DEF Undecided
    <3>3. ASSUME NEW d \in Client, work'[d].op = "turn"
          PROVE  work'[d].scope = None /\ (work'[d].row # None => work'[d].row.scope = None)
      BY <2>3, <2>4, <3>1, <3>3 DEF Undecided
    <3> QED
      BY <2>1, <2>4, <3>2, <3>3 DEF Undecided, Agreed
  <2>5. CASE session.scope # None
    <3>1. ASSUME FirstTurns' = {}, NEW d \in Client, work'[d].op = "turn", work'[d].row # None
          PROVE  work'[d].row.scope # None
      <4>1. FirstTurns = {}
        BY <1>1, <3>1, FirstTurnsKept
      <4> QED
        BY <1>3, <2>3, <2>5, <3>1, <4>1 DEF ScopeInv
    <3>2. CASE Agreed
      <4>1. session'.prompt # None => session'.prompt = session'.scope
        BY <2>1, <2>2, <3>2 DEF Agreed
      <4>2. ASSUME NEW d \in Client, work'[d].op = "turn"
            PROVE  /\ work'[d].scope # None => work'[d].scope = session'.scope
                   /\ work'[d].row # None /\ work'[d].row.scope # None
                        => work'[d].row.scope = session'.scope
        BY <2>1, <2>3, <3>2, <4>2 DEF Agreed
      <4> QED
        BY <2>1, <2>5, <3>1, <4>1, <4>2 DEF Agreed
    <3> QED
      BY <1>3, <1>4, <2>1, <2>5, <3>1, <3>2 DEF ScopeInv
  <2> QED
    BY <2>4, <2>5
<1> QED
  BY <1>5, <1>6

\* A session has one scope, declared by its prompt and searched by its turns,
\* unless two of them were its first at once: the row is read once per turn, and
\* only a turn that has read it undecided writes it.
THEOREM ScopeCorrect == Spec => []OneScope
<1>1. Init => ScopeInv
  <2> SUFFICES ASSUME Init PROVE ScopeInv
    OBVIOUS
  <2>1. PICK n \in 0..MaxPast, gap \in Gap, home \in Home,
             failures \in {0, MaxFailures - 1}, k \in 0..2 * MaxPast :
          AtRest(n, gap, home, failures, k)
    BY DEF Init
  <2>2. session.prompt = session.scope
    BY <2>1 DEF AtRest
  <2> QED
    BY <2>2, NoJobs DEF ScopeInv, Fresh, Undecided, Agreed
<1>2. TypeInv /\ ScopeInv /\ [Next]_vars => ScopeInv'
  <2> SUFFICES ASSUME TypeInv, ScopeInv, [Next]_vars PROVE ScopeInv'
    OBVIOUS
  <2>1. CASE Next
    BY <2>1, ScopeKept DEF Next, Step
  <2>2. CASE UNCHANGED vars
    BY <2>2 DEF vars, ScopeInv, Fresh, Undecided, Agreed, TwoFirst, FirstTurns
  <2> QED
    BY <2>1, <2>2
<1>3. ScopeInv => OneScope
  BY DEF ScopeInv, TwoFirst, Agreed, OneScope
<1> QED
  BY <1>1, <1>2, <1>3, TypeCorrect, PTL DEF Spec

\* A client's only row so far is its question; until its history is built it
\* has none.
Asks(c) ==
    LET w == work[c]
    IN  /\ w.op # "turn" \/ w.at \in {"load", "scope", "ask"} =>
             \A i \in DOMAIN messages : messages[i].by # c
        /\ w.op = "turn" /\ w.at \in {"prompt", "history"} =>
             \A i \in DOMAIN messages : messages[i].by = c => messages[i].id = w.question
        /\ w.op = "turn" /\ w.at \in {"load", "scope", "ask", "prompt", "history"} =>
             w.history = {}

\* The question is not shown, or no longer the newest row.
Shown(c) ==
    work[c].op = "turn" /\ work[c].question \in work[c].history
        => \/ ~session.exists
           \/ \E i \in DOMAIN messages : messages[i].by # c /\ messages[i].id > work[c].question
AskedInv == \A c \in Client : Asks(c) /\ Shown(c)

\* Only the client that takes the step adds a row, and only at two of its steps.
LEMMA RowsBy ==
    ASSUME TypeInv, NEW c \in Client, Step(c), NEW d \in Client
    PROVE  /\ \A i \in DOMAIN messages' :
                messages'[i].by = d =>
                   \/ i \in DOMAIN messages /\ messages'[i] = messages[i]
                   \/ /\ d = c /\ (AskQuestion(c) \/ Reply(c))
                      /\ messages'[i].id = lastId + 1
           /\ session'.exists => \A i \in DOMAIN messages :
                i \in DOMAIN messages' /\ messages'[i] = messages[i]
BY MessagesEffect

LEMMA AsksKept ==
    ASSUME TypeInv, AskedInv, NEW c \in Client, Step(c), NEW d \in Client
    PROVE  Asks(d)'
<1>1. Asks(d)
  BY DEF AskedInv
<1>2. /\ AskQuestion(c) => work[c].op = "turn" /\ work[c].at = "ask"
      /\ Reply(c) => work[c].op = "turn" /\ work[c].at = "reply"
  BY DEF AskQuestion, Reply, At
<1>3. CASE d # c
  <2>1. work'[d] = work[d]
    BY <1>3, OneMoves
  <2>2. \A i \in DOMAIN messages' :
          messages'[i].by = d => i \in DOMAIN messages /\ messages'[i] = messages[i]
    BY <1>3, RowsBy
  <2> QED
    BY <1>1, <2>1, <2>2 DEF Asks
<1>4. CASE d = c /\ work[c].op # "turn"
  <2>1. \A i \in DOMAIN messages' : messages'[i].by # c
    BY <1>1, <1>2, <1>4, RowsBy DEF Asks
  <2>2. work'[c].op = "turn" => work'[c].at = "load" /\ work'[c].history = {}
    BY <1>4, TurnBegins
  <2> QED
    BY <1>4, <2>1, <2>2 DEF Asks
<1>5. CASE d = c /\ work[c].op = "turn"
  <2> DEFINE w == work[c]  v == work'[c]
  <2>1. v.op = "turn" /\ TurnMove(w, v)
    BY <1>5, TurnEffect
  <2>2. CASE w.at \in {"load", "scope"}
    <3>1. \A i \in DOMAIN messages' : messages'[i].by # c
      BY <1>1, <1>2, <1>5, <2>2, RowsBy DEF Asks
    <3>2. v.at \in {"scope", "ask", "done"} /\ v.history = {}
      BY <1>1, <1>5, <2>1, <2>2 DEF TurnMove, Asks
    <3> QED
      BY <1>5, <2>1, <3>1, <3>2 DEF Asks
  <2>3. CASE w.at = "ask"
    <3>1. v.at = "done" \/ (v.at = "prompt" /\ v.question = lastId + 1)
      BY <2>1, <2>3 DEF TurnMove
    <3>2. v.history = {}
      BY <1>1, <1>5, <2>1, <2>3 DEF TurnMove, Asks
    <3>3. \A i \in DOMAIN messages' : messages'[i].by = c => messages'[i].id = lastId + 1
      BY <1>1, <1>5, <2>3, RowsBy DEF Asks
    <3> QED
      BY <1>5, <2>1, <3>1, <3>2, <3>3 DEF Asks
  <2>4. CASE w.at = "prompt"
    <3>1. v.at \in {"done", "history"} /\ v.question = w.question /\ v.history = {}
      BY <1>1, <1>5, <2>1, <2>4 DEF TurnMove, Asks
    <3>2. \A i \in DOMAIN messages' : messages'[i].by = c => messages'[i].id = w.question
      BY <1>1, <1>2, <1>5, <2>4, RowsBy DEF Asks
    <3> QED
      BY <1>5, <2>1, <3>1, <3>2 DEF Asks
  <2>5. CASE w.at \notin {"load", "scope", "ask", "prompt"}
    <3>1. v.at \in {"reply", "after", "done"}
      BY <2>1, <2>5 DEF TurnMove
    <3> QED
      BY <1>5, <2>1, <3>1 DEF Asks
  <2> QED
    BY <2>2, <2>3, <2>4, <2>5
<1> QED
  BY <1>3, <1>4, <1>5

LEMMA ShownKept ==
    ASSUME TypeInv, AskedInv, NEW c \in Client, Step(c), NEW d \in Client
    PROVE  Shown(d)'
<1> SUFFICES ASSUME work'[d].op = "turn", work'[d].question \in work'[d].history,
                    session'.exists
             PROVE  \E i \in DOMAIN messages' :
                      messages'[i].by # d /\ messages'[i].id > work'[d].question
  BY DEF Shown
<1>1. session.exists /\ Asks(d) /\ Shown(d)
  BY SessionEffect DEF AskedInv
<1>2. \A i \in DOMAIN messages : i \in DOMAIN messages' /\ messages'[i] = messages[i]
  BY RowsBy
<1>3. CASE /\ work[d].op = "turn" /\ work'[d].history = work[d].history
           /\ work'[d].question = work[d].question
  BY <1>1, <1>2, <1>3 DEF Shown
<1>4. CASE d = c /\ work[c].op = "turn" /\ TurnMove(work[c], work'[c])
  <2> DEFINE w == work[c]  v == work'[c]
  <2>1. CASE w.at = "history" /\ v.at = "reply"
    <3>1. PICK i \in DOMAIN messages : messages[i].id = v.question /\ i < Len(messages)
      BY <1>4, <2>1 DEF TurnMove
    <3>2. v.question = w.question
      BY <1>4, <2>1 DEF TurnMove
    <3>3. /\ messages \in Seq(MessageRow)
          /\ \A k, j \in DOMAIN messages : k < j => messages[k].id < messages[j].id
      BY DEF TypeInv, TypeOK
    <3> DEFINE j == Len(messages)
    <3>4. j \in DOMAIN messages /\ messages[i].id < messages[j].id
      BY <3>1, <3>3
    <3>5. messages[i] \in MessageRow /\ messages[j] \in MessageRow
      BY <3>3, <3>4
    <3>6. messages[i].id \in Nat /\ messages[j].id \in Nat
      BY <3>5 DEF MessageRow
    <3>7. messages[j].by # c
      BY <1>1, <1>4, <2>1, <3>1, <3>2, <3>4, <3>6 DEF Asks
    <3> QED
      BY <1>2, <1>4, <3>1, <3>4, <3>6, <3>7
  <2>2. CASE w.at \in {"load", "scope", "ask"}
    <3>1. v.history = {}
      BY <1>1, <1>4, <2>2 DEF TurnMove, Asks
    <3> QED
      BY <1>4, <3>1
  <2>3. CASE ~(w.at = "history" /\ v.at = "reply") /\ w.at \notin {"load", "scope", "ask"}
    BY <1>3, <1>4, <2>3 DEF TurnMove
  <2> QED
    BY <2>1, <2>2, <2>3
<1> QED
  BY <1>3, <1>4, TurnCases

\* No turn shows the model its question twice, unless another turn's row has
\* come between the question and the history: what is dropped is the newest row.
THEOREM AskedCorrect == Spec => []AskedOnce
<1>1. Init => AskedInv
  <2> SUFFICES ASSUME Init, NEW c \in Client PROVE Asks(c) /\ Shown(c)
    BY DEF AskedInv
  <2>1. PICK n \in 0..MaxPast, gap \in Gap : messages = PastRows(n, gap)
    BY DEF Init, AtRest
  <2>2. \A i \in DOMAIN messages : messages[i].by = None
    BY <2>1 DEF PastRows
  <2> QED
    BY <2>2, NoJobs DEF Asks, Shown
<1>2. TypeInv /\ AskedInv /\ [Next]_vars => AskedInv'
  <2> SUFFICES ASSUME TypeInv, AskedInv, [Next]_vars PROVE AskedInv'
    OBVIOUS
  <2>1. CASE Next
    BY <2>1, AsksKept, ShownKept DEF Next, Step, AskedInv
  <2>2. CASE UNCHANGED vars
    BY <2>2 DEF vars, AskedInv, Asks, Shown
  <2> QED
    BY <2>1, <2>2
<1>3. AskedInv => AskedOnce
  BY DEF AskedInv, Shown, AskedOnce
<1> QED
  BY <1>1, <1>2, <1>3, TypeCorrect, PTL DEF Spec

=============================================================================
