----------------------------- MODULE AgentTurn -----------------------------
(***************************************************************************)
(* One question sent to the ReadMate agent: the ReAct loop of              *)
(* AgentRuntime.run with its evidence gate, the tool runner, the check of  *)
(* the answer's citations, the event stream of the SSE route and the state *)
(* the browser keeps while the answer is on its way.                       *)
(*                                                                         *)
(* The model is whatever it likes: it may call tools or answer at any      *)
(* round, cite anything, decline, or fail.  Texts are abstract; what is    *)
(* kept of a streamed text is the round it belongs to.                     *)
(***************************************************************************)
EXTENDS Integers, Sequences, FiniteSets

CONSTANTS
    Chunk,         \* chunk ids the tools can return
    MaxSteps,      \* settings.max_steps
    MaxGateBlocks, \* settings.max_gate_blocks
    MaxCalls,      \* bound: tool calls in one reply of the model
    Faults         \* what may fail: "llm", "db", "listing", "abort"

Round == 1..MaxSteps

ASSUME TurnConstants ==
    /\ MaxSteps \in Nat \ {0}
    /\ MaxGateBlocks \in Nat \ {0}
    /\ MaxCalls \in Nat \ {0}
    /\ Faults \subseteq {"llm", "db", "listing", "abort"}

VARIABLES
    ask,     \* the request and the session it meets; never changes
    run,     \* the loop's position and its RunState
    stored,  \* rows this question adds to the session's messages
    events,  \* the queue between the worker thread and the response
    client   \* the browser: live turn state and what became of the request

vars == <<ask, run, stored, events, client>>

(***************************************************************************)
(* Values                                                                  *)
(***************************************************************************)
\* What relevance.py tells apart: "document" names a file of the collection,
\* "material" has a keyword or a question marker, "aside" is a greeting or has
\* nothing of all this.
Question == {"aside", "document", "material"}
AboutMaterial == {"document", "material"}

Ask == [mode: {"deep", "chat"},
        bound: BOOLEAN,        \* the session's scope names collections
        question: Question,
        rescoped: BOOLEAN]     \* the request asks for another scope

\* A tool's Observation.  "text": a read that returned more than white space
\* (an element has text and no chunk id, an offset past the end the reverse);
\* "saved": a note written straight to long-term memory.  What else may work or
\* fail without leaving anything is "other".
Tool == {"search", "read", "memory_note", "other"}
Observation == [tool: Tool, ok: BOOLEAN, hits: SUBSET Chunk, text: BOOLEAN,
                saved: BOOLEAN]
Outcome ==
    {o \in Observation :
        /\ o.hits # {} => o.ok /\ o.tool \in {"search", "read"}
        /\ o.text => o.ok /\ o.tool = "read"
        /\ o.saved <=> o.ok /\ o.tool = "memory_note"
        /\ ~o.ok => o.tool \in {"search", "other"}}

\* A reply without tool calls: an envelope, or text parse_agent_answer cannot
\* read as one, from which it recovers a text or nothing.
Reply ==
    [text: {"answer"}, cites: SUBSET Chunk, refused: BOOLEAN]
    \cup [text: {"prose", "nothing"}, cites: {{}}, refused: {FALSE}]

GateBlock == {"deep_mode_requires_evidence", "chat_related_requires_search"}
Failure == {"max_steps_without_answer", "no_evidence_after_gate"}
FailureText == {"unconverged", "tool_error", "no_evidence"}
Warning ==
    GateBlock \cup Failure
    \cup {"scope_overridden", "no_citation",
          "model_refused", "citations_dropped_unobserved", "answer_unparsed",
          "unverified_no_search", "unverified_nonmaterial", "memory_auto_written"}

\* An assistant row: the answer and its payload.
AnswerRow == [role: {"assistant"}, text: {"answer", "prose", "nothing"} \cup FailureText,
              cites: SUBSET Chunk, warnings: SUBSET Warning,
              failure: Failure \cup {"none"}, trace: SUBSET Observation]
UserRow == [role |-> "user"]
\* The reply of a request that failed once it was stored; it is what Store would
\* have left, and no more is kept of it.
UntoldRow == [role |-> "untold"]
NoRow == [role |-> "none"]

RunRecord ==
    [phase: {"accepted", "asking", "tools", "closing", "ended"},
     stream: BOOLEAN,              \* the SSE route, or the synchronous one
     round: Round,
     streamed: BOOLEAN,            \* streamed_this_round
     todo: 0..MaxCalls,            \* calls of this round still to run
     searched: BOOLEAN, read: BOOLEAN, blocks: Nat,
     saved: BOOLEAN,               \* memory_auto_written
     warnings: SUBSET Warning,
     observed: SUBSET Chunk,       \* observed_chunks
     trace: SUBSET Observation,    \* observations, without their order
     row: AnswerRow \cup {NoRow}]  \* what _finish or _failure will store

Event == [name: {"answer_delta", "answer_reset", "tool", "gate_block"}, round: Round]
         \cup [name: {"turn_end"}, row: AnswerRow]
         \cup [name: {"error"}]

Client ==
    [status: {"waiting", "done", "failed", "gone"},
     drafts: SUBSET Round,      \* rounds whose text is in "deltas"
     settled: SUBSET Round,     \* rounds known to be tool or blocked rounds
     row: AnswerRow \cup {NoRow}]

\* RunState() as a turn starts; the scope's mismatch is noted at once.
Fresh(stream) ==
    [phase |-> "accepted", stream |-> stream, round |-> 1, streamed |-> FALSE,
     todo |-> 0, searched |-> FALSE, read |-> FALSE, blocks |-> 0,
     saved |-> FALSE,
     warnings |-> IF ask.rescoped THEN {"scope_overridden"} ELSE {},
     observed |-> {}, trace |-> {}, row |-> NoRow]

Init ==
    /\ ask \in Ask
    /\ \E stream \in BOOLEAN : run = Fresh(stream)
    /\ stored = <<>>
    /\ events = <<>>
    /\ client = [status |-> "waiting", drafts |-> {}, settled |-> {}, row |-> NoRow]

TypeOK ==
    /\ ask \in Ask
    /\ run \in RunRecord
    /\ stored \in Seq(AnswerRow \cup {UserRow, UntoldRow})
    /\ events \in Seq(Event)
    /\ client \in Client

(***************************************************************************)
(* Events and the end of a round                                           *)
(***************************************************************************)
InRound(name) == [name |-> name, round |-> run.round]

\* on_event is set on the SSE route only.
ForStream(es) == IF run.stream THEN es ELSE <<>>

\* Nobody reads the queue of a request whose client is gone.
Emit(es) == events' = IF client.status = "gone" THEN events ELSE events \o es

\* What a round that turns out not to be the answer takes back first.
Reset == IF run.streamed THEN <<InRound("answer_reset")>> ELSE <<>>

HasEvidence(r) == r.searched \/ r.read

\* Mutant of FailureMessage: the tools are never blamed.
FailureWithoutBlame(r) == IF HasEvidence(r) THEN "unconverged" ELSE "no_evidence"

\* _failure_message
FailureMessage(r) ==
    IF HasEvidence(r) THEN "unconverged"
    ELSE IF r.trace # {} /\ \A o \in r.trace : ~o.ok THEN "tool_error"
    ELSE "no_evidence"

Close(r, row) == [r EXCEPT !.phase = "closing", !.todo = 0, !.row = row]

\* _failure, up to the point where it stores its row.
Fail(r, reason) ==
    Close(r, [role |-> "assistant", text |-> FailureMessage(r), cites |-> {},
              warnings |-> r.warnings \cup {reason}, failure |-> reason,
              trace |-> r.trace])

\* The for statement: the next round, or no answer within the budget.
RoundOver(r) ==
    IF r.round = MaxSteps THEN Fail(r, "max_steps_without_answer")
    ELSE [r EXCEPT !.phase = "asking", !.round = @ + 1, !.streamed = FALSE]

(***************************************************************************)
(* The worker: AgentRuntime.run                                            *)
(***************************************************************************)

\* The user's message is stored.  The SSE route starts its thread when the
\* response is first read, so that a client already gone starts nothing.
Start ==
    /\ run.phase = "accepted"
    /\ run.stream => client.status # "gone"
    /\ stored' = Append(stored, UserRow)
    /\ run' = [run EXCEPT !.phase = "asking"]
    /\ UNCHANGED <<ask, events, client>>

\* Text arrives before it is known what the reply will be.  (Later pieces of
\* the same round change nothing here.)
Delta ==
    /\ run.phase = "asking" /\ run.stream /\ ~run.streamed
    /\ run' = [run EXCEPT !.streamed = TRUE]
    /\ Emit(<<InRound("answer_delta")>>)
    /\ UNCHANGED <<ask, stored, client>>

\* The reply has tool calls.  In the last round no tools are offered, but
\* calls that come all the same are run.
CallTools(n) ==
    /\ run.phase = "asking"
    /\ run' = [run EXCEPT !.phase = "tools", !.todo = n]
    /\ Emit(Reset)
    /\ UNCHANGED <<ask, stored, client>>

\* Mutant of Absorb: any tool that worked counts as a look at the material.
AbsorbAnySuccess(o) ==
    [run EXCEPT !.trace = @ \cup {o}, !.todo = @ - 1,
                !.searched = @ \/ o.ok,
                !.read = @ \/ (o.tool = "read" /\ o.text),
                !.saved = @ \/ o.saved, !.observed = @ \cup o.hits]

\* _absorb.  ToolRunner never fills Observation.signals, so that the warnings
\* about degraded retrieval that would be added here are not.
Absorb(o) ==
    [run EXCEPT !.trace = @ \cup {o}, !.todo = @ - 1,
                !.searched = @ \/ (o.tool = "search" /\ o.hits # {}),
                !.read = @ \/ (o.tool = "read" /\ o.text),
                !.saved = @ \/ o.saved, !.observed = @ \cup o.hits]

\* One call: tool_call, ToolRunner.run (which raises nothing), tool_result.
RunTool(o) ==
    /\ run.phase = "tools"
    /\ run' = IF run.todo > 1 THEN Absorb(o) ELSE RoundOver(Absorb(o))
    /\ Emit(ForStream(<<InRound("tool")>>))
    /\ UNCHANGED <<ask, stored, client>>

\* is_related: "named" is FALSE when the file names could not be listed.
Related(named) ==
    /\ ask.bound
    /\ \/ ask.question = "material"
       \/ ask.question = "document" /\ named

\* _is_material goes on without the file names when they cannot be listed.
Listings == {TRUE} \cup (IF "listing" \in Faults /\ ask.mode = "deep" THEN {FALSE} ELSE {})

DeepBlocks(named) == ask.mode = "deep" /\ ~HasEvidence(run) /\ Related(named)

\* Soft: once only.
ChatBlocks(named) ==
    ask.mode = "chat" /\ run.blocks = 0 /\ Related(named) /\ ~run.searched

\* _gate: the block it returns, or none.
Gate(named) ==
    (IF DeepBlocks(named) THEN {"deep_mode_requires_evidence"} ELSE {})
    \cup (IF ChatBlocks(named) THEN {"chat_related_requires_search"} ELSE {})

\* Mutant of Refusal: the text stays on the screen.
RefusalWithoutReset == ForStream(<<InRound("gate_block")>>)

\* What the client hears of a block: the text is taken back before the reason.
Refusal == Reset \o ForStream(<<InRound("gate_block")>>)

\* The gate does not let the reply through: text is taken back, and the model
\* is asked again, unless that was the last block a deep turn has.
Block(named) ==
    /\ run.phase = "asking"
    /\ Gate(named) # {}
    /\ LET r == [run EXCEPT !.blocks = @ + 1, !.warnings = @ \cup Gate(named)]
       IN run' = IF ask.mode = "deep" /\ r.blocks >= MaxGateBlocks
                 THEN Fail(r, "no_evidence_after_gate") ELSE RoundOver(r)
    /\ Emit(Refusal)
    /\ UNCHANGED <<ask, stored, client>>

\* nonmaterial_pass: the gate lets a deep turn answer without evidence.  It is
\* set just before _finish, the one place that reads it.
NonmaterialPass == ask.mode = "deep" /\ ~HasEvidence(run)

\* Mutant of KeptCitations: whatever the model cites is kept.
AnyCitation(reply) == reply.cites

\* validate_citations
KeptCitations(reply) == reply.cites \cap run.observed

When(condition, warning) == IF condition THEN {warning} ELSE {}

\* Mutant of AnswerWarnings: the marks of an answer without sources are left
\* to the warnings of the run.
AnswerUnmarked(reply) ==
    When(reply.text # "answer", "answer_unparsed")
    \cup When(reply.cites \ run.observed # {}, "citations_dropped_unobserved")
    \cup When(run.saved, "memory_auto_written")

\* parse_agent_answer, validate_citations and _finish: the warnings of the
\* answer.  Those of the run are not among them.
AnswerWarnings(reply) ==
    When(reply.text # "answer", "answer_unparsed")
    \cup When(reply.cites \ run.observed # {}, "citations_dropped_unobserved")
    \cup When(KeptCitations(reply) = {} /\ reply.text # "nothing", "no_citation")
    \cup When(reply.refused, "model_refused")
    \cup When(ask.mode = "chat" /\ ~run.searched /\ run.warnings # {},
              "unverified_no_search")
    \cup When(ask.rescoped, "scope_overridden")
    \cup When(NonmaterialPass, "unverified_nonmaterial")
    \cup When(run.saved, "memory_auto_written")

\* The gate lets the reply through, and it becomes the answer.
Accept(reply, named) ==
    /\ run.phase = "asking"
    /\ Gate(named) = {}
    /\ run' = Close(run, [role |-> "assistant", text |-> reply.text,
                          cites |-> KeptCitations(reply),
                          warnings |-> AnswerWarnings(reply), failure |-> "none",
                          trace |-> run.trace])
    /\ UNCHANGED <<ask, stored, events, client>>

\* The RunState goes with its turn.
Over == [Fresh(run.stream) EXCEPT !.phase = "ended"]

\* The row is stored; then turn_end (or the synchronous response) is sent.
Store ==
    /\ run.phase = "closing"
    /\ stored' = Append(stored, run.row)
    /\ Emit(<<[name |-> "turn_end", row |-> run.row]>>)
    /\ run' = Over
    /\ UNCHANGED <<ask, client>>

\* What can raise: the database, the model, and the listing of a chat turn's
\* gate, which unlike that of a deep turn is not caught.
MayRaise ==
    \/ run.phase \in {"accepted", "closing"} /\ "db" \in Faults
    \/ run.phase = "asking" /\ "llm" \in Faults
    \/ /\ run.phase = "asking" /\ "listing" \in Faults
       /\ ask.mode = "chat" /\ ask.bound /\ run.blocks = 0

\* Mutant of ErrorReport: the worker dies without a word.
NoErrorReport == <<>>

ErrorReport == <<[name |-> "error"]>>

\* append_message writes its row and then the session's, each a transaction of
\* its own: when it raises the row may be there.
LeftBehind ==
    CASE run.phase = "accepted" -> {UserRow}
      [] run.phase = "closing" -> {UntoldRow}
      [] OTHER -> {}

\* The route turns an exception into an error event or an error response.
Raise ==
    /\ MayRaise
    /\ run.phase = "accepted" /\ run.stream => client.status # "gone"
    /\ stored' \in {stored} \cup {Append(stored, row) : row \in LeftBehind}
    /\ run' = Over
    /\ Emit(ErrorReport)
    /\ UNCHANGED <<ask, client>>

(***************************************************************************)
(* The browser: applyTurnEvent, and send() around it                       *)
(***************************************************************************)

\* turnState.ts.  An error frame is thrown before the reducer sees it; a
\* synchronous response does not pass through the reducer.
Applied(e) ==
    CASE e.name = "answer_delta" -> [client EXCEPT !.drafts = @ \cup {e.round}]
      [] e.name = "answer_reset" -> [client EXCEPT !.drafts = {}]
      [] e.name \in {"tool", "gate_block"} ->
             [client EXCEPT !.settled = @ \cup {e.round}]
      [] e.name = "turn_end" ->
             [client EXCEPT !.status = "done", !.row = e.row,
                            !.drafts = IF run.stream THEN {} ELSE @]
      [] e.name = "error" -> [client EXCEPT !.status = "failed"]

Receive ==
    /\ client.status = "waiting" /\ events # <<>>
    /\ client' = Applied(Head(events))
    /\ events' = Tail(events)
    /\ UNCHANGED <<ask, run, stored>>

\* Mutant of Degrades: any broken-off stream is asked again, an aborted one, too.
DegradesAlways == client.status \in {"failed", "gone"}

\* An error frame makes send() ask again, once, on the synchronous route.  (So
\* does a broken connection, while the worker goes on; that is not modelled.)
Degrades == client.status = "failed"

Degrade ==
    /\ Degrades /\ run.stream /\ run.phase = "ended"
    /\ run' = Fresh(FALSE)
    /\ client' = [client EXCEPT !.status = "waiting"]
    /\ UNCHANGED <<ask, stored, events>>

\* The user stops waiting, or the watchdog does.
Abort ==
    /\ "abort" \in Faults
    /\ client.status = "waiting"
    /\ client' = [client EXCEPT !.status = "gone"]
    /\ events' = <<>>
    /\ UNCHANGED <<ask, run, stored>>

Turn ==
    \/ Start
    \/ Delta
    \/ \E n \in 1..MaxCalls : CallTools(n)
    \/ \E o \in Outcome : RunTool(o)
    \/ \E named \in Listings : Block(named)
    \/ \E reply \in Reply, named \in Listings : Accept(reply, named)
    \/ Store
    \/ Raise

Next == Turn \/ Receive \/ Degrade \/ Abort

Spec == Init /\ [][Next]_vars

\* The worker runs on (the model's and the tools' clients have timeouts), the
\* browser reads what arrives and asks again by itself.
FairSpec == Spec /\ WF_vars(Turn) /\ WF_vars(Receive) /\ WF_vars(Degrade)

(***************************************************************************)
(* Properties                                                              *)
(***************************************************************************)
AnswerRows == {stored[i] : i \in {k \in DOMAIN stored : stored[k].role = "assistant"}}
Answers == {row \in AnswerRows : row.failure = "none"}

Evidence(o) == \/ o.tool = "search" /\ o.hits # {}
               \/ o.tool = "read" /\ o.text
HasEvidenceIn(row) == \E o \in row.trace : o.ok /\ Evidence(o)
HasSearchIn(row) == \E o \in row.trace : o.ok /\ o.tool = "search" /\ o.hits # {}
ShownIn(row) == UNION {o.hits : o \in {x \in row.trace : x.ok}}

\* A stored answer cites only what a tool returned while it was being worked
\* out, whatever the model claims, also after the question was asked again
\* (validate_citations against the observed_chunks of this turn).
CitationsWereShown == \A row \in AnswerRows : row.cites \subseteq ShownIn(row)

\* A deep turn over chosen collections does not answer a question about the
\* material without evidence: not when blocks have been used up, not in the
\* last round, not because a tool worked without finding anything (_gate).
DeepAnswersFromEvidence ==
    ask.mode = "deep" /\ ask.bound /\ ask.question = "material"
        => \A row \in Answers : HasEvidenceIn(row)

\* Whoever reads a stored answer can tell that it has no source: a deep one
\* without evidence, and a chat answer to a question about the collection
\* without a search, carry the mark the UI shows (_finish).
UnsourcedIsMarked ==
    \A row \in Answers :
        /\ ask.mode = "deep" /\ ~HasEvidenceIn(row)
               => "unverified_nonmaterial" \in row.warnings
        /\ ask.mode = "chat" /\ ask.bound /\ ask.question \in AboutMaterial
                /\ ~HasSearchIn(row)
               => "unverified_no_search" \in row.warnings

\* A failed turn says what happened: evidence that led nowhere, tools that all
\* failed, or no evidence; and the gate is blamed only where it stood in the
\* way (_failure_message, the two calls of _failure).
FailureTellsTruth ==
    \A row \in AnswerRows \ Answers :
        /\ row.text = "unconverged" <=> HasEvidenceIn(row)
        /\ row.text = "tool_error" <=> row.trace # {} /\ \A o \in row.trace : ~o.ok
        /\ row.failure = "no_evidence_after_gate"
               => /\ ask.mode = "deep" /\ ask.question \in AboutMaterial
                  /\ ~HasEvidenceIn(row)

\* The browser never shows text of two rounds as one answer, nor text of a
\* round it knows to have been a tool round or refused by the gate (the
\* answer_reset of run, and its place before tool_call and gate_block).
DraftIsOpen == Cardinality(client.drafts) <= 1 /\ client.drafts \cap client.settled = {}

\* Unless the connection itself breaks, one send gets one reply at most, also
\* when the browser asks again or stops waiting, and what it shows in the end
\* is the reply that was stored (send, agent_chat_stream, agent_chat).  A reply
\* whose request failed after storing it does not count: the browser asks again,
\* and the session keeps both.
OneReply ==
    /\ Cardinality({i \in DOMAIN stored : stored[i].role = "assistant"}) <= 1
    /\ client.status = "done" => client.row \in AnswerRows

\* Every send comes to an end, for the browser and, once it has begun, in the
\* worker: the loop is bounded whatever the model does.
SendSettles ==
    <>[](client.status # "waiting" /\ run.phase \in {"accepted", "ended"})

=============================================================================
