-------------------------- MODULE AgentTurnProofs --------------------------
(***************************************************************************)
(* Proofs about AgentTurn, for any chunks, step budget, block budget and   *)
(* faults.                                                                 *)
(*                                                                         *)
(* The loop keeps its conclusions -- searched, read, observed_chunks -- as *)
(* it goes along, and a row is judged by the observations stored with it.  *)
(* The invariant says that the two agree in every round (RunSound), so     *)
(* that the row made of them is right when it is made (RowSound of the row *)
(* about to be stored) and stays right.                                    *)
(*                                                                         *)
(* What the browser shows it knows from the queue of events: QueueInv says *)
(* what may stand in it and that nothing follows the frame that closes the *)
(* turn, DraftInv what it makes of the browser's draft.                    *)
(***************************************************************************)
EXTENDS AgentTurn, SequenceTheorems, FiniteSetTheorems, TLAPS

USE TurnConstants

(***************************************************************************)
(* Types                                                                   *)
(***************************************************************************)
CallsLeft == run.phase = "tools" => run.todo > 0
ClosingHasRow == run.phase = "closing" => run.row \in AnswerRow
TypeInv == TypeOK /\ CallsLeft /\ ClosingHasRow

LEMMA FailTyped ==
    ASSUME NEW r \in RunRecord, NEW reason \in Failure
    PROVE  /\ Fail(r, reason) \in RunRecord
           /\ Fail(r, reason).phase = "closing"
           /\ Fail(r, reason).row \in AnswerRow
<1> DEFINE row == [role |-> "assistant", text |-> FailureMessage(r), cites |-> {},
                   warnings |-> r.warnings \cup {reason}, failure |-> reason,
                   trace |-> r.trace]
<1>1. row \in AnswerRow
  <2>1. FailureMessage(r) \in FailureText
    BY DEF FailureMessage, FailureText
  <2>2. r.warnings \cup {reason} \in SUBSET Warning
    BY DEF RunRecord, Warning
  <2> QED
    BY <2>1, <2>2 DEF AnswerRow, RunRecord
<1>2. Fail(r, reason) = Close(r, row)
  BY DEF Fail
<1> HIDE DEF row
<1>3. 0 \in 0..MaxCalls
  OBVIOUS
<1> QED
  BY <1>1, <1>2, <1>3 DEF Close, RunRecord

LEMMA RoundOverTyped ==
    ASSUME NEW r \in RunRecord
    PROVE  /\ RoundOver(r) \in RunRecord
           /\ RoundOver(r).phase \in {"asking", "closing"}
           /\ RoundOver(r).phase = "closing" => RoundOver(r).row \in AnswerRow
<1>1. CASE r.round = MaxSteps
  BY <1>1, FailTyped DEF RoundOver, Failure
<1>2. CASE r.round # MaxSteps
  <2>1. r.round + 1 \in Round
    BY <1>2 DEF RunRecord, Round
  <2> QED
    BY <1>2, <2>1 DEF RoundOver, RunRecord
<1> QED
  BY <1>1, <1>2

LEMMA OutcomeTyped == Outcome \subseteq Observation
BY DEF Outcome

LEMMA AbsorbTyped ==
    ASSUME run \in RunRecord, run.phase = "tools", run.todo > 0, NEW o \in Outcome
    PROVE  Absorb(o) \in RunRecord /\ Absorb(o).phase = "tools"
           /\ Absorb(o).todo = run.todo - 1
<1>1. o \in Observation
  BY OutcomeTyped
<1>2. run.todo - 1 \in 0..MaxCalls
  BY DEF RunRecord
<1>3. /\ (run.searched \/ (o.tool = "search" /\ o.hits # {})) \in BOOLEAN
      /\ (run.read \/ (o.tool = "read" /\ o.text)) \in BOOLEAN
      /\ (run.saved \/ o.saved) \in BOOLEAN
  OBVIOUS
<1>4. run.observed \cup o.hits \in SUBSET Chunk /\ run.trace \cup {o} \in SUBSET Observation
  BY <1>1 DEF RunRecord, Observation
<1> QED
  BY <1>2, <1>3, <1>4 DEF Absorb, RunRecord

LEMMA FreshTyped ==
    ASSUME NEW stream \in BOOLEAN
    PROVE  Fresh(stream) \in RunRecord
<1>1. (IF ask.rescoped THEN {"scope_overridden"} ELSE {}) \in SUBSET Warning
  BY DEF Warning
<1>2. 1 \in Round /\ 0 \in 0..MaxCalls /\ 0 \in Nat
  BY DEF Round
<1> QED
  BY <1>1, <1>2 DEF Fresh, RunRecord

LEMMA EventsTyped ==
    ASSUME events \in Seq(Event), NEW es \in Seq(Event), Emit(es)
    PROVE  events' \in Seq(Event)
BY ConcatProperties DEF Emit

LEMMA RoundEventsTyped ==
    ASSUME run \in RunRecord,
           NEW name \in {"answer_delta", "answer_reset", "tool", "gate_block"}
    PROVE  InRound(name) \in Event
BY DEF InRound, Event, RunRecord

LEMMA KeptTyped ==
    ASSUME run \in RunRecord, NEW reply \in Reply
    PROVE  [role |-> "assistant", text |-> reply.text, cites |-> KeptCitations(reply),
            warnings |-> AnswerWarnings(reply), failure |-> "none",
            trace |-> run.trace] \in AnswerRow
<1>1. AnswerWarnings(reply) \in SUBSET Warning
  BY DEF AnswerWarnings, When, Warning
<1>2. KeptCitations(reply) \in SUBSET Chunk
  BY DEF KeptCitations, Reply, RunRecord
<1>3. reply.text \in {"answer", "prose", "nothing"}
  BY DEF Reply
<1> QED
  BY <1>1, <1>2, <1>3 DEF AnswerRow, RunRecord

LEMMA AppliedTyped ==
    ASSUME client \in Client, NEW e \in Event
    PROVE  Applied(e) \in Client
<1>1. e.name \in {"answer_delta", "answer_reset", "tool", "gate_block"} => e.round \in Round
  BY DEF Event
<1>2. e.name = "turn_end" => e.row \in AnswerRow
  BY DEF Event
<1>3. e.name \in {"answer_delta", "answer_reset", "tool", "gate_block", "turn_end", "error"}
  BY DEF Event
<1> QED
  BY <1>1, <1>2, <1>3 DEF Applied, Client

LEMMA OverTyped ==
    ASSUME run \in RunRecord
    PROVE  Over \in RunRecord /\ Over.phase = "ended" /\ Over.stream = run.stream /\ ~Over.streamed
<1>1. run.stream \in BOOLEAN
  BY DEF RunRecord
<1>2. Fresh(run.stream) \in RunRecord /\ Fresh(run.stream).stream = run.stream
  BY <1>1, FreshTyped DEF Fresh
<1>3. ~Fresh(run.stream).streamed
  BY DEF Fresh
<1> QED
  BY <1>2, <1>3 DEF Over, RunRecord

LEMMA LeftRows ==
    \A row \in LeftBehind : row \in {UserRow, UntoldRow} /\ row.role # "assistant"
BY DEF LeftBehind, UserRow, UntoldRow

LEMMA TypeInvStep == TypeInv /\ [Next]_vars => TypeInv'
<1> SUFFICES ASSUME TypeInv, [Next]_vars PROVE TypeInv'
  OBVIOUS
<1> USE DEF TypeInv, TypeOK, CallsLeft, ClosingHasRow
<1>e. /\ <<>> \in Seq(Event)
      /\ \A x \in Event : <<x>> \in Seq(Event)
      /\ \A x, y \in Event : <<x, y>> \in Seq(Event)
  OBVIOUS
<1>r. Reset \in Seq(Event)
  BY <1>e, RoundEventsTyped DEF Reset
<1>b. ForStream(<<InRound("gate_block")>>) \in Seq(Event)
  BY <1>e, RoundEventsTyped DEF ForStream
<1>0. 0 \in 0..MaxCalls
  OBVIOUS
<1>1. CASE Start
  <2>1. run' \in RunRecord /\ run'.phase = "asking"
    BY <1>1 DEF Start, RunRecord
  <2>2. stored' \in Seq(AnswerRow \cup {UserRow, UntoldRow})
    BY <1>1 DEF Start
  <2> QED
    BY <1>1, <2>1, <2>2 DEF Start
<1>2. CASE Delta
  <2>1. events' \in Seq(Event)
    BY <1>2, <1>e, RoundEventsTyped, EventsTyped DEF Delta
  <2> QED
    BY <1>2, <2>1 DEF Delta, RunRecord
<1>3. ASSUME NEW n \in 1..MaxCalls, CallTools(n) PROVE TypeInv'
  <2>1. events' \in Seq(Event)
    BY <1>3, <1>r, EventsTyped DEF CallTools
  <2>2. n \in 0..MaxCalls /\ n > 0
    BY <1>3
  <2>3. run' \in RunRecord /\ run'.phase = "tools" /\ run'.todo = n
    BY <1>3, <2>2 DEF CallTools, RunRecord
  <2> QED
    BY <1>3, <2>1, <2>2, <2>3 DEF CallTools
<1>4. ASSUME NEW o \in Outcome, RunTool(o) PROVE TypeInv'
  <2>1. events' \in Seq(Event)
    BY <1>4, <1>e, RoundEventsTyped, EventsTyped DEF RunTool, ForStream
  <2>2. Absorb(o) \in RunRecord /\ Absorb(o).phase = "tools" /\ Absorb(o).todo = run.todo - 1
    BY <1>4, AbsorbTyped DEF RunTool
  <2>3. run' \in RunRecord /\ (run'.phase = "tools" => run'.todo > 0)
        /\ (run'.phase = "closing" => run'.row \in AnswerRow)
    <3>1. CASE run.todo > 1
      BY <1>4, <2>2, <3>1 DEF RunTool, RunRecord
    <3>2. CASE ~(run.todo > 1)
      BY <1>4, <2>2, <3>2, RoundOverTyped DEF RunTool
    <3> QED
      BY <3>1, <3>2
  <2> QED
    BY <1>4, <2>1, <2>3 DEF RunTool
<1>5. ASSUME NEW named \in Listings, Block(named) PROVE TypeInv'
  <2>1. events' \in Seq(Event)
    <3>1. Refusal \in Seq(Event)
      BY <1>r, <1>b, ConcatProperties DEF Refusal
    <3> QED
      BY <1>5, <3>1, EventsTyped DEF Block
  <2> DEFINE r == [run EXCEPT !.blocks = @ + 1, !.warnings = @ \cup Gate(named)]
  <2>2. Gate(named) \in SUBSET Warning
    BY DEF Gate, Warning, GateBlock
  <2>3. r \in RunRecord
    <3>1. run.blocks + 1 \in Nat /\ run.warnings \cup Gate(named) \in SUBSET Warning
      BY <2>2 DEF RunRecord
    <3> QED
      BY <3>1 DEF RunRecord
  <2>4. run' \in {Fail(r, "no_evidence_after_gate"), RoundOver(r)}
    BY <1>5 DEF Block
  <2> HIDE DEF r
  <2>5. run' \in RunRecord /\ run'.phase # "tools"
        /\ (run'.phase = "closing" => run'.row \in AnswerRow)
    BY <2>3, <2>4, FailTyped, RoundOverTyped DEF Failure
  <2> QED
    BY <1>5, <2>1, <2>5 DEF Block
<1>6. ASSUME NEW reply \in Reply, NEW named \in Listings, Accept(reply, named)
      PROVE  TypeInv'
  <2> DEFINE row == [role |-> "assistant", text |-> reply.text,
                     cites |-> KeptCitations(reply), warnings |-> AnswerWarnings(reply),
                     failure |-> "none", trace |-> run.trace]
  <2>1. row \in AnswerRow
    BY KeptTyped
  <2>2. run' = Close(run, row)
    BY <1>6 DEF Accept
  <2> HIDE DEF row
  <2>3. run' \in RunRecord /\ run'.phase = "closing" /\ run'.row = row
    BY <1>0, <2>1, <2>2 DEF Close, RunRecord
  <2> QED
    BY <1>6, <2>1, <2>3 DEF Accept
<1>7. CASE Store
  <2>1. [name |-> "turn_end", row |-> run.row] \in Event
    BY <1>7 DEF Store, Event
  <2>2. events' \in Seq(Event)
    BY <1>7, <2>1, <1>e, EventsTyped DEF Store
  <2>3. stored' \in Seq(AnswerRow \cup {UserRow, UntoldRow})
    BY <1>7 DEF Store
  <2>4. run' \in RunRecord /\ run'.phase = "ended"
    BY <1>0, <1>7, OverTyped DEF Store
  <2> QED
    BY <1>7, <2>2, <2>3, <2>4 DEF Store
<1>8. CASE Raise
  <2>1. ErrorReport \in Seq(Event)
    BY <1>e DEF ErrorReport, Event
  <2>2. events' \in Seq(Event)
    BY <1>8, <2>1, EventsTyped DEF Raise
  <2>3. run' \in RunRecord /\ run'.phase = "ended"
    BY <1>8, <1>0, OverTyped DEF Raise
  <2>4. stored' \in Seq(AnswerRow \cup {UserRow, UntoldRow})
    BY <1>8, LeftRows DEF Raise
  <2> QED
    BY <1>8, <2>2, <2>3, <2>4 DEF Raise
<1>9. CASE Receive
  <2>1. Head(events) \in Event /\ Tail(events) \in Seq(Event)
    BY <1>9 DEF Receive
  <2> QED
    BY <1>9, <2>1, AppliedTyped DEF Receive
<1>10. CASE Degrade
  BY <1>10, FreshTyped DEF Degrade, Client, Fresh
<1>11. CASE Abort
  BY <1>11, <1>e DEF Abort, Client
<1>12. CASE UNCHANGED vars
  BY <1>12 DEF vars
<1> QED
  BY <1>1, <1>2, <1>3, <1>4, <1>5, <1>6, <1>7, <1>8, <1>9, <1>10, <1>11, <1>12
  DEF Next, Turn

LEMMA TypeInvInit == Init => TypeInv
<1> SUFFICES ASSUME Init PROVE TypeInv
  OBVIOUS
<1>1. run \in RunRecord /\ run.phase = "accepted"
  BY FreshTyped DEF Init, Fresh
<1>2. client \in Client
  BY DEF Init, Client
<1>3. stored \in Seq(AnswerRow \cup {UserRow, UntoldRow}) /\ events \in Seq(Event)
  BY DEF Init
<1> QED
  BY <1>1, <1>2, <1>3 DEF Init, TypeInv, TypeOK, CallsLeft, ClosingHasRow

\* Every variable keeps its type, whatever the model, the tools, the database
\* and the user do.
THEOREM TurnTyped == Spec => []TypeOK
BY TypeInvInit, TypeInvStep, PTL DEF Spec, TypeInv

(***************************************************************************)
(* What the loop concludes is what its observations say                    *)
(***************************************************************************)
RunSound(r) ==
    /\ r.observed \subseteq ShownIn(r)
    /\ r.searched <=> HasSearchIn(r)
    /\ HasEvidence(r) <=> HasEvidenceIn(r)
    /\ r.blocks > 0 => r.warnings # {}

AnswerSound(row) ==
    /\ ask.mode = "deep" /\ ask.bound /\ ask.question = "material" => HasEvidenceIn(row)
    /\ ask.mode = "deep" /\ ~HasEvidenceIn(row) => "unverified_nonmaterial" \in row.warnings
    /\ ask.mode = "chat" /\ ask.bound /\ ask.question \in AboutMaterial /\ ~HasSearchIn(row)
          => "unverified_no_search" \in row.warnings

FailureSound(row) ==
    /\ row.text = "unconverged" <=> HasEvidenceIn(row)
    /\ row.text = "tool_error" <=> row.trace # {} /\ \A o \in row.trace : ~o.ok
    /\ row.failure = "no_evidence_after_gate"
          => ask.mode = "deep" /\ ask.question \in AboutMaterial /\ ~HasEvidenceIn(row)

RowSound(row) ==
    /\ row.cites \subseteq ShownIn(row)
    /\ row.failure = "none" => AnswerSound(row)
    /\ row.failure # "none" => FailureSound(row)

SafeInv ==
    /\ RunSound(run)
    /\ run.phase = "closing" => RowSound(run.row)
    /\ \A i \in 1..Len(stored) : stored[i].role = "assistant" => RowSound(stored[i])

LEMMA AbsorbSound ==
    ASSUME run \in RunRecord, run.phase = "tools", run.todo > 0, RunSound(run),
           NEW o \in Outcome
    PROVE  RunSound(Absorb(o))
<1> DEFINE r == Absorb(o)
<1>1. /\ r.trace = run.trace \cup {o}
      /\ r.searched <=> run.searched \/ (o.tool = "search" /\ o.hits # {})
      /\ r.read <=> run.read \/ (o.tool = "read" /\ o.text)
      /\ r.observed = run.observed \cup o.hits
      /\ r.blocks = run.blocks /\ r.warnings = run.warnings
  BY DEF Absorb, RunRecord
<1> HIDE DEF r
<1>2. (o.hits # {} => o.ok) /\ (o.text => o.ok)
  BY DEF Outcome
<1>3. ShownIn(run) \cup o.hits \subseteq ShownIn(r)
  BY <1>1, <1>2 DEF ShownIn
<1>4. HasSearchIn(r) <=> HasSearchIn(run) \/ (o.tool = "search" /\ o.hits # {})
  BY <1>1, <1>2 DEF HasSearchIn
<1>5. HasEvidenceIn(r) <=> HasEvidenceIn(run) \/ Evidence(o)
  BY <1>1, <1>2 DEF HasEvidenceIn, Evidence
<1> QED
  BY <1>1, <1>3, <1>4, <1>5 DEF RunSound, HasEvidence, Evidence, r

\* Only these fields matter to what a run has concluded.
LEMMA SameConclusions ==
    ASSUME NEW r, NEW s, RunSound(r), s.trace = r.trace, s.observed = r.observed,
           s.searched = r.searched, s.read = r.read, s.blocks = r.blocks,
           s.warnings = r.warnings
    PROVE  RunSound(s)
BY DEF RunSound, ShownIn, HasSearchIn, HasEvidenceIn, HasEvidence

LEMMA FailSound ==
    ASSUME NEW r \in RunRecord, RunSound(r), NEW reason \in Failure,
           reason = "no_evidence_after_gate"
               => ask.mode = "deep" /\ ask.question \in AboutMaterial /\ ~HasEvidence(r)
    PROVE  RunSound(Fail(r, reason)) /\ RowSound(Fail(r, reason).row)
<1> DEFINE s == Fail(r, reason)
<1>1. /\ s.trace = r.trace /\ s.observed = r.observed /\ s.searched = r.searched
      /\ s.read = r.read /\ s.blocks = r.blocks /\ s.warnings = r.warnings
      /\ s.row.text = FailureMessage(r) /\ s.row.cites = {} /\ s.row.failure = reason
      /\ s.row.trace = r.trace
  BY DEF Fail, Close, RunRecord
<1> HIDE DEF s
<1>2. RunSound(s)
  BY <1>1, SameConclusions
<1>3. HasEvidenceIn(s.row) <=> HasEvidence(r)
  BY <1>1 DEF RunSound, HasEvidenceIn
<1>4. HasEvidence(r) => ~(\A o \in r.trace : ~o.ok)
  BY DEF RunSound, HasEvidenceIn
<1>5. FailureSound(s.row)
  BY <1>1, <1>3, <1>4 DEF FailureSound, FailureMessage
<1> QED
  BY <1>1, <1>2, <1>5 DEF RowSound, Failure, s

LEMMA RoundOverSound ==
    ASSUME NEW r \in RunRecord, RunSound(r)
    PROVE  /\ RunSound(RoundOver(r))
           /\ RoundOver(r).phase = "closing" => RowSound(RoundOver(r).row)
<1>1. CASE r.round = MaxSteps
  BY <1>1, FailSound DEF RoundOver, Failure
<1>2. CASE r.round # MaxSteps
  <2>1. /\ RoundOver(r).trace = r.trace /\ RoundOver(r).observed = r.observed
        /\ RoundOver(r).searched = r.searched /\ RoundOver(r).read = r.read
        /\ RoundOver(r).blocks = r.blocks /\ RoundOver(r).warnings = r.warnings
        /\ RoundOver(r).phase = "asking"
    BY <1>2 DEF RoundOver, RunRecord
  <2> QED
    BY <2>1, SameConclusions
<1> QED
  BY <1>1, <1>2

LEMMA AcceptSound ==
    ASSUME TypeInv, RunSound(run), NEW reply \in Reply, NEW named \in Listings,
           Accept(reply, named)
    PROVE  RunSound(run') /\ RowSound(run'.row)
<1>1. /\ run'.trace = run.trace /\ run'.observed = run.observed
      /\ run'.searched = run.searched /\ run'.read = run.read
      /\ run'.blocks = run.blocks /\ run'.warnings = run.warnings
      /\ run'.row.cites = KeptCitations(reply) /\ run'.row.failure = "none"
      /\ run'.row.warnings = AnswerWarnings(reply) /\ run'.row.trace = run.trace
  BY DEF Accept, Close, TypeInv, TypeOK, RunRecord
<1>2. /\ ShownIn(run'.row) = ShownIn(run)
      /\ HasEvidenceIn(run'.row) <=> HasEvidence(run)
      /\ HasSearchIn(run'.row) <=> run.searched
  BY <1>1 DEF ShownIn, HasEvidenceIn, HasSearchIn, RunSound
<1>3. run'.row.cites \subseteq ShownIn(run'.row)
  BY <1>1, <1>2 DEF KeptCitations, RunSound
<1>4. ask.mode = "deep" /\ ask.bound /\ ask.question = "material" => HasEvidence(run)
  BY DEF Accept, Gate, DeepBlocks, Related
<1>5. ask.mode = "deep" /\ ~HasEvidence(run) => "unverified_nonmaterial" \in AnswerWarnings(reply)
  BY DEF AnswerWarnings, When, NonmaterialPass
<1>6. ASSUME ask.mode = "chat", ask.bound, ask.question \in AboutMaterial, ~run.searched
      PROVE  "unverified_no_search" \in AnswerWarnings(reply)
  <2>1. named = TRUE
    BY <1>6 DEF Listings
  <2>2. Related(named)
    BY <1>6, <2>1 DEF Related, AboutMaterial
  <2>3. run.blocks # 0
    BY <1>6, <2>2 DEF Accept, Gate, ChatBlocks
  <2>4. run.warnings # {}
    BY <2>3 DEF RunSound, TypeInv, TypeOK, RunRecord
  <2> QED
    BY <1>6, <2>4 DEF AnswerWarnings, When
<1>7. AnswerSound(run'.row)
  BY <1>1, <1>2, <1>4, <1>5, <1>6 DEF AnswerSound
<1> QED
  BY <1>1, <1>3, <1>7, SameConclusions DEF RowSound

LEMMA FreshSound ==
    ASSUME NEW stream \in BOOLEAN
    PROVE  RunSound(Fresh(stream)) /\ Fresh(stream).phase = "accepted"
<1> DEFINE r == Fresh(stream)
<1>1. /\ r.trace = {} /\ r.observed = {} /\ r.searched = FALSE /\ r.read = FALSE
      /\ r.blocks = 0 /\ r.phase = "accepted"
  BY DEF Fresh
<1> HIDE DEF r
<1>2. RunSound(r)
  BY <1>1 DEF RunSound, ShownIn, HasSearchIn, HasEvidenceIn, HasEvidence
<1> QED
  BY <1>1, <1>2 DEF r

LEMMA OverSound ==
    ASSUME run \in RunRecord
    PROVE  RunSound(Over)
<1>1. run.stream \in BOOLEAN
  BY DEF RunRecord
<1>2. Fresh(run.stream) \in RunRecord /\ RunSound(Fresh(run.stream))
  BY <1>1, FreshTyped, FreshSound
<1>3. Over \in RunRecord
  BY OverTyped
<1> QED
  BY <1>2, <1>3, SameConclusions DEF Over, RunRecord

LEMMA SafeInvInit == Init => SafeInv
<1> SUFFICES ASSUME Init PROVE SafeInv
  OBVIOUS
<1>1. stored = <<>> /\ \E stream \in BOOLEAN : run = Fresh(stream)
  BY DEF Init
<1>2. RunSound(run) /\ run.phase = "accepted"
  BY <1>1, FreshSound
<1> QED
  BY <1>1, <1>2 DEF SafeInv

LEMMA SafeInvStep == TypeInv /\ SafeInv /\ [Next]_vars => SafeInv'
<1> SUFFICES ASSUME TypeInv, SafeInv, [Next]_vars PROVE SafeInv'
  OBVIOUS
<1> USE DEF TypeInv, TypeOK, CallsLeft, ClosingHasRow
<1> DEFINE Closed == run'.phase = "closing" => RowSound(run'.row)
           Kept == \A i \in 1..Len(stored') : stored'[i].role = "assistant" => RowSound(stored'[i])
           Goal == RunSound(run') /\ Closed /\ Kept
<1>a. ask' = ask
  BY DEF Next, Turn, Start, Delta, CallTools, RunTool, Block, Accept, Store, Raise, Receive,
         Degrade, Abort, vars
<1> SUFFICES Goal
  BY <1>a DEF SafeInv, RowSound, AnswerSound, FailureSound, RunSound
<1>s. RunSound(run) /\ (run.phase = "closing" => RowSound(run.row))
  BY DEF SafeInv
<1>k. stored' = stored => Kept
  BY DEF SafeInv
<1>p. ASSUME NEW row \in AnswerRow \cup {UserRow, UntoldRow}, stored' = Append(stored, row),
             row.role = "assistant" => RowSound(row)
      PROVE  Kept
  <2>1. Len(stored') = Len(stored) + 1
    BY <1>p
  <2>2. \A i \in 1..Len(stored') :
            stored'[i] = IF i = Len(stored') THEN row ELSE stored[i]
    BY <1>p
  <2>3. ASSUME NEW i \in 1..Len(stored'), stored'[i].role = "assistant"
        PROVE  RowSound(stored'[i])
    BY <1>p, <2>1, <2>2, <2>3 DEF SafeInv
  <2> QED
    BY <2>3
<1>1. CASE Start
  <2>1. Kept
    BY <1>1, <1>p DEF Start, UserRow
  <2>2. RunSound(run') /\ run'.phase = "asking"
    BY <1>1, <1>s, SameConclusions DEF Start, RunRecord
  <2> QED
    BY <2>1, <2>2
<1>2. CASE Delta
  BY <1>2, <1>s, <1>k, SameConclusions DEF Delta, RunRecord
<1>3. ASSUME NEW n \in 1..MaxCalls, CallTools(n) PROVE Goal
  BY <1>3, <1>s, <1>k, SameConclusions DEF CallTools, RunRecord
<1>4. ASSUME NEW o \in Outcome, RunTool(o) PROVE Goal
  <2>1. Absorb(o) \in RunRecord /\ Absorb(o).phase = "tools" /\ RunSound(Absorb(o))
    BY <1>4, <1>s, AbsorbTyped, AbsorbSound DEF RunTool
  <2>2. run' \in {Absorb(o), RoundOver(Absorb(o))}
    BY <1>4 DEF RunTool
  <2>3. RunSound(run') /\ Closed
    BY <2>1, <2>2, RoundOverSound
  <2> QED
    BY <1>4, <1>k, <2>3 DEF RunTool
<1>5. ASSUME NEW named \in Listings, Block(named) PROVE Goal
  <2> DEFINE r == [run EXCEPT !.blocks = @ + 1, !.warnings = @ \cup Gate(named)]
  <2>1. /\ r.trace = run.trace /\ r.observed = run.observed /\ r.searched = run.searched
        /\ r.read = run.read /\ r.warnings = run.warnings \cup Gate(named)
    BY DEF RunRecord
  <2>2. r \in RunRecord
    <3>1. run.blocks + 1 \in Nat /\ run.warnings \cup Gate(named) \in SUBSET Warning
      BY DEF RunRecord, Gate, Warning, GateBlock
    <3> QED
      BY <3>1 DEF RunRecord
  <2>3. run' = IF ask.mode = "deep" /\ r.blocks >= MaxGateBlocks
               THEN Fail(r, "no_evidence_after_gate") ELSE RoundOver(r)
    BY <1>5 DEF Block
  <2> HIDE DEF r
  <2>4. RunSound(r)
    <3>1. r.warnings # {}
      BY <1>5, <2>1 DEF Block
    <3> QED
      BY <1>s, <2>1, <3>1 DEF RunSound, ShownIn, HasSearchIn, HasEvidenceIn, HasEvidence
  <2>5. ask.mode = "deep" => ask.question \in AboutMaterial /\ ~HasEvidence(r)
    BY <1>5, <2>1 DEF Block, Gate, DeepBlocks, ChatBlocks, Related, AboutMaterial, HasEvidence
  <2>6. RunSound(run') /\ Closed
    <3>1. CASE ask.mode = "deep" /\ r.blocks >= MaxGateBlocks
      BY <2>2, <2>3, <2>4, <2>5, <3>1, FailSound DEF Failure
    <3>2. CASE ~(ask.mode = "deep" /\ r.blocks >= MaxGateBlocks)
      BY <2>2, <2>3, <2>4, <3>2, RoundOverSound
    <3> QED
      BY <3>1, <3>2
  <2> QED
    BY <1>5, <1>k, <2>6 DEF Block
<1>6. ASSUME NEW reply \in Reply, NEW named \in Listings, Accept(reply, named) PROVE Goal
  <2>1. stored' = stored
    BY <1>6 DEF Accept
  <2> QED
    BY <1>6, <1>s, <1>k, <2>1, AcceptSound
<1>7. CASE Store
  <2>1. Kept
    BY <1>7, <1>s, <1>p DEF Store
  <2>2. RunSound(run') /\ run'.phase = "ended"
    BY <1>7, OverSound, OverTyped DEF Store
  <2> QED
    BY <2>1, <2>2
<1>8. CASE Raise
  <2>1. Kept
    BY <1>8, <1>k, <1>p, LeftRows DEF Raise
  <2>2. RunSound(run') /\ run'.phase = "ended"
    BY <1>8, OverSound, OverTyped DEF Raise
  <2> QED
    BY <2>1, <2>2
<1>9. CASE Receive
  BY <1>9, <1>s, <1>k DEF Receive
<1>10. CASE Degrade
  <2>1. RunSound(run') /\ run'.phase = "accepted"
    BY <1>10, FreshSound DEF Degrade
  <2> QED
    BY <1>10, <1>k, <2>1 DEF Degrade
<1>11. CASE Abort
  BY <1>11, <1>s, <1>k DEF Abort
<1>12. CASE UNCHANGED vars
  BY <1>12, <1>s, <1>k DEF vars
<1> QED
  BY <1>1, <1>2, <1>3, <1>4, <1>5, <1>6, <1>7, <1>8, <1>9, <1>10, <1>11, <1>12
  DEF Next, Turn

LEMMA AlwaysSafe == Spec => [](TypeInv /\ SafeInv)
BY TypeInvInit, SafeInvInit, TypeInvStep, SafeInvStep, PTL DEF Spec

LEMMA AnswerRowsSound ==
    ASSUME TypeInv, SafeInv
    PROVE  \A row \in AnswerRows : RowSound(row)
<1> SUFFICES ASSUME NEW i \in DOMAIN stored, stored[i].role = "assistant"
             PROVE  RowSound(stored[i])
  BY DEF AnswerRows
<1> QED
  BY DEF SafeInv, TypeInv, TypeOK

\* Whatever the model cites and however often it is asked again, no stored
\* answer cites a chunk that its own turn's tools did not return.
THEOREM CitationsWereShownAlways == Spec => []CitationsWereShown
<1>1. TypeInv /\ SafeInv => CitationsWereShown
  BY AnswerRowsSound DEF CitationsWereShown, RowSound
<1> QED
  BY <1>1, AlwaysSafe, PTL

\* The deep gate holds for every budget of rounds and blocks: over chosen
\* collections no question about the material is answered without evidence.
THEOREM DeepAnswersFromEvidenceAlways == Spec => []DeepAnswersFromEvidence
<1>1. TypeInv /\ SafeInv => DeepAnswersFromEvidence
  BY AnswerRowsSound DEF DeepAnswersFromEvidence, Answers, RowSound, AnswerSound
<1> QED
  BY <1>1, AlwaysSafe, PTL

\* Every stored answer that has no source carries the mark the reader sees.
THEOREM UnsourcedIsMarkedAlways == Spec => []UnsourcedIsMarked
<1>1. TypeInv /\ SafeInv => UnsourcedIsMarked
  BY AnswerRowsSound DEF UnsourcedIsMarked, Answers, RowSound, AnswerSound
<1> QED
  BY <1>1, AlwaysSafe, PTL

\* Every stored failure names what happened in its own turn.
THEOREM FailureTellsTruthAlways == Spec => []FailureTellsTruth
<1>1. TypeInv /\ SafeInv => FailureTellsTruth
  BY AnswerRowsSound DEF FailureTellsTruth, Answers, RowSound, FailureSound
<1> QED
  BY <1>1, AlwaysSafe, PTL

(***************************************************************************)
(* The queue of events and the reply                                       *)
(***************************************************************************)
Ends == {"turn_end", "error"}
Rounds == {"tool", "gate_block"}

\* The event that ends a request is the last one, and there is nothing to read
\* once it has been read; the rows it promises are stored.
QueueInv ==
    /\ \A i \in 1..Len(events) : events[i].name \in Ends => i = Len(events)
    /\ \A i \in 1..Len(events) : events[i].name = "turn_end" => events[i].row \in AnswerRows
    /\ client.status # "waiting" => events = <<>>
    /\ client.status = "done" => client.row \in AnswerRows
    /\ run.phase # "ended" =>
         /\ client.status \in {"waiting", "gone"}
         /\ \A i \in 1..Len(events) : events[i].name \notin Ends

\* One row at most is a reply; once it is there the loop has ended and nothing
\* makes the browser ask again.
ReplyInv ==
    /\ \A i, j \in 1..Len(stored) :
         stored[i].role = "assistant" /\ stored[j].role = "assistant" => i = j
    /\ \A i \in 1..Len(stored) : stored[i].role = "assistant" =>
         /\ run.phase = "ended" /\ client.status # "failed"
         /\ \A k \in 1..Len(events) : events[k].name # "error"

(***************************************************************************)
(* The draft on the screen                                                 *)
(***************************************************************************)
\* Before text of a round, and before the news that a round was none, every text
\* that came earlier has been taken back; and text comes only of rounds beyond
\* the settled ones.
Tidy(q, drafts, settled) ==
    \A j \in 1..Len(q) :
        /\ q[j].name \in Rounds \cup {"answer_delta"} =>
             /\ drafts # {} => \E k \in 1..Len(q) : k < j /\ q[k].name = "answer_reset"
             /\ \A i \in 1..Len(q) : i < j /\ q[i].name = "answer_delta" =>
                  \E k \in 1..Len(q) : i < k /\ k < j /\ q[k].name = "answer_reset"
        /\ q[j].name = "answer_delta" =>
             /\ \A r \in settled : r < q[j].round
             /\ \A i \in 1..Len(q) : i < j /\ q[i].name \in Rounds => q[i].round < q[j].round

\* At the end of the queue no text is left on the screen.
Cleared(q, drafts) ==
    /\ drafts # {} => \E k \in 1..Len(q) : q[k].name = "answer_reset"
    /\ \A i \in 1..Len(q) : q[i].name = "answer_delta" =>
         \E k \in 1..Len(q) : i < k /\ q[k].name = "answer_reset"

\* Rounds up to n are settled, or will be.
UpTo(q, settled, n) ==
    /\ \A r \in settled : r <= n
    /\ \A i \in 1..Len(q) : q[i].name \in Rounds => q[i].round <= n

\* Text of one round at most, and of none that is settled.
Open(drafts, settled) == (\A x, y \in drafts : x = y) /\ drafts \cap settled = {}

\* What the queue holds while the client reads it.
InStream(q, d, s, r) ==
    /\ Tidy(q, d, s)
    /\ r.phase = "tools" \/ (r.phase \in {"accepted", "asking"} /\ ~r.streamed) => Cleared(q, d)
    /\ r.phase \in {"accepted", "asking"} => UpTo(q, s, r.round - 1)
    /\ r.phase = "tools" => UpTo(q, s, r.round)

DraftInv ==
    /\ Open(client.drafts, client.settled)
    /\ run.phase = "accepted" \/ ~run.stream => ~run.streamed
    /\ client.status = "waiting" =>
         /\ ~run.stream => \A i \in 1..Len(events) : events[i].name \in Ends
         /\ run.stream => InStream(events, client.drafts, client.settled, run)

LEMMA ConcatOne ==
    ASSUME NEW q \in Seq(Event), NEW e \in Event
    PROVE  q \o <<e>> = Append(q, e)
OBVIOUS

LEMMA ConcatTwo ==
    ASSUME NEW q \in Seq(Event), NEW d \in Event, NEW e \in Event
    PROVE  q \o (<<d>> \o <<e>>) = Append(Append(q, d), e)
OBVIOUS

LEMMA ConcatNone ==
    ASSUME NEW q \in Seq(Event)
    PROVE  q \o <<>> = q
OBVIOUS

LEMMA Appended ==
    ASSUME NEW q \in Seq(Event), NEW e \in Event
    PROVE  /\ Append(q, e) \in Seq(Event) /\ Len(Append(q, e)) = Len(q) + 1
           /\ \A i \in 1..Len(q) : Append(q, e)[i] = q[i]
           /\ Append(q, e)[Len(q) + 1] = e /\ Len(q) \in Nat
BY AppendProperties

LEMMA TailAt ==
    ASSUME NEW q \in Seq(Event), q # <<>>
    PROVE  /\ Head(q) = q[1] /\ Head(q) \in Event /\ Tail(q) \in Seq(Event)
           /\ Len(Tail(q)) = Len(q) - 1 /\ Len(q) \in Nat \ {0}
           /\ \A i \in 1..Len(Tail(q)) : Tail(q)[i] = q[i + 1]
OBVIOUS

Plain(q) == \A i \in 1..Len(q) : q[i].name \notin Ends

\* The worker between its start and its end.
Working ==
    \/ Delta
    \/ \E n \in 1..MaxCalls : CallTools(n)
    \/ \E o \in Outcome : RunTool(o)
    \/ \E named \in Listings : Block(named)
    \/ \E reply \in Reply, named \in Listings : Accept(reply, named)

LEMMA NextSteps ==
    Next <=> Start \/ Working \/ Store \/ Raise \/ Receive \/ Degrade \/ Abort
BY DEF Next, Turn, Working

\* What the worker emits on its way.
LEMMA Emissions ==
    ASSUME TypeInv
    PROVE  /\ InRound("answer_delta") \in Event /\ InRound("answer_reset") \in Event
           /\ InRound("tool") \in Event /\ InRound("gate_block") \in Event
           /\ \A name : InRound(name).name = name /\ InRound(name).round = run.round
           /\ run.round \in Nat \ {0}
<1>1. run \in RunRecord
  BY DEF TypeInv, TypeOK
<1> QED
  BY <1>1, RoundEventsTyped DEF InRound, RunRecord, Round

LEMMA WorkingEmits ==
    ASSUME TypeInv, Working
    PROVE  /\ run.phase \in {"asking", "tools"} /\ UNCHANGED <<ask, stored, client>>
           /\ run'.phase # "ended"
           /\ client.status = "gone" => events' = events
           /\ Plain(events) => Plain(events')
<1>1. run \in RunRecord /\ events \in Seq(Event)
  BY DEF TypeInv, TypeOK
<1>e. /\ InRound("answer_delta") \in Event /\ InRound("answer_reset") \in Event
      /\ InRound("tool") \in Event /\ InRound("gate_block") \in Event
      /\ \A name : InRound(name).name = name
  BY Emissions
<1>f. ASSUME NEW es \in Seq(Event), Emit(es), \A i \in 1..Len(es) : es[i].name \notin Ends
      PROVE  /\ client.status = "gone" => events' = events
             /\ Plain(events) => Plain(events')
  <2>1. CASE client.status = "gone"
    BY <1>f, <2>1 DEF Emit
  <2>2. CASE client.status # "gone"
    <3>1. events' = events \o es
      BY <1>f, <2>2 DEF Emit
    <3>2. /\ Len(events') = Len(events) + Len(es) /\ Len(events) \in Nat /\ Len(es) \in Nat
          /\ \A i \in 1..Len(events) + Len(es) :
               events'[i] = IF i <= Len(events) THEN events[i] ELSE es[i - Len(events)]
      BY <1>1, <1>f, <3>1
    <3>3. ASSUME NEW i \in 1..Len(events'), Plain(events) PROVE events'[i].name \notin Ends
      <4>1. CASE i <= Len(events)
        BY <3>2, <3>3, <4>1 DEF Plain
      <4>2. CASE ~(i <= Len(events))
        <5>1. i - Len(events) \in 1..Len(es)
          BY <3>2, <4>2
        <5> QED
          BY <1>f, <3>2, <4>2, <5>1
      <4> QED
        BY <4>1, <4>2
    <3> QED
      BY <2>2, <3>3 DEF Plain
  <2> QED
    BY <2>1, <2>2
<1>r. Reset \in Seq(Event) /\ \A i \in 1..Len(Reset) : Reset[i].name \notin Ends
  <2>1. <<InRound("answer_reset")>> \in Seq(Event) /\ <<>> \in Seq(Event)
    BY <1>e
  <2> QED
    BY <1>e, <2>1 DEF Reset, Ends
<1>2. CASE Delta
  <2>1. <<InRound("answer_delta")>> \in Seq(Event) /\ Emit(<<InRound("answer_delta")>>)
    BY <1>2, <1>e DEF Delta
  <2>2. \A i \in 1..Len(<<InRound("answer_delta")>>) :
          <<InRound("answer_delta")>>[i].name \notin Ends
    BY <1>e DEF Ends
  <2>3. run.phase = "asking" /\ run'.phase = "asking" /\ UNCHANGED <<ask, stored, client>>
    BY <1>1, <1>2 DEF Delta, RunRecord
  <2> QED
    BY <1>f, <2>1, <2>2, <2>3
<1>3. ASSUME NEW n \in 1..MaxCalls, CallTools(n)
      PROVE  /\ run.phase \in {"asking", "tools"} /\ UNCHANGED <<ask, stored, client>>
             /\ run'.phase # "ended"
             /\ client.status = "gone" => events' = events
             /\ Plain(events) => Plain(events')
  <2>1. run.phase = "asking" /\ run'.phase = "tools" /\ UNCHANGED <<ask, stored, client>>
    BY <1>1, <1>3 DEF CallTools, RunRecord
  <2>2. Emit(Reset)
    BY <1>3 DEF CallTools
  <2> QED
    BY <1>f, <1>r, <2>1, <2>2
<1>4. ASSUME NEW o \in Outcome, RunTool(o)
      PROVE  /\ run.phase \in {"asking", "tools"} /\ UNCHANGED <<ask, stored, client>>
             /\ run'.phase # "ended"
             /\ client.status = "gone" => events' = events
             /\ Plain(events) => Plain(events')
  <2>1. run.phase = "tools" /\ UNCHANGED <<ask, stored, client>>
    BY <1>4 DEF RunTool
  <2>2. run'.phase # "ended"
    <3>1. Absorb(o) \in RunRecord /\ Absorb(o).phase = "tools"
      BY <1>1, <1>4, <2>1, AbsorbTyped DEF TypeInv, CallsLeft
    <3> QED
      BY <1>4, <3>1, RoundOverTyped DEF RunTool
  <2>3. ForStream(<<InRound("tool")>>) \in Seq(Event)
        /\ \A i \in 1..Len(ForStream(<<InRound("tool")>>)) :
              ForStream(<<InRound("tool")>>)[i].name \notin Ends
    <3>1. <<InRound("tool")>> \in Seq(Event) /\ <<>> \in Seq(Event)
      BY <1>e
    <3> QED
      BY <1>e, <3>1 DEF ForStream, Ends
  <2>4. Emit(ForStream(<<InRound("tool")>>))
    BY <1>4 DEF RunTool
  <2> QED
    BY <1>f, <2>1, <2>2, <2>3, <2>4
<1>5. ASSUME NEW named \in Listings, Block(named)
      PROVE  /\ run.phase \in {"asking", "tools"} /\ UNCHANGED <<ask, stored, client>>
             /\ run'.phase # "ended"
             /\ client.status = "gone" => events' = events
             /\ Plain(events) => Plain(events')
  <2>1. run.phase = "asking" /\ UNCHANGED <<ask, stored, client>>
    BY <1>5 DEF Block
  <2>2. run'.phase # "ended"
    <3> DEFINE r == [run EXCEPT !.blocks = @ + 1, !.warnings = @ \cup Gate(named)]
    <3>1. run.blocks + 1 \in Nat /\ run.warnings \cup Gate(named) \in SUBSET Warning
      BY <1>1 DEF RunRecord, Gate, Warning, GateBlock
    <3>2. r \in RunRecord
      BY <1>1, <3>1 DEF RunRecord
    <3>3. run' \in {Fail(r, "no_evidence_after_gate"), RoundOver(r)}
      BY <1>5 DEF Block
    <3> HIDE DEF r
    <3> QED
      BY <3>2, <3>3, FailTyped, RoundOverTyped DEF Failure
  <2>3. Refusal \in Seq(Event) /\ \A i \in 1..Len(Refusal) : Refusal[i].name \notin Ends
    <3>1. /\ ForStream(<<InRound("gate_block")>>) \in Seq(Event)
          /\ \A i \in 1..Len(ForStream(<<InRound("gate_block")>>)) :
                ForStream(<<InRound("gate_block")>>)[i].name \notin Ends
      <4>1. <<InRound("gate_block")>> \in Seq(Event) /\ <<>> \in Seq(Event)
        BY <1>e
      <4> QED
        BY <1>e, <4>1 DEF ForStream, Ends
    <3> QED
      BY <1>r, <3>1 DEF Refusal
  <2>4. Emit(Refusal)
    BY <1>5 DEF Block
  <2> QED
    BY <1>f, <2>1, <2>2, <2>3, <2>4
<1>6. ASSUME NEW reply \in Reply, NEW named \in Listings, Accept(reply, named)
      PROVE  /\ run.phase = "asking" /\ UNCHANGED <<ask, stored, events, client>>
             /\ run'.phase = "closing"
  BY <1>1, <1>6 DEF Accept, Close, RunRecord
<1> QED
  BY <1>2, <1>3, <1>4, <1>5, <1>6 DEF Working, Plain

LEMMA RowsStay ==
    ASSUME stored \in Seq(AnswerRow \cup {UserRow, UntoldRow}), NEW row, stored' = Append(stored, row)
    PROVE  /\ Len(stored') = Len(stored) + 1 /\ Len(stored) \in Nat
           /\ \A i \in 1..Len(stored) : stored'[i] = stored[i]
           /\ stored'[Len(stored) + 1] = row
           /\ AnswerRows \subseteq AnswerRows'
           /\ row.role = "assistant" => row \in AnswerRows'
<1>1. /\ Len(stored') = Len(stored) + 1 /\ Len(stored) \in Nat
      /\ \A i \in 1..Len(stored) : stored'[i] = stored[i]
      /\ stored'[Len(stored) + 1] = row
      /\ DOMAIN stored' = 1..Len(stored) + 1 /\ DOMAIN stored = 1..Len(stored)
  OBVIOUS
<1> QED
  BY <1>1 DEF AnswerRows

\* The event that closes a request is emitted once, by the step that ends the run.
LEMMA EndEmitted ==
    ASSUME TypeInv, NEW e \in Event, Emit(<<e>>), client.status \in {"waiting", "gone"}
    PROVE  \/ client.status = "gone" /\ events' = events
           \/ /\ client.status = "waiting" /\ Len(events') = Len(events) + 1 /\ Len(events) \in Nat
              /\ \A i \in 1..Len(events) : events'[i] = events[i]
              /\ events'[Len(events) + 1] = e
BY ConcatOne, Appended DEF Emit, TypeInv, TypeOK

LEMMA QueueStep == TypeInv /\ QueueInv /\ [Next]_vars => QueueInv'
<1> SUFFICES ASSUME TypeInv, QueueInv, [Next]_vars PROVE QueueInv'
  OBVIOUS
<1>t. /\ run \in RunRecord /\ client \in Client /\ events \in Seq(Event)
      /\ stored \in Seq(AnswerRow \cup {UserRow, UntoldRow})
      /\ run.phase = "closing" => run.row \in AnswerRow
  BY DEF TypeInv, TypeOK, ClosingHasRow
<1>1. CASE Start
  <2>1. AnswerRows \subseteq AnswerRows'
    BY <1>1, <1>t, RowsStay DEF Start
  <2>2. run.phase # "ended" /\ UNCHANGED <<events, client>>
    BY <1>1 DEF Start
  <2> QED
    BY <2>1, <2>2 DEF QueueInv
<1>2. CASE Working
  <2>1. AnswerRows' = AnswerRows
    BY <1>2, WorkingEmits DEF AnswerRows
  <2>2. Plain(events)
    BY <1>2, WorkingEmits DEF QueueInv, Plain
  <2> QED
    BY <1>2, <2>1, <2>2, WorkingEmits DEF QueueInv, Plain, Ends
<1>3. CASE Store
  <2> DEFINE e == [name |-> "turn_end", row |-> run.row]
  <2>1. e \in Event /\ run.row.role = "assistant" /\ Emit(<<e>>)
    BY <1>3, <1>t DEF Store, Event, AnswerRow
  <2>2. AnswerRows \subseteq AnswerRows' /\ run.row \in AnswerRows'
    BY <1>3, <1>t, <2>1, RowsStay DEF Store
  <2>3. run.phase # "ended" /\ run'.phase = "ended" /\ client' = client
    BY <1>3, <1>t, OverTyped DEF Store
  <2>4. e.name = "turn_end" /\ e.row = run.row
    OBVIOUS
  <2> HIDE DEF e
  <2>5. client.status \in {"waiting", "gone"} /\ Plain(events)
    BY <2>3 DEF QueueInv, Plain
  <2>6. CASE client.status = "gone" /\ events' = events
    BY <2>2, <2>3, <2>6 DEF QueueInv
  <2>7. CASE /\ client.status = "waiting" /\ Len(events') = Len(events) + 1 /\ Len(events) \in Nat
             /\ \A i \in 1..Len(events) : events'[i] = events[i]
             /\ events'[Len(events) + 1] = e
    <3>1. \A i \in 1..Len(events') : i \in 1..Len(events) \/ i = Len(events')
      BY <2>7
    <3> QED
      BY <2>2, <2>3, <2>4, <2>5, <2>7, <3>1 DEF QueueInv, Plain, Ends
  <2> QED
    BY <2>1, <2>5, <2>6, <2>7, EndEmitted
<1>4. CASE Raise
  <2> DEFINE e == [name |-> "error"]
  <2>1. e \in Event /\ Emit(<<e>>) /\ e.name = "error"
    BY <1>4 DEF Raise, ErrorReport, Event
  <2>2. AnswerRows \subseteq AnswerRows'
    <3>1. CASE stored' = stored
      BY <3>1 DEF AnswerRows
    <3>2. CASE \E row \in LeftBehind : stored' = Append(stored, row)
      BY <1>t, <3>2, RowsStay
    <3> QED
      BY <1>4, <3>1, <3>2 DEF Raise
  <2>3. run.phase # "ended" /\ run'.phase = "ended" /\ client' = client
    BY <1>4, <1>t, OverTyped DEF Raise, MayRaise
  <2> HIDE DEF e
  <2>5. client.status \in {"waiting", "gone"} /\ Plain(events)
    BY <2>3 DEF QueueInv, Plain
  <2>6. CASE client.status = "gone" /\ events' = events
    BY <2>2, <2>3, <2>6 DEF QueueInv
  <2>7. CASE /\ client.status = "waiting" /\ Len(events') = Len(events) + 1 /\ Len(events) \in Nat
             /\ \A i \in 1..Len(events) : events'[i] = events[i]
             /\ events'[Len(events) + 1] = e
    <3>1. \A i \in 1..Len(events') : i \in 1..Len(events) \/ i = Len(events')
      BY <2>7
    <3> QED
      BY <2>1, <2>2, <2>3, <2>5, <2>7, <3>1 DEF QueueInv, Plain, Ends
  <2> QED
    BY <2>1, <2>5, <2>6, <2>7, EndEmitted
<1>5. CASE Receive
  <2> DEFINE e == Head(events)
  <2>1. /\ client.status = "waiting" /\ client' = Applied(e) /\ events' = Tail(events)
        /\ run' = run /\ AnswerRows' = AnswerRows /\ events # <<>>
    BY <1>5 DEF Receive, AnswerRows
  <2>2. /\ e = events[1] /\ e \in Event /\ Len(events') = Len(events) - 1
        /\ Len(events) \in Nat \ {0} /\ events' \in Seq(Event)
        /\ \A i \in 1..Len(events') : events'[i] = events[i + 1]
    BY <1>t, <2>1, TailAt
  <2> HIDE DEF e
  <2>3. e.name \in {"answer_delta", "answer_reset", "tool", "gate_block", "turn_end", "error"}
    BY <2>2 DEF Event
  <2>4. /\ \A i \in 1..Len(events') : events'[i].name \in Ends => i = Len(events')
        /\ \A i \in 1..Len(events') : events'[i].name = "turn_end" => events'[i].row \in AnswerRows'
    <3>1. ASSUME NEW i \in 1..Len(events')
          PROVE  /\ i + 1 \in 1..Len(events) /\ events'[i] = events[i + 1]
                 /\ i + 1 = Len(events) => i = Len(events')
      BY <2>2
    <3> QED
      BY <2>1, <3>1 DEF QueueInv
  <2>5. run'.phase # "ended" =>
          e.name \notin Ends /\ \A i \in 1..Len(events') : events'[i].name \notin Ends
    <3>1. 1 \in 1..Len(events) /\ \A i \in 1..Len(events') : i + 1 \in 1..Len(events)
      BY <2>2
    <3> QED
      BY <2>1, <2>2, <3>1 DEF QueueInv
  <2>6. CASE e.name \in Ends
    <3>1. Len(events') = 0
      BY <2>2, <2>6 DEF QueueInv
    <3>2. events' = <<>>
      BY <2>2, <3>1, EmptySeq
    <3>3. /\ e.name = "turn_end" => client'.status = "done" /\ client'.row = e.row
          /\ e.name = "error" => client'.status = "failed"
      BY <1>t, <2>1, <2>6 DEF Applied, Client, Ends
    <3>4. e.name = "turn_end" => e.row \in AnswerRows
      BY <2>2 DEF QueueInv
    <3> QED
      BY <2>1, <2>4, <2>5, <2>6, <3>2, <3>3, <3>4 DEF QueueInv, Ends
  <2>7. CASE e.name \notin Ends
    <3>1. client'.status = "waiting"
      BY <1>t, <2>1, <2>3, <2>7 DEF Applied, Client, Ends
    <3> QED
      BY <2>1, <2>4, <2>5, <3>1 DEF QueueInv
  <2> QED
    BY <2>6, <2>7
<1>6. CASE Degrade
  <2>1. /\ events = <<>> /\ events' = <<>> /\ AnswerRows' = AnswerRows
        /\ client'.status = "waiting"
    BY <1>6, <1>t DEF Degrade, Degrades, QueueInv, AnswerRows, Client
  <2> QED
    BY <2>1 DEF QueueInv
<1>7. CASE Abort
  <2>1. /\ events' = <<>> /\ AnswerRows' = AnswerRows /\ client'.status = "gone"
    BY <1>7, <1>t DEF Abort, AnswerRows, Client
  <2> QED
    BY <2>1 DEF QueueInv
<1>8. CASE UNCHANGED vars
  BY <1>8 DEF vars, QueueInv, AnswerRows
<1> QED
  BY <1>1, <1>2, <1>3, <1>4, <1>5, <1>6, <1>7, <1>8, NextSteps

LEMMA ReplyStep == TypeInv /\ QueueInv /\ ReplyInv /\ [Next]_vars => ReplyInv'
<1> SUFFICES ASSUME TypeInv, QueueInv, ReplyInv, [Next]_vars PROVE ReplyInv'
  OBVIOUS
<1>t. /\ run \in RunRecord /\ client \in Client /\ events \in Seq(Event)
      /\ stored \in Seq(AnswerRow \cup {UserRow, UntoldRow})
  BY DEF TypeInv, TypeOK
<1> DEFINE NoReply == \A i \in 1..Len(stored) : stored[i].role # "assistant"
<1>n. run.phase # "ended" => NoReply
  BY DEF ReplyInv
<1>1. CASE Start
  <2>1. run.phase # "ended" /\ stored' = Append(stored, UserRow) /\ UserRow.role # "assistant"
    BY <1>1 DEF Start, UserRow
  <2>2. \A i \in 1..Len(stored') : stored'[i].role # "assistant"
    BY <1>n, <1>t, <2>1, RowsStay
  <2> QED
    BY <2>2 DEF ReplyInv
<1>2. CASE Working
  <2>1. NoReply /\ stored' = stored
    BY <1>2, <1>n, WorkingEmits
  <2> QED
    BY <2>1 DEF ReplyInv
<1>3. CASE Store
  <2> DEFINE e == [name |-> "turn_end", row |-> run.row]
  <2>1. e \in Event /\ Emit(<<e>>) /\ e.name = "turn_end"
    BY <1>3 DEF Store, Event, TypeInv, ClosingHasRow
  <2> HIDE DEF e
  <2>2. run.phase # "ended" /\ run'.phase = "ended" /\ client' = client
    BY <1>3, <1>t, OverTyped DEF Store
  <2>3. \A i \in 1..Len(stored') : stored'[i].role = "assistant" => i = Len(stored) + 1
    <3>1. /\ Len(stored') = Len(stored) + 1 /\ Len(stored) \in Nat
          /\ \A i \in 1..Len(stored) : stored'[i] = stored[i]
      BY <1>3, <1>t, RowsStay DEF Store
    <3> QED
      BY <1>n, <2>2, <3>1
  <2>4. client.status \in {"waiting", "gone"} /\ \A k \in 1..Len(events) : events[k].name # "error"
    BY <2>2 DEF QueueInv, Ends
  <2>5. \A k \in 1..Len(events') : events'[k].name # "error"
    BY <2>1, <2>4, EndEmitted
  <2> QED
    BY <2>2, <2>3, <2>4, <2>5 DEF ReplyInv
<1>4. CASE Raise
  <2>1. NoReply
    BY <1>4, <1>n, <1>t DEF Raise, MayRaise
  <2>2. CASE stored' = stored
    BY <2>1, <2>2 DEF ReplyInv
  <2>3. ASSUME NEW row \in LeftBehind, stored' = Append(stored, row) PROVE ReplyInv'
    <3>1. row.role # "assistant"
      BY LeftRows
    <3>2. \A i \in 1..Len(stored') : stored'[i].role # "assistant"
      BY <1>t, <2>1, <2>3, <3>1, RowsStay
    <3> QED
      BY <3>2 DEF ReplyInv
  <2> QED
    BY <1>4, <2>2, <2>3 DEF Raise
<1>5. CASE Receive
  <2> DEFINE e == Head(events)
  <2>1. /\ client' = Applied(e) /\ events' = Tail(events) /\ run' = run /\ stored' = stored
        /\ events # <<>> /\ client.status = "waiting"
    BY <1>5 DEF Receive
  <2>2. /\ e = events[1] /\ e \in Event /\ Len(events') = Len(events) - 1
        /\ Len(events) \in Nat \ {0}
        /\ \A i \in 1..Len(events') : events'[i] = events[i + 1]
    BY <1>t, <2>1, TailAt
  <2> HIDE DEF e
  <2>3. e.name \in {"answer_delta", "answer_reset", "tool", "gate_block", "turn_end", "error"}
    BY <2>2 DEF Event
  <2>4. e.name # "error" => client'.status # "failed"
    BY <1>t, <2>1, <2>3 DEF Applied, Client
  <2>5. 1 \in 1..Len(events) /\ \A i \in 1..Len(events') : i + 1 \in 1..Len(events)
    BY <2>2
  <2> QED
    BY <2>1, <2>2, <2>4, <2>5 DEF ReplyInv
<1>6. CASE Degrade
  <2>1. NoReply /\ stored' = stored
    BY <1>6 DEF Degrade, Degrades, ReplyInv
  <2> QED
    BY <2>1 DEF ReplyInv
<1>7. CASE Abort
  <2>1. events' = <<>> /\ stored' = stored /\ run' = run /\ client'.status = "gone"
    BY <1>7, <1>t DEF Abort, Client
  <2> QED
    BY <2>1 DEF ReplyInv
<1>8. CASE UNCHANGED vars
  BY <1>8 DEF vars, ReplyInv
<1> QED
  BY <1>1, <1>2, <1>3, <1>4, <1>5, <1>6, <1>7, <1>8, NextSteps

LEMMA QueueInit == Init => QueueInv /\ ReplyInv
<1> SUFFICES ASSUME Init PROVE QueueInv /\ ReplyInv
  OBVIOUS
<1>1. events = <<>> /\ stored = <<>> /\ client.status = "waiting" /\ client.row = NoRow
  BY DEF Init
<1>2. Len(events) = 0 /\ Len(stored) = 0
  BY <1>1
<1>3. \A i \in 1..0 : FALSE
  OBVIOUS
<1> QED
  BY <1>1, <1>2, <1>3 DEF QueueInv, ReplyInv

LEMMA OnlyOne ==
    ASSUME NEW S, \A x, y \in S : x = y
    PROVE  IsFiniteSet(S) /\ Cardinality(S) <= 1
<1>1. CASE S = {}
  BY <1>1, FS_EmptySet
<1>2. ASSUME NEW x \in S PROVE IsFiniteSet(S) /\ Cardinality(S) <= 1
  <2>1. S = {x}
    BY <1>2
  <2>2. IsFiniteSet({x}) /\ Cardinality({x}) = 1
    BY FS_Singleton
  <2> QED
    BY <2>1, <2>2
<1> QED
  BY <1>1, <1>2

LEMMA QueueAlways == Spec => [](TypeInv /\ QueueInv /\ ReplyInv)
<1>1. Init => TypeInv /\ QueueInv /\ ReplyInv
  BY TypeInvInit, QueueInit
<1>2. TypeInv /\ QueueInv /\ ReplyInv /\ [Next]_vars => (TypeInv /\ QueueInv /\ ReplyInv)'
  BY TypeInvStep, QueueStep, ReplyStep
<1> QED
  BY <1>1, <1>2, PTL DEF Spec

\* One send gets one reply at most, also when the browser asks again or stops
\* waiting, and what it shows in the end is a row that was stored.
THEOREM OneReplyAlways == Spec => []OneReply
<1>1. TypeInv /\ QueueInv /\ ReplyInv => OneReply
  <2> SUFFICES ASSUME TypeInv, QueueInv, ReplyInv PROVE OneReply
    OBVIOUS
  <2> DEFINE S == {i \in DOMAIN stored : stored[i].role = "assistant"}
  <2>1. DOMAIN stored = 1..Len(stored)
    BY DEF TypeInv, TypeOK
  <2>2. \A i, j \in S : i = j
    BY <2>1 DEF ReplyInv
  <2> HIDE DEF S
  <2>3. Cardinality(S) <= 1
    BY <2>2, OnlyOne
  <2> QED
    BY <2>3 DEF S, OneReply, QueueInv
<1> QED
  BY <1>1, QueueAlways, PTL

(***************************************************************************)
(* How the queue stays tidy                                                *)
(***************************************************************************)
LEMMA EventRounds ==
    ASSUME NEW q \in Seq(Event), NEW i \in 1..Len(q),
           q[i].name \in Rounds \cup {"answer_delta"}
    PROVE  q[i].round \in Nat \ {0}
<1>1. q[i] \in Event
  OBVIOUS
<1> QED
  BY <1>1 DEF Event, Round, Rounds

LEMMA TidyReset ==
    ASSUME NEW q \in Seq(Event), NEW e \in Event, e.name = "answer_reset",
           NEW drafts, NEW settled, Tidy(q, drafts, settled)
    PROVE  /\ Tidy(Append(q, e), drafts, settled) /\ Cleared(Append(q, e), drafts)
           /\ \A n : UpTo(q, settled, n) => UpTo(Append(q, e), settled, n)
<1> DEFINE p == Append(q, e)
<1>1. /\ Len(p) = Len(q) + 1 /\ Len(q) \in Nat
      /\ \A i \in 1..Len(q) : p[i] = q[i]
      /\ p[Len(q) + 1] = e
  BY Appended
<1>2. \A i \in 1..Len(p) : i \in 1..Len(q) \/ i = Len(q) + 1
  BY <1>1
<1>3. \A i \in 1..Len(q) : i \in 1..Len(p) /\ i < Len(q) + 1
  BY <1>1
<1>4. Len(q) + 1 \in 1..Len(p)
  BY <1>1
<1> HIDE DEF p
<1>5. e.name \notin Rounds \cup {"answer_delta"}
  BY DEF Rounds
<1>6. Tidy(p, drafts, settled)
  <2> SUFFICES ASSUME NEW j \in 1..Len(q)
               PROVE  /\ q[j].name \in Rounds \cup {"answer_delta"} =>
                           /\ drafts # {} => \E k \in 1..Len(p) : k < j /\ p[k].name = "answer_reset"
                           /\ \A i \in 1..Len(p) : i < j /\ p[i].name = "answer_delta" =>
                                \E k \in 1..Len(p) : i < k /\ k < j /\ p[k].name = "answer_reset"
                      /\ q[j].name = "answer_delta" =>
                           /\ \A r \in settled : r < q[j].round
                           /\ \A i \in 1..Len(p) : i < j /\ p[i].name \in Rounds => p[i].round < q[j].round
    BY <1>1, <1>2, <1>5 DEF Tidy
  <2>1. \A i \in 1..Len(p) : i < j => i \in 1..Len(q) /\ p[i] = q[i]
    BY <1>1
  <2> QED
    BY <1>1, <1>3, <2>1 DEF Tidy
<1>7. Cleared(p, drafts)
  BY <1>1, <1>2, <1>3, <1>4 DEF Cleared
<1>8. ASSUME NEW n, UpTo(q, settled, n) PROVE UpTo(p, settled, n)
  BY <1>1, <1>2, <1>5, <1>8 DEF UpTo
<1> QED
  BY <1>6, <1>7, <1>8 DEF p

\* Text of a round, or the news that a round was none, after all has been taken
\* back.
LEMMA TidyAfterReset ==
    ASSUME NEW q \in Seq(Event), NEW e \in Event,
           e.name \in Rounds \cup {"answer_delta"}, e.round \in Nat,
           NEW drafts, NEW settled, Tidy(q, drafts, settled), Cleared(q, drafts),
           e.name = "answer_delta" =>
             /\ \A r \in settled : r < e.round
             /\ \A i \in 1..Len(q) : q[i].name \in Rounds => q[i].round < e.round
    PROVE  Tidy(Append(q, e), drafts, settled)
<1> DEFINE p == Append(q, e)
<1>1. /\ Len(p) = Len(q) + 1 /\ Len(q) \in Nat
      /\ \A i \in 1..Len(q) : p[i] = q[i]
      /\ p[Len(q) + 1] = e
  BY Appended
<1>2. \A i \in 1..Len(p) : i \in 1..Len(q) \/ i = Len(q) + 1
  BY <1>1
<1>3. \A i \in 1..Len(q) : i \in 1..Len(p) /\ i < Len(q) + 1
  BY <1>1
<1> HIDE DEF p
<1> DEFINE Sound(j, d) ==
      /\ d.name \in Rounds \cup {"answer_delta"} =>
           /\ drafts # {} => \E k \in 1..Len(p) : k < j /\ p[k].name = "answer_reset"
           /\ \A i \in 1..Len(p) : i < j /\ p[i].name = "answer_delta" =>
                \E k \in 1..Len(p) : i < k /\ k < j /\ p[k].name = "answer_reset"
      /\ d.name = "answer_delta" =>
           /\ \A r \in settled : r < d.round
           /\ \A i \in 1..Len(p) : i < j /\ p[i].name \in Rounds => p[i].round < d.round
<1>4. ASSUME NEW j \in 1..Len(q) PROVE Sound(j, q[j])
  <2>1. \A i \in 1..Len(p) : i < j => i \in 1..Len(q) /\ p[i] = q[i]
    BY <1>1
  <2> QED
    BY <1>1, <1>3, <2>1 DEF Tidy
<1>5. Sound(Len(q) + 1, e)
  <2>1. \A i \in 1..Len(p) : i < Len(q) + 1 => i \in 1..Len(q) /\ p[i] = q[i]
    BY <1>1
  <2> QED
    BY <1>1, <1>3, <2>1 DEF Cleared
<1>6. \A j \in 1..Len(p) : Sound(j, p[j])
  BY <1>1, <1>2, <1>4, <1>5
<1> QED
  BY <1>6 DEF Tidy, p

LEMMA TidyDelta ==
    ASSUME NEW q \in Seq(Event), NEW e \in Event, e.name = "answer_delta",
           NEW drafts, NEW settled \in SUBSET Round, Tidy(q, drafts, settled),
           Cleared(q, drafts), UpTo(q, settled, e.round - 1)
    PROVE  Tidy(Append(q, e), drafts, settled) /\ UpTo(Append(q, e), settled, e.round - 1)
<1>1. e.round \in Nat \ {0}
  BY DEF Event, Round
<1>2. \A r \in settled : r \in Nat /\ r < e.round
  BY <1>1 DEF UpTo, Round
<1>3. \A i \in 1..Len(q) : q[i].name \in Rounds => q[i].round < e.round
  <2> SUFFICES ASSUME NEW i \in 1..Len(q), q[i].name \in Rounds PROVE q[i].round < e.round
    OBVIOUS
  <2>1. q[i].round \in Nat \ {0}
    BY EventRounds
  <2> QED
    BY <1>1, <2>1 DEF UpTo
<1>4. Tidy(Append(q, e), drafts, settled)
  BY <1>1, <1>2, <1>3, TidyAfterReset DEF Rounds
<1>5. UpTo(Append(q, e), settled, e.round - 1)
  <2>1. e.name \notin Rounds
    BY DEF Rounds
  <2>2. \A i \in 1..Len(Append(q, e)) : i \in 1..Len(q) \/ i = Len(q) + 1
    BY Appended
  <2> QED
    BY <2>1, <2>2, Appended DEF UpTo
<1> QED
  BY <1>4, <1>5

LEMMA TidyRound ==
    ASSUME NEW q \in Seq(Event), NEW e \in Event, e.name \in Rounds,
           NEW drafts, NEW settled, Tidy(q, drafts, settled), Cleared(q, drafts),
           UpTo(q, settled, e.round)
    PROVE  /\ Tidy(Append(q, e), drafts, settled) /\ Cleared(Append(q, e), drafts)
           /\ UpTo(Append(q, e), settled, e.round)
<1>1. e.round \in Nat \ {0} /\ e.name # "answer_delta"
  BY DEF Event, Round, Rounds
<1>2. Tidy(Append(q, e), drafts, settled)
  BY <1>1, TidyAfterReset
<1>3. /\ \A i \in 1..Len(Append(q, e)) : i \in 1..Len(q) \/ i = Len(q) + 1
      /\ \A i \in 1..Len(q) : i \in 1..Len(Append(q, e))
  BY Appended
<1>4. Cleared(Append(q, e), drafts)
  BY <1>1, <1>3, Appended DEF Cleared
<1>5. UpTo(Append(q, e), settled, e.round)
  BY <1>1, <1>3, Appended DEF UpTo
<1> QED
  BY <1>2, <1>4, <1>5

LEMMA TidyEnd ==
    ASSUME NEW q \in Seq(Event), NEW e \in Event, e.name \in Ends,
           NEW drafts, NEW settled, Tidy(q, drafts, settled)
    PROVE  Tidy(Append(q, e), drafts, settled)
<1> DEFINE p == Append(q, e)
<1>1. /\ Len(p) = Len(q) + 1 /\ Len(q) \in Nat
      /\ \A i \in 1..Len(q) : p[i] = q[i]
      /\ p[Len(q) + 1] = e
  BY Appended
<1>2. \A i \in 1..Len(p) : i \in 1..Len(q) \/ i = Len(q) + 1
  BY <1>1
<1>3. \A i \in 1..Len(q) : i \in 1..Len(p)
  BY <1>1
<1> HIDE DEF p
<1>4. e.name \notin Rounds \cup {"answer_delta"}
  BY DEF Rounds, Ends
<1> SUFFICES ASSUME NEW j \in 1..Len(q)
             PROVE  /\ q[j].name \in Rounds \cup {"answer_delta"} =>
                         /\ drafts # {} => \E k \in 1..Len(p) : k < j /\ p[k].name = "answer_reset"
                         /\ \A i \in 1..Len(p) : i < j /\ p[i].name = "answer_delta" =>
                              \E k \in 1..Len(p) : i < k /\ k < j /\ p[k].name = "answer_reset"
                    /\ q[j].name = "answer_delta" =>
                         /\ \A r \in settled : r < q[j].round
                         /\ \A i \in 1..Len(p) : i < j /\ p[i].name \in Rounds => p[i].round < q[j].round
  <2>1. Tidy(p, drafts, settled)
    BY <1>1, <1>2, <1>4 DEF Tidy
  <2> QED
    BY <2>1 DEF p
<1>5. \A i \in 1..Len(p) : i < j => i \in 1..Len(q) /\ p[i] = q[i]
  BY <1>1
<1> QED
  BY <1>1, <1>3, <1>5 DEF Tidy

\* What the browser makes of the first event: drafts d become dd and settled
\* rounds s become ss.
Reads(e, d, dd, s, ss) ==
    \/ e.name = "answer_delta" /\ dd = d \cup {e.round} /\ ss = s
    \/ e.name = "answer_reset" /\ dd = {} /\ ss = s
    \/ e.name \in Rounds /\ dd = d /\ ss = s \cup {e.round}

\* What reading one event keeps.
StaysTidy(q, d, s, p, dd, ss) ==
    /\ Open(dd, ss)
    /\ Tidy(p, dd, ss)
    /\ Cleared(q, d) => Cleared(p, dd)
    /\ \A n : UpTo(q, s, n) => UpTo(p, ss, n)

LEMMA TidyTail ==
    ASSUME NEW q \in Seq(Event), q # <<>>, NEW p, p = Tail(q), NEW e, e = Head(q),
           NEW d, NEW dd, NEW s \in SUBSET Round, NEW ss,
           Reads(e, d, dd, s, ss), Open(d, s), Tidy(q, d, s)
    PROVE  StaysTidy(q, d, s, p, dd, ss)
<1>1. /\ e = q[1] /\ e \in Event /\ Len(p) = Len(q) - 1 /\ Len(q) \in Nat \ {0}
      /\ \A i \in 1..Len(p) : p[i] = q[i + 1]
  BY TailAt
<1>2. 1 \in 1..Len(q) /\ \A i \in 1..Len(p) : i + 1 \in 1..Len(q)
  BY <1>1
<1>3. \A k \in 1..Len(q) : 1 < k => k - 1 \in 1..Len(p) /\ p[k - 1] = q[k]
  <2> SUFFICES ASSUME NEW k \in 1..Len(q), 1 < k
               PROVE  k - 1 \in 1..Len(p) /\ p[k - 1] = q[k]
    OBVIOUS
  <2>1. k - 1 \in 1..Len(p) /\ (k - 1) + 1 = k
    BY <1>1
  <2> QED
    BY <1>1, <2>1
\* Where text or news of a round comes first, no text is on the screen.
<1>4. e.name \in Rounds \cup {"answer_delta"} => d = {}
  <2> SUFFICES ASSUME e.name \in Rounds \cup {"answer_delta"}, d # {} PROVE FALSE
    OBVIOUS
  <2>1. \E k \in 1..Len(q) : k < 1
    BY <1>1, <1>2 DEF Tidy
  <2> QED
    BY <1>1, <2>1
<1>5. Open(dd, ss)
  <2>1. CASE e.name = "answer_delta"
    <3>1. d = {} /\ dd = {e.round} /\ ss = s
      BY <1>4, <2>1 DEF Reads, Rounds
    <3>2. e.round \in Nat /\ \A r \in s : r < e.round
      <4>1. e.round \in Nat
        BY <1>1, <2>1 DEF Event, Round
      <4> QED
        BY <1>1, <1>2, <2>1, <4>1 DEF Tidy
    <3> QED
      BY <3>1, <3>2 DEF Open
  <2>2. CASE e.name = "answer_reset"
    BY <2>2 DEF Reads, Rounds, Open
  <2>3. CASE e.name \in Rounds
    BY <1>4, <2>3 DEF Reads, Rounds, Open
  <2> QED
    BY <2>1, <2>2, <2>3 DEF Reads
<1>6. Tidy(p, dd, ss)
  <2> SUFFICES ASSUME NEW j \in 1..Len(p)
               PROVE  /\ p[j].name \in Rounds \cup {"answer_delta"} =>
                           /\ dd # {} => \E k \in 1..Len(p) : k < j /\ p[k].name = "answer_reset"
                           /\ \A i \in 1..Len(p) : i < j /\ p[i].name = "answer_delta" =>
                                \E k \in 1..Len(p) : i < k /\ k < j /\ p[k].name = "answer_reset"
                      /\ p[j].name = "answer_delta" =>
                           /\ \A r \in ss : r < p[j].round
                           /\ \A i \in 1..Len(p) : i < j /\ p[i].name \in Rounds => p[i].round < p[j].round
    BY DEF Tidy
  <2>1. j + 1 \in 1..Len(q) /\ p[j] = q[j + 1] /\ 1 < j + 1 /\ j \in Nat \ {0}
    BY <1>1, <1>2
  \* A reset found in q after its first place is found in p, one place earlier.
  <2>3. ASSUME p[j].name \in Rounds \cup {"answer_delta"}, dd # {}
        PROVE  \E k \in 1..Len(p) : k < j /\ p[k].name = "answer_reset"
    <3>1. e.name = "answer_delta"
      BY <1>4, <2>3 DEF Reads
    <3>2. \E k \in 1..Len(q) : 1 < k /\ k < j + 1 /\ q[k].name = "answer_reset"
      BY <1>1, <1>2, <2>1, <2>3, <3>1 DEF Tidy
    <3>3. PICK k \in 1..Len(q) : 1 < k /\ k < j + 1 /\ q[k].name = "answer_reset"
      BY <3>2
    <3>4. k - 1 \in 1..Len(p) /\ k - 1 < j /\ p[k - 1].name = "answer_reset"
      BY <1>1, <1>3, <2>1, <3>3
    <3> QED
      BY <3>4
  <2>4. ASSUME p[j].name \in Rounds \cup {"answer_delta"},
               NEW i \in 1..Len(p), i < j, p[i].name = "answer_delta"
        PROVE  \E k \in 1..Len(p) : i < k /\ k < j /\ p[k].name = "answer_reset"
    <3>1. i + 1 \in 1..Len(q) /\ q[i + 1] = p[i] /\ i + 1 < j + 1 /\ i + 1 \in Nat /\ i \in Nat
      BY <1>1, <1>2, <2>1, <2>4
    <3>2. \E k \in 1..Len(q) : i + 1 < k /\ k < j + 1 /\ q[k].name = "answer_reset"
      BY <2>1, <2>4, <3>1 DEF Tidy
    <3>3. PICK k \in 1..Len(q) : i + 1 < k /\ k < j + 1 /\ q[k].name = "answer_reset"
      BY <3>2
    <3>4. k - 1 \in 1..Len(p) /\ k - 1 < j /\ p[k - 1].name = "answer_reset" /\ i < k - 1
      BY <1>1, <1>3, <2>1, <3>1, <3>3
    <3> QED
      BY <3>4
  <2>5. ASSUME p[j].name = "answer_delta", NEW r \in ss PROVE r < p[j].round
    <3>1. CASE r \in s
      BY <2>1, <2>5, <3>1 DEF Tidy
    <3>2. CASE r \notin s
      <4>1. e.name \in Rounds /\ r = e.round
        BY <2>5, <3>2 DEF Reads
      <4>2. 1 < j + 1 /\ q[1].name \in Rounds /\ q[j + 1].name = "answer_delta"
        BY <1>1, <2>1, <2>5, <4>1
      <4>3. q[1].round < q[j + 1].round
        BY <1>2, <2>1, <4>2 DEF Tidy
      <4> QED
        BY <1>1, <2>1, <4>1, <4>3
    <3> QED
      BY <3>1, <3>2
  <2>6. ASSUME p[j].name = "answer_delta", NEW i \in 1..Len(p), i < j, p[i].name \in Rounds
        PROVE  p[i].round < p[j].round
    <3>1. i + 1 \in 1..Len(q) /\ q[i + 1] = p[i] /\ i + 1 < j + 1
      BY <1>1, <1>2, <2>1, <2>6
    <3> QED
      BY <2>1, <2>6, <3>1 DEF Tidy
  <2> QED
    BY <2>3, <2>4, <2>5, <2>6
<1>7. ASSUME Cleared(q, d) PROVE Cleared(p, dd)
  <2>1. ASSUME dd # {} PROVE \E k \in 1..Len(p) : p[k].name = "answer_reset"
    <3>1. e.name = "answer_delta"
      BY <1>4, <2>1 DEF Reads
    <3>2. \E k \in 1..Len(q) : 1 < k /\ q[k].name = "answer_reset"
      BY <1>1, <1>2, <1>7, <3>1 DEF Cleared
    <3> QED
      BY <1>3, <3>2
  <2>2. ASSUME NEW i \in 1..Len(p), p[i].name = "answer_delta"
        PROVE  \E k \in 1..Len(p) : i < k /\ p[k].name = "answer_reset"
    <3>1. i + 1 \in 1..Len(q) /\ q[i + 1] = p[i] /\ i \in Nat \ {0}
      BY <1>1, <1>2
    <3>2. PICK k \in 1..Len(q) : i + 1 < k /\ q[k].name = "answer_reset"
      BY <1>7, <2>2, <3>1 DEF Cleared
    <3>3. k - 1 \in 1..Len(p) /\ p[k - 1].name = "answer_reset" /\ i < k - 1
      BY <1>1, <1>3, <3>1, <3>2
    <3> QED
      BY <3>3
  <2> QED
    BY <2>1, <2>2 DEF Cleared
<1>8. ASSUME NEW n, UpTo(q, s, n) PROVE UpTo(p, ss, n)
  <2>1. \A r \in ss : r <= n
    BY <1>1, <1>2, <1>8 DEF Reads, UpTo
  <2>2. \A i \in 1..Len(p) : p[i].name \in Rounds => p[i].round <= n
    BY <1>1, <1>2, <1>8 DEF UpTo
  <2> QED
    BY <2>1, <2>2 DEF UpTo
<1> QED
  BY <1>5, <1>6, <1>7, <1>8 DEF StaysTidy

\* Failing and going on to the next round leave the stream as it is.
LEMMA FailGoesOn ==
    ASSUME NEW r \in RunRecord, NEW reason \in Failure
    PROVE  /\ Fail(r, reason).phase = "closing"
           /\ Fail(r, reason).stream = r.stream
           /\ Fail(r, reason).streamed = r.streamed
BY DEF Fail, Close, RunRecord

LEMMA RoundOverGoesOn ==
    ASSUME NEW r \in RunRecord
    PROVE  /\ RoundOver(r).stream = r.stream
           /\ \/ RoundOver(r).phase = "closing" /\ RoundOver(r).streamed = r.streamed
              \/ /\ RoundOver(r).phase = "asking" /\ RoundOver(r).streamed = FALSE
                 /\ RoundOver(r).round = r.round + 1
BY FailGoesOn DEF RoundOver, RunRecord, Failure

\* Taking back what a round showed before saying that it was none: the queue is
\* clear and nothing about the rounds has changed.
LEMMA ResetClears ==
    ASSUME TypeInv, run.stream, run.phase = "asking",
           InStream(events, client.drafts, client.settled, run)
    PROVE  /\ events \o Reset \in Seq(Event)
           /\ Tidy(events \o Reset, client.drafts, client.settled)
           /\ Cleared(events \o Reset, client.drafts)
           /\ UpTo(events \o Reset, client.settled, run.round - 1)
<1> DEFINE e == InRound("answer_reset")
<1>1. e \in Event /\ e.name = "answer_reset" /\ events \in Seq(Event)
  BY Emissions DEF TypeInv, TypeOK
<1>2. CASE run.streamed
  <2>1. events \o Reset = Append(events, e)
    BY <1>1, <1>2, ConcatOne DEF Reset
  <2> HIDE DEF e
  <2> QED
    BY <1>1, <2>1, TidyReset, Appended DEF InStream
<1>3. CASE ~run.streamed
  <2>1. events \o Reset = events
    BY <1>1, <1>3, ConcatNone DEF Reset
  <2> QED
    BY <1>1, <1>3, <2>1 DEF InStream
<1> QED
  BY <1>2, <1>3

\* The next lower bound suffices for the next higher.
LEMMA UpToNext ==
    ASSUME NEW q \in Seq(Event), NEW s \in SUBSET Round, NEW n \in Nat \ {0},
           UpTo(q, s, n - 1)
    PROVE  UpTo(q, s, n)
<1>1. \A r \in s : r \in Nat
  BY DEF Round
<1>2. \A i \in 1..Len(q) : q[i].name \in Rounds => q[i].round \in Nat
  BY EventRounds
<1> QED
  BY <1>1, <1>2 DEF UpTo

LEMMA WorkingStream ==
    ASSUME TypeInv, run.stream, client.status = "waiting", Working,
           InStream(events, client.drafts, client.settled, run)
    PROVE  run'.stream /\ InStream(events', client.drafts, client.settled, run')
<1>t. /\ run \in RunRecord /\ client \in Client /\ events \in Seq(Event)
      /\ client.settled \in SUBSET Round /\ run.round \in Nat \ {0}
  BY DEF TypeInv, TypeOK, RunRecord, Client, Round
<1>e. \A es : Emit(es) => events' = events \o es
  BY DEF Emit
<1>i. /\ InRound("answer_delta") \in Event /\ InRound("tool") \in Event
      /\ InRound("gate_block") \in Event
      /\ \A name : InRound(name).name = name /\ InRound(name).round = run.round
  BY Emissions
<1>1. CASE Delta
  <2> DEFINE e == InRound("answer_delta")
  <2>1. /\ run.phase = "asking" /\ run'.phase = "asking" /\ run'.streamed /\ run'.stream
        /\ run'.round = run.round /\ ~run.streamed /\ Emit(<<e>>)
    BY <1>1, <1>t DEF Delta, RunRecord
  <2>2. e \in Event /\ e.name = "answer_delta" /\ e.round = run.round
    BY <1>i
  <2> HIDE DEF e
  <2>3. events' = Append(events, e)
    BY <1>e, <1>t, <2>1, <2>2, ConcatOne
  <2>4. Tidy(events', client.drafts, client.settled) /\ UpTo(events', client.settled, e.round - 1)
    BY <1>t, <2>1, <2>2, <2>3, TidyDelta DEF InStream
  <2> QED
    BY <2>1, <2>2, <2>4 DEF InStream
<1>2. ASSUME NEW n \in 1..MaxCalls, CallTools(n)
      PROVE  run'.stream /\ InStream(events', client.drafts, client.settled, run')
  <2>1. /\ run.phase = "asking" /\ run'.phase = "tools" /\ run'.stream
        /\ run'.round = run.round /\ events' = events \o Reset
    BY <1>2, <1>e, <1>t DEF CallTools, RunRecord
  <2>2. /\ events' \in Seq(Event) /\ Tidy(events', client.drafts, client.settled)
        /\ Cleared(events', client.drafts) /\ UpTo(events', client.settled, run.round - 1)
    BY <2>1, ResetClears
  <2>3. UpTo(events', client.settled, run.round)
    BY <1>t, <2>2, UpToNext
  <2> QED
    BY <2>1, <2>2, <2>3 DEF InStream
<1>3. ASSUME NEW o \in Outcome, RunTool(o)
      PROVE  run'.stream /\ InStream(events', client.drafts, client.settled, run')
  <2> DEFINE e == InRound("tool")
  <2>1. run.phase = "tools" /\ Emit(<<e>>)
    BY <1>3 DEF RunTool, ForStream
  <2>2. e \in Event /\ e.name \in Rounds /\ e.round = run.round
    BY <1>i DEF Rounds
  <2> HIDE DEF e
  <2>3. events' = Append(events, e)
    BY <1>e, <1>t, <2>1, <2>2, ConcatOne
  <2>4. /\ Tidy(events', client.drafts, client.settled) /\ Cleared(events', client.drafts)
        /\ UpTo(events', client.settled, run.round)
    <3>1. /\ Tidy(events, client.drafts, client.settled) /\ Cleared(events, client.drafts)
          /\ UpTo(events, client.settled, e.round)
      BY <2>1, <2>2 DEF InStream
    <3> QED
      BY <1>t, <2>2, <2>3, <3>1, TidyRound
  <2>5. /\ Absorb(o) \in RunRecord /\ Absorb(o).phase = "tools"
        /\ Absorb(o).stream = run.stream /\ Absorb(o).round = run.round
    <3>1. Absorb(o) \in RunRecord /\ Absorb(o).phase = "tools"
      BY <1>t, <2>1, AbsorbTyped DEF TypeInv, CallsLeft
    <3> QED
      BY <1>t, <3>1 DEF Absorb, RunRecord
  <2>6. CASE run.todo > 1
    <3>1. run' = Absorb(o)
      BY <1>3, <2>6 DEF RunTool
    <3> QED
      BY <2>4, <2>5, <3>1 DEF InStream
  <2>7. CASE ~(run.todo > 1)
    <3>1. run' = RoundOver(Absorb(o))
      BY <1>3, <2>7 DEF RunTool
    <3>2. /\ run'.stream
          /\ \/ run'.phase = "closing"
             \/ run'.phase = "asking" /\ ~run'.streamed /\ run'.round = run.round + 1
      <4> DEFINE r == Absorb(o)
      <4>1. r \in RunRecord /\ r.stream = run.stream /\ r.round = run.round
        BY <2>5
      <4>2. run' = RoundOver(r)
        BY <3>1
      <4> HIDE DEF r
      <4> QED
        BY <4>1, <4>2, RoundOverGoesOn
    <3>3. (run.round + 1) - 1 = run.round
      BY <1>t
    <3> QED
      BY <2>4, <3>2, <3>3 DEF InStream
  <2> QED
    BY <2>6, <2>7
<1>4. ASSUME NEW named \in Listings, Block(named)
      PROVE  run'.stream /\ InStream(events', client.drafts, client.settled, run')
  <2> DEFINE e == InRound("gate_block")
             q == events \o Reset
  <2>1. run.phase = "asking" /\ events' = events \o (Reset \o <<e>>)
    BY <1>4, <1>e DEF Block, Refusal, ForStream
  <2>2. e \in Event /\ e.name \in Rounds /\ e.round = run.round
    BY <1>i DEF Rounds
  <2>3. /\ q \in Seq(Event) /\ Tidy(q, client.drafts, client.settled)
        /\ Cleared(q, client.drafts) /\ UpTo(q, client.settled, run.round - 1)
    BY <2>1, ResetClears
  <2>4. events' = Append(q, e)
    <3>1. CASE run.streamed
      <4>1. InRound("answer_reset") \in Event
        BY Emissions
      <4>2. Reset = <<InRound("answer_reset")>>
        BY <3>1 DEF Reset
      <4> QED
        BY <1>t, <2>1, <2>2, <4>1, <4>2, ConcatOne, ConcatTwo
    <3>2. CASE ~run.streamed
      <4>1. Reset = <<>>
        BY <3>2 DEF Reset
      <4>2. Reset \o <<e>> = <<e>>
        BY <2>2, <4>1
      <4> QED
        BY <1>t, <2>1, <2>2, <4>1, <4>2, ConcatOne, ConcatNone
    <3> QED
      BY <3>1, <3>2
  <2> HIDE DEF e, q
  <2>5. UpTo(q, client.settled, e.round)
    BY <1>t, <2>2, <2>3, UpToNext
  <2>6. /\ Tidy(events', client.drafts, client.settled)
        /\ UpTo(events', client.settled, run.round) /\ Cleared(events', client.drafts)
    BY <2>2, <2>3, <2>4, <2>5, TidyRound
  <2>7. /\ run'.stream
        /\ \/ run'.phase = "closing"
           \/ run'.phase = "asking" /\ ~run'.streamed /\ run'.round = run.round + 1
    <3> DEFINE r == [run EXCEPT !.blocks = @ + 1, !.warnings = @ \cup Gate(named)]
    <3>1. run.blocks + 1 \in Nat /\ run.warnings \cup Gate(named) \in SUBSET Warning
      BY <1>t DEF RunRecord, Gate, Warning, GateBlock
    <3>2. r \in RunRecord /\ r.stream = run.stream /\ r.round = run.round
      BY <1>t, <3>1 DEF RunRecord
    <3>3. run' \in {Fail(r, "no_evidence_after_gate"), RoundOver(r)}
      BY <1>4 DEF Block
    <3> HIDE DEF r
    <3>4. CASE run' = Fail(r, "no_evidence_after_gate")
      BY <3>2, <3>4, FailGoesOn DEF Failure
    <3>5. CASE run' = RoundOver(r)
      BY <3>2, <3>5, RoundOverGoesOn
    <3> QED
      BY <3>3, <3>4, <3>5
  <2>8. (run.round + 1) - 1 = run.round
    BY <1>t
  <2> QED
    BY <2>6, <2>7, <2>8 DEF InStream
<1>5. ASSUME NEW reply \in Reply, NEW named \in Listings, Accept(reply, named)
      PROVE  run'.stream /\ InStream(events', client.drafts, client.settled, run')
  <2>1. run'.stream /\ run'.phase = "closing" /\ events' = events
    BY <1>5, <1>t DEF Accept, Close, RunRecord
  <2> QED
    BY <2>1 DEF InStream
<1> QED
  BY <1>1, <1>2, <1>3, <1>4, <1>5 DEF Working

\* Without a stream nothing is emitted before the end.
LEMMA WorkingSilent ==
    ASSUME TypeInv, ~run.stream, ~run.streamed, Working
    PROVE  ~run'.stream /\ ~run'.streamed /\ events' = events
<1>t. run \in RunRecord /\ events \in Seq(Event)
  BY DEF TypeInv, TypeOK
<1>1. Emit(<<>>) => events' = events
  BY <1>t, ConcatNone DEF Emit
<1>2. Reset = <<>> /\ \A es : ForStream(es) = <<>>
  BY DEF Reset, ForStream
<1>3. ~Delta
  BY DEF Delta
<1>4. ASSUME NEW n \in 1..MaxCalls, CallTools(n)
      PROVE  ~run'.stream /\ ~run'.streamed /\ events' = events
  BY <1>1, <1>2, <1>4, <1>t DEF CallTools, RunRecord
<1>5. ASSUME NEW o \in Outcome, RunTool(o)
      PROVE  ~run'.stream /\ ~run'.streamed /\ events' = events
  <2>1. Absorb(o) \in RunRecord
    BY <1>5, <1>t, AbsorbTyped DEF RunTool, TypeInv, CallsLeft
  <2>2. Absorb(o).stream = run.stream /\ Absorb(o).streamed = run.streamed
    BY <1>t DEF Absorb, RunRecord
  <2>3. run' \in {Absorb(o), RoundOver(Absorb(o))} /\ events' = events
    BY <1>1, <1>2, <1>5 DEF RunTool
  <2> QED
    BY <2>1, <2>2, <2>3, RoundOverGoesOn
<1>6. ASSUME NEW named \in Listings, Block(named)
      PROVE  ~run'.stream /\ ~run'.streamed /\ events' = events
  <2> DEFINE r == [run EXCEPT !.blocks = @ + 1, !.warnings = @ \cup Gate(named)]
  <2>1. run.blocks + 1 \in Nat /\ run.warnings \cup Gate(named) \in SUBSET Warning
    BY <1>t DEF RunRecord, Gate, Warning, GateBlock
  <2>2. r \in RunRecord /\ r.stream = run.stream /\ r.streamed = run.streamed
    BY <1>t, <2>1 DEF RunRecord
  <2>3. run' \in {Fail(r, "no_evidence_after_gate"), RoundOver(r)}
    BY <1>6 DEF Block
  <2>4. Refusal = <<>>
    BY <1>2 DEF Refusal
  <2>5. events' = events
    BY <1>1, <1>6, <2>4 DEF Block
  <2> HIDE DEF r
  <2>6. CASE run' = Fail(r, "no_evidence_after_gate")
    BY <2>2, <2>5, <2>6, FailGoesOn DEF Failure
  <2>7. CASE run' = RoundOver(r)
    BY <2>2, <2>5, <2>7, RoundOverGoesOn
  <2> QED
    BY <2>3, <2>6, <2>7
<1>7. ASSUME NEW reply \in Reply, NEW named \in Listings, Accept(reply, named)
      PROVE  ~run'.stream /\ ~run'.streamed /\ events' = events
  BY <1>7, <1>t DEF Accept, Close, RunRecord
<1> QED
  BY <1>3, <1>4, <1>5, <1>6, <1>7 DEF Working

\* The worker's own steps neither start a turn anew nor change its route.
LEMMA WorkingGoesOn ==
    ASSUME TypeInv, Working
    PROVE  run'.phase # "accepted" /\ run'.stream = run.stream
<1>t. run \in RunRecord
  BY DEF TypeInv, TypeOK
<1>1. CASE Delta
  BY <1>1, <1>t DEF Delta, RunRecord
<1>2. ASSUME NEW n \in 1..MaxCalls, CallTools(n)
      PROVE  run'.phase # "accepted" /\ run'.stream = run.stream
  BY <1>2, <1>t DEF CallTools, RunRecord
<1>3. ASSUME NEW o \in Outcome, RunTool(o)
      PROVE  run'.phase # "accepted" /\ run'.stream = run.stream
  <2> DEFINE r == Absorb(o)
  <2>1. r \in RunRecord /\ r.phase = "tools"
    BY <1>3, <1>t, AbsorbTyped DEF RunTool, TypeInv, CallsLeft
  <2>2. r.stream = run.stream
    BY <1>t DEF Absorb, RunRecord
  <2>3. run' \in {r, RoundOver(r)}
    BY <1>3 DEF RunTool
  <2> HIDE DEF r
  <2>4. CASE run' = r
    BY <2>1, <2>2, <2>4
  <2>5. CASE run' = RoundOver(r)
    BY <2>1, <2>2, <2>5, RoundOverGoesOn
  <2> QED
    BY <2>3, <2>4, <2>5
<1>4. ASSUME NEW named \in Listings, Block(named)
      PROVE  run'.phase # "accepted" /\ run'.stream = run.stream
  <2> DEFINE r == [run EXCEPT !.blocks = @ + 1, !.warnings = @ \cup Gate(named)]
  <2>1. run.blocks + 1 \in Nat /\ run.warnings \cup Gate(named) \in SUBSET Warning
    BY <1>t DEF RunRecord, Gate, Warning, GateBlock
  <2>2. r \in RunRecord /\ r.stream = run.stream
    BY <1>t, <2>1 DEF RunRecord
  <2>3. run' \in {Fail(r, "no_evidence_after_gate"), RoundOver(r)}
    BY <1>4 DEF Block
  <2> HIDE DEF r
  <2>4. CASE run' = Fail(r, "no_evidence_after_gate")
    BY <2>2, <2>4, FailGoesOn DEF Failure
  <2>5. CASE run' = RoundOver(r)
    BY <2>2, <2>5, RoundOverGoesOn
  <2> QED
    BY <2>3, <2>4, <2>5
<1>5. ASSUME NEW reply \in Reply, NEW named \in Listings, Accept(reply, named)
      PROVE  run'.phase # "accepted" /\ run'.stream = run.stream
  BY <1>5, <1>t DEF Accept, Close, RunRecord
<1> QED
  BY <1>1, <1>2, <1>3, <1>4, <1>5 DEF Working

LEMMA DraftStep == TypeInv /\ QueueInv /\ DraftInv /\ [Next]_vars => DraftInv'
<1> SUFFICES ASSUME TypeInv, QueueInv, DraftInv, [Next]_vars PROVE DraftInv'
  OBVIOUS
<1>t. /\ run \in RunRecord /\ client \in Client /\ events \in Seq(Event)
      /\ client.settled \in SUBSET Round
      /\ run.phase = "closing" => run.row \in AnswerRow
  BY DEF TypeInv, TypeOK, Client, ClosingHasRow
<1>d. /\ Open(client.drafts, client.settled)
      /\ run.phase = "accepted" \/ ~run.stream => ~run.streamed
      /\ client.status = "waiting" =>
           /\ ~run.stream => \A i \in 1..Len(events) : events[i].name \in Ends
           /\ run.stream => InStream(events, client.drafts, client.settled, run)
  BY DEF DraftInv
<1>1. CASE Start
  <2>1. /\ run.phase = "accepted" /\ run'.phase = "asking" /\ run'.stream = run.stream
        /\ run'.streamed = run.streamed /\ run'.round = run.round /\ UNCHANGED <<events, client>>
    BY <1>1, <1>t DEF Start, RunRecord
  <2> QED
    BY <1>d, <2>1 DEF DraftInv, InStream
<1>2. CASE Working
  <2>1. client' = client /\ run.phase \in {"asking", "tools"}
    BY <1>2, WorkingEmits
  <2>2. run'.phase # "accepted"
    BY <1>2, WorkingGoesOn
  <2>3. CASE run.stream
    <3>1. run'.stream = TRUE
      BY <1>2, <1>t, <2>3, WorkingGoesOn DEF RunRecord
    <3>2. client.status = "waiting" =>
            InStream(events', client.drafts, client.settled, run')
      BY <1>2, <1>d, <2>3, WorkingStream
    <3> QED
      BY <1>d, <2>1, <2>2, <3>1, <3>2 DEF DraftInv, InStream
  <2>4. CASE ~run.stream
    <3>1. ~run'.stream /\ ~run'.streamed /\ events' = events
      BY <1>2, <1>d, <2>4, WorkingSilent
    <3> QED
      BY <1>d, <2>1, <2>4, <3>1 DEF DraftInv
  <2> QED
    BY <2>3, <2>4
<1>3. ASSUME NEW e \in Event, e.name \in Ends, Emit(<<e>>), run'.phase = "ended",
             run'.stream = run.stream, ~run'.streamed, client' = client,
             run.phase # "ended"
      PROVE  DraftInv'
  <2>1. CASE client.status = "waiting"
    <3>1. events' = Append(events, e)
      BY <1>3, <1>t, <2>1, ConcatOne DEF Emit
    <3>2. run.stream => Tidy(events', client.drafts, client.settled)
      BY <1>3, <1>d, <1>t, <2>1, <3>1, TidyEnd DEF InStream
    <3>3. ~run.stream => \A i \in 1..Len(events') : events'[i].name \in Ends
      <4>1. \A i \in 1..Len(events') : i \in 1..Len(events) \/ i = Len(events) + 1
        BY <1>3, <1>t, <3>1, Appended
      <4> QED
        BY <1>3, <1>d, <1>t, <2>1, <3>1, <4>1, Appended
    <3> QED
      BY <1>3, <1>d, <3>2, <3>3 DEF DraftInv, InStream
  <2>2. CASE client.status # "waiting"
    BY <1>3, <1>d, <2>2 DEF DraftInv
  <2> QED
    BY <2>1, <2>2
<1>4. CASE Store
  <2> DEFINE e == [name |-> "turn_end", row |-> run.row]
  <2>1. e \in Event /\ Emit(<<e>>) /\ e.name \in Ends
    BY <1>4, <1>t DEF Store, Event, Ends
  <2> HIDE DEF e
  <2>2. /\ run'.phase = "ended" /\ run'.stream = run.stream /\ ~run'.streamed
        /\ client' = client /\ run.phase # "ended"
    BY <1>4, <1>t, OverTyped DEF Store
  <2> QED
    BY <1>3, <2>1, <2>2
<1>5. CASE Raise
  <2> DEFINE e == [name |-> "error"]
  <2>1. e \in Event /\ Emit(<<e>>) /\ e.name \in Ends
    BY <1>5 DEF Raise, ErrorReport, Event, Ends
  <2> HIDE DEF e
  <2>2. /\ run'.phase = "ended" /\ run'.stream = run.stream /\ ~run'.streamed
        /\ client' = client /\ run.phase # "ended"
    BY <1>5, <1>t, OverTyped DEF Raise, MayRaise
  <2> QED
    BY <1>3, <2>1, <2>2
<1>6. CASE Receive
  <2> DEFINE e == Head(events)
  <2>1. /\ client.status = "waiting" /\ client' = Applied(e) /\ events' = Tail(events)
        /\ run' = run /\ events # <<>>
    BY <1>6 DEF Receive
  <2>2. e \in Event /\ e = events[1] /\ 1 \in 1..Len(events)
    BY <1>t, <2>1, TailAt
  <2>3. CASE e.name \in Ends
    <3>1. /\ client'.status # "waiting" /\ client'.settled = client.settled
          /\ client'.drafts \subseteq client.drafts
      BY <1>t, <2>1, <2>3 DEF Applied, Client, Ends
    <3> QED
      BY <1>d, <2>1, <3>1 DEF DraftInv, Open
  <2>4. CASE e.name \notin Ends
    <3>1. run.stream /\ InStream(events, client.drafts, client.settled, run)
      BY <1>d, <2>1, <2>2, <2>4
    <3>2. /\ client'.status = "waiting"
          /\ Reads(e, client.drafts, client'.drafts, client.settled, client'.settled)
      <4>1. e.name \in {"answer_delta", "answer_reset", "tool", "gate_block"}
        BY <2>2, <2>4 DEF Event, Ends
      <4> HIDE DEF e
      <4>2. client'.status = "waiting"
        BY <1>t, <2>1, <4>1 DEF Applied, Client
      <4>3. CASE e.name = "answer_delta"
        BY <1>t, <2>1, <4>3 DEF Applied, Client, Reads
      <4>4. CASE e.name = "answer_reset"
        BY <1>t, <2>1, <4>4 DEF Applied, Client, Reads
      <4>5. CASE e.name \in {"tool", "gate_block"}
        BY <1>t, <2>1, <4>5 DEF Applied, Client, Reads, Rounds
      <4> QED
        BY <4>1, <4>2, <4>3, <4>4, <4>5
    <3>3. Open(client.drafts, client.settled) /\ Tidy(events, client.drafts, client.settled)
      BY <1>d, <3>1 DEF InStream
    <3> HIDE DEF e
    <3>4. e = Head(events)
      BY DEF e
    <3>5. /\ Open(client'.drafts, client'.settled)
          /\ Tidy(events', client'.drafts, client'.settled)
          /\ Cleared(events, client.drafts) => Cleared(events', client'.drafts)
          /\ \A n : UpTo(events, client.settled, n) => UpTo(events', client'.settled, n)
      <4>1. StaysTidy(events, client.drafts, client.settled, events', client'.drafts, client'.settled)
        BY <1>t, <2>1, <3>2, <3>3, <3>4, TidyTail
      <4> QED
        BY <4>1 DEF StaysTidy
    <3>6. InStream(events', client'.drafts, client'.settled, run)
      BY <3>1, <3>5 DEF InStream
    <3> QED
      BY <1>d, <2>1, <3>1, <3>5, <3>6 DEF DraftInv, InStream, Open
  <2> QED
    BY <2>3, <2>4
<1>7. CASE Degrade
  <2>1. events = <<>> /\ events' = <<>>
    BY <1>7 DEF Degrade, Degrades, QueueInv
  <2>2. /\ run'.stream = FALSE /\ run'.streamed = FALSE
        /\ client'.drafts = client.drafts /\ client'.settled = client.settled
    BY <1>7, <1>t DEF Degrade, Fresh, Client
  <2>3. Len(events') = 0 /\ \A i \in 1..0 : FALSE
    BY <2>1
  <2> QED
    BY <1>d, <2>2, <2>3 DEF DraftInv
<1>8. CASE Abort
  <2>1. /\ client'.status = "gone" /\ client'.drafts = client.drafts
        /\ client'.settled = client.settled /\ run' = run
    BY <1>8, <1>t DEF Abort, Client
  <2> QED
    BY <1>d, <2>1 DEF DraftInv
<1>9. CASE UNCHANGED vars
  BY <1>9 DEF vars, DraftInv
<1> QED
  BY <1>1, <1>2, <1>4, <1>5, <1>6, <1>7, <1>8, <1>9, NextSteps

LEMMA DraftInit == Init => DraftInv
<1> SUFFICES ASSUME Init PROVE DraftInv
  OBVIOUS
<1>1. /\ events = <<>> /\ client.drafts = {} /\ client.settled = {}
      /\ run.round = 1 /\ run.streamed = FALSE /\ run.phase = "accepted"
  BY DEF Init, Fresh
<1>2. Len(events) = 0 /\ \A i \in 1..0 : FALSE
  BY <1>1
<1> QED
  BY <1>1, <1>2 DEF DraftInv, InStream, Open, Tidy, Cleared, UpTo

\* The browser never shows text of two rounds as one answer, nor text of a round
\* it knows to have been a tool round or refused by the gate, for any number of
\* rounds, calls and blocks, and however late it reads its events.
THEOREM DraftIsOpenAlways == Spec => []DraftIsOpen
<1>1. Init => DraftInv
  BY DraftInit
<1>2. TypeInv /\ QueueInv /\ DraftInv /\ [Next]_vars => DraftInv'
  BY DraftStep
<1>3. DraftInv => DraftIsOpen
  <2> SUFFICES ASSUME DraftInv PROVE DraftIsOpen
    OBVIOUS
  <2>1. Cardinality(client.drafts) <= 1
    BY OnlyOne DEF DraftInv, Open
  <2> QED
    BY <2>1 DEF DraftInv, DraftIsOpen, Open
<1> QED
  BY <1>1, <1>2, <1>3, QueueAlways, PTL DEF Spec

=============================================================================
