------------------------------- MODULE TurnLoop -------------------------------
(***************************************************************************)
(* Orchestrator.Turn: one chat turn after another on one session.  A turn  *)
(* stores the user message, then repeats: send the conversation to the     *)
(* model, read its reply from a stream, store it, run the tool calls it    *)
(* asks for and store their results, until the model stops for another     *)
(* reason or the round cap is reached.                                     *)
(*                                                                         *)
(* Source: open-bbcd/internal/chat/orchestrator.go, subagent.go            *)
(* (runAgentCalls) and the event order of internal/transport.  Turns of a  *)
(* session follow each other here, the use NextSeq's comment assumes; what *)
(* overlapping turns do to the rows is TurnStore's subject.                *)
(*                                                                         *)
(* A message is abstracted to its role, whether it has text, and the tool  *)
(* calls it makes or answers.  The model is the environment: it may stream *)
(* any reply, cut it anywhere, stop for any reason, or fail.               *)
(***************************************************************************)
EXTENDS Integers, Sequences, FiniteSets

CONSTANTS
    Calls,        \* tool_use ids a reply may use
    MaxTurns,     \* bound: turns on the session
    MaxToolRounds,\* Orchestrator.MaxToolRounds
    MaxParallel   \* Orchestrator.MaxParallel

ASSUME LoopAssumption ==
    /\ IsFiniteSet(Calls)
    /\ MaxTurns \in Nat /\ MaxToolRounds \in Nat /\ MaxParallel \in Nat

VARIABLES
    history,   \* messages stored for the session
    turn,      \* turns started
    pc,        \* where the turn is
    cancelled, \* its context is done (client gone, shutdown)
    request,   \* req.Messages
    reply,     \* what this round streamed
    stop,      \* the stop reason the round reported, "" before or without one
    rounds,    \* toolRounds
    slot,      \* result slot of each call of the round
    executed,  \* how often the tool or child turn of each call ran
    wire       \* events sent to the client since the round began

vars == <<history, turn, pc, cancelled, request, reply, stop, rounds, slot, executed, wire>>

Phases == {"idle", "load", "user", "stream", "persist", "tools", "agents", "record", "finish"}
StopReasons == {"", "tool_use", "end_turn", "max_tokens", "max_tool_rounds"}

UserMessage == [role |-> "user", text |-> TRUE, calls |-> <<>>]
Assistant(text, calls) == [role |-> "assistant", text |-> text, calls |-> calls]
ToolMessage(calls) == [role |-> "tool", text |-> FALSE, calls |-> calls]

(* assistantBlocks, pendingToolUses and invalidInput: the calls in stream  *)
(* order, whether the last one is still open, those whose input is not a   *)
(* JSON object, those that name the agent tool (the version has bindings). *)
EmptyReply == [text |-> FALSE, calls |-> <<>>, open |-> FALSE, invalid |-> {}, agents |-> {}]
CallsOf(r) == {r.calls[i] : i \in DOMAIN r.calls}
Pending(r) == IF r.open THEN SubSeq(r.calls, 1, Len(r.calls) - 1) ELSE r.calls

Roles == {"user", "assistant", "tool"}
SlotStates == {"none", "queued", "running", "ok", "error"}
Event(name, c) == <<name, c>>
Send(name) == wire' = Append(wire, Event(name, "turn"))
SendFor(name, c) == wire' = Append(wire, Event(name, c))

TypeOK ==
    /\ \A i \in DOMAIN history : /\ history[i].role \in Roles
                                 /\ CallsOf(history[i]) \subseteq Calls
    /\ turn \in 0 .. MaxTurns
    /\ pc \in Phases
    /\ cancelled \in BOOLEAN
    /\ \A i \in DOMAIN request : request[i].role \in Roles
    /\ CallsOf(reply) \subseteq Calls /\ reply.invalid \subseteq CallsOf(reply)
    /\ stop \in StopReasons
    /\ rounds \in 0 .. MaxToolRounds
    /\ slot \in [Calls -> SlotStates]
    /\ executed \in [Calls -> Nat]

Init ==
    /\ history = <<>>
    /\ turn = 0
    /\ pc = "idle"
    /\ cancelled = FALSE
    /\ request = <<>>
    /\ reply = EmptyReply
    /\ stop = ""
    /\ rounds = 0
    /\ slot = [c \in Calls |-> "none"]
    /\ executed = [c \in Calls |-> 0]
    /\ wire = <<>>

-----------------------------------------------------------------------------
(* What the provider accepts: every tool call answered by the message that *)
(* follows it, and no empty assistant message.                             *)
Answered(h, i) ==
    h[i].role = "assistant" /\ h[i].calls # <<>> =>
        /\ i < Len(h)
        /\ h[i + 1].role = "tool"
        /\ CallsOf(h[i]) \subseteq CallsOf(h[i + 1])
NonEmpty(m) == m.role = "assistant" => m.text \/ m.calls # <<>>

Replayable(h) == \A i \in DOMAIN h : Answered(h, i) /\ NonEmpty(h[i])

-----------------------------------------------------------------------------
(* A new round declares its buffers anew.                                  *)
ForgetRound ==
    /\ reply' = EmptyReply
    /\ stop' = ""
    /\ slot' = [c \in Calls |-> "none"]
    /\ executed' = [c \in Calls |-> 0]

(* The turn's variables, gone when its handler returns.                    *)
ForgetTurn ==
    /\ pc' = "idle"
    /\ cancelled' = FALSE
    /\ request' = <<>>
    /\ rounds' = 0
    /\ ForgetRound

StartTurn ==
    /\ pc = "idle"
    /\ turn < MaxTurns
    /\ turn' = turn + 1
    /\ pc' = "load"
    /\ wire' = <<>>
    /\ UNCHANGED <<history, cancelled, request, reply, stop, rounds, slot, executed>>

(* failTurn: RUN_ERROR, and the handler returns.                           *)
FallsThrough == pc' = "finish" /\ UNCHANGED <<cancelled, request, rounds, reply, stop, slot, executed>>   \* mutant
AfterFailure == ForgetTurn

FailTurn ==
    /\ Send("RUN_ERROR")
    /\ AfterFailure
    /\ UNCHANGED <<history, turn>>

(* A round that did not stop for tool_use drops the calls whose input is   *)
(* not an object; the others stay.                                         *)
Kept(r) == IF stop # "tool_use" THEN SelectSeq(r.calls, LAMBDA c : c \notin r.invalid)
                                ELSE r.calls

NothingLeft == stop # "tool_use" /\ reply.invalid # {} /\ ~reply.text /\ Kept(reply) = <<>>

(* Anything that uses the context or the database can fail; once the       *)
(* context is done it always does.                                         *)
StepFails ==
    /\ \/ pc \in {"load", "user", "stream", "record"}
       \/ pc = "persist" /\ ~NothingLeft
    /\ FailTurn

LoadHistory ==
    /\ pc = "load"
    /\ ~cancelled
    /\ request' = history
    /\ pc' = "user"
    /\ UNCHANGED <<history, turn, cancelled, reply, stop, rounds, slot, executed, wire>>

(* AppendUserTurn, then RUN_STARTED.                                       *)
StoreUser ==
    /\ pc = "user"
    /\ ~cancelled
    /\ history' = Append(history, UserMessage)
    /\ request' = Append(request, UserMessage)
    /\ Send("RUN_STARTED")
    /\ pc' = "stream"
    /\ ForgetRound
    /\ UNCHANGED <<turn, cancelled, rounds>>

-----------------------------------------------------------------------------
(* The model's reply, block by block.  A request the provider rejects      *)
(* yields an error and nothing else; one whose context is done may still   *)
(* deliver what was buffered.                                              *)
Streaming == pc = "stream" /\ stop = "" /\ Replayable(request)

StreamText ==
    /\ Streaming
    /\ ~reply.open /\ ~reply.text
    /\ reply' = [reply EXCEPT !.text = TRUE]
    /\ UNCHANGED <<history, turn, pc, cancelled, request, stop, rounds, slot, executed, wire>>

StreamCallStart(c, isAgent) ==
    /\ Streaming
    /\ ~reply.open /\ c \notin CallsOf(reply)
    /\ reply' = [reply EXCEPT !.calls = Append(@, c), !.open = TRUE,
                              !.agents = IF isAgent THEN @ \cup {c} ELSE @]
    /\ SendFor("CALL_START", c)
    /\ UNCHANGED <<history, turn, pc, cancelled, request, stop, rounds, slot, executed>>

(* The input is complete: a JSON object, or anything else, stored as {}.   *)
StreamCallEnd(valid) ==
    /\ Streaming
    /\ reply.open
    /\ LET c == reply.calls[Len(reply.calls)] IN
        /\ reply' = [reply EXCEPT !.open = FALSE,
                                  !.invalid = IF valid THEN @ ELSE @ \cup {c}]
        /\ SendFor("CALL_END", c)
    /\ UNCHANGED <<history, turn, pc, cancelled, request, stop, rounds, slot, executed>>

(* message_delta: the provider says tool_use only of complete calls.       *)
StreamStop(reason) ==
    /\ Streaming
    /\ ~reply.open
    /\ reason = "tool_use" => reply.calls # <<>>
    /\ stop' = reason
    /\ UNCHANGED <<history, turn, pc, cancelled, request, reply, rounds, slot, executed, wire>>

(* The stream ends, after its stop event or, cut short, without one.       *)
StreamEnd ==
    /\ pc = "stream"
    /\ Replayable(request)
    /\ pc' = "persist"
    /\ UNCHANGED <<history, turn, cancelled, request, reply, stop, rounds, slot, executed, wire>>

-----------------------------------------------------------------------------
DropRound ==
    /\ pc = "persist"
    /\ NothingLeft
    /\ pc' = "finish"
    /\ UNCHANGED <<history, turn, cancelled, request, reply, stop, rounds, slot, executed, wire>>

CapReached == rounds >= MaxToolRounds

(* AppendMessages, then the exit conditions.                               *)
StoreReply ==
    /\ pc = "persist"
    /\ ~NothingLeft
    /\ ~cancelled
    /\ history' = Append(history, Assistant(reply.text, Kept(reply)))
    /\ \/ /\ stop # "tool_use"
          /\ pc' = "finish"
          /\ UNCHANGED stop
       \/ /\ stop = "tool_use" /\ CapReached
          /\ pc' = "finish"
          /\ stop' = "max_tool_rounds"
       \/ /\ stop = "tool_use" /\ ~CapReached
          /\ pc' = "tools"
          /\ UNCHANGED stop
    /\ UNCHANGED <<turn, cancelled, request, reply, rounds, slot, executed, wire>>

-----------------------------------------------------------------------------
(* Dispatch: in tool_use order, invalid calls answered at once, the others *)
(* run one after the other, agent calls put aside.                         *)
NextCall == CHOOSE i \in DOMAIN Pending(reply) :
                /\ slot[Pending(reply)[i]] = "none"
                /\ \A j \in 1 .. i - 1 : slot[Pending(reply)[j]] # "none"
Undispatched == \E i \in DOMAIN Pending(reply) : slot[Pending(reply)[i]] = "none"

Answer(c, outcome) ==
    /\ slot' = [slot EXCEPT ![c] = outcome]
    /\ SendFor("CALL_RESULT", c)

RunsAnyInput(c) == TRUE   \* mutant: a call without a usable input runs as well
Runs(c) == c \notin reply.invalid

Dispatch ==
    /\ pc = "tools"
    /\ Undispatched
    /\ LET c == Pending(reply)[NextCall] IN
        \/ /\ ~Runs(c)
           /\ Answer(c, "error")
           /\ UNCHANGED executed
        \/ /\ Runs(c) /\ c \in reply.agents
           /\ slot' = [slot EXCEPT ![c] = "queued"]
           /\ UNCHANGED <<executed, wire>>
        \/ /\ Runs(c) /\ c \notin reply.agents
           /\ \E outcome \in {"ok", "error"} : Answer(c, outcome)
           /\ executed' = [executed EXCEPT ![c] = @ + 1]
    /\ UNCHANGED <<history, turn, pc, cancelled, request, reply, stop, rounds>>

ToAgents ==
    /\ pc = "tools"
    /\ ~Undispatched
    /\ pc' = "agents"
    /\ UNCHANGED <<history, turn, cancelled, request, reply, stop, rounds, slot, executed, wire>>

(* runAgentCalls: one goroutine per agent call, MaxParallel of them past   *)
(* the semaphore.  A waiting one gives up when the context is done; one    *)
(* past it always comes back, with a result or an error (panics included). *)
Width == IF MaxParallel < 1 THEN 1 ELSE MaxParallel
NeverReleased == {c \in reply.agents : slot[c] \in {"running", "ok"}}   \* mutant
Running == {c \in reply.agents : slot[c] = "running"}

AgentStart(c) ==
    /\ pc = "agents"
    /\ slot[c] = "queued"
    /\ Cardinality(Running) < Width
    /\ slot' = [slot EXCEPT ![c] = "running"]
    /\ executed' = [executed EXCEPT ![c] = @ + 1]
    /\ UNCHANGED <<history, turn, pc, cancelled, request, reply, stop, rounds, wire>>

AgentDone(c) ==
    /\ pc = "agents"
    /\ \/ slot[c] = "running" /\ \E outcome \in {"ok", "error"} : Answer(c, outcome)
       \/ slot[c] = "queued" /\ cancelled /\ Answer(c, "error")
    /\ UNCHANGED <<history, turn, pc, cancelled, request, reply, stop, rounds, executed>>

(* wg.Wait: every slot is filled.                                          *)
LeavesEarly == TRUE   \* mutant: the step does not wait for its goroutines
AllAnswered == \A c \in Calls : slot[c] \notin {"queued", "running"}

AgentsDone ==
    /\ pc = "agents"
    /\ AllAnswered
    /\ pc' = "record"
    /\ UNCHANGED <<history, turn, cancelled, request, reply, stop, rounds, slot, executed, wire>>

(* AppendToolMessage: the result slots, in tool_use order, each with the id *)
(* of the call it answers; one never filled has none.  Then the next round. *)
NoCall == ""
Results == [i \in DOMAIN Pending(reply) |->
              IF slot[Pending(reply)[i]] \in {"ok", "error"} THEN Pending(reply)[i] ELSE NoCall]

ResultsOnly == request \o <<ToolMessage(Results)>>   \* mutant: the reply is left out
Extended == request \o <<Assistant(reply.text, Kept(reply)), ToolMessage(Results)>>

StoreResults ==
    /\ pc = "record"
    /\ ~cancelled
    /\ history' = Append(history, ToolMessage(Results))
    /\ request' = Extended
    /\ rounds' = rounds + 1
    /\ wire' = <<>>
    /\ pc' = "stream"
    /\ ForgetRound
    /\ UNCHANGED <<turn, cancelled>>

FinishTurn ==
    /\ pc = "finish"
    /\ Send("RUN_FINISHED")
    /\ ForgetTurn
    /\ UNCHANGED <<history, turn>>

-----------------------------------------------------------------------------
(* The client goes away or the server shuts down.                          *)
Cancel ==
    /\ pc # "idle"
    /\ ~cancelled
    /\ cancelled' = TRUE
    /\ UNCHANGED <<history, turn, pc, request, reply, stop, rounds, slot, executed, wire>>

(* The process dies: only the stored messages are left.                    *)
Crash ==
    /\ pc # "idle"
    /\ ForgetTurn
    /\ wire' = <<>>
    /\ UNCHANGED <<history, turn>>

TurnStep ==
    \/ StepFails \/ LoadHistory \/ StoreUser
    \/ StreamText \/ (\E c \in Calls, isAgent \in BOOLEAN : StreamCallStart(c, isAgent))
    \/ (\E valid \in BOOLEAN : StreamCallEnd(valid))
    \/ (\E reason \in {"tool_use", "end_turn", "max_tokens"} : StreamStop(reason))
    \/ StreamEnd \/ DropRound \/ StoreReply
    \/ Dispatch \/ ToAgents \/ (\E c \in Calls : AgentStart(c) \/ AgentDone(c))
    \/ AgentsDone \/ StoreResults \/ FinishTurn

Next == StartTurn \/ TurnStep \/ Cancel \/ Crash

Spec == Init /\ [][Next]_vars

(* A running turn takes its next step: the model's stream and the tools    *)
(* have timeouts, and the loop itself never waits for anything else.       *)
FairSpec == Spec /\ WF_vars(TurnStep)

-----------------------------------------------------------------------------
(* Properties.                                                             *)

(* While a round streams, the conversation sent to the model is exactly    *)
(* what is stored: nothing the model saw is lost, nothing was invented,    *)
(* although request and rows are extended by different code.               *)
RequestIsHistory == pc = "stream" => request = history

(* A tool message always follows the reply whose calls it answers, answers *)
(* every one of them, once, in tool_use order, whatever order the agent    *)
(* goroutines finished in and whatever was cancelled.                      *)
ResultsAnswerCalls ==
    \A i \in DOMAIN history : history[i].role = "tool" =>
        /\ i > 1 /\ history[i - 1].role = "assistant"
        /\ history[i].calls = history[i - 1].calls

(* Side effects happen once and are on record before they happen: a tool   *)
(* or a child turn runs at most once for a call, only for a call of the    *)
(* reply just stored, and only if the call has a usable input.             *)
ExecutesOnce ==
    \A c \in Calls : executed[c] > 0 =>
        /\ executed[c] = 1
        /\ c \notin reply.invalid
        /\ history[Len(history)].role = "assistant"
        /\ c \in CallsOf(history[Len(history)])

(* The client's stream: a result only for a call that started and ended,   *)
(* at most one per call, and one terminal event, the last.                 *)
Count(name, c, n) == Cardinality({i \in 1 .. n : wire[i] = Event(name, c)})
Terminal == {"RUN_FINISHED", "RUN_ERROR"}
WireWellFormed ==
    /\ \A n \in 0 .. Len(wire) : \A c \in Calls :
         /\ Count("CALL_RESULT", c, n) <= Count("CALL_END", c, n)
         /\ Count("CALL_END", c, n) <= Count("CALL_START", c, n)
    /\ \A i \in 1 .. Len(wire) : wire[i][1] \in Terminal => i = Len(wire)

(* Every turn ends: the cap bounds the rounds, no goroutine of a step is   *)
(* waited for that cannot come back.                                       *)
TurnEnds == pc # "idle" ~> pc = "idle"

(* orchestrator.go says of a truncated tool_use that "replaying it         *)
(* unanswered would make the provider reject every later turn of the       *)
(* session": a turn that ends normally leaves no call unanswered.  It may. *)
EveryCallAnswered == pc = "finish" => \A i \in DOMAIN history : Answered(history, i)

(* orchestrator.go: "an empty assistant message is rejected on replay too":*)
(* none is stored.  One may be.                                            *)
NoEmptyReply == \A i \in DOMAIN history : NonEmpty(history[i])
=============================================================================
