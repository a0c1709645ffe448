------------------------------- MODULE SubAgents -------------------------------
(***************************************************************************)
(* The tree of turns one user message can start.  A reply that calls the   *)
(* agent tool makes the turn wait for child turns, each in a session of    *)
(* its own, that may call the agent tool in their replies.  The goroutines *)
(* of one step share a semaphore; every event of the tree goes through the *)
(* sinks above it to one stream, which the chat page turns into cards.     *)
(*                                                                         *)
(* Source: open-bbcd/internal/chat/subagent.go, agent_tool.go, the loop of *)
(* orchestrator.go around them, transport/agui/agui.go, the sub-agent      *)
(* cards of web/static/chat.js and their history view in handler/chat.go.  *)
(*                                                                         *)
(* TurnLoop has what one turn stores and streams; here a reply is reduced  *)
(* to the agent calls it makes and to its place among the replies of the   *)
(* session, which stands for its text.  A session is named by the calls    *)
(* that lead to it.                                                        *)
(***************************************************************************)
EXTENDS Integers, Sequences, FiniteSets, SequencesExt

CONSTANTS
    Calls,         \* tool_use ids a reply may give to agent calls
    MaxDepth,      \* Orchestrator.MaxDepth
    MaxParallel,   \* Orchestrator.MaxParallel
    MaxToolRounds, \* Orchestrator.MaxToolRounds
    MaxCalls       \* bound: agent calls of the whole tree

ASSUME SubAgentsAssumption ==
    /\ IsFiniteSet(Calls)
    /\ MaxDepth \in Nat /\ MaxParallel \in Nat /\ MaxToolRounds \in Nat /\ MaxCalls \in Nat

VARIABLES
    pc,        \* where the turn of each session is
    end,       \* how it returned
    round,     \* replies the model streamed to it
    said,      \* its last reply that was stored, 0 when none
    call,      \* what the goroutine of each agent call is at
    result,    \* its slot in results, with the text an answer carries
    cancelled, \* the request is gone, and the page with it
    page,      \* the elements on the chat page
    card       \* the state of each sub-agent card of the page

vars == <<pc, end, round, said, call, result, cancelled, page, card>>

Root == <<"root">>
Below(n) == {Root \o path : path \in [1 .. n -> Calls]}
Sessions == UNION {Below(n) : n \in 0 .. MaxDepth}
Children == Sessions \ {Root}
(* An agent call is the session that makes it and its tool_use id; the     *)
(* child session it starts, when it starts one, has the same name.         *)
AgentCalls == UNION {Below(n) : n \in 1 .. MaxDepth + 1}

Parent(k) == Front(k)
Depth(s) == Len(s) - 1
CallsOf(s) == {k \in AgentCalls : Parent(k) = s}
Unused(s) == {k \in CallsOf(s) : call[k] = "none"}
NoResult == [state |-> "none", text |-> 0]
Error == [state |-> "error", text |-> 0]

(* Every session but the root's is created by its call.                    *)
Init ==
    /\ pc = [s \in Sessions |-> IF s = Root THEN "model" ELSE "none"]
    /\ end = [s \in Sessions |-> ""]
    /\ round = [s \in Sessions |-> 0]
    /\ said = [s \in Sessions |-> 0]
    /\ call = [k \in AgentCalls |-> "none"]
    /\ result = [k \in AgentCalls |-> NoResult]
    /\ cancelled = FALSE
    /\ page = {}
    /\ card = [s \in Children |-> "none"]

TypeOK ==
    /\ pc \in [Sessions -> {"none", "model", "calls", "over"}]
    /\ end \in [Sessions -> {"", "stop", "max_tool_rounds", "error", "panic"}]
    /\ round \in [Sessions -> 0 .. MaxToolRounds + 1]
    /\ \A s \in Sessions : said[s] \in 0 .. round[s]
    /\ call \in [AgentCalls -> {"none", "queued", "gaveup", "running", "result", "answered", "stored"}]
    /\ card \in [Children -> {"none", "running", "done", "error"}]

-----------------------------------------------------------------------------
(* The stream.  An event carries the id of the child session it is about,  *)
(* none for what the root does.  The root's own id never is a tag.         *)
Untagged == <<>>
Event(type, by, k, tag) == [type |-> type, by |-> by, id |-> k, tag |-> tag]

(* childSink.Send: the tool events of the child get its id, those of a     *)
(* deeper child have one.  The end of a child's turn stays in its sink.    *)
(* Mutant: an event is tagged again at every level.                        *)
Retagged(e, s) == [e EXCEPT !.tag = s]
Tagged(e, s) == IF e.tag = Untagged THEN [e EXCEPT !.tag = s] ELSE e
Forwarded(e, s) == IF e.type = "end" /\ s # Root THEN {} ELSE {e}

(* The sinks an event of session s passes on its way to the stream: that   *)
(* of s, then that of its parent, up to the child of the root.             *)
Through(s, e) ==
    LET from[n \in 1 .. Len(s)] ==
            IF n = Len(s) THEN e ELSE Tagged(from[n + 1], SubSeq(s, 1, n + 1))
    IN  from[1]

(* childToolCallID: the id of a call as the page sees it.                  *)
ChildToolCallID(tag, c) == Append(tag, c)

(* turnRunner.Run: the id STEP_STARTED gives for the call of the parent.   *)
WireID(s, c) == IF Depth(s) > 0 THEN ChildToolCallID(s, c) ELSE <<c>>

-----------------------------------------------------------------------------
(* The page.  An event of a child goes into the body of its card when      *)
(* there is one, into the assistant bubble otherwise.                      *)
Bubble == Root
ChildContainer(tag) == IF tag # Untagged /\ card[tag] # "none" THEN tag ELSE Bubble

Element(e) ==
    [what |-> e.type, by |-> e.by, id |-> ChildToolCallID(e.tag, Last(e.id)), in |-> ChildContainer(e.tag)]

(* What reaches a page that is still there.                                *)
Show(elements) == page' = IF cancelled THEN page ELSE page \union elements
Send(type, s, ks) ==
    Show({Element(Through(s, e)) :
             e \in UNION {Forwarded(Event(type, s, k, Untagged), s) : k \in ks}})

(* placeSubagentCard: next to the call whose id the step names, else in    *)
(* the card of the session before the colon, else in the bubble.           *)
Shown(id) == \E e \in page : e.what = "call" /\ e.id = id
Place(id) ==
    IF Shown(id) THEN id
    ELSE IF Len(id) > 1 THEN ChildContainer(Front(id)) ELSE Bubble

StartSubagentCard(k) ==
    LET s == Parent(k)
    IN  /\ card' = IF cancelled \/ card[k] # "none" THEN card ELSE [card EXCEPT ![k] = "running"]
        /\ Show({[what |-> "card", by |-> k, id |-> k, in |-> Place(WireID(s, Last(k)))]})

FinishSubagentCard(k, isError) ==
    card' = IF cancelled \/ card[k] = "none" THEN card
            ELSE [card EXCEPT ![k] = IF isError THEN "error" ELSE "done"]

-----------------------------------------------------------------------------
(* One turn of the tree.  A reply is a round; the text of the last stored  *)
(* one is what the session said.                                           *)
Stream(s) == round' = [round EXCEPT ![s] = @ + 1]
Store(s) == said' = [said EXCEPT ![s] = round[s] + 1]
Return(s, how) ==
    /\ pc' = [pc EXCEPT ![s] = "over"]
    /\ end' = [end EXCEPT ![s] = how]

(* Room for the calls of a reply under the bound.                          *)
Room(ks) == Cardinality({k \in AgentCalls : call[k] # "none"} \union ks) <= MaxCalls

(* The reply is stored and its calls dispatched: a call whose input is no  *)
(* JSON object is answered on the spot, the others get a goroutine.        *)
Ask(s, ks, bad) ==
    /\ pc[s] = "model" /\ ks # {} /\ Room(ks)
    /\ round[s] < MaxToolRounds
    /\ Stream(s) /\ Store(s)
    /\ pc' = [pc EXCEPT ![s] = "calls"]
    /\ call' = [k \in AgentCalls |->
                   IF k \in bad THEN "answered" ELSE IF k \in ks THEN "queued" ELSE call[k]]
    /\ result' = [k \in AgentCalls |-> IF k \in bad THEN Error ELSE result[k]]
    /\ Show({Element(Through(s, Event("call", s, k, Untagged))) : k \in ks} \union
            {Element(Through(s, Event("result", s, k, Untagged))) : k \in bad})
    /\ UNCHANGED <<end, cancelled, card>>

(* A reply that asks for tools after the last round ends the turn.         *)
CapReached(s, ks) ==
    /\ pc[s] = "model" /\ ks # {} /\ Room(ks)
    /\ round[s] >= MaxToolRounds
    /\ Stream(s) /\ Store(s)
    /\ Return(s, "max_tool_rounds")
    /\ Send("call", s, ks)
    /\ UNCHANGED <<call, result, cancelled, card>>

Reply(s) ==
    /\ pc[s] = "model"
    /\ Stream(s) /\ Store(s)
    /\ Return(s, "stop")
    /\ Send("end", s, {s})
    /\ UNCHANGED <<call, result, cancelled, card>>

(* The reply was cut off in its only block, a call: nothing is left of it  *)
(* to store, and the turn ends as well as any other.                       *)
DropReply(s, k) ==
    /\ pc[s] = "model"
    /\ Stream(s)
    /\ Return(s, "stop")
    /\ Send("call", s, {k})
    /\ UNCHANGED <<said, call, result, cancelled, card>>

(* No goroutine of the step is left when runAgentCalls returns.            *)
AllAnswered(s) ==
    pc[s] = "calls" /\ \A k \in CallsOf(s) : call[k] \in {"none", "answered", "stored"}

StoreResults(s) ==
    /\ AllAnswered(s)
    /\ pc' = [pc EXCEPT ![s] = "model"]
    /\ call' = [k \in AgentCalls |->
                   IF Parent(k) = s /\ call[k] = "answered" THEN "stored" ELSE call[k]]
    /\ UNCHANGED <<end, round, said, result, cancelled, page, card>>

(* A query or the model fails; a request that is gone makes both fail.     *)
FailTurn(s) ==
    /\ pc[s] = "model" \/ AllAnswered(s)
    /\ Return(s, "error")
    /\ Send("end", s, {s})
    /\ UNCHANGED <<round, said, call, result, cancelled, card>>

-----------------------------------------------------------------------------
(* One agent call.  A goroutine holds a slot of its step's semaphore until *)
(* its result has been sent.                                               *)
Width == IF MaxParallel < 1 THEN 1 ELSE MaxParallel
(* Mutant: one semaphore for the whole tree.                               *)
RunningAnywhere(s) == {k \in AgentCalls : call[k] \in {"running", "result"}}
Running(s) == {k \in CallsOf(s) : call[k] \in {"running", "result"}}
Acquires(k) == call[k] = "queued" /\ Cardinality(Running(Parent(k))) < Width

(* runAgentCall and the first half of turnRunner.Run: the child session is *)
(* created and announced, and its turn begins.                             *)
Spawn(k) ==
    /\ Acquires(k)
    /\ Depth(Parent(k)) < MaxDepth
    /\ call' = [call EXCEPT ![k] = "running"]
    /\ pc' = [pc EXCEPT ![k] = "model"]
    /\ StartSubagentCard(k)
    /\ UNCHANGED <<end, round, said, result, cancelled>>

(* The input is unfit, the name unknown, the depth reached, or the child   *)
(* session was not created: there is no step to announce.                  *)
Refuse(k) ==
    /\ Acquires(k)
    /\ call' = [call EXCEPT ![k] = "result"]
    /\ result' = [result EXCEPT ![k] = Error]
    /\ UNCHANGED <<pc, end, round, said, cancelled, page, card>>

(* The request is gone before there was a slot.                            *)
GiveUp(k) ==
    /\ call[k] = "queued" /\ cancelled
    /\ call' = [call EXCEPT ![k] = "gaveup"]
    /\ result' = [result EXCEPT ![k] = Error]
    /\ UNCHANGED <<pc, end, round, said, cancelled, page, card>>

(* classifyChildError: only the cap, among the reasons to stop, is one.    *)
ChildError(k) == cancelled \/ end[k] \in {"error", "max_tool_rounds"}

(* The second half of turnRunner.Run; reading the last text may fail too.  *)
Finish(k, unread) ==
    LET isError == ChildError(k) \/ unread
    IN  /\ call[k] = "running" /\ pc[k] = "over"
        /\ call' = [call EXCEPT ![k] = "result"]
        /\ result' = [result EXCEPT ![k] = IF isError THEN Error ELSE [state |-> "ok", text |-> said[k]]]
        /\ FinishSubagentCard(k, isError)
        /\ UNCHANGED <<pc, end, round, said, cancelled, page>>

(* Mutant: a panic leaves its step open.                                   *)
PanicUnfinished(k) ==
    /\ pc[k] = "model"
    /\ Return(k, "panic")
    /\ call' = [call EXCEPT ![k] = "result"]
    /\ result' = [result EXCEPT ![k] = Error]
    /\ UNCHANGED <<round, said, cancelled, page, card>>

(* A panic leaves the child turn through the deferred finish of Run and is *)
(* contained by runAgentCallRecovered.                                     *)
Panic(k) ==
    /\ pc[k] = "model"
    /\ Return(k, "panic")
    /\ call' = [call EXCEPT ![k] = "result"]
    /\ result' = [result EXCEPT ![k] = Error]
    /\ FinishSubagentCard(k, TRUE)
    /\ UNCHANGED <<round, said, cancelled, page>>

(* The result is sent, and the goroutine gives its slot back.              *)
Answer(k) ==
    /\ call[k] \in {"result", "gaveup"}
    /\ call' = [call EXCEPT ![k] = "answered"]
    /\ Send("result", Parent(k), {k})
    /\ UNCHANGED <<pc, end, round, said, result, cancelled, card>>

Cancel ==
    /\ ~cancelled /\ pc[Root] # "over"
    /\ cancelled' = TRUE
    /\ page' = {}
    /\ card' = [k \in Children |-> "none"]
    /\ UNCHANGED <<pc, end, round, said, call, result>>

-----------------------------------------------------------------------------
TurnStep(s) ==
    \/ \E ks \in SUBSET Unused(s) : CapReached(s, ks) \/ \E bad \in SUBSET ks : Ask(s, ks, bad)
    \/ \E k \in Unused(s) : DropReply(s, k)
    \/ Reply(s)
    \/ StoreResults(s)
    \/ FailTurn(s)

CallStep(k) ==
    \/ Spawn(k)
    \/ Refuse(k)
    \/ GiveUp(k)
    \/ Answer(k)

ChildStep(k) == Panic(k) \/ \E unread \in BOOLEAN : Finish(k, unread)

Step ==
    \/ \E s \in Sessions : TurnStep(s)
    \/ \E k \in AgentCalls : CallStep(k)
    \/ \E k \in Children : ChildStep(k)

Next == Step \/ Cancel

(* A turn in flight is run, the streams of the model end, and the tool     *)
(* rounds are capped: some goroutine that can go on does.                  *)
Spec == Init /\ [][Next]_vars /\ WF_vars(Step)

-----------------------------------------------------------------------------
(* What a turn of the tree makes stands where a reader looks for it: each  *)
(* call and result in the card of the session it belongs to, or in the     *)
(* bubble for the root's, each card next to the call it answers, and only  *)
(* the root's end is the end of the run.  It rests on the sinks of every   *)
(* level tagging events once, on STEP_STARTED going ahead of the child's   *)
(* events, and on two formulas for the id of one call (childSink.Send,     *)
(* turnRunner.Run, childToolCallID, chat.js).                              *)
Body(s) == IF s = Root THEN Bubble ELSE s
Named(s, id) == IF s = Root THEN Len(id) = 1 ELSE Len(id) > 1 /\ Front(id) = s
InPlace ==
    \A e \in page :
        CASE e.what \in {"call", "result"} -> Named(e.by, e.id) /\ e.in = Body(e.by)
          [] e.what = "card" -> /\ Named(Parent(e.by), e.in) /\ Last(e.in) = Last(e.by)
                                /\ Shown(e.in)
          [] e.what = "end" -> e.by = Root

(* The live page and the history agree.  While the page is there, every    *)
(* child turn has a card; its state is settled before the result of its    *)
(* call arrives, is the one the history view derives from the stored       *)
(* result (subagentCard), and no card is left running when the run ends,   *)
(* so that closeStaleSubagentCards finds none to call interrupted.         *)
StateOf(r) == IF r.state = "ok" THEN "done" ELSE "error"
CardsTell ==
    ~cancelled =>
        \A k \in Children :
            /\ pc[k] # "none" => card[k] # "none"
            /\ call[k] \in {"answered", "stored"} /\ card[k] # "none" => card[k] = StateOf(result[k])
            /\ pc[Root] = "over" => card[k] # "running"

(* The tree ends: levels that wait for each other never wait in a circle   *)
(* for slots, however the goroutines of all steps are scheduled.           *)
TreeEnds == <>(pc[Root] = "over")

(* The text a caller gets is the child's final one (subagent.go:326-328):  *)
(* that of its last reply, or none when that reply had none.               *)
FinalText == \A k \in Children : result[k].state = "ok" => result[k].text \in {0, round[k]}

=============================================================================
