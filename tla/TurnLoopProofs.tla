---------------------------- MODULE TurnLoopProofs ----------------------------
(***************************************************************************)
(* Theorems about TurnLoop, for every set of calls, number of turns, round *)
(* cap and width of the agent semaphore.                                   *)
(***************************************************************************)
EXTENDS TurnLoop, FiniteSetTheorems, SequenceTheorems, WellFoundedInduction, TLAPS

-----------------------------------------------------------------------------
(* What the proofs need of sequences.  The elements of a history hold what *)
(* SelectSeq returns, of which the provers know nothing, so a history is   *)
(* typed as a sequence over some set.                                      *)

IsSeq(s) == \E S : s \in Seq(S)

-----------------------------------------------------------------------------
(* The invariant.                                                          *)

Reply == [text : BOOLEAN, calls : Seq(Calls), open : BOOLEAN,
          invalid : SUBSET Calls, agents : SUBSET Calls]

Typed ==
    /\ IsSeq(history)
    /\ IsSeq(request)
    /\ pc \in Phases
    /\ reply \in Reply
    /\ slot \in [Calls -> SlotStates]
    /\ executed \in [Calls -> Nat]

Calling == {"tools", "agents", "record"}   \* where a round's calls are being answered

(* What is stored beyond the request is the reply whose calls are being    *)
(* answered, and nothing at any other time.                                *)
Conversation ==
    /\ pc \in {"user", "stream", "persist"} => request = history
    /\ pc \in Calling =>
         /\ stop = "tool_use"
         /\ history = Append(request, Assistant(reply.text, reply.calls))
    /\ stop # "" => ~reply.open
    /\ reply.open => reply.calls # <<>>
    /\ pc \in {"idle", "load", "user"} => reply = EmptyReply

(* The slots say which calls were reached, and what ran.                   *)
Slots ==
    /\ pc \notin Calling => \A c \in Calls : slot[c] = "none"
    /\ \A c \in Calls : slot[c] # "none" => c \in CallsOf(reply)
    /\ \A c \in Calls : slot[c] \in {"none", "queued"} => executed[c] = 0
    /\ \A c \in Calls : executed[c] \in {0, 1}
    /\ \A c \in Calls : slot[c] = "queued" \/ executed[c] = 1 => c \notin reply.invalid
    /\ pc \in {"agents", "record"} => \A c \in CallsOf(reply) : slot[c] # "none"
    /\ pc = "record" => \A c \in Calls : slot[c] \notin {"queued", "running"}

(* What was sent, and in which order.                                      *)
Sent(name, c) == \E i \in 1 .. Len(wire) : wire[i] = Event(name, c)
Opened(c) == reply.open /\ c = reply.calls[Len(reply.calls)]
PerCall == {"CALL_START", "CALL_END", "CALL_RESULT"}
Before(name) == IF name = "CALL_RESULT" THEN "CALL_END" ELSE "CALL_START"

Ordered ==
    /\ IsSeq(wire)
    /\ \A i, j \in 1 .. Len(wire) : wire[i] = wire[j] /\ wire[i][1] \in PerCall => i = j
    /\ \A c \in Calls, name \in {"CALL_END", "CALL_RESULT"}, j \in 1 .. Len(wire) :
         wire[j] = Event(name, c) => \E i \in 1 .. j - 1 : wire[i] = Event(Before(name), c)
    /\ \A i \in 1 .. Len(wire) : wire[i][1] \in Terminal => i = Len(wire)

Streamed ==
    pc # "idle" =>
        /\ \A i \in 1 .. Len(wire) : wire[i][1] \notin Terminal
        /\ \A c \in Calls : Sent("CALL_START", c) <=> c \in CallsOf(reply)
        /\ \A c \in Calls : Sent("CALL_END", c) <=> c \in CallsOf(reply) /\ ~Opened(c)
        /\ \A c \in Calls : Sent("CALL_RESULT", c) <=> slot[c] \in {"ok", "error"}

IInv == Typed /\ Conversation /\ Slots /\ ResultsAnswerCalls /\ Ordered /\ Streamed

(* The least element of a set of numbers.                                  *)
LEMMA LeastNat ==
  ASSUME NEW T \in SUBSET Nat, T # {}
  PROVE  \E n \in T : \A m \in T : n <= m
<1> DEFINE R == OpToRel(<, Nat)
<1>1. IsWellFoundedOn(R, Nat)
  BY NatLessThanWellFounded, Zenon
<1> HIDE DEF R
<1>2. PICK n \in T : \A m \in T : <<m, n>> \notin R
  BY <1>1, WFMin
<1>3. \A m \in T : ~(m < n)
  BY <1>2, Zenon DEF R, OpToRel
<1> QED BY <1>3

LEMMA AppendFacts ==
  ASSUME NEW s, IsSeq(s), NEW e
  PROVE  /\ IsSeq(Append(s, e))
         /\ Len(s) \in Nat
         /\ Len(Append(s, e)) = Len(s) + 1
         /\ \A i \in 1 .. Len(s) : Append(s, e)[i] = s[i]
         /\ Append(s, e)[Len(s) + 1] = e
         /\ DOMAIN s = 1 .. Len(s)
         /\ DOMAIN Append(s, e) = 1 .. Len(s) + 1
<1>1. PICK S : s \in Seq(S)
  BY DEF IsSeq
<1> DEFINE T == S \cup {e}
<1>2. s \in Seq(T) /\ e \in T
  BY <1>1, SeqMonotonic
<1> HIDE DEF T
<1>3. Append(s, e) \in Seq(T)
  BY <1>2
<1> QED BY <1>2, <1>3 DEF IsSeq

LEMMA EmptyIsSeq == IsSeq(<<>>) /\ Len(<<>>) = 0
  BY EmptySeq DEF IsSeq

LEMMA ConcatTwo ==
  ASSUME NEW s, IsSeq(s), NEW a, NEW b
  PROVE  s \o <<a, b>> = Append(Append(s, a), b)
<1>1. PICK S : s \in Seq(S)
  BY DEF IsSeq
<1> DEFINE T == S \cup {a, b}
<1>2. s \in Seq(T) /\ a \in T /\ b \in T
  BY <1>1, SeqMonotonic
<1> HIDE DEF T
<1>3. <<a, b>> \in Seq(T) /\ Len(<<a, b>>) = 2 /\ <<a, b>>[1] = a /\ <<a, b>>[2] = b
  BY <1>2
<1>4. /\ s \o <<a, b>> \in Seq(T)
      /\ Len(s \o <<a, b>>) = Len(s) + 2
      /\ \A i \in 1 .. Len(s) + 2 :
           (s \o <<a, b>>)[i] = IF i <= Len(s) THEN s[i] ELSE <<a, b>>[i - Len(s)]
  BY <1>2, <1>3, ConcatProperties
<1>5. /\ Append(s, a) \in Seq(T) /\ Append(Append(s, a), b) \in Seq(T)
      /\ Len(Append(Append(s, a), b)) = Len(s) + 2
  BY <1>2
<1>6. \A i \in 1 .. Len(s) + 2 :
        Append(Append(s, a), b)[i] = IF i <= Len(s) THEN s[i] ELSE IF i = Len(s) + 1 THEN a ELSE b
  BY <1>2
<1>7. Len(s) \in Nat
  BY <1>2
<1>8. \A i \in 1 .. Len(s) + 2 : (s \o <<a, b>>)[i] = Append(Append(s, a), b)[i]
  BY <1>3, <1>4, <1>6, <1>7
<1> QED BY <1>4, <1>5, <1>8, SeqEqual

LEMMA CallsOfAppend ==
  ASSUME NEW r \in Reply, NEW q \in Reply, NEW c \in Calls, q.calls = Append(r.calls, c)
  PROVE  /\ CallsOf(q) = CallsOf(r) \cup {c}
         /\ q.calls[Len(q.calls)] = c
<1>1. r.calls \in Seq(Calls) /\ Len(q.calls) = Len(r.calls) + 1 /\ Len(r.calls) \in Nat
  BY DEF Reply
<1>2. DOMAIN r.calls = 1 .. Len(r.calls) /\ DOMAIN q.calls = 1 .. Len(r.calls) + 1
  BY <1>1 DEF Reply
<1>3. /\ \A i \in 1 .. Len(r.calls) : q.calls[i] = r.calls[i]
      /\ q.calls[Len(r.calls) + 1] = c
  BY <1>1
<1>4. \A i \in DOMAIN q.calls : i \in DOMAIN r.calls \/ i = Len(r.calls) + 1
  BY <1>1, <1>2
<1>5. DOMAIN r.calls \subseteq DOMAIN q.calls /\ Len(r.calls) + 1 \in DOMAIN q.calls
  BY <1>1, <1>2
<1> QED BY <1>1, <1>2, <1>3, <1>4, <1>5 DEF CallsOf

LEMMA EmptyReplyIs == EmptyReply \in Reply /\ CallsOf(EmptyReply) = {} /\ ~EmptyReply.open
<1>1. EmptyReply.calls = <<>> /\ ~EmptyReply.open
  BY DEF EmptyReply
<1>2. EmptyReply \in Reply
  BY EmptySeq DEF EmptyReply, Reply
<1>3. CallsOf(EmptyReply) = {}
  BY <1>1 DEF CallsOf
<1> QED BY <1>1, <1>2, <1>3

(* Dispatch takes a call that was not reached yet.                         *)
LEMMA NextCallIs ==
  ASSUME Typed, ~reply.open, Undispatched
  PROVE  /\ Pending(reply) = reply.calls
         /\ NextCall \in DOMAIN reply.calls
         /\ slot[reply.calls[NextCall]] = "none"
<1>1. Pending(reply) = reply.calls
  BY DEF Pending
<1> DEFINE T == {i \in DOMAIN reply.calls : slot[reply.calls[i]] = "none"}
<1>2. DOMAIN reply.calls = 1 .. Len(reply.calls) /\ Len(reply.calls) \in Nat
  BY DEF Typed, Reply
<1>3. T \in SUBSET Nat /\ T # {}
  BY <1>1, <1>2 DEF Undispatched
<1>4. PICK n \in T : \A m \in T : n <= m
  BY <1>3, LeastNat
<1>5. \A j \in 1 .. n - 1 : slot[reply.calls[j]] # "none"
  <2> SUFFICES ASSUME NEW j \in 1 .. n - 1, slot[reply.calls[j]] = "none" PROVE FALSE
    OBVIOUS
  <2>1. n \in 1 .. Len(reply.calls)
    BY <1>2
  <2>2. j \in T /\ j < n
    BY <1>2, <2>1
  <2> QED BY <1>4, <2>1, <2>2
<1>6. n \in DOMAIN Pending(reply) /\ slot[Pending(reply)[n]] = "none"
      /\ \A j \in 1 .. n - 1 : slot[Pending(reply)[j]] # "none"
  BY <1>1, <1>4, <1>5
<1>7. NextCall \in DOMAIN Pending(reply) /\ slot[Pending(reply)[NextCall]] = "none"
  BY <1>6 DEF NextCall
<1> QED BY <1>1, <1>7

(* An event is sent at most once for a call, after the one it needs.       *)
LEMMA OrderedAppend ==
  ASSUME Ordered, NEW name, NEW c,
         \A i \in 1 .. Len(wire) : wire[i][1] \notin Terminal,
         wire' = Append(wire, Event(name, c)),
         name \in PerCall => ~Sent(name, c),
         name \in {"CALL_END", "CALL_RESULT"} => Sent(Before(name), c)
  PROVE  /\ Ordered'
         /\ \A n, d : Sent(n, d)' <=> Sent(n, d) \/ (n = name /\ d = c)
         /\ name \notin Terminal => \A i \in 1 .. Len(wire') : wire'[i][1] \notin Terminal
<1>1. /\ IsSeq(wire') /\ Len(wire) \in Nat /\ Len(wire') = Len(wire) + 1
      /\ \A i \in 1 .. Len(wire) : wire'[i] = wire[i]
      /\ wire'[Len(wire) + 1] = Event(name, c)
  BY AppendFacts DEF Ordered
<1>2. Event(name, c)[1] = name /\ \A n, d : Event(n, d) = Event(name, c) <=> n = name /\ d = c
  BY DEF Event
<1>3. \A i \in 1 .. Len(wire') : i \in 1 .. Len(wire) \/ i = Len(wire) + 1
  BY <1>1
<1>4. \A i, j \in 1 .. Len(wire') : wire'[i] = wire'[j] /\ wire'[i][1] \in PerCall => i = j
  <2> SUFFICES ASSUME NEW i \in 1 .. Len(wire'), NEW j \in 1 .. Len(wire'),
                      wire'[i] = wire'[j], wire'[i][1] \in PerCall
               PROVE  i = j
    OBVIOUS
  <2>1. CASE i \in 1 .. Len(wire) /\ j \in 1 .. Len(wire)
    BY <1>1, <2>1 DEF Ordered
  <2>2. CASE i \in 1 .. Len(wire) /\ j = Len(wire) + 1
    <3>1. wire[i] = Event(name, c) /\ name \in PerCall
      BY <1>1, <1>2, <2>2
    <3> QED BY <2>2, <3>1 DEF Sent
  <2>3. CASE j \in 1 .. Len(wire) /\ i = Len(wire) + 1
    <3>1. wire[j] = Event(name, c) /\ name \in PerCall
      BY <1>1, <1>2, <2>3
    <3> QED BY <2>3, <3>1 DEF Sent
  <2> QED BY <1>3, <2>1, <2>2, <2>3
<1>5. ASSUME NEW d \in Calls, NEW n \in {"CALL_END", "CALL_RESULT"}, NEW j \in 1 .. Len(wire'),
             wire'[j] = Event(n, d)
      PROVE  \E i \in 1 .. j - 1 : wire'[i] = Event(Before(n), d)
  <2>1. CASE j \in 1 .. Len(wire)
    <3>1. PICK i \in 1 .. j - 1 : wire[i] = Event(Before(n), d)
      BY <1>1, <1>5, <2>1 DEF Ordered
    <3>2. i \in 1 .. Len(wire)
      BY <1>1, <2>1
    <3> QED BY <1>1, <3>1, <3>2
  <2>2. CASE j = Len(wire) + 1
    <3>1. n = name /\ d = c
      BY <1>1, <1>2, <1>5, <2>2
    <3>2. PICK i \in 1 .. Len(wire) : wire[i] = Event(Before(n), d)
      BY <3>1 DEF Sent
    <3>3. i \in 1 .. j - 1 /\ wire'[i] = Event(Before(n), d)
      BY <1>1, <2>2, <3>2
    <3> QED BY <3>3
  <2> QED BY <1>3, <2>1, <2>2
<1>6. \A i \in 1 .. Len(wire') : wire'[i][1] \in Terminal => i = Len(wire')
  BY <1>1, <1>3
<1>7. name \notin Terminal => \A i \in 1 .. Len(wire') : wire'[i][1] \notin Terminal
  BY <1>1, <1>2, <1>3
<1>8. ASSUME NEW n, NEW d PROVE Sent(n, d)' <=> Sent(n, d) \/ (n = name /\ d = c)
  <2>1. Sent(n, d)' <=> \E i \in 1 .. Len(wire') : wire'[i] = Event(n, d)
    BY DEF Sent, Event
  <2>2. ASSUME Sent(n, d) PROVE Sent(n, d)'
    <3>1. PICK i \in 1 .. Len(wire) : wire[i] = Event(n, d)
      BY <2>2 DEF Sent
    <3>2. i \in 1 .. Len(wire') /\ wire'[i] = Event(n, d)
      BY <1>1, <3>1
    <3> QED BY <2>1, <3>2
  <2>3. ASSUME n = name, d = c PROVE Sent(n, d)'
    <3>1. Len(wire) + 1 \in 1 .. Len(wire') /\ wire'[Len(wire) + 1] = Event(n, d)
      BY <1>1, <2>3
    <3> QED BY <2>1, <3>1
  <2>4. ASSUME Sent(n, d)' PROVE Sent(n, d) \/ (n = name /\ d = c)
    <3>1. PICK i \in 1 .. Len(wire') : wire'[i] = Event(n, d)
      BY <2>1, <2>4
    <3>2. CASE i \in 1 .. Len(wire)
      BY <1>1, <3>1, <3>2 DEF Sent
    <3>3. CASE i = Len(wire) + 1
      BY <1>1, <1>2, <3>1, <3>3
    <3> QED BY <1>3, <3>2, <3>3
  <2> QED BY <2>2, <2>3, <2>4
<1> QED BY <1>1, <1>4, <1>5, <1>6, <1>7, <1>8 DEF Ordered, Event

LEMMA OrderedEmpty ==
  ASSUME wire' = <<>>
  PROVE  /\ Ordered'
         /\ \A n, d : ~Sent(n, d)'
         /\ \A i \in 1 .. Len(wire') : wire'[i][1] \notin Terminal
<1>1. IsSeq(wire') /\ Len(wire') = 0
  BY EmptyIsSeq
<1> QED BY <1>1 DEF Ordered, Sent

LEMMA OrderedKept ==
  ASSUME Ordered, wire' = wire
  PROVE  Ordered' /\ \A n, d : Sent(n, d)' <=> Sent(n, d)
BY DEF Ordered, Sent

(* Slots before any call is reached.                                       *)
LEMMA NoSlots ==
  ASSUME pc' \notin Calling, \A c \in Calls : slot'[c] = "none" /\ executed'[c] = 0
  PROVE  Slots'
<1>1. Calling' = Calling /\ pc' \notin {"agents", "record"}
  BY DEF Calling
<1>2. \A c \in Calls : /\ slot'[c] # "queued" /\ slot'[c] # "running"
                       /\ executed'[c] \in {0, 1} /\ executed'[c] # 1
  OBVIOUS
<1> HIDE DEF Calling
<1> QED BY <1>1, <1>2 DEF Slots

LEMMA IInvInit == Init => IInv
<1> SUFFICES ASSUME Init PROVE IInv OBVIOUS
<1>1. Typed
  BY EmptyIsSeq, EmptyReplyIs DEF Init, Typed, Phases, SlotStates
<1>2. Conversation
  BY EmptyReplyIs DEF Init, Conversation, Calling
<1>3. Slots
  <2>1. \A c \in Calls : slot[c] = "none" /\ executed[c] = 0
    BY DEF Init
  <2>2. pc \notin Calling /\ pc \notin {"agents", "record"}
    BY DEF Init, Calling
  <2> QED BY <2>1, <2>2 DEF Slots
<1>4. ResultsAnswerCalls
  <2>1. DOMAIN history = 1 .. 0
    BY AppendFacts, EmptyIsSeq DEF Init
  <2> QED BY <2>1 DEF ResultsAnswerCalls
<1>5. Ordered /\ Streamed
  <2>1. IsSeq(wire) /\ Len(wire) = 0 /\ pc = "idle"
    BY EmptyIsSeq DEF Init
  <2> QED BY <2>1 DEF Ordered, Streamed
<1> QED BY <1>1, <1>2, <1>3, <1>4, <1>5 DEF IInv

-----------------------------------------------------------------------------
(* Where a turn ends, and where a round begins.                            *)

LEMMA ForgetRoundFacts ==
  ASSUME ForgetRound
  PROVE  /\ reply' = EmptyReply /\ reply' \in Reply /\ CallsOf(reply') = {} /\ ~reply'.open
         /\ stop' = ""
         /\ slot' \in [Calls -> SlotStates] /\ executed' \in [Calls -> Nat]
         /\ \A c \in Calls : slot'[c] = "none" /\ executed'[c] = 0
BY EmptyReplyIs DEF ForgetRound, SlotStates

LEMMA ForgetTurnStep ==
  ASSUME IInv, ForgetTurn, history' = history, Ordered'
  PROVE  IInv'
<1>1. pc' = "idle" /\ request' = <<>> /\ IsSeq(request')
  BY EmptyIsSeq DEF ForgetTurn
<1>2. /\ reply' = EmptyReply /\ reply' \in Reply /\ CallsOf(reply') = {} /\ ~reply'.open
      /\ stop' = ""
      /\ slot' \in [Calls -> SlotStates] /\ executed' \in [Calls -> Nat]
      /\ \A c \in Calls : slot'[c] = "none" /\ executed'[c] = 0
  BY ForgetRoundFacts DEF ForgetTurn
<1>3. Typed'
  BY <1>1, <1>2 DEF IInv, Typed, Phases
<1>4. Conversation'
  BY <1>1, <1>2 DEF Conversation, Calling
<1>5. Slots'
  BY <1>1, <1>2, NoSlots DEF Calling
<1>6. ResultsAnswerCalls'
  BY DEF IInv, ResultsAnswerCalls
<1>7. Streamed'
  BY <1>1 DEF Streamed
<1> QED BY <1>3, <1>4, <1>5, <1>6, <1>7 DEF IInv

LEMMA EndStep == ASSUME IInv, StepFails \/ FinishTurn \/ Crash PROVE IInv'
<1>1. CASE StepFails \/ FinishTurn
  <2>1. PICK name \in Terminal : Send(name)
    BY <1>1 DEF StepFails, FailTurn, FinishTurn, Terminal
  <2>2. ForgetTurn /\ history' = history /\ pc # "idle"
    BY <1>1 DEF StepFails, FailTurn, AfterFailure, FinishTurn
  <2>3. \A i \in 1 .. Len(wire) : wire[i][1] \notin Terminal
    BY <2>2 DEF IInv, Streamed
  <2>4. name \notin PerCall /\ name \notin {"CALL_END", "CALL_RESULT"}
    BY DEF Terminal, PerCall
  <2>5. Ordered'
    BY <2>1, <2>3, <2>4, OrderedAppend DEF IInv, Send
  <2> QED BY <2>2, <2>5, ForgetTurnStep
<1>2. CASE Crash
  BY <1>2, OrderedEmpty, ForgetTurnStep DEF Crash
<1> QED BY <1>1, <1>2

LEMMA StartStep == ASSUME IInv, StartTurn \/ LoadHistory \/ StoreUser PROVE IInv'
<1> USE DEF IInv
<1>1. CASE StartTurn
  <2>1. /\ pc = "idle" /\ pc' = "load" /\ wire' = <<>>
        /\ UNCHANGED <<history, request, reply, stop, slot, executed>>
    BY <1>1 DEF StartTurn
  <2>2. reply = EmptyReply /\ CallsOf(reply) = {} /\ \A c \in Calls : slot[c] = "none"
    BY <2>1, EmptyReplyIs DEF Conversation, Slots, Calling
  <2>3. Typed' /\ ResultsAnswerCalls'
    BY <2>1 DEF Typed, Phases, ResultsAnswerCalls
  <2>4. Conversation' /\ Slots'
    BY <2>1, <2>2 DEF Conversation, Slots, Calling, CallsOf
  <2>5. Ordered' /\ Streamed'
    BY <2>1, <2>2, OrderedEmpty DEF Streamed, CallsOf
  <2> QED BY <2>3, <2>4, <2>5
<1>2. CASE LoadHistory
  <2>1. /\ pc = "load" /\ pc' = "user" /\ request' = history
        /\ UNCHANGED <<history, reply, stop, slot, executed, wire>>
    BY <1>2 DEF LoadHistory
  <2>2. Typed' /\ ResultsAnswerCalls'
    BY <2>1 DEF Typed, Phases, ResultsAnswerCalls
  <2>3. Conversation' /\ Slots'
    BY <2>1 DEF Conversation, Slots, Calling, CallsOf
  <2>4. Ordered' /\ Streamed'
    BY <2>1, OrderedKept DEF Streamed, CallsOf, Opened
  <2> QED BY <2>2, <2>3, <2>4
<1>3. CASE StoreUser
  <2>1. /\ pc = "user" /\ pc' = "stream" /\ request = history
        /\ history' = Append(history, UserMessage) /\ request' = Append(request, UserMessage)
        /\ wire' = Append(wire, Event("RUN_STARTED", "turn"))
    BY <1>3 DEF StoreUser, Send, Conversation
  <2>2. /\ reply' = EmptyReply /\ reply' \in Reply /\ CallsOf(reply') = {} /\ ~reply'.open
        /\ stop' = ""
        /\ slot' \in [Calls -> SlotStates] /\ executed' \in [Calls -> Nat]
        /\ \A c \in Calls : slot'[c] = "none" /\ executed'[c] = 0
    BY <1>3, ForgetRoundFacts DEF StoreUser
  <2>3. /\ IsSeq(history') /\ Len(history) \in Nat
        /\ DOMAIN history = 1 .. Len(history) /\ DOMAIN history' = 1 .. Len(history) + 1
        /\ \A i \in 1 .. Len(history) : history'[i] = history[i]
        /\ history'[Len(history) + 1] = UserMessage
    BY <2>1, AppendFacts DEF Typed
  <2>4. Typed'
    BY <2>1, <2>2, <2>3 DEF Typed, Phases
  <2>5. Conversation' /\ Slots'
    BY <2>1, <2>2 DEF Conversation, Slots, Calling
  <2>6. ResultsAnswerCalls'
    <3>1. UserMessage.role # "tool"
      BY DEF UserMessage
    <3> QED BY <2>3, <3>1 DEF ResultsAnswerCalls
  <2>7. Ordered' /\ Streamed'
    <3>1. reply = EmptyReply /\ CallsOf(reply) = {} /\ \A c \in Calls : slot[c] = "none"
      BY <2>1, EmptyReplyIs DEF Conversation, Slots, Calling
    <3>2. \A i \in 1 .. Len(wire) : wire[i][1] \notin Terminal
      BY <2>1 DEF Streamed
    <3>3. "RUN_STARTED" \notin PerCall /\ "RUN_STARTED" \notin {"CALL_END", "CALL_RESULT"}
          /\ "RUN_STARTED" \notin Terminal
      BY DEF PerCall, Terminal
    <3>4. /\ Ordered'
          /\ \A n, d : Sent(n, d)' <=> Sent(n, d) \/ (n = "RUN_STARTED" /\ d = "turn")
          /\ \A i \in 1 .. Len(wire') : wire'[i][1] \notin Terminal
      BY <2>1, <3>2, <3>3, OrderedAppend
    <3>5. \A c \in Calls : /\ ~Sent("CALL_START", c)' /\ ~Sent("CALL_END", c)'
                           /\ ~Sent("CALL_RESULT", c)'
      BY <2>1, <3>1, <3>4 DEF Streamed
    <3> QED BY <2>2, <3>4, <3>5 DEF Streamed
  <2> QED BY <2>4, <2>5, <2>6, <2>7
<1> QED BY <1>1, <1>2, <1>3

-----------------------------------------------------------------------------
(* The stream.  Nothing is stored while it runs.                           *)

LEMMA StreamKeeps ==
  ASSUME IInv, pc = "stream", pc' \in {"stream", "persist"},
         UNCHANGED <<history, request, slot, executed>>,
         reply' \in Reply, stop' # "" => ~reply'.open,
         reply'.open => reply'.calls # <<>>
  PROVE  Typed' /\ Conversation' /\ Slots' /\ ResultsAnswerCalls'
<1> USE DEF IInv
<1>1. \A c \in Calls : slot[c] = "none" /\ executed[c] = 0
  BY DEF Slots, Calling
<1>2. Typed'
  BY DEF Typed, Phases
<1>3. Conversation'
  BY DEF Conversation, Calling
<1>4. Slots'
  BY <1>1, NoSlots DEF Calling
<1>5. ResultsAnswerCalls'
  BY DEF ResultsAnswerCalls
<1> QED BY <1>2, <1>3, <1>4, <1>5

LEMMA StreamStep ==
  ASSUME IInv,
         \/ StreamText \/ (\E c \in Calls, isAgent \in BOOLEAN : StreamCallStart(c, isAgent))
         \/ (\E valid \in BOOLEAN : StreamCallEnd(valid))
         \/ (\E reason \in {"tool_use", "end_turn", "max_tokens"} : StreamStop(reason))
         \/ StreamEnd
  PROVE  IInv'
<1> USE DEF IInv
<1>0. reply \in Reply /\ (stop # "" => ~reply.open) /\ (reply.open => reply.calls # <<>>)
  BY DEF Typed, Conversation
<1>1. CASE StreamText
  <2>1. /\ pc = "stream" /\ pc' = pc /\ stop' = stop /\ stop = "" /\ wire' = wire
        /\ UNCHANGED <<history, request, slot, executed>>
        /\ reply' = [reply EXCEPT !.text = TRUE]
    BY <1>1 DEF StreamText, Streaming
  <2>2. reply' \in Reply /\ reply'.calls = reply.calls /\ reply'.open = reply.open
    BY <1>0, <2>1 DEF Reply
  <2>3. CallsOf(reply') = CallsOf(reply) /\ \A c : Opened(c)' <=> Opened(c)
    BY <2>2 DEF CallsOf, Opened
  <2>4. Typed' /\ Conversation' /\ Slots' /\ ResultsAnswerCalls'
    BY <1>0, <2>1, <2>2, StreamKeeps
  <2>5. Ordered' /\ Streamed'
    BY <2>1, <2>3, OrderedKept DEF Streamed
  <2> QED BY <2>4, <2>5
<1>2. ASSUME NEW c \in Calls, NEW isAgent \in BOOLEAN, StreamCallStart(c, isAgent) PROVE IInv'
  <2>1. /\ pc = "stream" /\ pc' = pc /\ stop' = stop /\ stop = ""
        /\ UNCHANGED <<history, request, slot, executed>>
        /\ ~reply.open /\ c \notin CallsOf(reply)
        /\ reply' = [reply EXCEPT !.calls = Append(@, c), !.open = TRUE,
                              !.agents = IF isAgent THEN @ \cup {c} ELSE @]
        /\ wire' = Append(wire, Event("CALL_START", c))
    BY <1>2 DEF StreamCallStart, Streaming, SendFor
  <2>2. reply' \in Reply /\ reply'.calls = Append(reply.calls, c) /\ reply'.open
        /\ reply'.calls # <<>>
    <3> DEFINE agents == IF isAgent THEN reply.agents \cup {c} ELSE reply.agents
    <3>1. reply' = [reply EXCEPT !.calls = Append(reply.calls, c), !.open = TRUE, !.agents = agents]
      BY <2>1
    <3>2. reply.calls \in Seq(Calls) /\ agents \in SUBSET Calls
      BY <1>0 DEF Reply
    <3>3. /\ Append(reply.calls, c) \in Seq(Calls)
          /\ Len(Append(reply.calls, c)) = Len(reply.calls) + 1 /\ Len(reply.calls) \in Nat
      BY <3>2
    <3>4. Append(reply.calls, c) # <<>>
      BY <3>3, EmptyIsSeq
    <3> HIDE DEF agents
    <3> QED BY <1>0, <3>1, <3>2, <3>3, <3>4 DEF Reply
  <2>3. /\ CallsOf(reply') = CallsOf(reply) \cup {c}
        /\ \A d : Opened(d)' <=> d = c
        /\ \A d : ~Opened(d)
    <3>1. CallsOf(reply') = CallsOf(reply) \cup {c} /\ reply'.calls[Len(reply'.calls)] = c
      BY <1>0, <2>2, CallsOfAppend
    <3> QED BY <2>1, <2>2, <3>1 DEF Opened
  <2>4. Typed' /\ Conversation' /\ Slots' /\ ResultsAnswerCalls'
    BY <2>1, <2>2, StreamKeeps
  <2>5. /\ Ordered'
        /\ \A n, d : Sent(n, d)' <=> Sent(n, d) \/ (n = "CALL_START" /\ d = c)
        /\ \A i \in 1 .. Len(wire') : wire'[i][1] \notin Terminal
    <3>1. "CALL_START" \notin Terminal /\ "CALL_START" \notin {"CALL_END", "CALL_RESULT"}
      BY DEF Terminal
    <3>2. ~Sent("CALL_START", c) /\ \A i \in 1 .. Len(wire) : wire[i][1] \notin Terminal
      BY <2>1 DEF Streamed
    <3> QED BY <2>1, <3>1, <3>2, OrderedAppend
  <2>6. Streamed'
    <3>1. /\ pc # "idle" /\ pc' # "idle"
          /\ \A d \in Calls : /\ Sent("CALL_START", d) <=> d \in CallsOf(reply)
                              /\ Sent("CALL_END", d) <=> d \in CallsOf(reply)
                              /\ Sent("CALL_RESULT", d) <=> slot'[d] \in {"ok", "error"}
      BY <2>1, <2>3 DEF Streamed
    <3>2. \A d \in Calls : /\ Sent("CALL_START", d)' <=> d \in CallsOf(reply')
                           /\ Sent("CALL_RESULT", d)' <=> slot'[d] \in {"ok", "error"}
      BY <2>3, <2>5, <3>1
    <3>3. ASSUME NEW d \in Calls
          PROVE  Sent("CALL_END", d)' <=> d \in CallsOf(reply') /\ ~Opened(d)'
      <4>1. Sent("CALL_END", d)' <=> Sent("CALL_END", d)
        BY <2>5
      <4>2. d \in CallsOf(reply') /\ ~Opened(d)' <=> d \in CallsOf(reply)
        BY <2>1, <2>3
      <4> QED BY <3>1, <4>1, <4>2
    <3> QED BY <2>5, <3>2, <3>3 DEF Streamed
  <2> QED BY <2>4, <2>5, <2>6
<1>3. ASSUME NEW valid \in BOOLEAN, StreamCallEnd(valid) PROVE IInv'
  <2> DEFINE c == reply.calls[Len(reply.calls)]
  <2>1. /\ pc = "stream" /\ pc' = pc /\ stop' = stop /\ stop = ""
        /\ UNCHANGED <<history, request, slot, executed>>
        /\ reply.open
        /\ reply' = [reply EXCEPT !.open = FALSE, !.invalid = IF valid THEN @ ELSE @ \cup {c}]
        /\ wire' = Append(wire, Event("CALL_END", c))
    BY <1>3 DEF StreamCallEnd, Streaming, SendFor
  <2>2. Opened(c)
    BY <2>1 DEF Opened
  <2>3. c \in CallsOf(reply) /\ c \in Calls
    <3>1. reply.calls \in Seq(Calls) /\ reply.calls # <<>>
      BY <1>0, <2>1 DEF Reply
    <3>2. Len(reply.calls) \in DOMAIN reply.calls
      BY <3>1
    <3> QED BY <3>1, <3>2 DEF CallsOf
  <2>4. reply' \in Reply /\ reply'.calls = reply.calls /\ ~reply'.open
    BY <1>0, <2>1, <2>3 DEF Reply
  <2>5. CallsOf(reply') = CallsOf(reply) /\ \A d : ~Opened(d)'
    BY <2>4 DEF CallsOf, Opened
  <2>6. \A d : Opened(d) <=> d = c
    BY <2>1 DEF Opened
  <2> HIDE DEF c
  <2>7. Typed' /\ Conversation' /\ Slots' /\ ResultsAnswerCalls'
    BY <2>1, <2>4, StreamKeeps
  <2>8. /\ Ordered'
        /\ \A n, d : Sent(n, d)' <=> Sent(n, d) \/ (n = "CALL_END" /\ d = c)
        /\ \A i \in 1 .. Len(wire') : wire'[i][1] \notin Terminal
    <3>1. "CALL_END" \notin Terminal /\ Before("CALL_END") = "CALL_START"
      BY DEF Terminal, Before
    <3>2. /\ ~Sent("CALL_END", c) /\ Sent("CALL_START", c)
          /\ \A i \in 1 .. Len(wire) : wire[i][1] \notin Terminal
      BY <2>1, <2>2, <2>3 DEF Streamed
    <3> QED BY <2>1, <3>1, <3>2, OrderedAppend
  <2>9. Streamed'
    BY <2>1, <2>3, <2>5, <2>6, <2>8 DEF Streamed
  <2> QED BY <2>7, <2>8, <2>9
<1>4. ASSUME NEW reason, StreamStop(reason) PROVE IInv'
  <2>1. /\ pc = "stream" /\ pc' = pc /\ reply' = reply /\ wire' = wire /\ ~reply.open
        /\ UNCHANGED <<history, request, slot, executed>>
    BY <1>4 DEF StreamStop, Streaming
  <2>2. Typed' /\ Conversation' /\ Slots' /\ ResultsAnswerCalls'
    BY <1>0, <2>1, StreamKeeps
  <2>3. Ordered' /\ Streamed'
    BY <2>1, OrderedKept DEF Streamed, Opened, CallsOf
  <2> QED BY <2>2, <2>3
<1>5. CASE StreamEnd
  <2>1. /\ pc = "stream" /\ pc' = "persist" /\ reply' = reply /\ wire' = wire /\ stop' = stop
        /\ UNCHANGED <<history, request, slot, executed>>
    BY <1>5 DEF StreamEnd
  <2>2. Typed' /\ Conversation' /\ Slots' /\ ResultsAnswerCalls'
    BY <1>0, <2>1, StreamKeeps
  <2>3. Ordered' /\ Streamed'
    BY <2>1, OrderedKept DEF Streamed, Opened, CallsOf
  <2> QED BY <2>2, <2>3
<1> QED BY <1>1, <1>2, <1>3, <1>4, <1>5

-----------------------------------------------------------------------------
(* The reply is stored.                                                    *)

LEMMA PersistStep == ASSUME IInv, DropRound \/ StoreReply PROVE IInv'
<1> USE DEF IInv
<1>0. \A c \in Calls : pc \notin Calling => slot[c] = "none" /\ executed[c] = 0
  BY DEF Slots
<1>1. CASE DropRound
  <2>1. /\ pc = "persist" /\ pc' = "finish"
        /\ UNCHANGED <<history, request, reply, stop, slot, executed, wire>>
    BY <1>1 DEF DropRound
  <2>2. Typed' /\ Conversation' /\ ResultsAnswerCalls'
    BY <2>1 DEF Typed, Phases, Conversation, Calling, ResultsAnswerCalls
  <2>3. Slots'
    BY <1>0, <2>1 DEF Slots, Calling
  <2>4. Ordered' /\ Streamed'
    BY <2>1, OrderedKept DEF Streamed, CallsOf, Opened
  <2> QED BY <2>2, <2>3, <2>4
<1>2. CASE StoreReply
  <2>1. /\ pc = "persist" /\ pc' \in {"finish", "tools"}
        /\ history' = Append(history, Assistant(reply.text, Kept(reply)))
        /\ UNCHANGED <<request, reply, slot, executed, wire>>
        /\ pc' = "tools" => stop = "tool_use" /\ stop' = stop
        /\ stop' # "" => stop # ""
    BY <1>2 DEF StoreReply
  <2>2. request = history /\ (stop # "" => ~reply.open) /\ (reply.open => reply.calls # <<>>)
    BY <2>1 DEF Conversation
  <2>3. /\ IsSeq(history') /\ Len(history) \in Nat
        /\ DOMAIN history = 1 .. Len(history) /\ DOMAIN history' = 1 .. Len(history) + 1
        /\ \A i \in 1 .. Len(history) : history'[i] = history[i]
        /\ history'[Len(history) + 1] = Assistant(reply.text, Kept(reply))
    <3>1. IsSeq(history)
      BY DEF Typed
    <3> DEFINE m == Assistant(reply.text, Kept(reply))
    <3>2. history' = Append(history, m)
      BY <2>1
    <3> HIDE DEF IInv, m
    <3>3. /\ IsSeq(history') /\ Len(history) \in Nat
          /\ DOMAIN history = 1 .. Len(history) /\ DOMAIN history' = 1 .. Len(history) + 1
          /\ \A i \in 1 .. Len(history) : history'[i] = history[i]
          /\ history'[Len(history) + 1] = m
      BY <3>1, <3>2, AppendFacts
    <3> QED BY <3>3 DEF m
  <2>4. Typed'
    BY <2>1, <2>3 DEF Typed, Phases
  <2>5. Conversation'
    <3>1. pc' = "tools" => Kept(reply) = reply.calls
      BY <2>1 DEF Kept
    <3> QED BY <2>1, <2>2, <3>1 DEF Conversation, Calling, Assistant
  <2>6. Slots'
    BY <1>0, <2>1 DEF Slots, Calling, CallsOf
  <2>7. ResultsAnswerCalls'
    <3>1. Assistant(reply.text, Kept(reply)).role # "tool"
      BY DEF Assistant
    <3> HIDE DEF IInv
    <3>2. \A i \in DOMAIN history' : history'[i].role = "tool" => i \in 1 .. Len(history)
      BY <2>3, <3>1
    <3>3. ResultsAnswerCalls
      BY DEF IInv
    <3> QED BY <2>3, <3>2, <3>3 DEF ResultsAnswerCalls
  <2>8. Ordered' /\ Streamed'
    <3>1. pc # "idle" /\ pc' # "idle" /\ reply' = reply /\ wire' = wire /\ slot' = slot
      BY <2>1
    <3>2. Ordered /\ Streamed
      OBVIOUS
    <3> HIDE DEF IInv
    <3> QED BY <3>1, <3>2, OrderedKept DEF Streamed, CallsOf, Opened
  <2> QED BY <2>4, <2>5, <2>6, <2>7, <2>8
<1> QED BY <1>1, <1>2

-----------------------------------------------------------------------------
(* The calls are run and answered.                                         *)

(* What every such step leaves alone, and what one answer does to the wire. *)
LEMMA ToolsKeep ==
  ASSUME IInv, pc \in Calling, pc' \in Calling,
         UNCHANGED <<history, request, reply, stop>>,
         slot' \in [Calls -> SlotStates], executed' \in [Calls -> Nat]
  PROVE  Typed' /\ Conversation' /\ ResultsAnswerCalls'
BY DEF IInv, Typed, Phases, Calling, Conversation, ResultsAnswerCalls

LEMMA AnswerKeeps ==
  ASSUME IInv, pc \in Calling, pc' \in Calling, reply' = reply, NEW c \in Calls,
         slot[c] \notin {"ok", "error"}, c \in CallsOf(reply),
         NEW outcome \in {"ok", "error"}, Answer(c, outcome)
  PROVE  /\ slot' = [slot EXCEPT ![c] = outcome]
         /\ slot' \in [Calls -> SlotStates]
         /\ Ordered' /\ Streamed'
<1> USE DEF IInv
<1>1. /\ slot' = [slot EXCEPT ![c] = outcome] /\ wire' = Append(wire, Event("CALL_RESULT", c))
      /\ slot \in [Calls -> SlotStates]
  BY DEF Answer, SendFor, Typed
<1>2. slot' \in [Calls -> SlotStates] /\ \A d \in Calls : slot'[d] = IF d = c THEN outcome ELSE slot[d]
  BY <1>1 DEF SlotStates
<1>3. ~reply.open
  BY DEF Conversation
<1>4. /\ pc # "idle" /\ pc' # "idle"
      /\ \A d : ~Opened(d) /\ ~Opened(d)'
      /\ CallsOf(reply') = CallsOf(reply)
  BY <1>3 DEF Calling, Opened, CallsOf
<1>5. /\ Ordered'
      /\ \A n, d : Sent(n, d)' <=> Sent(n, d) \/ (n = "CALL_RESULT" /\ d = c)
      /\ \A i \in 1 .. Len(wire') : wire'[i][1] \notin Terminal
  <2>1. "CALL_RESULT" \notin Terminal /\ Before("CALL_RESULT") = "CALL_END"
    BY DEF Terminal, Before
  <2>2. ~Sent("CALL_RESULT", c) /\ Sent("CALL_END", c)
        /\ \A i \in 1 .. Len(wire) : wire[i][1] \notin Terminal
    BY <1>4 DEF Streamed
  <2> QED BY <1>1, <2>1, <2>2, OrderedAppend
<1>6. Streamed'
  BY <1>2, <1>4, <1>5 DEF Streamed
<1> QED BY <1>1, <1>2, <1>5, <1>6

(* A step that answers nothing.                                            *)
LEMMA WireKept ==
  ASSUME IInv, pc \in Calling, pc' \in Calling, UNCHANGED <<reply, wire>>,
         \A c \in Calls : slot[c] \in {"ok", "error"} <=> slot'[c] \in {"ok", "error"}
  PROVE  Ordered' /\ Streamed'
<1>1. pc # "idle" /\ pc' # "idle"
  BY DEF Calling
<1> QED BY <1>1, OrderedKept DEF IInv, Streamed, CallsOf, Opened

LEMMA DispatchStep == ASSUME IInv, Dispatch PROVE IInv'
<1> USE DEF IInv
<1> DEFINE c == Pending(reply)[NextCall]
<1>1. /\ pc = "tools" /\ pc' = pc /\ Undispatched /\ pc \in Calling /\ pc' \in Calling
      /\ UNCHANGED <<history, request, reply, stop>>
  BY DEF Dispatch, Calling
<1>2. Pending(reply) = reply.calls /\ NextCall \in DOMAIN reply.calls /\ slot[c] = "none"
  BY <1>1, NextCallIs DEF Conversation
<1>3. c \in Calls /\ c \in CallsOf(reply) /\ CallsOf(reply') = CallsOf(reply)
  BY <1>1, <1>2 DEF Typed, Reply, CallsOf
<1>4. \/ /\ c \in reply.invalid /\ Answer(c, "error") /\ executed' = executed
      \/ /\ c \notin reply.invalid /\ slot' = [slot EXCEPT ![c] = "queued"]
         /\ executed' = executed /\ wire' = wire
      \/ /\ c \notin reply.invalid /\ (\E outcome \in {"ok", "error"} : Answer(c, outcome))
         /\ executed' = [executed EXCEPT ![c] = @ + 1]
  BY DEF Dispatch, Runs
<1> HIDE DEF c
<1>5. /\ slot \in [Calls -> SlotStates] /\ executed \in [Calls -> Nat]
      /\ executed[c] = 0
      /\ \A d \in Calls : /\ slot[d] # "none" => d \in CallsOf(reply)
                          /\ slot[d] \in {"none", "queued"} => executed[d] = 0
                          /\ executed[d] \in {0, 1}
                          /\ slot[d] = "queued" \/ executed[d] = 1 => d \notin reply.invalid
  BY <1>2, <1>3 DEF Typed, Slots
<1>6. CASE c \in reply.invalid /\ Answer(c, "error") /\ executed' = executed
  <2>1. /\ slot' = [slot EXCEPT ![c] = "error"] /\ slot' \in [Calls -> SlotStates]
        /\ Ordered' /\ Streamed'
    BY <1>1, <1>2, <1>3, <1>6, AnswerKeeps
  <2>2. \A d \in Calls : slot'[d] = IF d = c THEN "error" ELSE slot[d]
    BY <1>5, <2>1
  <2>3. Slots'
    BY <1>1, <1>3, <1>5, <1>6, <2>2 DEF Slots
  <2> QED BY <1>1, <1>5, <1>6, <2>1, <2>3, ToolsKeep
<1>7. CASE /\ c \notin reply.invalid /\ slot' = [slot EXCEPT ![c] = "queued"]
           /\ executed' = executed /\ wire' = wire
  <2>1. \A d \in Calls : slot'[d] = IF d = c THEN "queued" ELSE slot[d]
    BY <1>5, <1>7
  <2>2. slot' \in [Calls -> SlotStates]
    BY <1>5, <1>7 DEF SlotStates
  <2>3. Slots'
    BY <1>1, <1>3, <1>5, <1>7, <2>1 DEF Slots
  <2>4. Ordered' /\ Streamed'
    BY <1>1, <1>2, <1>7, <2>1, WireKept
  <2> QED BY <1>1, <1>5, <1>7, <2>2, <2>3, <2>4, ToolsKeep
<1>8. CASE /\ c \notin reply.invalid /\ (\E outcome \in {"ok", "error"} : Answer(c, outcome))
           /\ executed' = [executed EXCEPT ![c] = @ + 1]
  <2>1. PICK outcome \in {"ok", "error"} : Answer(c, outcome)
    BY <1>8
  <2>2. /\ slot' = [slot EXCEPT ![c] = outcome] /\ slot' \in [Calls -> SlotStates]
        /\ Ordered' /\ Streamed'
    BY <1>1, <1>2, <1>3, <2>1, AnswerKeeps
  <2>3. \A d \in Calls : slot'[d] = IF d = c THEN outcome ELSE slot[d]
    BY <1>5, <2>2
  <2>4. /\ executed' \in [Calls -> Nat]
        /\ \A d \in Calls : executed'[d] = IF d = c THEN 1 ELSE executed[d]
    BY <1>3, <1>5, <1>8
  <2>5. Slots'
    BY <1>1, <1>3, <1>5, <1>8, <2>3, <2>4 DEF Slots
  <2> QED BY <1>1, <2>2, <2>4, <2>5, ToolsKeep
<1> QED BY <1>4, <1>6, <1>7, <1>8

LEMMA BarrierStep == ASSUME IInv, ToAgents \/ AgentsDone PROVE IInv'
<1> USE DEF IInv
<1>1. /\ pc \in {"tools", "agents"} /\ pc' \in {"agents", "record"}
      /\ pc \in Calling /\ pc' \in Calling
      /\ UNCHANGED <<history, request, reply, stop, slot, executed, wire>>
  BY DEF ToAgents, AgentsDone, Calling
<1>2. Typed' /\ Conversation' /\ ResultsAnswerCalls' /\ Ordered' /\ Streamed'
  BY <1>1, ToolsKeep, WireKept DEF Typed
<1>3. \A c \in CallsOf(reply) : slot[c] # "none"
  <2>1. CASE ToAgents
    <3>1. Pending(reply) = reply.calls
      BY <1>1 DEF Conversation, Pending
    <3>2. \A i \in DOMAIN reply.calls : slot[reply.calls[i]] # "none"
      BY <2>1, <3>1 DEF ToAgents, Undispatched
    <3> QED BY <3>2 DEF CallsOf
  <2>2. CASE AgentsDone
    BY <2>2 DEF AgentsDone, Slots
  <2> QED BY <2>1, <2>2
<1>4. pc' = "record" => \A c \in Calls : slot[c] \notin {"queued", "running"}
  BY <1>1 DEF ToAgents, AgentsDone, AllAnswered
<1>5. Slots'
  BY <1>1, <1>3, <1>4 DEF Slots, CallsOf
<1> QED BY <1>2, <1>5

LEMMA AgentStep ==
  ASSUME IInv, NEW c \in Calls, AgentStart(c) \/ AgentDone(c)
  PROVE  IInv'
<1> USE DEF IInv
<1>1. /\ pc = "agents" /\ pc' = pc /\ pc \in Calling /\ pc' \in Calling
      /\ UNCHANGED <<history, request, reply, stop>>
      /\ slot[c] \in {"queued", "running"}
  BY DEF AgentStart, AgentDone, Calling
<1>2. c \in CallsOf(reply) /\ CallsOf(reply') = CallsOf(reply)
  BY <1>1 DEF Slots, CallsOf
<1>3. /\ slot \in [Calls -> SlotStates] /\ executed \in [Calls -> Nat]
      /\ \A d \in Calls : /\ slot[d] # "none" => d \in CallsOf(reply)
                          /\ slot[d] \in {"none", "queued"} => executed[d] = 0
                          /\ executed[d] \in {0, 1}
                          /\ slot[d] = "queued" \/ executed[d] = 1 => d \notin reply.invalid
                          /\ d \in CallsOf(reply) => slot[d] # "none"
  BY <1>1 DEF Typed, Slots
<1>4. CASE AgentStart(c)
  <2>1. /\ slot[c] = "queued" /\ slot' = [slot EXCEPT ![c] = "running"]
        /\ executed' = [executed EXCEPT ![c] = @ + 1] /\ wire' = wire
    BY <1>4 DEF AgentStart
  <2>2. \A d \in Calls : slot'[d] = IF d = c THEN "running" ELSE slot[d]
    BY <1>3, <2>1
  <2>3. slot' \in [Calls -> SlotStates]
    BY <1>3, <2>1 DEF SlotStates
  <2>4. /\ executed' \in [Calls -> Nat]
        /\ \A d \in Calls : executed'[d] = IF d = c THEN 1 ELSE executed[d]
    BY <1>3, <2>1
  <2>5. Slots'
    BY <1>1, <1>2, <1>3, <2>1, <2>2, <2>4 DEF Slots
  <2>6. Ordered' /\ Streamed'
    BY <1>1, <2>1, <2>2, WireKept
  <2> QED BY <1>1, <2>3, <2>4, <2>5, <2>6, ToolsKeep
<1>5. CASE AgentDone(c)
  <2>1. executed' = executed /\ \E outcome \in {"ok", "error"} : Answer(c, outcome)
    BY <1>5 DEF AgentDone
  <2>2. PICK outcome \in {"ok", "error"} : Answer(c, outcome)
    BY <2>1
  <2>3. /\ slot' = [slot EXCEPT ![c] = outcome] /\ slot' \in [Calls -> SlotStates]
        /\ Ordered' /\ Streamed'
    BY <1>1, <1>2, <2>2, AnswerKeeps
  <2>4. \A d \in Calls : slot'[d] = IF d = c THEN outcome ELSE slot[d]
    BY <1>3, <2>3
  <2>5. \A d \in Calls : /\ slot'[d] # "none" => d \in CallsOf(reply')
                         /\ slot'[d] \in {"none", "queued"} => executed'[d] = 0
                         /\ executed'[d] \in {0, 1}
                         /\ slot'[d] = "queued" \/ executed'[d] = 1 => d \notin reply'.invalid
                         /\ d \in CallsOf(reply') => slot'[d] # "none"
    BY <1>1, <1>2, <1>3, <2>1, <2>4
  <2>6. CallsOf(reply') \subseteq Calls
    BY <1>1 DEF Typed, Reply, CallsOf
  <2>7. Slots'
    BY <1>1, <2>5, <2>6 DEF Slots
  <2> QED BY <1>1, <1>3, <2>1, <2>3, <2>7, ToolsKeep
<1> QED BY <1>4, <1>5

-----------------------------------------------------------------------------
(* The results are stored, in the order of the calls.                      *)

LEMMA ResultsAre ==
  ASSUME IInv, pc = "record"
  PROVE  Results = reply.calls
<1>1. ~reply.open /\ Pending(reply) = reply.calls
  BY DEF IInv, Conversation, Calling, Pending
<1>2. reply.calls \in Seq(Calls) /\ slot \in [Calls -> SlotStates]
  BY DEF IInv, Typed, Reply
<1>3. \A i \in DOMAIN reply.calls : reply.calls[i] \in Calls /\ reply.calls[i] \in CallsOf(reply)
  BY <1>2 DEF CallsOf
<1>4. \A i \in DOMAIN reply.calls : slot[reply.calls[i]] \in {"ok", "error"}
  BY <1>2, <1>3 DEF IInv, Slots, SlotStates
<1>5. Results = [i \in DOMAIN reply.calls |-> reply.calls[i]]
  BY <1>1, <1>4 DEF Results
<1> QED BY <1>2, <1>5

LEMMA RecordStep == ASSUME IInv, StoreResults PROVE IInv'
<1> USE DEF IInv
<1>1. /\ pc = "record" /\ pc' = "stream" /\ wire' = <<>> /\ pc \in Calling
      /\ history' = Append(history, ToolMessage(Results))
      /\ request' = request \o <<Assistant(reply.text, Kept(reply)), ToolMessage(Results)>>
  BY DEF StoreResults, Extended, Calling
<1>2. stop = "tool_use" /\ history = Append(request, Assistant(reply.text, reply.calls))
  BY <1>1 DEF Conversation
<1>3. Kept(reply) = reply.calls /\ Results = reply.calls
  BY <1>1, <1>2, ResultsAre DEF Kept
<1>4. IsSeq(request) /\ IsSeq(history)
  BY DEF Typed
<1>5. request' = history'
  BY <1>1, <1>2, <1>3, <1>4, ConcatTwo
<1>6. /\ reply' = EmptyReply /\ reply' \in Reply /\ CallsOf(reply') = {} /\ ~reply'.open
      /\ stop' = ""
      /\ slot' \in [Calls -> SlotStates] /\ executed' \in [Calls -> Nat]
      /\ \A c \in Calls : slot'[c] = "none" /\ executed'[c] = 0
  BY ForgetRoundFacts DEF StoreResults
<1>7. /\ IsSeq(history') /\ Len(history) \in Nat
      /\ DOMAIN history = 1 .. Len(history) /\ DOMAIN history' = 1 .. Len(history) + 1
      /\ \A i \in 1 .. Len(history) : history'[i] = history[i]
      /\ history'[Len(history) + 1] = ToolMessage(Results)
  BY <1>1, <1>4, AppendFacts
<1>8. Typed'
  BY <1>1, <1>5, <1>6, <1>7 DEF Typed, Phases
<1>9. Conversation' /\ Slots'
  <2>1. pc' \notin Calling /\ pc' \notin {"idle", "load", "user"}
    BY <1>1 DEF Calling
  <2>2. Slots'
    BY <1>6, <2>1, NoSlots
  <2>3. Conversation'
    BY <1>1, <1>5, <1>6, <2>1 DEF Conversation, Calling
  <2> QED BY <2>2, <2>3
<1>10. ResultsAnswerCalls'
  <2>1. /\ Len(history) = Len(request) + 1 /\ Len(request) \in Nat
        /\ history[Len(history)] = Assistant(reply.text, reply.calls)
    BY <1>2, <1>4, AppendFacts
  <2>2. /\ history'[Len(history)].role = "assistant"
        /\ history'[Len(history)].calls = reply.calls
        /\ history'[Len(history) + 1].calls = reply.calls
    BY <1>3, <1>7, <2>1 DEF Assistant, ToolMessage
  <2>3. ResultsAnswerCalls
    OBVIOUS
  <2> HIDE DEF IInv
  <2> SUFFICES ASSUME NEW i \in DOMAIN history', history'[i].role = "tool"
               PROVE  /\ i > 1 /\ history'[i - 1].role = "assistant"
                      /\ history'[i].calls = history'[i - 1].calls
    BY DEF ResultsAnswerCalls
  <2>4. CASE i = Len(history) + 1
    BY <2>1, <2>2, <2>4
  <2>5. CASE i \in 1 .. Len(history)
    <3>1. i \in DOMAIN history /\ history[i].role = "tool"
      BY <1>7, <2>5
    <3>2. i > 1 /\ history[i - 1].role = "assistant" /\ history[i].calls = history[i - 1].calls
      BY <2>3, <3>1 DEF ResultsAnswerCalls
    <3>3. i - 1 \in 1 .. Len(history)
      BY <1>7, <2>5, <3>2
    <3> QED BY <1>7, <2>5, <3>2, <3>3
  <2> QED BY <1>7, <2>4, <2>5
<1>11. Ordered' /\ Streamed'
  <2>1. Ordered' /\ (\A n, d : ~Sent(n, d)') /\ \A i \in 1 .. Len(wire') : wire'[i][1] \notin Terminal
    BY <1>1, OrderedEmpty
  <2> QED BY <1>6, <2>1 DEF Streamed
<1> QED BY <1>8, <1>9, <1>10, <1>11

LEMMA CancelStep == ASSUME IInv, Cancel \/ UNCHANGED vars PROVE IInv'
<1>1. UNCHANGED <<history, pc, request, reply, stop, slot, executed, wire>>
  BY DEF Cancel, vars
<1>2. Ordered' /\ \A n, d : Sent(n, d)' <=> Sent(n, d)
  BY <1>1, OrderedKept DEF IInv
<1>3. CallsOf(reply') = CallsOf(reply) /\ \A c : Opened(c)' <=> Opened(c)
  BY <1>1 DEF CallsOf, Opened
<1>4. Typed' /\ Conversation' /\ Slots' /\ ResultsAnswerCalls'
  BY <1>1, <1>3 DEF IInv, Typed, Conversation, Slots, ResultsAnswerCalls
<1>5. Streamed'
  BY <1>1, <1>2, <1>3 DEF IInv, Streamed
<1> QED BY <1>2, <1>4, <1>5 DEF IInv

LEMMA IInvStep == IInv /\ [Next]_vars => IInv'
<1> SUFFICES ASSUME IInv, [Next]_vars PROVE IInv'
  OBVIOUS
<1>1. ASSUME TurnStep PROVE IInv'
  BY <1>1, EndStep, StartStep, StreamStep, PersistStep, DispatchStep, BarrierStep, AgentStep,
     RecordStep DEF TurnStep
<1> QED BY <1>1, StartStep, EndStep, CancelStep DEF Next

LEMMA AlwaysIInv == Spec => []IInv
  BY IInvInit, IInvStep, PTL DEF Spec

-----------------------------------------------------------------------------
(* While a round streams, the conversation sent to the model is exactly    *)
(* what is stored, however many rounds, failures, cancellations and crashes *)
(* came before: Turn extends req.Messages and the rows by different code.  *)
THEOREM SentIsStored == Spec => []RequestIsHistory
<1>1. IInv => RequestIsHistory
  BY DEF IInv, Conversation, RequestIsHistory
<1> QED BY <1>1, AlwaysIInv, PTL

(* A stored tool message follows the reply whose calls it answers, and     *)
(* answers each of them in tool_use order, in whatever order the goroutines *)
(* of runAgentCalls finished.                                              *)
THEOREM EveryCallIsAnswered == Spec => []ResultsAnswerCalls
<1>1. IInv => ResultsAnswerCalls
  BY DEF IInv
<1> QED BY <1>1, AlwaysIInv, PTL

(* A tool or a child turn runs at most once for a call, only for a call of *)
(* the reply that was stored before, and only if its input is usable.      *)
THEOREM RunsOnce == Spec => []ExecutesOnce
<1>1. IInv => ExecutesOnce
  <2> SUFFICES ASSUME IInv, NEW c \in Calls, executed[c] > 0
               PROVE  /\ executed[c] = 1
                      /\ c \notin reply.invalid
                      /\ history[Len(history)].role = "assistant"
                      /\ c \in CallsOf(history[Len(history)])
    BY DEF ExecutesOnce
  <2> USE DEF IInv
  <2>1. executed[c] = 1 /\ c \notin reply.invalid
    BY DEF Slots
  <2>2. slot[c] \notin {"none", "queued"} /\ c \in CallsOf(reply) /\ pc \in Calling
    BY <2>1 DEF Slots
  <2>3. history = Append(request, Assistant(reply.text, reply.calls)) /\ IsSeq(request)
    BY <2>2 DEF Conversation, Typed
  <2>4. history[Len(history)] = Assistant(reply.text, reply.calls)
    BY <2>3, AppendFacts
  <2>5. /\ Assistant(reply.text, reply.calls).role = "assistant"
        /\ CallsOf(Assistant(reply.text, reply.calls)) = CallsOf(reply)
    BY DEF Assistant, CallsOf
  <2> QED BY <2>1, <2>2, <2>4, <2>5
<1> QED BY <1>1, AlwaysIInv, PTL

(* Events of one name for one call: at most one.                           *)
LEMMA CountIs ==
  ASSUME Ordered, NEW name \in PerCall, NEW c, NEW n \in 0 .. Len(wire)
  PROVE  /\ (\E i \in 1 .. n : wire[i] = Event(name, c)) => Count(name, c, n) = 1
         /\ ~(\E i \in 1 .. n : wire[i] = Event(name, c)) => Count(name, c, n) = 0
<1> DEFINE T == {i \in 1 .. n : wire[i] = Event(name, c)}
<1>1. Len(wire) \in Nat
  BY AppendFacts DEF Ordered
<1>2. ASSUME NEW i \in T PROVE T = {i}
  <2>1. Event(name, c)[1] \in PerCall /\ T \subseteq 1 .. Len(wire)
    BY <1>1 DEF Event
  <2> QED BY <1>2, <2>1 DEF Ordered
<1>3. ASSUME NEW i \in T PROVE Cardinality(T) = 1
  BY <1>2, <1>3, FS_Singleton
<1>4. T = {} => Cardinality(T) = 0
  BY FS_EmptySet
<1> QED BY <1>3, <1>4 DEF Count

(* The client sees a result only for a call that started and ended, at     *)
(* most one for each call, and one terminal event, the last.               *)
THEOREM StreamInOrder == Spec => []WireWellFormed
<1>1. IInv => WireWellFormed
  <2> SUFFICES ASSUME IInv PROVE WireWellFormed
    OBVIOUS
  <2> USE DEF IInv
  <2>1. Len(wire) \in Nat
    BY AppendFacts DEF Ordered
  <2>2. ASSUME NEW n \in 0 .. Len(wire), NEW c \in Calls, NEW name \in {"CALL_END", "CALL_RESULT"}
        PROVE  Count(name, c, n) <= Count(Before(name), c, n)
    <3>1. name \in PerCall /\ Before(name) \in PerCall
      BY DEF PerCall, Before
    <3>2. CASE \E j \in 1 .. n : wire[j] = Event(name, c)
      <4>1. PICK j \in 1 .. n : wire[j] = Event(name, c)
        BY <3>2
      <4>2. j \in 1 .. Len(wire)
        BY <2>1
      <4>3. PICK i \in 1 .. j - 1 : wire[i] = Event(Before(name), c)
        BY <4>1, <4>2 DEF Ordered
      <4>4. i \in 1 .. n
        BY <2>1
      <4>5. Count(name, c, n) = 1 /\ Count(Before(name), c, n) = 1
        BY <3>1, <4>1, <4>3, <4>4, CountIs
      <4> QED BY <4>5
    <3>3. CASE ~(\E j \in 1 .. n : wire[j] = Event(name, c))
      <4>1. Count(name, c, n) = 0
        BY <3>1, <3>3, CountIs
      <4>2. Count(Before(name), c, n) \in {0, 1}
        BY <3>1, CountIs
      <4> QED BY <4>1, <4>2
    <3> QED BY <3>2, <3>3
  <2>3. Before("CALL_RESULT") = "CALL_END" /\ Before("CALL_END") = "CALL_START"
    BY DEF Before
  <2>4. \A n \in 0 .. Len(wire) : \A c \in Calls :
           /\ Count("CALL_RESULT", c, n) <= Count("CALL_END", c, n)
           /\ Count("CALL_END", c, n) <= Count("CALL_START", c, n)
    BY <2>2, <2>3
  <2>5. \A i \in 1 .. Len(wire) : wire[i][1] \in Terminal => i = Len(wire)
    BY DEF Ordered
  <2> QED BY <2>4, <2>5 DEF WireWellFormed
<1> QED BY <1>1, AlwaysIInv, PTL

==============================================================================
