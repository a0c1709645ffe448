---------------------------- MODULE SubAgentsProofs ----------------------------
(***************************************************************************)
(* Theorems about SubAgents, for every set of calls, depth of the tree,    *)
(* width of the semaphores, round cap and number of calls.                 *)
(***************************************************************************)
EXTENDS SubAgents, FiniteSetTheorems, SequenceTheorems, WellFoundedInduction, TLAPS

-----------------------------------------------------------------------------
(* The invariant.                                                          *)

Pcs == {"none", "model", "calls", "over"}
Ends == {"", "stop", "max_tool_rounds", "error", "panic"}
CallStates == {"none", "queued", "gaveup", "running", "result", "answered", "stored"}
Results == [state : {"none", "ok", "error"}, text : Nat]
Cards == {"none", "running", "done", "error"}

Typed ==
    /\ pc \in [Sessions -> Pcs]
    /\ end \in [Sessions -> Ends]
    /\ round \in [Sessions -> Nat]
    /\ said \in [Sessions -> Nat]
    /\ call \in [AgentCalls -> CallStates]
    /\ result \in [AgentCalls -> Results]
    /\ cancelled \in BOOLEAN
    /\ card \in [Children -> Cards]

(* A turn that can still stream a reply has not reached the cap.           *)
Rounds ==
    \A s \in Sessions :
        /\ said[s] <= round[s]
        /\ round[s] <= MaxToolRounds + 1
        /\ pc[s] \in {"none", "model", "calls"} => round[s] <= MaxToolRounds

(* A turn waits for the calls of its last reply; a child turn lives while  *)
(* its call runs.                                                          *)
Settled == {"none", "answered", "stored"}
Tree ==
    /\ pc[Root] # "none"
    /\ \A k \in AgentCalls : pc[Parent(k)] # "calls" => call[k] \in Settled
    /\ \A k \in AgentCalls : pc[Parent(k)] = "none" => call[k] = "none"
    /\ \A k \in Children :
         /\ pc[k] \in {"model", "calls"} => call[k] = "running"
         /\ pc[k] = "over" => call[k] \in {"running", "result", "answered", "stored"}
         /\ call[k] = "running" => pc[k] # "none"

(* A card is there from the step that announced its child on.              *)
Dealt ==
    ~cancelled =>
        \A k \in Children :
            /\ pc[k] # "none" <=> card[k] # "none"
            /\ card[k] = "running" <=> call[k] = "running"
            /\ card[k] \in {"done", "error"} => card[k] = StateOf(result[k])

(* Every call of a stored reply is on the page, under the id its step      *)
(* will name, and every element stands where it belongs.                   *)
Announced == ~cancelled => \A k \in AgentCalls : call[k] # "none" => Shown(WireID(Parent(k), Last(k)))
FitsCall(e) == e.what \in {"call", "result"} /\ Named(e.by, e.id) /\ e.in = Body(e.by)
FitsCard(e) == e.what = "card" /\ Named(Parent(e.by), e.in) /\ Last(e.in) = Last(e.by) /\ Shown(e.in)
FitsEnd(e) == e.what = "end" /\ e.by = Root
AllFit == \A e \in page : FitsCall(e) \/ FitsCard(e) \/ FitsEnd(e)

IInv == Typed /\ Rounds /\ Tree /\ Dealt /\ Announced /\ AllFit

-----------------------------------------------------------------------------
(* Names of sessions and calls: the paths from the root.                   *)

Names == Calls \cup {"root"}

LEMMA RootIs == Root \in Seq(Names) /\ Len(Root) = 1 /\ Root[1] = "root"
  BY DEF Root, Names

LEMMA BelowIs ==
  ASSUME NEW n \in Nat, NEW s
  PROVE  (s \in Below(n)) <=> /\ s \in Seq(Names) /\ Len(s) = n + 1
                              /\ s[1] = "root"
                              /\ \A i \in 2 .. n + 1 : s[i] \in Calls
<1>1. ASSUME NEW path \in [1 .. n -> Calls]
      PROVE  /\ path \in Seq(Names) /\ Len(path) = n
             /\ Root \o path \in Seq(Names)
             /\ Len(Root \o path) = n + 1
             /\ (Root \o path)[1] = "root"
             /\ \A i \in 2 .. n + 1 : (Root \o path)[i] = path[i - 1]
  <2>1. path \in [1 .. n -> Names]
    BY DEF Names
  <2>2. path \in Seq(Names) /\ Len(path) = n
    BY <2>1, IsASeq, LenProperties
  <2> QED BY <2>2, RootIs, ConcatProperties
<1>2. ASSUME s \in Below(n)
      PROVE  /\ s \in Seq(Names) /\ Len(s) = n + 1
             /\ s[1] = "root"
             /\ \A i \in 2 .. n + 1 : s[i] \in Calls
  <2>1. PICK path \in [1 .. n -> Calls] : s = Root \o path
    BY <1>2 DEF Below
  <2>2. \A i \in 2 .. n + 1 : path[i - 1] \in Calls
    OBVIOUS
  <2> QED BY <1>1, <2>1, <2>2
<1>3. ASSUME s \in Seq(Names), Len(s) = n + 1, s[1] = "root",
             \A i \in 2 .. n + 1 : s[i] \in Calls
      PROVE  s \in Below(n)
  <2> DEFINE path == [i \in 1 .. n |-> s[i + 1]]
  <2>1. path \in [1 .. n -> Calls]
    BY <1>3
  <2>2. \A i \in 2 .. n + 1 : path[i - 1] = s[i]
    OBVIOUS
  <2> HIDE DEF path
  <2>3. /\ Root \o path \in Seq(Names) /\ Len(Root \o path) = n + 1
        /\ (Root \o path)[1] = "root"
        /\ \A i \in 2 .. n + 1 : (Root \o path)[i] = path[i - 1]
    BY <1>1, <2>1
  <2>4. \A i \in 1 .. n + 1 : i = 1 \/ i \in 2 .. n + 1
    OBVIOUS
  <2>5. \A i \in 1 .. n + 1 : (Root \o path)[i] = s[i]
    BY <1>3, <2>2, <2>3, <2>4
  <2>6. Root \o path = s
    BY <1>3, <2>3, <2>5, SeqEqual
  <2> QED BY <2>1, <2>6 DEF Below
<1> QED BY <1>2, <1>3

LEMMA PathIs ==
  ASSUME NEW s
  PROVE  /\ (s \in Sessions) <=> /\ s \in Seq(Names) /\ Len(s) >= 1 /\ Len(s) <= MaxDepth + 1
                                 /\ s[1] = "root"
                                 /\ \A i \in 2 .. Len(s) : s[i] \in Calls
         /\ (s \in AgentCalls) <=> /\ s \in Seq(Names) /\ Len(s) >= 2 /\ Len(s) <= MaxDepth + 2
                                   /\ s[1] = "root"
                                   /\ \A i \in 2 .. Len(s) : s[i] \in Calls
<1> USE SubAgentsAssumption
<1> DEFINE P(n) == s \in Seq(Names) /\ Len(s) = n + 1 /\ s[1] = "root"
                   /\ \A i \in 2 .. n + 1 : s[i] \in Calls
           Path == s \in Seq(Names) /\ s[1] = "root" /\ \A i \in 2 .. Len(s) : s[i] \in Calls
<1>1. \A n \in Nat : (s \in Below(n)) <=> P(n)
  BY BelowIs
<1>2. \A n \in Nat : P(n) <=> Path /\ Len(s) = n + 1
  OBVIOUS
<1>0. \A n \in Nat : (s \in Below(n)) <=> Path /\ Len(s) = n + 1
  BY <1>1, <1>2
<1>3. Path => Len(s) \in Nat
  OBVIOUS
<1> HIDE DEF P, Path
<1>4. (s \in Sessions) <=> \E n \in 0 .. MaxDepth : s \in Below(n)
  BY DEF Sessions
<1>5. (s \in AgentCalls) <=> \E n \in 1 .. MaxDepth + 1 : s \in Below(n)
  BY DEF AgentCalls
<1>6. (s \in Sessions) <=> Path /\ Len(s) >= 1 /\ Len(s) <= MaxDepth + 1
  <2>1. (s \in Sessions) <=> \E n \in 0 .. MaxDepth : Path /\ Len(s) = n + 1
    <3>1. \A n \in 0 .. MaxDepth : n \in Nat
      OBVIOUS
    <3> QED BY <1>0, <1>4, <3>1
  <2>2. ASSUME Path, Len(s) >= 1, Len(s) <= MaxDepth + 1 PROVE \E n \in 0 .. MaxDepth : Len(s) = n + 1
    <3>1. Len(s) - 1 \in 0 .. MaxDepth /\ Len(s) = (Len(s) - 1) + 1
      BY <1>3, <2>2
    <3> QED BY <3>1
  <2> QED BY <1>3, <2>1, <2>2
<1>7. (s \in AgentCalls) <=> Path /\ Len(s) >= 2 /\ Len(s) <= MaxDepth + 2
  <2>1. (s \in AgentCalls) <=> \E n \in 1 .. MaxDepth + 1 : Path /\ Len(s) = n + 1
    <3>1. \A n \in 1 .. MaxDepth + 1 : n \in Nat
      OBVIOUS
    <3> QED BY <1>0, <1>5, <3>1
  <2>2. ASSUME Path, Len(s) >= 2, Len(s) <= MaxDepth + 2 PROVE \E n \in 1 .. MaxDepth + 1 : Len(s) = n + 1
    <3>1. Len(s) - 1 \in 1 .. MaxDepth + 1 /\ Len(s) = (Len(s) - 1) + 1
      BY <1>3, <2>2
    <3> QED BY <3>1
  <2> QED BY <1>3, <2>1, <2>2
<1> QED BY <1>6, <1>7 DEF Path

LEMMA RootFacts == Root \in Sessions /\ (\A k \in AgentCalls : k # Root) /\ Untagged # Root
<1>1. Root \in Sessions
  <2>1. Len(Root) >= 1 /\ Len(Root) <= MaxDepth + 1
    BY RootIs, SubAgentsAssumption
  <2>2. \A i \in 2 .. Len(Root) : Root[i] \in Calls
    BY RootIs
  <2> QED BY <2>1, <2>2, RootIs, PathIs
<1>2. \A k \in AgentCalls : k # Root
  BY RootIs, PathIs
<1>3. Untagged # Root
  BY RootIs DEF Untagged
<1> QED BY <1>1, <1>2, <1>3

LEMMA ChildFacts ==
  ASSUME NEW k \in Children
  PROVE  k \in AgentCalls /\ k \in Sessions /\ Len(k) > 1 /\ Depth(k) > 0 /\ k # Untagged
<1>1. k \in Sessions /\ k # Root
  BY DEF Children
<1>2. /\ k \in Seq(Names) /\ Len(k) >= 1 /\ Len(k) <= MaxDepth + 1
      /\ k[1] = "root" /\ \A i \in 2 .. Len(k) : k[i] \in Calls
  BY <1>1, PathIs
<1>3. Len(k) # 1
  <2> SUFFICES ASSUME Len(k) = 1 PROVE FALSE
    OBVIOUS
  <2>1. k = Root
    BY <1>2, RootIs, SeqEqual
  <2> QED BY <1>1, <2>1
<1>4. Len(k) \in Nat /\ Len(k) >= 2 /\ Len(k) <= MaxDepth + 2
  <2>1. Len(k) \in Nat /\ Len(k) >= 1 /\ Len(k) <= MaxDepth + 1
    BY <1>2
  <2>2. MaxDepth \in Nat
    BY SubAgentsAssumption
  <2>3. \A n, m \in Nat : n >= 1 /\ n <= m + 1 /\ n # 1 => n >= 2 /\ n <= m + 2
    OBVIOUS
  <2> QED BY <1>3, <2>1, <2>2, <2>3
<1>5. k \in AgentCalls
  BY <1>2, <1>4, PathIs
<1> QED BY <1>1, <1>4, <1>5 DEF Depth, Untagged

LEMMA CallFacts ==
  ASSUME NEW k \in AgentCalls
  PROVE  /\ k \in Seq(Names) /\ Len(k) \in Nat /\ Len(k) >= 2
         /\ Parent(k) \in Seq(Names) /\ Len(Parent(k)) = Len(k) - 1
         /\ Parent(k) \in Sessions
         /\ Parent(k) # Root => Parent(k) \in Children
         /\ Parent(k) # k
         /\ Depth(Parent(k)) < MaxDepth => k \in Children
         /\ Last(k) \in Calls
<1> USE SubAgentsAssumption
<1>1. /\ k \in Seq(Names) /\ Len(k) >= 2 /\ Len(k) <= MaxDepth + 2
      /\ k[1] = "root" /\ \A i \in 2 .. Len(k) : k[i] \in Calls
  BY PathIs
<1>2. /\ Parent(k) \in Seq(Names) /\ Len(Parent(k)) = Len(k) - 1
      /\ \A i \in 1 .. Len(k) - 1 : Parent(k)[i] = k[i]
  BY <1>1, SubSeqProperties DEF Parent, Front
<1>3. Parent(k) \in Sessions
  <2>1. Parent(k)[1] = "root" /\ \A i \in 2 .. Len(Parent(k)) : Parent(k)[i] \in Calls
    BY <1>1, <1>2
  <2> QED BY <1>1, <1>2, <2>1, PathIs
<1>4. Depth(Parent(k)) < MaxDepth => k \in Children
  <2> SUFFICES ASSUME Depth(Parent(k)) < MaxDepth PROVE k \in Children
    OBVIOUS
  <2>1. Len(k) <= MaxDepth + 1 /\ Len(k) >= 1
    BY <1>1, <1>2 DEF Depth
  <2>2. k \in Sessions
    BY <1>1, <2>1, PathIs
  <2> QED BY <2>2, RootFacts DEF Children
<1>5. Last(k) \in Calls
  BY <1>1 DEF Last
<1>6. Len(k) \in Nat /\ Parent(k) # k
  BY <1>1, <1>2
<1> QED BY <1>1, <1>2, <1>3, <1>4, <1>5, <1>6 DEF Children

-----------------------------------------------------------------------------
(* The sinks.  An event of a child is tagged on its first sink, and not    *)
(* again on the ones above; the root has none.                             *)

(* The least element of a set of numbers.                                  *)
LEMMA LeastNat ==
  ASSUME NEW T \in SUBSET Nat, T # {}
  PROVE  \E n \in T : \A m \in T : n <= m
<1> DEFINE R == OpToRel(<, Nat)
<1>1. IsWellFoundedOn(R, Nat)
  BY NatLessThanWellFounded, Zenon
<1> HIDE DEF R
<1>2. PICK n \in T : \A m \in T : <<m, n>> \notin R
  BY <1>1, WFMin
<1>3. \A m \in T : ~(m < n)
  BY <1>2, Zenon DEF R, OpToRel
<1> QED BY <1>3

LEMMA TagIs ==
  ASSUME NEW s \in Sessions, NEW type, NEW k
  PROVE  Through(s, Event(type, s, k, Untagged)) =
           Event(type, s, k, IF s = Root THEN Untagged ELSE s)
<1> DEFINE e == Event(type, s, k, Untagged)
           t == Event(type, s, k, s)
           N == Len(s)
           Eq(f) == f = [n \in 1 .. N |->
                           IF n = N THEN e ELSE Tagged(f[n + 1], SubSeq(s, 1, n + 1))]
           from == CHOOSE f : Eq(f)
<1>1. s \in Seq(Names) /\ N \in Nat /\ N >= 1 /\ s # Untagged
  <2>1. s \in Seq(Names) /\ Len(s) >= 1
    BY PathIs
  <2> QED BY <2>1 DEF Untagged
<1>2. (s = Root) <=> (N = 1)
  <2>1. s = Root => Len(s) = 1
    BY RootIs
  <2>2. s # Root => s \in Children
    BY DEF Children
  <2>3. s # Root => Len(s) > 1
    BY <2>2, ChildFacts
  <2>4. \A n \in Nat : n > 1 => n # 1
    OBVIOUS
  <2> QED BY <1>1, <2>1, <2>3, <2>4
<1>3. SubSeq(s, 1, N) = s
  BY <1>1, SubSeqFull
<1>4. /\ \A n : Tagged(t, n) = t
      /\ Tagged(e, s) = t
  BY <1>1 DEF Tagged, Event, Untagged
<1>5. Through(s, e) = from[1]
  BY DEF Through
<1> HIDE DEF e, t, N
<1>6. \E f : Eq(f)
  <2> DEFINE f == [n \in 1 .. N |-> IF n = N THEN e ELSE t]
  <2>1. ASSUME NEW n \in 1 .. N, n # N PROVE f[n] = Tagged(f[n + 1], SubSeq(s, 1, n + 1))
    <3>1. n + 1 \in 1 .. N /\ f[n] = t
      BY <1>1, <2>1
    <3>2. CASE n + 1 = N
      BY <1>3, <1>4, <3>1, <3>2
    <3>3. CASE n + 1 # N
      BY <1>4, <3>1, <3>3
    <3> QED BY <3>2, <3>3
  <2>2. f[N] = e
    BY <1>1
  <2>3. \A n \in 1 .. N : f[n] = IF n = N THEN e ELSE Tagged(f[n + 1], SubSeq(s, 1, n + 1))
    BY <2>1, <2>2
  <2>4. f = [n \in 1 .. N |-> f[n]]
    OBVIOUS
  <2> HIDE DEF f
  <2>5. f = [n \in 1 .. N |->
               IF n = N THEN e ELSE Tagged(f[n + 1], SubSeq(s, 1, n + 1))]
    BY <2>3, <2>4
  <2> QED BY <2>5
<1>7. Eq(from)
  BY <1>6
<1> HIDE DEF from
<1>8. \A n \in 1 .. N : from[n] = IF n = N THEN e ELSE Tagged(from[n + 1], SubSeq(s, 1, n + 1))
  BY <1>7
<1> HIDE DEF Eq
<1>9. \A n \in 1 .. N : n # N => from[n] = t
  <2> DEFINE T == {d \in 1 .. N - 1 : from[N - d] # t}
  <2> SUFFICES T = {}
    <3>1. ASSUME NEW n \in 1 .. N, n # N, from[n] # t PROVE N - n \in T
      <4>1. N - n \in 1 .. N - 1 /\ N - (N - n) = n
        BY <1>1, <3>1
      <4> QED BY <3>1, <4>1
    <3> QED BY <3>1
  <2> SUFFICES ASSUME T # {} PROVE FALSE
    OBVIOUS
  <2>1. T \in SUBSET Nat
    OBVIOUS
  <2>2. PICK d \in T : \A m \in T : d <= m
    BY <2>1, LeastNat
  <2>3. d \in 1 .. N - 1 /\ from[N - d] # t
    OBVIOUS
  <2>4. N - d \in 1 .. N /\ N - d # N /\ (N - d) + 1 = N - (d - 1)
    BY <1>1, <2>3
  <2>5. from[N - d] = Tagged(from[N - (d - 1)], SubSeq(s, 1, N - (d - 1)))
    BY <1>8, <2>4
  <2>6. CASE d = 1
    <3>1. N - (d - 1) = N /\ from[N] = e
      BY <1>1, <1>8, <2>6
    <3> QED BY <1>3, <1>4, <2>3, <2>5, <3>1
  <2>7. CASE d # 1
    <3>1. d - 1 \in 1 .. N - 1 /\ ~(d <= d - 1)
      BY <1>1, <2>3, <2>7
    <3>2. d - 1 \notin T
      BY <2>2, <3>1
    <3>3. from[N - (d - 1)] = t
      BY <3>1, <3>2
    <3> QED BY <1>4, <2>3, <2>5, <3>3
  <2> QED BY <2>6, <2>7
<1>10. CASE N = 1
  BY <1>2, <1>5, <1>8, <1>10 DEF e
<1>11. CASE N # 1
  BY <1>1, <1>2, <1>5, <1>9, <1>11 DEF e, t
<1> QED BY <1>10, <1>11

(* Where an event of a session ends up while the page is there.            *)
Tag(s) == IF s = Root THEN Untagged ELSE s

LEMMA ElementIs ==
  ASSUME NEW s \in Sessions, NEW type, NEW k,
         s # Root => card[s] # "none"
  PROVE  Element(Through(s, Event(type, s, k, Untagged))) =
           [what |-> type, by |-> s, id |-> Append(Tag(s), Last(k)), in |-> Body(s)]
<1>1. Through(s, Event(type, s, k, Untagged)) = Event(type, s, k, Tag(s))
  BY TagIs DEF Tag
<1>2. ChildContainer(Tag(s)) = Body(s)
  <2>1. s # Root => s # Untagged
    BY ChildFacts DEF Children
  <2> QED BY <2>1 DEF ChildContainer, Tag, Body, Bubble
<1>3. /\ Event(type, s, k, Tag(s)).type = type /\ Event(type, s, k, Tag(s)).by = s
      /\ Event(type, s, k, Tag(s)).id = k /\ Event(type, s, k, Tag(s)).tag = Tag(s)
  BY DEF Event
<1> QED BY <1>1, <1>2, <1>3 DEF Element, ChildToolCallID

(* The id a step names is the id its call was shown under.                 *)
LEMMA IdIs ==
  ASSUME NEW s \in Sessions, NEW c \in Calls
  PROVE  /\ WireID(s, c) = Append(Tag(s), c)
         /\ Named(s, Append(Tag(s), c))
         /\ Last(Append(Tag(s), c)) = c
<1>1. s \in Seq(Names) /\ c \in Names /\ <<>> \in Seq(Names)
  BY PathIs, EmptySeq DEF Names
<1>2. CASE s = Root
  <2>1. Append(<<>>, c) = <<c>> /\ Len(<<c>>) = 1 /\ <<c>>[1] = c
    OBVIOUS
  <2>2. ~(Depth(s) > 0)
    BY <1>2, RootIs DEF Depth
  <2> QED BY <1>2, <2>1, <2>2 DEF WireID, Tag, Untagged, Named, Last
<1>3. CASE s # Root
  <2>1. Depth(s) > 0 /\ Len(s) > 1 /\ Len(s) \in Nat
    BY <1>1, <1>3, ChildFacts DEF Children
  <2> DEFINE id == Append(s, c)
  <2>2. /\ id \in Seq(Names) /\ Len(id) = Len(s) + 1
        /\ \A i \in 1 .. Len(s) : id[i] = s[i]
        /\ id[Len(s) + 1] = c
    BY <1>1, AppendProperties
  <2> HIDE DEF id
  <2>3. Front(id) = s
    <3>1. \A i \in 1 .. Len(s) : id[i] \in Names
      BY <1>1, <2>2
    <3>2. /\ Front(id) \in Seq(Names) /\ Len(Front(id)) = Len(s)
          /\ \A i \in 1 .. Len(s) : Front(id)[i] = id[i]
      BY <2>1, <2>2, <3>1, SubSeqProperties DEF Front
    <3> QED BY <1>1, <2>2, <3>2, SeqEqual
  <2>4. Last(id) = c /\ Len(id) > 1
    BY <2>1, <2>2 DEF Last
  <2> QED BY <1>3, <2>1, <2>3, <2>4 DEF id, WireID, ChildToolCallID, Tag, Named
<1> QED BY <1>2, <1>3

-----------------------------------------------------------------------------
(* The page.  Elements are added to it, or it is gone.                     *)

LEMMA PageGrows ==
  ASSUME AllFit, NEW E, Show(E),
         ~cancelled => \A e \in E : FitsCall(e) \/ FitsCard(e) \/ FitsEnd(e)
  PROVE  /\ AllFit'
         /\ \A id : Shown(id) => Shown(id)'
         /\ ~cancelled => E \subseteq page'
<1>1. page' = page \/ (~cancelled /\ page' = page \union E)
  BY DEF Show
<1>2. \A e \in page : e \in page'
  BY <1>1
<1>3. ASSUME NEW id, Shown(id) PROVE Shown(id)'
  BY <1>2, <1>3 DEF Shown
<1>4. ASSUME NEW e \in page' PROVE FitsCall(e)' \/ FitsCard(e)' \/ FitsEnd(e)'
  <2>1. FitsCall(e) \/ FitsCard(e) \/ FitsEnd(e)
    BY <1>1, <1>4 DEF AllFit
  <2>2. FitsCall(e) => FitsCall(e)'
    BY DEF FitsCall
  <2>3. FitsEnd(e) => FitsEnd(e)'
    BY DEF FitsEnd
  <2>4. FitsCard(e) => FitsCard(e)'
    BY <1>3 DEF FitsCard
  <2> QED BY <2>1, <2>2, <2>3, <2>4
<1>5. ~cancelled => E \subseteq page'
  BY DEF Show
<1> QED BY <1>3, <1>4, <1>5 DEF AllFit

LEMMA PageKept ==
  ASSUME AllFit, page' = page
  PROVE  AllFit' /\ \A id : Shown(id) => Shown(id)'
BY DEF AllFit, FitsCall, FitsCard, FitsEnd, Shown

(* What the event of a call becomes on the page.                           *)
LEMMA CallElement ==
  ASSUME IInv, ~cancelled, NEW s \in Sessions, pc[s] # "none",
         NEW k \in CallsOf(s), NEW type \in {"call", "result"}
  PROVE  LET e == Element(Through(s, Event(type, s, k, Untagged)))
         IN  FitsCall(e) /\ e.what = type /\ e.id = WireID(Parent(k), Last(k))
<1>1. k \in AgentCalls /\ Parent(k) = s /\ Last(k) \in Calls
  BY CallFacts DEF CallsOf
<1>2. s # Root => card[s] # "none"
  BY DEF IInv, Dealt, Children
<1> DEFINE e == Element(Through(s, Event(type, s, k, Untagged)))
<1>3. e = [what |-> type, by |-> s, id |-> Append(Tag(s), Last(k)), in |-> Body(s)]
  BY <1>2, ElementIs
<1>4. WireID(s, Last(k)) = Append(Tag(s), Last(k)) /\ Named(s, Append(Tag(s), Last(k)))
  BY <1>1, IdIs
<1> HIDE DEF e
<1>5. /\ e.what = type /\ e.by = s /\ e.id = Append(Tag(s), Last(k)) /\ e.in = Body(s)
  BY <1>3
<1>6. FitsCall(e) /\ e.what = type /\ e.id = WireID(Parent(k), Last(k))
  BY <1>1, <1>4, <1>5 DEF FitsCall
<1> QED BY <1>6 DEF e

(* Calls sent by a turn.                                                   *)
LEMMA SendCalls ==
  ASSUME IInv, NEW s \in Sessions, pc[s] # "none",
         NEW ks \in SUBSET CallsOf(s), NEW type \in {"call", "result"},
         Send(type, s, ks)
  PROVE  AllFit' /\ \A id : Shown(id) => Shown(id)'
<1> DEFINE E == {Element(Through(s, e)) : e \in UNION {Forwarded(Event(type, s, k, Untagged), s) : k \in ks}}
<1>1. Show(E)
  BY DEF Send
<1>2. \A k \in ks : Forwarded(Event(type, s, k, Untagged), s) = {Event(type, s, k, Untagged)}
  BY DEF Forwarded, Event
<1>3. \A e \in E : \E k \in ks : e = Element(Through(s, Event(type, s, k, Untagged)))
  BY <1>2
<1>4. ~cancelled => \A e \in E : FitsCall(e)
  <2> SUFFICES ASSUME ~cancelled, NEW e \in E PROVE FitsCall(e)
    OBVIOUS
  <2>1. PICK k \in ks : e = Element(Through(s, Event(type, s, k, Untagged)))
    BY <1>3
  <2> QED BY <2>1, CallElement
<1> HIDE DEF E
<1> QED BY <1>1, <1>4, PageGrows DEF IInv

(* The end of a turn.                                                      *)
LEMMA SendEnd ==
  ASSUME IInv, NEW s \in Sessions, Send("end", s, {s})
  PROVE  AllFit' /\ \A id : Shown(id) => Shown(id)'
<1> DEFINE ev == Event("end", s, s, Untagged)
           E == {Element(Through(s, e)) : e \in UNION {Forwarded(Event("end", s, k, Untagged), s) : k \in {s}}}
<1>1. Show(E)
  BY DEF Send
<1>2. UNION {Forwarded(Event("end", s, k, Untagged), s) : k \in {s}} = Forwarded(ev, s)
  OBVIOUS
<1>3. Forwarded(ev, s) = IF s # Root THEN {} ELSE {ev}
  BY DEF Forwarded, Event
<1>4. \A e \in E : s = Root /\ e = Element(Through(s, ev))
  BY <1>2, <1>3
<1>5. s = Root => Element(Through(s, ev)) =
                    [what |-> "end", by |-> s, id |-> Append(Tag(s), Last(s)), in |-> Body(s)]
  BY ElementIs
<1>6. \A e \in E : FitsEnd(e)
  BY <1>4, <1>5 DEF FitsEnd
<1> HIDE DEF E
<1> QED BY <1>1, <1>6, PageGrows DEF IInv

LEMMA AnnouncedKept ==
  ASSUME Announced, cancelled' = cancelled,
         \A id : Shown(id) => Shown(id)',
         \A k \in AgentCalls : call'[k] # "none" => call[k] # "none"
  PROVE  Announced'
<1> SUFFICES ASSUME ~cancelled, NEW k \in AgentCalls, call'[k] # "none"
             PROVE  Shown(WireID(Parent(k), Last(k)))'
  BY DEF Announced
<1> DEFINE id == WireID(Parent(k), Last(k))
<1>1. Shown(id)
  BY DEF Announced
<1> HIDE DEF id
<1>2. Shown(id)'
  BY <1>1
<1> QED BY <1>2 DEF id

-----------------------------------------------------------------------------
(* The turns.                                                              *)

LEMMA IInvInit == Init => IInv
<1> SUFFICES ASSUME Init PROVE IInv
  OBVIOUS
<1> USE SubAgentsAssumption
<1>1. Typed
  BY DEF Init, Typed, Pcs, Ends, CallStates, Results, Cards, NoResult
<1>2. Rounds
  <2>1. \A s \in Sessions : round[s] = 0 /\ said[s] = 0
    BY DEF Init
  <2>2. 0 <= MaxToolRounds /\ 0 <= MaxToolRounds + 1 /\ 0 <= 0
    OBVIOUS
  <2> QED BY <2>1, <2>2 DEF Rounds
<1>3. Tree
  <2>1. /\ pc[Root] # "none"
        /\ \A k \in AgentCalls : call[k] = "none"
        /\ \A k \in Children : pc[k] = "none" /\ call[k] = "none"
    BY RootFacts, ChildFacts DEF Init, Children
  <2> QED BY <2>1 DEF Tree, Settled
<1>4. Dealt
  BY ChildFacts DEF Init, Dealt, Children
<1>5. Announced /\ AllFit
  BY DEF Init, Announced, AllFit
<1> QED BY <1>1, <1>2, <1>3, <1>4, <1>5 DEF IInv

LEMMA RoundsStep ==
  ASSUME IInv, NEW s \in Sessions, pc[s] = "model", Stream(s),
         said' = said \/ Store(s),
         \A x \in Sessions \ {s} : pc'[x] = pc[x],
         pc'[s] = "over" \/ round[s] < MaxToolRounds
  PROVE  /\ round' \in [Sessions -> Nat] /\ said' \in [Sessions -> Nat]
         /\ Rounds'
<1> USE SubAgentsAssumption
<1>1. /\ round \in [Sessions -> Nat] /\ said \in [Sessions -> Nat]
      /\ \A x \in Sessions : /\ said[x] <= round[x] /\ round[x] <= MaxToolRounds + 1
                             /\ pc[x] \in {"none", "model", "calls"} => round[x] <= MaxToolRounds
  BY DEF IInv, Typed, Rounds
<1>2. /\ round' \in [Sessions -> Nat]
      /\ \A x \in Sessions : round'[x] = IF x = s THEN round[s] + 1 ELSE round[x]
  BY <1>1 DEF Stream
<1>3. /\ said' \in [Sessions -> Nat]
      /\ \A x \in Sessions \ {s} : said'[x] = said[x]
      /\ said'[s] \in {said[s], round[s] + 1}
  BY <1>1 DEF Store
<1>4. ASSUME NEW x \in Sessions
      PROVE  /\ said'[x] <= round'[x]
             /\ round'[x] <= MaxToolRounds + 1
             /\ pc'[x] \in {"none", "model", "calls"} => round'[x] <= MaxToolRounds
  <2>1. CASE x = s
    <3>1. /\ round[s] \in Nat /\ said[s] \in Nat /\ said[s] <= round[s] /\ round[s] <= MaxToolRounds
          /\ round'[s] = round[s] + 1 /\ said'[s] \in {said[s], round[s] + 1}
      BY <1>1, <1>2, <1>3
    <3>2. pc'[s] \in {"none", "model", "calls"} => round[s] < MaxToolRounds
      OBVIOUS
    <3> QED BY <2>1, <3>1, <3>2
  <2>2. CASE x # s
    BY <1>1, <1>2, <1>3, <2>2
  <2> QED BY <2>1, <2>2
<1> QED BY <1>2, <1>3, <1>4 DEF Rounds

(* A turn that returns leaves no call of its own behind.                   *)
LEMMA Returns ==
  ASSUME IInv, NEW s \in Sessions, pc[s] \in {"model", "calls"}, NEW how \in Ends,
         \A k \in CallsOf(s) : call[k] \in Settled,
         Return(s, how), call' = call
  PROVE  /\ pc' \in [Sessions -> Pcs] /\ end' \in [Sessions -> Ends]
         /\ \A x \in Sessions : pc'[x] = IF x = s THEN "over" ELSE pc[x]
         /\ Tree'
<1>1. /\ pc \in [Sessions -> Pcs] /\ end \in [Sessions -> Ends]
      /\ pc' = [pc EXCEPT ![s] = "over"] /\ end' = [end EXCEPT ![s] = how]
  BY DEF IInv, Typed, Return
<1>2. /\ pc' \in [Sessions -> Pcs] /\ end' \in [Sessions -> Ends]
      /\ \A x \in Sessions : pc'[x] = IF x = s THEN "over" ELSE pc[x]
  BY <1>1 DEF Pcs
<1>3. Tree
  BY DEF IInv
<1>4. pc'[Root] # "none"
  BY <1>2, <1>3, RootFacts DEF Tree
<1>5. ASSUME NEW k \in AgentCalls
      PROVE  /\ pc'[Parent(k)] # "calls" => call[k] \in Settled
             /\ pc'[Parent(k)] = "none" => call[k] = "none"
  <2>1. Parent(k) \in Sessions
    BY CallFacts
  <2>2. Parent(k) = s => call[k] \in Settled
    BY DEF CallsOf
  <2> QED BY <1>2, <1>3, <2>1, <2>2 DEF Tree
<1>6. ASSUME NEW k \in Children
      PROVE  /\ pc'[k] \in {"model", "calls"} => call[k] = "running"
             /\ pc'[k] = "over" => call[k] \in {"running", "result", "answered", "stored"}
             /\ call[k] = "running" => pc'[k] # "none"
  <2>1. k \in Sessions
    BY ChildFacts
  <2> QED BY <1>2, <1>3, <2>1 DEF Tree
<1> QED BY <1>2, <1>4, <1>5, <1>6 DEF Tree

(* Cards change with nothing but the state of a child and its call.        *)
LEMMA DealtKept ==
  ASSUME IInv, cancelled' = cancelled, card' = card,
         \A k \in Children :
            /\ (pc'[k] = "none") <=> (pc[k] = "none")
            /\ (call'[k] = "running") <=> (call[k] = "running")
            /\ pc[k] = "none" \/ result'[k] = result[k]
  PROVE  Dealt'
<1> SUFFICES ASSUME ~cancelled, NEW k \in Children
             PROVE  /\ (pc'[k] # "none") <=> (card[k] # "none")
                    /\ (card[k] = "running") <=> (call'[k] = "running")
                    /\ card[k] \in {"done", "error"} => card[k] = StateOf(result'[k])
  BY DEF Dealt
<1>1. /\ (pc[k] # "none") <=> (card[k] # "none")
      /\ (card[k] = "running") <=> (call[k] = "running")
      /\ card[k] \in {"done", "error"} => card[k] = StateOf(result[k])
  BY DEF IInv, Dealt
<1> QED BY <1>1

LEMMA ModelSettled ==
  ASSUME IInv, NEW s \in Sessions, pc[s] = "model"
  PROVE  \A k \in CallsOf(s) : call[k] \in Settled
BY DEF IInv, Tree, CallsOf

LEMMA ReturnStep ==
  ASSUME IInv, NEW s \in Sessions,
         (\E ks \in SUBSET Unused(s) : CapReached(s, ks)) \/ (\E k \in Unused(s) : DropReply(s, k))
           \/ Reply(s) \/ FailTurn(s)
  PROVE  IInv'
<1>1. /\ UNCHANGED <<call, result, cancelled, card>>
      /\ pc[s] \in {"model", "calls"} /\ pc[s] # "none"
      /\ \A k \in CallsOf(s) : call[k] \in Settled
      /\ \E how \in Ends : Return(s, how)
  <2>1. CASE pc[s] = "model"
    BY <2>1, ModelSettled DEF CapReached, DropReply, Reply, FailTurn, Ends
  <2>2. CASE pc[s] # "model"
    BY <2>2 DEF CapReached, DropReply, Reply, FailTurn, AllAnswered, Ends, Settled
  <2> QED BY <2>1, <2>2
<1>2. PICK how \in Ends : Return(s, how)
  BY <1>1
<1>3. /\ pc' \in [Sessions -> Pcs] /\ end' \in [Sessions -> Ends]
      /\ \A x \in Sessions : pc'[x] = IF x = s THEN "over" ELSE pc[x]
      /\ Tree'
  BY <1>1, <1>2, Returns
<1>4. round' \in [Sessions -> Nat] /\ said' \in [Sessions -> Nat] /\ Rounds'
  <2>1. CASE FailTurn(s)
    <3>1. UNCHANGED <<round, said>> /\ \A x \in Sessions : pc'[x] = "over" \/ pc'[x] = pc[x]
      BY <1>3, <2>1 DEF FailTurn
    <3> QED BY <3>1 DEF IInv, Typed, Rounds
  <2>2. CASE ~FailTurn(s)
    <3>1. pc[s] = "model" /\ Stream(s) /\ (said' = said \/ Store(s))
      BY <2>2 DEF CapReached, DropReply, Reply
    <3> QED BY <1>3, <3>1, RoundsStep
  <2> QED BY <2>1, <2>2
<1>5. Typed'
  BY <1>1, <1>3, <1>4 DEF IInv, Typed
<1>6. Dealt'
  <2>1. \A k \in Children : (pc'[k] = "none") <=> (pc[k] = "none")
    BY <1>1, <1>3, ChildFacts
  <2> QED BY <1>1, <2>1, DealtKept
<1>7. AllFit' /\ \A id : Shown(id) => Shown(id)'
  <2>1. ASSUME NEW ks \in SUBSET Unused(s), CapReached(s, ks)
        PROVE  AllFit' /\ \A id : Shown(id) => Shown(id)'
    <3>1. ks \in SUBSET CallsOf(s) /\ Send("call", s, ks)
      BY <2>1 DEF Unused, CapReached
    <3> QED BY <1>1, <3>1, SendCalls
  <2>2. ASSUME NEW k \in Unused(s), DropReply(s, k)
        PROVE  AllFit' /\ \A id : Shown(id) => Shown(id)'
    <3>1. {k} \in SUBSET CallsOf(s) /\ Send("call", s, {k})
      BY <2>2 DEF Unused, DropReply
    <3> QED BY <1>1, <3>1, SendCalls
  <2> QED BY <2>1, <2>2, SendEnd DEF Reply, FailTurn
<1>8. Announced'
  BY <1>1, <1>7, AnnouncedKept DEF IInv
<1> QED BY <1>3, <1>4, <1>5, <1>6, <1>7, <1>8 DEF IInv

LEMMA AskStep ==
  ASSUME IInv, NEW s \in Sessions, NEW ks \in SUBSET Unused(s), NEW bad \in SUBSET ks,
         Ask(s, ks, bad)
  PROVE  IInv'
<1>1. /\ pc[s] = "model" /\ round[s] < MaxToolRounds /\ Stream(s) /\ Store(s)
      /\ pc' = [pc EXCEPT ![s] = "calls"]
      /\ UNCHANGED <<end, cancelled, card>>
  BY DEF Ask
<1>2. /\ \A k \in ks : k \in AgentCalls /\ Parent(k) = s /\ call[k] = "none"
      /\ bad \subseteq ks /\ ks \in SUBSET CallsOf(s) /\ bad \in SUBSET CallsOf(s)
  BY DEF Unused, CallsOf
<1>3. /\ pc' \in [Sessions -> Pcs]
      /\ \A x \in Sessions : pc'[x] = IF x = s THEN "calls" ELSE pc[x]
  BY <1>1 DEF IInv, Typed, Pcs
<1>4. /\ call' \in [AgentCalls -> CallStates]
      /\ \A k \in AgentCalls :
           call'[k] = IF k \in bad THEN "answered" ELSE IF k \in ks THEN "queued" ELSE call[k]
  <2>1. call' = [k \in AgentCalls |->
                   IF k \in bad THEN "answered" ELSE IF k \in ks THEN "queued" ELSE call[k]]
    BY DEF Ask
  <2> QED BY <2>1 DEF IInv, Typed, CallStates
<1>5. /\ result' \in [AgentCalls -> Results]
      /\ \A k \in AgentCalls : k \notin bad => result'[k] = result[k]
  <2>1. result' = [k \in AgentCalls |-> IF k \in bad THEN Error ELSE result[k]]
    BY DEF Ask
  <2>2. Error \in Results
    BY DEF Error, Results
  <2> QED BY <2>1, <2>2 DEF IInv, Typed
<1>6. round' \in [Sessions -> Nat] /\ said' \in [Sessions -> Nat] /\ Rounds'
  BY <1>1, <1>3, RoundsStep
<1>7. Typed'
  BY <1>1, <1>3, <1>4, <1>5, <1>6 DEF IInv, Typed
<1>8. Tree
  BY DEF IInv
<1>9. \A k \in AgentCalls : k \notin ks => call'[k] = call[k]
  BY <1>2, <1>4
<1>10. \A k \in Children : k \in ks => pc[k] = "none" /\ k # s
  <2> SUFFICES ASSUME NEW k \in Children, k \in ks PROVE pc[k] = "none" /\ k # s
    OBVIOUS
  <2>1. k \in Sessions /\ call[k] = "none" /\ k \in AgentCalls /\ Parent(k) = s
    BY <1>2, ChildFacts
  <2>2. pc[k] \in Pcs
    BY <2>1 DEF IInv, Typed
  <2>3. pc[k] = "none"
    BY <1>8, <2>1, <2>2 DEF Tree, Pcs
  <2> QED BY <2>1, <2>3, CallFacts
<1>11. Tree'
  <2>1. pc'[Root] # "none"
    BY <1>3, <1>8, RootFacts DEF Tree
  <2>2. ASSUME NEW k \in AgentCalls
        PROVE  /\ pc'[Parent(k)] # "calls" => call'[k] \in Settled
               /\ pc'[Parent(k)] = "none" => call'[k] = "none"
    <3>1. CASE k \in ks
      BY <1>2, <1>3, <3>1
    <3>2. CASE k \notin ks
      <4>1. Parent(k) \in Sessions
        BY CallFacts
      <4> QED BY <1>1, <1>3, <1>8, <1>9, <3>2, <4>1 DEF Tree
    <3> QED BY <3>1, <3>2
  <2>3. ASSUME NEW k \in Children
        PROVE  /\ pc'[k] \in {"model", "calls"} => call'[k] = "running"
               /\ pc'[k] = "over" => call'[k] \in {"running", "result", "answered", "stored"}
               /\ call'[k] = "running" => pc'[k] # "none"
    <3>1. k \in Sessions /\ k \in AgentCalls
      BY ChildFacts
    <3>2. CASE k \in ks
      BY <1>3, <1>4, <1>10, <3>1, <3>2
    <3>3. CASE k \notin ks
      BY <1>1, <1>3, <1>8, <1>9, <3>1, <3>3 DEF Tree
    <3> QED BY <3>2, <3>3
  <2> QED BY <2>1, <2>2, <2>3 DEF Tree
<1>12. Dealt'
  <2>1. ASSUME NEW k \in Children
        PROVE  /\ (pc'[k] = "none") <=> (pc[k] = "none")
               /\ (call'[k] = "running") <=> (call[k] = "running")
               /\ pc[k] = "none" \/ result'[k] = result[k]
    <3>1. k \in Sessions /\ k \in AgentCalls
      BY ChildFacts
    <3>2. CASE k \in ks
      BY <1>2, <1>3, <1>4, <1>10, <3>1, <3>2
    <3>3. CASE k \notin ks
      BY <1>1, <1>3, <1>5, <1>9, <3>1, <3>3
    <3> QED BY <3>2, <3>3
  <2> QED BY <1>1, <2>1, DealtKept
<1> DEFINE called(k) == Element(Through(s, Event("call", s, k, Untagged)))
           refused(k) == Element(Through(s, Event("result", s, k, Untagged)))
           E == {called(k) : k \in ks} \union {refused(k) : k \in bad}
<1>13. Show(E)
  BY DEF Ask
<1>14. ~cancelled => \A k \in ks : /\ FitsCall(called(k)) /\ called(k).what = "call"
                                   /\ called(k).id = WireID(Parent(k), Last(k))
  BY <1>1, <1>2, CallElement
<1>15. ~cancelled => \A k \in bad : FitsCall(refused(k))
  BY <1>1, <1>2, CallElement
<1>16. \A k \in ks : called(k) \in E
  OBVIOUS
<1>17. \A e \in E : (\E k \in ks : e = called(k)) \/ (\E k \in bad : e = refused(k))
  OBVIOUS
<1> HIDE DEF called, refused, E
<1>18. ~cancelled => \A e \in E : FitsCall(e)
  BY <1>14, <1>15, <1>17
<1>19. AllFit' /\ (\A id : Shown(id) => Shown(id)') /\ (~cancelled => E \subseteq page')
  BY <1>13, <1>18, PageGrows DEF IInv
<1>20. Announced'
  <2> SUFFICES ASSUME ~cancelled, NEW k \in AgentCalls, call'[k] # "none"
               PROVE  Shown(WireID(Parent(k), Last(k)))'
    BY <1>1 DEF Announced
  <2> DEFINE id == WireID(Parent(k), Last(k))
  <2>1. CASE k \in ks
    <3>1. called(k) \in page' /\ called(k).what = "call" /\ called(k).id = id
      BY <1>14, <1>16, <1>19, <2>1
    <3> HIDE DEF id
    <3>2. Shown(id)'
      BY <3>1 DEF Shown
    <3> QED BY <3>2 DEF id
  <2>2. CASE k \notin ks
    <3>1. Shown(id)
      BY <1>9, <2>2 DEF IInv, Announced
    <3> HIDE DEF id
    <3>2. Shown(id)'
      BY <1>19, <3>1
    <3> QED BY <3>2 DEF id
  <2> QED BY <2>1, <2>2
<1> QED BY <1>6, <1>7, <1>11, <1>12, <1>19, <1>20 DEF IInv

LEMMA StoreStep == ASSUME IInv, NEW s \in Sessions, StoreResults(s) PROVE IInv'
<1>1. /\ pc[s] = "calls" /\ \A k \in CallsOf(s) : call[k] \in {"none", "answered", "stored"}
      /\ pc' = [pc EXCEPT ![s] = "model"]
      /\ UNCHANGED <<end, round, said, result, cancelled, page, card>>
  BY DEF StoreResults, AllAnswered
<1>2. /\ pc' \in [Sessions -> Pcs]
      /\ \A x \in Sessions : pc'[x] = IF x = s THEN "model" ELSE pc[x]
  BY <1>1 DEF IInv, Typed, Pcs
<1>3. /\ call' \in [AgentCalls -> CallStates]
      /\ \A k \in AgentCalls :
           \/ call'[k] = call[k]
           \/ call[k] = "answered" /\ call'[k] = "stored" /\ Parent(k) = s
  <2>1. call' = [k \in AgentCalls |->
                   IF Parent(k) = s /\ call[k] = "answered" THEN "stored" ELSE call[k]]
    BY DEF StoreResults
  <2> QED BY <2>1 DEF IInv, Typed, CallStates
<1>4. Typed'
  BY <1>1, <1>2, <1>3 DEF IInv, Typed
<1>5. Rounds'
  BY <1>1, <1>2 DEF IInv, Rounds
<1>6. Tree
  BY DEF IInv
<1>7. Tree'
  <2>1. pc'[Root] # "none"
    BY <1>2, <1>6, RootFacts DEF Tree
  <2>2. ASSUME NEW k \in AgentCalls
        PROVE  /\ pc'[Parent(k)] # "calls" => call'[k] \in Settled
               /\ pc'[Parent(k)] = "none" => call'[k] = "none"
    <3>1. Parent(k) \in Sessions
      BY CallFacts
    <3>2. CASE Parent(k) = s
      BY <1>1, <1>2, <1>3, <3>1, <3>2 DEF CallsOf, Settled
    <3>3. CASE Parent(k) # s
      BY <1>2, <1>3, <1>6, <3>1, <3>3 DEF Tree
    <3> QED BY <3>2, <3>3
  <2>3. ASSUME NEW k \in Children
        PROVE  /\ pc'[k] \in {"model", "calls"} => call'[k] = "running"
               /\ pc'[k] = "over" => call'[k] \in {"running", "result", "answered", "stored"}
               /\ call'[k] = "running" => pc'[k] # "none"
    <3>1. k \in Sessions /\ k \in AgentCalls
      BY ChildFacts
    <3> QED BY <1>1, <1>2, <1>3, <1>6, <3>1 DEF Tree
  <2> QED BY <2>1, <2>2, <2>3 DEF Tree
<1>8. Dealt'
  <2>1. \A k \in Children : /\ (pc'[k] = "none") <=> (pc[k] = "none")
                            /\ (call'[k] = "running") <=> (call[k] = "running")
    BY <1>1, <1>2, <1>3, ChildFacts
  <2> QED BY <1>1, <2>1, DealtKept
<1>9. AllFit' /\ \A id : Shown(id) => Shown(id)'
  BY <1>1, PageKept DEF IInv
<1>10. Announced'
  <2>1. \A k \in AgentCalls : call'[k] # "none" => call[k] # "none"
    BY <1>3
  <2> QED BY <1>1, <1>9, <2>1, AnnouncedKept DEF IInv
<1> QED BY <1>4, <1>5, <1>7, <1>8, <1>9, <1>10 DEF IInv

-----------------------------------------------------------------------------
(* The goroutines of the calls.                                            *)

LEMMA CallMoves ==
  ASSUME IInv, NEW k \in AgentCalls, call[k] \notin Settled, NEW x \in CallStates, x # "none",
         call' = [call EXCEPT ![k] = x],
         pc' \in [Sessions -> Pcs],
         \A s \in Sessions : \/ pc'[s] = pc[s]
                             \/ s = k /\ pc[k] \in {"none", "model"} /\ pc'[k] \in {"model", "over"},
         k \in Children => /\ pc'[k] \in {"model", "calls"} => x = "running"
                           /\ pc'[k] = "over" => x \in {"running", "result", "answered", "stored"}
                           /\ x = "running" => pc'[k] # "none"
  PROVE  /\ call' \in [AgentCalls -> CallStates]
         /\ \A j \in AgentCalls : call'[j] = IF j = k THEN x ELSE call[j]
         /\ \A j \in AgentCalls : call'[j] # "none" => call[j] # "none"
         /\ Tree'
<1>1. /\ call' \in [AgentCalls -> CallStates]
      /\ \A j \in AgentCalls : call'[j] = IF j = k THEN x ELSE call[j]
  BY DEF IInv, Typed, CallStates
<1>2. Tree /\ Parent(k) \in Sessions /\ Parent(k) # k
  BY CallFacts DEF IInv
<1>3. pc[Parent(k)] = "calls" /\ pc'[Parent(k)] = "calls"
  BY <1>2 DEF Tree
<1>4. pc'[Root] # "none"
  BY <1>2, RootFacts DEF Tree
<1>5. ASSUME NEW j \in AgentCalls
      PROVE  /\ pc'[Parent(j)] # "calls" => call'[j] \in Settled
             /\ pc'[Parent(j)] = "none" => call'[j] = "none"
  <2>1. CASE j = k
    BY <1>3, <2>1
  <2>2. CASE j # k
    <3>1. Parent(j) \in Sessions /\ call'[j] = call[j]
      BY <1>1, <2>2, CallFacts
    <3>2. CASE pc'[Parent(j)] = pc[Parent(j)]
      BY <1>2, <3>1, <3>2 DEF Tree
    <3>3. CASE pc[Parent(j)] \in {"none", "model"} /\ pc'[Parent(j)] \in {"model", "over"}
      BY <1>2, <3>1, <3>3 DEF Tree
    <3> QED BY <3>1, <3>2, <3>3
  <2> QED BY <2>1, <2>2
<1>6. ASSUME NEW j \in Children
      PROVE  /\ pc'[j] \in {"model", "calls"} => call'[j] = "running"
             /\ pc'[j] = "over" => call'[j] \in {"running", "result", "answered", "stored"}
             /\ call'[j] = "running" => pc'[j] # "none"
  <2>1. j \in Sessions /\ j \in AgentCalls
    BY ChildFacts
  <2>2. CASE j = k
    BY <1>1, <2>1, <2>2
  <2>3. CASE j # k
    BY <1>1, <1>2, <2>1, <2>3 DEF Tree
  <2> QED BY <2>2, <2>3
<1>7. \A j \in AgentCalls : call'[j] # "none" => call[j] # "none"
  BY <1>1 DEF Settled
<1> QED BY <1>1, <1>4, <1>5, <1>6, <1>7 DEF Tree

LEMMA ResultSet ==
  ASSUME IInv, NEW k \in AgentCalls, NEW r \in Results, result' = [result EXCEPT ![k] = r]
  PROVE  /\ result' \in [AgentCalls -> Results]
         /\ \A j \in AgentCalls : result'[j] = IF j = k THEN r ELSE result[j]
BY DEF IInv, Typed

LEMMA ErrorIs == Error \in Results /\ StateOf(Error) = "error"
  BY DEF Error, Results, StateOf

(* A call that is settled without a child turn.                            *)
LEMMA NoChildStep == ASSUME IInv, NEW k \in AgentCalls, Refuse(k) \/ GiveUp(k) PROVE IInv'
<1>1. /\ call[k] = "queued"
      /\ \E x \in {"result", "gaveup"} : call' = [call EXCEPT ![k] = x]
      /\ result' = [result EXCEPT ![k] = Error]
      /\ UNCHANGED <<pc, end, round, said, cancelled, page, card>>
  BY DEF Refuse, GiveUp, Acquires
<1>2. PICK x \in {"result", "gaveup"} : call' = [call EXCEPT ![k] = x]
  BY <1>1
<1>3. k \in Children => pc[k] = "none"
  <2>1. k \in Children => pc[k] \in Pcs
    BY ChildFacts DEF IInv, Typed
  <2> QED BY <1>1, <2>1 DEF IInv, Tree, Pcs
<1>4. /\ call' \in [AgentCalls -> CallStates]
      /\ \A j \in AgentCalls : call'[j] = IF j = k THEN x ELSE call[j]
      /\ \A j \in AgentCalls : call'[j] # "none" => call[j] # "none"
      /\ Tree'
  <2>1. x \in CallStates /\ x # "none" /\ call[k] \notin Settled
    BY <1>1 DEF CallStates, Settled
  <2>2. pc' \in [Sessions -> Pcs] /\ \A s \in Sessions : pc'[s] = pc[s]
    BY <1>1 DEF IInv, Typed
  <2>3. k \in Children => pc'[k] = "none"
    BY <1>1, <1>3
  <2>4. k \in Children => /\ pc'[k] \in {"model", "calls"} => x = "running"
                          /\ pc'[k] = "over" => x \in {"running", "result", "answered", "stored"}
                          /\ x = "running" => pc'[k] # "none"
    BY <2>3
  <2> QED BY <1>2, <2>1, <2>2, <2>4, CallMoves
<1>5. /\ result' \in [AgentCalls -> Results]
      /\ \A j \in AgentCalls : result'[j] = IF j = k THEN Error ELSE result[j]
  BY <1>1, ErrorIs, ResultSet
<1>6. Typed' /\ Rounds'
  BY <1>1, <1>4, <1>5 DEF IInv, Typed, Rounds
<1>7. Dealt'
  <2>1. \A j \in Children : /\ (pc'[j] = "none") <=> (pc[j] = "none")
                            /\ (call'[j] = "running") <=> (call[j] = "running")
                            /\ pc[j] = "none" \/ result'[j] = result[j]
    BY <1>1, <1>3, <1>4, <1>5, ChildFacts
  <2> QED BY <1>1, <2>1, DealtKept
<1>8. AllFit' /\ \A id : Shown(id) => Shown(id)'
  BY <1>1, PageKept DEF IInv
<1>9. Announced'
  BY <1>1, <1>4, <1>8, AnnouncedKept DEF IInv
<1> QED BY <1>4, <1>6, <1>7, <1>8, <1>9 DEF IInv

LEMMA AnswerStep == ASSUME IInv, NEW k \in AgentCalls, Answer(k) PROVE IInv'
<1>1. /\ call[k] \in {"result", "gaveup"}
      /\ call' = [call EXCEPT ![k] = "answered"]
      /\ Send("result", Parent(k), {k})
      /\ UNCHANGED <<pc, end, round, said, result, cancelled, card>>
  BY DEF Answer
<1>2. Parent(k) \in Sessions /\ {k} \in SUBSET CallsOf(Parent(k)) /\ pc[Parent(k)] # "none"
  <2>1. Parent(k) \in Sessions
    BY CallFacts
  <2> QED BY <1>1, <2>1 DEF IInv, Tree, CallsOf
<1>3. /\ call' \in [AgentCalls -> CallStates]
      /\ \A j \in AgentCalls : call'[j] = IF j = k THEN "answered" ELSE call[j]
      /\ \A j \in AgentCalls : call'[j] # "none" => call[j] # "none"
      /\ Tree'
  <2>1. "answered" \in CallStates /\ call[k] \notin Settled
    BY <1>1 DEF CallStates, Settled
  <2>2. pc' \in [Sessions -> Pcs] /\ \A s \in Sessions : pc'[s] = pc[s]
    BY <1>1 DEF IInv, Typed
  <2>3. k \in Children => pc'[k] \notin {"model", "calls"}
    BY <1>1 DEF IInv, Tree
  <2> QED BY <1>1, <2>1, <2>2, <2>3, CallMoves
<1>4. Typed' /\ Rounds'
  BY <1>1, <1>3 DEF IInv, Typed, Rounds
<1>5. Dealt'
  <2>1. \A j \in Children : /\ (pc'[j] = "none") <=> (pc[j] = "none")
                            /\ (call'[j] = "running") <=> (call[j] = "running")
                            /\ pc[j] = "none" \/ result'[j] = result[j]
    BY <1>1, <1>3, ChildFacts
  <2> QED BY <1>1, <2>1, DealtKept
<1>6. AllFit' /\ \A id : Shown(id) => Shown(id)'
  BY <1>1, <1>2, SendCalls
<1>7. Announced'
  BY <1>1, <1>3, <1>6, AnnouncedKept DEF IInv
<1> QED BY <1>3, <1>4, <1>5, <1>6, <1>7 DEF IInv

(* The child session is announced: its card goes next to its call.         *)
LEMMA SpawnStep == ASSUME IInv, NEW k \in AgentCalls, Spawn(k) PROVE IInv'
<1>1. /\ call[k] = "queued" /\ k \in Children /\ k \in Sessions
      /\ call' = [call EXCEPT ![k] = "running"]
      /\ pc' = [pc EXCEPT ![k] = "model"]
      /\ StartSubagentCard(k)
      /\ UNCHANGED <<end, round, said, result, cancelled>>
  BY CallFacts, ChildFacts DEF Spawn, Acquires
<1>2. pc[k] = "none"
  <2>1. pc[k] \in Pcs
    BY <1>1 DEF IInv, Typed
  <2> QED BY <1>1, <2>1 DEF IInv, Tree, Pcs
<1>3. /\ pc' \in [Sessions -> Pcs]
      /\ \A s \in Sessions : pc'[s] = IF s = k THEN "model" ELSE pc[s]
  BY <1>1 DEF IInv, Typed, Pcs
<1>4. /\ call' \in [AgentCalls -> CallStates]
      /\ \A j \in AgentCalls : call'[j] = IF j = k THEN "running" ELSE call[j]
      /\ \A j \in AgentCalls : call'[j] # "none" => call[j] # "none"
      /\ Tree'
  <2>1. "running" \in CallStates /\ call[k] \notin Settled
    BY <1>1 DEF CallStates, Settled
  <2>2. pc'[k] = "model"
    BY <1>1, <1>3
  <2>3. \A s \in Sessions : \/ pc'[s] = pc[s]
                            \/ s = k /\ pc[k] \in {"none", "model"} /\ pc'[k] \in {"model", "over"}
    BY <1>2, <1>3
  <2> QED BY <1>1, <1>3, <2>1, <2>2, <2>3, CallMoves
<1>5. card' = IF cancelled \/ card[k] # "none" THEN card ELSE [card EXCEPT ![k] = "running"]
  BY <1>1 DEF StartSubagentCard
<1>6. /\ card' \in [Children -> Cards]
      /\ ~cancelled => \A j \in Children : card'[j] = IF j = k THEN "running" ELSE card[j]
  <2>1. ~cancelled => card[k] = "none"
    BY <1>1, <1>2 DEF IInv, Dealt
  <2> QED BY <1>5, <2>1 DEF IInv, Typed, Cards
<1>7. Typed'
  BY <1>1, <1>3, <1>4, <1>6 DEF IInv, Typed
<1>8. Rounds'
  BY <1>1, <1>2, <1>3 DEF IInv, Rounds
<1>9. Dealt'
  <2> SUFFICES ASSUME ~cancelled, NEW j \in Children
               PROVE  /\ (pc'[j] # "none") <=> (card'[j] # "none")
                      /\ (card'[j] = "running") <=> (call'[j] = "running")
                      /\ card'[j] \in {"done", "error"} => card'[j] = StateOf(result[j])
    BY <1>1 DEF Dealt
  <2>1. j \in Sessions /\ j \in AgentCalls
    BY ChildFacts
  <2>2. CASE j = k
    BY <1>3, <1>4, <1>6, <2>1, <2>2
  <2>3. CASE j # k
    BY <1>3, <1>4, <1>6, <2>1, <2>3 DEF IInv, Dealt
  <2> QED BY <2>2, <2>3
<1> DEFINE id == WireID(Parent(k), Last(k))
           e == [what |-> "card", by |-> k, id |-> k, in |-> Place(id)]
<1>10. Show({e})
  BY <1>1 DEF StartSubagentCard
<1>11. ~cancelled => FitsCard(e)
  <2> SUFFICES ASSUME ~cancelled PROVE FitsCard(e)
    OBVIOUS
  <2>1. Shown(id)
    BY <1>1 DEF IInv, Announced
  <2>2. Place(id) = id
    BY <2>1 DEF Place
  <2>3. Parent(k) \in Sessions /\ Last(k) \in Calls
    BY CallFacts
  <2>4. Named(Parent(k), id) /\ Last(id) = Last(k)
    BY <2>3, IdIs
  <2> HIDE DEF id
  <2>5. e.what = "card" /\ e.by = k /\ e.in = id
    BY <2>2
  <2> HIDE DEF e
  <2> QED BY <2>1, <2>4, <2>5 DEF FitsCard
<1> HIDE DEF e, id
<1>12. AllFit' /\ \A i : Shown(i) => Shown(i)'
  <2>1. ~cancelled => \A x \in {e} : FitsCall(x) \/ FitsCard(x) \/ FitsEnd(x)
    BY <1>11
  <2> QED BY <1>10, <2>1, PageGrows DEF IInv
<1>13. Announced'
  BY <1>1, <1>4, <1>12, AnnouncedKept DEF IInv
<1> QED BY <1>4, <1>7, <1>8, <1>9, <1>12, <1>13 DEF IInv

(* The child turn is over, one way or another: its card is settled.        *)
LEMMA ChildOver ==
  ASSUME IInv, NEW k \in Children, Panic(k) \/ \E unread \in BOOLEAN : Finish(k, unread)
  PROVE  IInv'
<1>1. k \in Sessions /\ k \in AgentCalls
  BY ChildFacts
<1>2. PICK isError \in BOOLEAN, r \in Results :
        /\ r.state = (IF isError THEN "error" ELSE "ok")
        /\ result' = [result EXCEPT ![k] = r]
        /\ FinishSubagentCard(k, isError)
  <2>1. ASSUME Panic(k) PROVE result' = [result EXCEPT ![k] = Error] /\ FinishSubagentCard(k, TRUE)
    BY <2>1 DEF Panic
  <2>2. Error.state = "error"
    BY DEF Error
  <2>3. ASSUME NEW unread \in BOOLEAN, Finish(k, unread)
        PROVE  \E isError \in BOOLEAN, r \in Results :
                 /\ r.state = (IF isError THEN "error" ELSE "ok")
                 /\ result' = [result EXCEPT ![k] = r]
                 /\ FinishSubagentCard(k, isError)
    <3> DEFINE isError == ChildError(k) \/ unread
               ok == [state |-> "ok", text |-> said[k]]
               r == IF isError THEN Error ELSE ok
    <3>1. isError \in BOOLEAN
      BY DEF ChildError
    <3>2. ok \in Results /\ ok.state = "ok"
      BY <1>1 DEF IInv, Typed, Results
    <3>3. result' = [result EXCEPT ![k] = r] /\ FinishSubagentCard(k, isError)
      BY <2>3 DEF Finish
    <3> HIDE DEF isError, ok
    <3>4. r \in Results /\ r.state = (IF isError THEN "error" ELSE "ok")
      BY <2>2, <3>2, ErrorIs
    <3> HIDE DEF r
    <3> QED BY <3>1, <3>3, <3>4
  <2> QED BY <2>1, <2>2, <2>3, ErrorIs
<1>3. /\ call[k] = "running" /\ call' = [call EXCEPT ![k] = "result"]
      /\ pc[k] # "none" /\ pc' \in [Sessions -> Pcs] /\ end' \in [Sessions -> Ends]
      /\ pc'[k] = "over"
      /\ \A s \in Sessions : \/ pc'[s] = pc[s]
                             \/ s = k /\ pc[k] \in {"none", "model"} /\ pc'[k] \in {"model", "over"}
      /\ UNCHANGED <<round, said, cancelled, page>>
  <2>1. CASE Panic(k)
    <3>1. /\ pc[k] = "model" /\ pc' = [pc EXCEPT ![k] = "over"] /\ end' = [end EXCEPT ![k] = "panic"]
          /\ call' = [call EXCEPT ![k] = "result"]
          /\ UNCHANGED <<round, said, cancelled, page>>
      BY <2>1 DEF Panic, Return
    <3>2. call[k] = "running"
      BY <3>1 DEF IInv, Tree
    <3>3. /\ pc' \in [Sessions -> Pcs] /\ end' \in [Sessions -> Ends]
          /\ \A s \in Sessions : pc'[s] = IF s = k THEN "over" ELSE pc[s]
      BY <1>1, <3>1 DEF IInv, Typed, Pcs, Ends
    <3> QED BY <1>1, <3>1, <3>2, <3>3
  <2>2. CASE \E unread \in BOOLEAN : Finish(k, unread)
    <3>1. /\ pc[k] = "over" /\ call[k] = "running" /\ call' = [call EXCEPT ![k] = "result"]
          /\ UNCHANGED <<pc, end, round, said, cancelled, page>>
      BY <2>2 DEF Finish
    <3> QED BY <1>1, <3>1 DEF IInv, Typed
  <2> QED BY <2>1, <2>2
<1>4. /\ call' \in [AgentCalls -> CallStates]
      /\ \A j \in AgentCalls : call'[j] = IF j = k THEN "result" ELSE call[j]
      /\ \A j \in AgentCalls : call'[j] # "none" => call[j] # "none"
      /\ Tree'
  <2>1. "result" \in CallStates /\ call[k] \notin Settled
    BY <1>3 DEF CallStates, Settled
  <2>2. pc'[k] \notin {"model", "calls"}
    BY <1>3
  <2> QED BY <1>1, <1>3, <2>1, <2>2, CallMoves
<1>5. /\ result' \in [AgentCalls -> Results]
      /\ \A j \in AgentCalls : result'[j] = IF j = k THEN r ELSE result[j]
  BY <1>1, <1>2, ResultSet
<1>6. /\ card' \in [Children -> Cards]
      /\ ~cancelled => \A j \in Children :
           card'[j] = IF j = k THEN (IF isError THEN "error" ELSE "done") ELSE card[j]
  <2>1. ~cancelled => card[k] # "none"
    BY <1>3 DEF IInv, Dealt
  <2>2. card' = IF cancelled \/ card[k] = "none" THEN card
                ELSE [card EXCEPT ![k] = IF isError THEN "error" ELSE "done"]
    BY <1>2 DEF FinishSubagentCard
  <2> QED BY <2>1, <2>2 DEF IInv, Typed, Cards
<1>7. Typed'
  BY <1>3, <1>4, <1>5, <1>6 DEF IInv, Typed
<1>8. Rounds'
  <2>1. \A s \in Sessions : pc'[s] \in {"none", "model", "calls"} => pc[s] \in {"none", "model", "calls"}
    BY <1>3
  <2> QED BY <1>3, <2>1 DEF IInv, Rounds
<1>9. Dealt'
  <2> SUFFICES ASSUME ~cancelled, NEW j \in Children
               PROVE  /\ (pc'[j] # "none") <=> (card'[j] # "none")
                      /\ (card'[j] = "running") <=> (call'[j] = "running")
                      /\ card'[j] \in {"done", "error"} => card'[j] = StateOf(result'[j])
    BY <1>3 DEF Dealt
  <2>1. j \in Sessions /\ j \in AgentCalls
    BY ChildFacts
  <2>2. CASE j = k
    <3>1. card'[k] = (IF isError THEN "error" ELSE "done") /\ result'[k] = r
          /\ StateOf(r) = (IF isError THEN "error" ELSE "done")
      BY <1>1, <1>2, <1>5, <1>6 DEF StateOf
    <3> QED BY <1>1, <1>3, <1>4, <2>2, <3>1
  <2>3. CASE j # k
    BY <1>3, <1>4, <1>5, <1>6, <2>1, <2>3 DEF IInv, Dealt
  <2> QED BY <2>2, <2>3
<1>10. AllFit' /\ \A id : Shown(id) => Shown(id)'
  BY <1>3, PageKept DEF IInv
<1>11. Announced'
  BY <1>3, <1>4, <1>10, AnnouncedKept DEF IInv
<1> QED BY <1>4, <1>7, <1>8, <1>9, <1>10, <1>11 DEF IInv

LEMMA CancelStep == ASSUME IInv, Cancel PROVE IInv'
<1>1. /\ cancelled' = TRUE /\ page' = {} /\ card' = [k \in Children |-> "none"]
      /\ UNCHANGED <<pc, end, round, said, call, result>>
  BY DEF Cancel
<1>2. Typed' /\ Rounds' /\ Tree'
  BY <1>1 DEF IInv, Typed, Cards, Rounds, Tree
<1>3. Dealt' /\ Announced' /\ AllFit'
  BY <1>1 DEF Dealt, Announced, AllFit
<1> QED BY <1>2, <1>3 DEF IInv

LEMMA IInvStep == IInv /\ [Next]_vars => IInv'
<1> SUFFICES ASSUME IInv, [Next]_vars PROVE IInv'
  OBVIOUS
<1>1. ASSUME NEW s \in Sessions, TurnStep(s) PROVE IInv'
  BY <1>1, ReturnStep, AskStep, StoreStep DEF TurnStep
<1>2. ASSUME NEW k \in AgentCalls, CallStep(k) PROVE IInv'
  BY <1>2, SpawnStep, NoChildStep, AnswerStep DEF CallStep
<1>3. ASSUME NEW k \in Children, ChildStep(k) PROVE IInv'
  BY <1>3, ChildOver DEF ChildStep
<1>4. ASSUME UNCHANGED vars PROVE IInv'
  <2>1. UNCHANGED <<pc, end, round, said, call, result, cancelled, page, card>>
    BY <1>4 DEF vars
  <2>2. Typed' /\ Rounds' /\ Tree' /\ Dealt'
    BY <2>1 DEF IInv, Typed, Rounds, Tree, Dealt
  <2>3. AllFit' /\ \A id : Shown(id) => Shown(id)'
    BY <2>1, PageKept DEF IInv
  <2>4. Announced'
    BY <2>1, <2>3, AnnouncedKept DEF IInv
  <2> QED BY <2>2, <2>3, <2>4 DEF IInv
<1> QED BY <1>1, <1>2, <1>3, <1>4, CancelStep DEF Next, Step

LEMMA AlwaysIInv == Spec => []IInv
  BY IInvInit, IInvStep, PTL DEF Spec

-----------------------------------------------------------------------------
(* Every session of the tree keeps its counters: no turn streams more      *)
(* replies than the cap allows, one of them to stop by it.                 *)
THEOREM TypeCorrect == Spec => []TypeOK
<1>1. IInv => TypeOK
  <2> SUFFICES ASSUME IInv PROVE TypeOK
    OBVIOUS
  <2> USE SubAgentsAssumption
  <2>1. /\ round \in [Sessions -> Nat] /\ said \in [Sessions -> Nat]
        /\ \A s \in Sessions : said[s] <= round[s] /\ round[s] <= MaxToolRounds + 1
    BY DEF IInv, Typed, Rounds
  <2>2. round \in [Sessions -> 0 .. MaxToolRounds + 1] /\ \A s \in Sessions : said[s] \in 0 .. round[s]
    BY <2>1
  <2> QED BY <2>2 DEF IInv, Typed, TypeOK, Pcs, Ends, CallStates, Cards
<1> QED BY <1>1, AlwaysIInv, PTL

(* Calls, results and cards stand where a reader looks for them, however   *)
(* deep the tree and in whatever order its goroutines ran: childSink tags  *)
(* an event once, and STEP_STARTED names the id the call was shown under.  *)
THEOREM EventsInPlace == Spec => []InPlace
<1>1. IInv => InPlace
  BY DEF IInv, AllFit, FitsCall, FitsCard, FitsEnd, InPlace
<1> QED BY <1>1, AlwaysIInv, PTL

(* A live call makes every turn above it wait, up to the root's.           *)
LEMMA RootOver ==
  ASSUME IInv, pc[Root] = "over"
  PROVE  \A k \in AgentCalls : call[k] \in Settled
<1> DEFINE Live == {k \in AgentCalls : call[k] \notin Settled}
           T == {Len(k) : k \in Live}
<1> SUFFICES ASSUME Live # {} PROVE FALSE
  OBVIOUS
<1>1. T \in SUBSET Nat /\ T # {}
  BY CallFacts
<1>2. PICK n \in T : \A m \in T : n <= m
  BY <1>1, LeastNat
<1>3. PICK k \in Live : n = Len(k)
  OBVIOUS
<1>4. k \in AgentCalls /\ pc[Parent(k)] = "calls"
  BY DEF IInv, Tree
<1>5. Parent(k) # Root
  BY <1>4
<1>6. Parent(k) \in Children /\ Len(Parent(k)) = Len(k) - 1 /\ Len(k) \in Nat
  BY <1>4, <1>5, CallFacts
<1>7. Parent(k) \in AgentCalls /\ call[Parent(k)] = "running"
  BY <1>4, <1>6, ChildFacts DEF IInv, Tree
<1>8. Parent(k) \in Live
  BY <1>7 DEF Settled
<1>9. Len(Parent(k)) \in T /\ ~(Len(k) <= Len(Parent(k)))
  BY <1>6, <1>8
<1> QED BY <1>2, <1>3, <1>9

(* The live page and the history tell the same of every child turn: it has *)
(* a card, the card shows what the stored result says, and none is left    *)
(* running when the run ends, panics and failures included.                *)
THEOREM CardsAgree == Spec => []CardsTell
<1>1. IInv => CardsTell
  <2> SUFFICES ASSUME IInv, ~cancelled, NEW k \in Children
               PROVE  /\ pc[k] # "none" => card[k] # "none"
                      /\ call[k] \in {"answered", "stored"} /\ card[k] # "none" =>
                           card[k] = StateOf(result[k])
                      /\ pc[Root] = "over" => card[k] # "running"
    BY DEF CardsTell
  <2>1. /\ (pc[k] # "none") <=> (card[k] # "none")
        /\ (card[k] = "running") <=> (call[k] = "running")
        /\ card[k] \in {"done", "error"} => card[k] = StateOf(result[k])
    BY DEF IInv, Dealt
  <2>2. card[k] \in Cards
    BY DEF IInv, Typed
  <2>3. pc[Root] = "over" => call[k] # "running"
    BY RootOver, ChildFacts DEF Settled
  <2> QED BY <2>1, <2>2, <2>3 DEF Cards
<1> QED BY <1>1, AlwaysIInv, PTL

=============================================================================
