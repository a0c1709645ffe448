--------------------------- MODULE AgentConfigProofs ---------------------------
(***************************************************************************)
(* Theorems about AgentConfig and the workflows of FlowMap, for every set  *)
(* of archives, skills, endpoints, bodies, editors and generators.         *)
(***************************************************************************)
EXTENDS AgentConfig, SequenceTheorems, TLAPS

-----------------------------------------------------------------------------
(* The invariant.                                                          *)

(* A config as it is stored: the text of its workflows refers to its own   *)
(* skills, and its own skills suggest its own endpoints.                   *)
Sound(c) ==
    /\ c = [endpoints |-> c.endpoints, skills |-> c.skills, flows |-> c.flows]
    /\ c.endpoints \subseteq Endpoints
    /\ \E D \in SUBSET SkillIds : c.skills \in [D -> Skill]
    /\ \E D : c.flows \in [D -> Flow]
    /\ Validate(c)

Told(b) == \A w \in b.flows : SkillsOf(w) \subseteq b.skills \cup b.actions \cup Unseen(w)

Begun ==
    /\ status \in Statuses
    /\ IF status = "none"
         THEN zip = None /\ landed = None
         ELSE zip \in Archives /\ Parseable(zip) /\ Sound(config)

Edited ==
    \A e \in Editors :
        /\ editor[e] = [pc |-> editor[e].pc, config |-> editor[e].config]
        /\ editor[e].pc \in {"idle", "load", "save"}
        /\ status = "none" => editor[e].pc = "idle"
        /\ editor[e].pc = "save" => Sound(editor[e].config)

Generated ==
    /\ \A g \in Generators :
         /\ gen[g] = [pc |-> gen[g].pc, bundle |-> gen[g].bundle]
         /\ gen[g].pc \in {"idle", "generate", "seed", "land"}
         /\ status = "none" => gen[g].pc = "idle"
         /\ gen[g].pc \in {"seed", "land"} => Told(gen[g].bundle)
    /\ landed # None => Told(landed)

Counted == edits \in Nat /\ faults \in 0 .. MaxFaults

Tables == editor \in [Editors -> {editor[e] : e \in Editors}] /\ gen \in [Generators -> {gen[g] : g \in Generators}]

IInv == Tables /\ Begun /\ Edited /\ Generated /\ Counted

-----------------------------------------------------------------------------
(* Nodes and edges of a workflow, and their text.                          *)

Nodes == [id : NodeIds, kind : Shapes \ {"bare", "spaced"}, label : SkillIds \cup {None}]
Edges == [from : NodeIds, to : NodeIds, label : Labels \cup {None}]
Declared(n) == [id |-> n.id, shape |-> n.kind, label |-> n.label]

LEMMA TokensAre ==
  ASSUME NEW w, w \subseteq Line
  PROVE  /\ Tokens(w) \subseteq Token
         /\ \A l \in w : l.from \in Tokens(w) /\ (l.to # None => l.to \in Tokens(w))
  BY DEF Tokens, Line

LEMMA NodesAre ==
  ASSUME NEW w, w \subseteq Line
  PROVE  NodesOf(w) \subseteq Nodes /\ EdgesOf(w) \subseteq Edges
<1>1. \A t \in Shaped(w) : t \in Token /\ t.shape # "bare"
  BY TokensAre DEF Shaped
<1>2. \A t \in Shaped(w) : Kind(t) \in Shapes \ {"bare", "spaced"}
  BY <1>1 DEF Token, Kind, Shapes
<1>3. NodesOf(w) \subseteq Nodes
  BY <1>1, <1>2 DEF NodesOf, Nodes, Token
<1>4. \A l \in w : l.to # None => l.from \in Token /\ l.to \in Token /\ l.label \in Labels \cup {None}
  BY DEF Line
<1>5. EdgesOf(w) \subseteq Edges
  BY <1>4 DEF EdgesOf, Edges, Token
<1> QED BY <1>3, <1>5

LEMMA BareIs ==
  ASSUME NEW id \in NodeIds
  PROVE  Bare(id) \in Token /\ Bare(id).id = id /\ Bare(id).shape = "bare" /\ Bare(id) # None
<1>1. Bare(id) \in Token
  BY DEF Bare, Token, Shapes
<1> QED BY <1>1, FlowMapAssumption DEF Bare

LEMMA DeclaredIs ==
  ASSUME NEW n \in Nodes
  PROVE  /\ Declared(n) \in Token /\ Declared(n).id = n.id /\ Declared(n).shape = n.kind
         /\ Declared(n).label = n.label /\ Declared(n).shape \notin {"bare", "spaced"}
         /\ [id |-> Declared(n).id, kind |-> Kind(Declared(n)), label |-> Declared(n).label] = n
  BY DEF Nodes, Declared, Token, Kind

(* What is serialized is read back: the same nodes and the same edges.     *)
LEMMA ReadBack ==
  ASSUME NEW N, N \subseteq Nodes, NEW E, E \subseteq Edges
  PROVE  LET w == Serialize(N, E)
         IN  /\ w \subseteq Line
             /\ Tokens(w) = {Declared(n) : n \in N} \cup {Bare(e.from) : e \in E} \cup {Bare(e.to) : e \in E}
             /\ Shaped(w) = {Declared(n) : n \in N}
             /\ NodesOf(w) = N
             /\ EdgesOf(w) = E
<1> DEFINE D(n) == [from |-> Declared(n), to |-> None, label |-> None]
           A(e) == [from |-> Bare(e.from), to |-> Bare(e.to), label |-> e.label]
           w == Serialize(N, E)
<1>1. w = {D(n) : n \in N} \cup {A(e) : e \in E}
  BY DEF Serialize, Declared
<1>2. \A n \in N : D(n) \in Line /\ D(n).from = Declared(n) /\ D(n).to = None
  BY DeclaredIs DEF Line
<1>3. \A e \in E : /\ A(e) \in Line /\ A(e).from = Bare(e.from) /\ A(e).to = Bare(e.to) /\ A(e).label = e.label
                   /\ A(e).to # None
  BY BareIs DEF Line, Edges
<1> HIDE DEF D, A, w
<1>4. w \subseteq Line
  BY <1>1, <1>2, <1>3
<1>5. Tokens(w) = {Declared(n) : n \in N} \cup {Bare(e.from) : e \in E} \cup {Bare(e.to) : e \in E}
  <2>1. {l.from : l \in w} = {Declared(n) : n \in N} \cup {Bare(e.from) : e \in E}
    BY <1>1, <1>2, <1>3
  <2>2. {l.to : l \in w} \ {None} = {Bare(e.to) : e \in E}
    BY <1>1, <1>2, <1>3
  <2> QED BY <2>1, <2>2 DEF Tokens
<1>6. Shaped(w) = {Declared(n) : n \in N}
  <2>1. \A n \in N : Declared(n).shape # "bare"
    BY DeclaredIs
  <2>2. \A e \in E : Bare(e.from).shape = "bare" /\ Bare(e.to).shape = "bare"
    BY DEF Bare
  <2> QED BY <1>5, <2>1, <2>2 DEF Shaped
<1>7. NodesOf(w) = N
  <2> DEFINE R(t) == [id |-> t.id, kind |-> Kind(t), label |-> t.label]
  <2>1. NodesOf(w) = {R(t) : t \in {Declared(n) : n \in N}}
    BY <1>6 DEF NodesOf
  <2>2. \A n \in N : R(Declared(n)) = n
    BY DeclaredIs
  <2> HIDE DEF R
  <2> QED BY <2>1, <2>2
<1>8. EdgesOf(w) = E
  <2> DEFINE R(l) == [from |-> l.from.id, to |-> l.to.id, label |-> l.label]
  <2>1. {k \in w : k.to # None} = {A(e) : e \in E}
    BY <1>1, <1>2, <1>3
  <2>2. EdgesOf(w) = {R(l) : l \in {A(e) : e \in E}}
    BY <2>1 DEF EdgesOf
  <2>3. \A e \in E : R(A(e)) = e
    BY <1>3, BareIs DEF Edges
  <2> HIDE DEF R
  <2> QED BY <2>2, <2>3
<1> QED BY <1>4, <1>5, <1>6, <1>7, <1>8 DEF w

LEMMA BypassIs ==
  ASSUME NEW E, E \subseteq Edges, NEW par
  PROVE  /\ Bypass(E, par) \subseteq Edges
         /\ \A e \in Bypass(E, par) :
              /\ \E p, s \in E : e.from = p.from /\ e.to = s.to
              /\ e.from \notin par /\ e.to \notin par
         /\ par = {} => Bypass(E, par) = E
<1>1. \A x \in Ways(E, par) : /\ x[1] \in E /\ x[2] \in E /\ x[1].to = x[2].from /\ x[1].to \in par
                              /\ x[1].from \notin par /\ x[2].to \notin par
  BY DEF Ways
<1>2. \A p, s \in Edges : Joined(p, s) \in Edges /\ Joined(p, s).from = p.from /\ Joined(p, s).to = s.to
  BY DEF Joined, Edges
<1>3. ASSUME NEW e \in Bypass(E, par)
      PROVE  /\ e \in Edges
             /\ \E p, s \in E : e.from = p.from /\ e.to = s.to
             /\ e.from \notin par /\ e.to \notin par
  <2>1. CASE e \in E /\ e.from \notin par /\ e.to \notin par
    BY <2>1
  <2>2. CASE \E x \in Ways(E, par) : e = Joined(x[1], x[2])
    <3>1. PICK x \in Ways(E, par) : e = Joined(x[1], x[2])
      BY <2>2
    <3> QED BY <1>1, <1>2, <3>1
  <2> QED BY <1>3, <2>1, <2>2 DEF Bypass
<1>4. par = {} => Bypass(E, par) = E
  BY DEF Bypass, Ways
<1> QED BY <1>3, <1>4

-----------------------------------------------------------------------------
(* Normalizing a workflow.                                                 *)

Kept(w) == {m \in NodesOf(w) : m.id \notin Parallels(w)}
Joins(w) == Bypass(EdgesOf(w), Parallels(w))

LEMMA NormalIs ==
  ASSUME NEW w, w \subseteq Line
  PROVE  LET n == NormalizeMermaid(w)
         IN  /\ n \subseteq Line
             /\ Kept(w) \subseteq Nodes /\ Joins(w) \subseteq Edges
             /\ Tokens(n) = {Declared(m) : m \in Kept(w)} \cup {Bare(e.from) : e \in Joins(w)}
                            \cup {Bare(e.to) : e \in Joins(w)}
             /\ Shaped(n) = {Declared(m) : m \in Kept(w)}
             /\ NodesOf(n) = Kept(w) /\ EdgesOf(n) = Joins(w)
             /\ Parallels(n) = {}
<1> DEFINE N == Kept(w)
           E == Joins(w)
           n == NormalizeMermaid(w)
<1>1. N \subseteq Nodes /\ E \subseteq Edges
  BY NodesAre, BypassIs DEF Kept, Joins
<1>2. n = Serialize(N, E)
  BY DEF NormalizeMermaid, Kept, Joins
<1> HIDE DEF n, N, E
<1>3. /\ n \subseteq Line
      /\ Tokens(n) = {Declared(m) : m \in N} \cup {Bare(e.from) : e \in E} \cup {Bare(e.to) : e \in E}
      /\ Shaped(n) = {Declared(m) : m \in N}
      /\ NodesOf(n) = N /\ EdgesOf(n) = E
  BY <1>1, <1>2, ReadBack
<1>4. \A t \in Tokens(n) : t.shape = "bare" \/ \E m \in N : t = Declared(m)
  BY <1>3 DEF Bare
<1>5. Parallels(n) = {}
  <2>1. SUFFICES ASSUME NEW t \in Tokens(n), t.shape = "parallel" PROVE FALSE
    BY DEF Parallels
  <2>2. PICK m \in N : t = Declared(m)
    BY <1>4, <2>1
  <2>3. m.kind = "parallel"
    BY <1>1, <2>1, <2>2, DeclaredIs
  <2>4. m \in NodesOf(w) /\ m.id \notin Parallels(w)
    BY DEF N, Kept
  <2>5. PICK u \in Shaped(w) : m = [id |-> u.id, kind |-> Kind(u), label |-> u.label]
    BY <2>4 DEF NodesOf
  <2>6. u.shape = "parallel" /\ m.id = u.id /\ u \in Tokens(w)
    BY <2>3, <2>5 DEF Kind, Shaped
  <2> QED BY <2>4, <2>6 DEF Parallels
<1> QED BY <1>1, <1>3, <1>5 DEF n, N, E

(* Every node is declared, so none but the fan-outs is lost.               *)
LEMMA NoneLost ==
  ASSUME NEW w, w \subseteq Line, LooseParses(w)
  PROVE  /\ {m.id : m \in Kept(w)} = {t.id : t \in Tokens(w)} \ Parallels(w)
         /\ \A e \in Joins(w) : \E m, k \in Kept(w) : m.id = e.from /\ k.id = e.to
<1> DEFINE ids == {t.id : t \in Tokens(w)} \ Parallels(w)
<1>1. ASSUME NEW m \in Kept(w) PROVE m.id \in ids
  <2>1. m \in NodesOf(w) /\ m.id \notin Parallels(w)
    BY DEF Kept
  <2>2. PICK u \in Shaped(w) : m = [id |-> u.id, kind |-> Kind(u), label |-> u.label]
    BY <2>1 DEF NodesOf
  <2> QED BY <2>1, <2>2 DEF Shaped
<1>2. ASSUME NEW i \in ids PROVE \E m \in Kept(w) : m.id = i
  <2>1. PICK t \in Tokens(w) : t.id = i
    OBVIOUS
  <2>2. PICK s \in Shaped(w) : s.id = i
    BY <2>1 DEF LooseParses
  <2> DEFINE m == [id |-> s.id, kind |-> Kind(s), label |-> s.label]
  <2>3. m \in NodesOf(w) /\ m.id = i
    BY <2>2 DEF NodesOf
  <2> QED BY <2>3 DEF Kept
<1>3. {m.id : m \in Kept(w)} = ids
  BY <1>1, <1>2
<1>4. ASSUME NEW e \in Joins(w) PROVE e.from \in ids /\ e.to \in ids
  <2>1. PICK p, s \in EdgesOf(w) : e.from = p.from /\ e.to = s.to
    BY NodesAre, BypassIs DEF Joins
  <2>2. e.from \notin Parallels(w) /\ e.to \notin Parallels(w)
    BY NodesAre, BypassIs DEF Joins
  <2>3. PICK k \in w : k.to # None /\ p.from = k.from.id
    BY DEF EdgesOf
  <2>4. PICK l \in w : l.to # None /\ s.to = l.to.id
    BY DEF EdgesOf
  <2>5. k.from \in Tokens(w) /\ l.to \in Tokens(w)
    BY <2>4, TokensAre
  <2> QED BY <2>1, <2>2, <2>3, <2>4, <2>5
<1> QED BY <1>2, <1>3, <1>4

(* Two nodes are joined by the fan-outs between them.                      *)
LEMMA LedIs ==
  ASSUME NEW E, E \subseteq Edges, NEW par, NEW a, NEW b, a \notin par, b \notin par
  PROVE  /\ (\E e \in Bypass(E, par) : e.from = a /\ e.to = b) => Through(E, par, a, b)
         /\ Through(E, par, a, b) /\ ~Chained(E, par) => \E e \in Bypass(E, par) : e.from = a /\ e.to = b
<1> DEFINE Step(path, i) == \E e \in E : /\ e.from = IF i = 0 THEN a ELSE path[i]
                                         /\ e.to = IF i = Len(path) THEN b ELSE path[i + 1]
           Paths == {<<>>} \cup {<<p>> : p \in par} \cup {<<p, q>> : p, q \in par}
<1>1. Through(E, par, a, b) <=> \E path \in Paths : \A i \in 0 .. Len(path) : Step(path, i)
  BY DEF Through
<1>2. ASSUME NEW e \in Bypass(E, par), e.from = a, e.to = b
      PROVE  Through(E, par, a, b)
  <2>1. CASE e \in E
    <3>1. Step(<<>>, 0)
      BY <1>2, <2>1
    <3>2. \A i \in 0 .. Len(<<>>) : i = 0
      OBVIOUS
    <3>3. <<>> \in Paths
      OBVIOUS
    <3> HIDE DEF Step, Paths
    <3> QED BY <1>1, <3>1, <3>2, <3>3
  <2>2. CASE \E x \in Ways(E, par) : e = Joined(x[1], x[2])
    <3>1. PICK x \in Ways(E, par) : e = Joined(x[1], x[2])
      BY <2>2
    <3>2. x[1] \in E /\ x[2] \in E /\ x[1].to = x[2].from /\ x[1].to \in par
      BY DEF Ways
    <3>3. x[1].from = a /\ x[2].to = b
      BY <1>2, <3>1 DEF Joined
    <3> DEFINE path == <<x[1].to>>
    <3>4. path \in Paths /\ Len(path) = 1 /\ path[1] = x[1].to
      BY <3>2
    <3>5. \A i \in 0 .. 1 : i = 0 \/ i = 1
      OBVIOUS
    <3> HIDE DEF path
    <3>6. Step(path, 0)
      BY <3>2, <3>3, <3>4
    <3>7. Step(path, 1)
      BY <3>2, <3>3, <3>4
    <3> HIDE DEF Step, Paths
    <3> QED BY <1>1, <3>4, <3>5, <3>6, <3>7
  <2> QED BY <2>1, <2>2 DEF Bypass
<1>3. ASSUME Through(E, par, a, b), ~Chained(E, par)
      PROVE  \E e \in Bypass(E, par) : e.from = a /\ e.to = b
  <2>1. PICK path \in Paths : \A i \in 0 .. Len(path) : Step(path, i)
    BY <1>1, <1>3
  <2>2. CASE path = <<>>
    <3>1. Step(path, 0)
      BY <2>1, <2>2
    <3>2. PICK e \in E : e.from = a /\ e.to = b
      BY <2>2, <3>1
    <3> QED BY <3>2 DEF Bypass
  <2>3. CASE \E p \in par : path = <<p>>
    <3>1. PICK p \in par : path = <<p>>
      BY <2>3
    <3>2. Len(path) = 1 /\ path[1] = p
      BY <3>1
    <3>3. Step(path, 0) /\ Step(path, 1)
      BY <2>1, <3>2
    <3>4. PICK e \in E : e.from = a /\ e.to = p
      BY <3>2, <3>3
    <3>5. PICK d \in E : d.from = p /\ d.to = b
      BY <3>2, <3>3
    <3> DEFINE x == <<e, d>>
    <3>6. x \in Ways(E, par) /\ x[1] = e /\ x[2] = d
      BY <3>4, <3>5 DEF Ways
    <3>7. Joined(x[1], x[2]) \in Bypass(E, par)
      BY <3>6 DEF Bypass
    <3>8. Joined(x[1], x[2]).from = a /\ Joined(x[1], x[2]).to = b
      BY <3>4, <3>5, <3>6 DEF Joined
    <3> QED BY <3>7, <3>8
  <2>4. CASE \E p, q \in par : path = <<p, q>>
    <3>1. PICK p, q \in par : path = <<p, q>>
      BY <2>4
    <3>2. Len(path) = 2 /\ path[1] = p /\ path[2] = q
      BY <3>1
    <3>3. Step(path, 1)
      BY <2>1, <3>2
    <3>4. \E e \in E : e.from = p /\ e.to = q
      BY <3>2, <3>3
    <3> QED BY <1>3, <3>4 DEF Chained
  <2> QED BY <2>2, <2>3, <2>4
<1> QED BY <1>2, <1>3

(* What NormalizeMermaid makes of any workflow that parses can be parsed,  *)
(* is normal, loses only fan-outs and keeps the ways through them.         *)
LEMMA NormalizesSoundly ==
  ASSUME NEW w, w \subseteq Line, LooseParses(w)
  PROVE  NormalizeIsSound(w)
<1> DEFINE n == NormalizeMermaid(w)
           par == Parallels(w)
           ids == {t.id : t \in Tokens(w)} \ par
<1>1. /\ n \subseteq Line
      /\ Kept(w) \subseteq Nodes /\ Joins(w) \subseteq Edges
      /\ Tokens(n) = {Declared(m) : m \in Kept(w)} \cup {Bare(e.from) : e \in Joins(w)} \cup {Bare(e.to) : e \in Joins(w)}
      /\ Shaped(n) = {Declared(m) : m \in Kept(w)}
      /\ NodesOf(n) = Kept(w) /\ EdgesOf(n) = Joins(w)
      /\ Parallels(n) = {}
  BY NormalIs
<1>2. /\ {m.id : m \in Kept(w)} = ids
      /\ \A e \in Joins(w) : \E m, k \in Kept(w) : m.id = e.from /\ k.id = e.to
  BY NoneLost
<1>3. n = Serialize(Kept(w), Joins(w))
  BY DEF NormalizeMermaid, Kept, Joins
<1>4. NormalizeMermaid(n) = Serialize({m \in NodesOf(n) : m.id \notin Parallels(n)}, Bypass(EdgesOf(n), Parallels(n)))
  BY DEF NormalizeMermaid
<1> HIDE DEF n
<1>5. \A m \in Kept(w) : Declared(m) \in Shaped(n) /\ Declared(m).id = m.id
  BY <1>1, DeclaredIs
<1>6. \A e \in Joins(w) : Bare(e.from).id = e.from /\ Bare(e.to).id = e.to
  BY DEF Bare
<1>7. \A t \in Tokens(n) : \E s \in Shaped(n) : s.id = t.id
  <2>1. ASSUME NEW e \in Joins(w)
        PROVE  /\ \E s \in Shaped(n) : s.id = Bare(e.from).id
               /\ \E s \in Shaped(n) : s.id = Bare(e.to).id
    BY <1>2, <1>5, <1>6
  <2> QED BY <1>1, <2>1
<1>8. Parses(n)
  <2>1. ASSUME NEW l \in n, l.to = None PROVE l.from.shape # "bare"
    <3>1. CASE \E m \in Kept(w) : l = [from |-> Declared(m), to |-> None, label |-> None]
      BY <1>1, <3>1, DeclaredIs
    <3>2. CASE \E e \in Joins(w) : l = [from |-> Bare(e.from), to |-> Bare(e.to), label |-> e.label]
      BY <1>1, <2>1, <3>2, BareIs DEF Edges
    <3> QED BY <1>3, <3>1, <3>2 DEF Serialize, Declared
  <2> QED BY <1>1, <1>7, <2>1 DEF Parses, LooseParses
<1>9. NormalizeMermaid(n) = n
  <2>1. {m \in NodesOf(n) : m.id \notin Parallels(n)} = Kept(w)
    BY <1>1
  <2>2. Bypass(EdgesOf(n), Parallels(n)) = Joins(w)
    <3>1. Joins(w) \subseteq Edges
      BY <1>1
    <3>2. Bypass(Joins(w), {}) = Joins(w)
      BY <3>1, BypassIs
    <3> QED BY <1>1, <3>2
  <2> QED BY <1>3, <1>4, <2>1, <2>2
<1>10. {t.id : t \in Tokens(n)} = ids
  <2>1. ASSUME NEW t \in Tokens(n) PROVE t.id \in ids
    <3>1. PICK s \in Shaped(n) : s.id = t.id
      BY <1>7
    <3>2. PICK m \in Kept(w) : s = Declared(m)
      BY <1>1
    <3>3. m.id = t.id
      BY <1>5, <3>1, <3>2
    <3> QED BY <1>2, <3>3
  <2>2. \A i \in ids : \E t \in Tokens(n) : t.id = i
    BY <1>1, <1>2, <1>5
  <2> QED BY <2>1, <2>2
<1>11. ASSUME NEW a \in ids, NEW b \in ids
       PROVE  LET joined == \E e \in EdgesOf(n) : e.from = a /\ e.to = b
                  led == Through(EdgesOf(w), par, a, b)
              IN  (joined => led) /\ (led /\ ~Chained(EdgesOf(w), par) => joined)
  BY <1>1, NodesAre, LedIs DEF Joins
<1> QED BY <1>8, <1>9, <1>10, <1>11 DEF NormalizeIsSound, n

-----------------------------------------------------------------------------
(* A flow that only lists skills.                                          *)

LEMMA FallbackIs ==
  ASSUME NEW used \in Seq(SkillIds)
  PROVE  /\ LinearFallback(used) \subseteq Line
         /\ EdgesOf(LinearFallback(used)) =
              {[from |-> IF i = 0 THEN "start" ELSE NodeOf[used[i]],
                to |-> IF i = Len(used) THEN "e" ELSE NodeOf[used[i + 1]],
                label |-> None] : i \in 0 .. Len(used)}
<1> DEFINE n == Len(used)
           Step(i) == [id |-> NodeOf[used[i]], shape |-> "skill", label |-> used[i]]
           From(i) == IF i = 0 THEN [id |-> "start", shape |-> "start", label |-> None] ELSE Bare(NodeOf[used[i]])
           To(i) == IF i = n THEN [id |-> "e", shape |-> "end", label |-> None] ELSE Step(i + 1)
           L(i) == [from |-> From(i), to |-> To(i), label |-> None]
           F(i) == IF i = 0 THEN "start" ELSE NodeOf[used[i]]
           T(i) == IF i = n THEN "e" ELSE NodeOf[used[i + 1]]
           w == LinearFallback(used)
<1>1. w = {L(i) : i \in 0 .. n}
  BY DEF LinearFallback
<1>2. n \in Nat /\ \A i \in 1 .. n : used[i] \in SkillIds
  BY LenProperties, ElementOfSeq
<1>3. \A i \in 1 .. n : NodeOf[used[i]] \in NodeIds
  BY <1>2, FlowMapAssumption
<1>4. \A i \in 1 .. n : Step(i) \in Token /\ Step(i).id = NodeOf[used[i]]
  BY <1>2, <1>3 DEF Token, Shapes
<1>5. \A i \in 0 .. n : (i # 0 => i \in 1 .. n) /\ (i # n => i + 1 \in 1 .. n)
  BY <1>2
<1>6. ASSUME NEW i \in 0 .. n
      PROVE  From(i) \in Token /\ From(i).id = F(i)
  <2>1. CASE i = 0
    BY <2>1, FlowMapAssumption DEF Token, Shapes
  <2>2. CASE i # 0
    BY <1>3, <1>5, <2>2, BareIs
  <2> QED BY <2>1, <2>2
<1>7. ASSUME NEW i \in 0 .. n
      PROVE  To(i) \in Token /\ To(i).id = T(i)
  <2>1. CASE i = n
    BY <2>1, FlowMapAssumption DEF Token, Shapes
  <2>2. CASE i # n
    BY <1>4, <1>5, <2>2
  <2> QED BY <2>1, <2>2
<1> HIDE DEF From, To, F, T, w
<1>8. \A i \in 0 .. n : /\ L(i) \in Line /\ L(i).to # None
                        /\ L(i).from.id = F(i) /\ L(i).to.id = T(i) /\ L(i).label = None
  BY <1>6, <1>7, FlowMapAssumption DEF Line
<1> HIDE DEF L
<1>9. EdgesOf(w) = {[from |-> F(i), to |-> T(i), label |-> None] : i \in 0 .. n}
  <2>1. {k \in w : k.to # None} = {L(i) : i \in 0 .. n}
    BY <1>1, <1>8
  <2> DEFINE R(l) == [from |-> l.from.id, to |-> l.to.id, label |-> l.label]
  <2>2. EdgesOf(w) = {R(l) : l \in {L(i) : i \in 0 .. n}}
    BY <2>1 DEF EdgesOf
  <2>3. \A i \in 0 .. n : R(L(i)) = [from |-> F(i), to |-> T(i), label |-> None]
    BY <1>8
  <2> HIDE DEF R
  <2> QED BY <2>2, <2>3
<1> QED BY <1>1, <1>8, <1>9 DEF w, F, T

LEMMA FallbackLeads ==
  ASSUME NEW used \in Seq(SkillIds)
  PROVE  LET E == EdgesOf(LinearFallback(used))
             ids == {NodeOf[used[i]] : i \in DOMAIN used}
         IN  \A n \in ids \cup {"start"} :
                /\ SuccessorsOf(E, {n}) \cap (ids \cup {"e"}) # {}
                /\ n # "start" => \E e \in E : e.to = n
<1> DEFINE E == EdgesOf(LinearFallback(used))
           ids == {NodeOf[used[i]] : i \in DOMAIN used}
           N == Len(used)
           F(i) == IF i = 0 THEN "start" ELSE NodeOf[used[i]]
           T(i) == IF i = N THEN "e" ELSE NodeOf[used[i + 1]]
           X(i) == [from |-> F(i), to |-> T(i), label |-> None]
<1>1. E = {X(i) : i \in 0 .. N}
  BY FallbackIs
<1>2. N \in Nat /\ DOMAIN used = 1 .. N
  BY LenProperties
<1>3. \A i \in 0 .. N : X(i).from = F(i) /\ X(i).to = T(i)
  OBVIOUS
<1>4. \A i \in 0 .. N : T(i) \in ids \cup {"e"}
  <2>1. \A n \in Nat : \A i \in 0 .. n : i # n => i + 1 \in 1 .. n
    OBVIOUS
  <2> QED BY <1>2, <2>1
<1>5. \A i \in 0 .. N : i # 0 => i - 1 \in 0 .. N /\ i - 1 # N /\ i - 1 + 1 = i
  BY <1>2
<1>6. \A n \in ids \cup {"start"} : \E i \in 0 .. N : n = F(i)
  <2>1. \A n \in Nat : 0 \in 0 .. n /\ \A i \in 1 .. n : i \in 0 .. n /\ i # 0
    OBVIOUS
  <2> QED BY <1>2, <2>1
<1>7. \A n \in ids : \E i \in 1 .. N : n = NodeOf[used[i]]
  BY <1>2
<1> HIDE DEF E, ids, X, F
<1>8. ASSUME NEW n \in ids \cup {"start"}
      PROVE  SuccessorsOf(E, {n}) \cap (ids \cup {"e"}) # {}
  <2>1. PICK i \in 0 .. N : n = F(i)
    BY <1>6
  <2>2. X(i) \in E /\ X(i).from = n /\ X(i).to \in ids \cup {"e"}
    BY <1>1, <1>3, <1>4, <2>1
  <2> QED BY <2>2 DEF SuccessorsOf
<1>9. ASSUME NEW n \in ids
      PROVE  \E e \in E : e.to = n
  <2>1. PICK i \in 1 .. N : n = NodeOf[used[i]]
    BY <1>7
  <2>2. i \in 0 .. N /\ i # 0
    BY <1>2
  <2>3. i - 1 \in 0 .. N /\ T(i - 1) = n
    BY <1>5, <2>1, <2>2
  <2>4. X(i - 1) \in E /\ X(i - 1).to = n
    BY <1>1, <1>3, <2>3
  <2> QED BY <2>4
<1> QED BY <1>8, <1>9 DEF E, ids

-----------------------------------------------------------------------------
(* Reading an archive.                                                     *)

LEMMA SourceIs ==
  ASSUME NEW a \in Archives, NEW f \in DOMAIN a.flows
  PROVE  Source(a.flows[f]) \subseteq Line
  BY ConfigAssumption, FallbackIs DEF Source

LEMMA ArchiveReadSoundly ==
  ASSUME NEW a \in Archives, Parseable(a), NEW f \in DOMAIN a.flows
  PROVE  /\ NormalizeIsSound(Source(a.flows[f]))
         /\ LET E == EdgesOf(LinearFallback(a.flows[f].used))
                used == {NodeOf[a.flows[f].used[i]] : i \in DOMAIN a.flows[f].used}
            IN  \A n \in used \cup {"start"} :
                   /\ SuccessorsOf(E, {n}) \cap (used \cup {"e"}) # {}
                   /\ n # "start" => \E e \in E : e.to = n
<1>1. NormalizeIsSound(Source(a.flows[f]))
  BY SourceIs, NormalizesSoundly DEF Parseable
<1>2. a.flows[f].used \in Seq(SkillIds)
  BY ConfigAssumption
<1> QED BY <1>1, <1>2, FallbackLeads

(* What the parser reads as a skill is found by the pattern too, but for a *)
(* blank before a bracket.                                                 *)
LEMMA ReadIsFound ==
  ASSUME NEW w
  PROVE  SkillsOf(w) \subseteq Refs(w) \cup Unseen(w)
<1>1. ASSUME NEW m \in NodesOf(w), m.kind = "skill"
      PROVE  m.label \in Refs(w) \cup Unseen(w)
  <2>1. PICK t \in Shaped(w) : m = [id |-> t.id, kind |-> Kind(t), label |-> t.label]
    BY DEF NodesOf
  <2>2. t \in Tokens(w) /\ t.shape \in {"skill", "spaced"} /\ m.label = t.label
    BY <1>1, <2>1 DEF Kind, Shaped
  <2> QED BY <2>2 DEF Refs, Unseen
<1> QED BY <1>1 DEF SkillsOf

LEMMA ReadIsSound ==
  ASSUME NEW a \in Archives, Parseable(a)
  PROVE  Sound(Unvalidated(a))
<1> DEFINE c == Unvalidated(a)
           S == DOMAIN a.skills
           D == DOMAIN a.flows
<1>1. c = [endpoints |-> a.endpoints,
           skills |-> [s \in S |-> ParseSkill(a.skills[s])],
           flows |-> [f \in D |-> ParseFlow(a.flows[f])]]
  BY DEF Unvalidated
<1>2. Validate(c)
  BY DEF Parseable
<1>3. \A s \in S : ParseSkill(a.skills[s]) \in Skill
  BY ConfigAssumption DEF ParseSkill, Skill
<1>4. ASSUME NEW f \in D
      PROVE  ParseFlow(a.flows[f]) \in Flow
  <2> DEFINE w == Source(a.flows[f])
  <2>1. NormalizeMermaid(w) \subseteq Line
    BY SourceIs, NormalIs
  <2> QED BY <2>1 DEF ParseFlow, Flow
<1>5. S \in SUBSET SkillIds /\ a.endpoints \subseteq Endpoints
  BY ConfigAssumption
<1> HIDE DEF c, S, D
<1>6. c.skills \in [S -> Skill] /\ c.flows \in [D -> Flow]
  BY <1>1, <1>3, <1>4
<1>7. c.endpoints = a.endpoints /\ c = [endpoints |-> c.endpoints, skills |-> c.skills, flows |-> c.flows]
  BY <1>1
<1>8. (\E T \in SUBSET SkillIds : c.skills \in [T -> Skill]) /\ (\E T : c.flows \in [T -> Flow])
  BY <1>5, <1>6
<1>9. Sound(c)
  BY <1>2, <1>5, <1>7, <1>8 DEF Sound
<1> QED BY <1>9 DEF c

-----------------------------------------------------------------------------
(* Changing a config in memory keeps it sound.                             *)

LEMMA SoundIs ==
  ASSUME NEW c, Sound(c)
  PROVE  /\ DOMAIN c.skills \in SUBSET SkillIds /\ c.skills \in [DOMAIN c.skills -> Skill]
         /\ c.flows \in [DOMAIN c.flows -> Flow]
         /\ IsConfig(c)
<1>1. PICK D \in SUBSET SkillIds : c.skills \in [D -> Skill]
  BY DEF Sound
<1>2. PICK F : c.flows \in [F -> Flow]
  BY DEF Sound
<1>3. DOMAIN c.skills = D /\ DOMAIN c.flows = F
  BY <1>1, <1>2
<1>4. DOMAIN c = {"endpoints", "skills", "flows"}
  <2>1. c = [endpoints |-> c.endpoints, skills |-> c.skills, flows |-> c.flows]
    BY DEF Sound
  <2>2. \A x, y, z : DOMAIN [endpoints |-> x, skills |-> y, flows |-> z] = {"endpoints", "skills", "flows"}
    OBVIOUS
  <2> QED BY <2>1, <2>2
<1>5. IsConfig(c)
  BY <1>1, <1>2, <1>3, <1>4 DEF IsConfig, Sound, Flow
<1> QED BY <1>1, <1>2, <1>3, <1>5

(* Other flows, with the same skills.                                      *)
LEMMA NewFlows ==
  ASSUME NEW c, Sound(c), NEW f \in DOMAIN c.flows, NEW flow \in Flow, NEW d,
         d = [c EXCEPT !.flows = [c.flows EXCEPT ![f] = flow]],
         Refs(flow.workflow) \subseteq DOMAIN c.skills
  PROVE  Sound(d)
<1>1. c.flows \in [DOMAIN c.flows -> Flow]
  BY SoundIs
<1> DEFINE F == [c.flows EXCEPT ![f] = flow]
<1>2. F \in [DOMAIN c.flows -> Flow] /\ \A g \in DOMAIN c.flows : F[g] = IF g = f THEN flow ELSE c.flows[g]
  BY <1>1
<1> HIDE DEF F
<1>3. c = [endpoints |-> c.endpoints, skills |-> c.skills, flows |-> c.flows]
  BY DEF Sound
<1>4. d = [endpoints |-> c.endpoints, skills |-> c.skills, flows |-> F]
  BY <1>3 DEF F
<1>5. /\ d.endpoints = c.endpoints /\ d.skills = c.skills /\ d.flows = F
      /\ d = [endpoints |-> d.endpoints, skills |-> d.skills, flows |-> d.flows]
  <2>1. d.endpoints = c.endpoints /\ d.skills = c.skills /\ d.flows = F
    BY <1>4
  <2> QED BY <1>4, <2>1
<1>6. Validate(d)
  BY <1>2, <1>5 DEF Sound, Validate
<1> QED BY <1>2, <1>5, <1>6 DEF Sound

(* Other skills, that suggest known endpoints and leave no reference.      *)
LEMMA NewSkills ==
  ASSUME NEW c, Sound(c), NEW D \in SUBSET SkillIds, NEW skills \in [D -> Skill], NEW d,
         d = [c EXCEPT !.skills = skills],
         \A s \in D : ~skills[s].external => skills[s].suggested \subseteq c.endpoints,
         \A f \in DOMAIN c.flows : Refs(c.flows[f].workflow) \subseteq D
  PROVE  Sound(d)
<1>1. c = [endpoints |-> c.endpoints, skills |-> c.skills, flows |-> c.flows]
  BY DEF Sound
<1>2. d = [endpoints |-> c.endpoints, skills |-> skills, flows |-> c.flows]
  BY <1>1
<1>3. /\ d.endpoints = c.endpoints /\ d.skills = skills /\ d.flows = c.flows
      /\ d = [endpoints |-> d.endpoints, skills |-> d.skills, flows |-> d.flows]
  <2>1. d.endpoints = c.endpoints /\ d.skills = skills /\ d.flows = c.flows
    BY <1>2
  <2> QED BY <1>2, <2>1
<1>4. Validate(d)
  BY <1>3 DEF Validate
<1> QED BY <1>3, <1>4 DEF Sound

LEMMA FlowChanged ==
  ASSUME NEW c, Sound(c), NEW f \in DOMAIN c.flows, NEW d
  PROVE  /\ \A b \in BOOLEAN : d = [c EXCEPT !.flows[f].included = b] => Sound(d)
         /\ \A w \in Bodies : Refs(w) \subseteq DOMAIN c.skills /\ d = [c EXCEPT !.flows[f].workflow = w] => Sound(d)
<1>1. c.flows[f] \in Flow
  BY SoundIs
<1>2. /\ c = [endpoints |-> c.endpoints, skills |-> c.skills, flows |-> c.flows]
      /\ Refs(c.flows[f].workflow) \subseteq DOMAIN c.skills
  BY DEF Sound, Validate
<1>3. ASSUME NEW b \in BOOLEAN, d = [c EXCEPT !.flows[f].included = b]
      PROVE  Sound(d)
  <2> DEFINE flow == [c.flows[f] EXCEPT !.included = b]
  <2>1. flow \in Flow /\ flow.workflow = c.flows[f].workflow
    BY <1>1 DEF Flow
  <2>2. d = [c EXCEPT !.flows = [c.flows EXCEPT ![f] = flow]]
    BY <1>2, <1>3
  <2> HIDE DEF flow
  <2> QED BY <1>2, <2>1, <2>2, NewFlows
<1>4. ASSUME NEW w \in Bodies, Refs(w) \subseteq DOMAIN c.skills, d = [c EXCEPT !.flows[f].workflow = w]
      PROVE  Sound(d)
  <2> DEFINE flow == [c.flows[f] EXCEPT !.workflow = w]
  <2>1. flow \in Flow /\ flow.workflow = w
    BY <1>1, ConfigAssumption DEF Flow
  <2>2. d = [c EXCEPT !.flows = [c.flows EXCEPT ![f] = flow]]
    BY <1>2, <1>4
  <2> HIDE DEF flow
  <2> QED BY <1>4, <2>1, <2>2, NewFlows
<1> QED BY <1>3, <1>4

LEMMA SkillChanged ==
  ASSUME NEW c, Sound(c), NEW s \in SkillIds, NEW r \in Skill, NEW d,
         ~r.external => r.suggested \subseteq c.endpoints,
         d = [c EXCEPT !.skills = With(c.skills, s, r)]
  PROVE  Sound(d)
<1> DEFINE D == DOMAIN c.skills \cup {s}
           skills == With(c.skills, s, r)
<1>1. c.skills \in [DOMAIN c.skills -> Skill] /\ D \in SUBSET SkillIds
  BY SoundIs
<1>2. skills \in [D -> Skill] /\ \A t \in D : skills[t] = IF t = s THEN r ELSE c.skills[t]
  BY <1>1 DEF With
<1>3. d = [c EXCEPT !.skills = skills]
  OBVIOUS
<1> HIDE DEF skills
<1>4. \A t \in D : ~skills[t].external => skills[t].suggested \subseteq c.endpoints
  BY <1>2 DEF Sound, Validate
<1>5. \A f \in DOMAIN c.flows : Refs(c.flows[f].workflow) \subseteq D
  BY DEF Sound, Validate
<1> QED BY <1>1, <1>2, <1>3, <1>4, <1>5, NewSkills

LEMMA SkillRemoved ==
  ASSUME NEW c, Sound(c), NEW s \in DOMAIN c.skills, NEW d,
         \A f \in DOMAIN c.flows : s \notin Refs(c.flows[f].workflow),
         d = [c EXCEPT !.skills = Without(c.skills, s)]
  PROVE  Sound(d)
<1> DEFINE D == DOMAIN c.skills \ {s}
           skills == Without(c.skills, s)
<1>1. c.skills \in [DOMAIN c.skills -> Skill] /\ D \in SUBSET SkillIds
  BY SoundIs
<1>2. skills \in [D -> Skill] /\ \A t \in D : skills[t] = c.skills[t]
  BY <1>1 DEF Without
<1>3. d = [c EXCEPT !.skills = skills]
  OBVIOUS
<1> HIDE DEF skills
<1>4. \A t \in D : ~skills[t].external => skills[t].suggested \subseteq c.endpoints
  BY <1>2 DEF Sound, Validate
<1>5. \A f \in DOMAIN c.flows : Refs(c.flows[f].workflow) \subseteq D
  BY DEF Sound, Validate
<1> QED BY <1>1, <1>2, <1>3, <1>4, <1>5, NewSkills

LEMMA FormSkill ==
  ASSUME NEW c, Sound(c), c = config, NEW form \in Forms, FormIsKnown(form),
         NEW origin \in {"discovered", "custom"}
  PROVE  /\ [origin |-> origin, external |-> form.external, suggested |-> Suggested(form)] \in Skill
         /\ ~form.external => Suggested(form) \subseteq c.endpoints
  BY DEF Forms, FormIsKnown, Suggested, Skill

(* The agent's bundle has whatever its flows use.                          *)
LEMMA BundleTold ==
  ASSUME NEW c, Sound(c)
  PROVE  Told(Bundle(c))
<1> DEFINE F == {c.flows[f].workflow : f \in {x \in DOMAIN c.flows : c.flows[x].included}}
           I == {s \in DOMAIN c.skills : ~c.skills[s].external}
           A == {s \in DOMAIN c.skills : c.skills[s].external}
<1>1. \A w \in F : SkillsOf(w) \subseteq DOMAIN c.skills \cup Unseen(w)
  BY ReadIsFound DEF Sound, Validate
<1>2. DOMAIN c.skills = I \cup A
  OBVIOUS
<1>3. Bundle(c).flows = F /\ Bundle(c).skills = I /\ Bundle(c).actions = A
  BY DEF Bundle
<1> HIDE DEF F, I, A
<1> QED BY <1>1, <1>2, <1>3 DEF Told

-----------------------------------------------------------------------------
(* The invariant holds.                                                    *)

LEMMA InitHolds == Init => IInv
<1> SUFFICES ASSUME Init PROVE IInv
  OBVIOUS
<1>1. Tables /\ Edited
  BY DEF Init, Tables, Edited, Idle
<1>2. Begun
  BY DEF Init, Begun, Statuses
<1>3. Generated
  BY <1>1 DEF Init, Generated, IdleGen
<1>4. Counted
  BY ConfigAssumption DEF Init, Counted
<1> QED BY <1>1, <1>2, <1>3, <1>4 DEF IInv

LEMMA EditorsKept ==
  ASSUME IInv, NEW e \in Editors, NEW r, editor' = [editor EXCEPT ![e] = r],
         r = [pc |-> r.pc, config |-> r.config], r.pc \in {"idle", "load", "save"},
         status' = "none" => status = "none" /\ r.pc = "idle",
         r.pc = "save" => Sound(r.config)
  PROVE  Edited' /\ editor' \in [Editors -> {editor'[x] : x \in Editors}]
<1>1. editor \in [Editors -> {editor[x] : x \in Editors}]
  BY DEF IInv, Tables
<1>2. DOMAIN editor' = Editors /\ \A x \in Editors : editor'[x] = IF x = e THEN r ELSE editor[x]
  BY <1>1
<1>3. editor' = [x \in Editors |-> editor'[x]]
  BY <1>1
<1>4. ASSUME NEW x \in Editors
      PROVE  /\ editor'[x] = [pc |-> editor'[x].pc, config |-> editor'[x].config]
             /\ editor'[x].pc \in {"idle", "load", "save"}
             /\ status' = "none" => editor'[x].pc = "idle"
             /\ editor'[x].pc = "save" => Sound(editor'[x].config)
  <2>1. CASE x = e
    BY <1>2, <2>1
  <2>2. CASE x # e
    BY <1>2, <2>2 DEF IInv, Edited
  <2> QED BY <2>1, <2>2
<1> QED BY <1>3, <1>4 DEF Edited

LEMMA GeneratorsKept ==
  ASSUME IInv, NEW g \in Generators, NEW r, gen' = [gen EXCEPT ![g] = r],
         r = [pc |-> r.pc, bundle |-> r.bundle], r.pc \in {"idle", "generate", "seed", "land"},
         status' = "none" => status = "none" /\ r.pc = "idle",
         r.pc \in {"seed", "land"} => Told(r.bundle),
         landed' # None => Told(landed')
  PROVE  Generated' /\ gen' \in [Generators -> {gen'[x] : x \in Generators}]
<1>1. gen \in [Generators -> {gen[x] : x \in Generators}]
  BY DEF IInv, Tables
<1>2. DOMAIN gen' = Generators /\ \A x \in Generators : gen'[x] = IF x = g THEN r ELSE gen[x]
  BY <1>1
<1>3. gen' = [x \in Generators |-> gen'[x]]
  BY <1>1
<1>4. ASSUME NEW x \in Generators
      PROVE  /\ gen'[x] = [pc |-> gen'[x].pc, bundle |-> gen'[x].bundle]
             /\ gen'[x].pc \in {"idle", "generate", "seed", "land"}
             /\ status' = "none" => gen'[x].pc = "idle"
             /\ gen'[x].pc \in {"seed", "land"} => Told(gen'[x].bundle)
  <2>1. CASE x = g
    BY <1>2, <2>1
  <2>2. CASE x # g
    BY <1>2, <2>2 DEF IInv, Generated
  <2> QED BY <2>1, <2>2
<1> QED BY <1>3, <1>4 DEF Generated

(* What only edits leave alone, and what only generations do.              *)
LEMMA GenerationsApart ==
  ASSUME IInv, UNCHANGED <<gen, landed>>, status' = "none" => status = "none"
  PROVE  Generated' /\ gen' \in [Generators -> {gen'[x] : x \in Generators}]
<1>1. Generated'
  BY DEF IInv, Generated
<1>2. gen' \in [Generators -> {gen'[x] : x \in Generators}]
  BY DEF IInv, Tables
<1> QED BY <1>1, <1>2

LEMMA EditsApart ==
  ASSUME IInv, UNCHANGED editor, status' = "none" => status = "none"
  PROVE  Edited' /\ editor' \in [Editors -> {editor'[x] : x \in Editors}]
<1>1. Edited'
  BY DEF IInv, Edited
<1>2. editor' \in [Editors -> {editor'[x] : x \in Editors}]
  BY DEF IInv, Tables
<1> QED BY <1>1, <1>2

LEMMA BegunKept ==
  ASSUME IInv, UNCHANGED <<status, zip, landed>>, status # "none" => Sound(config')
  PROVE  Begun'
  BY DEF IInv, Begun

LEMMA SubmitKeeps ==
  ASSUME IInv, NEW a \in Archives, Submit(a)
  PROVE  IInv'
<1>1. /\ status = "none" /\ Parseable(a) /\ status' = "INITIALIZING" /\ zip' = a /\ config' = Unvalidated(a)
      /\ UNCHANGED <<editor, gen, landed, edits, faults>>
  BY DEF Submit
<1>2. Begun'
  BY <1>1, ReadIsSound DEF Begun, Statuses
<1>3. Edited' /\ Generated' /\ Tables'
  BY <1>1, EditsApart, GenerationsApart DEF Tables
<1> QED BY <1>1, <1>2, <1>3 DEF IInv, Counted

LEMMA RequireEditableKeeps ==
  ASSUME IInv, NEW e \in Editors, RequireEditable(e)
  PROVE  IInv'
<1> DEFINE r == [editor[e] EXCEPT !.pc = "load"]
<1>1. /\ status = "INITIALIZING" /\ editor' = [editor EXCEPT ![e] = r] /\ edits' = edits + 1
      /\ UNCHANGED <<status, zip, config, gen, landed, faults>>
  BY DEF RequireEditable, Editable
<1>2. r = [pc |-> "load", config |-> editor[e].config]
  <2>1. editor[e] = [pc |-> editor[e].pc, config |-> editor[e].config]
    BY DEF IInv, Edited
  <2>2. \A x, y : [[pc |-> x, config |-> y] EXCEPT !.pc = "load"] = [pc |-> "load", config |-> y]
    OBVIOUS
  <2> QED BY <2>1, <2>2, Zenon
<1> HIDE DEF r
<1>3. Edited' /\ editor' \in [Editors -> {editor'[x] : x \in Editors}]
  BY <1>1, <1>2, EditorsKept
<1>4. Generated' /\ gen' \in [Generators -> {gen'[x] : x \in Generators}]
  BY <1>1, GenerationsApart
<1>5. Begun'
  BY <1>1, BegunKept DEF IInv, Begun
<1>6. Counted'
  BY <1>1 DEF IInv, Counted
<1> QED BY <1>3, <1>4, <1>5, <1>6 DEF IInv, Tables

LEMMA LoadedKeeps ==
  ASSUME IInv, NEW e \in Editors, status # "none", NEW configs, Loaded(e, configs),
         \A c \in configs : Sound(c)
  PROVE  IInv'
<1>1. UNCHANGED <<status, zip, config, gen, landed, edits, faults>>
  BY DEF Loaded
<1>2. \E r : /\ editor' = [editor EXCEPT ![e] = r] /\ r = [pc |-> r.pc, config |-> r.config]
             /\ r.pc \in {"idle", "load", "save"} /\ (r.pc = "save" => Sound(r.config))
  <2>1. CASE configs = {}
    <3>1. editor' = [editor EXCEPT ![e] = Idle]
      BY <2>1 DEF Loaded
    <3>2. Idle = [pc |-> Idle.pc, config |-> Idle.config] /\ Idle.pc = "idle"
      BY DEF Idle
    <3> QED BY <3>1, <3>2
  <2>2. CASE configs # {}
    <3>1. PICK c \in configs : editor' = [editor EXCEPT ![e] = [pc |-> "save", config |-> c]]
      BY <2>2 DEF Loaded
    <3> DEFINE r == [pc |-> "save", config |-> c]
    <3>2. r = [pc |-> r.pc, config |-> r.config] /\ r.pc = "save" /\ r.config = c
      OBVIOUS
    <3> QED BY <3>1, <3>2
  <2> QED BY <2>1, <2>2
<1>3. Edited' /\ editor' \in [Editors -> {editor'[x] : x \in Editors}]
  BY <1>1, <1>2, EditorsKept
<1>4. Generated' /\ gen' \in [Generators -> {gen'[x] : x \in Generators}]
  BY <1>1, GenerationsApart
<1>5. Begun'
  BY <1>1, BegunKept DEF IInv, Begun
<1> QED BY <1>1, <1>3, <1>4, <1>5 DEF IInv, Tables, Counted

LEMMA ChangeKeeps ==
  ASSUME IInv, NEW e \in Editors, Change(e)
  PROVE  IInv'
<1>1. status # "none"
  BY DEF IInv, Edited, Change
<1>2. Sound(config)
  BY <1>1 DEF IInv, Begun
<1>3. ASSUME NEW f \in DOMAIN config.flows, NEW b \in BOOLEAN, FlowIncluded(e, f, b)
      PROVE  IInv'
  <2>1. Loaded(e, {[config EXCEPT !.flows[f].included = b]})
    BY <1>3 DEF FlowIncluded
  <2>2. Sound([config EXCEPT !.flows[f].included = b])
    BY <1>2, FlowChanged
  <2> QED BY <1>1, <2>1, <2>2, LoadedKeeps
<1>4. ASSUME NEW f \in DOMAIN config.flows, NEW w \in Bodies, WorkflowUpdate(e, f, w)
      PROVE  IInv'
  <2> DEFINE d == [config EXCEPT !.flows[f].workflow = w]
             configs == IF f \in DOMAIN config.flows /\ Parses(w) /\ Refs(w) \subseteq DOMAIN config.skills THEN {d} ELSE {}
  <2>1. Loaded(e, configs)
    BY <1>4 DEF WorkflowUpdate
  <2>2. Refs(w) \subseteq DOMAIN config.skills => Sound(d)
    BY <1>2, FlowChanged
  <2> HIDE DEF d
  <2>3. \A c \in configs : Sound(c)
    BY <2>2
  <2> HIDE DEF configs
  <2> QED BY <1>1, <2>1, <2>3, LoadedKeeps
<1>5. ASSUME NEW slug \in Slugs, NEW form \in Forms, SkillCreate(e, slug, form)
      PROVE  IInv'
  <2> DEFINE r == [origin |-> "custom", external |-> form.external, suggested |-> Suggested(form)]
             ids == IF FormIsKnown(form) THEN UniqueSkillID(slug, DOMAIN config.skills) ELSE {}
             d(s) == [config EXCEPT !.skills = With(config.skills, s, r)]
             configs == {d(s) : s \in ids}
  <2>1. Loaded(e, configs)
    BY <1>5 DEF SkillCreate
  <2>2. ids \subseteq SkillIds
    BY ConfigAssumption DEF UniqueSkillID
  <2>3. ASSUME NEW s \in ids PROVE Sound(d(s))
    <3>1. FormIsKnown(form) /\ s \in SkillIds
      BY <2>2, <2>3
    <3>2. r \in Skill /\ r.external = form.external /\ r.suggested = Suggested(form)
          /\ (~form.external => Suggested(form) \subseteq config.endpoints)
      BY <1>2, <3>1, FormSkill
    <3> HIDE DEF r
    <3> QED BY <1>2, <3>1, <3>2, SkillChanged
  <2> HIDE DEF d, ids
  <2>4. \A c \in configs : Sound(c)
    BY <2>3
  <2> HIDE DEF configs
  <2> QED BY <1>1, <2>1, <2>4, LoadedKeeps
<1>6. ASSUME NEW s \in DOMAIN config.skills, NEW form \in Forms, SkillUpdate(e, s, form)
      PROVE  IInv'
  <2> DEFINE r == [origin |-> config.skills[s].origin, external |-> form.external, suggested |-> Suggested(form)]
             d == [config EXCEPT !.skills[s].external = form.external, !.skills[s].suggested = Suggested(form)]
             configs == IF s \in DOMAIN config.skills /\ FormIsKnown(form) THEN {d} ELSE {}
  <2>1. Loaded(e, configs)
    BY <1>6 DEF SkillUpdate
  <2>2. s \in SkillIds /\ config.skills[s] \in Skill /\ config.skills \in [DOMAIN config.skills -> Skill]
    BY <1>2, SoundIs
  <2>3. d = [config EXCEPT !.skills = With(config.skills, s, r)]
    <3>1. config = [endpoints |-> config.endpoints, skills |-> config.skills, flows |-> config.flows]
      BY <1>2 DEF Sound
    <3>2. With(config.skills, s, r) = [config.skills EXCEPT ![s].external = form.external, ![s].suggested = Suggested(form)]
      BY <2>2 DEF With, Skill
    <3> QED BY <3>1, <3>2
  <2>4. ASSUME FormIsKnown(form) PROVE Sound(d)
    <3>1. config.skills[s].origin \in {"discovered", "custom"}
      BY <2>2 DEF Skill
    <3>2. r \in Skill /\ r.external = form.external /\ r.suggested = Suggested(form)
          /\ (~form.external => Suggested(form) \subseteq config.endpoints)
      BY <1>2, <2>4, <3>1, FormSkill
    <3> HIDE DEF r, d
    <3> QED BY <1>2, <2>2, <2>3, <3>2, SkillChanged
  <2> HIDE DEF d
  <2>5. \A c \in configs : Sound(c)
    BY <2>4
  <2> HIDE DEF configs
  <2> QED BY <1>1, <2>1, <2>5, LoadedKeeps
<1>7. ASSUME NEW s \in SkillIds, SkillDelete(e, s)
      PROVE  IInv'
  <2> DEFINE d == [config EXCEPT !.skills = Without(config.skills, s)]
             configs == IF Deletable(s) THEN {d} ELSE {}
  <2>1. Loaded(e, configs)
    BY <1>7 DEF SkillDelete
  <2>2. Deletable(s) => Sound(d)
    BY <1>2, SkillRemoved DEF Deletable
  <2> HIDE DEF d
  <2>3. \A c \in configs : Sound(c)
    BY <2>2
  <2> HIDE DEF configs
  <2> QED BY <1>1, <2>1, <2>3, LoadedKeeps
<1> QED BY <1>3, <1>4, <1>5, <1>6, <1>7 DEF Change

LEMMA SaveKeeps ==
  ASSUME IInv, NEW e \in Editors, Save(e)
  PROVE  IInv'
<1>1. /\ editor[e].pc = "save" /\ config' = editor[e].config /\ editor' = [editor EXCEPT ![e] = Idle]
      /\ UNCHANGED <<status, zip, gen, landed, edits, faults>>
  BY DEF Save
<1>2. Sound(config') /\ status # "none"
  BY <1>1 DEF IInv, Edited
<1>3. Idle = [pc |-> Idle.pc, config |-> Idle.config] /\ Idle.pc = "idle"
  BY DEF Idle
<1>4. Edited' /\ editor' \in [Editors -> {editor'[x] : x \in Editors}]
  BY <1>1, <1>3, EditorsKept
<1>5. Generated' /\ gen' \in [Generators -> {gen'[x] : x \in Generators}]
  BY <1>1, GenerationsApart
<1>6. Begun'
  BY <1>1, <1>2, BegunKept
<1> QED BY <1>1, <1>4, <1>5, <1>6 DEF IInv, Tables, Counted

LEMMA FinalizeKeeps ==
  ASSUME IInv, Finalize
  PROVE  IInv'
<1>1. status = "INITIALIZING" /\ status' = "PENDING" /\ UNCHANGED <<zip, config, editor, gen, landed, edits, faults>>
  BY DEF Finalize
<1>2. Begun'
  BY <1>1 DEF IInv, Begun, Statuses
<1>3. Edited' /\ Generated' /\ Tables'
  BY <1>1, EditsApart, GenerationsApart DEF Tables
<1> QED BY <1>1, <1>2, <1>3 DEF IInv, Counted

(* A step of a generation that lands nothing.                              *)
LEMMA GenerationKeeps ==
  ASSUME IInv, NEW g \in Generators, NEW r, gen' = [gen EXCEPT ![g] = r],
         r = [pc |-> r.pc, bundle |-> r.bundle], r.pc \in {"idle", "generate", "seed", "land"},
         status # "none", r.pc \in {"seed", "land"} => Told(r.bundle),
         UNCHANGED <<status, zip, config, editor, landed, edits>>, faults' \in 0 .. MaxFaults
  PROVE  IInv'
<1>1. landed' # None => Told(landed')
  BY DEF IInv, Generated
<1>2. Generated' /\ gen' \in [Generators -> {gen'[x] : x \in Generators}]
  BY <1>1, GeneratorsKept
<1>3. Edited' /\ editor' \in [Editors -> {editor'[x] : x \in Editors}]
  BY EditsApart
<1>4. Begun'
  BY BegunKept DEF IInv, Begun
<1>5. Counted'
  BY DEF IInv, Counted
<1> QED BY <1>2, <1>3, <1>4, <1>5 DEF IInv, Tables

LEMMA StartGenerationKeeps ==
  ASSUME IInv, NEW g \in Generators, StartGeneration(g)
  PROVE  IInv'
<1> DEFINE r == [gen[g] EXCEPT !.pc = "generate"]
<1>1. /\ gen' = [gen EXCEPT ![g] = r] /\ status # "none"
      /\ UNCHANGED <<status, zip, config, editor, landed, edits, faults>>
  BY DEF StartGeneration, Listed
<1>2. r = [pc |-> r.pc, bundle |-> r.bundle] /\ r.pc = "generate"
  <2>1. gen[g] = [pc |-> gen[g].pc, bundle |-> gen[g].bundle]
    BY DEF IInv, Generated
  <2>2. r = [pc |-> "generate", bundle |-> gen[g].bundle]
    <3>1. \A x, y : [[pc |-> x, bundle |-> y] EXCEPT !.pc = "generate"] = [pc |-> "generate", bundle |-> y]
      OBVIOUS
    <3> QED BY <2>1, <3>1, Zenon
  <2> QED BY <2>2
<1> HIDE DEF r
<1> QED BY <1>1, <1>2, GenerationKeeps DEF IInv, Counted

LEMMA GenerateKeeps ==
  ASSUME IInv, NEW g \in Generators, Generate(g)
  PROVE  IInv'
<1> DEFINE r == [pc |-> "seed", bundle |-> Bundle(config)]
<1>1. /\ gen' = [gen EXCEPT ![g] = r] /\ gen[g].pc = "generate"
      /\ UNCHANGED <<status, zip, config, editor, landed, edits, faults>>
  BY DEF Generate
<1>2. status # "none"
  BY <1>1 DEF IInv, Generated
<1>3. Told(Bundle(config))
  BY <1>2, BundleTold DEF IInv, Begun
<1>4. r = [pc |-> r.pc, bundle |-> r.bundle] /\ r.pc = "seed" /\ r.bundle = Bundle(config)
  OBVIOUS
<1> HIDE DEF r
<1> QED BY <1>1, <1>2, <1>3, <1>4, GenerationKeeps DEF IInv, Counted

LEMMA IdleGenIs == IdleGen = [pc |-> IdleGen.pc, bundle |-> IdleGen.bundle] /\ IdleGen.pc = "idle"
  BY DEF IdleGen

LEMMA GenerationFailsKeeps ==
  ASSUME IInv, NEW g \in Generators, GenerationFails(g)
  PROVE  IInv'
<1>1. /\ gen[g].pc # "idle" /\ faults < MaxFaults /\ gen' = [gen EXCEPT ![g] = IdleGen]
      /\ faults' = faults + 1
      /\ UNCHANGED <<status, zip, config, editor, landed, edits>>
  BY DEF GenerationFails
<1>2. status # "none"
  BY <1>1 DEF IInv, Generated
<1>3. faults' \in 0 .. MaxFaults
  BY <1>1, ConfigAssumption DEF IInv, Counted
<1> QED BY <1>1, <1>2, <1>3, IdleGenIs, GenerationKeeps

LEMMA SeedKeeps ==
  ASSUME IInv, NEW g \in Generators, Seed(g)
  PROVE  IInv'
<1>1. /\ gen[g].pc = "seed" /\ UNCHANGED <<status, zip, config, editor, landed, edits, faults>>
      /\ \/ gen' = [gen EXCEPT ![g] = IdleGen]
         \/ gen' = [gen EXCEPT ![g] = [gen[g] EXCEPT !.pc = "land"]]
  BY DEF Seed
<1>2. status # "none" /\ Told(gen[g].bundle) /\ gen[g] = [pc |-> gen[g].pc, bundle |-> gen[g].bundle]
  BY <1>1 DEF IInv, Generated
<1>3. faults' \in 0 .. MaxFaults
  BY <1>1 DEF IInv, Counted
<1>4. CASE gen' = [gen EXCEPT ![g] = IdleGen]
  BY <1>1, <1>2, <1>3, <1>4, IdleGenIs, GenerationKeeps
<1>5. CASE gen' = [gen EXCEPT ![g] = [gen[g] EXCEPT !.pc = "land"]]
  <2> DEFINE r == [gen[g] EXCEPT !.pc = "land"]
  <2>1. r = [pc |-> r.pc, bundle |-> r.bundle] /\ r.pc = "land" /\ r.bundle = gen[g].bundle
    BY <1>2
  <2>2. gen' = [gen EXCEPT ![g] = r]
    BY <1>5
  <2> HIDE DEF r
  <2> QED BY <1>1, <1>2, <1>3, <2>1, <2>2, GenerationKeeps
<1> QED BY <1>1, <1>4, <1>5

LEMMA LandKeeps ==
  ASSUME IInv, NEW g \in Generators, Land(g)
  PROVE  IInv'
<1>1. /\ gen[g].pc = "land" /\ landed' = gen[g].bundle /\ status' = "READY"
      /\ gen' = [gen EXCEPT ![g] = IdleGen]
      /\ UNCHANGED <<zip, config, editor, edits, faults>>
  BY DEF Land
<1>2. status # "none" /\ Told(landed')
  BY <1>1 DEF IInv, Generated
<1>3. Generated' /\ gen' \in [Generators -> {gen'[x] : x \in Generators}]
  BY <1>1, <1>2, IdleGenIs, GeneratorsKept
<1>4. Edited' /\ editor' \in [Editors -> {editor'[x] : x \in Editors}]
  BY <1>1, EditsApart
<1>5. Begun'
  BY <1>1, <1>2 DEF IInv, Begun, Statuses
<1>6. Counted'
  BY <1>1 DEF IInv, Counted
<1> QED BY <1>3, <1>4, <1>5, <1>6 DEF IInv, Tables

LEMMA StutterKeeps == IInv /\ UNCHANGED vars => IInv'
<1> SUFFICES ASSUME IInv, UNCHANGED vars PROVE IInv'
  OBVIOUS
<1>1. UNCHANGED <<status, zip, config, editor, gen, landed, edits, faults>>
  BY DEF vars
<1>2. Begun'
  BY <1>1, BegunKept DEF IInv, Begun
<1>3. Edited' /\ Generated' /\ Tables'
  BY <1>1, EditsApart, GenerationsApart DEF Tables
<1> QED BY <1>1, <1>2, <1>3 DEF IInv, Counted

LEMMA Invariant == Spec => []IInv
<1>1. IInv /\ [Next]_vars => IInv'
  <2> SUFFICES ASSUME IInv, [Next]_vars PROVE IInv'
    OBVIOUS
  <2>1. CASE \E a \in Archives : Submit(a)
    BY <2>1, SubmitKeeps
  <2>2. CASE \E e \in Editors : RequireEditable(e) \/ Change(e) \/ Save(e)
    BY <2>2, RequireEditableKeeps, ChangeKeeps, SaveKeeps
  <2>3. CASE Finalize
    BY <2>3, FinalizeKeeps
  <2>4. CASE \E g \in Generators : Run(g) \/ GenerationFails(g)
    BY <2>4, StartGenerationKeeps, GenerateKeeps, SeedKeeps, LandKeeps, GenerationFailsKeeps DEF Run
  <2>5. CASE UNCHANGED vars
    BY <2>5, StutterKeeps
  <2> QED BY <2>1, <2>2, <2>3, <2>4, <2>5 DEF Next
<1> QED BY InitHolds, <1>1, PTL DEF Spec

-----------------------------------------------------------------------------
(* The theorems.                                                           *)

(* The status, the stored config and the ones under way are of their       *)
(* types, and the generation's faults stay in their bound: flowmap.Config, *)
(* the statuses of agent_versions.                                         *)
THEOREM TypeCorrect == Spec => []TypeOK
<1>1. IInv => TypeOK
  BY SoundIs DEF IInv, Begun, Edited, Generated, Counted, TypeOK
<1> QED BY <1>1, Invariant, PTL

(* Whatever edits race, are lost or delete skills, what is read in a stored*)
(* workflow is a skill of the same config, an own skill suggests own       *)
(* endpoints, and a bundle that landed has what its flows use, but for the *)
(* nodes the checks do not see: WorkflowUpdate, SkillDelete,               *)
(* ValidateWorkflowSkillRefs, saveConfigForAgent.                          *)
THEOREM RefsAlwaysResolve == Spec => []RefsResolve
<1>1. ASSUME NEW c, Sound(c) PROVE ConfigResolves(c)
  BY <1>1, ReadIsFound DEF Sound, Validate, ConfigResolves
<1>2. IInv => RefsResolve
  BY <1>1 DEF IInv, Begun, Generated, RefsResolve, Told
<1> QED BY <1>2, Invariant, PTL

(* Whatever archive the wizard accepted, each of its workflows was         *)
(* normalized soundly, however many fan-outs and labels it has, and a flow *)
(* that only lists skills leads through each of them: NormalizeMermaid,    *)
(* bypassParallel, linearFallback.                                         *)
THEOREM ArchivesReadSoundly == Spec => []ReadSoundly
<1>1. IInv => ReadSoundly
  <2> SUFFICES ASSUME IInv, zip # None, NEW f \in DOMAIN zip.flows
               PROVE  /\ NormalizeIsSound(Source(zip.flows[f]))
                      /\ LET E == EdgesOf(LinearFallback(zip.flows[f].used))
                             used == {NodeOf[zip.flows[f].used[i]] : i \in DOMAIN zip.flows[f].used}
                         IN  \A n \in used \cup {"start"} :
                                /\ SuccessorsOf(E, {n}) \cap (used \cup {"e"}) # {}
                                /\ n # "start" => \E e \in E : e.to = n
    BY DEF ReadSoundly
  <2>1. zip \in Archives /\ Parseable(zip)
    BY DEF IInv, Begun
  <2> QED BY <2>1, ArchiveReadSoundly
<1> QED BY <1>1, Invariant, PTL

=============================================================================
