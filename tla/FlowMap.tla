-------------------------------- MODULE FlowMap --------------------------------
(***************************************************************************)
(* The flow map of an agent: reading a discovery archive, and the mermaid  *)
(* workflows inside it.                                                    *)
(*                                                                         *)
(* Source: internal/flowmap (parser, normalize, mermaid_parser,            *)
(* mermaid_serializer, mermaid, id).                                       *)
(*                                                                         *)
(* A mermaid source is the set of its lines and a line is two node tokens  *)
(* (or one, for a declaration): the order of lines only matters to layout  *)
(* once no id is declared in two ways, and such sources are left out.      *)
(* Text that is not a line of the dialect is refused before anything else, *)
(* and is left out too.                                                    *)
(***************************************************************************)
EXTENDS Naturals, Sequences

CONSTANTS
    SkillIds,   \* ids of skills, discovered and custom
    Endpoints,  \* ids of endpoints
    NodeIds,    \* mermaid node ids
    NodeOf,     \* the node id linearFallback gives a skill
    Labels,     \* edge labels
    None

(* "spaced" is a skill rectangle with a blank before its bracket.          *)
Shapes == {"bare", "start", "end", "decision", "skill", "spaced", "parallel"}
Token == [id : NodeIds, shape : Shapes, label : SkillIds \cup {None}]
Line == [from : Token, to : Token \cup {None}, label : Labels \cup {None}]

ASSUME FlowMapAssumption ==
    /\ NodeOf \in [SkillIds -> NodeIds \ {"start", "e"}]
    /\ \A s, t \in SkillIds : NodeOf[s] = NodeOf[t] => s = t   \* ids with "-" and no "_"
    /\ {"start", "e"} \subseteq NodeIds
    /\ None \notin SkillIds \cup Endpoints \cup NodeIds \cup Labels \cup Token

Kind(t) == IF t.shape = "spaced" THEN "skill" ELSE t.shape

Tokens(w) == {l.from : l \in w} \cup ({l.to : l \in w} \ {None})
Shaped(w) == {t \in Tokens(w) : t.shape # "bare"}
Parallels(w) == {t.id : t \in {u \in Tokens(w) : u.shape = "parallel"}}
-----------------------------------------------------------------------------
(* ParseWorkflow and parseLoose: a declaration has a shape, and every end  *)
(* of an edge is declared somewhere.                                       *)
LooseParses(w) ==
    /\ \A l \in w : l.to = None => l.from.shape # "bare"
    /\ \A t \in Tokens(w) : \E s \in Shaped(w) : s.id = t.id
Parses(w) == LooseParses(w) /\ Parallels(w) = {}

NodesOf(w) == {[id |-> t.id, kind |-> Kind(t), label |-> t.label] : t \in Shaped(w)}
EdgesOf(w) ==
    {[from |-> l.from.id, to |-> l.to.id, label |-> l.label] : l \in {k \in w : k.to # None}}

(* bypassParallel: the edges of a fan-out become one edge for each way     *)
(* through it; an edge between two fan-outs is dropped.                    *)
Joined(p, s) == [from |-> p.from, to |-> s.to, label |-> IF s.label = None THEN p.label ELSE s.label]
LastPredecessor(E, par) ==   \* mutant: one predecessor is kept for each fan-out
    {x \in E \X E : /\ x[1].to = x[2].from /\ x[1].to \in par /\ x[1].from \notin par /\ x[2].to \notin par
                    /\ x[1] = CHOOSE q \in E : q.to = x[2].from}
Ways(E, par) ==
    {x \in E \X E : x[1].to = x[2].from /\ x[1].to \in par /\ x[1].from \notin par /\ x[2].to \notin par}
Bypass(E, par) ==
    {e \in E : e.from \notin par /\ e.to \notin par}
    \cup {Joined(x[1], x[2]) : x \in Ways(E, par)}

Bare(id) == [id |-> id, shape |-> "bare", label |-> None]
Serialize(N, E) ==
    {[from |-> [id |-> n.id, shape |-> n.kind, label |-> n.label], to |-> None, label |-> None] : n \in N}
    \cup {[from |-> Bare(e.from), to |-> Bare(e.to), label |-> e.label] : e \in E}

NormalizeMermaid(w) ==
    Serialize({n \in NodesOf(w) : n.id \notin Parallels(w)}, Bypass(EdgesOf(w), Parallels(w)))

(* What the pattern of ValidateWorkflowSkillRefs and WorkflowReferencesSkill*)
(* finds in the text, and what the parser reads in it.                     *)
Refs(w) == {t.label : t \in {u \in Tokens(w) : u.shape = "skill"}}
SkillsOf(w) == {n.label : n \in {m \in NodesOf(w) : m.kind = "skill"}}

(* The skills the parser reads where the pattern, which takes no blank     *)
(* before the bracket, finds nothing.                                      *)
Unseen(w) == {t.label : t \in {u \in Tokens(w) : u.shape = "spaced"}} \ Refs(w)

(* A flow that only lists its skills: start --> s1 --> s2 ... --> end.     *)
LinearFallback(used) ==
    LET n == Len(used)
        Step(i) == [id |-> NodeOf[used[i]], shape |-> "skill", label |-> used[i]]
        From(i) == IF i = 0 THEN [id |-> "start", shape |-> "start", label |-> None]
                   ELSE Bare(NodeOf[used[i]])
        To(i) == IF i = n THEN [id |-> "e", shape |-> "end", label |-> None] ELSE Step(i + 1)
    IN  {[from |-> From(i), to |-> To(i), label |-> None] : i \in 0 .. n}
-----------------------------------------------------------------------------
(* An archive: its endpoints, skills and flows; a flow has a workflow or   *)
(* only the sequence of the skills it uses.  Whether the required files are*)
(* there and of schema 2 is one flag.                                      *)
Skill == [origin : {"discovered", "custom"}, external : BOOLEAN, suggested : SUBSET Endpoints]
Source(f) == IF f.workflow # {} THEN f.workflow ELSE LinearFallback(f.used)

ParseSkill(s) == [origin |-> "discovered", external |-> s.external, suggested |-> s.suggested]
ParseFlow(f) == [included |-> TRUE, workflow |-> NormalizeMermaid(Source(f))]

(* A config as it is stored: functions from the ids of skills and flows.   *)
Unvalidated(a) ==
    [endpoints |-> a.endpoints,
     skills |-> [s \in DOMAIN a.skills |-> ParseSkill(a.skills[s])],
     flows |-> [f \in DOMAIN a.flows |-> ParseFlow(a.flows[f])]]

Validate(cfg) ==
    /\ \A s \in DOMAIN cfg.skills :
         ~cfg.skills[s].external => cfg.skills[s].suggested \subseteq cfg.endpoints
    /\ \A f \in DOMAIN cfg.flows : Refs(cfg.flows[f].workflow) \subseteq DOMAIN cfg.skills

Parseable(a) ==
    /\ a.complete
    /\ \A f \in DOMAIN a.flows : LooseParses(Source(a.flows[f]))
    /\ Validate(Unvalidated(a))
-----------------------------------------------------------------------------
(* Reaching b from a, where every node on the way is a fan-out of par:     *)
(* par has at most two members in the archives of the runs.                *)
Through(E, par, a, b) ==
    \E path \in {<<>>} \cup {<<p>> : p \in par} \cup {<<p, q>> : p, q \in par} :
        \A i \in 0 .. Len(path) :
            \E e \in E : /\ e.from = IF i = 0 THEN a ELSE path[i]
                         /\ e.to = IF i = Len(path) THEN b ELSE path[i + 1]
Chained(E, par) == \E e \in E : e.from \in par /\ e.to \in par

(* NormalizeMermaid: what it returns can be parsed, normalizing it again   *)
(* changes nothing, no node is lost but the fan-outs, and two nodes are    *)
(* joined exactly when the source leads from one to the other through      *)
(* fan-outs.  A source that chains fan-outs loses those edges (and only    *)
(* those: nothing is joined that the source does not join).                *)
NormalizeIsSound(w) ==
    LET n == NormalizeMermaid(w)
        par == Parallels(w)
        ids == {t.id : t \in Tokens(w)} \ par
    IN  /\ Parses(n)
        /\ NormalizeMermaid(n) = n
        /\ {t.id : t \in Tokens(n)} = ids
        /\ \A a, b \in ids :
             LET joined == \E e \in EdgesOf(n) : e.from = a /\ e.to = b
                 led == Through(EdgesOf(w), par, a, b)
             IN  (joined => led) /\ (led /\ ~Chained(EdgesOf(w), par) => joined)
=============================================================================
