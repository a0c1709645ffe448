----------------------------- MODULE MCAgentConfig -----------------------------
(* Archives and request bodies for checking AgentConfig.                   *)
EXTENDS AgentConfig

T(id, shape, label) == [id |-> id, shape |-> shape, label |-> label]
E(from, to, label) == [from |-> from, to |-> to, label |-> label]

MCNodeOf == [s \in SkillIds |-> CASE s = "a" -> "s_a" [] s = "b" -> "s_b" [] s = "new" -> "s_new" [] OTHER -> "s_x"]
MCSuffixed == [s \in Slugs |-> {"x"}]

(* A fan-out with up to two ways in and out, a second one behind or beside *)
(* it, and labels on either side.                                          *)
Start == T("start", "start", None)
End == T("e", "end", None)
A == T("s_a", "skill", "a")
B == T("s_b", "skill", "b")
Ghost == T("s_x", "skill", "x")
P == T("p", "parallel", None)
Q == T("q", "parallel", None)
Edges == {E(Start, P, None), E(Start, P, "yes"), E(A, P, None), E(P, B, None), E(P, B, "yes"), E(P, End, None),
          E(P, Q, None), E(Q, A, None), E(Start, Q, None), E(A, Bare("s_b"), None), E(Ghost, End, None)}
SmallSets(S) == {X \in SUBSET S : \E x, y, z \in S : X = {x, y, z}}
Workflows == {w \in SmallSets(Edges) : LooseParses(w)} \cup {Edges \ {E(Ghost, End, None)}}

Found(ext, eps) == [external |-> ext, suggested |-> eps]
Archive(flow, skills) == [complete |-> TRUE, endpoints |-> {"get"}, skills |-> skills, flows |-> [f \in {"f"} |-> flow]]
Skills(ext, eps) == [s \in {"a", "b"} |-> IF s = "a" THEN Found(ext, eps) ELSE Found(FALSE, {})]
Lists == {<<>>, <<"a">>, <<"a", "b">>, <<"a", "b", "a">>, <<"x">>}

BaseArchive == Archive([workflow |-> {}, used |-> <<"a">>], [s \in {"a"} |-> Found(FALSE, {"get"})])
MCArchives ==
    {Archive([workflow |-> w, used |-> <<>>], Skills(FALSE, {"get"})) : w \in Workflows}
    \cup {Archive([workflow |-> {}, used |-> u], Skills(x, eps)) : u \in Lists, x \in BOOLEAN, eps \in SUBSET Endpoints}
    \cup {BaseArchive, [BaseArchive EXCEPT !.complete = FALSE]}
OneArchive == {BaseArchive}
OneMaxEdits == [a \in OneArchive |-> 2]
MCMaxEdits == [a \in MCArchives |-> IF a = BaseArchive THEN 3 ELSE 0]

(* Bodies a WorkflowUpdate carries: the checks do not see "s_new [new]".   *)
Custom == T("s_new", "skill", "new")
MCBodies == {{E(Start, Custom, None)}, {E(Start, T("s_new", "spaced", "new"), None)},
             {E(Start, P, None)}, {E(Bare("s_a"), End, None)}}
=============================================================================
