---------------------------- MODULE ToolCallsProofs ----------------------------
(***************************************************************************)
(* Theorems about ToolCalls, for every set of backends, names and headers, *)
(* every bundle, every envelope and every number of edits and calls.       *)
(***************************************************************************)
EXTENDS ToolCalls, SequenceTheorems, WellFoundedInduction, TLAPS

-----------------------------------------------------------------------------
(* The invariant.                                                          *)

IsSeq(s) == \E S : s \in Seq(S)

TurnRecord ==
    turn = [at |-> turn.at, routing |-> turn.routing, session |-> turn.session,
            mapping |-> turn.mapping, mcp |-> turn.mcp, left |-> turn.left,
            built |-> turn.built, listed |-> turn.listed, calls |-> turn.calls]

Wires(w) == w \in [Endpoints -> Backends \cup {None}]

(* A wired backend has a row, whose kind never changes.                    *)
Tables ==
    /\ rows \in [Backends -> BackendRow \cup {None, Gone}]
    /\ \A b \in Backends : rows[b] \in {None, Gone} \/ rows[b].kind = Kind[b]
    /\ Wires(endpointBackend)
    /\ turn.at \notin {"idle", "wiring", "done"} => Wires(turn.mapping)

(* A session is open while its backend holds it, and only while a turn     *)
(* lists, calls or closes.                                                 *)
Sessions ==
    /\ conns \in [Backends -> [held : BOOLEAN, open : Nat]]
    /\ \A b \in Backends : conns[b].open = IF conns[b].held THEN 1 ELSE 0
    /\ turn.at \notin {"listing", "calling", "closing"} => \A b \in Backends : ~conns[b].held

(* What was built of a row is what the row said, with the endpoints wired  *)
(* to it when the turn read the wiring.                                    *)
Real(be) ==
    /\ be.id \in Backends
    /\ be.kind = Kind[be.id]
    /\ be.name \in Names
    /\ be.eps = IF be.kind = "http_endpoint" THEN EndpointsOf(be.id) ELSE {}

Loaded ==
    /\ IsSeq(turn.built)
    /\ turn.at \in {"idle", "wiring", "attachments"} => turn.built = <<>>
    /\ \A i \in DOMAIN turn.built : Real(turn.built[i]) \/ turn.built[i] = Unmapped
    /\ \A i, j \in DOMAIN turn.built :
         turn.built[i].kind = "http_endpoint" /\ turn.built[i].id = turn.built[j].id => i = j
    /\ turn.at \in {"attachments", "http"} =>
         /\ turn.left \subseteq Backends
         /\ \A i \in DOMAIN turn.built : turn.built[i].id \notin turn.left

(* No endpoint is lost on the way from the wiring to the backends, unless  *)
(* it is wired to an MCP backend.                                          *)
Built(b) == \E i \in DOMAIN turn.built : turn.built[i].id = b
Callable(b) == b = None \/ Kind[b] = "http_endpoint"
Offered ==
    \A e \in Endpoints :
        Callable(turn.mapping[e]) =>
        /\ turn.at \in {"attachments", "http"} =>
             turn.mapping[e] = None \/ turn.mapping[e] \in turn.left \/ Built(turn.mapping[e])
        /\ turn.at = "mcp" => turn.mapping[e] = None \/ Built(turn.mapping[e])
        /\ turn.at \in {"listing", "calling"} => Built(turn.mapping[e])

Quiet == turn.at \notin {"calling", "closing"} => last.outcome \in {"none", "connect"}

IInv ==
    /\ TurnRecord /\ Tables /\ Sessions /\ Loaded /\ Offered /\ Quiet
    /\ RoutesToOwner /\ HeadersAsConfigured /\ ArgumentsArrive

-----------------------------------------------------------------------------
(* Sequences and least numbers.                                            *)

LEMMA SeqIs ==
  ASSUME NEW s, IsSeq(s)
  PROVE  Len(s) \in Nat /\ DOMAIN s = 1 .. Len(s)
  BY LenProperties DEF IsSeq

LEMMA AppendIs ==
  ASSUME NEW s, IsSeq(s), NEW x
  PROVE  /\ IsSeq(Append(s, x))
         /\ DOMAIN Append(s, x) = 1 .. Len(s) + 1
         /\ \A i \in DOMAIN s : i \in DOMAIN Append(s, x) /\ Append(s, x)[i] = s[i]
         /\ Append(s, x)[Len(s) + 1] = x
         /\ \A i \in DOMAIN Append(s, x) : i \in DOMAIN s \/ i = Len(s) + 1
<1>1. PICK S : s \in Seq(S)
  BY DEF IsSeq
<1> DEFINE T == S \cup {x}
<1>2. s \in Seq(T) /\ x \in T
  BY <1>1, SeqMonotonic
<1>3. /\ Append(s, x) \in Seq(T) /\ Len(Append(s, x)) = Len(s) + 1
      /\ \A i \in 1 .. Len(s) : Append(s, x)[i] = s[i]
      /\ Append(s, x)[Len(s) + 1] = x
  BY <1>2, AppendProperties
<1>4. IsSeq(Append(s, x))
  BY <1>3 DEF IsSeq
<1>5. Len(s) \in Nat /\ DOMAIN s = 1 .. Len(s) /\ DOMAIN Append(s, x) = 1 .. Len(s) + 1
  BY <1>3, <1>4, SeqIs
<1>6. \A i \in 1 .. Len(s) + 1 : i \in 1 .. Len(s) \/ i = Len(s) + 1
  BY <1>5
<1>7. \A i \in 1 .. Len(s) : i \in 1 .. Len(s) + 1
  BY <1>5
<1> QED BY <1>3, <1>4, <1>5, <1>6, <1>7

LEMMA LeastNat ==
  ASSUME NEW T \in SUBSET Nat, T # {}
  PROVE  Min(T) \in T
<1> DEFINE R == OpToRel(<, Nat)
<1>1. IsWellFoundedOn(R, Nat)
  BY NatLessThanWellFounded, Zenon
<1> HIDE DEF R
<1>2. PICK n \in T : \A m \in T : <<m, n>> \notin R
  BY <1>1, WFMin
<1>3. \A m \in T : ~(m < n)
  BY <1>2, Zenon DEF R, OpToRel
<1>4. \A m \in T : n =< m
  BY <1>3
<1> QED BY <1>4, Zenon DEF Min

(* A backend's name is a strict prefix of the names of its tools, and the  *)
(* rest is the tool's own name.                                            *)
LEMMA PrefixOfTools ==
  ASSUME NEW S, NEW s \in Seq(S), NEW t \in Seq(S), t # <<>>
  PROVE  /\ IsStrictPrefix(s, s \o t)
         /\ SubSeq(s \o t, Len(s) + 1, Len(s \o t)) = t
<1>1. Len(s) \in Nat /\ Len(t) \in Nat \ {0} /\ Len(s \o t) = Len(s) + Len(t)
  BY EmptySeq, LenProperties, ConcatProperties
<1>2. SubSeq(s \o t, 1, Len(s)) = SubSeq(s, 1, Len(s))
  <2>1. CASE Len(s) = 0
    BY <1>1, <2>1, SubSeqEmpty
  <2>2. CASE Len(s) # 0
    <3>1. 1 \in 1 .. Len(s) /\ Len(s) \in 1 .. Len(s)
      BY <1>1, <2>2
    <3> QED BY <3>1, SubSeqOfConcat1
  <2> QED BY <2>1, <2>2
<1>3. SubSeq(s \o t, Len(s) + 1, Len(s) + Len(t)) = SubSeq(t, 1, Len(t))
  <2>1. /\ Len(s) + 1 \in Len(s) + 1 .. Len(s) + Len(t)
        /\ Len(s) + Len(t) \in Len(s) + 1 .. Len(s) + Len(t)
        /\ Len(s) + 1 - Len(s) = 1
        /\ Len(s) + Len(t) - Len(s) = Len(t)
    BY <1>1
  <2> QED BY <2>1, SubSeqOfConcat2
<1>4. s # s \o t
  BY <1>1
<1>5. Len(s) <= Len(s \o t)
  BY <1>1
<1> QED BY <1>1, <1>2, <1>3, <1>4, <1>5, SubSeqFull DEF IsStrictPrefix, IsPrefix

(* The session's headers are set last; a header of the visitor is there    *)
(* only for a block that forwards all.                                     *)
LEMMA Layers ==
  ASSUME NEW be, NEW routing, NEW session
  PROVE  /\ \A x \in session : /\ x \in DOMAIN ApplyHeaders(be, routing, session)
                               /\ ApplyHeaders(be, routing, session)[x] = "session"
         /\ \A x \in DOMAIN ApplyHeaders(be, routing, session) :
              ApplyHeaders(be, routing, session)[x] = "visitor" =>
                /\ x \notin HopByHop \cup {RoutingEnvelopeHeader}
                /\ ToLower(be.name) \in DOMAIN routing
                /\ routing[ToLower(be.name)].all
<1> DEFINE n == ToLower(be.name)
           block == IF n \in DOMAIN routing THEN routing[n] ELSE [all |-> FALSE, headers |-> {}]
           bound == HopByHop \cup {RoutingEnvelopeHeader}
           live == IF block.all THEN Visitor \ bound ELSE {}
           h1 == Set([x \in {} |-> None], be.headers, "default")
           h2 == Set(h1, live, "visitor")
           h3 == Set(h2, block.headers, "explicit")
           h4 == Set(h3, session, "session")
<1>1. ApplyHeaders(be, routing, session) = h4
  BY DEF ApplyHeaders
<1>3. \A x \in live : block.all /\ x \notin bound
  OBVIOUS
<1>4. block.all => n \in DOMAIN routing /\ routing[n].all
  OBVIOUS
<1> HIDE DEF block, bound, live
<1>5. DOMAIN h1 = be.headers /\ \A x \in be.headers : h1[x] = "default"
  BY DEF Set
<1> HIDE DEF h1
<1>6. DOMAIN h2 = DOMAIN h1 \cup live /\ \A x \in DOMAIN h1 \cup live : h2[x] = IF x \in live THEN "visitor" ELSE h1[x]
  BY DEF Set
<1> HIDE DEF h2
<1>7. /\ DOMAIN h3 = DOMAIN h2 \cup block.headers
      /\ \A x \in DOMAIN h2 \cup block.headers : h3[x] = IF x \in block.headers THEN "explicit" ELSE h2[x]
  BY DEF Set
<1> HIDE DEF h3
<1>8. /\ DOMAIN h4 = DOMAIN h3 \cup session
      /\ \A x \in DOMAIN h3 \cup session : h4[x] = IF x \in session THEN "session" ELSE h3[x]
  BY DEF Set
<1> HIDE DEF h4
<1>9. \A x \in session : x \in DOMAIN h4 /\ h4[x] = "session"
  BY <1>8
<1>10. \A x \in DOMAIN h4 : h4[x] = "visitor" => x \notin bound /\ n \in DOMAIN routing /\ routing[n].all
  BY <1>3, <1>4, <1>5, <1>6, <1>7, <1>8
<1> QED BY <1>1, <1>9, <1>10 DEF bound

(* Arguments that a schema accepts hold what the path needs, and whatever  *)
(* the arguments are, a request with a body carries them all.              *)
LEMMA Placed ==
  ASSUME NEW ep, NEW args
  PROVE  /\ Accepts(BuildEndpointSchema(ep), args) => BuildRequest(ep, args).ok
         /\ ep.method \in Bodied => args \subseteq BuildRequest(ep, args).placed
<1>1. Accepts(BuildEndpointSchema(ep), args) => BuildRequest(ep, args).ok
  BY DEF Accepts, BuildEndpointSchema, BuildRequest, ParamNames
<1>2. ep.method \in Bodied => args \subseteq BuildRequest(ep, args).placed
  <2> DEFINE inPath == ParamNames(ep.path) \cap args
             inQuery == ParamNames(ep.query) \cap args
             rest == args \ (ParamNames(ep.path) \cup inQuery)
  <2>1. BuildRequest(ep, args).placed = inPath \cup inQuery \cup (IF ep.method \in Bodied THEN rest ELSE {})
    BY DEF BuildRequest
  <2>2. args \subseteq inPath \cup inQuery \cup rest
    OBVIOUS
  <2> QED BY <2>1, <2>2
<1> QED BY <1>1, <1>2

-----------------------------------------------------------------------------
(* The agent's backends in the turn.                                       *)

LEMMA KindsOf ==
  ASSUME NEW i \in DOMAIN turn.built, Loaded
  PROVE  LET be == turn.built[i]
         IN  /\ be.kind = "http_endpoint" \/ be.kind = "mcp_client" \/ be = Unmapped
             /\ be.kind \in Kinds => Real(be)
             /\ be = Unmapped => be.kind \notin Kinds /\ be.id = None
<1> DEFINE be == turn.built[i]
<1>1. Real(be) \/ be = Unmapped
  BY DEF Loaded
<1>2. be = Unmapped => be.kind = "unmapped" /\ be.id = None
  BY DEF Unmapped
<1>3. Real(be) => be.kind \in Kinds
  BY ToolCallsAssumption DEF Real
<1> QED BY <1>1, <1>2, <1>3 DEF Kinds

(* No tool of a loaded backend is lost between the wiring and the list.    *)
LEMMA AllOffered == Loaded /\ Offered => EveryEndpointOffered
<1> SUFFICES ASSUME Loaded, Offered, turn.at \in {"listing", "calling"}, NEW e \in Endpoints,
                    turn.mapping[e] = None \/ Kind[turn.mapping[e]] = "http_endpoint"
             PROVE  OfferedBy(e, turn.mapping[e])
  BY DEF EveryEndpointOffered
<1>1. PICK i \in DOMAIN turn.built : turn.built[i].id = turn.mapping[e]
  BY DEF Offered, Built, Callable
<1>2. PICK k \in DOMAIN Architecture.tools : Architecture.tools[k].id = e
  BY DEF Endpoints
<1>3. k \in EndpointsOf(turn.mapping[e])
  BY <1>2 DEF EndpointsOf
<1>4. turn.built[i].eps = EndpointsOf(turn.built[i].id)
  <2>1. CASE Real(turn.built[i])
    BY <1>1, <2>1, ToolCallsAssumption DEF Real
  <2>2. CASE turn.built[i] = Unmapped
    BY <2>2 DEF Unmapped
  <2> QED BY <2>1, <2>2 DEF Loaded
<1>5. turn.built[i] \in ToSet(turn.built)
  BY DEF ToSet
<1> QED BY <1>1, <1>2, <1>3, <1>4, <1>5 DEF OfferedBy

LEMMA AllClosed == TurnRecord /\ Sessions => SessionsEnd
  BY DEF Sessions, SessionsEnd

(* Where a name leads: to a backend of the turn, if one captures it or     *)
(* owns it.                                                                *)
LEMMA RouteLeads ==
  ASSUME Loaded, NEW name, Route(name).to # 0
  PROVE  /\ Route(name).to \in DOMAIN turn.built
         /\ Capturing(name) # {} => Route(name).to \in Capturing(name)
         /\ Capturing(name) = {} => Route(name).to \in Owning(name) /\ Route(name).tool = name
<1>1. DOMAIN turn.built \subseteq Nat
  BY SeqIs DEF Loaded
<1>2. Capturing(name) \in SUBSET Nat /\ Owning(name) \in SUBSET Nat
  BY <1>1 DEF Capturing, Owning
<1>3. CASE Capturing(name) # {}
  <2>1. Min(Capturing(name)) \in Capturing(name)
    BY <1>2, <1>3, LeastNat
  <2>2. Route(name).to = Min(Capturing(name))
    BY <1>3 DEF Route
  <2> QED BY <1>3, <2>1, <2>2 DEF Capturing
<1>4. CASE Capturing(name) = {}
  <2>1. Owning(name) # {}
    BY <1>4 DEF Route
  <2>2. Min(Owning(name)) \in Owning(name)
    BY <1>2, <2>1, LeastNat
  <2>3. Route(name).to = Min(Owning(name)) /\ Route(name).tool = name
    BY <1>4, <2>1 DEF Route
  <2> QED BY <1>4, <2>2, <2>3 DEF Owning
<1> QED BY <1>3, <1>4

(* The tool a name's remainder is, when an MCP backend that lists the name *)
(* captures it.                                                            *)
LEMMA Trimmed ==
  ASSUME Loaded, NEW name, NEW i \in DOMAIN turn.built,
         turn.built[i].kind = "mcp_client", name \in ToolsOf(turn.built[i])
  PROVE  /\ IsStrictPrefix(turn.built[i].name, name)
         /\ SubSeq(name, Len(turn.built[i].name) + 1, Len(name)) \in ServerTools
<1> DEFINE S == DOMAIN Lower \cup DOMAIN Clean
           s == turn.built[i].name
<1>1. s \in Names
  BY KindsOf DEF Kinds, Real
<1>2. PICK t \in ServerTools : name = s \o t
  BY DEF ToolsOf
<1>3. s \in Seq(DOMAIN Lower) /\ t \in Seq(DOMAIN Clean) /\ t # <<>>
  BY <1>1, ToolCallsAssumption
<1>4. s \in Seq(S) /\ t \in Seq(S)
  BY <1>3, SeqMonotonic
<1> HIDE DEF s
<1>5. IsStrictPrefix(s, name) /\ SubSeq(name, Len(s) + 1, Len(name)) = t
  BY <1>2, <1>3, <1>4, PrefixOfTools
<1> QED BY <1>2, <1>5 DEF s

(* What FindByName finds is an endpoint of the backend, with a method of   *)
(* the flow map.                                                           *)
LEMMA Found ==
  ASSUME NEW eps \in SUBSET DOMAIN Architecture.tools, NEW tool \in EndpointNames(eps)
  PROVE  FindByName(eps, tool).method \in Methods
<1> DEFINE T == {i \in eps : SanitizeToolName(Architecture.tools[i].name) = tool}
<1>1. DOMAIN Architecture.tools \subseteq Nat
  BY ToolCallsAssumption, LenProperties
<1>2. T \in SUBSET Nat /\ T # {}
  BY <1>1 DEF EndpointNames
<1>3. Min(T) \in T
  BY <1>2, LeastNat
<1>4. FindByName(eps, tool) = Architecture.tools[Min(T)]
  BY DEF FindByName
<1>5. Min(T) \in DOMAIN Architecture.tools
  BY <1>3
<1> QED BY <1>4, <1>5, ToolCallsAssumption

-----------------------------------------------------------------------------
(* What a call is answered.                                                *)

Asked(call, i) ==
    LET be == turn.built[i]
        tool == Route(call.name).tool
    IN  \/ be.kind = "http_endpoint" /\ Answer(call) = CallHTTP(be, tool, call)
        \/ be.kind = "mcp_client" /\ Answer(call) = CallMCP(be, tool, call)
        \/ be = Unmapped /\ Answer(call) = CallUnmapped(be, tool, call)

LEMMA AnswerOf ==
  ASSUME Loaded, NEW call
  PROVE  \/ call.name = SkillToolName /\ Answer(call) = CallSkillMetaTool(call.args)
         \/ /\ Route(call.name).to = 0
            /\ Answer(call) = Request(call.name, call.args, None, <<>>, "no_owner", NoHeaders, {})
         \/ Route(call.name).to \in DOMAIN turn.built /\ Asked(call, Route(call.name).to)
<1> DEFINE r == Route(call.name)
<1>1. CASE call.name = SkillToolName
  BY <1>1 DEF Answer
<1>2. CASE call.name # SkillToolName /\ r.to = 0
  BY <1>2 DEF Answer
<1>3. CASE call.name # SkillToolName /\ r.to # 0
  <2> DEFINE be == turn.built[r.to]
  <2>1. r.to \in DOMAIN turn.built
    BY <1>3, RouteLeads
  <2>2. Answer(call) = CASE be.kind = "http_endpoint" -> CallHTTP(be, r.tool, call)
                         [] be.kind = "mcp_client" -> CallMCP(be, r.tool, call)
                         [] OTHER -> CallUnmapped(be, r.tool, call)
    BY <1>3 DEF Answer
  <2>3. be.kind = "http_endpoint" \/ be.kind = "mcp_client" \/ (be = Unmapped /\ be.kind \notin Kinds)
    BY <2>1, KindsOf
  <2>4. CASE be.kind = "http_endpoint"
    <3>1. Answer(call) = CallHTTP(be, r.tool, call)
      BY <2>2, <2>4
    <3> QED BY <2>1, <2>4, <3>1 DEF Asked
  <2>5. CASE be.kind = "mcp_client"
    <3>1. Answer(call) = CallMCP(be, r.tool, call)
      BY <2>2, <2>5
    <3> QED BY <2>1, <2>5, <3>1 DEF Asked
  <2>6. CASE be = Unmapped /\ be.kind \notin Kinds
    <3>1. Answer(call) = CallUnmapped(be, r.tool, call)
      BY <2>2, <2>6 DEF Kinds
    <3> QED BY <2>1, <2>6, <3>1 DEF Asked
  <2> QED BY <2>3, <2>4, <2>5, <2>6
<1> QED BY <1>1, <1>2, <1>3

LEMMA RequestIs ==
  ASSUME NEW name, NEW args, NEW by, NEW tool, NEW outcome, NEW headers, NEW placed
  PROVE  LET a == Request(name, args, by, tool, outcome, headers, placed)
         IN  /\ a.name = name /\ a.args = args /\ a.by = by /\ a.tool = tool
             /\ a.outcome = outcome /\ a.headers = headers /\ a.placed = placed
  BY DEF Request

LEMMA HTTPAnswer ==
  ASSUME NEW be, NEW tool, NEW call, NEW a, a = CallHTTP(be, tool, call)
  PROVE  /\ a.name = call.name /\ a.args = call.args /\ a.by = be.id /\ a.tool = tool
         /\ \/ a.outcome = "unknown_tool" /\ tool \notin EndpointNames(be.eps)
            \/ /\ a.outcome = "sent" /\ tool \in EndpointNames(be.eps)
               /\ a.headers = ApplyHeaders(be, turn.routing, turn.session[be.id])
               /\ a.placed = BuildRequest(FindByName(be.eps, tool), call.args).placed
            \/ /\ a.outcome = "missing_param" /\ tool \in EndpointNames(be.eps)
               /\ ~BuildRequest(FindByName(be.eps, tool), call.args).ok
<1> DEFINE req == BuildRequest(FindByName(be.eps, tool), call.args)
           headers == ApplyHeaders(be, turn.routing, turn.session[be.id])
           known == tool \in EndpointNames(be.eps)
<1>1. a = IF ~known THEN Request(call.name, call.args, be.id, tool, "unknown_tool", NoHeaders, {})
          ELSE IF req.ok THEN Request(call.name, call.args, be.id, tool, "sent", headers, req.placed)
               ELSE Request(call.name, call.args, be.id, tool, "missing_param", NoHeaders, {})
  BY DEF CallHTTP
<1>2. req.ok \in BOOLEAN
  BY DEF BuildRequest
<1> HIDE DEF req, headers, known
<1>3. CASE ~known
  <2>1. a = Request(call.name, call.args, be.id, tool, "unknown_tool", NoHeaders, {})
    BY <1>1, <1>3
  <2>2. a.name = call.name /\ a.args = call.args /\ a.by = be.id /\ a.tool = tool /\ a.outcome = "unknown_tool"
    BY <2>1, RequestIs
  <2> QED BY <1>3, <2>2 DEF known
<1>4. CASE known /\ req.ok
  <2>1. a = Request(call.name, call.args, be.id, tool, "sent", headers, req.placed)
    BY <1>1, <1>4
  <2>2. /\ a.name = call.name /\ a.args = call.args /\ a.by = be.id /\ a.tool = tool
        /\ a.outcome = "sent" /\ a.headers = headers /\ a.placed = req.placed
    BY <2>1, RequestIs
  <2> QED BY <1>4, <2>2 DEF known, headers, req
<1>5. CASE known /\ ~req.ok
  <2>1. a = Request(call.name, call.args, be.id, tool, "missing_param", NoHeaders, {})
    BY <1>1, <1>5
  <2>2. a.name = call.name /\ a.args = call.args /\ a.by = be.id /\ a.tool = tool /\ a.outcome = "missing_param"
    BY <2>1, RequestIs
  <2> QED BY <1>5, <2>2 DEF known, req
<1> QED BY <1>2, <1>3, <1>4, <1>5

LEMMA MCPAnswer ==
  ASSUME NEW be, NEW tool, NEW call, NEW a, a = CallMCP(be, tool, call)
  PROVE  /\ a.name = call.name /\ a.args = call.args /\ a.by = be.id /\ a.tool = tool
         /\ a.outcome = IF tool \in ServerTools THEN "sent" ELSE "unknown_tool"
         /\ a.headers = ApplyHeaders(be, turn.routing, turn.session[be.id])
  BY DEF CallMCP, Request, RoundTrip

LEMMA UnmappedAnswer ==
  ASSUME NEW be, NEW tool, NEW call, NEW a, a = CallUnmapped(be, tool, call)
  PROVE  a.name = call.name /\ a.by = None /\ a.outcome = "endpoint_not_connected"
  BY DEF CallUnmapped, Request

LEMMA OtherAnswers ==
  ASSUME NEW call
  PROVE  /\ CallSkillMetaTool(call.args).name = SkillToolName
         /\ CallSkillMetaTool(call.args).outcome \in {"prompt", "unknown_skill"}
         /\ Request(call.name, call.args, None, <<>>, "no_owner", NoHeaders, {}).name = call.name
         /\ Request(call.name, call.args, None, <<>>, "no_owner", NoHeaders, {}).outcome = "no_owner"
  BY DEF CallSkillMetaTool, Request

(* What the answer of a backend says, whatever the backend's kind.         *)
LEMMA AskedIs ==
  ASSUME Loaded, NEW call, NEW i \in DOMAIN turn.built, Asked(call, i)
  PROVE  LET a == Answer(call)
             be == turn.built[i]
         IN  /\ a.name = call.name /\ a.by = be.id
             /\ a.outcome = "sent" => a.headers = ApplyHeaders(be, turn.routing, turn.session[be.id])
<1> DEFINE a == Answer(call)
           be == turn.built[i]
           tool == Route(call.name).tool
<1>1. \/ be.kind = "http_endpoint" /\ a = CallHTTP(be, tool, call)
      \/ be.kind = "mcp_client" /\ a = CallMCP(be, tool, call)
      \/ be = Unmapped /\ a = CallUnmapped(be, tool, call)
  BY DEF Asked
<1>2. be = Unmapped => be.id = None
  BY KindsOf
<1> HIDE DEF a, be, tool
<1>3. CASE a = CallHTTP(be, tool, call)
  <2>1. a.name = call.name /\ a.by = be.id
    BY <1>3, HTTPAnswer
  <2>2. a.outcome = "sent" => a.headers = ApplyHeaders(be, turn.routing, turn.session[be.id])
    BY <1>3, HTTPAnswer
  <2> QED BY <2>1, <2>2 DEF a, be
<1>4. CASE a = CallMCP(be, tool, call)
  <2>1. a.name = call.name /\ a.by = be.id /\ a.headers = ApplyHeaders(be, turn.routing, turn.session[be.id])
    BY <1>4, MCPAnswer
  <2> QED BY <2>1 DEF a, be
<1>5. CASE be = Unmapped /\ a = CallUnmapped(be, tool, call)
  <2>1. a.name = call.name /\ a.by = None /\ a.outcome = "endpoint_not_connected"
    BY <1>5, UnmappedAnswer
  <2>2. a.by = be.id
    BY <1>2, <1>5, <2>1
  <2> QED BY <2>1, <2>2 DEF a, be
<1> QED BY <1>1, <1>3, <1>4, <1>5

LEMMA AnswerNames ==
  ASSUME Loaded, NEW call
  PROVE  Answer(call).name = call.name
<1>1. ASSUME NEW i \in DOMAIN turn.built, Asked(call, i)
      PROVE  Answer(call).name = call.name
  BY <1>1, AskedIs
<1> QED BY <1>1, AnswerOf, OtherAnswers

(* A request that is sent carries the session's headers.                   *)
LEMMA AnswerHeaders ==
  ASSUME Loaded, NEW call, Answer(call).outcome = "sent"
  PROVE  LET a == Answer(call)
         IN  /\ \A x \in turn.session[a.by] : x \in DOMAIN a.headers /\ a.headers[x] = "session"
             /\ \A x \in DOMAIN a.headers : a.headers[x] = "visitor" =>
                   /\ x \notin HopByHop \cup {RoutingEnvelopeHeader}
                   /\ \E be \in ToSet(turn.built), n \in DOMAIN turn.routing :
                         be.id = a.by /\ ToLower(be.name) = n /\ turn.routing[n].all
<1> DEFINE a == Answer(call)
<1>1. PICK i \in DOMAIN turn.built : Asked(call, i)
  BY AnswerOf, OtherAnswers
<1> DEFINE be == turn.built[i]
<1>2. a.by = be.id /\ a.headers = ApplyHeaders(be, turn.routing, turn.session[be.id])
  BY <1>1, AskedIs
<1>3. be \in ToSet(turn.built)
  BY DEF ToSet
<1> HIDE DEF a, be
<1>4. \A x \in turn.session[a.by] : x \in DOMAIN a.headers /\ a.headers[x] = "session"
  BY <1>2, Layers
<1>5. ASSUME NEW x \in DOMAIN a.headers, a.headers[x] = "visitor"
      PROVE  /\ x \notin HopByHop \cup {RoutingEnvelopeHeader}
             /\ ToLower(be.name) \in DOMAIN turn.routing
             /\ turn.routing[ToLower(be.name)].all
  BY <1>2, <1>5, Layers
<1> QED BY <1>2, <1>3, <1>4, <1>5 DEF a

(* Accepted arguments make a request, and all of them are in it.           *)
LEMMA AnswerArguments ==
  ASSUME Loaded, NEW call, Answer(call).outcome \in {"sent", "missing_param"},
         NEW be \in ToSet(turn.built), be.id = Answer(call).by, be.kind = "http_endpoint"
  PROVE  LET a == Answer(call)
             ep == FindByName(be.eps, a.tool)
         IN  Accepts(BuildEndpointSchema(ep), a.args) =>
                 /\ a.outcome = "sent"
                 /\ a.args \subseteq a.placed \/ ep.method \in Methods \ Bodied
<1> DEFINE a == Answer(call)
           ep == FindByName(be.eps, a.tool)
<1>1. PICK i \in DOMAIN turn.built : Asked(call, i)
  BY AnswerOf, OtherAnswers
<1>2. PICK j \in DOMAIN turn.built : be = turn.built[j]
  BY DEF ToSet
<1>3. a.by = turn.built[i].id
  BY <1>1, AskedIs
<1>4. Real(be) /\ be.id = turn.built[i].id
  BY <1>2, <1>3, KindsOf DEF Kinds
<1>5. i = j
  BY <1>2, <1>4 DEF Loaded
<1>6. a = CallHTTP(be, Route(call.name).tool, call)
  BY <1>1, <1>2, <1>5, KindsOf DEF Asked, Kinds
<1>7. /\ a.args = call.args /\ a.tool = Route(call.name).tool /\ a.tool \in EndpointNames(be.eps)
      /\ a.outcome = "sent" \/ ~BuildRequest(ep, a.args).ok
      /\ a.outcome = "sent" => a.placed = BuildRequest(ep, a.args).placed
  <2> DEFINE tool == Route(call.name).tool
             req == BuildRequest(FindByName(be.eps, tool), call.args)
  <2>1. a = CallHTTP(be, tool, call) /\ a.outcome \in {"sent", "missing_param"}
    BY <1>6
  <2> HIDE DEF a, tool
  <2>2. a.args = call.args /\ a.tool = tool
    BY <2>1, HTTPAnswer
  <2>3. \/ a.outcome = "sent" /\ tool \in EndpointNames(be.eps) /\ a.placed = req.placed
        \/ a.outcome = "missing_param" /\ tool \in EndpointNames(be.eps) /\ ~req.ok
    BY <2>1, HTTPAnswer
  <2>4. req = BuildRequest(ep, a.args)
    BY <2>2
  <2> QED BY <2>2, <2>3, <2>4 DEF tool
<1>8. be.eps \in SUBSET DOMAIN Architecture.tools
  BY <1>4 DEF Real, EndpointsOf
<1>9. ep.method \in Methods
  BY <1>7, <1>8, Found
<1> HIDE DEF a, ep
<1>10. ASSUME Accepts(BuildEndpointSchema(ep), a.args)
       PROVE  a.outcome = "sent" /\ (a.args \subseteq a.placed \/ ep.method \in Methods \ Bodied)
  BY <1>7, <1>9, <1>10, Placed
<1> QED BY <1>10 DEF a, ep

(* A name some backend offers is answered by one that does, unless another *)
(* captures it.                                                            *)
LEMMA AnswerRoutes ==
  ASSUME Loaded, NEW call, call.name # SkillToolName, Owning(call.name) # {},
         \A i \in Capturing(call.name) : i \in Owning(call.name) /\ turn.built[i].kind = "mcp_client"
  PROVE  /\ Answer(call).outcome \notin {"no_owner", "unknown_tool"}
         /\ \E i \in Owning(call.name) : turn.built[i].id = Answer(call).by
<1> DEFINE name == call.name
           a == Answer(call)
           i == Route(name).to
           tool == Route(name).tool
<1>1. DOMAIN turn.built \subseteq Nat \ {0}
  BY SeqIs DEF Loaded
<1>2. Capturing(name) \in SUBSET (Nat \ {0}) /\ Owning(name) \in SUBSET (Nat \ {0})
  BY <1>1 DEF Capturing, Owning
<1>3. i # 0
  <2>1. CASE Capturing(name) # {}
    <3>1. Min(Capturing(name)) \in Capturing(name)
      BY <1>2, <2>1, LeastNat
    <3>2. i = Min(Capturing(name))
      BY <2>1 DEF Route
    <3> QED BY <1>2, <3>1, <3>2
  <2>2. CASE Capturing(name) = {}
    <3>1. Min(Owning(name)) \in Owning(name)
      BY <1>2, LeastNat
    <3>2. i = Min(Owning(name))
      BY <2>2 DEF Route
    <3> QED BY <1>2, <3>1, <3>2
  <2> QED BY <2>1, <2>2
<1>4. /\ i \in DOMAIN turn.built
      /\ Capturing(name) # {} => i \in Capturing(name)
      /\ Capturing(name) = {} => i \in Owning(name) /\ tool = name
  BY <1>3, RouteLeads
<1>5. i \in Owning(name) /\ name \in ToolsOf(turn.built[i])
  BY <1>4 DEF Owning
<1>6. Asked(call, i)
  BY <1>3, AnswerOf
<1>7. Capturing(name) # {} => tool = SubSeq(name, Len(turn.built[i].name) + 1, Len(name))
  BY DEF Route
<1> HIDE DEF i, tool, a
<1>8. CASE turn.built[i].kind = "mcp_client"
  <2>1. /\ IsStrictPrefix(turn.built[i].name, name)
        /\ SubSeq(name, Len(turn.built[i].name) + 1, Len(name)) \in ServerTools
    BY <1>4, <1>5, <1>8, Trimmed
  <2>2. Capturing(name) # {}
    BY <1>4, <2>1 DEF Capturing
  <2>3. tool \in ServerTools
    BY <1>7, <2>1, <2>2
  <2>4. a = CallMCP(turn.built[i], tool, call)
    BY <1>4, <1>6, <1>8, KindsOf DEF Asked, Kinds, tool, a, i
  <2>5. a.outcome = "sent" /\ a.by = turn.built[i].id
    BY <2>3, <2>4, MCPAnswer
  <2> QED BY <1>5, <2>5 DEF a
<1>9. CASE turn.built[i].kind = "http_endpoint"
  <2>1. Capturing(name) = {} /\ tool = name
    BY <1>4, <1>9
  <2>2. name \in EndpointNames(turn.built[i].eps)
    BY <1>5, <1>9 DEF ToolsOf
  <2>3. a = CallHTTP(turn.built[i], tool, call)
    BY <1>4, <1>6, <1>9, KindsOf DEF Asked, Kinds, tool, a, i
  <2>4. a.outcome # "unknown_tool" /\ a.outcome # "no_owner" /\ a.by = turn.built[i].id
    BY <2>1, <2>2, <2>3, HTTPAnswer
  <2> QED BY <1>5, <2>4 DEF a
<1>10. CASE turn.built[i] = Unmapped
  <2>1. a = CallUnmapped(turn.built[i], tool, call)
    BY <1>4, <1>6, <1>10, KindsOf DEF Asked, Kinds, tool, a, i
  <2>2. a.outcome = "endpoint_not_connected" /\ a.by = turn.built[i].id
    BY <1>4, <1>10, <2>1, KindsOf, UnmappedAnswer
  <2> QED BY <1>5, <2>2 DEF a
<1> QED BY <1>4, <1>8, <1>9, <1>10, KindsOf DEF a

-----------------------------------------------------------------------------
(* Operators.                                                              *)

(* What a turn has read stays as it read it while operators edit.          *)
LEMMA Undisturbed ==
  ASSUME IInv, UNCHANGED <<turn, conns, last>>
  PROVE  (/\ TurnRecord /\ Sessions /\ Loaded /\ Offered /\ Quiet
          /\ RoutesToOwner /\ HeadersAsConfigured /\ ArgumentsArrive)'
<1>1. (TurnRecord /\ Sessions /\ Quiet)'
  BY DEF IInv, TurnRecord, Sessions, Quiet
<1>2. Loaded'
  BY DEF IInv, Loaded, Real, Unmapped, EndpointsOf
<1>3. Offered'
  BY DEF IInv, Offered, Built
<1>4. RoutesToOwner'
  BY DEF IInv, RoutesToOwner, Owning, Capturing
<1>5. HeadersAsConfigured'
  BY DEF IInv, HeadersAsConfigured
<1>6. ArgumentsArrive'
  BY DEF IInv, ArgumentsArrive
<1> QED BY <1>1, <1>2, <1>3, <1>4, <1>5, <1>6

LEMMA TablesKept ==
  ASSUME Tables, UNCHANGED turn,
         rows' \in [Backends -> BackendRow \cup {None, Gone}],
         \A b \in Backends : rows'[b] \in {None, Gone} \/ rows'[b].kind = Kind[b],
         Wires(endpointBackend')
  PROVE  Tables'
  BY DEF Tables, Wires

LEMMA Wired ==
  ASSUME Tables, NEW es \in SUBSET Endpoints, NEW b,
         b \in Backends \cup {None}, WireEndpoints(es, b)
  PROVE  Wires(endpointBackend')
<1>1. endpointBackend' = [e \in Endpoints |-> IF e \in es THEN b ELSE endpointBackend[e]]
  BY DEF WireEndpoints
<1>2. Wires(endpointBackend)
  BY DEF Tables
<1> QED BY <1>1, <1>2 DEF Wires

LEMMA OperatorKeeps == IInv /\ Operator => IInv'
<1> SUFFICES ASSUME IInv, Operator PROVE IInv'
  OBVIOUS
<1> USE DEF IInv
<1>1. Tables
  OBVIOUS
<1>2. ASSUME UNCHANGED <<turn, conns, last>>, Tables' PROVE IInv'
  BY <1>2, Undisturbed
<1> HIDE DEF IInv
<1>3. ASSUME UNCHANGED <<turn, conns, last, rows, endpointBackend>> PROVE IInv'
  BY <1>1, <1>2, <1>3 DEF Tables, Wires
<1>4. ASSUME UNCHANGED <<turn, conns, last, rows>>, Wires(endpointBackend') PROVE IInv'
  BY <1>1, <1>2, <1>4, TablesKept DEF Tables
<1>5. ASSUME NEW b \in Backends, NEW n \in Names, NEW headers \in HeaderSets, CreateBackend(b, n, headers)
      PROVE  IInv'
  <2>1. [name |-> n, kind |-> Kind[b], headers |-> headers] \in BackendRow
    BY ToolCallsAssumption DEF BackendRow
  <2>2. /\ rows' \in [Backends -> BackendRow \cup {None, Gone}]
        /\ \A c \in Backends : rows'[c] \in {None, Gone} \/ rows'[c].kind = Kind[c]
    BY <1>1, <1>5, <2>1 DEF CreateBackend, Tables
  <2>3. UNCHANGED <<turn, conns, last, endpointBackend>>
    BY <1>5 DEF CreateBackend, Edit
  <2>4. Tables'
    BY <1>1, <2>2, <2>3, TablesKept DEF Tables
  <2> QED BY <1>2, <2>3, <2>4
<1>6. ASSUME NEW b \in Backends, NEW n \in Names, NEW headers \in HeaderSets, UpdateBackend(b, n, headers)
      PROVE  IInv'
  <2>1. rows[b] \in BackendRow /\ rows[b].kind = Kind[b]
    BY <1>1, <1>6 DEF UpdateBackend, Exists, Tables
  <2>2. Updated(rows[b], n, headers) \in BackendRow /\ Updated(rows[b], n, headers).kind = Kind[b]
    BY <2>1 DEF Updated, BackendRow
  <2>3. /\ rows' \in [Backends -> BackendRow \cup {None, Gone}]
        /\ \A c \in Backends : rows'[c] \in {None, Gone} \/ rows'[c].kind = Kind[c]
    BY <1>1, <1>6, <2>2 DEF UpdateBackend, Tables
  <2>4. UNCHANGED <<turn, conns, last, endpointBackend>>
    BY <1>6 DEF UpdateBackend, Edit
  <2>5. Tables'
    BY <1>1, <2>3, <2>4, TablesKept DEF Tables
  <2> QED BY <1>2, <2>4, <2>5
<1>7. ASSUME NEW b \in Backends, DeleteBackend(b) PROVE IInv'
  <2>1. /\ rows' \in [Backends -> BackendRow \cup {None, Gone}]
        /\ \A c \in Backends : rows'[c] \in {None, Gone} \/ rows'[c].kind = Kind[c]
    BY <1>1, <1>7 DEF DeleteBackend, Tables
  <2>2. UNCHANGED <<turn, conns, last, endpointBackend>>
    BY <1>7 DEF DeleteBackend, Edit
  <2>3. Tables'
    BY <1>1, <2>1, <2>2, TablesKept DEF Tables
  <2> QED BY <1>2, <2>2, <2>3
<1>8. ASSUME NEW b \in Backends, SetEndpointBackendBulk(b) PROVE IInv'
  <2>1. WireEndpoints(Endpoints, b) /\ UNCHANGED <<turn, conns, last, rows>>
    BY <1>8 DEF SetEndpointBackendBulk, Edit
  <2> QED BY <1>1, <1>4, <2>1, Wired
<1>9. ASSUME NEW b \in Backends, NEW e \in Endpoints, SetEndpointBackend(e, b) PROVE IInv'
  <2>1. WireEndpoints({e}, b) /\ UNCHANGED <<turn, conns, last, rows>>
    BY <1>9 DEF SetEndpointBackend, Edit
  <2> QED BY <1>1, <1>4, <2>1, Wired
<1>10. ASSUME NEW e \in Endpoints, UnsetEndpointBackend(e) PROVE IInv'
  <2>1. WireEndpoints({e}, None) /\ UNCHANGED <<turn, conns, last, rows>>
    BY <1>10 DEF UnsetEndpointBackend, Edit
  <2> QED BY <1>1, <1>4, <2>1, Wired
<1>11. ASSUME NEW b \in Backends, ToggleMCPBackend(b) PROVE IInv'
  BY <1>3, <1>11 DEF ToggleMCPBackend, Edit
<1>12. CASE ReadNotes
  BY <1>3, <1>12 DEF ReadNotes, Edit, tables
<1>13. CASE EndNotes
  BY <1>3, <1>13 DEF EndNotes
<1>14. ASSUME NEW b \in Backends, NEW note \in Notes, WriteNote(b, note) PROVE IInv'
  BY <1>3, <1>14 DEF WriteNote
<1>15. ASSUME NEW b \in Backends, NEW headers \in HeaderSets, UpdateHeaderOverrides(b, headers) PROVE IInv'
  BY <1>3, <1>15 DEF UpdateHeaderOverrides, Edit
<1> QED BY <1>5, <1>6, <1>7, <1>8, <1>9, <1>10, <1>11, <1>12, <1>13, <1>14, <1>15 DEF Operator

-----------------------------------------------------------------------------
(* The turn builds its backends and lists their tools.                     *)

(* Before the first call of a tool there is nothing to say of requests.    *)
LEMMA NothingSent ==
  last'.outcome \in {"none", "connect"} => (Quiet /\ RoutesToOwner /\ HeadersAsConfigured /\ ArgumentsArrive)'
  BY DEF Quiet, RoutesToOwner, HeadersAsConfigured, ArgumentsArrive

LEMMA TablesRead ==
  ASSUME Tables, UNCHANGED <<rows, endpointBackend>>,
         turn'.at \notin {"idle", "wiring", "done"} => Wires(turn'.mapping)
  PROVE  Tables'
  BY DEF Tables, Wires

LEMMA SessionsKept ==
  ASSUME Sessions, UNCHANGED conns,
         turn.at \in {"listing", "calling", "closing"} => turn'.at \in {"listing", "calling", "closing"}
  PROVE  Sessions'
  BY DEF Sessions

LEMMA StartTurnKeeps ==
  ASSUME IInv, NEW routing, NEW session, StartTurn(routing, session)
  PROVE  IInv'
<1>1. /\ turn.at = "idle" /\ turn'.at = "wiring" /\ turn'.built = turn.built
      /\ TurnRecord'
      /\ UNCHANGED <<rows, endpointBackend, conns, last>>
  BY DEF IInv, StartTurn, TurnStep, TurnRecord
<1>2. Tables' /\ Sessions'
  BY <1>1, TablesRead, SessionsKept DEF IInv
<1>3. turn.built = <<>> /\ last'.outcome \in {"none", "connect"}
  BY <1>1 DEF IInv, Loaded, Quiet
<1>4. Loaded' /\ Offered'
  BY <1>1, <1>3 DEF IInv, Loaded, Offered
<1> QED BY <1>1, <1>2, <1>3, <1>4, NothingSent DEF IInv

LEMMA ReadEndpointBackendsKeeps ==
  ASSUME IInv, ReadEndpointBackends
  PROVE  IInv'
<1>1. /\ turn.at = "wiring" /\ turn'.at = "attachments" /\ turn'.built = turn.built
      /\ turn'.mapping = endpointBackend /\ turn'.left = Range(endpointBackend) \ {None}
      /\ TurnRecord'
      /\ UNCHANGED <<rows, endpointBackend, conns, last>>
  BY DEF IInv, ReadEndpointBackends, TurnStep, TurnRecord
<1>2. Wires(endpointBackend)
  BY DEF IInv, Tables
<1>3. Tables' /\ Sessions'
  BY <1>1, <1>2, TablesRead, SessionsKept DEF IInv
<1>4. turn.built = <<>> /\ last'.outcome \in {"none", "connect"}
  BY <1>1 DEF IInv, Loaded, Quiet
<1>5. /\ turn'.left \subseteq Backends
      /\ \A e \in Endpoints : turn'.mapping[e] = None \/ turn'.mapping[e] \in turn'.left
  BY <1>1, <1>2 DEF Wires, Range
<1>6. Loaded'
  BY <1>1, <1>4, <1>5 DEF IInv, Loaded
<1>7. Offered'
  BY <1>1, <1>5 DEF Offered
<1> QED BY <1>1, <1>3, <1>4, <1>6, <1>7, NothingSent DEF IInv

LEMMA ReadMCPAttachmentsKeeps ==
  ASSUME IInv, ReadMCPAttachments
  PROVE  IInv'
<1>1. /\ turn.at = "attachments" /\ turn'.at = "http" /\ turn'.built = turn.built
      /\ turn'.mapping = turn.mapping /\ turn'.left = turn.left
      /\ TurnRecord'
      /\ UNCHANGED <<rows, endpointBackend, conns, last>>
  BY DEF IInv, ReadMCPAttachments, TurnStep, TurnRecord
<1>2. Tables' /\ Sessions'
  BY <1>1, TablesRead, SessionsKept DEF IInv, Tables
<1>3. turn.built = <<>> /\ last'.outcome \in {"none", "connect"}
  BY <1>1 DEF IInv, Loaded, Quiet
<1>4. Loaded'
  BY <1>1, <1>3 DEF IInv, Loaded
<1>5. Offered'
  BY <1>1 DEF IInv, Offered, Built
<1> QED BY <1>1, <1>2, <1>3, <1>4, <1>5, NothingSent DEF IInv

(* A backend that is added says what its row says.                         *)
LEMMA BackendIsReal ==
  ASSUME Tables, NEW b \in Backends, Exists(b)
  PROVE  Real(BackendOf(b)) /\ BackendOf(b).id = b /\ BackendOf(b).kind = rows[b].kind
  BY DEF Tables, Exists, BackendOf, Real, BackendRow

LEMMA RealKept ==
  ASSUME turn'.mapping = turn.mapping, NEW i, turn'.built[i] = turn.built[i],
         Real(turn.built[i]) \/ turn.built[i] = Unmapped
  PROVE  (Real(turn.built[i]) \/ turn.built[i] = Unmapped)'
  BY DEF Real, Unmapped, EndpointsOf

LEMMA LoadBackendKeeps ==
  ASSUME IInv, NEW b \in Backends, LoadBackend(b)
  PROVE  IInv'
<1>1. /\ turn.at \in {"http", "mcp"} /\ b \in turn.left /\ turn'.mapping = turn.mapping
      /\ TurnRecord'
      /\ UNCHANGED <<rows, endpointBackend, conns, last>>
  BY DEF IInv, LoadBackend, TurnStep, TurnRecord
<1>2. last'.outcome \in {"none", "connect"}
  BY <1>1 DEF IInv, Quiet
<1>3. Tables'
  BY <1>1, TablesRead DEF IInv, Tables
<1>4. Sessions'
  BY <1>1, SessionsKept DEF IInv
<1>5. \A c : EndpointsOf(c)' = EndpointsOf(c)
  BY <1>1 DEF EndpointsOf
<1>6. Unmapped' = Unmapped /\ \A be : Real(be) => Real(be)'
  BY <1>5 DEF Unmapped, Real
<1>7. CASE ~Exists(b)
  <2>1. turn'.at = "done" /\ turn'.built = turn.built
    BY <1>7 DEF IInv, LoadBackend, TurnRecord
  <2>2. Loaded'
    BY <1>6, <2>1 DEF IInv, Loaded
  <2>3. Offered'
    BY <2>1 DEF Offered
  <2> QED BY <1>1, <1>2, <1>3, <1>4, <2>2, <2>3, NothingSent DEF IInv
<1>8. CASE Exists(b) /\ rows[b].kind # (IF turn.at = "http" THEN "http_endpoint" ELSE "mcp_client")
  <2>1. turn'.at = turn.at /\ turn'.built = turn.built /\ turn'.left = turn.left \ {b}
    BY <1>8 DEF IInv, LoadBackend, TurnRecord
  <2>2. Loaded'
    BY <1>1, <1>6, <2>1 DEF IInv, Loaded
  <2>3. turn.at = "http" => b # None /\ Kind[b] # "http_endpoint"
    BY <1>8, ToolCallsAssumption DEF IInv, Tables, Exists
  <2>4. Offered'
    BY <1>1, <2>1, <2>3 DEF IInv, Offered, Built, Callable
  <2> QED BY <1>1, <1>2, <1>3, <1>4, <2>2, <2>4, NothingSent DEF IInv
<1>9. CASE Exists(b) /\ rows[b].kind = (IF turn.at = "http" THEN "http_endpoint" ELSE "mcp_client")
  <2> DEFINE n == Len(turn.built)
             be == BackendOf(b)
  <2>1. turn'.at = turn.at /\ turn'.built = Append(turn.built, be) /\ turn'.left = turn.left \ {b}
    BY <1>9 DEF IInv, LoadBackend, TurnRecord
  <2>2. Real(be) /\ be.id = b /\ be.kind = rows[b].kind
    BY <1>9, BackendIsReal DEF IInv
  <2>3. IsSeq(turn.built) /\ n \in Nat /\ DOMAIN turn.built = 1 .. n
    BY SeqIs DEF IInv, Loaded
  <2> HIDE DEF be
  <2>4. /\ IsSeq(turn'.built) /\ DOMAIN turn'.built = 1 .. n + 1
        /\ \A i \in 1 .. n : i \in DOMAIN turn'.built /\ turn'.built[i] = turn.built[i]
        /\ turn'.built[n + 1] = be
        /\ \A i \in DOMAIN turn'.built : i \in 1 .. n \/ i = n + 1
    BY <2>1, <2>3, AppendIs
  <2> HIDE DEF n
  <2>5. (\A i \in DOMAIN turn.built : Real(turn.built[i]) \/ turn.built[i] = Unmapped)'
    <3>1. ASSUME NEW i \in 1 .. n
          PROVE  (Real(turn.built[i]) \/ turn.built[i] = Unmapped)'
      BY <1>1, <2>3, <2>4, RealKept DEF IInv, Loaded
    <3>2. ASSUME NEW i, i = n + 1
          PROVE  Real(turn.built[i])'
      <4>1. turn'.built[i] = be
        BY <2>4, <3>2
      <4> QED BY <1>1, <2>2, <4>1 DEF Real, EndpointsOf
    <3> QED BY <2>4, <3>1, <3>2
  <2>6. turn.at = "http" => \A i \in 1 .. n : turn.built[i].id # b
    BY <1>1, <2>3 DEF IInv, Loaded
  <2>7. turn.at = "mcp" => be.kind # "http_endpoint"
    BY <1>9, <2>2
  <2>8. \A i \in 1 .. n : turn.built[i].kind = "http_endpoint" => turn.at = "http" \/ be.kind # turn.built[i].kind
    BY <1>1, <2>7
  <2>9. ASSUME NEW i \in 1 .. n, turn.built[i].kind = "http_endpoint", turn.built[i].id = b
        PROVE  turn.at = "mcp" /\ Kind[b] = "http_endpoint"
    <3>1. turn.at = "mcp"
      BY <1>1, <2>6, <2>9
    <3>2. Real(turn.built[i])
      BY <2>3, <2>9, KindsOf DEF IInv, Kinds
    <3> QED BY <2>9, <3>1, <3>2 DEF Real
  <2>10. \A i \in 1 .. n : turn.built[i].kind = "http_endpoint" => turn.built[i].id # b
    BY <2>2, <2>7, <2>9 DEF Real
  <2>11. \A i, j \in DOMAIN turn'.built :
           turn'.built[i].kind = "http_endpoint" /\ turn'.built[i].id = turn'.built[j].id => i = j
    <3>1. ASSUME NEW i \in DOMAIN turn'.built, NEW j \in DOMAIN turn'.built,
                 turn'.built[i].kind = "http_endpoint", turn'.built[i].id = turn'.built[j].id
          PROVE  i = j
      <4>1. CASE i \in 1 .. n /\ j \in 1 .. n
        BY <2>3, <2>4, <3>1, <4>1 DEF IInv, Loaded
      <4>2. CASE i \in 1 .. n /\ j = n + 1
        BY <2>2, <2>4, <2>10, <3>1, <4>2
      <4>3. CASE i = n + 1 /\ j \in 1 .. n
        <5>1. be.kind = "http_endpoint" /\ turn.built[j].id = b
          BY <2>2, <2>4, <3>1, <4>3
        <5> QED BY <1>1, <2>6, <2>7, <4>3, <5>1
      <4> QED BY <2>4, <4>1, <4>2, <4>3
    <3> QED BY <3>1
  <2>12. turn'.at \in {"attachments", "http"} =>
           /\ turn'.left \subseteq Backends
           /\ \A i \in DOMAIN turn'.built : turn'.built[i].id \notin turn'.left
    BY <1>1, <2>1, <2>2, <2>3, <2>4 DEF IInv, Loaded
  <2>13. Loaded'
    BY <1>1, <2>1, <2>4, <2>5, <2>11, <2>12 DEF Loaded
  <2>14. \A c : Built(c) => \E i \in DOMAIN turn'.built : turn'.built[i].id = c
    BY <2>3, <2>4 DEF Built
  <2>15. \E i \in DOMAIN turn'.built : turn'.built[i].id = b
    <3>1. n + 1 \in DOMAIN turn'.built
      BY <2>3, <2>4
    <3> QED BY <2>2, <2>4, <3>1
  <2>16. Offered'
    <3>1. ASSUME NEW e \in Endpoints, Callable(turn.mapping[e]), turn.mapping[e] # None,
                 turn.at = "http" => turn.mapping[e] \notin turn'.left
          PROVE  \E i \in DOMAIN turn'.built : turn'.built[i].id = turn.mapping[e]
      <4>1. turn.mapping[e] = b \/ Built(turn.mapping[e])
        BY <1>1, <2>1, <3>1 DEF IInv, Offered
      <4> QED BY <2>14, <2>15, <4>1
    <3> QED BY <1>1, <2>1, <3>1 DEF Offered, Built, Callable
  <2> QED BY <1>1, <1>2, <1>3, <1>4, <2>13, <2>16, NothingSent DEF IInv
<1> QED BY <1>7, <1>8, <1>9

LEMMA LoadAttachmentsKeeps ==
  ASSUME IInv, LoadAttachments
  PROVE  IInv'
<1>1. /\ turn.at = "http" /\ turn.left = {} /\ turn'.at = "mcp" /\ turn'.built = turn.built
      /\ turn'.mapping = turn.mapping
      /\ TurnRecord'
      /\ UNCHANGED <<rows, endpointBackend, conns, last>>
  BY DEF IInv, LoadAttachments, TurnStep, TurnRecord
<1>2. Tables' /\ Sessions'
  BY <1>1, TablesRead, SessionsKept DEF IInv, Tables
<1>3. last'.outcome \in {"none", "connect"}
  BY <1>1 DEF IInv, Quiet
<1>4. (\A i \in DOMAIN turn.built : Real(turn.built[i]) \/ turn.built[i] = Unmapped)'
  BY <1>1, RealKept DEF IInv, Loaded
<1>5. Loaded'
  BY <1>1, <1>4 DEF IInv, Loaded
<1>6. Offered'
  BY <1>1 DEF IInv, Offered, Built
<1> QED BY <1>1, <1>2, <1>3, <1>5, <1>6, NothingSent DEF IInv

LEMMA EndBuildKeeps ==
  ASSUME IInv, EndBuild
  PROVE  IInv'
<1>1. /\ turn.at = "mcp" /\ turn'.at = "listing" /\ turn'.mapping = turn.mapping
      /\ turn'.built = IF Unmapped.eps = {} THEN turn.built ELSE Append(turn.built, Unmapped)
      /\ TurnRecord'
      /\ UNCHANGED <<rows, endpointBackend, conns, last>>
  BY DEF IInv, EndBuild, TurnStep, TurnRecord
<1>2. Tables' /\ Sessions'
  BY <1>1, TablesRead, SessionsKept DEF IInv, Tables
<1>3. last'.outcome \in {"none", "connect"}
  BY <1>1 DEF IInv, Quiet
<1>4. \A e \in Endpoints : Callable(turn.mapping[e]) => turn.mapping[e] = None \/ Built(turn.mapping[e])
  BY <1>1 DEF IInv, Offered
<1>5. CASE Unmapped.eps = {}
  <2>1. turn'.built = turn.built
    BY <1>1, <1>5
  <2>2. (\A i \in DOMAIN turn.built : Real(turn.built[i]) \/ turn.built[i] = Unmapped)'
    BY <1>1, <2>1, RealKept DEF IInv, Loaded
  <2>3. Loaded'
    BY <1>1, <2>1, <2>2 DEF IInv, Loaded
  <2>4. ASSUME NEW e \in Endpoints PROVE turn.mapping[e] # None
    <3>1. PICK k \in DOMAIN Architecture.tools : Architecture.tools[k].id = e
      BY DEF Endpoints
    <3>2. k \notin EndpointsOf(None)
      BY <1>5 DEF Unmapped
    <3> QED BY <3>1, <3>2 DEF EndpointsOf
  <2>5. Offered'
    BY <1>1, <1>4, <2>1, <2>4 DEF Offered, Built
  <2> QED BY <1>1, <1>2, <1>3, <2>3, <2>5, NothingSent DEF IInv
<1>6. CASE Unmapped.eps # {}
  <2> DEFINE n == Len(turn.built)
             be == Unmapped
  <2>1. turn'.built = Append(turn.built, be)
    BY <1>1, <1>6
  <2>2. be.id = None /\ be.kind = "unmapped"
    BY DEF Unmapped
  <2>3. IsSeq(turn.built) /\ n \in Nat /\ DOMAIN turn.built = 1 .. n
    BY SeqIs DEF IInv, Loaded
  <2>4. Unmapped' = be
    BY <1>1 DEF Unmapped, EndpointsOf
  <2> HIDE DEF be
  <2>5. /\ IsSeq(turn'.built) /\ DOMAIN turn'.built = 1 .. n + 1
        /\ \A i \in 1 .. n : i \in DOMAIN turn'.built /\ turn'.built[i] = turn.built[i]
        /\ turn'.built[n + 1] = be
        /\ \A i \in DOMAIN turn'.built : i \in 1 .. n \/ i = n + 1
    BY <2>1, <2>3, AppendIs
  <2> HIDE DEF n
  <2>6. (\A i \in DOMAIN turn.built : Real(turn.built[i]) \/ turn.built[i] = Unmapped)'
    <3>1. ASSUME NEW i \in 1 .. n
          PROVE  (Real(turn.built[i]) \/ turn.built[i] = Unmapped)'
      BY <1>1, <2>3, <2>5, RealKept DEF IInv, Loaded
    <3>2. ASSUME NEW i, i = n + 1
          PROVE  (turn.built[i] = Unmapped)'
      BY <2>4, <2>5, <3>2
    <3> QED BY <2>5, <3>1, <3>2
  <2>7. \A i \in 1 .. n : turn.built[i].kind = "http_endpoint" => turn.built[i].id # None
    BY <2>3, KindsOf, ToolCallsAssumption DEF IInv, Kinds, Real
  <2>8. ASSUME NEW i \in DOMAIN turn'.built, NEW j \in DOMAIN turn'.built,
               turn'.built[i].kind = "http_endpoint", turn'.built[i].id = turn'.built[j].id
        PROVE  i = j
    <3>1. CASE i \in 1 .. n /\ j \in 1 .. n
      BY <2>3, <2>5, <2>8, <3>1 DEF IInv, Loaded
    <3>2. CASE i \in 1 .. n /\ j = n + 1
      BY <2>2, <2>5, <2>7, <2>8, <3>2
    <3>3. CASE i = n + 1
      BY <2>2, <2>5, <2>8, <3>3
    <3> QED BY <2>5, <3>1, <3>2, <3>3
  <2>9. Loaded'
    BY <1>1, <2>5, <2>6, <2>8 DEF Loaded
  <2>10. \A c : Built(c) \/ c = None => \E i \in DOMAIN turn'.built : turn'.built[i].id = c
    <3>1. n + 1 \in DOMAIN turn'.built
      BY <2>3, <2>5
    <3> QED BY <2>2, <2>3, <2>5, <3>1 DEF Built
  <2>11. Offered'
    BY <1>1, <1>4, <2>10 DEF Offered, Built
  <2> QED BY <1>1, <1>2, <1>3, <2>9, <2>11, NothingSent DEF IInv
<1> QED BY <1>5, <1>6

LEMMA ListToolsKeeps ==
  ASSUME IInv, NEW outcome, ListTools(outcome)
  PROVE  IInv'
<1> DEFINE be == turn.built[turn.listed + 1]
<1>1. /\ turn.at = "listing" /\ turn'.at \in {"listing", "closing"} /\ turn'.built = turn.built
      /\ turn'.mapping = turn.mapping
      /\ TurnRecord'
      /\ UNCHANGED <<rows, endpointBackend>>
  BY DEF IInv, ListTools, TurnStep, TurnRecord
<1>2. last' = last \/ last'.outcome = "connect"
  BY DEF ListTools, Request
<1>3. last'.outcome \in {"none", "connect"}
  BY <1>1, <1>2 DEF IInv, Quiet
<1>4. Tables'
  BY <1>1, TablesRead DEF IInv, Tables
<1>5. \/ conns' = conns
      \/ conns' = [conns EXCEPT ![be.id] = Ensure(@, outcome)]
  BY DEF ListTools
<1>6. Sessions'
  <2>1. conns \in [Backends -> [held : BOOLEAN, open : Nat]]
    BY DEF IInv, Sessions
  <2>2. \A b \in Backends : conns'[b] \in {conns[b], Ensure(conns[b], outcome)}
    BY <1>5, <2>1
  <2>3. conns' = [b \in Backends |-> conns'[b]]
    BY <1>5, <2>1
  <2>4. \A b \in Backends : /\ Ensure(conns[b], outcome) \in [held : BOOLEAN, open : Nat]
                            /\ Ensure(conns[b], outcome).open = IF Ensure(conns[b], outcome).held THEN 1 ELSE 0
    BY DEF IInv, Sessions, Ensure
  <2> QED BY <1>1, <2>2, <2>3, <2>4 DEF IInv, Sessions
<1>7. (\A i \in DOMAIN turn.built : Real(turn.built[i]) \/ turn.built[i] = Unmapped)'
  BY <1>1, RealKept DEF IInv, Loaded
<1>8. Loaded'
  BY <1>1, <1>7 DEF IInv, Loaded
<1>9. Offered'
  BY <1>1 DEF IInv, Offered, Built
<1> QED BY <1>1, <1>3, <1>4, <1>6, <1>8, <1>9, NothingSent DEF IInv

LEMMA EndListingKeeps ==
  ASSUME IInv, EndListing
  PROVE  IInv'
<1>1. /\ turn.at = "listing" /\ turn'.at = "calling" /\ turn'.built = turn.built
      /\ turn'.mapping = turn.mapping
      /\ TurnRecord'
      /\ UNCHANGED <<rows, endpointBackend, conns, last>>
  BY DEF IInv, EndListing, TurnStep, TurnRecord
<1>2. Tables' /\ Sessions'
  BY <1>1, TablesRead, SessionsKept DEF IInv, Tables
<1>3. last'.outcome \in {"none", "connect"}
  BY <1>1 DEF IInv, Quiet
<1>4. (\A i \in DOMAIN turn.built : Real(turn.built[i]) \/ turn.built[i] = Unmapped)'
  BY <1>1, RealKept DEF IInv, Loaded
<1>5. Loaded'
  BY <1>1, <1>4 DEF IInv, Loaded
<1>6. Offered'
  BY <1>1 DEF IInv, Offered, Built
<1> QED BY <1>1, <1>2, <1>3, <1>5, <1>6, NothingSent DEF IInv

-----------------------------------------------------------------------------
(* Calls, the end of a turn, and the close.                                *)

(* The invariants of the backends do not look at calls.                    *)
LEMMA BackendsKept ==
  ASSUME IInv, turn.at = "calling", turn'.at \in {"calling", "closing"},
         UNCHANGED <<rows, endpointBackend>>,
         turn'.built = turn.built, turn'.mapping = turn.mapping
  PROVE  Tables' /\ Loaded' /\ Offered'
<1>1. (\A i \in DOMAIN turn.built : Real(turn.built[i]) \/ turn.built[i] = Unmapped)'
  BY RealKept DEF IInv, Loaded
<1>2. Loaded'
  BY <1>1 DEF IInv, Loaded
<1>3. Offered'
  BY DEF IInv, Offered, Built
<1>4. Tables'
  BY TablesRead DEF IInv, Tables
<1> QED BY <1>2, <1>3, <1>4

LEMMA CallToolKeeps ==
  ASSUME IInv, NEW call, CallTool(call)
  PROVE  IInv'
<1>1. /\ turn.at = "calling" /\ turn'.at = "calling" /\ turn'.built = turn.built
      /\ turn'.mapping = turn.mapping /\ turn'.session = turn.session /\ turn'.routing = turn.routing
      /\ TurnRecord'
      /\ UNCHANGED <<rows, endpointBackend>>
      /\ last' = Answer(call)
  BY DEF IInv, CallTool, TurnStep, TurnRecord
<1>2. Tables' /\ Loaded' /\ Offered'
  BY <1>1, BackendsKept
<1>3. \A b \in Backends : conns'[b] \in {conns[b], Ensure(conns[b], "ok")}
  BY DEF CallTool
<1>4. DOMAIN conns' = Backends /\ conns' = [b \in Backends |-> conns'[b]]
  BY DEF CallTool
<1>5. Sessions'
  <2>1. \A b \in Backends : /\ Ensure(conns[b], "ok") \in [held : BOOLEAN, open : Nat]
                            /\ Ensure(conns[b], "ok").open = IF Ensure(conns[b], "ok").held THEN 1 ELSE 0
    BY DEF IInv, Sessions, Ensure
  <2> QED BY <1>1, <1>3, <1>4, <2>1 DEF IInv, Sessions
<1>6. Quiet'
  BY <1>1 DEF Quiet
<1>7. Loaded
  BY DEF IInv
<1>8. last'.name = call.name
  BY <1>1, <1>7, AnswerNames
<1>9. \A name : Owning(name)' = Owning(name) /\ Capturing(name)' = Capturing(name)
  BY <1>1 DEF Owning, Capturing
<1>10. RoutesToOwner'
  <2>1. SUFFICES ASSUME call.name # SkillToolName, Owning(call.name) # {},
                        \A i \in Capturing(call.name) : i \in Owning(call.name) /\ turn.built[i].kind = "mcp_client"
                 PROVE  /\ last'.outcome \notin {"no_owner", "unknown_tool"}
                        /\ \E i \in Owning(call.name) : turn.built[i].id = last'.by
    BY <1>1, <1>8 DEF RoutesToOwner, Owning, Capturing
  <2> QED BY <1>1, <1>7, <2>1, AnswerRoutes
<1>11. HeadersAsConfigured'
  <2> DEFINE a == Answer(call)
  <2>1. ASSUME a.outcome = "sent"
        PROVE  /\ \A x \in turn.session[a.by] : x \in DOMAIN a.headers /\ a.headers[x] = "session"
               /\ \A x \in DOMAIN a.headers : a.headers[x] = "visitor" =>
                     /\ x \notin HopByHop \cup {RoutingEnvelopeHeader}
                     /\ \E be \in ToSet(turn.built), n \in DOMAIN turn.routing :
                           be.id = a.by /\ ToLower(be.name) = n /\ turn.routing[n].all
    BY <1>7, <2>1, AnswerHeaders
  <2> HIDE DEF a
  <2>2. last' = a
    BY <1>1 DEF a
  <2> QED BY <1>1, <2>1, <2>2 DEF HeadersAsConfigured
<1>12. ArgumentsArrive'
  <2> DEFINE a == Answer(call)
  <2>1. ASSUME a.outcome \in {"sent", "missing_param"},
               NEW be \in ToSet(turn.built), be.id = a.by, be.kind = "http_endpoint"
        PROVE  LET ep == FindByName(be.eps, a.tool)
               IN  Accepts(BuildEndpointSchema(ep), a.args) =>
                       /\ a.outcome = "sent"
                       /\ a.args \subseteq a.placed \/ ep.method \in Methods \ Bodied
    BY <1>7, <2>1, AnswerArguments
  <2> HIDE DEF a
  <2>2. last' = a
    BY <1>1 DEF a
  <2> QED BY <1>1, <2>1, <2>2 DEF ArgumentsArrive
<1> QED BY <1>1, <1>2, <1>5, <1>6, <1>10, <1>11, <1>12 DEF IInv

LEMMA EndTurnKeeps ==
  ASSUME IInv, EndTurn
  PROVE  IInv'
<1>1. /\ turn.at = "calling" /\ turn'.at = "closing" /\ turn'.built = turn.built
      /\ turn'.mapping = turn.mapping /\ turn'.session = turn.session /\ turn'.routing = turn.routing
      /\ TurnRecord'
      /\ UNCHANGED <<rows, endpointBackend, conns, last>>
  BY DEF IInv, EndTurn, TurnStep, TurnRecord
<1>2. Tables' /\ Loaded' /\ Offered'
  BY <1>1, BackendsKept
<1>3. Sessions'
  BY <1>1, SessionsKept DEF IInv
<1>4. Quiet' /\ RoutesToOwner'
  BY <1>1 DEF Quiet, RoutesToOwner
<1>5. HeadersAsConfigured'
  BY <1>1 DEF IInv, HeadersAsConfigured
<1>6. ArgumentsArrive'
  BY <1>1 DEF IInv, ArgumentsArrive
<1> QED BY <1>1, <1>2, <1>3, <1>4, <1>5, <1>6 DEF IInv

LEMMA CloseKeeps ==
  ASSUME IInv, NEW failing, Close(failing)
  PROVE  IInv'
<1>1. /\ turn'.at = "done" /\ turn'.built = <<>>
      /\ TurnRecord'
      /\ UNCHANGED <<rows, endpointBackend>>
      /\ last' = NoRequest
  BY DEF Close, NoTurn, TurnStep, TurnRecord
<1>2. last'.outcome = "none"
  BY <1>1 DEF NoRequest, Request
<1>3. Tables'
  BY <1>1, TablesRead DEF IInv
<1>4. \A b \in Backends : conns'[b] = IF conns[b].held THEN [held |-> FALSE, open |-> conns[b].open - 1] ELSE conns[b]
  BY DEF Close, Closed
<1>5. conns' = [b \in Backends |-> conns'[b]]
  BY DEF Close
<1>6. Sessions'
  <2>1. \A b \in Backends : conns[b] \in [held : BOOLEAN, open : Nat] /\ conns[b].open = IF conns[b].held THEN 1 ELSE 0
    BY DEF IInv, Sessions
  <2>2. ASSUME NEW b \in Backends
        PROVE  /\ conns'[b] \in [held : BOOLEAN, open : Nat]
               /\ ~conns'[b].held /\ conns'[b].open = 0
    <3>1. CASE conns[b].held
      <4>1. conns[b].open = 1 /\ conns[b].open - 1 = 0
        BY <2>1, <3>1
      <4>2. conns'[b] = [held |-> FALSE, open |-> conns[b].open - 1]
        BY <1>4, <3>1
      <4> QED BY <4>1, <4>2
    <3>2. CASE ~conns[b].held
      <4>1. conns'[b] = conns[b] /\ conns[b].open = 0
        BY <1>4, <2>1, <3>2
      <4> QED BY <2>1, <3>2, <4>1
    <3> QED BY <3>1, <3>2
  <2> QED BY <1>5, <2>2 DEF Sessions
<1>7. IsSeq(<<>>)
  BY EmptySeq DEF IsSeq
<1>8. Loaded' /\ Offered'
  BY <1>1, <1>7 DEF Loaded, Offered
<1> QED BY <1>1, <1>2, <1>3, <1>6, <1>8, NothingSent DEF IInv

-----------------------------------------------------------------------------
(* The theorems.                                                           *)

LEMMA InitHolds == Init => IInv
<1> SUFFICES ASSUME Init PROVE IInv
  OBVIOUS
<1>1. /\ turn.at = "idle" /\ turn.built = <<>> /\ last.outcome = "none"
      /\ TurnRecord
  BY DEF Init, NoTurn, NoRequest, Request, TurnRecord
<1>2. Tables
  BY <1>1, ToolCallsAssumption DEF Init, Tables, Wires
<1>3. Sessions
  BY <1>1 DEF Init, Sessions
<1>4. IsSeq(<<>>)
  BY EmptySeq DEF IsSeq
<1>5. Loaded /\ Offered
  BY <1>1, <1>4 DEF Loaded, Offered
<1>6. Quiet /\ RoutesToOwner /\ HeadersAsConfigured /\ ArgumentsArrive
  BY <1>1 DEF Quiet, RoutesToOwner, HeadersAsConfigured, ArgumentsArrive
<1> QED BY <1>1, <1>2, <1>3, <1>5, <1>6 DEF IInv

LEMMA TurnKeeps == IInv /\ Turn => IInv'
<1> SUFFICES ASSUME IInv, Turn PROVE IInv'
  OBVIOUS
<1>1. CASE \E raw \in Envelopes \cup {NoEnvelope} :
             \E r \in Routings(raw), s \in {overrides, NoTurn.session} : StartTurn(r, s)
  BY <1>1, StartTurnKeeps
<1>2. CASE \E b \in Backends : LoadBackend(b)
  BY <1>2, LoadBackendKeeps
<1>3. CASE \E outcome \in {"ok", "refused", "unlisted"} : ListTools(outcome)
  BY <1>3, ListToolsKeeps
<1>4. CASE \E call \in Calls : CallTool(call)
  BY <1>4, CallToolKeeps
<1>5. CASE \E failing \in SUBSET Backends : Close(failing)
  BY <1>5, CloseKeeps
<1> QED BY <1>1, <1>2, <1>3, <1>4, <1>5, ReadEndpointBackendsKeeps, ReadMCPAttachmentsKeeps,
           LoadAttachmentsKeeps, EndBuildKeeps, EndListingKeeps, EndTurnKeeps DEF Turn

LEMMA StutterKeeps == IInv /\ UNCHANGED vars => IInv'
<1> SUFFICES ASSUME IInv, UNCHANGED vars PROVE IInv'
  OBVIOUS
<1>1. UNCHANGED <<rows, endpointBackend, turn, conns, last>>
  BY DEF vars
<1>2. Tables'
  BY <1>1, TablesRead DEF IInv, Tables
<1> QED BY <1>1, <1>2, Undisturbed DEF IInv

LEMMA Invariant == Spec => []IInv
<1>1. IInv /\ [Next]_vars => IInv'
  BY OperatorKeeps, TurnKeeps, StutterKeeps DEF Next
<1> QED BY InitHolds, <1>1, PTL DEF Spec

(* Whatever operators edit while a turn reads its tables one query at a    *)
(* time, each endpoint of the agent is offered to the model by the backend *)
(* it was wired to when the turn read the wiring: Build, UpdateBackend,    *)
(* DeleteBackend.                                                          *)
THEOREM OfferedAll == Spec => []EveryEndpointOffered
<1>1. IInv => EveryEndpointOffered
  BY AllOffered DEF IInv
<1> QED BY <1>1, Invariant, PTL

(* A call by an offered name reaches a backend that offers it, under the   *)
(* name that backend knows, unless another name captures it first:         *)
(* Composite.Call.                                                         *)
THEOREM RoutedToOwner == Spec => []RoutesToOwner
<1>1. IInv => RoutesToOwner
  BY DEF IInv
<1> QED BY <1>1, Invariant, PTL

(* Every request a call sends carries the headers its session overrides,   *)
(* and one of the visitor's only where the envelope forwards all and never *)
(* a hop-by-hop one: applyHeaders, RoundTrip.                              *)
THEOREM HeadersLayered == Spec => []HeadersAsConfigured
<1>1. IInv => HeadersAsConfigured
  BY DEF IInv
<1> QED BY <1>1, Invariant, PTL

(* Arguments that the advertised schema accepts make a request, and a      *)
(* method with a body loses none of them: BuildEndpointSchema against      *)
(* buildRequest.                                                           *)
THEOREM ArgumentsReachRequest == Spec => []ArgumentsArrive
<1>1. IInv => ArgumentsArrive
  BY DEF IInv
<1> QED BY <1>1, Invariant, PTL

(* A turn that is over, however it ended, holds no MCP session: ensure,    *)
(* Composite.Close.                                                        *)
THEOREM NoSessionLeft == Spec => []SessionsEnd
<1>1. IInv => SessionsEnd
  BY AllClosed DEF IInv
<1> QED BY <1>1, Invariant, PTL

=============================================================================
