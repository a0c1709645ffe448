------------------------------- MODULE ToolCalls -------------------------------
(* How a turn reaches the tools of its agent.                              *)
(*                                                                         *)
(* Operators keep tool backends (an HTTP service or an MCP server each),   *)
(* wire the endpoints of an agent to backends, attach backends to a        *)
(* version and override request headers for a test session.  A turn        *)
(* reads all of that by separate queries, builds one backend per row,      *)
(* lists their tools for the model, routes each call of the model, sets    *)
(* the headers of the requests, and closes what it opened.                 *)
(*                                                                         *)
(* A backend name or a tool name is the sequence of its parts between      *)
(* double underscores, so name + "__" is a prefix of a tool name exactly   *)
(* when the sequence is a strict prefix.  One agent, one version, one      *)
(* session that no dataset locks, one turn.                                *)
EXTENDS Naturals, SequencesExt, FiniteSetsExt

CONSTANTS
    Backends,       \* ids of tool_backends rows
    Kind,           \* kind chosen when each is created
    Names,          \* names operators type
    Clean,          \* what SanitizeToolName makes of a part of a tool name
    Lower,          \* what strings.ToLower makes of a part of a backend name
    Bundle,         \* [tools: Seq of endpoints, skills: Seq of [name, prompt]]
    ServerTools,    \* tools an MCP server lists
    Calls,          \* calls the model may make: [name, args]
    Visitor,        \* headers of the visitor's request
    HeaderSets,     \* sets of headers an operator types in a form
    Envelopes,      \* routing envelopes a visitor sends; NoEnvelope: none, or malformed
    NoEnvelope,
    Notes,          \* notes of an attachment
    InitialRows, InitialWirings, InitialAttachments, InitialOverrides,
    MaxEdits,       \* operator edits in a behaviour
    MaxCalls,       \* calls of the turn
    None, Gone

Kinds == {"http_endpoint", "mcp_client"}
BackendRow == [name : Names, kind : Kinds, headers : HeaderSets]

(* The methods of a flow map, and those whose request has a body.          *)
Bodied == {"POST", "PUT", "PATCH"}
Methods == Bodied \cup {"GET", "DELETE", "HEAD", "OPTIONS"}

VARIABLES
    rows,           \* tool_backends: id -> row, None before Create, Gone after Delete
    endpointBackend,\* agent_endpoint_backend: endpoint -> backend id or None
    attached,       \* agent_version_mcp_backend: backend id -> note or None
    overrides,      \* chat_sessions.backend_header_overrides: id -> headers
    form,           \* attachments UpdateAllMCPNotes has read, None outside it
    turn,           \* the turn: where it is and what it has read
    conns,          \* MCP sessions of the turn: id -> [held, open]
    last,           \* the turn's latest request to a tool
    edits

tables == <<rows, endpointBackend, attached, overrides>>
vars == <<rows, endpointBackend, attached, overrides, form, turn, conns, last, edits>>

----------------------------------------------------------------------------
(* What a bundle becomes, and the tools it declares.                       *)

SplitBundle(b) ==
    [architecture |-> [tools |-> b.tools, skills_meta |-> [i \in DOMAIN b.skills |-> b.skills[i].name]],
     prompts |-> [n \in {s.name : s \in {x \in ToSet(b.skills) : x.prompt # ""}} |->
                     (CHOOSE s \in ToSet(b.skills) : s.name = n).prompt]]

Architecture == SplitBundle(Bundle).architecture

(* Unmarshalling a blob leaves a field it lacks empty.                     *)
Field(blob, f) == IF f \in DOMAIN blob THEN blob[f] ELSE <<>>

Endpoints == {Architecture.tools[i].id : i \in DOMAIN Architecture.tools}

(* A name has parts, one at least for what a server calls a tool; a row    *)
(* keeps the kind it was created with; an endpoint has one of the methods  *)
(* the compiler of flow maps is told to write.                             *)
ASSUME ToolCallsAssumption ==
    /\ None \notin Backends
    /\ Kind \in [Backends -> Kinds]
    /\ Names \subseteq Seq(DOMAIN Lower)
    /\ ServerTools \subseteq Seq(DOMAIN Clean) \ {<<>>}
    /\ Architecture.tools \in Seq(Range(Architecture.tools))
    /\ \A i \in DOMAIN Architecture.tools : Architecture.tools[i].method \in Methods
    /\ InitialRows \subseteq [Backends -> BackendRow \cup {None, Gone}]
    /\ \A r \in InitialRows, b \in Backends : r[b] \in {None, Gone} \/ r[b].kind = Kind[b]
    /\ InitialWirings \subseteq [Endpoints -> Backends \cup {None}]

SanitizeToolName(name) == IF name = <<>> THEN <<"tool">> ELSE [i \in DOMAIN name |-> Clean[name[i]]]

SkillToolName == <<"Skill">>
UnmappedName == <<"_unmapped">>

(* The endpoints of a backend, by their places in the bundle's list.       *)
EndpointNames(eps) == {SanitizeToolName(Architecture.tools[i].name) : i \in eps}

ParamNames(params) == {p.name : p \in params}

(* Mutant: a path parameter is never required.                             *)
LaxSchema(ep) ==
    LET params == ep.path \cup ep.query
    IN  [props |-> ParamNames(params) \cup ep.fields.properties,
         required |-> ParamNames({p \in ep.query : p.required}) \cup ep.fields.required,
         open |-> (params = {} /\ ep.body = "none") \/ ep.body = "text"]

(* The JSON schema of an endpoint: its body is "none", "text" (a shape     *)
(* that is no schema, with nothing in fields) or "schema".                 *)
BuildEndpointSchema(ep) ==
    LET params == ep.path \cup ep.query
    IN  [props |-> ParamNames(params) \cup ep.fields.properties,
         required |-> ParamNames({p \in params : p.required}) \cup ep.fields.required,
         open |-> (params = {} /\ ep.body = "none") \/ ep.body = "text"]

Accepts(schema, args) == schema.required \subseteq args /\ (schema.open \/ args \subseteq schema.props)

(* The request of an HTTP call: where each argument goes.                  *)
BuildRequest(ep, args) ==
    LET inPath == ParamNames(ep.path) \cap args
        inQuery == ParamNames(ep.query) \cap args
        rest == args \ (ParamNames(ep.path) \cup inQuery)
    IN  [ok |-> ParamNames({p \in ep.path : p.required}) \subseteq args,
         placed |-> inPath \cup inQuery \cup (IF ep.method \in Bodied THEN rest ELSE {})]

----------------------------------------------------------------------------
(* Headers of a request to a backend, by the layer each comes from.        *)

HopByHop == {"connection", "keep-alive", "proxy-authenticate", "proxy-authorization", "te", "trailer",
             "transfer-encoding", "upgrade", "host", "content-length"}
RoutingEnvelopeHeader == "x-openbbcd-mcp-headers"

ToLower(name) == [i \in DOMAIN name |-> Lower[name[i]]]

(* An envelope names backends; spellings that differ in case collapse, and *)
(* the map's order decides which one stays.                                *)
ParseBackendHeaderRouting(raw) ==
    LET keys == {ToLower(n) : n \in DOMAIN raw}
    IN  {r \in [keys -> Range(raw)] : \A k \in keys : \E n \in DOMAIN raw : ToLower(n) = k /\ r[k] = raw[n]}

NoRouting == [n \in {} |-> None]
Routings(raw) == IF raw = NoEnvelope THEN {NoRouting} ELSE ParseBackendHeaderRouting(raw)

Set(headers, names, layer) == [x \in DOMAIN headers \cup names |-> IF x \in names THEN layer ELSE headers[x]]

(* Mutant: the session's headers are set before the envelope's.            *)
SessionFirst(be, routing, session) ==
    LET block == IF ToLower(be.name) \in DOMAIN routing THEN routing[ToLower(be.name)] ELSE [all |-> FALSE, headers |-> {}]
        live == IF block.all THEN Visitor \ (HopByHop \cup {RoutingEnvelopeHeader}) ELSE {}
        default == Set([x \in {} |-> None], be.headers, "default")
    IN  Set(Set(Set(default, session, "session"), live, "visitor"), block.headers, "explicit")

ApplyHeaders(be, routing, session) ==
    LET block == IF ToLower(be.name) \in DOMAIN routing THEN routing[ToLower(be.name)] ELSE [all |-> FALSE, headers |-> {}]
        live == IF block.all THEN Visitor \ (HopByHop \cup {RoutingEnvelopeHeader}) ELSE {}
        default == Set([x \in {} |-> None], be.headers, "default")
    IN  Set(Set(Set(default, live, "visitor"), block.headers, "explicit"), session, "session")

(* The transport of an MCP backend sets them the same way on each of its   *)
(* requests.                                                               *)
RoundTrip(be, routing, session) == ApplyHeaders(be, routing, session)

----------------------------------------------------------------------------
(* Operators.                                                              *)

Exists(b) == rows[b] \notin {None, Gone}
NameFree(n, b) == \A c \in Backends \ {b} : Exists(c) => rows[c].name # n
Referenced(b) == b \in Range(endpointBackend) \/ attached[b] # None

Edit == edits < MaxEdits /\ edits' = edits + 1 /\ UNCHANGED <<turn, conns, last>>

CreateBackend(b, n, headers) ==
    /\ Edit
    /\ rows[b] = None /\ NameFree(n, b)
    /\ rows' = [rows EXCEPT ![b] = [name |-> n, kind |-> Kind[b], headers |-> headers]]
    /\ UNCHANGED <<endpointBackend, attached, overrides, form>>

(* Mutant: the form's kind is saved too.                                   *)
UpdatedWithKind(row, n, headers) == [name |-> n, headers |-> headers, kind |-> "mcp_client"]

(* The form carries a name and a configuration; the kind stays.            *)
Updated(row, n, headers) == [row EXCEPT !.name = n, !.headers = headers]

UpdateBackend(b, n, headers) ==
    /\ Edit
    /\ Exists(b) /\ NameFree(n, b)
    /\ rows' = [rows EXCEPT ![b] = Updated(rows[b], n, headers)]
    /\ UNCHANGED <<endpointBackend, attached, overrides, form>>

DeleteBackend(b) ==
    /\ Edit
    /\ Exists(b) /\ ~Referenced(b)
    /\ rows' = [rows EXCEPT ![b] = Gone]
    /\ UNCHANGED <<endpointBackend, attached, overrides, form>>

(* Upserts in one transaction, or deletes.                                 *)
WireEndpoints(es, b) == endpointBackend' = [e \in Endpoints |-> IF e \in es THEN b ELSE endpointBackend[e]]

(* The drop-down of the page offers HTTP backends; the handlers and the    *)
(* table take any backend whose row exists.                                *)
SetEndpointBackend(e, b) ==
    /\ Edit
    /\ Exists(b)
    /\ WireEndpoints({e}, b)
    /\ UNCHANGED <<rows, attached, overrides, form>>

UnsetEndpointBackend(e) ==
    /\ Edit
    /\ WireEndpoints({e}, None)
    /\ UNCHANGED <<rows, attached, overrides, form>>

SetEndpointBackendBulk(b) ==
    /\ Edit
    /\ Exists(b)
    /\ WireEndpoints(Endpoints, b)
    /\ UNCHANGED <<rows, attached, overrides, form>>

(* One upsert serves the toggle and the notes form.                        *)
AttachMCP(b, note) == attached' = [attached EXCEPT ![b] = note]

ToggleMCPBackend(b) ==
    /\ Edit
    /\ \/ Exists(b) /\ AttachMCP(b, "")
       \/ attached' = [attached EXCEPT ![b] = None]
    /\ UNCHANGED <<rows, endpointBackend, overrides, form>>

MCPAttachments == {b \in Backends : attached[b] # None}

(* UpdateAllMCPNotes reads the attachments and then writes a note for each *)
(* backend it read, one statement each.                                    *)
ReadNotes ==
    /\ Edit
    /\ form = None
    /\ form' = MCPAttachments
    /\ UNCHANGED tables

WriteNote(b, note) ==
    /\ form # None /\ b \in form
    /\ IF Exists(b)
         THEN AttachMCP(b, note) /\ form' = form \ {b}
         ELSE form' = {} /\ UNCHANGED attached      \* the foreign key refuses it
    /\ UNCHANGED <<rows, endpointBackend, overrides, turn, conns, last, edits>>

EndNotes ==
    /\ form = {}
    /\ form' = None
    /\ UNCHANGED <<rows, endpointBackend, attached, overrides, turn, conns, last, edits>>

(* The headers modal lists the backends the version reaches and saves the  *)
(* whole map.                                                              *)
ListBackendsForVersion == {b \in Backends : Exists(b) /\ Referenced(b)}

HeadersModal == [b \in ListBackendsForVersion |-> overrides[b]]

UpdateHeaderOverrides(b, headers) ==
    /\ Edit
    /\ b \in DOMAIN HeadersModal
    /\ overrides' = [c \in Backends |->
                        IF c = b THEN headers ELSE IF c \in DOMAIN HeadersModal THEN HeadersModal[c] ELSE {}]
    /\ UNCHANGED <<rows, endpointBackend, attached, form>>

----------------------------------------------------------------------------
(* The turn builds its backends.                                           *)

NoTurn == [at |-> "idle", routing |-> NoRouting, session |-> [b \in Backends |-> {}],
           mapping |-> [e \in Endpoints |-> None], mcp |-> {}, left |-> {}, built |-> <<>>, listed |-> 0, calls |-> 0]

TurnStep == UNCHANGED <<rows, endpointBackend, attached, overrides, form, edits>>

(* The chat handler takes the headers of the request and the session's     *)
(* overrides into the turn's context; a deployed turn has no overrides.    *)
StartTurn(routing, session) ==
    /\ turn.at = "idle"
    /\ turn' = [turn EXCEPT !.at = "wiring", !.routing = routing, !.session = session]
    /\ TurnStep /\ UNCHANGED <<conns, last>>

ReadEndpointBackends ==
    /\ turn.at = "wiring"
    /\ turn' = [turn EXCEPT !.at = "attachments", !.mapping = endpointBackend,
                            !.left = Range(endpointBackend) \ {None}]
    /\ TurnStep /\ UNCHANGED <<conns, last>>

ReadMCPAttachments ==
    /\ turn.at = "attachments"
    /\ turn' = [turn EXCEPT !.at = "http", !.mcp = MCPAttachments]
    /\ TurnStep /\ UNCHANGED <<conns, last>>

EndpointsOf(b) == {i \in DOMAIN Architecture.tools : turn.mapping[Architecture.tools[i].id] = b}

BackendOf(b) ==
    [id |-> b, name |-> rows[b].name, kind |-> rows[b].kind, headers |-> rows[b].headers,
     eps |-> IF rows[b].kind = "http_endpoint" THEN EndpointsOf(b) ELSE {}]

(* GetBackend, one row at a time in the order of a map: first the rows of  *)
(* the endpoints, then those of the attachments.  A row that is gone ends  *)
(* the turn, a row of the wrong kind is passed over.                       *)
LoadBackend(b) ==
    /\ turn.at \in {"http", "mcp"} /\ b \in turn.left
    /\ turn' = IF ~Exists(b) THEN [turn EXCEPT !.at = "done"]
               ELSE [turn EXCEPT !.left = @ \ {b},
                       !.built = IF rows[b].kind = (IF turn.at = "http" THEN "http_endpoint" ELSE "mcp_client")
                                 THEN Append(@, BackendOf(b)) ELSE @]
    /\ TurnStep /\ UNCHANGED <<conns, last>>

LoadAttachments ==
    /\ turn.at = "http" /\ turn.left = {}
    /\ turn' = [turn EXCEPT !.at = "mcp", !.left = turn.mcp]
    /\ TurnStep /\ UNCHANGED <<conns, last>>

Unmapped == [id |-> None, name |-> UnmappedName, kind |-> "unmapped", headers |-> {}, eps |-> EndpointsOf(None)]

EndBuild ==
    /\ turn.at = "mcp" /\ turn.left = {}
    /\ turn' = [turn EXCEPT !.at = "listing", !.built = IF Unmapped.eps = {} THEN @ ELSE Append(@, Unmapped)]
    /\ TurnStep /\ UNCHANGED <<conns, last>>

----------------------------------------------------------------------------
(* Listing tools connects MCP backends; calls are routed by name.          *)

ToolsOf(be) == IF be.kind = "mcp_client" THEN {be.name \o t : t \in ServerTools} ELSE EndpointNames(be.eps)

Request(name, args, by, tool, outcome, headers, placed) ==
    [name |-> name, args |-> args, by |-> by, tool |-> tool, outcome |-> outcome, headers |-> headers, placed |-> placed]

NoHeaders == [x \in {} |-> None]
NoRequest == Request(<<>>, {}, None, <<>>, "none", NoHeaders, {})

(* ensure: a backend that holds a session keeps it; a new session whose    *)
(* tools cannot be listed is closed again.                                 *)
Ensure(c, outcome) == IF ~c.held /\ outcome = "ok" THEN [held |-> TRUE, open |-> c.open + 1] ELSE c

(* Composite.Tools calls each backend with a background context, so its    *)
(* requests carry neither the visitor's headers nor the session's.         *)
ListTools(outcome) ==
    /\ turn.at = "listing" /\ turn.listed < Len(turn.built)
    /\ LET be == turn.built[turn.listed + 1]
           mcp == be.kind = "mcp_client"
       IN  /\ mcp \/ outcome = "ok"
           /\ conns' = IF mcp THEN [conns EXCEPT ![be.id] = Ensure(@, outcome)] ELSE conns
           /\ last' = IF mcp THEN Request(<<>>, {}, be.id, <<>>, "connect",
                                          RoundTrip(be, NoRouting, {}), {}) ELSE last
           /\ turn' = IF outcome = "ok" THEN [turn EXCEPT !.listed = @ + 1] ELSE [turn EXCEPT !.at = "closing"]
    /\ TurnStep

EndListing ==
    /\ turn.at = "listing" /\ turn.listed = Len(turn.built)
    /\ turn' = [turn EXCEPT !.at = "calling"]
    /\ TurnStep /\ UNCHANGED <<conns, last>>

Capturing(name) == {i \in DOMAIN turn.built : IsStrictPrefix(turn.built[i].name, name)}
Owning(name) == {i \in DOMAIN turn.built : name \in ToolsOf(turn.built[i])}

(* Mutant: the prefix stays on the name the backend is given.              *)
RouteUntrimmed(name) ==
    IF Capturing(name) # {} THEN [to |-> Min(Capturing(name)), tool |-> name]
    ELSE [to |-> IF Owning(name) = {} THEN 0 ELSE Min(Owning(name)), tool |-> name]

(* The first backend whose name prefixes the tool's, with the rest of the  *)
(* name; else the first that lists it; else none.                          *)
Route(name) ==
    IF Capturing(name) # {}
      THEN LET i == Min(Capturing(name))
           IN  [to |-> i, tool |-> SubSeq(name, Len(turn.built[i].name) + 1, Len(name))]
      ELSE [to |-> IF Owning(name) = {} THEN 0 ELSE Min(Owning(name)), tool |-> name]

SkillsOf(blob) == ToSet(Field(blob, "skills"))

CallSkillMetaTool(args) ==
    Request(SkillToolName, args, None, SkillToolName,
            IF \E s \in SkillsOf(Architecture) : args = {s.name} THEN "prompt" ELSE "unknown_skill", NoHeaders, {})

(* The first of a backend's endpoints with the name.                       *)
FindByName(eps, tool) == Architecture.tools[Min({i \in eps : SanitizeToolName(Architecture.tools[i].name) = tool})]

CallHTTP(be, tool, call) ==
    IF tool \notin EndpointNames(be.eps)
      THEN Request(call.name, call.args, be.id, tool, "unknown_tool", NoHeaders, {})
      ELSE LET req == BuildRequest(FindByName(be.eps, tool), call.args)
           IN  IF req.ok THEN Request(call.name, call.args, be.id, tool, "sent",
                                      ApplyHeaders(be, turn.routing, turn.session[be.id]), req.placed)
               ELSE Request(call.name, call.args, be.id, tool, "missing_param", NoHeaders, {})

CallMCP(be, tool, call) ==
    Request(call.name, call.args, be.id, tool, IF tool \in ServerTools THEN "sent" ELSE "unknown_tool",
            RoundTrip(be, turn.routing, turn.session[be.id]), call.args)

CallUnmapped(be, tool, call) ==
    Request(call.name, call.args, None, tool, "endpoint_not_connected", NoHeaders, {})

Answer(call) ==
    IF call.name = SkillToolName THEN CallSkillMetaTool(call.args)
    ELSE LET r == Route(call.name) IN
         IF r.to = 0 THEN Request(call.name, call.args, None, <<>>, "no_owner", NoHeaders, {})
         ELSE LET be == turn.built[r.to]
              IN  CASE be.kind = "http_endpoint" -> CallHTTP(be, r.tool, call)
                    [] be.kind = "mcp_client" -> CallMCP(be, r.tool, call)
                    [] OTHER -> CallUnmapped(be, r.tool, call)

CallTool(call) ==
    /\ turn.at = "calling" /\ turn.calls < MaxCalls
    /\ last' = Answer(call)
    /\ turn' = [turn EXCEPT !.calls = @ + 1]
    /\ conns' = [b \in Backends |->
                    IF \E be \in ToSet(turn.built) : be.kind = "mcp_client" /\ be.id = b /\ last'.by = b
                    THEN Ensure(conns[b], "ok") ELSE conns[b]]
    /\ TurnStep

(* The model's last round, an error or the caller's cancellation.          *)
EndTurn ==
    /\ turn.at = "calling"
    /\ turn' = [turn EXCEPT !.at = "closing"]
    /\ TurnStep /\ UNCHANGED <<conns, last>>

(* Mutant: Close stops at the first backend that fails.                    *)
ClosedUpTo(failing) ==
    {b \in Backends : \E i \in DOMAIN turn.built : /\ turn.built[i].id = b
                                                  /\ \A j \in 1..(i - 1) : turn.built[j].id \notin failing}

(* Close goes through every backend, whatever closing an earlier one says. *)
Closed(failing) == {b \in Backends : conns[b].held}

Close(failing) ==
    /\ turn.at = "closing"
    /\ conns' = [b \in Backends |-> IF conns[b].held /\ b \in Closed(failing)
                                    THEN [held |-> FALSE, open |-> conns[b].open - 1] ELSE conns[b]]
    /\ turn' = [NoTurn EXCEPT !.at = "done"]
    /\ last' = NoRequest
    /\ TurnStep

----------------------------------------------------------------------------
Init ==
    /\ rows \in InitialRows
    /\ endpointBackend \in InitialWirings
    /\ attached \in InitialAttachments
    /\ overrides \in InitialOverrides
    /\ form = None
    /\ turn = NoTurn
    /\ conns = [b \in Backends |-> [held |-> FALSE, open |-> 0]]
    /\ last = NoRequest
    /\ edits = 0

Operator ==
    \/ \E b \in Backends, n \in Names, headers \in HeaderSets : CreateBackend(b, n, headers) \/ UpdateBackend(b, n, headers)
    \/ \E b \in Backends : DeleteBackend(b) \/ SetEndpointBackendBulk(b) \/ ToggleMCPBackend(b)
    \/ \E e \in Endpoints : UnsetEndpointBackend(e) \/ \E b \in Backends : SetEndpointBackend(e, b)
    \/ ReadNotes \/ EndNotes
    \/ \E b \in Backends, note \in Notes : WriteNote(b, note)
    \/ \E b \in Backends, headers \in HeaderSets : UpdateHeaderOverrides(b, headers)

Turn ==
    \/ \E raw \in Envelopes \cup {NoEnvelope} : \E r \in Routings(raw), s \in {overrides, NoTurn.session} : StartTurn(r, s)
    \/ ReadEndpointBackends \/ ReadMCPAttachments
    \/ \E b \in Backends : LoadBackend(b)
    \/ LoadAttachments \/ EndBuild
    \/ \E outcome \in {"ok", "refused", "unlisted"} : ListTools(outcome)
    \/ EndListing
    \/ \E call \in Calls : CallTool(call)
    \/ EndTurn
    \/ \E failing \in SUBSET Backends : Close(failing)

Next == Operator \/ Turn

Spec == Init /\ [][Next]_vars

----------------------------------------------------------------------------
(* Properties.                                                             *)

(* Every endpoint of the agent is offered to the model: one that was wired *)
(* to no backend when the turn read the wiring, as not connected; one that *)
(* was wired to an HTTP backend, by that backend, whatever edits race with *)
(* the turn.  An endpoint wired to an MCP backend may be missing: Build,   *)
(* UpdateBackend, DeleteBackend.                                           *)
OfferedBy(e, b) == \E be \in ToSet(turn.built) : be.id = b /\ \E i \in be.eps : Architecture.tools[i].id = e
EveryEndpointOffered ==
    turn.at \in {"listing", "calling"} =>
        \A e \in Endpoints : LET b == turn.mapping[e]
                             IN  b = None \/ Kind[b] = "http_endpoint" => OfferedBy(e, b)

(* Whatever it is wired to, an endpoint is offered or shown as not         *)
(* connected ("surfaces the misconfiguration in the chat as a real         *)
(* tool_result block instead of silent LLM hallucination"): Build.  An MCP *)
(* backend in the wiring breaks it.                                        *)
NoEndpointHidden ==
    turn.at \in {"listing", "calling"} =>
        \A e \in Endpoints : OfferedBy(e, turn.mapping[e]) \/ OfferedBy(e, None)

(* A call by an offered name is answered by a backend that offers it,      *)
(* under the name that backend knows, unless the name of an HTTP backend,  *)
(* or of an MCP backend that does not offer it, is a prefix of the tool's: *)
(* Composite.Call.                                                         *)
RoutesToOwner ==
    (/\ turn.at = "calling" /\ last.outcome \notin {"none", "connect"}
     /\ last.name # SkillToolName /\ Owning(last.name) # {}
     /\ \A i \in Capturing(last.name) : i \in Owning(last.name) /\ turn.built[i].kind = "mcp_client")
    => /\ last.outcome \notin {"no_owner", "unknown_tool"}
       /\ \E i \in Owning(last.name) : turn.built[i].id = last.by

(* A request of a call carries each header the session overrides, as the   *)
(* session set it, and a header of the visitor only if the envelope names  *)
(* the backend and forwards all, and never one that is bound to the        *)
(* visitor's own connection: applyHeaders, RoundTrip.                      *)
HeadersAsConfigured ==
    last.outcome = "sent" =>
        /\ \A x \in turn.session[last.by] : x \in DOMAIN last.headers /\ last.headers[x] = "session"
        /\ \A x \in DOMAIN last.headers : last.headers[x] = "visitor" =>
              /\ x \notin HopByHop \cup {RoutingEnvelopeHeader}
              /\ \E be \in ToSet(turn.built), n \in DOMAIN turn.routing :
                    be.id = last.by /\ ToLower(be.name) = n /\ turn.routing[n].all

(* Arguments that the schema of an endpoint accepts make a request, and    *)
(* each of them arrives in its path, its query or its body, unless the     *)
(* method sends no body: BuildEndpointSchema against buildRequest.         *)
ArgumentsArrive ==
    last.outcome \in {"sent", "missing_param"} =>
        \A be \in ToSet(turn.built) :
            be.id = last.by /\ be.kind = "http_endpoint" =>
                LET ep == FindByName(be.eps, last.tool)
                IN  Accepts(BuildEndpointSchema(ep), last.args) =>
                        /\ last.outcome = "sent"
                        /\ last.args \subseteq last.placed \/ ep.method \in Methods \ Bodied

(* A turn that is over holds no MCP session, however it ended and whatever *)
(* closing the others said: ensure, Composite.Close.                       *)
SessionsEnd == turn.at = "done" => \A b \in Backends : conns[b].open = 0

(* Saving notes never attaches a backend ("so a stale form can't           *)
(* accidentally re-attach a detached backend"): UpdateAllMCPNotes.         *)
NotesNeverAttach == [][\A b \in Backends : attached[b] = None /\ attached'[b] # None => form' = form]_vars

(* Calling Skill with the name of a skill of the bundle loads its prompt   *)
(* ("Load the prompt for a named skill into your working context").        *)
SkillsLoad ==
    last.name = SkillToolName /\ (\E i \in DOMAIN Bundle.skills : last.args = {Bundle.skills[i].name})
    => last.outcome = "prompt"

(* Every request to an MCP server carries the session's headers for it     *)
(* ("Headers are evaluated per-request inside the RoundTripper from        *)
(* req.Context()"), the ones that connect included.                        *)
ConnectsAsUser ==
    last.outcome = "connect" => \A x \in turn.session[last.by] : x \in DOMAIN last.headers /\ last.headers[x] = "session"
=============================================================================
