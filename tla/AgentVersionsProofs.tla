-------------------------- MODULE AgentVersionsProofs --------------------------
(***************************************************************************)
(* Theorems about AgentVersions, for any sets of agents, versions, runs    *)
(* and requests.                                                           *)
(***************************************************************************)
EXTENDS AgentVersions, TLAPS

-----------------------------------------------------------------------------
(* The inductive invariant: what holds of the tables, what an open request *)
(* knows of them, and what two open requests cannot both have.             *)

Tables ==
    /\ status \in [Versions -> Statuses \cup {"new", "gone"}]
    /\ agent \in [Versions -> Agents \cup {None}]
    /\ parent \in [Versions -> Versions \cup {None}]
    /\ config \in [Versions -> Config]
    /\ runs \in [Runs -> Versions \cup {None}]

Request == [pc : {"idle", "scan", "demote", "promote", "insert", "copy", "delete", "drop", "config", "run"},
            op : Edits \cup {"DRAFT", "READY", "none"},
            v : Versions \cup {None}, w : Versions \cup {None}, flag : BOOLEAN]

(* What a version was forked from is there and of the same agent.          *)
Lineage ==
    \A v \in Versions :
        /\ ~Present(v) => parent[v] = None
        /\ Present(v) /\ parent[v] # None => Present(parent[v]) /\ agent[parent[v]] = agent[v]
        /\ \A t, u \in Forks(v) : t = u

RunsThere == \A x \in Runs : runs[x] # None => Present(runs[x])

Sound == Tables /\ Lineage /\ OneDeployed /\ TargetsRunnable /\ RunsThere /\ RunsAreSingleAgent

(* The rows a request has locked are still as it read them.                *)
Held(r) ==
    /\ req[r].pc = "idle" => req[r] = IdleRequest
    /\ req[r].pc # "idle" => req[r].v \in Versions /\ status[req[r].v] # "new"
    /\ req[r].pc = "scan" => req[r].w = None
    /\ req[r].pc = "demote" =>
        /\ req[r].w \in Versions \ {req[r].v}
        /\ status[req[r].w] # "new" /\ agent[req[r].w] = agent[req[r].v]
    /\ req[r].pc = "promote" /\ req[r].w # None =>
        req[r].w # req[r].v /\ agent[req[r].w] = agent[req[r].v] /\ status[req[r].w] = "DEPLOYED"
    /\ req[r].pc \in {"insert", "copy"} =>
        /\ Present(req[r].v)
        /\ req[r].w \in Versions /\ status[req[r].w] = "new"
        /\ req[r].op \in {"DRAFT", "READY"}
    /\ req[r].pc = "copy" => Forks(req[r].v) = {} /\ req[r].flag = config[req[r].v].enabled
    /\ req[r].pc = "config" =>
        /\ Writable(req[r].v) /\ req[r].op \in Edits
        /\ req[r].op \in {"bind", "unbind"} => req[r].w \in Versions
    /\ req[r].op = "bind" => req[r].pc = "config"
    /\ req[r].pc = "run" => Present(req[r].v) /\ ~config[req[r].v].enabled

(* No row is locked against the lock of another; no two forks have the     *)
(* same parent once inserted, nor ever the same id.                        *)
Apart(r, q) ==
    /\ \A v \in Versions : v \in Writes(r) => v \notin Writes(q) \cup Shares(q)
    /\ req[r].pc = "copy" /\ req[q].pc = "copy" => req[r].v # req[q].v
    /\ req[r].pc \in {"insert", "copy"} /\ req[q].pc \in {"insert", "copy"} => req[r].w # req[q].w

Open ==
    /\ req \in [Requests -> Request]
    /\ \A r \in Requests : Held(r)
    /\ \A r, q \in Requests : r # q => Apart(r, q)

IInv == Sound /\ Open

-----------------------------------------------------------------------------
(* A step that writes no table: what is left to show is about its request. *)
RequestOnly(r) ==
    /\ UNCHANGED <<status, agent, parent, config, runs>>
    /\ req' = [req EXCEPT ![r] = req'[r]]

LEMMA RequestStep ==
  ASSUME IInv, NEW r \in Requests, RequestOnly(r), req'[r] \in Request, Held(r)',
         \A q \in Requests \ {r} : Apart(r, q)' /\ Apart(q, r)'
  PROVE  IInv'
<1>1. Sound'
  BY DEF IInv, Sound, RequestOnly, Tables, Lineage, OneDeployed, TargetsRunnable, RunsThere,
         RunsAreSingleAgent, Present, Forks, Runnable, Active
<1>2. req' \in [Requests -> Request]
  BY DEF IInv, Open, RequestOnly
<1>3. \A q \in Requests \ {r} : req'[q] = req[q]
  BY DEF IInv, Open, RequestOnly
<1>4. ASSUME NEW q \in Requests PROVE Held(q)'
  <2>1. CASE q = r
    BY <2>1
  <2>2. CASE q # r
    BY <2>2, <1>3 DEF IInv, Open, RequestOnly, Held, Present, Forks, Writable
  <2> QED BY <2>1, <2>2
<1>5. ASSUME NEW p \in Requests, NEW q \in Requests, p # q PROVE Apart(p, q)'
  <2>1. CASE p = r \/ q = r
    BY <2>1, <1>5
  <2>2. CASE p # r /\ q # r
    <3>1. req'[p] = req[p] /\ req'[q] = req[q]
      BY <2>2, <1>3
    <3> QED BY <3>1, <1>5 DEF IInv, Open, Apart, Writes, Shares
  <2> QED BY <2>1, <2>2
<1> QED BY <1>1, <1>2, <1>4, <1>5 DEF IInv, Open

(* A step that writes tables and ends its request, or belongs to none.     *)
LEMMA TableStep ==
  ASSUME IInv, Sound',
         req' = req \/ (\E r \in Requests : End(r)),
         \A q \in Requests : req'[q] # IdleRequest => Held(q)'
  PROVE  IInv'
<1>1. req' \in [Requests -> Request]
  <2>1. IdleRequest \in Request
    BY DEF IdleRequest, Request
  <2> QED BY <2>1 DEF IInv, Open, End
<1>2. \A q \in Requests : req'[q] = req[q] \/ req'[q] = IdleRequest
  BY DEF IInv, Open, End
<1>3. ASSUME NEW q \in Requests PROVE Held(q)'
  <2>1. CASE req'[q] = IdleRequest
    BY <2>1 DEF Held, IdleRequest
  <2> QED BY <2>1
<1>4. ASSUME NEW p \in Requests, NEW q \in Requests, p # q PROVE Apart(p, q)'
  <2>1. CASE req'[p] = req[p] /\ req'[q] = req[q]
    BY <2>1, <1>4 DEF IInv, Open, Apart, Writes, Shares
  <2>2. CASE req'[p] = IdleRequest \/ req'[q] = IdleRequest
    BY <2>2 DEF Apart, Writes, Shares, IdleRequest
  <2> QED BY <2>1, <2>2, <1>2
<1> QED BY <1>1, <1>3, <1>4 DEF IInv, Open

LEMMA InitInv == ASSUME Init PROVE IInv
<1>1. IdleRequest \in Request /\ Plain \in Config
  BY DEF IdleRequest, Request, Plain, Config
<1>2. Tables /\ req \in [Requests -> Request]
  BY <1>1 DEF Init, Tables
<1>3. Lineage /\ OneDeployed /\ TargetsRunnable /\ RunsThere /\ RunsAreSingleAgent
  BY DEF Init, Lineage, OneDeployed, TargetsRunnable, RunsThere, RunsAreSingleAgent,
         Present, Forks, Active, Plain
<1>4. \A r \in Requests : Held(r)
  BY DEF Init, Held, IdleRequest
<1>5. \A r, q \in Requests : Apart(r, q)
  BY DEF Init, Apart, Writes, Shares, IdleRequest
<1> QED BY <1>2, <1>3, <1>4, <1>5 DEF IInv, Sound, Open
-----------------------------------------------------------------------------
(* The steps of a request that write no table.                             *)

LEMMA MoveOn ==
  ASSUME IInv, NEW r \in Requests, RequestOnly(r), req'[r] \in Request, Held(r)',
         \A q \in Requests \ {r} : \A u \in Versions :
             /\ u \in Writes(r)' => u \notin Writes(q) \cup Shares(q)
             /\ u \in Shares(r)' => u \notin Writes(q),
         \A q \in Requests \ {r} :
             req'[r].pc = "copy" /\ req[q].pc = "copy" => req'[r].v # req[q].v,
         \A q \in Requests \ {r} :
             req'[r].pc \in {"insert", "copy"} /\ req[q].pc \in {"insert", "copy"} => req'[r].w # req[q].w
  PROVE  IInv'
<1>1. ASSUME NEW q \in Requests \ {r} PROVE Apart(r, q)' /\ Apart(q, r)'
  <2>1. req'[q] = req[q]
    BY <1>1 DEF IInv, Open, RequestOnly
  <2>2. Writes(q)' = Writes(q) /\ Shares(q)' = Shares(q)
    BY <2>1 DEF Writes, Shares
  <2> QED BY <2>1, <2>2, <1>1 DEF Apart
<1> QED BY <1>1, RequestStep

LEMMA StartDeployStep ==
  ASSUME IInv, NEW r \in Requests, NEW v \in Versions, StartDeploy(r, v) PROVE IInv'
<1>1. /\ req'[r] = [pc |-> "scan", op |-> "none", v |-> v, w |-> None, flag |-> FALSE]
      /\ RequestOnly(r)
  BY DEF IInv, Open, StartDeploy, RequestOnly, IdleRequest
<1>2. req'[r] \in Request
  BY <1>1 DEF Request
<1>3. Held(r)'
  <2>1. status[v] = "READY"
    BY DEF StartDeploy
  <2> QED BY <1>1, <2>1 DEF Held, RequestOnly, Present
<1>4. Writes(r)' = {} /\ Shares(r)' = {}
  BY <1>1 DEF Writes, Shares
<1> QED BY <1>1, <1>2, <1>3, <1>4, MoveOn

LEMMA StartDeleteStep ==
  ASSUME IInv, NEW r \in Requests, NEW v \in Versions, StartDelete(r, v) PROVE IInv'
<1>1. /\ req'[r] = [pc |-> "delete", op |-> "none", v |-> v, w |-> None, flag |-> FALSE]
      /\ RequestOnly(r)
  BY DEF IInv, Open, StartDelete, RequestOnly, IdleRequest
<1>2. req'[r] \in Request
  BY <1>1 DEF Request
<1>3. Held(r)'
  <2>1. status[v] # "new"
    BY DEF StartDelete, Present
  <2> QED BY <1>1, <2>1 DEF Held, RequestOnly, Present
<1>4. Writes(r)' = {} /\ Shares(r)' = {}
  BY <1>1 DEF Writes, Shares
<1> QED BY <1>1, <1>2, <1>3, <1>4, MoveOn

LEMMA StartDeleteAgentStep ==
  ASSUME IInv, NEW r \in Requests, NEW v \in Versions, StartDeleteAgent(r, v) PROVE IInv'
<1>1. /\ req'[r] = [pc |-> "drop", op |-> "none", v |-> v, w |-> None, flag |-> FALSE]
      /\ RequestOnly(r)
  BY DEF IInv, Open, StartDeleteAgent, RequestOnly, IdleRequest
<1>2. req'[r] \in Request
  BY <1>1 DEF Request
<1>3. Held(r)'
  <2>1. status[v] # "new"
    BY DEF StartDeleteAgent, Present
  <2> QED BY <1>1, <2>1 DEF Held, RequestOnly, Present
<1>4. Writes(r)' = {} /\ Shares(r)' = {}
  BY <1>1 DEF Writes, Shares
<1> QED BY <1>1, <1>2, <1>3, <1>4, MoveOn

LEMMA StartRunStep ==
  ASSUME IInv, NEW r \in Requests, NEW v \in Versions, StartRun(r, v) PROVE IInv'
<1>1. /\ req'[r] = [pc |-> "run", op |-> "none", v |-> v, w |-> None, flag |-> FALSE]
      /\ RequestOnly(r)
  BY DEF IInv, Open, StartRun, RequestOnly, IdleRequest
<1>2. req'[r] \in Request
  BY <1>1 DEF Request
<1>3. Held(r)'
  <2>1. Present(v) /\ ~config[v].enabled
    BY DEF StartRun, Present
  <2> QED BY <1>1, <2>1 DEF Held, RequestOnly, Present
<1>4. Writes(r)' = {} /\ Shares(r)' = {v}
  BY <1>1 DEF Writes, Shares
<1>5. \A q \in Requests \ {r} : v \notin Writes(q)
  BY DEF StartRun, FreeToShare
<1> QED BY <1>1, <1>2, <1>3, <1>4, <1>5, MoveOn

LEMMA StartForkStep ==
  ASSUME IInv, NEW r \in Requests, NEW v \in Versions, NEW w \in Versions,
         NEW kind, kind = "DRAFT" \/ kind = "READY", StartFork(r, v, w, kind)
  PROVE  IInv'
<1>1. /\ req'[r] = [pc |-> "insert", op |-> kind, v |-> v, w |-> w, flag |-> FALSE]
      /\ RequestOnly(r)
  BY DEF IInv, Open, StartFork, RequestOnly
<1>2. req'[r] \in Request
  BY <1>1 DEF Request
<1>3. Held(r)'
  <2>1. Present(v) /\ status[w] = "new"
    BY DEF StartFork, Fresh
  <2> QED BY <1>1, <2>1 DEF Held, RequestOnly, Present
<1>4. Writes(r)' = {} /\ Shares(r)' = {v}
  BY <1>1 DEF Writes, Shares
<1>5. \A q \in Requests \ {r} : v \notin Writes(q) /\ req[q].w # w
  BY DEF StartFork, FreeToShare, Fresh
<1> QED BY <1>1, <1>2, <1>3, <1>4, <1>5, MoveOn

LEMMA StartConfigStep ==
  ASSUME IInv, NEW r \in Requests, NEW op \in Edits, NEW v \in Versions,
         NEW w \in Versions \cup {None}, StartConfig(r, op, v, w)
  PROVE  IInv'
<1>1. /\ req'[r] = [pc |-> "config", op |-> op, v |-> v, w |-> w, flag |-> FALSE]
      /\ RequestOnly(r)
  BY DEF IInv, Open, StartConfig, RequestOnly
<1>2. req'[r] \in Request
  BY <1>1 DEF Request
<1>3. Held(r)'
  <2>1. Writable(v) /\ (op \in {"bind", "unbind"} => w \in Versions)
    BY DEF StartConfig
  <2> QED BY <1>1, <2>1 DEF Held, RequestOnly, Writable, Edits
<1>4. Writes(r)' = ConfigRows(op, v, w) /\ Shares(r)' = {}
  BY <1>1 DEF Writes, Shares, ConfigRows
<1>5. \A q \in Requests \ {r} : \A u \in ConfigRows(op, v, w) : u \notin Writes(q) \cup Shares(q)
  BY DEF StartConfig, FreeToWrite
<1> QED BY <1>1, <1>2, <1>3, <1>4, <1>5, MoveOn

LEMMA ScanDeployedStep ==
  ASSUME IInv, NEW r \in Requests, ScanDeployed(r) PROVE IInv'
<1> DEFINE v == req[r].v  found == Deployed(Siblings(v))
<1>1. /\ req[r] \in Request /\ req[r].pc = "scan" /\ Held(r)
      /\ UNCHANGED <<status, agent, parent, config, runs>>
  BY DEF IInv, Open, ScanDeployed
<1>2. v \in Versions /\ status[v] # "new" /\ req[r].op # "bind" /\ req[r].w = None
  BY <1>1 DEF Held
<1>3. CASE GoTo(r, "promote")
  <2>1. req'[r] = [req[r] EXCEPT !.pc = "promote"] /\ RequestOnly(r)
    BY <1>1, <1>3 DEF IInv, Open, RequestOnly, GoTo
  <2>2. req'[r] \in Request /\ req'[r].pc = "promote" /\ req'[r].v = v /\ req'[r].w = None
        /\ req'[r].op = req[r].op
    BY <2>1, <1>1, <1>2 DEF Request
  <2>3. Held(r)'
    BY <1>1, <1>2, <2>2 DEF Held
  <2>4. Writes(r)' = {None} /\ Shares(r)' = {}
    BY <2>2 DEF Writes, Shares
  <2>5. None \notin Versions
    BY AgentVersionsAssumption
  <2> QED BY <2>1, <2>2, <2>3, <2>4, <2>5, MoveOn
<1>4. CASE \E u \in found : RequestOnly(r) /\ req'[r] = [req[r] EXCEPT !.pc = "demote", !.w = u]
  <2>1. PICK u \in found : RequestOnly(r) /\ req'[r] = [req[r] EXCEPT !.pc = "demote", !.w = u]
    BY <1>4
  <2>2. u \in Versions \ {v} /\ status[u] = "DEPLOYED" /\ agent[u] = agent[v]
    BY DEF Deployed, Siblings
  <2>3. req'[r] \in Request /\ req'[r].pc = "demote" /\ req'[r].v = v /\ req'[r].w = u
        /\ req'[r].op = req[r].op
    BY <2>1, <2>2, <1>1 DEF Request
  <2>4. Held(r)'
    BY <1>1, <1>2, <2>2, <2>3 DEF Held
  <2>5. Writes(r)' = {} /\ Shares(r)' = {}
    BY <2>3 DEF Writes, Shares
  <2> QED BY <2>1, <2>3, <2>4, <2>5, MoveOn
<1>5. ASSUME NEW u \in found, req' = [req EXCEPT ![r].pc = "demote", ![r].w = u]
      PROVE  RequestOnly(r) /\ req'[r] = [req[r] EXCEPT !.pc = "demote", !.w = u]
  BY <1>1, <1>5 DEF IInv, Open, RequestOnly
<1> QED BY <1>3, <1>4, <1>5 DEF ScanDeployed

LEMMA DemoteStep ==
  ASSUME IInv, NEW r \in Requests, Demote(r) PROVE IInv'
<1> DEFINE v == req[r].v  w == req[r].w  x == IF status[w] = "DEPLOYED" THEN w ELSE None
<1>1. /\ req[r] \in Request /\ req[r].pc = "demote" /\ Held(r)
      /\ \A q \in Requests \ {r} : w \notin Writes(q) \cup Shares(q)
  BY DEF IInv, Open, Demote, FreeToWrite
<1>2. RequestOnly(r) /\ req'[r] = [req[r] EXCEPT !.pc = "promote", !.w = x]
  BY DEF IInv, Open, Demote, RequestOnly
<1>3. /\ v \in Versions /\ status[v] # "new" /\ req[r].op # "bind"
      /\ w \in Versions \ {v} /\ agent[w] = agent[v]
  BY <1>1 DEF Held
<1>4. /\ req'[r].pc = "promote" /\ req'[r].v = v /\ req'[r].w = x /\ req'[r].op = req[r].op
      /\ req'[r] \in Request
  BY <1>1, <1>2, <1>3 DEF Request
<1>5. Held(r)'
  BY <1>2, <1>3, <1>4 DEF Held, RequestOnly
<1>6. Writes(r)' = {x} /\ Shares(r)' = {}
  BY <1>4 DEF Writes, Shares
<1>7. None \notin Versions
  BY AgentVersionsAssumption
<1> QED BY <1>1, <1>2, <1>4, <1>5, <1>6, <1>7, MoveOn

LEMMA InsertForkStep ==
  ASSUME IInv, NEW r \in Requests, InsertFork(r) PROVE IInv'
<1> DEFINE v == req[r].v  w == req[r].w  f == config[req[r].v].enabled
<1>1. /\ req[r] \in Request /\ req[r].pc = "insert" /\ Held(r) /\ Tables
      /\ Forks(v) = {} /\ \A q \in Requests : ~(req[q].pc = "copy" /\ req[q].v = v)
      /\ \A q \in Requests \ {r} : Apart(r, q) /\ Apart(q, r)
  BY DEF IInv, Open, Sound, InsertFork, ParentIndexFree
<1>2. RequestOnly(r) /\ req'[r] = [req[r] EXCEPT !.pc = "copy", !.flag = f]
  BY DEF IInv, Open, InsertFork, RequestOnly
<1>3. v \in Versions /\ Present(v) /\ w \in Versions /\ status[w] = "new"
      /\ req[r].op \in {"DRAFT", "READY"}
  BY <1>1 DEF Held
<1>4. f \in BOOLEAN
  BY <1>1, <1>3 DEF Tables, Config
<1>5. /\ req'[r].pc = "copy" /\ req'[r].v = v /\ req'[r].w = w /\ req'[r].flag = f
      /\ req'[r].op = req[r].op /\ req'[r] \in Request
  BY <1>1, <1>2, <1>4 DEF Request
<1>6. Held(r)'
  <2>1. status[v] # "new" /\ Present(v)' /\ Forks(v)' = {}
    BY <1>1, <1>2, <1>3 DEF Present, Forks, RequestOnly
  <2>2. req[r].op # "bind"
    BY <1>3
  <2> QED BY <1>2, <1>3, <1>5, <2>1, <2>2 DEF Held, RequestOnly
<1>7. Writes(r)' = {} /\ Shares(r)' = {v} /\ Shares(r) = {v}
  BY <1>1, <1>5 DEF Writes, Shares
<1>8. \A q \in Requests \ {r} : v \notin Writes(q)
  BY <1>1, <1>3, <1>7 DEF Apart
<1>9. \A q \in Requests \ {r} : req[q].pc \in {"insert", "copy"} => req[q].w # w
  BY <1>1 DEF Apart
<1> QED BY <1>1, <1>2, <1>5, <1>6, <1>7, <1>8, <1>9, MoveOn

LEMMA RollbackStep ==
  ASSUME IInv, NEW r \in Requests, Rollback(r) PROVE IInv'
<1>1. RequestOnly(r) /\ req'[r] = IdleRequest
  BY DEF IInv, Open, Rollback, End, RequestOnly
<1>2. IdleRequest \in Request
  BY DEF IdleRequest, Request
<1>3. Held(r)'
  BY <1>1 DEF Held, IdleRequest
<1>4. Writes(r)' = {} /\ Shares(r)' = {}
  BY <1>1 DEF Writes, Shares, IdleRequest
<1> QED BY <1>1, <1>2, <1>3, <1>4, MoveOn DEF IdleRequest

-----------------------------------------------------------------------------
(* The steps that write tables.                                            *)

LEMMA CreateFromWizardStep ==
  ASSUME IInv, NEW v \in Versions, NEW a \in Agents, CreateFromWizard(v, a) PROVE IInv'
<1>1. /\ Tables /\ Lineage /\ OneDeployed /\ TargetsRunnable /\ RunsThere /\ RunsAreSingleAgent
      /\ \A r \in Requests : Held(r)
  BY DEF IInv, Open, Sound
<1>2. /\ status[v] = "new" /\ \A q \in Requests : req[q].w # v
      /\ status' = [status EXCEPT ![v] = "INITIALIZING"]
      /\ agent' = [agent EXCEPT ![v] = a]
      /\ UNCHANGED <<parent, config, runs, req>>
  BY DEF CreateFromWizard, Fresh
<1>3. Tables'
  BY <1>1, <1>2 DEF Tables, Statuses
<1>4. \A u \in Versions \ {v} : status'[u] = status[u] /\ agent'[u] = agent[u]
  BY <1>1, <1>2 DEF Tables
<1>5. status'[v] = "INITIALIZING" /\ parent[v] = None
  BY <1>1, <1>2 DEF Tables, Lineage, Present
<1>6. \A u \in Versions : parent[u] # v
  BY <1>1, <1>2, AgentVersionsAssumption DEF Lineage, Present
<1>7. \A u \in Versions \ {v} : Forks(u)' = Forks(u)
  BY <1>2, <1>4, <1>5, AgentVersionsAssumption DEF Forks, Present
<1>8. Lineage'
  BY <1>1, <1>2, <1>4, <1>5, <1>6, <1>7 DEF Lineage, Present, Forks, Tables
<1>9. OneDeployed' /\ TargetsRunnable' /\ RunsThere' /\ RunsAreSingleAgent'
  BY <1>1, <1>2, <1>4, <1>5 DEF OneDeployed, TargetsRunnable, RunsThere, RunsAreSingleAgent,
     Runnable, Present, Active, Tables, Config
<1>10. ASSUME NEW q \in Requests PROVE Held(q)'
  <2>1. Held(q) /\ req' = req
    BY <1>1, <1>2
  <2>2. req[q].pc # "idle" => req[q].v \in Versions \ {v}
    BY <2>1, <1>2 DEF Held
  <2> QED BY <2>1, <2>2, <1>2, <1>4, <1>7 DEF Held, Present, Writable
<1> QED BY <1>2, <1>3, <1>8, <1>9, <1>10, TableStep DEF Sound

LEMMA StatusStep ==
  ASSUME IInv, status' \in [Versions -> Statuses \cup {"new", "gone"}],
         UNCHANGED <<agent, parent, config, runs>>,
         \A v \in Versions : (Present(v)' <=> Present(v)) /\ (status'[v] = "new" <=> status[v] = "new"),
         \A v \in Versions : Runnable(v) => Runnable(v)',
         OneDeployed',
         req' = req \/ (\E r \in Requests : End(r)),
         \A q \in Requests : req'[q] # IdleRequest =>
             /\ req[q].pc = "config" => status'[req[q].v] = status[req[q].v]
             /\ req[q].pc = "promote" /\ req[q].w # None => status'[req[q].w] = status[req[q].w]
  PROVE  IInv'
<1>1. /\ Tables /\ Lineage /\ OneDeployed /\ TargetsRunnable /\ RunsThere /\ RunsAreSingleAgent
      /\ \A r \in Requests : Held(r)
  BY DEF IInv, Open, Sound
<1>2. Tables'
  BY <1>1 DEF Tables
<1>3. \A v \in Versions : Forks(v)' = Forks(v)
  BY DEF Forks
<1>4. Lineage'
  BY <1>1, <1>2, <1>3, AgentVersionsAssumption DEF Lineage, Tables
<1>5. TargetsRunnable' /\ RunsThere' /\ RunsAreSingleAgent'
  BY <1>1 DEF TargetsRunnable, RunsThere, RunsAreSingleAgent, Tables, Config, Active
<1>6. ASSUME NEW q \in Requests, req'[q] # IdleRequest PROVE Held(q)'
  <2>1. Held(q) /\ req'[q] = req[q]
    BY <1>1, <1>6 DEF IInv, Open, End
  <2>2. req[q].pc # "idle" => req[q].v \in Versions
    BY <2>1 DEF Held
  <2> QED BY <2>1, <2>2, <1>3, <1>6 DEF Held, Writable
<1> QED BY <1>2, <1>4, <1>5, <1>6, TableStep DEF Sound

LEMMA OneStatusStep ==
  ASSUME IInv, NEW v \in Versions, NEW st \in {"PENDING", "READY"},
         Present(v), st = "PENDING" => status[v] = "INITIALIZING",
         Unlocked(v),
         status' = [status EXCEPT ![v] = st],
         UNCHANGED <<agent, parent, config, runs, req>>
  PROVE  IInv'
<1>1. Tables /\ OneDeployed /\ \A r \in Requests : Held(r)
  BY DEF IInv, Open, Sound
<1>2. status'[v] = st /\ \A u \in Versions \ {v} : status'[u] = status[u]
  BY <1>1 DEF Tables
<1>3. status' \in [Versions -> Statuses \cup {"new", "gone"}]
  BY <1>1 DEF Tables, Statuses
<1>4. OneDeployed'
  BY <1>1, <1>2 DEF OneDeployed
<1>5. \A u \in Versions : (Present(u)' <=> Present(u)) /\ (status'[u] = "new" <=> status[u] = "new")
  BY <1>2 DEF Present
<1>6. \A u \in Versions : Runnable(u) => Runnable(u)'
  BY <1>2 DEF Runnable
<1>7. \A q \in Requests : (req[q].pc = "config" => req[q].v # v) /\ (req[q].pc = "promote" => req[q].w # v)
  BY DEF Unlocked, Writes, ConfigRows
<1>8. \A q \in Requests : /\ req[q].pc = "config" => req[q].v \in Versions
                          /\ req[q].pc = "promote" /\ req[q].w # None => req[q].w \in Versions
  BY <1>1 DEF Held, IInv, Open, Request
<1> QED BY <1>2, <1>3, <1>4, <1>5, <1>6, <1>7, <1>8, StatusStep

LEMMA FinalizeStep == ASSUME IInv, NEW v \in Versions, Finalize(v) PROVE IInv'
  BY OneStatusStep DEF Finalize, Present

LEMMA LandBundleStep == ASSUME IInv, NEW v \in Versions, LandBundle(v) PROVE IInv'
  BY OneStatusStep DEF LandBundle

LEMMA UndeployStep == ASSUME IInv, NEW v \in Versions, Undeploy(v) PROVE IInv'
  BY OneStatusStep DEF Undeploy, Present

LEMMA PromoteStep == ASSUME IInv, NEW r \in Requests, Promote(r) PROVE IInv'
<1> DEFINE v == req[r].v  w == req[r].w
           demoted == [u \in Versions |-> IF u = w THEN "READY" ELSE status[u]]
<1>1. /\ Tables /\ OneDeployed /\ \A q \in Requests : Held(q) /\ req[q] \in Request
      /\ \A q \in Requests \ {r} : Apart(r, q)
  BY DEF IInv, Open, Sound
<1>2. req[r].pc = "promote" /\ FreeToWrite(v, r) /\ End(r) /\ UNCHANGED <<agent, parent, config, runs>>
  BY DEF Promote
<1>3. /\ v \in Versions /\ status[v] # "new"
      /\ w # None => w \in Versions \ {v} /\ agent[w] = agent[v] /\ status[w] = "DEPLOYED"
  BY <1>1, <1>2 DEF Held, Request
<1>4. \/ Present(v) /\ DeployedIndexFree(v, w) /\ status' = [demoted EXCEPT ![v] = "DEPLOYED"]
      \/ ~Present(v) /\ status' = demoted
  BY DEF Promote
<1>5. status' \in [Versions -> Statuses \cup {"new", "gone"}]
  BY <1>1, <1>4 DEF Tables, Statuses
<1>6. /\ \A u \in Versions \ {v, w} : status'[u] = status[u]
      /\ w \in Versions => status'[w] = "READY"
      /\ status'[v] = IF Present(v) THEN "DEPLOYED" ELSE status[v]
  BY <1>1, <1>3, <1>4, AgentVersionsAssumption DEF Tables
<1>7. \A u \in Versions : (Present(u)' <=> Present(u)) /\ (status'[u] = "new" <=> status[u] = "new")
  BY <1>3, <1>6, AgentVersionsAssumption DEF Present
<1>8. \A u \in Versions : Runnable(u) => Runnable(u)'
  BY <1>3, <1>6, AgentVersionsAssumption DEF Runnable, Present
<1>9. OneDeployed'
  <2>1. CASE Present(v)
    <3>1. \A u \in Versions \ {v} : agent[u] = agent[v] => status'[u] # "DEPLOYED"
      BY <2>1, <1>3, <1>4, <1>6 DEF DeployedIndexFree, Deployed, Siblings
    <3> QED BY <3>1, <1>1, <1>2, <1>3, <1>6 DEF OneDeployed
  <2>2. CASE ~Present(v)
    BY <2>2, <1>1, <1>2, <1>3, <1>6 DEF OneDeployed, Present
  <2> QED BY <2>1, <2>2
<1>10. ASSUME NEW q \in Requests, req'[q] # IdleRequest
       PROVE  /\ req[q].pc = "config" => status'[req[q].v] = status[req[q].v]
              /\ req[q].pc = "promote" /\ req[q].w # None => status'[req[q].w] = status[req[q].w]
  <2>1. q # r
    BY <1>2, <1>10 DEF IInv, Open, End
  <2>2. v \notin Writes(q) /\ (w \notin Writes(q) \/ w = None)
    BY <2>1, <1>1, <1>2, <1>3 DEF FreeToWrite, Apart, Writes
  <2>3. \A u \in Versions : u \in Writes(q) => status'[u] = status[u]
    BY <2>1, <2>2, <1>2, <1>6, AgentVersionsAssumption DEF FreeToWrite
  <2>4. /\ req[q].pc = "config" => req[q].v \in Versions /\ req[q].v \in Writes(q)
        /\ req[q].pc = "promote" /\ req[q].w # None => req[q].w \in Versions /\ req[q].w \in Writes(q)
    BY <1>1 DEF Held, Request, Writes, ConfigRows
  <2> QED BY <2>3, <2>4
<1> QED BY <1>2, <1>5, <1>7, <1>8, <1>9, <1>10, StatusStep

LEMMA EndRunStep == ASSUME IInv, NEW x \in Runs, EndRun(x) PROVE IInv'
<1>1. /\ Sound /\ runs' = [runs EXCEPT ![x] = None]
      /\ req' = req /\ UNCHANGED <<status, agent, parent, config>>
  BY DEF IInv, EndRun
<1>2. Tables' /\ Lineage' /\ OneDeployed' /\ TargetsRunnable'
  BY <1>1 DEF Sound, Tables, Lineage, OneDeployed, TargetsRunnable, Present, Forks, Runnable
<1>3. \A y \in Runs : runs'[y] = runs[y] \/ runs'[y] = None
  BY <1>1 DEF Sound, Tables
<1>4. RunsThere' /\ RunsAreSingleAgent'
  BY <1>1, <1>3, AgentVersionsAssumption DEF Sound, RunsThere, RunsAreSingleAgent, Present, Active
<1>5. \A q \in Requests : Held(q)'
  BY <1>1 DEF IInv, Open, Held, Present, Forks, Writable
<1> QED BY <1>1, <1>2, <1>4, <1>5, TableStep DEF Sound

LEMMA InsertRunStep == ASSUME IInv, NEW r \in Requests, InsertRun(r) PROVE IInv'
<1> DEFINE v == req[r].v
<1>1. v \in Versions /\ Present(v) /\ ~config[v].enabled /\ Sound
  BY DEF IInv, Open, InsertRun, Held
<1>2. PICK x \in Runs : runs' = [runs EXCEPT ![x] = v]
  BY DEF InsertRun
<1>3. End(r) /\ UNCHANGED <<status, agent, parent, config>>
  BY DEF InsertRun
<1>4. Tables' /\ Lineage' /\ OneDeployed' /\ TargetsRunnable'
  BY <1>1, <1>2, <1>3 DEF Sound, Tables, Lineage, OneDeployed, TargetsRunnable, Present, Forks, Runnable
<1>5. RunsThere' /\ RunsAreSingleAgent'
  BY <1>1, <1>2, <1>3 DEF Sound, Tables, RunsThere, RunsAreSingleAgent, Present, Active
<1>6. ASSUME NEW q \in Requests, req'[q] # IdleRequest PROVE Held(q)'
  <2>1. Held(q) /\ req'[q] = req[q]
    BY <1>3, <1>6 DEF IInv, Open, End
  <2> QED BY <2>1, <1>3 DEF Held, Present, Forks, Writable
<1> QED BY <1>3, <1>4, <1>5, <1>6, TableStep DEF Sound

LEMMA CommitConfigStep == ASSUME IInv, NEW r \in Requests, CommitConfig(r) PROVE IInv'
<1> DEFINE v == req[r].v  w == req[r].w
<1>1. /\ v \in Versions /\ Writable(v) /\ Sound
      /\ req[r].pc = "config" /\ ~Active(v) /\ v \in Writes(r)
      /\ \A q \in Requests : Held(q)
      /\ \A q \in Requests \ {r} : Apart(r, q)
  BY DEF IInv, Open, CommitConfig, Held, Writes, ConfigRows
<1>2. End(r) /\ UNCHANGED <<status, agent, parent, runs>>
  BY DEF CommitConfig
<1>3. PICK c \in Config :
        /\ config' = [config EXCEPT ![v] = c]
        /\ \A u \in c.targets : Runnable(u)
  <2>0. config[v] \in Config /\ \A u \in config[v].targets : Runnable(u)
    BY <1>1 DEF Sound, Tables, TargetsRunnable
  <2>1. CASE config' = [config EXCEPT ![v].enabled = TRUE]
    <3> DEFINE c == [config[v] EXCEPT !.enabled = TRUE]
    <3>1. c \in Config /\ c.targets = config[v].targets
      BY <2>0 DEF Config
    <3>2. config' = [config EXCEPT ![v] = c]
      BY <2>1
    <3> QED BY <2>0, <3>1, <3>2
  <2>2. CASE config' = [config EXCEPT ![v].enabled = FALSE]
    <3> DEFINE c == [config[v] EXCEPT !.enabled = FALSE]
    <3>1. c \in Config /\ c.targets = config[v].targets
      BY <2>0 DEF Config
    <3>2. config' = [config EXCEPT ![v] = c]
      BY <2>2
    <3> QED BY <2>0, <3>1, <3>2
  <2>3. CASE /\ req[r].op = "bind" /\ Bindable(v, w)
             /\ config' = [config EXCEPT ![v].targets = @ \cup {w}]
    <3> DEFINE c == [config[v] EXCEPT !.targets = @ \cup {w}]
    <3>1. w \in Versions /\ Runnable(w)
      BY <2>3, <1>1 DEF Held, Bindable
    <3>2. c \in Config /\ c.targets = config[v].targets \cup {w}
      BY <2>0, <3>1 DEF Config
    <3>3. config' = [config EXCEPT ![v] = c]
      BY <2>3
    <3> QED BY <2>0, <3>1, <3>2, <3>3
  <2>4. CASE config' = [config EXCEPT ![v].targets = @ \ {w}]
    <3> DEFINE c == [config[v] EXCEPT !.targets = @ \ {w}]
    <3>1. c \in Config /\ c.targets = config[v].targets \ {w}
      BY <2>0 DEF Config
    <3>2. config' = [config EXCEPT ![v] = c]
      BY <2>4
    <3> QED BY <2>0, <3>1, <3>2
  <2> QED BY <2>1, <2>2, <2>3, <2>4 DEF CommitConfig
<1>4. config'[v] = c /\ \A u \in Versions \ {v} : config'[u] = config[u]
  BY <1>1, <1>3 DEF Sound, Tables
<1>5. Tables' /\ Lineage' /\ OneDeployed' /\ RunsThere'
  BY <1>1, <1>2, <1>3 DEF Sound, Tables, Lineage, OneDeployed, RunsThere, Present, Forks
<1>6. TargetsRunnable' /\ RunsAreSingleAgent'
  BY <1>1, <1>2, <1>3, <1>4 DEF Sound, TargetsRunnable, RunsAreSingleAgent, Runnable, Active
<1>7. ASSUME NEW q \in Requests, req'[q] # IdleRequest PROVE Held(q)'
  <2>1. q # r /\ Held(q) /\ req'[q] = req[q]
    BY <1>1, <1>2, <1>7 DEF IInv, Open, End
  <2>2. v \notin Shares(q)
    BY <2>1, <1>1 DEF Apart
  <2>3. req[q].pc \in {"copy", "run"} => config'[req[q].v] = config[req[q].v]
    BY <2>1, <2>2, <1>4 DEF Held, Shares
  <2> QED BY <2>1, <2>3, <1>2 DEF Held, Present, Forks, Writable
<1> QED BY <1>2, <1>5, <1>6, <1>7, TableStep DEF Sound

LEMMA CommitForkStep == ASSUME IInv, NEW r \in Requests, CommitFork(r) PROVE IInv'
<1>0. PICK v \in Versions, w \in Versions : v = req[r].v /\ w = req[r].w
  BY DEF IInv, Open, CommitFork, Held
<1>c. PICK c : c = [enabled |-> req[r].flag, targets |-> config[v].targets]
  OBVIOUS
<1>1. /\ Sound /\ req[r] \in Request /\ \A q \in Requests : Held(q)
      /\ \A q \in Requests \ {r} : Apart(q, r)
      /\ req[r].pc = "copy"
  BY DEF IInv, Open, CommitFork
<1>2. /\ Present(v) /\ Forks(v) = {}
      /\ status[w] = "new" /\ w # v
      /\ req[r].op \in {"DRAFT", "READY"} /\ req[r].flag = config[v].enabled
  BY <1>0, <1>1 DEF Held, Present
<1>3. /\ status' = [status EXCEPT ![w] = req[r].op]
      /\ agent' = [agent EXCEPT ![w] = agent[v]]
      /\ parent' = [parent EXCEPT ![w] = v]
      /\ config' = [config EXCEPT ![w] = c]
      /\ End(r) /\ runs' = runs
  BY <1>0, <1>c DEF CommitFork
<1>4. c \in Config /\ \A u \in c.targets : Runnable(u)
  BY <1>c, <1>1, <1>2, <1>0 DEF Sound, Tables, Config, TargetsRunnable, Request
<1>5. Tables'
  BY <1>1, <1>2, <1>3, <1>4 DEF Sound, Tables, Statuses
<1>6. /\ status'[w] = req[r].op /\ agent'[w] = agent[v] /\ parent'[w] = v /\ config'[w] = c
      /\ \A u \in Versions \ {w} : /\ status'[u] = status[u] /\ agent'[u] = agent[u]
                                   /\ parent'[u] = parent[u] /\ config'[u] = config[u]
  BY <1>1, <1>2, <1>3 DEF Sound, Tables
<1>7. \A u \in Versions : parent[u] # w
  BY <1>1, <1>2, AgentVersionsAssumption DEF Sound, Lineage, Present
<1>8. /\ Forks(v)' = {w} /\ Forks(w)' = {}
      /\ \A u \in Versions \ {v, w} : Forks(u)' = Forks(u)
  <2>1. Present(w)' /\ \A u \in Versions \ {w} : Present(u)' <=> Present(u)
    BY <1>2, <1>6 DEF Present
  <2>2. Forks(v)' = {w}
    BY <2>1, <1>2, <1>6 DEF Forks
  <2>3. Forks(w)' = {}
    BY <2>1, <1>2, <1>6, <1>7 DEF Forks
  <2>4. ASSUME NEW u \in Versions \ {v, w} PROVE Forks(u)' = Forks(u)
    <3>1. w \notin Forks(u) /\ w \notin Forks(u)'
      BY <1>2, <1>6 DEF Forks, Present
    <3>2. \A t \in Versions \ {w} : t \in Forks(u)' <=> t \in Forks(u)
      BY <2>1, <1>6 DEF Forks
    <3> QED BY <3>1, <3>2 DEF Forks
  <2> QED BY <2>2, <2>3, <2>4
<1>9. Lineage'
  <2>1. Present(w)' /\ \A u \in Versions \ {w} : Present(u)' <=> Present(u)
    BY <1>2, <1>6 DEF Present
  <2>2. \A u \in Versions \ {w} : /\ ~Present(u) => parent[u] = None
                                  /\ Present(u) /\ parent[u] # None =>
                                       Present(parent[u]) /\ agent[parent[u]] = agent[u]
    BY <1>1 DEF Sound, Lineage
  <2>3. \A u \in Versions : parent[u] \in Versions \cup {None}
    BY <1>1 DEF Sound, Tables
  <2>4. \A u \in Versions : \A x, y \in Forks(u)' : x = y
    BY <1>1, <1>8 DEF Sound, Lineage
  <2>5. ASSUME NEW u \in Versions
        PROVE  /\ ~Present(u)' => parent'[u] = None
               /\ Present(u)' /\ parent'[u] # None => Present(parent[u])' /\ agent'[parent'[u]] = agent'[u]
    <3>1. CASE u = w
      BY <3>1, <2>1, <1>2, <1>6
    <3>2. CASE u # w
      BY <3>2, <2>1, <2>2, <2>3, <1>6, <1>7
    <3> QED BY <3>1, <3>2
  <2> QED BY <2>4, <2>5 DEF Lineage
<1>10. OneDeployed' /\ RunsThere'
  BY <1>1, <1>2, <1>3, <1>6 DEF Sound, Tables, OneDeployed, RunsThere, Present
<1>11. TargetsRunnable'
  <2>1. \A u \in Versions : Runnable(u) => Runnable(u)'
    BY <1>2, <1>6 DEF Runnable
  <2> QED BY <2>1, <1>1, <1>4, <1>6 DEF Sound, Tables, Config, TargetsRunnable
<1>12. RunsAreSingleAgent'
  <2>1. ~Active(w)'
    BY <1>1, <1>2, <1>3, AgentVersionsAssumption DEF Sound, RunsThere, Active, Present
  <2> QED BY <2>1, <1>1, <1>3, <1>6 DEF Sound, RunsAreSingleAgent, Active
<1>13. ASSUME NEW q \in Requests, req'[q] # IdleRequest PROVE Held(q)'
  <2>1. q # r /\ Held(q) /\ req'[q] = req[q]
    BY <1>1, <1>3, <1>13 DEF IInv, Open, End
  <2>2. /\ req[q].pc # "idle" => req[q].v \in Versions \ {w}
        /\ req[q].pc = "demote" => req[q].w \in Versions \ {w}
        /\ req[q].pc = "promote" /\ req[q].w # None => req[q].w \in Versions \ {w}
    BY <2>1, <1>1, <1>2 DEF Held, IInv, Open, Request
  <2>3. /\ req[q].pc = "copy" => req[q].v # v
        /\ req[q].pc \in {"insert", "copy"} => req[q].w # w
    BY <2>1, <1>0, <1>1 DEF Apart
  <2> QED BY <2>1, <2>2, <2>3, <1>6, <1>8 DEF Held, Present, Writable
<1> QED BY <1>3, <1>5, <1>9, <1>10, <1>11, <1>12, <1>13, TableStep DEF Sound

LEMMA RemoveStep ==
  ASSUME IInv, NEW r \in Requests, End(r), NEW S \in SUBSET Versions, Remove(S), agent' = agent,
         \A v \in S : FreeToWrite(v, r),
         \A u \in Versions \ S : config[u].targets \cap S = {},
         \A u \in Versions \ S : Present(u) => parent[u] \notin S
  PROVE  IInv'
<1>1. Sound /\ Tables /\ \A q \in Requests : Held(q)
  BY DEF IInv, Open, Sound
<1>2. Plain \in Config
  BY DEF Plain, Config
<1>3. Tables'
  BY <1>1, <1>2 DEF Tables, Remove
<1>4. /\ \A u \in Versions \ S : /\ status'[u] = status[u] /\ parent'[u] = parent[u]
                                 /\ config'[u] = config[u]
      /\ \A u \in S : /\ status'[u] = IF Present(u) THEN "gone" ELSE status[u]
                      /\ parent'[u] = None /\ config'[u] = Plain
      /\ \A x \in Runs : runs'[x] = IF runs[x] \in S THEN None ELSE runs[x]
  BY DEF Remove
<1>5. /\ \A u \in S : ~Present(u)'
      /\ \A u \in Versions \ S : Present(u)' <=> Present(u)
  BY <1>4 DEF Present
<1>6. \A u \in Versions : Forks(u)' \subseteq Forks(u)
  BY <1>4, <1>5 DEF Forks
<1>7. Lineage'
  <2>1. Lineage /\ \A u \in Versions : parent[u] \in Versions \cup {None}
    BY <1>1 DEF Sound, Tables
  <2>2. \A u \in Versions : \A x, y \in Forks(u)' : x = y
    BY <2>1, <1>6 DEF Lineage
  <2>3. ASSUME NEW u \in Versions
        PROVE  /\ ~Present(u)' => parent'[u] = None
               /\ Present(u)' /\ parent'[u] # None => Present(parent[u])' /\ agent'[parent'[u]] = agent'[u]
    BY <2>1, <1>4, <1>5 DEF Lineage
  <2> QED BY <2>2, <2>3 DEF Lineage
<1>8. OneDeployed'
  BY <1>1, <1>4 DEF Sound, OneDeployed
<1>9. TargetsRunnable'
  <2>1. \A u \in Versions : config[u].targets \subseteq Versions
    BY <1>1 DEF Tables, Config
  <2>2. \A u \in Versions \ S : Runnable(u) => Runnable(u)'
    BY <1>4 DEF Runnable
  <2>3. \A u \in S : config'[u].targets = {}
    BY <1>4 DEF Plain
  <2> QED BY <2>1, <2>2, <2>3, <1>1, <1>4 DEF Sound, TargetsRunnable
<1>10. RunsThere' /\ RunsAreSingleAgent'
  <2>1. \A x \in Runs : runs[x] \in Versions \cup {None}
    BY <1>1 DEF Tables
  <2>2. RunsThere'
    BY <2>1, <1>1, <1>4, <1>5 DEF Sound, RunsThere
  <2>3. \A u \in Versions : Active(u)' => Active(u) /\ u \notin S
    BY <1>4, AgentVersionsAssumption DEF Active
  <2> QED BY <2>2, <2>3, <1>1, <1>4 DEF Sound, RunsAreSingleAgent
<1>11. ASSUME NEW q \in Requests, req'[q] # IdleRequest PROVE Held(q)'
  <2>1. q # r /\ Held(q) /\ req'[q] = req[q] /\ req[q] \in Request
    BY <1>1, <1>11 DEF IInv, Open, End
  <2>2. /\ req[q].pc \in {"insert", "copy", "run", "config"} => req[q].v \in Versions \ S
        /\ req[q].pc = "promote" /\ req[q].w # None => req[q].w \in Versions \ S
    BY <2>1 DEF FreeToWrite, Writes, Shares, ConfigRows, Held, Request
  <2>3. \A u \in Versions : status'[u] = "new" <=> status[u] = "new"
    BY <1>4 DEF Present
  <2>4. req[q].pc # "idle" => req[q].v \in Versions
    BY <2>1 DEF Held
  <2> QED BY <2>1, <2>2, <2>3, <2>4, <1>4, <1>5, <1>6 DEF Held, Writable
<1> QED BY <1>3, <1>7, <1>8, <1>9, <1>10, <1>11, TableStep DEF Sound

LEMMA CommitDeleteStep == ASSUME IInv, NEW r \in Requests, CommitDelete(r) PROVE IInv'
<1> DEFINE v == req[r].v
<1>1. v \in Versions /\ Tables
  BY DEF IInv, Open, Sound, CommitDelete, Held
<1>2. /\ \A u \in {v} : FreeToWrite(u, r)
      /\ End(r) /\ Remove({v}) /\ agent' = agent
  BY DEF CommitDelete
<1>3. \A u \in Versions \ {v} : config[u].targets \cap {v} = {} /\ (Present(u) => parent[u] \notin {v})
  BY DEF CommitDelete, Referenced, Forks, Callers
<1> QED BY <1>1, <1>2, <1>3, RemoveStep

LEMMA CommitDeleteAgentStep == ASSUME IInv, NEW r \in Requests, CommitDeleteAgent(r) PROVE IInv'
<1> DEFINE v == req[r].v
<1>1. v \in Versions /\ Lineage
  BY DEF IInv, Open, Sound, CommitDeleteAgent, Held
<1>2. /\ \A u \in Mine(v) : FreeToWrite(u, r)
      /\ End(r) /\ Remove(Mine(v)) /\ agent' = agent
  BY DEF CommitDeleteAgent
<1>3. Mine(v) = {u \in Versions : agent[u] = agent[v]}
  BY <1>1 DEF Mine, Siblings
<1>4. ASSUME NEW u \in Versions \ Mine(v), NEW t \in Mine(v), t \in config[u].targets PROVE FALSE
  <2>1. u \in Callers(t)
    BY <1>4 DEF Callers
  <2>2. u \in OutsideCallers(v)
    <3>1. u \in UNION {Callers(x) : x \in Mine(v)}
      BY <2>1, Zenon
    <3>2. u \notin Mine(v)
      OBVIOUS
    <3> QED BY <3>1, <3>2, ZenonT(30) DEF OutsideCallers
  <2> QED BY <2>2 DEF CommitDeleteAgent
<1>5. \A u \in Versions \ Mine(v) : Present(u) => parent[u] \notin Mine(v)
  BY <1>1, <1>3, AgentVersionsAssumption DEF Lineage
<1> QED BY <1>2, <1>3, <1>4, <1>5, RemoveStep

-----------------------------------------------------------------------------
LEMMA Step == ASSUME IInv, [Next]_vars PROVE IInv'
<1>1. CASE \E v \in Versions :
             \/ \E a \in Agents : CreateFromWizard(v, a)
             \/ Finalize(v) \/ LandBundle(v) \/ Undeploy(v)
  BY <1>1, CreateFromWizardStep, FinalizeStep, LandBundleStep, UndeployStep
<1>2. CASE \E r \in Requests :
             \/ ScanDeployed(r) \/ Demote(r) \/ Promote(r)
             \/ InsertFork(r) \/ CommitFork(r)
             \/ CommitDelete(r) \/ CommitDeleteAgent(r)
             \/ CommitConfig(r) \/ InsertRun(r) \/ Rollback(r)
  BY <1>2, ScanDeployedStep, DemoteStep, PromoteStep, InsertForkStep, CommitForkStep,
     CommitDeleteStep, CommitDeleteAgentStep, CommitConfigStep, InsertRunStep, RollbackStep
<1>3. CASE \E r \in Requests, v \in Versions :
             StartDeploy(r, v) \/ StartDelete(r, v) \/ StartDeleteAgent(r, v) \/ StartRun(r, v)
  BY <1>3, StartDeployStep, StartDeleteStep, StartDeleteAgentStep, StartRunStep
<1>4. CASE \E r \in Requests, v \in Versions, w \in Versions, kind \in {"DRAFT", "READY"} :
             StartFork(r, v, w, kind)
  BY <1>4, StartForkStep
<1>5. CASE \E r \in Requests, v \in Versions, op \in Edits, w \in Versions \cup {None} :
             StartConfig(r, op, v, w)
  BY <1>5, StartConfigStep
<1>6. CASE \E x \in Runs : EndRun(x)
  BY <1>6, EndRunStep
<1>7. CASE UNCHANGED vars
  <2>1. Sound' /\ req' = req /\ UNCHANGED <<status, agent, parent, config, runs>>
    BY <1>7 DEF vars, IInv, Sound, Tables, Lineage, OneDeployed, TargetsRunnable, RunsThere,
       RunsAreSingleAgent, Present, Forks, Runnable, Active
  <2>2. \A q \in Requests : Held(q)'
    BY <2>1 DEF IInv, Open, Held, Present, Forks, Writable
  <2> QED BY <2>1, <2>2, TableStep
<1> QED BY <1>1, <1>2, <1>3, <1>4, <1>5, <1>6, <1>7 DEF Next

(* The inductive invariant holds in every state: what an open transaction  *)
(* has read of the rows it locked is still so, and locks are apart.        *)
THEOREM Invariance == Spec => []IInv
<1>1. Init => IInv
  BY InitInv
<1>2. IInv /\ [Next]_vars => IInv'
  BY Step
<1> QED BY <1>1, <1>2, PTL DEF Spec

(* Every variable keeps its type: the open requests always hold versions   *)
(* and the tables never point outside of the ids.                          *)
THEOREM TypeCorrect == Spec => []TypeOK
<1>1. IInv => TypeOK
  BY DEF IInv, Sound, Tables, Open, Request, TypeOK
<1> QED BY <1>1, Invariance, PTL

(* Deploy (agent_version.go): an agent serves one version at most, however *)
(* many deploys of it race.                                                *)
THEOREM AtMostOneDeployed == Spec => []OneDeployed
<1>1. IInv => OneDeployed
  BY DEF IInv, Sound
<1> QED BY <1>1, Invariance, PTL

(* Forks and deletions leave a chain: no version has two forks, and none   *)
(* is left without the version it was forked from.                         *)
THEOREM LinearChain == Spec => []ChainIsLinear
<1>1. IInv => ChainIsLinear
  BY DEF IInv, Sound, Lineage, ChainIsLinear
<1> QED BY <1>1, Invariance, PTL

(* AddBinding, Delete and Undeploy: a binding always leads to a version    *)
(* that can be run.                                                        *)
THEOREM BindingsAreRunnable == Spec => []TargetsRunnable
<1>1. IInv => TargetsRunnable
  BY DEF IInv, Sound
<1> QED BY <1>1, Invariance, PTL

(* Creating a run against enabling the agent tool: the FOR SHARE of the    *)
(* one and the FOR NO KEY UPDATE of the other keep them apart.             *)
THEOREM RunsStaySingleAgent == Spec => []RunsAreSingleAgent
<1>1. IInv => RunsAreSingleAgent
  BY DEF IInv, Sound
<1> QED BY <1>1, Invariance, PTL

-----------------------------------------------------------------------------
(* Configurations.                                                         *)

(* The steps that write configurations or parents.                         *)
LEMMA ConfigWriters ==
  ASSUME [Next]_vars
  PROVE  \/ config' = config /\ parent' = parent
         \/ \E r \in Requests : CommitFork(r) \/ CommitConfig(r) \/ CommitDelete(r) \/ CommitDeleteAgent(r)
<1> DEFINE Same == config' = config /\ parent' = parent
<1>1. ASSUME NEW v \in Versions PROVE
        /\ \A a \in Agents : CreateFromWizard(v, a) => Same
        /\ Finalize(v) \/ LandBundle(v) \/ Undeploy(v) => Same
  BY DEF CreateFromWizard, Finalize, LandBundle, Undeploy
<1>2. ASSUME NEW r \in Requests PROVE
        /\ ScanDeployed(r) \/ Demote(r) \/ Promote(r) => Same
        /\ InsertFork(r) \/ InsertRun(r) \/ Rollback(r) => Same
  BY DEF ScanDeployed, Demote, Promote, InsertFork, InsertRun, Rollback
<1>3. ASSUME NEW r \in Requests, NEW v \in Versions PROVE
        /\ StartDeploy(r, v) \/ StartDelete(r, v) \/ StartDeleteAgent(r, v) \/ StartRun(r, v) => Same
        /\ \A w \in Versions, kind \in {"DRAFT", "READY"} : StartFork(r, v, w, kind) => Same
        /\ \A op \in Edits, w \in Versions \cup {None} : StartConfig(r, op, v, w) => Same
  BY DEF StartDeploy, StartDelete, StartDeleteAgent, StartRun, StartFork, StartConfig
<1>4. \A x \in Runs : EndRun(x) => Same
  BY DEF EndRun
<1>5. UNCHANGED vars => Same
  BY DEF vars
<1> HIDE DEF Same
<1>6. Next => Same \/ \E r \in Requests :
                        CommitFork(r) \/ CommitConfig(r) \/ CommitDelete(r) \/ CommitDeleteAgent(r)
  BY <1>1, <1>2, <1>3, <1>4 DEF Next
<1> QED BY <1>5, <1>6 DEF Same

LEMMA ForkWrites ==
  ASSUME IInv, NEW r \in Requests, CommitFork(r)
  PROVE  \E v, w \in Versions :
           /\ status[w] = "new" /\ v # w
           /\ parent' = [parent EXCEPT ![w] = v]
           /\ config' = [config EXCEPT ![w] = config[v]]
<1>1. Held(r) /\ Tables /\ req[r].pc = "copy"
  BY DEF IInv, Open, Sound, CommitFork
<1>2. /\ req[r].v \in Versions /\ req[r].w \in Versions
      /\ status[req[r].w] = "new" /\ req[r].v # req[r].w
      /\ req[r].flag = config[req[r].v].enabled
  BY <1>1 DEF Held, Present
<1>3. config[req[r].v] = [enabled |-> req[r].flag, targets |-> config[req[r].v].targets]
  BY <1>1, <1>2 DEF Tables, Config
<1> QED BY <1>2, <1>3 DEF CommitFork

LEMMA ConfigWrites ==
  ASSUME IInv, NEW r \in Requests, CommitConfig(r)
  PROVE  \E v \in Versions : \E w \in Versions \cup {None} :
           /\ Writable(v) /\ ~Active(v) /\ parent' = parent
           /\ \A u \in Versions \ {v} : config'[u] = config[u]
           /\ \/ config'[v].targets \subseteq config[v].targets
              \/ Runnable(w) /\ w # v /\ config'[v].targets = config[v].targets \cup {w}
<1> DEFINE v == req[r].v  w == req[r].w
<1>1. Held(r) /\ Tables /\ req[r].pc = "config" /\ req[r] \in Request
  BY DEF IInv, Open, Sound, CommitConfig
<1>2. /\ v \in Versions /\ Writable(v) /\ ~Active(v) /\ parent' = parent
      /\ w \in Versions \cup {None}
  BY <1>1 DEF Held, CommitConfig, Request
<1>3. config[v] \in Config
  BY <1>1, <1>2 DEF Tables
<1>4. CASE config' = [config EXCEPT ![v].enabled = TRUE] \/ config' = [config EXCEPT ![v].enabled = FALSE]
  BY <1>4, <1>1, <1>2, <1>3 DEF Tables, Config
<1>5. CASE Bindable(v, w) /\ config' = [config EXCEPT ![v].targets = @ \cup {w}]
  <2>1. Runnable(w) /\ w # v
    BY <1>5, <1>2 DEF Bindable, Runnable, Writable
  <2> QED BY <2>1, <1>5, <1>1, <1>2, <1>3 DEF Tables, Config
<1>6. CASE config' = [config EXCEPT ![v].targets = @ \ {w}]
  BY <1>6, <1>1, <1>2, <1>3 DEF Tables, Config
<1> QED BY <1>4, <1>5, <1>6 DEF CommitConfig

LEMMA RemoveWrites ==
  ASSUME IInv, NEW r \in Requests, CommitDelete(r) \/ CommitDeleteAgent(r)
  PROVE  /\ \A v \in Versions : parent'[v] = parent[v] \/ parent'[v] = None
         /\ \A v \in Versions : config'[v].targets \subseteq config[v].targets
         /\ \A v \in Versions : Present(v) => config'[v] = config[v] \/ status'[v] = "gone"
<1>1. PICK S : Remove(S)
  BY DEF CommitDelete, CommitDeleteAgent
<1> QED BY <1>1 DEF Remove, Plain

(* Repository comments on beginCallerWrite: the configuration of a version *)
(* that is queued, runnable or being evaluated does not move.              *)
THEOREM ConfigStaysFrozen == Spec => ConfigFrozen
<1>1. ASSUME IInv, [Next]_vars, NEW v \in Versions, Present(v), ~Writable(v) \/ Active(v)
      PROVE  config'[v] = config[v] \/ status'[v] = "gone"
  <2>1. CASE \E r \in Requests : CommitFork(r)
    BY <2>1, <1>1, ForkWrites DEF IInv, Sound, Tables, Present
  <2>2. CASE \E r \in Requests : CommitConfig(r)
    BY <2>2, <1>1, ConfigWrites
  <2>3. CASE \E r \in Requests : CommitDelete(r) \/ CommitDeleteAgent(r)
    BY <2>3, <1>1, RemoveWrites
  <2> QED BY <2>1, <2>2, <2>3, <1>1, ConfigWriters
<1>2. IInv /\ [Next]_vars => [\A v \in Versions : Present(v) /\ (~Writable(v) \/ Active(v)) =>
                                  config'[v] = config[v] \/ status'[v] = "gone"]_vars
  BY <1>1
<1> QED BY <1>2, Invariance, PTL DEF Spec, ConfigFrozen

(* insertVersionFromPromptsTx: the flag and the bindings that a fork gets  *)
(* are those its parent has at that moment.                                *)
THEOREM ForksAreWhole == Spec => ForkIsWhole
<1>1. ASSUME IInv, [Next]_vars, NEW v \in Versions, parent'[v] # parent[v], parent'[v] # None
      PROVE  config'[v] = config[parent'[v]]
  <2>1. CASE \E r \in Requests : CommitFork(r)
    BY <2>1, <1>1, ForkWrites DEF IInv, Sound, Tables
  <2>2. CASE \E r \in Requests : CommitConfig(r)
    BY <2>2, <1>1, ConfigWrites
  <2>3. CASE \E r \in Requests : CommitDelete(r) \/ CommitDeleteAgent(r)
    BY <2>3, <1>1, RemoveWrites
  <2> QED BY <2>1, <2>2, <2>3, <1>1, ConfigWriters
<1>2. IInv /\ [Next]_vars => [\A v \in Versions : parent'[v] # parent[v] /\ parent'[v] # None =>
                                  config'[v] = config[parent'[v]]]_vars
  BY <1>1
<1> QED BY <1>2, Invariance, PTL DEF Spec, ForkIsWhole

-----------------------------------------------------------------------------
(* Bindings have no cycle.  A version that is nobody's target is reached   *)
(* from nowhere, so edges out of it close no cycle; that only such         *)
(* versions get new targets is what the statuses are for.                  *)

NoSelfReach == \A v \in Versions : ~Reaches(v, v)

LEMMA UntargetedIsUnreached ==
  ASSUME Tables, NEW z \in Versions, \A u \in Versions : z \notin config[u].targets
  PROVE  \A u \in Versions : ~Reaches(u, z)
<1> DEFINE S == Versions \ {z}
<1>1. \A u \in Versions : config[u].targets \subseteq S
  BY DEF Tables, Config
<1> QED BY <1>1 DEF Reaches, ClosedUnderTargets

LEMMA FewerTargets ==
  ASSUME NoSelfReach, \A u \in Versions : config'[u].targets \subseteq config[u].targets
  PROVE  NoSelfReach'
<1>1. SUFFICES ASSUME NEW v \in Versions PROVE ~Reaches(v, v)'
  BY DEF NoSelfReach
<1>2. PICK S \in SUBSET Versions : config[v].targets \subseteq S /\ ClosedUnderTargets(S) /\ v \notin S
  BY DEF NoSelfReach, Reaches
<1>3. config'[v].targets \subseteq S /\ \A u \in S : config'[u].targets \subseteq S
  BY <1>2 DEF ClosedUnderTargets
<1> QED BY <1>2, <1>3 DEF Reaches, ClosedUnderTargets

LEMMA TargetsOfUntargeted ==
  ASSUME NoSelfReach, Tables', NEW z \in Versions, \A u \in Versions : z \notin config'[u].targets,
         \A u \in Versions \ {z} : config'[u].targets \subseteq config[u].targets
  PROVE  NoSelfReach'
<1>1. SUFFICES ASSUME NEW v \in Versions PROVE ~Reaches(v, v)'
  BY DEF NoSelfReach
<1>2. CASE v = z
  <2> DEFINE S == Versions \ {z}
  <2>1. \A u \in Versions : config'[u].targets \subseteq S
    BY DEF Tables, Config
  <2> QED BY <2>1, <1>2 DEF Reaches, ClosedUnderTargets
<1>3. CASE v # z
  <2>1. PICK S \in SUBSET Versions : config[v].targets \subseteq S /\ ClosedUnderTargets(S) /\ v \notin S
    BY DEF NoSelfReach, Reaches
  <2> DEFINE T == S \ {z}
  <2>2. config'[v].targets \subseteq T /\ \A u \in T : config'[u].targets \subseteq T
    BY <2>1, <1>3 DEF ClosedUnderTargets
  <2> QED BY <2>1, <2>2 DEF Reaches, ClosedUnderTargets
<1> QED BY <1>2, <1>3

(* AddBinding (subagent.go): no version ever calls itself through its      *)
(* bindings, and the recursive walk finds nothing to refuse.               *)
THEOREM BindingsHaveNoCycle == Spec => []NoCycle
<1>1. Init => NoSelfReach
  <2>1. ASSUME Init, NEW v \in Versions PROVE ~Reaches(v, v)
    <3> DEFINE S == {}
    <3>1. config[v].targets \subseteq S /\ S \in SUBSET Versions /\ \A u \in S : FALSE
      BY <2>1 DEF Init, Plain
    <3> QED BY <3>1 DEF Reaches, ClosedUnderTargets
  <2> QED BY <2>1 DEF NoSelfReach
<1>2. ASSUME IInv, IInv', NoSelfReach, [Next]_vars PROVE NoSelfReach'
  <2>t. Tables /\ Tables' /\ TargetsRunnable
    BY <1>2 DEF IInv, Sound
  <2>1. CASE \E r \in Requests : CommitFork(r)
    <3>1. PICK v \in Versions, w \in Versions : /\ status[w] = "new" /\ v # w
                                                /\ config' = [config EXCEPT ![w] = config[v]]
      BY <2>1, <1>2, ForkWrites
    <3>2. \A u \in Versions : w \notin config[u].targets
      BY <3>1, <2>t DEF TargetsRunnable, Runnable
    <3>3. config'[w] = config[v] /\ \A u \in Versions \ {w} : config'[u] = config[u]
      BY <3>1, <2>t DEF Tables
    <3> QED BY <3>2, <3>3, <2>t, <1>2, TargetsOfUntargeted
  <2>2. CASE \E r \in Requests : CommitConfig(r)
    <3>1. PICK v \in Versions, w \in Versions \cup {None} :
             /\ Writable(v)
             /\ \A u \in Versions \ {v} : config'[u] = config[u]
             /\ \/ config'[v].targets \subseteq config[v].targets
                \/ Runnable(w) /\ w # v /\ config'[v].targets = config[v].targets \cup {w}
      BY <2>2, <1>2, ConfigWrites
    <3>2. \A u \in Versions : v \notin config[u].targets
      BY <3>1, <2>t DEF TargetsRunnable, Runnable, Writable
    <3>3. \A u \in Versions : v \notin config'[u].targets
      BY <3>1, <3>2
    <3> QED BY <3>1, <3>3, <2>t, <1>2, TargetsOfUntargeted
  <2>3. CASE \E r \in Requests : CommitDelete(r) \/ CommitDeleteAgent(r)
    BY <2>3, <1>2, RemoveWrites, FewerTargets
  <2>4. CASE config' = config
    BY <2>4, <1>2, FewerTargets
  <2> QED BY <2>1, <2>2, <2>3, <2>4, <1>2, ConfigWriters
<1>3. ASSUME IInv, NoSelfReach PROVE NoCycle
  <2>1. ASSUME NEW r \in Requests, req[r].op = "bind", Runnable(req[r].w)
        PROVE  ~Reaches(req[r].w, req[r].v)
    <3>1. Tables /\ TargetsRunnable /\ Held(r)
      BY <1>3 DEF IInv, Sound, Open
    <3>2. req[r].v \in Versions /\ req[r].w \in Versions /\ Writable(req[r].v)
      BY <2>1, <3>1 DEF Held
    <3>3. \A u \in Versions : req[r].v \notin config[u].targets
      BY <3>1, <3>2 DEF TargetsRunnable, Runnable, Writable
    <3> QED BY <3>1, <3>2, <3>3, UntargetedIsUnreached
  <2> QED BY <2>1, <1>3 DEF NoCycle, NoSelfReach
<1> QED BY <1>1, <1>2, <1>3, Invariance, PTL DEF Spec
===============================================================================
