----------------------------- MODULE AgentVersions -----------------------------
(***************************************************************************)
(* The versions of agents: their statuses, the chain of forks, the agent   *)
(* tool's flag and sub-agent bindings, and the evals and training sessions *)
(* that run on a version while its configuration must not move.            *)
(*                                                                         *)
(* Source: open-bbcd/internal/repository/agent_version.go, agent.go,       *)
(* subagent.go and the Create functions of eval.go, training_session.go,   *)
(* under the handlers deploy.go, configurator.go and agent_detail.go, and  *)
(* scripts/seed_bundle.py, which lands bundles from outside.               *)
(*                                                                         *)
(* Requests meet only at rows of agent_versions.  A row is locked by an    *)
(* open transaction either FOR SHARE (forks, creation of runs) or by an    *)
(* UPDATE or FOR NO KEY UPDATE (configuration writes, the demotion of a    *)
(* deploy); a statement waits for a lock it conflicts with and then reads  *)
(* the row again.  An operation of one statement is one step.              *)
(***************************************************************************)
CONSTANTS
    Agents, Versions,   \* ids, each used once
    Requests,           \* concurrent requests, of any kind
    Runs,               \* evals and training sessions active at once
    None

ASSUME AgentVersionsAssumption ==
    None \notin Agents \cup Versions

VARIABLES
    status,    \* agent_versions.status
    agent,     \* agent_versions.agent_id
    parent,    \* agent_versions.parent_version_id
    config,    \* agent_tool_enabled and the targets in agent_version_subagent
    runs,      \* the version of an eval or training session PENDING or IN_PROGRESS
    req        \* the requests

vars == <<status, agent, parent, config, runs, req>>

Statuses == {"INITIALIZING", "PENDING", "DRAFT", "READY", "DEPLOYED"}
Config == [enabled : BOOLEAN, targets : SUBSET Versions]
Plain == [enabled |-> FALSE, targets |-> {}]
Edits == {"enable", "disable", "bind", "unbind"}
IdleRequest == [pc |-> "idle", op |-> "none", v |-> None, w |-> None, flag |-> FALSE]

TypeOK ==
    /\ status \in [Versions -> Statuses \cup {"new", "gone"}]
    /\ agent \in [Versions -> Agents \cup {None}]
    /\ parent \in [Versions -> Versions \cup {None}]
    /\ config \in [Versions -> Config]
    /\ runs \in [Runs -> Versions \cup {None}]
    /\ req \in [Requests -> [
           pc : {"idle", "scan", "demote", "promote", "insert", "copy", "delete", "drop", "config", "run"},
           op : Edits \cup {"DRAFT", "READY", "none"},
           v : Versions \cup {None}, w : Versions \cup {None}, flag : BOOLEAN]]

Init ==
    /\ status = [v \in Versions |-> "new"]
    /\ agent = [v \in Versions |-> None]
    /\ parent = [v \in Versions |-> None]
    /\ config = [v \in Versions |-> Plain]
    /\ runs = [x \in Runs |-> None]
    /\ req = [r \in Requests |-> IdleRequest]

-----------------------------------------------------------------------------
Present(v) == status[v] \notin {"new", "gone"}
Fresh(v) == status[v] = "new" /\ \A q \in Requests : req[q].w # v
Siblings(v) == {u \in Versions \ {v} : agent[u] = agent[v]}
Mine(v) == Siblings(v) \cup {v}
Forks(v) == {u \in Versions : Present(u) /\ parent[u] = v}
Active(v) == \E x \in Runs : runs[x] = v
Writable(v) == status[v] \in {"INITIALIZING", "DRAFT"}
Runnable(v) == status[v] \in {"READY", "DEPLOYED"}
Callers(v) == {u \in Versions : v \in config[u].targets}

(* What the recursive query of AddBinding finds below v: the least set     *)
(* with the targets of v that is closed under "has a binding to".          *)
ClosedUnderTargets(S) == \A u \in S : config[u].targets \subseteq S
Reaches(v, u) ==
    \A S \in SUBSET Versions : config[v].targets \subseteq S /\ ClosedUnderTargets(S) => u \in S

(* The rows the open transaction of r has locked.                          *)
OnlyRunsShare(r) == IF req[r].pc = "run" THEN {req[r].v} ELSE {}   \* mutant: a fork locks nothing
OnlyForksShare(r) ==   \* mutant: a run is created without FOR SHARE
    IF req[r].pc \in {"insert", "copy"} THEN {req[r].v} ELSE {}
Shares(r) == IF req[r].pc \in {"insert", "copy", "run"} THEN {req[r].v} ELSE {}
ConfigRows(op, v, w) == IF op = "bind" THEN {v, w} ELSE {v}
OnlyDeployWrites(r) == IF req[r].pc = "promote" THEN {req[r].w} ELSE {}   \* mutant: config is not locked
Writes(r) ==
    CASE req[r].pc = "config" -> ConfigRows(req[r].op, req[r].v, req[r].w)
      [] req[r].pc = "promote" -> {req[r].w}
      [] OTHER -> {}
FreeToShare(v, r) == \A q \in Requests \ {r} : v \notin Writes(q)
FreeToWrite(v, r) == \A q \in Requests \ {r} : v \notin Writes(q) \cup Shares(q)
Unlocked(v) == \A q \in Requests : v \notin Writes(q) \cup Shares(q)

Idle(r) == req[r].pc = "idle"
GoTo(r, pc) == req' = [req EXCEPT ![r].pc = pc]
End(r) == req' = [req EXCEPT ![r] = IdleRequest]

(* A refusal, a database error or a client that leaves ends a request; its *)
(* transaction is rolled back.                                             *)
Rollback(r) == ~Idle(r) /\ End(r) /\ UNCHANGED <<status, agent, parent, config, runs>>

-----------------------------------------------------------------------------
(* The root of an agent: the wizard makes it, finalize queues it, a bundle *)
(* lands on it; with --force a bundle lands on any version.                *)
CreateFromWizard(v, a) ==
    /\ Fresh(v) /\ \A u \in Versions : agent[u] # a
    /\ status' = [status EXCEPT ![v] = "INITIALIZING"]
    /\ agent' = [agent EXCEPT ![v] = a]
    /\ UNCHANGED <<parent, config, runs, req>>

Finalize(v) ==
    /\ status[v] = "INITIALIZING" /\ parent[v] = None
    /\ Unlocked(v)
    /\ status' = [status EXCEPT ![v] = "PENDING"]
    /\ UNCHANGED <<agent, parent, config, runs, req>>

LandBundle(v) ==
    /\ Present(v)
    /\ Unlocked(v)
    /\ status' = [status EXCEPT ![v] = "READY"]
    /\ UNCHANGED <<agent, parent, config, runs, req>>

-----------------------------------------------------------------------------
(* Deploy: read the status, demote whatever else is deployed, promote.     *)
(* The reads take no lock; a partial unique index keeps DEPLOYED single.   *)
StartDeploy(r, v) ==
    /\ Idle(r)
    /\ status[v] = "READY"
    /\ req' = [req EXCEPT ![r] = [IdleRequest EXCEPT !.pc = "scan", !.v = v]]
    /\ UNCHANGED <<status, agent, parent, config, runs>>

Deployed(S) == {u \in S : status[u] = "DEPLOYED"}

ScanDeployed(r) ==
    /\ req[r].pc = "scan"
    /\ LET found == Deployed(Siblings(req[r].v)) IN
        IF found = {} THEN GoTo(r, "promote")
        ELSE \E u \in found : req' = [req EXCEPT ![r].pc = "demote", ![r].w = u]
    /\ UNCHANGED <<status, agent, parent, config, runs>>

(* The row found is looked at again once it is free.  Until the commit the *)
(* demotion is seen by this transaction alone.                             *)
Demote(r) ==
    /\ req[r].pc = "demote"
    /\ FreeToWrite(req[r].w, r)
    /\ req' = [req EXCEPT ![r].pc = "promote",
                          ![r].w = IF status[@] = "DEPLOYED" THEN @ ELSE None]
    /\ UNCHANGED <<status, agent, parent, config, runs>>

NoDeployedIndex(v, demoted) == TRUE   \* mutant: agent_versions_one_deployed_per_agent is missing
DeployedIndexFree(v, demoted) == Deployed(Siblings(v)) \subseteq {demoted}

(* The promotion matches nothing when the version is gone by then; the     *)
(* transaction commits all the same.                                       *)
Promote(r) ==
    LET v == req[r].v
        demoted == [u \in Versions |-> IF u = req[r].w THEN "READY" ELSE status[u]]
    IN
    /\ req[r].pc = "promote"
    /\ FreeToWrite(v, r)
    /\ \/ Present(v) /\ DeployedIndexFree(v, req[r].w) /\ status' = [demoted EXCEPT ![v] = "DEPLOYED"]
       \/ ~Present(v) /\ status' = demoted
    /\ End(r)
    /\ UNCHANGED <<agent, parent, config, runs>>

Undeploy(v) ==
    /\ status[v] = "DEPLOYED"
    /\ Unlocked(v)
    /\ status' = [status EXCEPT ![v] = "READY"]
    /\ UNCHANGED <<agent, parent, config, runs, req>>

-----------------------------------------------------------------------------
(* insertVersionFromPromptsTx: a fork of v as DRAFT (SavePrompts) or READY *)
(* (LandPrompts, the end of a training session).  The flag and the         *)
(* bindings are copied by two statements.                                  *)
StartFork(r, v, w, as) ==
    /\ Idle(r)
    /\ Present(v) /\ FreeToShare(v, r)
    /\ Fresh(w)
    /\ req' = [req EXCEPT ![r] = [pc |-> "insert", op |-> as, v |-> v, w |-> w, flag |-> FALSE]]
    /\ UNCHANGED <<status, agent, parent, config, runs>>

(* parent_version_id is unique: a second fork waits for the first, then    *)
(* fails.                                                                  *)
NoParentIndex(v) == TRUE   \* mutant: parent_version_id is not unique
ParentIndexFree(v) == Forks(v) = {} /\ \A q \in Requests : ~(req[q].pc = "copy" /\ req[q].v = v)

InsertFork(r) ==
    /\ req[r].pc = "insert"
    /\ ParentIndexFree(req[r].v)
    /\ req' = [req EXCEPT ![r].pc = "copy", ![r].flag = config[req[r].v].enabled]
    /\ UNCHANGED <<status, agent, parent, config, runs>>

CommitFork(r) ==
    /\ req[r].pc = "copy"
    /\ LET f == req[r] IN
        /\ status' = [status EXCEPT ![f.w] = f.op]
        /\ agent' = [agent EXCEPT ![f.w] = agent[f.v]]
        /\ parent' = [parent EXCEPT ![f.w] = f.v]
        /\ config' = [config EXCEPT ![f.w] = [enabled |-> f.flag, targets |-> config[f.v].targets]]
    /\ End(r)
    /\ UNCHANGED runs

-----------------------------------------------------------------------------
(* Deleting a version: checks first, without a lock, then the DELETE,      *)
(* which the foreign keys of forks and bindings guard; bindings of the     *)
(* version and evals of it go with it (a run that is a training session    *)
(* makes the DELETE fail: Rollback).                                       *)
RefsOfForks(v) == Forks(v) # {}   \* mutant: the target of a binding is no foreign key
Referenced(v) == Forks(v) # {} \/ Callers(v) # {}

StartDelete(r, v) ==
    /\ Idle(r)
    /\ Present(v) /\ status[v] # "DEPLOYED"
    /\ Forks(v) = {} /\ Callers(v) = {}
    /\ req' = [req EXCEPT ![r] = [IdleRequest EXCEPT !.pc = "delete", !.v = v]]
    /\ UNCHANGED <<status, agent, parent, config, runs>>

Remove(S) ==
    /\ status' = [v \in Versions |-> IF v \in S /\ Present(v) THEN "gone" ELSE status[v]]
    /\ parent' = [v \in Versions |-> IF v \in S THEN None ELSE parent[v]]
    /\ config' = [v \in Versions |-> IF v \in S THEN Plain ELSE config[v]]
    /\ runs' = [x \in Runs |-> IF runs[x] \in S THEN None ELSE runs[x]]

CommitDelete(r) ==
    /\ req[r].pc = "delete"
    /\ FreeToWrite(req[r].v, r)
    /\ ~Referenced(req[r].v)
    /\ Remove({req[r].v})
    /\ End(r)
    /\ UNCHANGED agent

(* Deleting an agent, named here by its root: everything of it goes, its   *)
(* own bindings first.                                                     *)
OutsideCallers(v) == (UNION {Callers(u) : u \in Mine(v)}) \ Mine(v)

StartDeleteAgent(r, v) ==
    /\ Idle(r)
    /\ Present(v) /\ parent[v] = None
    /\ Deployed(Mine(v)) = {} /\ OutsideCallers(v) = {}
    /\ req' = [req EXCEPT ![r] = [IdleRequest EXCEPT !.pc = "drop", !.v = v]]
    /\ UNCHANGED <<status, agent, parent, config, runs>>

CommitDeleteAgent(r) ==
    /\ req[r].pc = "drop"
    /\ \A u \in Mine(req[r].v) : FreeToWrite(u, r)
    /\ OutsideCallers(req[r].v) = {}
    /\ Remove(Mine(req[r].v))
    /\ End(r)
    /\ UNCHANGED agent

-----------------------------------------------------------------------------
(* The configuration of the agent tool: beginCallerWrite locks the caller, *)
(* and the target of a new binding, and checks the caller's status; the    *)
(* other checks and the write follow in the same transaction.              *)
StartConfig(r, op, v, w) ==
    /\ Idle(r)
    /\ v # w
    /\ op \in {"enable", "disable"} <=> w = None
    /\ \A u \in ConfigRows(op, v, w) : Present(u) /\ FreeToWrite(u, r)
    /\ Writable(v)
    /\ req' = [req EXCEPT ![r] = [pc |-> "config", op |-> op, v |-> v, w |-> w, flag |-> FALSE]]
    /\ UNCHANGED <<status, agent, parent, config, runs>>

AnyTarget(v, w) == w \notin config[v].targets /\ ~Reaches(w, v)   \* mutant: drafts can be bound
Bindable(v, w) == Runnable(w) /\ w \notin config[v].targets /\ ~Reaches(w, v)

CommitConfig(r) ==
    LET op == req[r].op
        v == req[r].v
        w == req[r].w
    IN
    /\ req[r].pc = "config"
    /\ ~Active(v)
    /\ \/ op = "enable" /\ config' = [config EXCEPT ![v].enabled = TRUE]
       \/ op = "disable" /\ config' = [config EXCEPT ![v].enabled = FALSE]
       \/ op = "bind" /\ Bindable(v, w) /\ config' = [config EXCEPT ![v].targets = @ \cup {w}]
       \/ op = "unbind" /\ w \in config[v].targets /\ config' = [config EXCEPT ![v].targets = @ \ {w}]
    /\ End(r)
    /\ UNCHANGED <<status, agent, parent, runs>>

-----------------------------------------------------------------------------
(* The creation of an eval, or of a training session, whose version is     *)
(* that of its eval: the flag is read FOR SHARE, and the row inserted.     *)
StartRun(r, v) ==
    /\ Idle(r)
    /\ Present(v) /\ FreeToShare(v, r)
    /\ ~config[v].enabled
    /\ req' = [req EXCEPT ![r] = [IdleRequest EXCEPT !.pc = "run", !.v = v]]
    /\ UNCHANGED <<status, agent, parent, config, runs>>

InsertRun(r) ==
    /\ req[r].pc = "run"
    /\ \E x \in Runs : runs[x] = None /\ runs' = [runs EXCEPT ![x] = req[r].v]
    /\ End(r)
    /\ UNCHANGED <<status, agent, parent, config>>

(* A result or a failure is reported.                                      *)
EndRun(x) ==
    /\ runs[x] # None
    /\ runs' = [runs EXCEPT ![x] = None]
    /\ UNCHANGED <<status, agent, parent, config, req>>

-----------------------------------------------------------------------------
Next ==
    \/ \E v \in Versions :
        \/ \E a \in Agents : CreateFromWizard(v, a)
        \/ Finalize(v) \/ LandBundle(v) \/ Undeploy(v)
    \/ \E r \in Requests :
        \/ ScanDeployed(r) \/ Demote(r) \/ Promote(r)
        \/ InsertFork(r) \/ CommitFork(r)
        \/ CommitDelete(r) \/ CommitDeleteAgent(r)
        \/ CommitConfig(r) \/ InsertRun(r) \/ Rollback(r)
        \/ \E v \in Versions :
            \/ StartDeploy(r, v) \/ StartDelete(r, v) \/ StartDeleteAgent(r, v) \/ StartRun(r, v)
            \/ \E w \in Versions, as \in {"DRAFT", "READY"} : StartFork(r, v, w, as)
            \/ \E op \in Edits, w \in Versions \cup {None} : StartConfig(r, op, v, w)
    \/ \E x \in Runs : EndRun(x)

Spec == Init /\ [][Next]_vars

-----------------------------------------------------------------------------
(* Properties.                                                             *)

(* An agent serves one version at most, whatever deploys race: each reads  *)
(* the one to demote before it can know what the others promote.           *)
OneDeployed == \A u, v \in Versions : u # v /\ agent[u] = agent[v]
    => ~(status[u] = "DEPLOYED" /\ status[v] = "DEPLOYED")

(* agent_version.go, Delete: "the chain is a linked list via               *)
(* parent_version_id and deleting a middle node would orphan the child".   *)
(* A version has one fork at most, and what it was forked from is there.   *)
ChainIsLinear == \A v \in Versions : Present(v) =>
    /\ \A t, u \in Forks(v) : t = u
    /\ parent[v] # None => Present(parent[v])

(* A binding always leads to a version that can be run, although targets   *)
(* are demoted and deleted while bindings are added and copied.            *)
TargetsRunnable == \A v \in Versions : \A w \in config[v].targets : Runnable(w)

(* No version can call itself through its bindings, and the walk of        *)
(* AddBinding never finds a cycle, as its comment says ("Defence in        *)
(* depth"): the statuses already rule it out.                              *)
NoCycle ==
    /\ \A v \in Versions : ~Reaches(v, v)
    /\ \A r \in Requests : req[r].op = "bind" /\ Runnable(req[r].w) => ~Reaches(req[r].w, req[r].v)

(* The configuration of a version that was queued, is runnable or is being *)
(* evaluated does not change as long as the version exists.                *)
ConfigFrozen ==
    [][\A v \in Versions : Present(v) /\ (~Writable(v) \/ Active(v)) =>
           config'[v] = config[v] \/ status'[v] = "gone"]_vars

(* A fork starts with the flag and the bindings its parent has when it is  *)
(* committed, not with halves of two configurations.                       *)
ForkIsWhole ==
    [][\A v \in Versions : parent'[v] # parent[v] /\ parent'[v] # None =>
           config'[v] = config[parent'[v]]]_vars

(* No eval or training session is active on a version with the agent tool: *)
(* it would score a configuration it was not started on.                   *)
RunsAreSingleAgent == \A v \in Versions : Active(v) => ~config[v].enabled

(* agent_version.go, Deploy: "promotes versionID to DEPLOYED, demoting any *)
(* other DEPLOYED version of the same agent".  A version deleted after the *)
(* status was read is not promoted, and what it replaces is demoted.       *)
DeployTakesEffect ==
    [][\A r \in Requests : req[r].pc = "promote" /\ req'[r].pc = "idle" /\ status' # status =>
           status'[req[r].v] = "DEPLOYED"]_vars
===============================================================================
