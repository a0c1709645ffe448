------------------------------ MODULE AgentConfig ------------------------------
(***************************************************************************)
(* The configuration of one agent from its discovery archive to the bundle *)
(* that makes its first version runnable.                                  *)
(*                                                                         *)
(* Source: internal/handler/wizard.go, the architecture editor of          *)
(* agent_detail.go, DownloadYAML in configurator.go, their queries in      *)
(* repository/agent.go and agent_version.go; outside the server,           *)
(* scripts/process_pending_alphas.sh, generate_alpha.sh and seed_bundle.py.*)
(*                                                                         *)
(* An edit is three statements in no transaction: the status is read       *)
(* (requireEditable), the whole config is read and changed in memory, and  *)
(* the whole config is written.  Each is a step here.                      *)
(***************************************************************************)
EXTENDS FlowMap

CONSTANTS
    Archives,    \* archives people upload
    Bodies,      \* workflows a WorkflowUpdate may carry
    Slugs,       \* skill ids a name is turned into
    Suffixed,    \* for a slug, ids with a random suffix
    Editors,     \* open requests of the editor
    Generators,  \* runs of generate_alpha.sh; "drainer" is the one of cron
    MaxEdits,    \* edits in a behaviour, for each archive an agent is made from
    MaxFaults    \* generations that fail

(* An archive and a body are read into the ids and lines there are.        *)
ASSUME ConfigAssumption ==
    /\ \A a \in Archives :
         /\ a.endpoints \subseteq Endpoints /\ DOMAIN a.skills \subseteq SkillIds
         /\ \A s \in DOMAIN a.skills : a.skills[s].external \in BOOLEAN /\ a.skills[s].suggested \subseteq Endpoints
         /\ \A f \in DOMAIN a.flows : a.flows[f].workflow \subseteq Line /\ a.flows[f].used \in Seq(SkillIds)
    /\ \A w \in Bodies : w \subseteq Line
    /\ Slugs \subseteq SkillIds
    /\ Suffixed \in [Slugs -> SUBSET SkillIds]
    /\ MaxEdits \in [Archives -> Nat] /\ MaxFaults \in Nat

VARIABLES
    status,   \* of the root version
    zip,      \* agents.discovery_zip
    config,   \* agent_versions.flow_map_config
    editor,   \* the edits under way
    gen,      \* the generations under way
    landed,   \* agents.architecture and the prompts of the root version
    edits, faults

vars == <<status, zip, config, editor, gen, landed, edits, faults>>

Flow == [included : BOOLEAN, workflow : SUBSET Line]
Statuses == {"none", "INITIALIZING", "PENDING", "READY"}

IsConfig(c) ==
    /\ DOMAIN c = {"endpoints", "skills", "flows"}
    /\ c.endpoints \subseteq Endpoints
    /\ DOMAIN c.skills \subseteq SkillIds /\ \A s \in DOMAIN c.skills : c.skills[s] \in Skill
    /\ \A f \in DOMAIN c.flows : /\ c.flows[f].included \in BOOLEAN
                                 /\ \A l \in c.flows[f].workflow : l \in Line

TypeOK ==
    /\ status \in Statuses
    /\ status = "none" \/ IsConfig(config)
    /\ \A e \in Editors : /\ editor[e].pc \in {"idle", "load", "save"}
                          /\ editor[e].pc = "save" => IsConfig(editor[e].config)
    /\ \A g \in Generators : gen[g].pc \in {"idle", "generate", "seed", "land"}
    /\ edits \in Nat /\ faults \in 0 .. MaxFaults

Idle == [pc |-> "idle", config |-> None]
IdleGen == [pc |-> "idle", bundle |-> None]

Init ==
    /\ status = "none" /\ zip = None /\ config = None /\ landed = None
    /\ editor = [e \in Editors |-> Idle]
    /\ gen = [g \in Generators |-> IdleGen]
    /\ edits = 0 /\ faults = 0
-----------------------------------------------------------------------------
(* The wizard: the archive is parsed before anything is written, and the   *)
(* agent, its root version and the archive are written in one transaction. *)
Submit(a) ==
    /\ status = "none"
    /\ Parseable(a)
    /\ status' = "INITIALIZING" /\ zip' = a /\ config' = Unvalidated(a)
    /\ UNCHANGED <<editor, gen, landed, edits, faults>>

(* requireEditable: the first statement of every write handler.            *)
Editable == status = "INITIALIZING"
RequireEditable(e) ==
    /\ editor[e].pc = "idle"
    /\ Editable /\ edits < MaxEdits[zip]
    /\ editor' = [editor EXCEPT ![e].pc = "load"]
    /\ edits' = edits + 1
    /\ UNCHANGED <<status, zip, config, gen, landed, faults>>

(* loadConfigForAgent, then the change in memory: a handler has one config *)
(* to write, or none when it refuses.                                      *)
Loaded(e, configs) ==
    /\ IF configs = {} THEN editor' = [editor EXCEPT ![e] = Idle]
       ELSE \E c \in configs : editor' = [editor EXCEPT ![e] = [pc |-> "save", config |-> c]]
    /\ UNCHANGED <<status, zip, config, gen, landed, edits, faults>>

With(f, x, v) == [y \in DOMAIN f \cup {x} |-> IF y = x THEN v ELSE f[y]]
Without(f, x) == [y \in DOMAIN f \ {x} |-> f[y]]

FlowIncluded(e, f, included) ==
    Loaded(e, IF f \in DOMAIN config.flows THEN {[config EXCEPT !.flows[f].included = included]} ELSE {})

WorkflowUpdate(e, f, w) ==
    Loaded(e, IF f \in DOMAIN config.flows /\ Parses(w) /\ Refs(w) \subseteq DOMAIN config.skills
              THEN {[config EXCEPT !.flows[f].workflow = w]} ELSE {})

(* parseSkillForm: an external skill suggests no endpoint, another one only*)
(* endpoints of this agent.                                                *)
Forms == [external : BOOLEAN, suggested : SUBSET Endpoints]
FormIsKnown(form) == form.external \/ form.suggested \subseteq config.endpoints
Suggested(form) == IF form.external THEN {} ELSE form.suggested

UniqueSkillID(slug, taken) == IF slug \notin taken THEN {slug} ELSE Suffixed[slug] \ taken

SkillCreate(e, slug, form) ==
    Loaded(e, {[config EXCEPT !.skills =
                  With(@, s, [origin |-> "custom", external |-> form.external, suggested |-> Suggested(form)])] :
                s \in IF FormIsKnown(form) THEN UniqueSkillID(slug, DOMAIN config.skills) ELSE {}})

SkillUpdate(e, s, form) ==
    Loaded(e, IF s \in DOMAIN config.skills /\ FormIsKnown(form)
              THEN {[config EXCEPT !.skills[s].external = form.external, !.skills[s].suggested = Suggested(form)]}
              ELSE {})

CustomOnly(s) ==   \* mutant: the workflows are not looked at
    s \in DOMAIN config.skills /\ config.skills[s].origin = "custom"
Deletable(s) ==
    /\ s \in DOMAIN config.skills
    /\ config.skills[s].origin = "custom"
    /\ \A f \in DOMAIN config.flows : s \notin Refs(config.flows[f].workflow)
SkillDelete(e, s) == Loaded(e, IF Deletable(s) THEN {[config EXCEPT !.skills = Without(@, s)]} ELSE {})

(* saveConfigForAgent writes the whole config and looks at nothing.        *)
Save(e) ==
    /\ editor[e].pc = "save"
    /\ config' = editor[e].config
    /\ editor' = [editor EXCEPT ![e] = Idle]
    /\ UNCHANGED <<status, zip, gen, landed, edits, faults>>

Finalize ==
    /\ status = "INITIALIZING"
    /\ status' = "PENDING"
    /\ UNCHANGED <<zip, config, editor, gen, landed, edits, faults>>
-----------------------------------------------------------------------------
(* generate_alpha.sh: the drainer lists PENDING versions, a person names   *)
(* any version.                                                            *)
ListedOnce(g) ==   \* mutant: the drainer does not list a version again that failed
    IF g = "drainer" THEN status = "PENDING" /\ faults = 0 ELSE status # "none"
Listed(g) == IF g = "drainer" THEN status = "PENDING" ELSE status # "none"
StartGeneration(g) ==
    /\ gen[g].pc = "idle"
    /\ Listed(g)
    /\ gen' = [gen EXCEPT ![g].pc = "generate"]
    /\ UNCHANGED <<status, zip, config, editor, landed, edits, faults>>

(* What aikdm makes of the config.yaml it is served: a tool for each       *)
(* endpoint, a prompt for each internal skill, an action for each external *)
(* one, and a main prompt that tells the included flows.                   *)
Bundle(c) ==
    [tools |-> c.endpoints,
     skills |-> {s \in DOMAIN c.skills : ~c.skills[s].external},
     actions |-> {s \in DOMAIN c.skills : c.skills[s].external},
     flows |-> {c.flows[f].workflow : f \in {x \in DOMAIN c.flows : c.flows[x].included}}]

Generate(g) ==
    /\ gen[g].pc = "generate"
    /\ gen' = [gen EXCEPT ![g] = [pc |-> "seed", bundle |-> Bundle(config)]]
    /\ UNCHANGED <<status, zip, config, editor, landed, edits, faults>>

(* aikdm, or a request of the script, fails: the version stays as it is.   *)
GenerationFails(g) ==
    /\ gen[g].pc # "idle" /\ faults < MaxFaults
    /\ gen' = [gen EXCEPT ![g] = IdleGen]
    /\ faults' = faults + 1
    /\ UNCHANGED <<status, zip, config, editor, landed, edits>>

(* seed_bundle.py refuses a version with prompts; then, in the same        *)
(* transaction but with no lock in between, it writes.                     *)
Seed(g) ==
    /\ gen[g].pc = "seed"
    /\ gen' = IF landed = None THEN [gen EXCEPT ![g].pc = "land"] ELSE [gen EXCEPT ![g] = IdleGen]
    /\ UNCHANGED <<status, zip, config, editor, landed, edits, faults>>

Land(g) ==
    /\ gen[g].pc = "land"
    /\ landed' = gen[g].bundle
    /\ status' = "READY"
    /\ gen' = [gen EXCEPT ![g] = IdleGen]
    /\ UNCHANGED <<zip, config, editor, edits, faults>>
-----------------------------------------------------------------------------
Change(e) ==
    /\ editor[e].pc = "load"
    /\ \/ \E f \in DOMAIN config.flows, b \in BOOLEAN : FlowIncluded(e, f, b)
       \/ \E f \in DOMAIN config.flows, w \in Bodies : WorkflowUpdate(e, f, w)
       \/ \E s \in Slugs, form \in Forms : SkillCreate(e, s, form)
       \/ \E s \in DOMAIN config.skills, form \in Forms : SkillUpdate(e, s, form)
       \/ \E s \in SkillIds : SkillDelete(e, s)
Run(g) == StartGeneration(g) \/ Generate(g) \/ Seed(g) \/ Land(g)

Next ==
    \/ \E a \in Archives : Submit(a)
    \/ \E e \in Editors : RequireEditable(e) \/ Change(e) \/ Save(e)
    \/ Finalize
    \/ \E g \in Generators : Run(g) \/ GenerationFails(g)

Spec == Init /\ [][Next]_vars

(* Cron starts the drainer again and again, and aikdm ends.                *)
FairSpec == Spec /\ WF_vars(Run("drainer"))
-----------------------------------------------------------------------------
(* Whatever edits race or are lost, and whatever is deleted meanwhile: a   *)
(* skill the editor reads in a stored workflow is one of the same config,  *)
(* unless the pattern of the checks does not see it (a blank before the    *)
(* bracket), and a skill suggests only endpoints of its config.  With the  *)
(* same exception, the bundle has a prompt or an action for every skill its*)
(* flows use.                                                              *)
ConfigResolves(c) ==
    /\ \A f \in DOMAIN c.flows :
         LET w == c.flows[f].workflow IN SkillsOf(w) \subseteq DOMAIN c.skills \cup Unseen(w)
    /\ \A s \in DOMAIN c.skills : ~c.skills[s].external => c.skills[s].suggested \subseteq c.endpoints
RefsResolve ==
    /\ status # "none" => ConfigResolves(config)
    /\ landed # None => \A w \in landed.flows :
                            SkillsOf(w) \subseteq landed.skills \cup landed.actions \cup Unseen(w)

(* The same without the exception: false, as WorkflowUpdate accepts        *)
(* "s_x [x]" whatever x is.                                                *)
EveryRefResolves ==
    status # "none" =>
        \A f \in DOMAIN config.flows : SkillsOf(config.flows[f].workflow) \subseteq DOMAIN config.skills

(* The archive an agent was made from: each of its workflows was normalized*)
(* soundly, and a flow that only lists skills leads from start through each*)
(* of them to the end.                                                     *)
SuccessorsOf(E, S) == {e.to : e \in {x \in E : x.from \in S}}
ReadSoundly ==
    zip # None => \A f \in DOMAIN zip.flows :
        /\ NormalizeIsSound(Source(zip.flows[f]))
        /\ zip.flows[f].workflow = {} =>
             LET E == EdgesOf(LinearFallback(zip.flows[f].used))
                 used == {NodeOf[zip.flows[f].used[i]] : i \in DOMAIN zip.flows[f].used}
             IN  \A n \in used \cup {"start"} :
                    /\ SuccessorsOf(E, {n}) \cap (used \cup {"e"}) # {}
                    /\ n # "start" => \E e \in E : e.to = n

(* A finalized version becomes runnable, however often generating fails,   *)
(* whoever else generates or edits meanwhile.                              *)
AlphaLands == status = "PENDING" ~> status = "READY"

(* agent_detail.go 467-470: "so a stale tab or hand-crafted request cannot *)
(* mutate a post-finalize agent".                                          *)
FrozenOnceFinalized == [][status \notin {"none", "INITIALIZING"} => config' = config]_vars
=============================================================================
