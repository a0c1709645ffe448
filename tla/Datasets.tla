------------------------------- MODULE Datasets -------------------------------
(***************************************************************************)
(* Dataset versions, the chat sessions they hold, the feedback that makes  *)
(* a session worth holding, and the lock a close puts on a session tree.   *)
(*                                                                         *)
(* Source: open-bbcd/internal/repository/dataset.go, feedback.go and       *)
(* ChatRepository.CreateChildSession (chat.go), under the handlers of      *)
(* internal/handler/chat.go, datasets.go and feedback.go.                  *)
(*                                                                         *)
(* The requests run side by side and meet only in PostgreSQL, at READ      *)
(* COMMITTED: a statement reads what is committed when it starts, and what *)
(* its transaction wrote; one that writes a row another open transaction   *)
(* wrote waits for its end and looks at the row again.  A step below is a  *)
(* statement, or two when what happens between them makes no difference.   *)
(*                                                                         *)
(* A session has one assistant message, whose feedback row is absent, bare *)
(* (it predates judge_criteria) or rated.  A child session is kept with    *)
(* the root of its tree.                                                   *)
(***************************************************************************)
EXTENDS Naturals, Sequences, FiniteSets

CONSTANTS
    Sets,                \* datasets
    Roots, Children,     \* chat sessions: of the user, of sub-agents
    Assigns, Unassigns, Closes, Raters, Spawns,   \* concurrent requests
    MaxVersions,         \* bound: versions of a dataset
    None

ASSUME DatasetsAssumption ==
    /\ IsFiniteSet(Roots) /\ IsFiniteSet(Children)
    /\ Roots \cap Children = {}
    /\ None \notin Sets \cup Roots
    /\ MaxVersions \in Nat

VARIABLES
    versions,  \* dataset_versions and dataset_version_sessions, by version_num
    locked,    \* chat_sessions with locked_at
    tree,      \* the root of a child session, None before it exists
    feedback,  \* chat_message_feedback
    assign, unassign, close, rate, spawn   \* the requests

vars == <<versions, locked, tree, feedback, assign, unassign, close, rate, spawn>>

Sessions == Roots \cup Children
Feedback == {"none", "bare", "up", "down"}
Version == [status : {"DRAFT", "CLOSED"}, members : SUBSET Roots]

IdleAssign == [pc |-> "idle", ds |-> None, s |-> None, num |-> 0]
IdleCheck == [pc |-> "idle", s |-> None]
IdleClose == [pc |-> "idle", ds |-> None, num |-> 0, purged |-> {},
              todo |-> {}, held |-> {}, seen |-> {}]
IdleSpawn == [pc |-> "idle", root |-> None]

TypeOK ==
    /\ \A d \in Sets : \A n \in DOMAIN versions[d] : versions[d][n] \in Version
    /\ locked \subseteq Sessions
    /\ tree \in [Children -> Roots \cup {None}]
    /\ feedback \in [Roots -> Feedback]
    /\ assign \in [Assigns -> [pc : {"idle", "other", "draft", "create", "inherit", "insert"},
                               ds : Sets \cup {None}, s : Roots \cup {None}, num : 0 .. MaxVersions]]
    /\ unassign \in [Unassigns -> [pc : {"idle", "delete"}, s : Roots \cup {None}]]
    /\ rate \in [Raters -> [pc : {"idle", "write"}, s : Roots \cup {None}]]
    /\ spawn \in [Spawns -> [pc : {"idle", "insert"}, root : Roots \cup {None}]]
    /\ close \in [Closes -> [pc : {"idle", "begin", "purge", "flip", "roots", "children"},
                             ds : Sets \cup {None}, num : 0 .. MaxVersions, purged : SUBSET Roots,
                             todo : SUBSET Sessions, held : SUBSET Sessions, seen : SUBSET Roots]]
    /\ \A c \in Closes : close[c].pc = "idle" => close[c].held = {} /\ close[c].purged = {}

Init ==
    /\ versions = [d \in Sets |-> <<>>]
    /\ locked = {}
    /\ tree = [k \in Children |-> None]
    /\ feedback \in [Roots -> {"none", "bare", "up"}]
    /\ assign = [a \in Assigns |-> IdleAssign]
    /\ unassign = [u \in Unassigns |-> IdleCheck]
    /\ close = [c \in Closes |-> IdleClose]
    /\ rate = [r \in Raters |-> IdleCheck]
    /\ spawn = [p \in Spawns |-> IdleSpawn]

-----------------------------------------------------------------------------
Drafts(d) == {n \in DOMAIN versions[d] : versions[d][n].status = "DRAFT"}
Closed(d) == {n \in DOMAIN versions[d] : versions[d][n].status = "CLOSED"}
Latest(nums) == CHOOSE n \in nums : \A m \in nums : m <= n

(* The row of s in version n of d is deleted by an open transaction.       *)
BeingPurged(d, n, s) ==
    \E c \in Closes : close[c].ds = d /\ close[c].num = n /\ s \in close[c].purged
Creating(d) == \E a \in Assigns : assign[a].pc = "inherit" /\ assign[a].ds = d

-----------------------------------------------------------------------------
(* AssignSessionToDraft.  Its reads are not in one transaction.            *)
GoTo(a, pc) == assign' = [assign EXCEPT ![a].pc = pc]
EndAssign(a) == assign' = [assign EXCEPT ![a] = IdleAssign]

StartAssign(a, d, s) ==
    /\ assign[a].pc = "idle"
    /\ s \notin locked
    /\ feedback[s] # "none"
    /\ assign' = [assign EXCEPT ![a] = [pc |-> "other", ds |-> d, s |-> s, num |-> 0]]
    /\ UNCHANGED <<versions, locked, tree, feedback, unassign, close, rate, spawn>>

InOtherSet(d, s) == \E e \in Sets \ {d} : \E n \in DOMAIN versions[e] : s \in versions[e][n].members

CheckOtherSet(a) ==
    /\ assign[a].pc = "other"
    /\ IF InOtherSet(assign[a].ds, assign[a].s) THEN EndAssign(a) ELSE GoTo(a, "draft")
    /\ UNCHANGED <<versions, locked, tree, feedback, unassign, close, rate, spawn>>

(* EnsureDraft: the draft there is, or, in the same transaction, a new one *)
(* with what the latest closed version holds.                              *)
FindDraft(a) ==
    /\ assign[a].pc = "draft"
    /\ LET open == Drafts(assign[a].ds) IN
        assign' = IF open = {} THEN [assign EXCEPT ![a].pc = "create"]
                  ELSE [assign EXCEPT ![a].pc = "insert", ![a].num = Latest(open)]
    /\ UNCHANGED <<versions, locked, tree, feedback, unassign, close, rate, spawn>>

(* The unique indexes (one DRAFT of a dataset, one version of a number)    *)
(* make a second creator wait for the first and then fail.                 *)
NoDraftIndex(d) == TRUE   \* mutant: datasets_one_draft_per_dataset is missing
DraftIndexFree(d) == Drafts(d) = {} /\ ~Creating(d)

CreateDraft(a) ==
    /\ assign[a].pc = "create"
    /\ DraftIndexFree(assign[a].ds)
    /\ Len(versions[assign[a].ds]) < MaxVersions
    /\ assign' = [assign EXCEPT ![a].pc = "inherit"]
    /\ UNCHANGED <<versions, locked, tree, feedback, unassign, close, rate, spawn>>

CreateRefused(a) ==
    /\ assign[a].pc = "create"
    /\ Drafts(assign[a].ds) # {}
    /\ EndAssign(a)
    /\ UNCHANGED <<versions, locked, tree, feedback, unassign, close, rate, spawn>>

Inherited(d) == IF Closed(d) = {} THEN {} ELSE versions[d][Latest(Closed(d))].members

InheritAndCommit(a) ==
    /\ assign[a].pc = "inherit"
    /\ LET d == assign[a].ds IN
        /\ versions' = [versions EXCEPT ![d] = Append(@, [status |-> "DRAFT", members |-> Inherited(d)])]
        /\ assign' = [assign EXCEPT ![a].pc = "insert", ![a].num = Len(versions[d]) + 1]
    /\ UNCHANGED <<locked, tree, feedback, unassign, close, rate, spawn>>

InsertMember(a) ==
    /\ assign[a].pc = "insert"
    /\ LET d == assign[a].ds  n == assign[a].num IN
        /\ ~BeingPurged(d, n, assign[a].s)
        /\ versions' = [versions EXCEPT ![d][n].members = @ \cup {assign[a].s}]
    /\ EndAssign(a)
    /\ UNCHANGED <<locked, tree, feedback, unassign, close, rate, spawn>>

(* The transaction of EnsureDraft fails.                                   *)
AbortAssign(a) ==
    /\ assign[a].pc = "inherit"
    /\ EndAssign(a)
    /\ UNCHANGED <<versions, locked, tree, feedback, unassign, close, rate, spawn>>

-----------------------------------------------------------------------------
(* UnassignSession: a read, then a delete of the rows in drafts.           *)
StartUnassign(u, s) ==
    /\ unassign[u].pc = "idle"
    /\ s \notin locked
    /\ unassign' = [unassign EXCEPT ![u] = [pc |-> "delete", s |-> s]]
    /\ UNCHANGED <<versions, locked, tree, feedback, assign, close, rate, spawn>>

DeleteMember(u) ==
    /\ unassign[u].pc = "delete"
    /\ LET s == unassign[u].s IN
        /\ \A d \in Sets : \A n \in Drafts(d) : ~BeingPurged(d, n, s)
        /\ versions' = [d \in Sets |-> [n \in DOMAIN versions[d] |->
               IF n \in Drafts(d) THEN [versions[d][n] EXCEPT !.members = @ \ {s}] ELSE versions[d][n]]]
    /\ unassign' = [unassign EXCEPT ![u] = IdleCheck]
    /\ UNCHANGED <<locked, tree, feedback, assign, close, rate, spawn>>

-----------------------------------------------------------------------------
(* FeedbackRepository.Upsert and Delete: a read of locked_at, then the     *)
(* write, in no transaction.                                               *)
StartRate(r, s) ==
    /\ rate[r].pc = "idle"
    /\ s \notin locked
    /\ rate' = [rate EXCEPT ![r] = [pc |-> "write", s |-> s]]
    /\ UNCHANGED <<versions, locked, tree, feedback, assign, unassign, close, spawn>>

WriteFeedback(r, value) ==
    /\ rate[r].pc = "write"
    /\ feedback' = [feedback EXCEPT ![rate[r].s] = value]
    /\ rate' = [rate EXCEPT ![r] = IdleCheck]
    /\ UNCHANGED <<versions, locked, tree, assign, unassign, close, spawn>>

-----------------------------------------------------------------------------
(* CreateChildSession: the root FOR SHARE, then the insert and the commit. *)
HeldByClose(s) == \E c \in Closes : s \in close[c].held
PlainRead(r) == TRUE   \* mutant: the root is read without FOR SHARE
ShareGranted(r) == ~HeldByClose(r)

LockRoot(p, r) ==
    /\ spawn[p].pc = "idle"
    /\ ShareGranted(r)
    /\ r \notin locked
    /\ spawn' = [spawn EXCEPT ![p] = [pc |-> "insert", root |-> r]]
    /\ UNCHANGED <<versions, locked, tree, feedback, assign, unassign, close, rate>>

InsertChild(p, k) ==
    /\ spawn[p].pc = "insert"
    /\ tree[k] = None
    /\ tree' = [tree EXCEPT ![k] = spawn[p].root]
    /\ spawn' = [spawn EXCEPT ![p] = IdleSpawn]
    /\ UNCHANGED <<versions, locked, feedback, assign, unassign, close, rate>>

AbortSpawn(p) ==
    /\ spawn[p].pc = "insert"
    /\ spawn' = [spawn EXCEPT ![p] = IdleSpawn]
    /\ UNCHANGED <<versions, locked, tree, feedback, assign, unassign, close, rate>>

-----------------------------------------------------------------------------
(* CloseDraft.  The handler looks the draft up; then, in one transaction:  *)
(* check status and criteria, purge, flip the status, lock the member      *)
(* roots, lock what is below them.                                         *)
StartClose(c, d) ==
    /\ close[c].pc = "idle"
    /\ Drafts(d) # {}
    /\ close' = [close EXCEPT ![c] = [IdleClose EXCEPT !.pc = "begin", !.ds = d, !.num = Latest(Drafts(d))]]
    /\ UNCHANGED <<versions, locked, tree, feedback, assign, unassign, rate, spawn>>

Members(c) == versions[close[c].ds][close[c].num].members \ close[c].purged

Released(c) == [close EXCEPT ![c] = IdleClose]

CheckDraft(c) ==
    /\ close[c].pc = "begin"
    /\ close' = IF /\ versions[close[c].ds][close[c].num].status = "DRAFT"
                   /\ \A s \in Members(c) : feedback[s] # "bare"
                THEN [close EXCEPT ![c].pc = "purge"] ELSE Released(c)
    /\ UNCHANGED <<versions, locked, tree, feedback, assign, unassign, rate, spawn>>

PurgeMembers(c) ==
    /\ close[c].pc = "purge"
    /\ LET gone == {s \in Members(c) : feedback[s] = "none"} IN
        /\ \A s \in gone : ~BeingPurged(close[c].ds, close[c].num, s)
        /\ close' = [close EXCEPT ![c].pc = "flip", ![c].purged = gone]
    /\ UNCHANGED <<versions, locked, tree, feedback, assign, unassign, rate, spawn>>

(* The version's row is ours until the commit.                             *)
HoldsVersion(c) == close[c].pc \in {"roots", "children"}

(* Then the first statement takes its snapshot, and waits row after row.   *)
FlipStatus(c) ==
    /\ close[c].pc = "flip"
    /\ \A b \in Closes \ {c} :
         HoldsVersion(b) => close[b].ds # close[c].ds \/ close[b].num # close[c].num
    /\ close' = [close EXCEPT ![c].pc = "roots", ![c].todo = Members(c) \ locked]
    /\ UNCHANGED <<versions, locked, tree, feedback, assign, unassign, rate, spawn>>

RowFree(c, s) ==
    /\ \A b \in Closes \ {c} : s \notin close[b].held
    /\ \A p \in Spawns : spawn[p].root # s

LockRow(c, s) ==
    /\ close[c].pc \in {"roots", "children"}
    /\ s \in close[c].todo
    /\ RowFree(c, s)
    /\ close' = [close EXCEPT ![c].todo = @ \ {s},
                              ![c].held = IF s \in locked THEN @ ELSE @ \cup {s}]
    /\ UNCHANGED <<versions, locked, tree, feedback, assign, unassign, rate, spawn>>

(* Second statement: a fresh snapshot of the members and what is below.    *)
Below(S) == {k \in Children : tree[k] \in S}

RootsOnly(c) == {}   \* mutant: the second statement is missing
ToDescend(c) == Below(Members(c)) \ locked

ScanChildren(c) ==
    /\ close[c].pc = "roots"
    /\ close[c].todo = {}
    /\ close' = [close EXCEPT ![c].pc = "children", ![c].todo = ToDescend(c), ![c].seen = Members(c)]
    /\ UNCHANGED <<versions, locked, tree, feedback, assign, unassign, rate, spawn>>

AllLocked(c) == close[c].pc = "children" /\ close[c].todo = {}

CommitClose(c) ==
    /\ AllLocked(c)
    /\ versions' = [versions EXCEPT ![close[c].ds][close[c].num] =
                        [status |-> "CLOSED", members |-> Members(c)]]
    /\ locked' = locked \cup close[c].held
    /\ close' = Released(c)
    /\ UNCHANGED <<tree, feedback, assign, unassign, rate, spawn>>

(* An error, a crash, or PostgreSQL picking it to break a deadlock.        *)
AbortClose(c) ==
    /\ close[c].pc # "idle"
    /\ close' = Released(c)
    /\ UNCHANGED <<versions, locked, tree, feedback, assign, unassign, rate, spawn>>

-----------------------------------------------------------------------------
Assigning(a) ==
    \/ \E d \in Sets, s \in Roots : StartAssign(a, d, s)
    \/ CheckOtherSet(a) \/ FindDraft(a) \/ CreateDraft(a)
    \/ CreateRefused(a) \/ InheritAndCommit(a) \/ InsertMember(a) \/ AbortAssign(a)

Unassigning(u) == (\E s \in Roots : StartUnassign(u, s)) \/ DeleteMember(u)

Rating(r) ==
    \/ \E s \in Roots : StartRate(r, s)
    \/ \E value \in {"none", "up", "down"} : WriteFeedback(r, value)

Spawning(p) ==
    \/ \E r \in Roots : LockRoot(p, r)
    \/ \E k \in Children : InsertChild(p, k)
    \/ AbortSpawn(p)

Closing(c) ==
    \/ \E d \in Sets : StartClose(c, d)
    \/ CheckDraft(c) \/ PurgeMembers(c) \/ FlipStatus(c)
    \/ \E s \in Sessions : LockRow(c, s)
    \/ ScanChildren(c) \/ CommitClose(c) \/ AbortClose(c)

Next ==
    \/ \E a \in Assigns : Assigning(a)
    \/ \E u \in Unassigns : Unassigning(u)
    \/ \E r \in Raters : Rating(r)
    \/ \E p \in Spawns : Spawning(p)
    \/ \E c \in Closes : Closing(c)

Spec == Init /\ [][Next]_vars

-----------------------------------------------------------------------------
(* Properties.                                                             *)

(* A dataset has one draft at most and it is its last version, whatever    *)
(* assignments and closes race: the draft looked for is not the one made.  *)
DraftIsLast ==
    \A d \in Sets : \A n \in DOMAIN versions[d] :
        n < Len(versions[d]) => versions[d][n].status = "CLOSED"

(* No sub-agent session appears under a root that is locked or that a      *)
(* close holds, about to be: the FOR SHARE of CreateChildSession.          *)
NoLateSpawn ==
    [][\A k \in Children : tree'[k] # tree[k] =>
           tree'[k] \notin locked /\ ~HeldByClose(tree'[k])]_vars

(* When a close commits, every child of a root it locks is locked with it, *)
(* if the root was still a member when the second statement read them: a   *)
(* child that slipped in while the first statement waited is not missed.   *)
NoChildEscapes ==
    \A c \in Closes : AllLocked(c) =>
        Below(close[c].held \cap close[c].seen) \subseteq locked \cup close[c].held

(* dataset.go, EnsureDraft: "Sessions in the previous closed version are   *)
(* locked, so their feedback is frozen".  A rating checked before the      *)
(* close and written after it changes the feedback of a locked session.    *)
FeedbackFrozen ==
    [][\A s \in locked \cap Roots : feedback'[s] = feedback[s]]_vars

(* Migration 020: "session belongs to at most one dataset".  Two           *)
(* assignments that both check before either inserts break it.             *)
OneDatasetPerSession ==
    \A d, e \in Sets : d # e =>
        \A n \in DOMAIN versions[d], m \in DOMAIN versions[e] :
            versions[d][n].members \cap versions[e][m].members = {}
=============================================================================
