------------------------------ MODULE TurnStore ------------------------------
(***************************************************************************)
(* The rows one chat session keeps in PostgreSQL, and every transaction    *)
(* the turn loop, the artifact routes and a dataset close run over them.   *)
(*                                                                         *)
(* Source: open-bbcd/internal/repository (chat.go, deployed.go,            *)
(* session_artifacts.go), called by internal/chat/orchestrator.go and      *)
(* internal/handler.  BackOffice = TRUE is the chat_* tables (a session    *)
(* row is locked FOR NO KEY UPDATE by a turn and carries locked_at), FALSE *)
(* the deployed_* tables (FOR KEY SHARE only, no locked_at).               *)
(*                                                                         *)
(* One action per SQL statement that can wait, or whose effect another     *)
(* transaction can see or miss.  PostgreSQL runs READ COMMITTED: a         *)
(* statement reads what is committed when it starts, an UPDATE waits for a *)
(* row another transaction changed and then re-evaluates its WHERE, an     *)
(* INSERT waits for an uncommitted row with the same unique key.           *)
(***************************************************************************)
EXTENDS Integers, FiniteSets

CONSTANTS
    Turns,       \* turns (HTTP requests) running on this session
    Uploads,     \* upload requests on this session
    Blobs,       \* blob uris (sha256/...)
    MaxPending,  \* ARTIFACT_MAX_PENDING
    MaxRounds,   \* tool rounds a turn runs, at most (Orchestrator.MaxToolRounds)
    BackOffice,  \* TRUE: chat_* tables, FALSE: deployed_* tables
    Closer,      \* the transaction of a dataset close
    None

ASSUME ParamAssumption ==
    /\ IsFiniteSet(Uploads)
    /\ MaxPending \in Nat
    /\ MaxRounds \in Nat
    /\ BackOffice \in BOOLEAN
    /\ Closer # None
    /\ None \notin Turns \cup Uploads
    /\ Closer \notin Turns \cup Uploads

VARIABLES
    exists,    \* the session row is there
    locked,    \* committed locked_at IS NOT NULL
    sessLock,  \* holder of the session row lock FOR NO KEY UPDATE
    log,       \* committed messages
    rows,      \* committed session artifact rows
    store,     \* blobs the object store holds
    pc,        \* where each turn is
    msg,       \* the message each turn is writing
    snap,      \* pending rows the claim statement of a turn saw
    claim,     \* rows a turn updated in its open transaction
    rounds,    \* tool rounds a turn completed
    upc,       \* where each upload is
    blob,      \* what each upload carries
    advLock,   \* holder of the per-session advisory lock of CommitUpload
    deleting   \* pending uploads a delete request is about to remove

session   == <<exists, locked, sessLock>>
tables    == <<log, rows>>
turnVars  == <<pc, msg, snap, claim, rounds>>
uploadVars == <<upc, blob, advLock, deleting>>
vars == <<session, tables, store, turnVars, uploadVars>>

Roles == {"user", "assistant", "tool"}
NoMessage == 0   \* message_id IS NULL: the row is pending

Message == [seq : Nat, role : Roles, text : BOOLEAN, refs : SUBSET Blobs]
Row == [id : Uploads \cup Turns, origin : {"upload", "tool_result"},
        blob : Blobs, msg : Nat]

(* Phases of a turn.  Between two transactions it is at "seq" or "tools".  *)
InTx == {"lock", "scan", "claim", "insert", "inserted"}
UploadPhases == {"idle", "put", "commit", "recheck", "scan", "insert", "done"}

TypeOK ==
    /\ exists \in BOOLEAN
    /\ locked \in BOOLEAN
    /\ sessLock \in Turns \cup {Closer, None}
    /\ log \in SUBSET Message
    /\ rows \in SUBSET Row
    /\ store \in SUBSET Blobs
    /\ pc \in [Turns -> {"idle", "seq", "tools", "done"} \cup InTx]
    /\ msg \in [Turns -> Message]
    /\ snap \in [Turns -> SUBSET Row]
    /\ claim \in [Turns -> SUBSET Row]
    /\ rounds \in [Turns -> Nat]
    /\ upc \in [Uploads -> UploadPhases]
    /\ blob \in [Uploads -> Blobs]
    /\ advLock \in Uploads \cup {None}
    /\ deleting \in SUBSET Uploads

-----------------------------------------------------------------------------
Seqs == {m.seq : m \in log}
MaxSeq == IF log = {} THEN 0
          ELSE CHOOSE n \in Seqs : \A k \in Seqs : k <= n

NextFree == MaxSeq + 1

PendingRows == {r \in rows : r.origin = "upload" /\ r.msg = NoMessage}
PendingOf(b) == {r \in PendingRows : r.blob = b}

(* The rows another turn's open transaction has updated: whoever wants     *)
(* them waits.                                                             *)
HeldByOthers(t) == UNION {claim[s] : s \in Turns \ {t}}

(* A turn that locked the session row or inserted a message holds at least *)
(* FOR KEY SHARE on the session row, so a DELETE of the session waits.     *)
HoldsKeyShare(t) ==
    \/ pc[t] \in {"scan", "claim", "inserted"}
    \/ pc[t] = "insert" /\ msg[t].role # "assistant"

Init ==
    /\ exists = TRUE
    /\ locked = FALSE
    /\ sessLock = None
    /\ log = {}
    /\ rows = {}
    /\ store = {}
    /\ pc = [t \in Turns |-> "idle"]
    /\ msg = [t \in Turns |-> [seq |-> 0, role |-> "user", text |-> FALSE, refs |-> {}]]
    /\ snap = [t \in Turns |-> {}]
    /\ claim = [t \in Turns |-> {}]
    /\ rounds = [t \in Turns |-> 0]
    /\ upc = [u \in Uploads |-> "idle"]
    /\ blob \in [Uploads -> Blobs]
    /\ advLock = None
    /\ deleting = {}

-----------------------------------------------------------------------------
(* Turns.                                                                  *)

(* The turn handler up to the user message: the session must exist and not *)
(* be locked, and a turn without text needs something pending.  Everything *)
(* it reads may be stale by the time the transaction runs.                 *)
Admit(t) ==
    /\ pc[t] = "idle"
    /\ exists
    /\ ~locked
    /\ \E text \in BOOLEAN :
        /\ text \/ PendingRows # {}
        /\ msg' = [msg EXCEPT ![t].text = text]
    /\ pc' = [pc EXCEPT ![t] = "seq"]
    /\ UNCHANGED <<session, tables, store, snap, claim, rounds, uploadVars>>

(* A read of its own, outside the transaction that uses the number.        *)
NextSeq(t) ==
    /\ pc[t] = "seq"
    /\ msg' = [msg EXCEPT ![t].seq = NextFree]
    /\ pc' = [pc EXCEPT ![t] = IF msg[t].role = "assistant" THEN "insert" ELSE "lock"]
    /\ UNCHANGED <<session, tables, store, snap, claim, rounds, uploadVars>>

(* Mutant: a refused or failed transaction leaves its claim behind.        *)
RollbackKeepsClaim(t) ==
    /\ pc' = [pc EXCEPT ![t] = "done"]
    /\ snap' = [snap EXCEPT ![t] = {}]
    /\ claim' = [claim EXCEPT ![t] = {}]
    /\ sessLock' = IF sessLock = t THEN None ELSE sessLock
    /\ rows' = (rows \ claim[t]) \cup {[r EXCEPT !.msg = msg[t].seq] : r \in claim[t]}
    /\ UNCHANGED <<exists, locked, log, store, msg, rounds, uploadVars>>

(* Mutant: the transaction of a failed turn is never rolled back.          *)
RollbackKeepsLock(t) ==
    /\ pc' = [pc EXCEPT ![t] = "done"]
    /\ UNCHANGED <<session, tables, store, msg, snap, claim, rounds, uploadVars>>

(* Roll back: locks and claimed rows are released, the turn has failed.    *)
Rollback(t) ==
    /\ pc' = [pc EXCEPT ![t] = "done"]
    /\ snap' = [snap EXCEPT ![t] = {}]
    /\ claim' = [claim EXCEPT ![t] = {}]
    /\ sessLock' = IF sessLock = t THEN None ELSE sessLock
    /\ UNCHANGED <<exists, locked, tables, store, msg, rounds, uploadVars>>

(* First statement of appendUserTurn and appendToolMessage.  Back office,  *)
(* user message: UPDATE ... RETURNING locked_at waits for the row lock and *)
(* sees the latest committed locked_at.                                    *)
TakesNoRowLock(t) == FALSE   \* mutant: FOR KEY SHARE, as the other tables do
TakesRowLock(t) == BackOffice /\ msg[t].role = "user"

LockSession(t) ==
    /\ pc[t] = "lock"
    /\ exists
    /\ TakesRowLock(t) => sessLock = None /\ ~locked
    /\ sessLock' = IF TakesRowLock(t) THEN t ELSE sessLock
    /\ pc' = [pc EXCEPT ![t] = IF msg[t].role = "user" THEN "scan" ELSE "insert"]
    /\ UNCHANGED <<exists, locked, tables, store, msg, snap, claim, rounds, uploadVars>>

LockRefused(t) ==
    /\ pc[t] = "lock"
    /\ \/ ~exists
       \/ TakesRowLock(t) /\ sessLock = None /\ locked
    /\ Rollback(t)

(* claimPending: the UPDATE's snapshot ...                                 *)
ClaimScan(t) ==
    /\ pc[t] = "scan"
    /\ snap' = [snap EXCEPT ![t] = PendingRows]
    /\ pc' = [pc EXCEPT ![t] = "claim"]
    /\ UNCHANGED <<session, tables, store, msg, claim, rounds, uploadVars>>

(* ... then its row locks: it waits for rows an open turn updated and      *)
(* re-evaluates message_id IS NULL on each row it found.                   *)
ClaimableAsSeen(t) == snap[t]   \* mutant: message_id IS NULL is not re-evaluated
Claimable(t) == snap[t] \cap PendingRows

Claim(t) ==
    /\ pc[t] = "claim"
    /\ snap[t] \cap HeldByOthers(t) = {}
    /\ msg[t].text \/ Claimable(t) # {}
    /\ claim' = [claim EXCEPT ![t] = Claimable(t)]
    /\ msg' = [msg EXCEPT ![t].refs = {r.blob : r \in Claimable(t)}]
    /\ pc' = [pc EXCEPT ![t] = "insert"]
    /\ UNCHANGED <<session, tables, store, snap, rounds, uploadVars>>

(* ErrEmptyTurn: no text, and the pending rows went away meanwhile.        *)
EmptyTurn(t) ==
    /\ pc[t] = "claim"
    /\ snap[t] \cap HeldByOthers(t) = {}
    /\ ~msg[t].text
    /\ Claimable(t) = {}
    /\ Rollback(t)

(* INSERT of the message.  UNIQUE (session_id, seq) waits for an open      *)
(* transaction that inserted the same seq.                                 *)
SeqNeverInFlight(t) == FALSE   \* mutant: the insert does not wait
SeqInFlight(t) == \E s \in Turns \ {t} : pc[s] = "inserted" /\ msg[s].seq = msg[t].seq

SeqNeverTaken(t) == FALSE   \* mutant: no UNIQUE (session_id, seq)
SeqTaken(t) == msg[t].seq \in Seqs

Insert(t) ==
    /\ pc[t] = "insert"
    /\ ~SeqInFlight(t)
    /\ exists
    /\ ~SeqTaken(t)
    /\ pc' = [pc EXCEPT ![t] = "inserted"]
    /\ UNCHANGED <<session, tables, store, msg, snap, claim, rounds, uploadVars>>

InsertRefused(t) ==
    /\ pc[t] = "insert"
    /\ ~SeqInFlight(t)
    /\ ~exists \/ SeqTaken(t)
    /\ Rollback(t)

(* Back office: bump the session's updated_at, which needs its row lock;   *)
(* then commit.  The message and its artifact rows appear together.        *)
WrittenRows(t) ==
    IF msg[t].role = "tool"
    THEN {[id |-> t, origin |-> "tool_result", blob |-> b, msg |-> msg[t].seq] : b \in msg[t].refs}
    ELSE {[r EXCEPT !.msg = msg[t].seq] : r \in claim[t]}

CommitTurn(t) ==
    /\ pc[t] = "inserted"
    /\ BackOffice => sessLock \in {None, t}
    /\ log' = log \cup {msg[t]}
    /\ rows' = (rows \ claim[t]) \cup WrittenRows(t)
    /\ sessLock' = IF sessLock = t THEN None ELSE sessLock
    /\ claim' = [claim EXCEPT ![t] = {}]
    /\ snap' = [snap EXCEPT ![t] = {}]
    /\ store' = store
    /\ \/ /\ msg[t].role \in {"user", "tool"}
          /\ pc' = [pc EXCEPT ![t] = "seq"]
          /\ msg' = [msg EXCEPT ![t].role = "assistant", ![t].refs = {}]
          /\ rounds' = IF msg[t].role = "tool" THEN [rounds EXCEPT ![t] = @ + 1] ELSE rounds
       \/ /\ msg[t].role = "assistant"   \* any other stop reason, or the cap
          /\ pc' = [pc EXCEPT ![t] = "done"]
          /\ UNCHANGED <<msg, rounds>>
       \/ /\ msg[t].role = "assistant"   \* stop reason tool_use
          /\ rounds[t] < MaxRounds
          /\ pc' = [pc EXCEPT ![t] = "tools"]
          /\ UNCHANGED <<msg, rounds>>
    /\ UNCHANGED <<exists, locked, uploadVars>>

(* The tools ran and normaliseToolResult put their artifacts in the store; *)
(* the tool message will carry the refs.                                   *)
RunTools(t) ==
    /\ pc[t] = "tools"
    /\ \E results \in SUBSET Blobs :
        /\ msg' = [msg EXCEPT ![t].role = "tool", ![t].refs = results]
        /\ store' = store \cup results
    /\ pc' = [pc EXCEPT ![t] = "seq"]
    /\ UNCHANGED <<session, tables, snap, claim, rounds, uploadVars>>

(* The request is cancelled, the model or the database fails, or the       *)
(* process dies: PostgreSQL rolls the open transaction back.               *)
AbortTurn(t) ==
    /\ pc[t] \in {"seq", "tools"} \cup InTx
    /\ Rollback(t)

(* The lock cycle PostgreSQL's deadlock detector breaks: s inserted seq n  *)
(* and waits for the session row t holds, t waits to insert the same seq.  *)
DeadlockedPair(s, t) ==
    /\ BackOffice
    /\ pc[s] = "inserted" /\ pc[t] = "insert"
    /\ msg[s].seq = msg[t].seq
    /\ sessLock = t

DeadlockVictim(t) ==
    /\ \E s \in Turns : DeadlockedPair(s, t) \/ DeadlockedPair(t, s)
    /\ Rollback(t)

-----------------------------------------------------------------------------
(* Uploads and deletes of pending artifacts.                               *)

(* boSession / guard preamble, then PrecheckUpload: no locks.              *)
StartUpload(u) ==
    /\ upc[u] = "idle"
    /\ exists
    /\ ~locked
    /\ upc' = [upc EXCEPT ![u] =
                 IF PendingOf(blob[u]) # {} \/ Cardinality(PendingRows) >= MaxPending
                 THEN "done" ELSE "put"]
    /\ UNCHANGED <<session, tables, store, turnVars, blob, advLock, deleting>>

(* Stat, else Put, outside any transaction; a failed Put ends the upload.  *)
AfterFailedPutCommits == "commit"   \* mutant: the error is ignored
AfterFailedPut == "done"

PutBlob(u) ==
    /\ upc[u] = "put"
    /\ \/ /\ store' = store \cup {blob[u]}
          /\ upc' = [upc EXCEPT ![u] = "commit"]
       \/ /\ store' = store
          /\ upc' = [upc EXCEPT ![u] = AfterFailedPut]
    /\ UNCHANGED <<session, tables, turnVars, blob, advLock, deleting>>

(* CommitUpload: pg_advisory_xact_lock, one upload per session at a time.  *)
AdvLockIgnored == TRUE   \* mutant: no advisory lock
AdvLockFree == advLock = None

LockUpload(u) ==
    /\ upc[u] = "commit"
    /\ AdvLockFree
    /\ advLock' = u
    /\ upc' = [upc EXCEPT ![u] = "recheck"]
    /\ UNCHANGED <<session, tables, store, turnVars, blob, deleting>>

AdvLockLeaked(u) == advLock   \* mutant: a session-level lock, never released
AdvLockAfter(u) == IF advLock = u THEN None ELSE advLock

EndUpload(u) ==
    /\ upc' = [upc EXCEPT ![u] = "done"]
    /\ advLock' = AdvLockAfter(u)
    /\ UNCHANGED <<session, store, turnVars, blob, deleting>>

(* recheckChatSession / recheckDeployedSession: a plain SELECT.            *)
RecheckSession(u) ==
    /\ upc[u] = "recheck"
    /\ IF exists /\ ~locked
       THEN /\ upc' = [upc EXCEPT ![u] = "scan"]
            /\ UNCHANGED <<session, store, turnVars, blob, advLock, deleting>>
       ELSE EndUpload(u)
    /\ UNCHANGED tables

(* findPending and countPending: a dedup hit, the cap, or on to the insert.*)
(* Two reads in the code; only this upload can add rows in between, so     *)
(* they agree with one.                                                    *)
ScanPending(u) ==
    /\ upc[u] = "scan"
    /\ IF PendingOf(blob[u]) # {} \/ Cardinality(PendingRows) >= MaxPending
       THEN EndUpload(u)
       ELSE /\ upc' = [upc EXCEPT ![u] = "insert"]
            /\ UNCHANGED <<session, store, turnVars, blob, advLock, deleting>>
    /\ UNCHANGED tables

(* INSERT and COMMIT.  The foreign key needs the session row, the partial  *)
(* unique index refuses a second pending row for the blob.                 *)
InsertUpload(u) ==
    /\ upc[u] = "insert"
    /\ rows' = IF exists /\ PendingOf(blob[u]) = {}
               THEN rows \cup {[id |-> u, origin |-> "upload", blob |-> blob[u], msg |-> NoMessage]}
               ELSE rows
    /\ EndUpload(u)
    /\ UNCHANGED log

(* A cancelled or failed upload: its transaction, if open, rolls back.     *)
AbortUpload(u) ==
    /\ upc[u] \notin {"idle", "done"}
    /\ EndUpload(u)
    /\ UNCHANGED tables

(* DELETE of a pending upload.  The preamble refuses a locked session; the *)
(* statement itself does not look at the session again.                    *)
StartDelete(u) ==
    /\ exists
    /\ ~locked
    /\ \E r \in PendingRows : r.id = u
    /\ deleting' = deleting \cup {u}
    /\ UNCHANGED <<session, tables, store, turnVars, upc, blob, advLock>>

(* DeletePendingArtifact: waits for a turn that claimed the row and then   *)
(* re-evaluates message_id IS NULL, so it only removes rows still pending. *)
NeverBeingClaimed(u) == FALSE   \* mutant: the DELETE does not wait for the claim
BeingClaimed(u) == \E t \in Turns : \E r \in claim[t] : r.id = u

DeletePending(u) ==
    /\ u \in deleting
    /\ ~BeingClaimed(u)
    /\ rows' = {r \in rows : ~(r.id = u /\ r \in PendingRows)}
    /\ deleting' = deleting \ {u}
    /\ UNCHANGED <<session, log, store, turnVars, upc, blob, advLock>>

-----------------------------------------------------------------------------
(* A dataset close locks the session; a delete removes it.                 *)

(* CloseDraft, first UPDATE: takes the row lock, sets locked_at.           *)
CloseLock ==
    /\ BackOffice
    /\ exists /\ ~locked
    /\ sessLock = None
    /\ sessLock' = Closer
    /\ UNCHANGED <<exists, locked, tables, store, turnVars, uploadVars>>

CloseCommit ==
    /\ sessLock = Closer
    /\ locked' = TRUE
    /\ sessLock' = None
    /\ UNCHANGED <<exists, tables, store, turnVars, uploadVars>>

CloseAbort ==
    /\ sessLock = Closer
    /\ sessLock' = None
    /\ UNCHANGED <<exists, locked, tables, store, turnVars, uploadVars>>

(* DELETE of the session (deployed: the delete route; back office: its     *)
(* version goes), with the cascade to messages and artifact rows.  A       *)
(* session a close locked is referenced by its dataset and stays.          *)
DeleteSession ==
    /\ exists /\ ~locked
    /\ sessLock = None
    /\ \A t \in Turns : ~HoldsKeyShare(t)
    /\ exists' = FALSE
    /\ log' = {}
    /\ rows' = {}
    /\ UNCHANGED <<locked, sessLock, store, turnVars, uploadVars>>

-----------------------------------------------------------------------------
TurnStep(t) ==
    \/ NextSeq(t) \/ LockSession(t) \/ LockRefused(t)
    \/ ClaimScan(t) \/ Claim(t) \/ EmptyTurn(t)
    \/ Insert(t) \/ InsertRefused(t) \/ CommitTurn(t) \/ RunTools(t)

UploadStep(u) ==
    \/ PutBlob(u) \/ LockUpload(u) \/ RecheckSession(u)
    \/ ScanPending(u) \/ InsertUpload(u)

CloseStep == CloseCommit \/ CloseAbort

Next ==
    \/ \E t \in Turns : Admit(t) \/ TurnStep(t) \/ AbortTurn(t) \/ DeadlockVictim(t)
    \/ \E u \in Uploads : StartUpload(u) \/ UploadStep(u) \/ AbortUpload(u)
    \/ \E u \in Uploads : StartDelete(u) \/ DeletePending(u)
    \/ CloseLock \/ CloseStep \/ DeleteSession

Spec == Init /\ [][Next]_vars

(* A goroutine that can run a statement eventually does; a statement that  *)
(* waits is granted in the end however often others take the lock, since   *)
(* PostgreSQL queues waiters (hence SF); the deadlock detector fires after *)
(* deadlock_timeout; a close in progress ends.  No request has to arrive,  *)
(* and none has to be aborted.                                             *)
Fairness ==
    /\ \A t \in Turns : SF_vars(TurnStep(t)) /\ WF_vars(DeadlockVictim(t))
    /\ \A u \in Uploads : WF_vars(UploadStep(u))
    /\ WF_vars(CloseStep)

FairSpec == Spec /\ Fairness
-----------------------------------------------------------------------------
(* Properties.                                                             *)

(* The messages of a session are numbered 1, 2, 3, ... without a gap and   *)
(* without two messages sharing a number, although NextSeq reads the       *)
(* number outside the transaction that uses it and turns run at once       *)
(* (chat.go NextSeq's race window, UNIQUE (session_id, seq)).              *)
LogDense ==
    /\ Seqs = 1 .. MaxSeq
    /\ \A m, n \in log : m.seq = n.seq => m = n

(* A step adds at most one message, numbered after every message already   *)
(* there, and takes none away short of deleting the session: what a turn   *)
(* read as history stays a prefix of what the next turn reads.             *)
AppendsOnly ==
    \/ ~exists'
    \/ /\ log \subseteq log'
       /\ \A m \in log' \ log : m.seq = MaxSeq + 1

AppendOnly == [][AppendsOnly]_vars

(* Artifact rows and messages tell the same story: a message's refs are    *)
(* exactly the blobs of the rows bound to it, an upload is bound to a user *)
(* message and a tool result to a tool message, and a user message has     *)
(* text or an artifact.  The claim, its rollback, deletes of pending rows  *)
(* and the other turns' claims all run concurrently.                       *)
RefsMatchRows ==
    /\ \A m \in log : m.refs = {r.blob : r \in {q \in rows : q.msg = m.seq}}
    /\ \A r \in rows \ PendingRows : \E m \in log :
         /\ m.seq = r.msg
         /\ m.role = IF r.origin = "upload" THEN "user" ELSE "tool"
    /\ \A m \in log : m.role = "user" => m.text \/ m.refs # {}

(* The session never has more than MaxPending uploads waiting, nor two     *)
(* waiting for one blob, although every upload checks before it writes.    *)
PendingBounded ==
    /\ Cardinality(PendingRows) <= MaxPending
    /\ \A q, r \in PendingRows : q.blob = r.blob => q = r

(* Every row can be served: its blob was put before the row was committed. *)
RowsHaveBlobs == \A r \in rows : r.blob \in store

(* Once a close has committed locked_at, no user message is added and no   *)
(* pending upload is claimed, even by a turn the handler admitted before.  *)
NoTurnOnLocked ==
    locked => /\ \A m \in log' \ log : m.role # "user"
              /\ \A r \in rows' \ rows : r.origin = "upload" => r.msg = NoMessage

FrozenToUsers == [][NoTurnOnLocked]_vars

(* Every turn that started ends: waits for row locks, for claimed rows and *)
(* for an in-flight seq resolve, the lock cycle between a turn's user      *)
(* message and another's assistant message included.                       *)
TurnsEnd == \A t \in Turns : pc[t] # "idle" ~> pc[t] = "done"

(* Uploads end too: the advisory lock is never left behind.                *)
UploadsEnd == \A u \in Uploads : upc[u] # "idle" ~> upc[u] = "done"

(* What CommitUpload's comment says: ErrSessionLocked for a locked BO      *)
(* session, so a locked session's pending uploads do not grow.             *)
NoUploadOnLocked ==
    locked => PendingRows' \subseteq PendingRows

LockedTakesNoUpload == [][NoUploadOnLocked]_vars

(* Refinement: the rows, read between transactions, are a SessionLog.      *)
MessageAt(n) == CHOOSE m \in log : m.seq = n
History == [n \in 1 .. MaxSeq |-> [role |-> MessageAt(n).role, refs |-> MessageAt(n).refs]]
Waiting == {r.blob : r \in PendingRows}

SL == INSTANCE SessionLog WITH
        alive <- exists, frozen <- locked, history <- History, waiting <- Waiting

(* Every transaction, however its statements interleave with the others',  *)
(* is one atomic step of SessionLog or changes nothing it shows.           *)
ImplementsSessionLog == SL!Spec
=============================================================================
