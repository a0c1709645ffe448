----------------------------- MODULE EvalTraining -----------------------------
(***************************************************************************)
(* Evals and training sessions of one agent version: the rows, the         *)
(* requests that change them, and the scripts that run the work outside    *)
(* the server and report it back.                                          *)
(*                                                                         *)
(* Source: internal/repository/eval.go and training_session.go, called by  *)
(* internal/handler/eval.go and training_session.go; the workers are       *)
(* scripts/run_eval.sh, train_from_session.sh and the two cron drainers    *)
(* process_pending_evals.sh and process_pending_trainings.sh.              *)
(*                                                                         *)
(* A worker is one script with the request it is waiting for, which begins *)
(* with its first statement: a request that reads, then writes, is one step*)
(* per statement another can come between.  READ COMMITTED, as in          *)
(* TurnStore.  The multi-agent gate (Start, Create, FailIfMultiAgent) is   *)
(* not here: AgentVersions shows that no active run ever belongs to a      *)
(* version with the agent tool.                                            *)
(***************************************************************************)
EXTENDS Integers, FiniteSets

CONSTANTS
    Evals,      \* evals of the version
    Trainings,  \* training sessions of those evals
    Drainers,   \* the cron drainers (one process each: flock -n)
    Operators,  \* people at the UI, or running a script by hand
    Sessions,   \* chat sessions a report may name
    MaxFaults,  \* scripts that die, or give up on a failed request
    None

ASSUME RunsAssumption ==
    /\ Evals \cap Trainings = {}
    /\ Drainers \cap Operators = {}
    /\ None \notin Evals \cup Trainings \cup Drainers \cup Operators
    /\ MaxFaults \in Nat

VARIABLES
    status,   \* evals.status and training_sessions.status ("none": no row)
    rows,     \* eval_sessions: which report each row is from
    score,    \* the report evals.score is from
    source,   \* training_sessions.source_eval_id
    child,    \* the version a training made: "none", "made", "deleted"
    worker,   \* the script or person, and where its work is
    faults

vars == <<status, rows, score, source, child, worker, faults>>

Items == Evals \cup Trainings
Workers == Drainers \cup Operators
Statuses == {"none", "PENDING", "IN_PROGRESS", "DONE", "FAILED"}
Active == {"PENDING", "IN_PROGRESS"}
Final == {"DONE", "FAILED"}

(* A report is named by who sends it, what it scored (1 is perfect) and the*)
(* sessions it lists: any, or none, as nothing compares them with those of *)
(* the dataset.                                                            *)
Scores == {0, 1}
Lists == SUBSET Sessions
Report == [by : Workers, score : Scores, list : Lists]
ASSUME NoneAssumption == None \notin Report

Phases == {"idle", "create", "start", "run", "insert", "commit", "failing"}
Worker == [pc : Phases, item : Items \cup {None}, score : Scores, list : Lists,
           todo : SUBSET Items]
IdleWorker == [pc |-> "idle", item |-> None, score |-> 0, list |-> {}, todo |-> {}]

TypeOK ==
    /\ status \in [Items -> Statuses]
    /\ rows \in [Evals -> SUBSET (Sessions \X Report)]
    /\ score \in [Evals -> Report \cup {None}]
    /\ source \in [Trainings -> Evals \cup {None}]
    /\ child \in [Trainings -> {"none", "made", "deleted"}]
    /\ worker \in [Workers -> Worker]
    /\ faults \in 0 .. MaxFaults

Init ==
    /\ status = [x \in Items |-> "none"]
    /\ rows = [e \in Evals |-> {}]
    /\ score = [e \in Evals |-> None]
    /\ source = [t \in Trainings |-> None]
    /\ child = [t \in Trainings |-> "none"]
    /\ worker = [w \in Workers |-> IdleWorker]
    /\ faults = 0

At(w, pc) == worker[w].pc = pc
Item(w) == worker[w].item
GoTo(w, x, pc) == worker' = [worker EXCEPT ![w].pc = pc, ![w].item = x]
(* The script of an item ends; a drainer goes on with its list.            *)
End(w) ==
    worker' = [worker EXCEPT ![w].pc = "idle", ![w].item = None, ![w].score = 0, ![w].list = {}]

TrainingsOf(e) == {t \in Trainings : source[t] = e}
ActiveOn(e) == \E t \in TrainingsOf(e) : status[t] \in Active
Tables == <<status, rows, score, source, child>>
-----------------------------------------------------------------------------
(* Requests that create work.                                              *)
CreateEval(e) ==
    /\ status[e] = "none"
    /\ status' = [status EXCEPT ![e] = "PENDING"]
    /\ UNCHANGED <<rows, score, source, child, worker, faults>>

(* The handler reads the eval and its active session, one after another ...*)
StartCreate(w, e) ==
    /\ At(w, "idle")
    /\ status[e] = "DONE" /\ score[e].score < 1 /\ ~ActiveOn(e)
    /\ GoTo(w, e, "create")
    /\ UNCHANGED <<Tables, faults>>

NoActiveIndex(e) == TRUE   \* mutant: idx_ts_one_active_per_eval is missing
ActiveIndexFree(e) == ~ActiveOn(e)

(* ... and inserts later, when only the partial unique index still looks.  *)
InsertTraining(w, t) ==
    /\ At(w, "create")
    /\ source[t] = None
    /\ IF ActiveIndexFree(Item(w))
       THEN /\ status' = [status EXCEPT ![t] = "PENDING"]
            /\ source' = [source EXCEPT ![t] = Item(w)]
       ELSE UNCHANGED <<status, source>>
    /\ End(w)
    /\ UNCHANGED <<rows, score, child, faults>>

(* A trained version is deleted: new_version_id is SET NULL.               *)
DeleteChild(t) ==
    /\ child[t] = "made"
    /\ child' = [child EXCEPT ![t] = "deleted"]
    /\ UNCHANGED <<status, rows, score, source, worker, faults>>
-----------------------------------------------------------------------------
(* The scripts.                                                            *)
Pending == {x \in Items : status[x] = "PENDING"}
Drains(w, x) == x \in Evals <=> w = "evals"

LockFileAbsent(w) == faults = 0 /\ At(w, "idle")   \* mutant: a lock file, left behind by a dead drainer
LockFree(w) == At(w, "idle") /\ worker[w].todo = {}

Cron(w) ==
    /\ LockFree(w)
    /\ \E x \in Pending : Drains(w, x)
    /\ worker' = [worker EXCEPT ![w].todo = {x \in Pending : Drains(w, x)}]
    /\ UNCHANGED <<Tables, faults>>

(* The trainings drainer passes --yes before the id, and                   *)
(* train_from_session.sh takes its first argument for the id and refuses   *)
(* the second as an unknown flag: the script ends before its first request.*)
RefusesArguments(x) == x \in Trainings

NextItem(w) ==
    /\ At(w, "idle")
    /\ \E x \in worker[w].todo :
         worker' = IF RefusesArguments(x)
                   THEN [worker EXCEPT ![w].todo = @ \ {x}]
                   ELSE [worker EXCEPT ![w].pc = "start", ![w].item = x, ![w].todo = @ \ {x}]
    /\ UNCHANGED <<Tables, faults>>

(* Only train_from_session.sh looks at the status before it starts.        *)
Fetchable(x) == status[x] \in IF x \in Trainings THEN {"PENDING"} ELSE Statuses \ {"none"}
RunByHand(w, x) ==
    /\ At(w, "idle") /\ Fetchable(x)
    /\ GoTo(w, x, "start")
    /\ UNCHANGED <<Tables, faults>>

StartableAnyway(x) == status[x] \notin Final   \* mutant: a second start is accepted
Startable(x) == status[x] = "PENDING"

(* Start: the row is locked FOR NO KEY UPDATE before the status is read.   *)
Start(w) ==
    /\ At(w, "start")
    /\ IF Startable(Item(w))
       THEN status' = [status EXCEPT ![Item(w)] = "IN_PROGRESS"] /\ GoTo(w, Item(w), "run")
       ELSE End(w) /\ UNCHANGED status
    /\ UNCHANGED <<rows, score, source, child, faults>>

(* A request fails and the script gives up, or its machine dies with the   *)
(* list.  An open transaction is rolled back.                              *)
GiveUp(w) ==
    /\ ~At(w, "idle")
    /\ faults < MaxFaults
    /\ faults' = faults + 1
    /\ \E todo \in {worker[w].todo, {}} :
         worker' = [worker EXCEPT ![w] = [IdleWorker EXCEPT !.todo = todo]]
    /\ UNCHANGED Tables
-----------------------------------------------------------------------------
(* Reports.  Submit and Complete read the status without a lock.           *)
Accepts(x) == status[x] \in IF x \in Evals THEN Active ELSE {"IN_PROGRESS"}
ReadStatus(w, x) ==
    /\ IF Accepts(x) THEN GoTo(w, x, "insert") ELSE End(w)
    /\ UNCHANGED Tables

(* A training is failed by one guarded UPDATE, an eval by a read and an    *)
(* unguarded UPDATE: Submit of a report that says FAILED does as Fail.     *)
FailsAnyTraining(t) == TRUE   \* mutant: the UPDATE of Fail is not guarded
FailsTraining(t) == status[t] \in Active

FailTraining(w, t) ==
    /\ status' = IF FailsTraining(t) THEN [status EXCEPT ![t] = "FAILED"] ELSE status
    /\ End(w)
    /\ UNCHANGED <<rows, score, source, child>>

FailEval(w, e) ==
    /\ IF status[e] \in Final THEN End(w) ELSE GoTo(w, e, "failing")
    /\ UNCHANGED Tables

Fail(w, x) == IF x \in Evals THEN FailEval(w, x) ELSE FailTraining(w, x)

CommitFail(w) ==
    /\ At(w, "failing")
    /\ status' = [status EXCEPT ![Item(w)] = "FAILED"]
    /\ End(w)
    /\ UNCHANGED <<rows, score, source, child, faults>>

(* aikdm ends: with a result to report, or with an error (for a training,  *)
(* also because the operator declines the result).                         *)
Run(w) ==
    /\ At(w, "run")
    /\ ReadStatus(w, Item(w)) \/ Fail(w, Item(w))
    /\ UNCHANGED faults

Upload(w, e) ==
    /\ At(w, "idle") /\ status[e] # "none"
    /\ ReadStatus(w, e)
    /\ UNCHANGED faults

MarkFailed(w, x) ==
    /\ At(w, "idle") /\ status[x] # "none"
    /\ Fail(w, x)
    /\ UNCHANGED faults

(* The keys: eval_sessions (eval, session), and agent_versions (parent).   *)
SameKey(x, l, y, m) ==
    IF x \in Evals THEN x = y /\ l \cap m # {} ELSE y \in Trainings
Inserting(x, l) ==
    {v \in Workers : At(v, "commit") /\ SameKey(x, l, Item(v), worker[v].list)}
NoKey(x, l) == FALSE   \* mutant: neither key exists
KeyTaken(x, l) ==
    IF x \in Evals
    THEN \E r \in rows[x] : r[1] \in l
    ELSE \E t \in Trainings : child[t] = "made"

(* The rows are inserted one by one; one with the key of an uncommitted row*)
(* waits for that transaction, then fails on its key.  A script whose      *)
(* report is refused exits: nothing marks the item FAILED.  The victim of  *)
(* two reports that wait for each other's rows is one that gives up.  What *)
(* a report says is chosen here, as nothing looks at it before.            *)
InsertRows(w) ==
    /\ At(w, "insert")
    /\ \E s \in Scores, l \in Lists :
         /\ Item(w) \in Trainings => s = 0 /\ l = {}
         /\ Inserting(Item(w), l) = {}
         /\ IF KeyTaken(Item(w), l)
            THEN End(w)
            ELSE worker' = [worker EXCEPT ![w].pc = "commit", ![w].score = s, ![w].list = l]
    /\ UNCHANGED <<Tables, faults>>

(* The last UPDATE does not look at the status again.                      *)
CommitEval(w) ==
    /\ At(w, "commit") /\ Item(w) \in Evals
    /\ LET r == [by |-> w, score |-> worker[w].score, list |-> worker[w].list] IN
         /\ rows' = [rows EXCEPT ![Item(w)] = @ \cup r.list \X {r}]
         /\ score' = [score EXCEPT ![Item(w)] = r]
    /\ status' = [status EXCEPT ![Item(w)] = "DONE"]
    /\ End(w)
    /\ UNCHANGED <<source, child, faults>>

CommitTraining(w) ==
    /\ At(w, "commit") /\ Item(w) \in Trainings
    /\ child' = [child EXCEPT ![Item(w)] = "made"]
    /\ status' = [status EXCEPT ![Item(w)] = "DONE"]
    /\ End(w)
    /\ UNCHANGED <<rows, score, source, faults>>
-----------------------------------------------------------------------------
Request(w) ==
    \/ InsertRows(w) \/ CommitEval(w) \/ CommitTraining(w) \/ CommitFail(w)
    \/ \E t \in Trainings : InsertTraining(w, t)
Script(w) == Start(w) \/ Run(w)
Drain(w) == Cron(w) \/ NextItem(w)
Operate(w) ==
    \/ \E e \in Evals : StartCreate(w, e)
    \/ \E x \in Items : RunByHand(w, x) \/ MarkFailed(w, x)
    \/ \E e \in Evals : Upload(w, e)

Next ==
    \/ \E e \in Evals : CreateEval(e)
    \/ \E t \in Trainings : DeleteChild(t)
    \/ \E w \in Workers : Request(w) \/ Script(w) \/ GiveUp(w)
    \/ \E w \in Drainers : Drain(w)
    \/ \E w \in Operators : Operate(w)

Spec == Init /\ [][Next]_vars

(* Cron runs each drainer again and again, aikdm ends, and the server      *)
(* finishes the requests it has; a script run by hand may wait for its     *)
(* operator.                                                               *)
Fairness ==
    /\ \A w \in Workers : WF_vars(Request(w))
    /\ \A w \in Drainers : WF_vars(Drain(w)) /\ WF_vars(Script(w))
FairSpec == Spec /\ Fairness
(* Operators who stay at their terminals.                                  *)
AttendedSpec == FairSpec /\ \A w \in Operators : WF_vars(Script(w))
-----------------------------------------------------------------------------
(* An item that was started has one script at work on it, and an eval one  *)
(* active training: the work costs money and its result is one row.        *)
AtWork(x) == {w \in Workers : Item(w) = x /\ At(w, "run")}
ExclusiveRuns ==
    /\ \A x \in Items : Cardinality(AtWork(x)) <= 1 /\ (AtWork(x) # {} => status[x] # "PENDING")
    /\ \A e \in Evals : Cardinality({t \in TrainingsOf(e) : status[t] \in Active}) <= 1

(* However many reports of an eval race, each lands with all its sessions  *)
(* or with none, two that name a session in common never both land, the    *)
(* score is from a report that landed, and until the eval ends there is    *)
(* neither a score nor a row.                                              *)
ReportsLandWhole ==
    \A e \in Evals :
        /\ \A x, y \in rows[e] : x[1] = y[1] => x = y
        /\ \A x \in rows[e] : x[2].list \X {x[2]} \subseteq rows[e]
        /\ score[e] # None => score[e].list \X {score[e]} \subseteq rows[e]
        /\ status[e] \in Active => rows[e] = {} /\ score[e] = None
        /\ status[e] = "DONE" => score[e] # None

(* Complete: "either everything lands or nothing does" (training_session.go*)
(* 194-198).  A training is DONE exactly when it made its version, even if *)
(* another report failed it in between, and one parent has one child.      *)
ChildIffDone ==
    /\ \A t \in Trainings : child[t] # "none" <=> status[t] = "DONE"
    /\ Cardinality({t \in Trainings : child[t] = "made"}) <= 1

(* Whatever happens to scripts, machines and competing operators, the      *)
(* evals drainer picks a pending eval up.                                  *)
Drained == \A e \in Evals : status[e] = "PENDING" ~> status[e] # "PENDING"

(* process_pending_trainings.sh: "Drains all PENDING training sessions".   *)
TrainingsDrained == \A t \in Trainings : status[t] = "PENDING" ~> status[t] # "PENDING"

(* train_from_session.sh: "Picks up a PENDING training session and drives  *)
(* it through IN_PROGRESS -> DONE (or FAILED)", when nothing dies.         *)
TrainingEnds == \A t \in Trainings : status[t] = "IN_PROGRESS" ~> status[t] \in Final

(* The rows of an eval are those of the report its score is from, and one  *)
(* that is DONE has some: false, as reports with disjoint lists, or none,  *)
(* meet no key.                                                            *)
ResultIsOneReport ==
    \A e \in Evals :
        /\ \A x \in rows[e] : x[2] = score[e]
        /\ status[e] = "DONE" => rows[e] # {}

(* eval.go, Submit: "Refuses if the eval is already DONE or FAILED".       *)
ResultIsFinal == [][\A e \in Evals : status[e] \in Final => status'[e] = status[e]]_vars
=============================================================================
