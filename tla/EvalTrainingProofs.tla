-------------------------- MODULE EvalTrainingProofs --------------------------
(***************************************************************************)
(* Theorems about EvalTraining, for any sets of evals, trainings, drainers,*)
(* operators and sessions, and any number of faults.                       *)
(***************************************************************************)
EXTENDS EvalTraining, FiniteSetTheorems, TLAPS

-----------------------------------------------------------------------------
(* The inductive invariant: what holds of the rows, what a worker can rely *)
(* on where it stands, and what two workers are never both at.             *)

(* A row that was never created has no result, a training has a source     *)
(* once it is there, and the two unique indexes hold.                      *)
Sound ==
    /\ ReportsLandWhole
    /\ \A e \in Evals : status[e] = "none" => rows[e] = {} /\ score[e] = None
    /\ \A t \in Trainings : child[t] # "none" <=> status[t] = "DONE"
    /\ \A t \in Trainings : source[t] = None <=> status[t] = "none"
    /\ \A t, u \in Trainings : child[t] = "made" /\ child[u] = "made" => t = u
    /\ \A t, u \in Trainings :
         source[t] = source[u] /\ {status[t], status[u]} \subseteq Active => t = u

(* A transaction that has inserted its rows saw none with their keys.      *)
Clear(e, l) == \A x \in rows[e] : x[1] \notin l

Knows(w) ==
    /\ ~At(w, "idle") => Item(w) \in Items /\ status[Item(w)] # "none"
    /\ \A i \in worker[w].todo : status[i] # "none"
    /\ worker[w].pc \in {"create", "failing"} => Item(w) \in Evals
    /\ At(w, "run") => status[Item(w)] # "PENDING"
    /\ At(w, "commit") /\ Item(w) \in Evals => Clear(Item(w), worker[w].list)
    /\ At(w, "commit") /\ Item(w) \in Trainings => \A t \in Trainings : child[t] # "made"

Apart(v, w) ==
    /\ At(v, "run") /\ At(w, "run") => Item(v) # Item(w)
    /\ At(v, "commit") /\ At(w, "commit") =>
         /\ Item(v) \in Evals /\ Item(v) = Item(w) => worker[v].list \cap worker[w].list = {}
         /\ Item(v) \in Evals \/ Item(w) \in Evals

AllKnow == \A w \in Workers : Knows(w)
AllApart == \A v, w \in Workers : v # w => Apart(v, w)
IInv == TypeOK /\ Sound /\ AllKnow /\ AllApart

LEMMA InitHolds == Init => IInv
<1> SUFFICES ASSUME Init PROVE IInv
  OBVIOUS
<1>1. IdleWorker \in Worker
  BY DEF IdleWorker, Worker, Phases, Scores, Lists
<1>2. TypeOK
  BY <1>1, RunsAssumption DEF Init, TypeOK, Statuses
<1>3. Sound
  BY DEF Init, Sound, ReportsLandWhole, Active, Items
<1>4. AllKnow /\ AllApart
  BY DEF Init, AllKnow, AllApart, Knows, Apart, At, IdleWorker
<1> QED BY <1>2, <1>3, <1>4 DEF IInv

-----------------------------------------------------------------------------
(* Steps that write no table.                                              *)

(* Where a worker may go without a lock.                                   *)
Plain(x) ==
    /\ x \in Worker
    /\ x.pc \notin {"run", "commit"}
    /\ x.pc # "idle" => x.item \in Items /\ status[x.item] # "none"
    /\ \A i \in x.todo : status[i] # "none"
    /\ x.pc \in {"create", "failing"} => x.item \in Evals

LEMMA MoveOn ==
  ASSUME IInv, NEW w \in Workers, NEW x, Plain(x),
         worker' = [worker EXCEPT ![w] = x], UNCHANGED Tables, faults' \in 0 .. MaxFaults
  PROVE  IInv'
<1>1. worker'[w] = x /\ \A v \in Workers : v # w => worker'[v] = worker[v]
  BY DEF IInv, TypeOK
<1>2. worker' \in [Workers -> Worker]
  BY DEF IInv, TypeOK, Plain
<1>3. TypeOK' /\ Sound'
  BY <1>2 DEF IInv, TypeOK, Sound, Tables, ReportsLandWhole, Items
<1>4. AllKnow'
  <2> SUFFICES ASSUME NEW v \in Workers PROVE Knows(v)'
    BY DEF AllKnow
  <2>1. CASE v = w
    BY <1>1, <2>1 DEF Plain, Knows, At, Item, Tables
  <2>2. CASE v # w
    BY <1>1, <2>2 DEF IInv, AllKnow, Knows, At, Item, Tables, Clear
  <2> QED BY <2>1, <2>2
<1>5. AllApart'
  BY <1>1 DEF IInv, AllApart, Apart, At, Item, Plain
<1> QED BY <1>3, <1>4, <1>5 DEF IInv

LEMMA EndIsPlain ==
  ASSUME TypeOK, NEW w \in Workers, Knows(w), End(w)
  PROVE  \E x : Plain(x) /\ worker' = [worker EXCEPT ![w] = x]
<1> DEFINE x == [worker[w] EXCEPT !.pc = "idle", !.item = None, !.score = 0, !.list = {}]
<1>1. worker[w] \in Worker
  BY DEF TypeOK
<1>2. Plain(x)
  BY <1>1 DEF Plain, Worker, Phases, Scores, Lists, Knows
<1>3. worker' = [worker EXCEPT ![w] = x]
  BY DEF End
<1> QED BY <1>2, <1>3

LEMMA GoIsPlain ==
  ASSUME TypeOK, NEW w \in Workers, Knows(w), NEW i \in Items, status[i] # "none",
         NEW pc \in {"create", "start", "insert", "failing"},
         pc \in {"create", "failing"} => i \in Evals, GoTo(w, i, pc)
  PROVE  \E x : Plain(x) /\ worker' = [worker EXCEPT ![w] = x]
<1> DEFINE x == [worker[w] EXCEPT !.pc = pc, !.item = i]
<1>1. worker[w] \in Worker
  BY DEF TypeOK
<1>2. Plain(x)
  BY <1>1 DEF Plain, Worker, Phases, Knows
<1>3. worker' = [worker EXCEPT ![w] = x]
  BY DEF GoTo
<1> QED BY <1>2, <1>3

(* Cron and NextItem: the list holds items, and what is taken from it is   *)
(* one of them.                                                            *)
LEMMA DrainMoves == ASSUME IInv, NEW w \in Drainers, Drain(w) PROVE IInv'
<1>1. w \in Workers /\ worker[w] \in Worker /\ Knows(w)
  BY DEF Workers, IInv, TypeOK, AllKnow
<1>2. CASE Cron(w)
  <2> DEFINE x == [worker[w] EXCEPT !.todo = {i \in Pending : Drains(w, i)}]
  <2>1. worker' = [worker EXCEPT ![w] = x] /\ UNCHANGED Tables /\ faults' = faults
    BY <1>2 DEF Cron
  <2>2. Plain(x)
    BY <1>1, <1>2 DEF Cron, LockFree, At, Plain, Worker, Pending
  <2> HIDE DEF x
  <2> QED BY <1>1, <2>1, <2>2, MoveOn DEF IInv, TypeOK
<1>3. CASE NextItem(w)
  <2>1. PICK i \in worker[w].todo :
          worker' = IF RefusesArguments(i)
                    THEN [worker EXCEPT ![w].todo = @ \ {i}]
                    ELSE [worker EXCEPT ![w].pc = "start", ![w].item = i, ![w].todo = @ \ {i}]
    BY <1>3 DEF NextItem
  <2> DEFINE x == IF RefusesArguments(i)
                  THEN [worker[w] EXCEPT !.todo = @ \ {i}]
                  ELSE [worker[w] EXCEPT !.pc = "start", !.item = i, !.todo = @ \ {i}]
  <2>2. worker' = [worker EXCEPT ![w] = x] /\ UNCHANGED Tables /\ faults' = faults
    BY <1>3, <2>1 DEF NextItem
  <2>3. i \in Items /\ worker[w].pc = "idle" /\ \A j \in worker[w].todo : status[j] # "none"
    BY <1>1, <1>3 DEF NextItem, At, Worker, Knows
  <2>4. Plain(x)
    BY <1>1, <2>3 DEF Plain, Worker, Phases
  <2> HIDE DEF x
  <2> QED BY <1>1, <2>2, <2>4, MoveOn DEF IInv, TypeOK
<1> QED BY <1>2, <1>3 DEF Drain

(* The check of a report before its transaction writes.                    *)
LEMMA ReadMoves ==
  ASSUME IInv, NEW w \in Workers, NEW i \in Items, status[i] # "none", ReadStatus(w, i),
         faults' = faults
  PROVE  IInv'
<1>1. TypeOK /\ Knows(w) /\ UNCHANGED Tables /\ faults' \in 0 .. MaxFaults
  BY DEF IInv, AllKnow, ReadStatus, TypeOK
<1>2. CASE End(w)
  BY <1>1, <1>2, EndIsPlain, MoveOn
<1>3. CASE GoTo(w, i, "insert")
  BY <1>1, <1>3, GoIsPlain, MoveOn
<1> QED BY <1>2, <1>3 DEF ReadStatus

(* Scripts that die, and requests for a row that exists.                   *)
LEMMA GiveUpMoves == ASSUME IInv, NEW w \in Workers, GiveUp(w) PROVE IInv'
<1>1. TypeOK /\ Knows(w) /\ worker[w] \in Worker
  BY DEF IInv, AllKnow, TypeOK
<1>2. UNCHANGED Tables /\ faults' \in 0 .. MaxFaults
  BY <1>1, RunsAssumption DEF GiveUp, TypeOK
<1>3. PICK todo \in {worker[w].todo, {}} :
        worker' = [worker EXCEPT ![w] = [IdleWorker EXCEPT !.todo = todo]]
  BY DEF GiveUp
<1> DEFINE x == [IdleWorker EXCEPT !.todo = todo]
<1>4. todo \in SUBSET Items /\ \A i \in todo : status[i] # "none"
  BY <1>1 DEF Worker, Knows
<1>5. Plain(x)
  BY <1>4 DEF Plain, Worker, IdleWorker, Phases, Scores, Lists
<1> HIDE DEF x
<1> QED BY <1>2, <1>3, <1>5, MoveOn DEF x

LEMMA BeginMoves ==
  ASSUME IInv, NEW w \in Workers,
         (\E e \in Evals : StartCreate(w, e)) \/ (\E i \in Items : RunByHand(w, i))
  PROVE  IInv'
<1>1. TypeOK /\ Knows(w) /\ Evals \subseteq Items
  BY DEF IInv, AllKnow, Items
<1>2. CASE \E e \in Evals : StartCreate(w, e)
  <2>1. PICK e \in Evals : StartCreate(w, e)
    BY <1>2
  <2>2. /\ status[e] # "none" /\ GoTo(w, e, "create")
        /\ UNCHANGED Tables /\ faults' \in 0 .. MaxFaults
    BY <1>1, <2>1 DEF StartCreate, TypeOK
  <2> QED BY <1>1, <2>2, GoIsPlain, MoveOn
<1>3. CASE \E i \in Items : RunByHand(w, i)
  <2>1. PICK i \in Items : RunByHand(w, i)
    BY <1>3
  <2>2. /\ status[i] # "none" /\ GoTo(w, i, "start")
        /\ UNCHANGED Tables /\ faults' \in 0 .. MaxFaults
    BY <1>1, <2>1 DEF RunByHand, Fetchable, TypeOK
  <2> QED BY <1>1, <2>2, GoIsPlain, MoveOn
<1> QED BY <1>2, <1>3

(* What a worker relies on outlives the steps of others: no row becomes    *)
(* unborn or pending again.                                                *)
NoReturn ==
    \A i \in Items :
        /\ status[i] # "none" => status'[i] # "none"
        /\ status[i] \notin {"none", "PENDING"} => status'[i] # "PENDING"

LEMMA StillKnows ==
  ASSUME TypeOK, NEW v \in Workers, Knows(v), worker'[v] = worker[v], NoReturn,
         At(v, "commit") /\ Item(v) \in Evals =>
           \A x \in rows'[Item(v)] : x[1] \notin worker[v].list,
         At(v, "commit") /\ Item(v) \in Trainings => \A t \in Trainings : child'[t] # "made"
  PROVE  Knows(v)'
<1>1. worker[v].todo \subseteq Items
  BY DEF TypeOK, Worker
<1>2. \A i \in worker'[v].todo : status'[i] # "none"
  BY <1>1 DEF Knows, NoReturn
<1>3. ~At(v, "idle")' => Item(v)' \in Items /\ status'[Item(v)'] # "none"
  BY DEF Knows, NoReturn, At, Item
<1>4. At(v, "run")' => status'[Item(v)'] # "PENDING"
  BY DEF Knows, NoReturn, At, Item
<1>5. At(v, "commit")' /\ Item(v)' \in Evals => Clear(Item(v), worker[v].list)'
  BY DEF At, Item, Clear
<1> QED BY <1>2, <1>3, <1>4, <1>5 DEF Knows, At, Item

(* The insert of a report waits for the others, and takes the key.         *)
LEMMA InsertRowsStep == ASSUME IInv, NEW w \in Workers, InsertRows(w) PROVE IInv'
<1>1. TypeOK /\ Knows(w) /\ worker[w] \in Worker /\ Item(w) \in Items
  BY DEF IInv, AllKnow, TypeOK, InsertRows, Knows, At
<1>2. UNCHANGED Tables /\ faults' \in 0 .. MaxFaults
  BY <1>1 DEF InsertRows, TypeOK
<1>3. PICK s \in Scores, l \in Lists :
        /\ Inserting(Item(w), l) = {}
        /\ IF KeyTaken(Item(w), l)
           THEN End(w)
           ELSE worker' = [worker EXCEPT ![w].pc = "commit", ![w].score = s, ![w].list = l]
  BY DEF InsertRows
<1>4. CASE End(w)
  BY <1>1, <1>2, <1>4, EndIsPlain, MoveOn
<1>5. CASE /\ ~KeyTaken(Item(w), l)
           /\ worker' = [worker EXCEPT ![w].pc = "commit", ![w].score = s, ![w].list = l]
  <2> DEFINE x == [worker[w] EXCEPT !.pc = "commit", !.score = s, !.list = l]
  <2>1. worker' = [worker EXCEPT ![w] = x] /\ x \in Worker
    BY <1>1, <1>5 DEF Worker, Phases
  <2>2. x.pc = "commit" /\ x.item = Item(w) /\ x.list = l /\ x.todo = worker[w].todo
    BY <1>1 DEF Worker, Item
  <2> HIDE DEF x
  <2>3. worker'[w] = x /\ \A v \in Workers : v # w => worker'[v] = worker[v]
    BY <1>1, <2>1 DEF TypeOK
  <2>4. worker' \in [Workers -> Worker]
    BY <1>1, <2>1 DEF TypeOK
  <2>5. TypeOK' /\ Sound'
    BY <1>2, <2>4 DEF IInv, TypeOK, Sound, Tables, ReportsLandWhole, Items
  <2>6. ASSUME NEW v \in Workers PROVE Knows(v)'
    <3>1. CASE v = w
      <4>1. Item(w) \in Evals => Clear(Item(w), l)
        BY <1>5 DEF KeyTaken, Clear
      <4>2. Item(w) \in Trainings => \A t \in Trainings : child[t] # "made"
        BY <1>5, RunsAssumption DEF KeyTaken
      <4>3. status[Item(w)] # "none" /\ \A i \in worker[w].todo : status[i] # "none"
        BY <1>1 DEF InsertRows, Knows, At
      <4> QED BY <1>1, <1>2, <2>2, <2>3, <3>1, <4>1, <4>2, <4>3
              DEF Knows, At, Item, Tables, Clear
    <3>2. CASE v # w
      BY <1>2, <2>3, <3>2 DEF IInv, AllKnow, Knows, At, Item, Tables, Clear
    <3> QED BY <3>1, <3>2
  <2>7. ASSUME NEW v \in Workers, v # w, At(v, "commit")
        PROVE  /\ Item(w) \in Evals /\ Item(w) = Item(v) => l \cap worker[v].list = {}
               /\ Item(v) \in Evals \/ Item(w) \in Evals
    <3>1. ~SameKey(Item(w), l, Item(v), worker[v].list)
      BY <1>3, <2>7 DEF Inserting
    <3>2. Item(v) \in Items
      BY <2>7 DEF IInv, AllKnow, Knows, At
    <3> QED BY <1>1, <3>1, <3>2 DEF SameKey, Items
  <2>8. AllApart'
    <3> SUFFICES ASSUME NEW u \in Workers, NEW v \in Workers, u # v PROVE Apart(u, v)'
      BY DEF AllApart
    <3>1. CASE u # w /\ v # w
      BY <2>3, <3>1 DEF IInv, AllApart, Apart, At, Item
    <3>2. CASE u = w
      BY <2>2, <2>3, <2>7, <3>2 DEF Apart, At, Item
    <3>3. CASE v = w
      BY <2>2, <2>3, <2>7, <3>3 DEF Apart, At, Item
    <3> QED BY <3>1, <3>2, <3>3
  <2> QED BY <2>5, <2>6, <2>8 DEF IInv, AllKnow
<1> QED BY <1>3, <1>4, <1>5

-----------------------------------------------------------------------------
(* Steps that write a table: the one who takes it must go where it relies  *)
(* on nothing, and leave the others what they rely on.                     *)
LEMMA TableStep ==
  ASSUME IInv, NEW w \in Workers, NEW x, Plain(x), worker' = [worker EXCEPT ![w] = x],
         status' \in [Items -> Statuses], rows' \in [Evals -> SUBSET (Sessions \X Report)],
         score' \in [Evals -> Report \cup {None}], source' \in [Trainings -> Evals \cup {None}],
         child' \in [Trainings -> {"none", "made", "deleted"}], faults' = faults,
         Sound', NoReturn,
         \A v \in Workers : v # w => (worker'[v] = worker[v] => Knows(v)')
  PROVE  IInv'
<1>1. worker'[w] = x /\ \A v \in Workers : v # w => worker'[v] = worker[v]
  BY DEF IInv, TypeOK
<1>2. worker' \in [Workers -> Worker]
  BY DEF IInv, TypeOK, Plain
<1>3. TypeOK'
  BY <1>2 DEF IInv, TypeOK
<1>4. Knows(w)'
  BY <1>1 DEF Plain, Worker, Knows, At, Item, NoReturn
<1>5. AllKnow'
  BY <1>1, <1>4 DEF AllKnow
<1>6. AllApart'
  BY <1>1 DEF IInv, AllApart, Apart, At, Item, Plain
<1> QED BY <1>3, <1>5, <1>6 DEF IInv

LEMMA CreateEvalStep == ASSUME IInv, NEW e \in Evals, CreateEval(e) PROVE IInv'
<1>1. /\ status[e] = "none" /\ e \in Items
      /\ status' \in [Items -> Statuses] /\ status'[e] = "PENDING"
      /\ \A i \in Items : i # e => status'[i] = status[i]
  BY DEF CreateEval, IInv, TypeOK, Items, Statuses
<1>2. UNCHANGED <<rows, score, source, child, worker, faults>>
  BY DEF CreateEval
<1>3. TypeOK'
  BY <1>1, <1>2 DEF IInv, TypeOK
<1>4. rows[e] = {}
  BY <1>1 DEF IInv, Sound
<1>5. e \notin Trainings /\ Trainings \subseteq Items /\ Evals \subseteq Items
  BY RunsAssumption DEF Items
<1>6. ReportsLandWhole'
  BY <1>1, <1>2, <1>4, <1>5 DEF IInv, Sound, ReportsLandWhole, Active
<1>7. Sound'
  BY <1>1, <1>2, <1>5, <1>6 DEF IInv, Sound, Active
<1>8. AllKnow'
  <2>1. NoReturn
    BY <1>1 DEF NoReturn
  <2> QED BY <1>2, <2>1, StillKnows DEF IInv, AllKnow, Knows, Clear
<1>9. AllApart'
  BY <1>2 DEF IInv, AllApart, Apart, At, Item
<1> QED BY <1>3, <1>7, <1>8, <1>9 DEF IInv

LEMMA DeleteChildStep == ASSUME IInv, NEW t \in Trainings, DeleteChild(t) PROVE IInv'
<1>1. /\ child[t] = "made" /\ child' \in [Trainings -> {"none", "made", "deleted"}]
      /\ child'[t] = "deleted" /\ \A u \in Trainings : u # t => child'[u] = child[u]
  BY DEF DeleteChild, IInv, TypeOK
<1>2. UNCHANGED <<status, rows, score, source, worker, faults>>
  BY DEF DeleteChild
<1>3. TypeOK'
  BY <1>1, <1>2 DEF IInv, TypeOK
<1>4. Sound'
  BY <1>1, <1>2 DEF IInv, Sound, ReportsLandWhole
<1>5. AllKnow' /\ AllApart'
  BY <1>1, <1>2 DEF IInv, AllKnow, AllApart, Knows, Apart, At, Item, Clear
<1> QED BY <1>3, <1>4, <1>5 DEF IInv

(* Start: nobody was at work on what was still pending.                    *)
LEMMA StartStep == ASSUME IInv, NEW w \in Workers, Start(w) PROVE IInv'
<1>1. TypeOK /\ Knows(w) /\ worker[w] \in Worker /\ Item(w) \in Items
  BY DEF IInv, AllKnow, TypeOK, Start, Knows, At
<1>2. UNCHANGED <<rows, score, source, child, faults>>
  BY DEF Start
<1>3. CASE End(w) /\ status' = status
  BY <1>1, <1>2, <1>3, EndIsPlain, MoveOn DEF Tables, TypeOK
<1>4. CASE /\ Startable(Item(w)) /\ GoTo(w, Item(w), "run")
           /\ status' = [status EXCEPT ![Item(w)] = "IN_PROGRESS"]
  <2> DEFINE i == Item(w)
             x == [worker[w] EXCEPT !.pc = "run"]
  <2>1. /\ status[i] = "PENDING" /\ status' \in [Items -> Statuses] /\ status'[i] = "IN_PROGRESS"
        /\ \A j \in Items : j # i => status'[j] = status[j]
    BY <1>1, <1>4 DEF Startable, TypeOK, Statuses
  <2>2. worker' = [worker EXCEPT ![w] = x] /\ x \in Worker /\ x.pc = "run" /\ x.item = i
    BY <1>1, <1>4 DEF GoTo, Worker, Phases, Item
  <2> HIDE DEF x
  <2>3. worker'[w] = x /\ \A v \in Workers : v # w => worker'[v] = worker[v]
    BY <1>1, <2>2 DEF TypeOK
  <2>4. TypeOK'
    <3>1. worker' \in [Workers -> Worker]
      BY <1>1, <2>2 DEF TypeOK
    <3> QED BY <1>1, <1>2, <2>1, <3>1 DEF TypeOK
  <2>5. \A j \in Items : /\ (status'[j] \in Active) <=> (status[j] \in Active)
                         /\ (status'[j] = "DONE") <=> (status[j] = "DONE")
                         /\ (status'[j] = "none") <=> (status[j] = "none")
    BY <2>1 DEF Active
  <2>6. Sound'
    <3>1. Evals \subseteq Items /\ Trainings \subseteq Items
      BY DEF Items
    <3>2. ReportsLandWhole'
      BY <1>2, <2>5, <3>1 DEF IInv, Sound, ReportsLandWhole
    <3> QED BY <1>2, <2>5, <3>1, <3>2 DEF IInv, Sound
  <2>7. ASSUME NEW v \in Workers PROVE Knows(v)'
    <3>1. CASE v = w
      <4>1. x.todo = worker[w].todo /\ worker[w].todo \subseteq Items
        BY <1>1 DEF x, Worker
      <4>2. \A j \in x.todo : status'[j] # "none"
        BY <1>1, <2>5, <4>1 DEF Knows
      <4> QED BY <1>1, <2>1, <2>2, <2>3, <3>1, <4>2 DEF Knows, At, Item
    <3>2. CASE v # w
      <4>1. NoReturn
        BY <2>1 DEF NoReturn
      <4> QED BY <1>1, <1>2, <2>3, <3>2, <4>1, StillKnows DEF IInv, AllKnow, Knows, Clear
    <3> QED BY <3>1, <3>2
  <2>8. \A v \in Workers : At(v, "run") => Item(v) # i
    BY <2>1 DEF IInv, AllKnow, Knows
  <2>9. AllApart'
    BY <2>2, <2>3, <2>8 DEF IInv, AllApart, Apart, At, Item
  <2> QED BY <2>4, <2>6, <2>7, <2>9 DEF IInv, AllKnow
<1> QED BY <1>2, <1>3, <1>4 DEF Start

LEMMA InsertTrainingStep ==
  ASSUME IInv, NEW w \in Workers, NEW t \in Trainings, InsertTraining(w, t) PROVE IInv'
<1>1. TypeOK /\ Knows(w) /\ End(w) /\ UNCHANGED <<rows, score, child, faults>> /\ Item(w) \in Evals
  BY DEF IInv, AllKnow, Knows, InsertTraining, At
<1>2. CASE status' = status /\ source' = source
  BY <1>1, <1>2, EndIsPlain, MoveOn DEF Tables, TypeOK
<1>3. CASE /\ ~ActiveOn(Item(w))
           /\ status' = [status EXCEPT ![t] = "PENDING"]
           /\ source' = [source EXCEPT ![t] = Item(w)]
  <2> DEFINE e == Item(w)
  <2>1. /\ status' \in [Items -> Statuses] /\ status'[t] = "PENDING"
        /\ \A i \in Items : i # t => status'[i] = status[i]
        /\ source' \in [Trainings -> Evals \cup {None}] /\ source'[t] = e
        /\ \A u \in Trainings : u # t => source'[u] = source[u]
    BY <1>1, <1>3 DEF TypeOK, Items, Statuses
  <2>2. source[t] = None /\ status[t] = "none" /\ e # None
    BY <1>1, RunsAssumption DEF InsertTraining, IInv, Sound
  <2>3. \A u \in Trainings : source[u] = e => status[u] \notin Active
    BY <1>3 DEF ActiveOn, TrainingsOf
  <2>4. Evals \subseteq Items /\ Trainings \subseteq Items /\ t \notin Evals
    BY RunsAssumption DEF Items
  <2> HIDE DEF e
  <2>5. ReportsLandWhole'
    BY <1>1, <2>1, <2>4 DEF IInv, Sound, ReportsLandWhole
  <2>6. Sound'
    <3>1. \A u \in Trainings : child'[u] # "none" <=> status'[u] = "DONE"
      BY <1>1, <2>1, <2>2, <2>4 DEF IInv, Sound
    <3>2. \A u \in Trainings : source'[u] = None <=> status'[u] = "none"
      BY <2>1, <2>2, <2>4 DEF IInv, Sound
    <3>3. \A u, v \in Trainings :
            source'[u] = source'[v] /\ {status'[u], status'[v]} \subseteq Active => u = v
      BY <2>1, <2>3, <2>4 DEF IInv, Sound
    <3> QED BY <1>1, <2>1, <2>4, <2>5, <3>1, <3>2, <3>3 DEF IInv, Sound
  <2>7. NoReturn
    BY <2>1, <2>2 DEF NoReturn
  <2>8. ASSUME NEW v \in Workers, worker'[v] = worker[v] PROVE Knows(v)'
    BY <1>1, <2>7, <2>8, StillKnows DEF IInv, AllKnow, Knows, Clear
  <2>9. PICK x : Plain(x) /\ worker' = [worker EXCEPT ![w] = x]
    BY <1>1, EndIsPlain
  <2> QED BY <1>1, <2>1, <2>6, <2>7, <2>8, <2>9, TableStep DEF TypeOK
<1> QED BY <1>2, <1>3 DEF InsertTraining, ActiveIndexFree

(* The sessions and the score of a report are written together, beside the *)
(* rows of reports it has no session in common with.                       *)
LEMMA CommitEvalStep == ASSUME IInv, NEW w \in Workers, CommitEval(w) PROVE IInv'
<1> DEFINE e == Item(w)
           r == [by |-> w, score |-> worker[w].score, list |-> worker[w].list]
<1>1. /\ TypeOK /\ Knows(w) /\ At(w, "commit") /\ e \in Evals /\ End(w)
      /\ Clear(e, worker[w].list)
  BY DEF IInv, AllKnow, CommitEval, Knows
<1>2. r \in Report /\ r.list = worker[w].list
  BY <1>1 DEF TypeOK, Worker, Report
<1>3. /\ rows' = [rows EXCEPT ![e] = @ \cup r.list \X {r}]
      /\ score' = [score EXCEPT ![e] = r]
      /\ status' = [status EXCEPT ![e] = "DONE"]
      /\ UNCHANGED <<source, child, faults>>
  BY DEF CommitEval
<1> HIDE DEF r
<1>4. r.list \X {r} \subseteq Sessions \X Report
  BY <1>2 DEF Report, Lists
<1>5. /\ rows' \in [Evals -> SUBSET (Sessions \X Report)]
      /\ rows'[e] = rows[e] \cup (r.list \X {r})
      /\ \A f \in Evals : f # e => rows'[f] = rows[f]
  BY <1>1, <1>3, <1>4 DEF TypeOK
<1>6. /\ score' \in [Evals -> Report \cup {None}] /\ score'[e] = r /\ r # None
      /\ \A f \in Evals : f # e => score'[f] = score[f]
  <2>1. r # None
    BY <1>2, NoneAssumption
  <2> QED BY <1>1, <1>2, <1>3, <2>1 DEF TypeOK
<1>7. /\ status' \in [Items -> Statuses] /\ status'[e] = "DONE"
      /\ \A i \in Items : i # e => status'[i] = status[i]
  BY <1>1, <1>3 DEF TypeOK, Items, Statuses
<1>8. Evals \subseteq Items /\ Trainings \subseteq Items /\ e \notin Trainings
  BY <1>1, RunsAssumption DEF Items
<1>9. Sound'
  <2>1. \A x \in r.list \X {r} : x[1] \in r.list /\ x[2] = r /\ x = <<x[1], r>>
    OBVIOUS
  <2>2. \A x, y \in rows'[e] : x[1] = y[1] => x = y
    <3>1. \A x, y \in rows[e] : x[1] = y[1] => x = y
      BY <1>1 DEF IInv, Sound, ReportsLandWhole
    <3>2. \A x \in rows[e] : x[1] \notin r.list
      BY <1>1, <1>2 DEF Clear
    <3> QED BY <1>5, <2>1, <3>1, <3>2
  <2>3. \A x \in rows'[e] : x[2].list \X {x[2]} \subseteq rows'[e]
    <3>1. \A x \in rows[e] : x[2].list \X {x[2]} \subseteq rows[e]
      BY <1>1 DEF IInv, Sound, ReportsLandWhole
    <3> QED BY <1>5, <2>1, <3>1
  <2>4. ReportsLandWhole'
    <3> SUFFICES ASSUME NEW f \in Evals
                 PROVE  /\ \A x, y \in rows'[f] : x[1] = y[1] => x = y
                        /\ \A x \in rows'[f] : x[2].list \X {x[2]} \subseteq rows'[f]
                        /\ score'[f] # None => score'[f].list \X {score'[f]} \subseteq rows'[f]
                        /\ status'[f] \in Active => rows'[f] = {} /\ score'[f] = None
                        /\ status'[f] = "DONE" => score'[f] # None
      BY DEF ReportsLandWhole
    <3>1. CASE f = e
      BY <1>5, <1>6, <1>7, <2>2, <2>3, <3>1 DEF Active
    <3>2. CASE f # e
      <4>1. rows'[f] = rows[f] /\ score'[f] = score[f] /\ status'[f] = status[f]
        BY <1>5, <1>6, <1>7, <1>8, <3>2
      <4> QED BY <4>1 DEF IInv, Sound, ReportsLandWhole
    <3> QED BY <3>1, <3>2
  <2>5. \A f \in Evals : status'[f] = "none" => rows'[f] = {} /\ score'[f] = None
    BY <1>5, <1>6, <1>7, <1>8 DEF IInv, Sound
  <2> QED BY <1>3, <1>7, <1>8, <2>4, <2>5 DEF IInv, Sound
<1>10. ASSUME NEW v \in Workers, v # w, worker'[v] = worker[v] PROVE Knows(v)'
  <2>1. At(v, "commit") /\ Item(v) = e => worker[v].list \cap r.list = {}
    BY <1>1, <1>2, <1>10 DEF IInv, AllApart, Apart
  <2>2. NoReturn
    BY <1>7 DEF NoReturn
  <2>3. Knows(v)
    BY DEF IInv, AllKnow
  <2>4. At(v, "commit") /\ Item(v) \in Evals =>
          \A x \in rows'[Item(v)] : x[1] \notin worker[v].list
    <3> SUFFICES ASSUME At(v, "commit"), Item(v) \in Evals
                 PROVE  \A x \in rows'[Item(v)] : x[1] \notin worker[v].list
      OBVIOUS
    <3>1. \A x \in rows[Item(v)] : x[1] \notin worker[v].list
      BY <2>3 DEF Knows, Clear
    <3>2. \A x \in r.list \X {r} : x[1] \in r.list
      OBVIOUS
    <3>3. CASE Item(v) = e
      BY <1>5, <2>1, <3>1, <3>2, <3>3
    <3>4. CASE Item(v) # e
      BY <1>5, <3>1, <3>4
    <3> QED BY <3>3, <3>4
  <2>5. At(v, "commit") /\ Item(v) \in Trainings => \A t \in Trainings : child'[t] # "made"
    BY <1>3, <2>3 DEF Knows
  <2> QED BY <1>1, <1>10, <2>2, <2>3, <2>4, <2>5, StillKnows
<1>11. PICK x : Plain(x) /\ worker' = [worker EXCEPT ![w] = x]
  BY <1>1, EndIsPlain
<1>12. NoReturn
  BY <1>7 DEF NoReturn
<1> QED BY <1>1, <1>3, <1>5, <1>6, <1>7, <1>9, <1>10, <1>11, <1>12, TableStep DEF TypeOK

(* The version and the end of its training are written together.           *)
LEMMA CommitTrainingStep == ASSUME IInv, NEW w \in Workers, CommitTraining(w) PROVE IInv'
<1> DEFINE t == Item(w)
<1>1. /\ TypeOK /\ Knows(w) /\ At(w, "commit") /\ t \in Trainings /\ End(w)
      /\ status[t] # "none" /\ \A u \in Trainings : child[u] # "made"
  BY DEF IInv, AllKnow, CommitTraining, Knows, At
<1>2. UNCHANGED <<rows, score, source, faults>>
  BY DEF CommitTraining
<1>3. /\ child' \in [Trainings -> {"none", "made", "deleted"}] /\ child'[t] = "made"
      /\ \A u \in Trainings : u # t => child'[u] = child[u]
  BY <1>1 DEF CommitTraining, TypeOK
<1>4. /\ status' \in [Items -> Statuses] /\ status'[t] = "DONE"
      /\ \A i \in Items : i # t => status'[i] = status[i]
  BY <1>1 DEF CommitTraining, TypeOK, Items, Statuses
<1>5. Evals \subseteq Items /\ Trainings \subseteq Items /\ t \notin Evals
  BY <1>1, RunsAssumption DEF Items
<1>6. Sound'
  <2>1. ReportsLandWhole'
    BY <1>2, <1>4, <1>5 DEF IInv, Sound, ReportsLandWhole
  <2> QED BY <1>1, <1>2, <1>3, <1>4, <1>5, <2>1 DEF IInv, Sound, Active
<1>7. ASSUME NEW v \in Workers, v # w, worker'[v] = worker[v] PROVE Knows(v)'
  <2>1. At(v, "commit") => Item(v) \in Evals
    BY <1>1, <1>5, <1>7 DEF IInv, AllApart, Apart
  <2>2. NoReturn
    BY <1>4 DEF NoReturn
  <2>3. Item(v) \in Evals => Item(v) \notin Trainings
    BY RunsAssumption
  <2> QED BY <1>1, <1>2, <1>7, <2>1, <2>2, <2>3, StillKnows DEF IInv, AllKnow, Knows, Clear
<1>8. PICK x : Plain(x) /\ worker' = [worker EXCEPT ![w] = x]
  BY <1>1, EndIsPlain
<1>9. NoReturn
  BY <1>4 DEF NoReturn
<1> QED BY <1>1, <1>2, <1>3, <1>4, <1>6, <1>7, <1>8, <1>9, TableStep DEF TypeOK

(* Both ways of failing end in FAILED, which claims nothing.               *)
LEMMA MarkStep ==
  ASSUME IInv, NEW w \in Workers, NEW i \in Items, status[i] # "none",
         i \in Trainings => status[i] \in Active,
         status' = [status EXCEPT ![i] = "FAILED"], End(w),
         UNCHANGED <<rows, score, source, child, faults>>
  PROVE  IInv'
<1>1. TypeOK /\ Knows(w)
  BY DEF IInv, AllKnow
<1>2. /\ status' \in [Items -> Statuses] /\ status'[i] = "FAILED"
      /\ \A j \in Items : j # i => status'[j] = status[j]
  BY <1>1 DEF TypeOK, Statuses
<1>3. Evals \subseteq Items /\ Trainings \subseteq Items
  BY DEF Items
<1>4. Sound'
  <2>1. ReportsLandWhole'
    BY <1>2, <1>3 DEF IInv, Sound, ReportsLandWhole, Active
  <2> QED BY <1>2, <1>3, <2>1 DEF IInv, Sound, Active
<1>5. NoReturn
  BY <1>2 DEF NoReturn
<1>6. ASSUME NEW v \in Workers, worker'[v] = worker[v] PROVE Knows(v)'
  BY <1>1, <1>5, <1>6, StillKnows DEF IInv, AllKnow, Knows, Clear
<1>7. PICK x : Plain(x) /\ worker' = [worker EXCEPT ![w] = x]
  BY <1>1, EndIsPlain
<1> QED BY <1>1, <1>2, <1>4, <1>5, <1>6, <1>7, TableStep DEF TypeOK

LEMMA CommitFailStep == ASSUME IInv, NEW w \in Workers, CommitFail(w) PROVE IInv'
<1>1. Item(w) \in Evals /\ status[Item(w)] # "none" /\ Evals \cap Trainings = {}
  BY RunsAssumption DEF IInv, AllKnow, Knows, CommitFail, At
<1> QED BY <1>1, MarkStep DEF CommitFail, Items

LEMMA FailMoves ==
  ASSUME IInv, NEW w \in Workers, NEW i \in Items, status[i] # "none", Fail(w, i),
         faults' = faults
  PROVE  IInv'
<1>1. TypeOK /\ Knows(w) /\ faults' \in 0 .. MaxFaults
  BY DEF IInv, AllKnow, TypeOK
<1>2. CASE End(w) /\ UNCHANGED Tables
  BY <1>1, <1>2, EndIsPlain, MoveOn
<1>3. CASE i \in Evals /\ GoTo(w, i, "failing") /\ UNCHANGED Tables
  BY <1>1, <1>3, GoIsPlain, MoveOn
<1>4. CASE /\ i \notin Evals /\ status[i] \in Active /\ End(w)
           /\ status' = [status EXCEPT ![i] = "FAILED"]
           /\ UNCHANGED <<rows, score, source, child>>
  BY <1>4, MarkStep DEF Items
<1> QED BY <1>2, <1>3, <1>4 DEF Fail, FailEval, FailTraining, FailsTraining, Tables

(* A report or a failure, from a script that ends or from the UI.          *)
LEMMA RunStep == ASSUME IInv, NEW w \in Workers, Run(w) PROVE IInv'
<1>1. Item(w) \in Items /\ status[Item(w)] # "none"
  BY DEF IInv, AllKnow, Knows, Run, At
<1> QED BY <1>1, ReadMoves, FailMoves DEF Run

LEMMA OperateMoves == ASSUME IInv, NEW w \in Operators, Operate(w) PROVE IInv'
<1>1. w \in Workers /\ Evals \subseteq Items
  BY DEF Workers, Items
<1>2. CASE \E i \in Items : MarkFailed(w, i)
  BY <1>1, <1>2, FailMoves DEF MarkFailed
<1>3. CASE \E e \in Evals : Upload(w, e)
  BY <1>1, <1>3, ReadMoves DEF Upload
<1> QED BY <1>1, <1>2, <1>3, BeginMoves DEF Operate

-----------------------------------------------------------------------------
LEMMA StepHolds == ASSUME IInv, [Next]_vars PROVE IInv'
<1>1. CASE \E e \in Evals : CreateEval(e)
  BY <1>1, CreateEvalStep
<1>2. CASE \E t \in Trainings : DeleteChild(t)
  BY <1>2, DeleteChildStep
<1>3. ASSUME NEW w \in Workers, Request(w) PROVE IInv'
  BY <1>3, InsertRowsStep, InsertTrainingStep, CommitEvalStep, CommitTrainingStep, CommitFailStep
     DEF Request
<1>4. ASSUME NEW w \in Workers, Script(w) \/ GiveUp(w) PROVE IInv'
  BY <1>4, GiveUpMoves, StartStep, RunStep DEF Script
<1>5. CASE \E w \in Drainers : Drain(w)
  BY <1>5, DrainMoves
<1>6. CASE \E w \in Operators : Operate(w)
  BY <1>6, OperateMoves
<1>7. CASE UNCHANGED vars
  BY <1>7 DEF vars, IInv, TypeOK, Sound, ReportsLandWhole, AllKnow, AllApart, Knows, Apart, Clear, At, Item
<1> QED BY <1>1, <1>2, <1>3, <1>4, <1>5, <1>6, <1>7 DEF Next

LEMMA AlwaysIInv == Spec => []IInv
  BY InitHolds, StepHolds, PTL DEF Spec

(* A set any two of whose members are equal has at most one.               *)
LEMMA AtMostOne ==
  ASSUME NEW S, \A x, y \in S : x = y
  PROVE  Cardinality(S) <= 1
<1>1. CASE S = {}
  BY <1>1, FS_EmptySet
<1>2. CASE S # {}
  <2>1. PICK x \in S : TRUE
    BY <1>2
  <2>2. S = {x}
    BY <2>1
  <2> QED BY <2>2, FS_Singleton
<1> QED BY <1>1, <1>2

(* Every variable keeps its type, whatever scripts and people do.          *)
THEOREM TypeCorrect == Spec => []TypeOK
<1>1. IInv => TypeOK
  BY DEF IInv
<1> QED BY <1>1, AlwaysIInv, PTL

(* Of the reports of an eval, whatever sessions each names, all the rows or*)
(* none land, two with a session in common never both do, and the score is *)
(* from one that landed (eval.go, Submit and Fail; the key of              *)
(* eval_sessions).                                                         *)
THEOREM WholeResults == Spec => []ReportsLandWhole
<1>1. IInv => ReportsLandWhole
  BY DEF IInv, Sound
<1> QED BY <1>1, AlwaysIInv, PTL

(* A training is DONE exactly when it made its version, and a version has  *)
(* one child (training_session.go, Complete and Fail).                     *)
THEOREM ChildComesWithDone == Spec => []ChildIffDone
<1>1. ASSUME IInv PROVE ChildIffDone
  <2>1. Cardinality({t \in Trainings : child[t] = "made"}) <= 1
    BY <1>1, AtMostOne DEF IInv, Sound
  <2> QED BY <1>1, <2>1 DEF ChildIffDone, IInv, Sound
<1> QED BY <1>1, AlwaysIInv, PTL

(* A run has one script at work on it, and an eval one active training     *)
(* (Start and Create of both, and the partial unique index).               *)
THEOREM RunsAreExclusive == Spec => []ExclusiveRuns
<1>1. ASSUME IInv PROVE ExclusiveRuns
  <2>1. ASSUME NEW i \in Items
        PROVE  Cardinality(AtWork(i)) <= 1 /\ (AtWork(i) # {} => status[i] # "PENDING")
    <3>1. \A v, w \in AtWork(i) : v = w
      BY <1>1 DEF AtWork, IInv, AllApart, Apart
    <3>2. Cardinality(AtWork(i)) <= 1
      BY <3>1, AtMostOne
    <3>3. AtWork(i) # {} => status[i] # "PENDING"
      BY <1>1 DEF AtWork, IInv, AllKnow, Knows
    <3> QED BY <3>2, <3>3
  <2>2. ASSUME NEW e \in Evals
        PROVE  Cardinality({t \in TrainingsOf(e) : status[t] \in Active}) <= 1
    <3> DEFINE S == {t \in TrainingsOf(e) : status[t] \in Active}
    <3>1. \A t, u \in S : t = u
      BY <1>1 DEF TrainingsOf, IInv, Sound
    <3> QED BY <3>1, AtMostOne
  <2> QED BY <2>1, <2>2 DEF ExclusiveRuns
<1> QED BY <1>1, AlwaysIInv, PTL
=============================================================================
