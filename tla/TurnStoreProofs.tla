--------------------------- MODULE TurnStoreProofs ---------------------------
(***************************************************************************)
(* Theorems about TurnStore, for every number of turns, uploads and blobs. *)
(***************************************************************************)
EXTENDS TurnStore, Sequences, FiniteSetTheorems, TLAPS

-----------------------------------------------------------------------------
(* Typing.  NextSeq writes MaxSeq + 1, which is a number only while the    *)
(* log has a highest message, so typing rests on the numbering below.      *)

Dense == \E n \in Nat : Seqs = 1 .. n

LEMMA MaxOfDense ==
  ASSUME NEW n \in Nat, Seqs = 1 .. n
  PROVE  MaxSeq = n
<1>1. CASE n = 0
  <2>1. Seqs = {} BY <1>1
  <2>2. log = {} BY <2>1 DEF Seqs
  <2> QED BY <2>2, <1>1 DEF MaxSeq
<1>2. CASE n # 0
  <2>1. n \in Seqs /\ \A k \in Seqs : k <= n BY <1>2
  <2>2. log # {} BY <2>1 DEF Seqs
  <2>3. \A j \in Seqs : (\A k \in Seqs : k <= j) => j = n BY <2>1
  <2> QED BY <2>1, <2>2, <2>3 DEF MaxSeq
<1> QED BY <1>1, <1>2

LEMMA MaxSeqNat == Dense => MaxSeq \in Nat /\ Seqs = 1 .. MaxSeq
  BY MaxOfDense DEF Dense

LEMMA TypeInit == Init => TypeOK
<1> SUFFICES ASSUME Init PROVE TypeOK OBVIOUS
<1> USE DEF Init
<1>1. exists \in BOOLEAN /\ locked \in BOOLEAN /\ sessLock \in Turns \cup {Closer, None}
  OBVIOUS
<1>2. log \in SUBSET Message /\ rows \in SUBSET Row /\ store \in SUBSET Blobs
  OBVIOUS
<1>3. pc \in [Turns -> {"idle", "seq", "tools", "done"} \cup InTx]
  OBVIOUS
<1>4. msg \in [Turns -> Message]
  BY DEF Message, Roles
<1>5. snap \in [Turns -> SUBSET Row] /\ claim \in [Turns -> SUBSET Row] /\ rounds \in [Turns -> Nat]
  OBVIOUS
<1>6. upc \in [Uploads -> UploadPhases] /\ blob \in [Uploads -> Blobs]
  BY DEF UploadPhases
<1>7. advLock \in Uploads \cup {None} /\ deleting \in SUBSET Uploads
  OBVIOUS
<1> QED BY <1>1, <1>2, <1>3, <1>4, <1>5, <1>6, <1>7 DEF TypeOK

LEMMA RollbackType == ASSUME TypeOK, NEW t \in Turns, Rollback(t) PROVE TypeOK'
  BY DEF TypeOK, Rollback, tables, uploadVars

LEMMA TurnType ==
  ASSUME TypeOK, Dense, NEW t \in Turns,
         Admit(t) \/ TurnStep(t) \/ AbortTurn(t) \/ DeadlockVictim(t)
  PROVE  TypeOK'
<1> USE DEF TypeOK, session, tables, turnVars, uploadVars
<1>1. CASE Admit(t)
  <2>1. PICK text \in BOOLEAN : msg' = [msg EXCEPT ![t].text = text]
    BY <1>1 DEF Admit
  <2>2. [msg[t] EXCEPT !.text = text] \in Message
    BY <2>1 DEF Message
  <2>3. msg' \in [Turns -> Message]
    BY <2>1, <2>2
  <2> QED BY <1>1, <2>3 DEF Admit
<1>2. CASE NextSeq(t)
  <2>1. NextFree \in Nat
    BY MaxSeqNat DEF NextFree
  <2>2. msg' \in [Turns -> Message]
    BY <1>2, <2>1 DEF NextSeq, Message
  <2> QED BY <1>2, <2>2 DEF NextSeq, InTx
<1>3. CASE LockSession(t)
  BY <1>3 DEF LockSession, InTx
<1>4. CASE LockRefused(t) \/ EmptyTurn(t) \/ InsertRefused(t) \/ AbortTurn(t) \/ DeadlockVictim(t)
  BY <1>4, RollbackType DEF LockRefused, EmptyTurn, InsertRefused, AbortTurn, DeadlockVictim
<1>5. CASE ClaimScan(t)
  BY <1>5 DEF ClaimScan, PendingRows, InTx
<1>6. CASE Claim(t)
  <2>1. Claimable(t) \in SUBSET Row
    BY DEF Claimable, PendingRows
  <2>2. {r.blob : r \in Claimable(t)} \in SUBSET Blobs
    BY <2>1 DEF Row
  <2>3. msg' \in [Turns -> Message]
    <3>1. msg' = [msg EXCEPT ![t] = [@ EXCEPT !.refs = {r.blob : r \in Claimable(t)}]]
      BY <1>6 DEF Claim
    <3>2. [msg[t] EXCEPT !.refs = {r.blob : r \in Claimable(t)}] \in Message
      BY <2>2 DEF Message
    <3> QED BY <3>1, <3>2
  <2>4. claim' \in [Turns -> SUBSET Row]
    BY <1>6, <2>1 DEF Claim
  <2> QED BY <1>6, <2>3, <2>4 DEF Claim, InTx
<1>7. CASE Insert(t)
  BY <1>7 DEF Insert, InTx
<1>8. CASE CommitTurn(t)
  <2>1. log' \in SUBSET Message
    BY <1>8 DEF CommitTurn
  <2>2. WrittenRows(t) \in SUBSET Row
    <3>1. msg[t] \in Message /\ claim[t] \in SUBSET Row
      OBVIOUS
    <3>2. \A r \in claim[t] : [r EXCEPT !.msg = msg[t].seq] \in Row
      <4>1. msg[t].seq \in Nat BY <3>1 DEF Message
      <4>2. \A r \in Row : \A n \in Nat : [r EXCEPT !.msg = n] \in Row BY DEF Row
      <4> QED BY <3>1, <4>1, <4>2
    <3>3. \A b \in msg[t].refs :
            [id |-> t, origin |-> "tool_result", blob |-> b, msg |-> msg[t].seq] \in Row
      BY <3>1 DEF Message, Row
    <3> QED BY <3>2, <3>3 DEF WrittenRows
  <2>3. rows' \in SUBSET Row
    BY <1>8, <2>2 DEF CommitTurn
  <2>4. msg' \in [Turns -> Message]
    BY <1>8 DEF CommitTurn, Message, Roles
  <2>5. rounds' \in [Turns -> Nat]
    BY <1>8 DEF CommitTurn
  <2>6. pc' \in [Turns -> {"idle", "seq", "tools", "done"} \cup InTx]
    BY <1>8 DEF CommitTurn
  <2>7. snap' \in [Turns -> SUBSET Row] /\ claim' \in [Turns -> SUBSET Row]
    BY <1>8 DEF CommitTurn
  <2> QED BY <1>8, <2>1, <2>3, <2>4, <2>5, <2>6, <2>7 DEF CommitTurn
<1>9. CASE RunTools(t)
  <2>1. PICK results \in SUBSET Blobs :
          /\ msg' = [msg EXCEPT ![t].role = "tool", ![t].refs = results]
          /\ store' = store \cup results
    BY <1>9 DEF RunTools
  <2>2. msg' \in [Turns -> Message]
    <3>1. msg' = [msg EXCEPT ![t] = [@ EXCEPT !.role = "tool", !.refs = results]]
      BY <2>1
    <3>2. [msg[t] EXCEPT !.role = "tool", !.refs = results] \in Message
      BY <2>1 DEF Message, Roles
    <3> QED BY <3>1, <3>2
  <2> QED BY <1>9, <2>1, <2>2 DEF RunTools
<1> QED BY <1>1, <1>2, <1>3, <1>4, <1>5, <1>6, <1>7, <1>8, <1>9 DEF TurnStep

LEMMA UploadType ==
  ASSUME TypeOK, NEW u \in Uploads,
         StartUpload(u) \/ UploadStep(u) \/ AbortUpload(u) \/ StartDelete(u) \/ DeletePending(u)
  PROVE  TypeOK'
<1> USE DEF TypeOK, session, tables, turnVars, uploadVars, UploadPhases, EndUpload, AdvLockAfter
<1>1. CASE StartUpload(u)
  BY <1>1 DEF StartUpload
<1>2. CASE PutBlob(u)
  BY <1>2 DEF PutBlob, AfterFailedPut
<1>3. CASE LockUpload(u)
  BY <1>3 DEF LockUpload
<1>4. CASE RecheckSession(u)
  BY <1>4 DEF RecheckSession
<1>5. CASE ScanPending(u)
  BY <1>5 DEF ScanPending
<1>6. CASE InsertUpload(u)
  BY <1>6 DEF InsertUpload, Row, NoMessage
<1>7. CASE AbortUpload(u)
  BY <1>7 DEF AbortUpload
<1>8. CASE StartDelete(u)
  BY <1>8 DEF StartDelete
<1>9. CASE DeletePending(u)
  BY <1>9 DEF DeletePending
<1> QED BY <1>1, <1>2, <1>3, <1>4, <1>5, <1>6, <1>7, <1>8, <1>9 DEF UploadStep

LEMMA SessionType == ASSUME TypeOK, CloseLock \/ CloseStep \/ DeleteSession PROVE TypeOK'
  BY DEF TypeOK, session, tables, turnVars, uploadVars, CloseLock, CloseStep,
         CloseCommit, CloseAbort, DeleteSession

LEMMA TypeStep == TypeOK /\ Dense /\ [Next]_vars => TypeOK'
<1> SUFFICES ASSUME TypeOK, Dense, [Next]_vars PROVE TypeOK' OBVIOUS
<1>1. CASE UNCHANGED vars
  BY <1>1 DEF TypeOK, vars, session, tables, turnVars, uploadVars
<1>2. CASE Next
  BY <1>2, TurnType, UploadType, SessionType DEF Next
<1> QED BY <1>1, <1>2

-----------------------------------------------------------------------------
(* Numbering.  A number is read in one transaction and used in another, so *)
(* what is inductive is about the numbers still to be used: they never     *)
(* exceed the next free one, and the one being inserted is the next free   *)
(* one and nobody else's.                                                  *)

Distinct == \A m, n \in log : m.seq = n.seq => m = n
HasNumber(t) == pc[t] \in InTx

Numbering ==
    /\ Dense
    /\ Distinct
    /\ \A t \in Turns : exists /\ HasNumber(t) => msg[t].seq \in 1 .. MaxSeq + 1
    /\ \A t \in Turns : pc[t] = "inserted" => exists /\ msg[t].seq = MaxSeq + 1
    /\ \A s, t \in Turns : pc[s] = "inserted" /\ pc[t] = "inserted" => s = t

LEMMA NumberingInit == Init => Numbering
<1> SUFFICES ASSUME Init PROVE Numbering OBVIOUS
<1>1. Seqs = {} BY DEF Init, Seqs
<1>2. Dense
  <2>1. Seqs = 1 .. 0 BY <1>1
  <2> QED BY <2>1 DEF Dense
<1> QED BY <1>2 DEF Init, Numbering, Distinct, HasNumber, InTx

(* Steps that leave the log alone, hand out no number and insert nothing.  *)
QuietStep ==
    /\ log' = log
    /\ exists' = exists
    /\ \A t \in Turns : /\ pc'[t] \in InTx => pc[t] \in InTx /\ msg'[t].seq = msg[t].seq
                        /\ pc'[t] = "inserted" => pc[t] = "inserted"

LEMMA NumberingQuiet == ASSUME Numbering, QuietStep PROVE Numbering'
<1>1. Seqs' = Seqs /\ MaxSeq' = MaxSeq
  BY DEF QuietStep, Seqs, MaxSeq
<1> QED BY <1>1 DEF Numbering, QuietStep, Dense, Distinct, HasNumber, InTx

LEMMA RollbackQuiet == ASSUME TypeOK, NEW t \in Turns, Rollback(t) PROVE QuietStep
  BY DEF TypeOK, Rollback, QuietStep, InTx, tables

LEMMA TurnQuiet ==
  ASSUME TypeOK, NEW t \in Turns,
         \/ Admit(t) \/ LockSession(t) \/ LockRefused(t) \/ ClaimScan(t) \/ Claim(t)
         \/ EmptyTurn(t) \/ InsertRefused(t) \/ RunTools(t) \/ AbortTurn(t) \/ DeadlockVictim(t)
  PROVE  QuietStep
<1> USE DEF TypeOK, QuietStep, InTx, tables, session
<1>1. CASE Admit(t)
  BY <1>1 DEF Admit
<1>2. CASE LockSession(t)
  BY <1>2 DEF LockSession
<1>3. CASE LockRefused(t) \/ EmptyTurn(t) \/ InsertRefused(t) \/ AbortTurn(t) \/ DeadlockVictim(t)
  BY <1>3, RollbackQuiet DEF LockRefused, EmptyTurn, InsertRefused, AbortTurn, DeadlockVictim
<1>4. CASE ClaimScan(t)
  BY <1>4 DEF ClaimScan
<1>5. CASE Claim(t)
  <2>1. \A s \in Turns : msg'[s].seq = msg[s].seq
    BY <1>5 DEF Claim, Message
  <2> QED BY <1>5, <2>1 DEF Claim
<1>6. CASE RunTools(t)
  BY <1>6 DEF RunTools
<1> QED BY <1>1, <1>2, <1>3, <1>4, <1>5, <1>6

LEMMA OtherQuiet ==
  ASSUME TypeOK,
         \/ UNCHANGED vars
         \/ \E u \in Uploads : StartUpload(u) \/ UploadStep(u) \/ AbortUpload(u)
                               \/ StartDelete(u) \/ DeletePending(u)
         \/ CloseLock \/ CloseStep
  PROVE  QuietStep
<1>1. log' = log /\ exists' = exists /\ pc' = pc /\ msg' = msg
  BY DEF vars, tables, session, turnVars, StartUpload, UploadStep, PutBlob, LockUpload,
         RecheckSession, ScanPending, InsertUpload, EndUpload, AbortUpload, StartDelete,
         DeletePending, CloseLock, CloseStep, CloseCommit, CloseAbort
<1> QED BY <1>1 DEF QuietStep

LEMMA NumberingStep == TypeOK /\ Numbering /\ [Next]_vars => Numbering'
<1> SUFFICES ASSUME TypeOK, Numbering, [Next]_vars PROVE Numbering' OBVIOUS
<1>0. MaxSeq \in Nat /\ Seqs = 1 .. MaxSeq
  BY MaxSeqNat DEF Numbering
<1>1. ASSUME NEW t \in Turns, NextSeq(t) PROVE Numbering'
  <2>1. log' = log /\ exists' = exists /\ Seqs' = Seqs /\ MaxSeq' = MaxSeq
    BY <1>1 DEF NextSeq, tables, session, Seqs, MaxSeq
  <2>2. \A s \in Turns \ {t} : pc'[s] = pc[s] /\ msg'[s] = msg[s]
    BY <1>1 DEF NextSeq, TypeOK
  <2>3. msg'[t].seq = MaxSeq + 1 /\ pc'[t] # "inserted"
    BY <1>1 DEF NextSeq, NextFree, TypeOK, Message
  <2>4. Dense' /\ Distinct'
    BY <2>1 DEF Numbering, Dense, Distinct
  <2> QED BY <1>0, <2>1, <2>2, <2>3, <2>4 DEF Numbering, HasNumber
<1>2. ASSUME NEW t \in Turns, Insert(t) PROVE Numbering'
  <2>1. log' = log /\ exists' = exists /\ msg' = msg /\ Seqs' = Seqs /\ MaxSeq' = MaxSeq
    BY <1>2 DEF Insert, tables, session, Seqs, MaxSeq
  <2>2. \A s \in Turns \ {t} : pc'[s] = pc[s]
    BY <1>2 DEF Insert, TypeOK
  <2>3. exists /\ pc[t] \in InTx /\ pc'[t] = "inserted"
    BY <1>2 DEF Insert, TypeOK, InTx
  <2>4. msg[t].seq = MaxSeq + 1
    BY <1>0, <1>2, <2>3 DEF Insert, SeqTaken, Numbering, HasNumber
  <2>5. \A s \in Turns \ {t} : pc[s] # "inserted"
    BY <1>2, <2>4 DEF Insert, SeqInFlight, Numbering
  <2>6. Dense' /\ Distinct'
    BY <2>1 DEF Numbering, Dense, Distinct
  <2> QED BY <1>0, <2>1, <2>2, <2>3, <2>4, <2>5, <2>6 DEF Numbering, HasNumber
<1>3. ASSUME NEW t \in Turns, CommitTurn(t) PROVE Numbering'
  <2>1. log' = log \cup {msg[t]} /\ exists' = exists
    BY <1>3 DEF CommitTurn
  <2>2. pc[t] = "inserted" /\ exists /\ msg[t].seq = MaxSeq + 1
    BY <1>3 DEF CommitTurn, Numbering
  <2>3. Seqs' = 1 .. MaxSeq + 1
    <3>1. Seqs' = Seqs \cup {MaxSeq + 1}
      BY <2>1, <2>2 DEF Seqs
    <3> QED BY <1>0, <3>1
  <2>4. MaxSeq' = MaxSeq + 1
    <3>1. ASSUME NEW n \in Nat, Seqs' = 1 .. n PROVE MaxSeq' = n
      <4>1. CASE n = 0
        BY <1>0, <3>1, <4>1, <2>3
      <4>2. CASE n # 0
        <5>1. n \in Seqs' /\ \A k \in Seqs' : k <= n
          BY <3>1, <4>2
        <5>2. log' # {}
          BY <2>1
        <5>3. \A j \in Seqs' : (\A k \in Seqs' : k <= j) => j = n
          BY <3>1, <5>1
        <5> QED BY <5>1, <5>2, <5>3 DEF MaxSeq
      <4> QED BY <4>1, <4>2
    <3> QED BY <1>0, <2>3, <3>1
  <2>5. Dense'
    BY <1>0, <2>3 DEF Dense
  <2>6. Distinct'
    <3>1. \A m \in log : m.seq # msg[t].seq
      <4>1. \A m \in log : m.seq \in Seqs BY DEF Seqs
      <4>2. msg[t].seq \notin Seqs BY <1>0, <2>2
      <4> QED BY <4>1, <4>2
    <3> QED BY <2>1, <3>1 DEF Numbering, Distinct
  <2>7. \A s \in Turns \ {t} : pc'[s] = pc[s] /\ msg'[s] = msg[s] /\ pc[s] # "inserted"
    BY <1>3, <2>2 DEF CommitTurn, TypeOK, Numbering
  <2>8. pc'[t] \notin InTx
    BY <1>3 DEF CommitTurn, TypeOK, InTx
  <2> QED BY <1>0, <2>1, <2>4, <2>5, <2>6, <2>7, <2>8 DEF Numbering, HasNumber, InTx
<1>4. CASE DeleteSession
  <2>1. ~exists' /\ log' = {} /\ pc' = pc
    BY <1>4 DEF DeleteSession, turnVars
  <2>2. \A t \in Turns : pc[t] # "inserted"
    BY <1>4 DEF DeleteSession, HoldsKeyShare
  <2>3. Dense'
    <3>1. Seqs' = 1 .. 0 BY <2>1 DEF Seqs
    <3> QED BY <3>1 DEF Dense
  <2> QED BY <2>1, <2>2, <2>3 DEF Numbering, Distinct
<1> QED BY <1>1, <1>2, <1>3, <1>4, TurnQuiet, OtherQuiet, NumberingQuiet DEF Next, TurnStep

(* Every reachable state is well typed.                                    *)
THEOREM TypeCorrect == Spec => []TypeOK
<1>1. Init => TypeOK /\ Numbering
  BY TypeInit, NumberingInit
<1>2. TypeOK /\ Numbering /\ [Next]_vars => (TypeOK /\ Numbering)'
  BY TypeStep, NumberingStep DEF Numbering
<1> QED BY <1>1, <1>2, PTL DEF Spec

(* The invariant the other theorems use.                                   *)
LEMMA NumberingInvariant == Spec => [](TypeOK /\ Numbering)
<1>1. Init => TypeOK /\ Numbering
  BY TypeInit, NumberingInit
<1>2. TypeOK /\ Numbering /\ [Next]_vars => (TypeOK /\ Numbering)'
  BY TypeStep, NumberingStep DEF Numbering
<1> QED BY <1>1, <1>2, PTL DEF Spec

(* The messages of a session are numbered 1, 2, 3, ... whatever turns run. *)
THEOREM LogIsDense == Spec => []LogDense
<1>1. Numbering => LogDense
  BY MaxSeqNat DEF Numbering, Distinct, LogDense
<1> QED BY <1>1, NumberingInvariant, PTL

(* A step only adds a message at the end of the log.                       *)
THEOREM LogAppendsOnly == Spec => AppendOnly
<1>1. ASSUME TypeOK, Numbering, [Next]_vars PROVE AppendsOnly
  <2>1. ASSUME NEW t \in Turns, CommitTurn(t) PROVE AppendsOnly
    <3>0. log' = log \cup {msg[t]} /\ pc[t] = "inserted"
      BY <2>1 DEF CommitTurn
    <3>1. log' = log \cup {msg[t]} /\ msg[t].seq = MaxSeq + 1
      BY <1>1, <3>0 DEF Numbering
    <3>2. \A m \in log' \ log : m = msg[t]
      BY <3>1
    <3>3. \A m \in log' \ log : m.seq = MaxSeq + 1
      BY <3>1, <3>2
    <3> QED BY <3>1, <3>3 DEF AppendsOnly
  <2>2. CASE log' = log
    BY <2>2 DEF AppendsOnly
  <2>3. CASE DeleteSession
    BY <2>3 DEF DeleteSession, AppendsOnly
  <2>4. ASSUME NEW t \in Turns, NextSeq(t) \/ Insert(t) PROVE log' = log
    BY <2>4 DEF NextSeq, Insert, tables
  <2> QED BY <1>1, <2>1, <2>2, <2>3, <2>4, TurnQuiet, OtherQuiet DEF Next, TurnStep, QuietStep
<1>2. TypeOK /\ Numbering /\ [Next]_vars => [AppendsOnly]_vars
  BY <1>1
<1> QED BY <1>2, NumberingInvariant, PTL DEF Spec, AppendOnly

-----------------------------------------------------------------------------
(* The freeze.  A user message is written under the session row lock, taken *)
(* when locked_at was still NULL, and a close needs the same lock; a claim  *)
(* is only ever part of writing a user message.                             *)

Sending(t) == msg[t].role = "user" /\ pc[t] \in {"scan", "claim", "insert", "inserted"}

Locking ==
    /\ locked \/ sessLock # None => BackOffice
    /\ sessLock \in Turns => ~locked
    /\ \A t \in Turns : BackOffice /\ Sending(t) => sessLock = t
    /\ \A t \in Turns : claim[t] # {} => msg[t].role = "user" /\ pc[t] \in {"insert", "inserted"}
    /\ \A t \in Turns : pc[t] \in {"scan", "claim"} => msg[t].role = "user"

LEMMA LockingInit == Init => Locking
  BY DEF Init, Locking, Sending

LEMMA LockingRollback ==
  ASSUME TypeOK, Locking, NEW t \in Turns, Rollback(t) PROVE Locking'
<1>1. pc'[t] = "done" /\ claim'[t] = {} /\ msg' = msg /\ locked' = locked
  BY DEF Rollback, TypeOK
<1>2. \A s \in Turns \ {t} : pc'[s] = pc[s] /\ claim'[s] = claim[s]
  BY DEF Rollback, TypeOK
<1>3. sessLock' = IF sessLock = t THEN None ELSE sessLock
  BY DEF Rollback
<1>4. None \notin Turns
  BY ParamAssumption
<1> QED BY <1>1, <1>2, <1>3, <1>4 DEF Locking, Sending

LEMMA LockingTurn ==
  ASSUME TypeOK, Locking, NEW t \in Turns,
         Admit(t) \/ TurnStep(t) \/ AbortTurn(t) \/ DeadlockVictim(t)
  PROVE  Locking'
<1>0. None \notin Turns /\ t # None
  BY ParamAssumption
<1>1. CASE Admit(t) \/ NextSeq(t) \/ RunTools(t)
  <2>1. locked' = locked /\ sessLock' = sessLock /\ claim' = claim
    BY <1>1 DEF Admit, NextSeq, RunTools, session
  <2>2. \A s \in Turns \ {t} : pc'[s] = pc[s] /\ msg'[s] = msg[s]
    BY <1>1 DEF Admit, NextSeq, RunTools, TypeOK
  <2>3. pc[t] \in {"idle", "seq", "tools"}
    BY <1>1 DEF Admit, NextSeq, RunTools
  <2>4. claim[t] = {}
    BY <2>3 DEF Locking
  <2>6. pc'[t] \in {"seq", "insert", "lock"}
    BY <1>1 DEF Admit, NextSeq, RunTools, TypeOK
  <2>5. ~Sending(t)'
    <3>1. CASE Admit(t) \/ RunTools(t)
      BY <3>1 DEF Admit, RunTools, Sending, TypeOK
    <3>2. CASE NextSeq(t)
      <4>1. msg'[t].role = msg[t].role
        BY <3>2 DEF NextSeq, TypeOK, Message
      <4>2. pc'[t] = IF msg[t].role = "assistant" THEN "insert" ELSE "lock"
        BY <3>2 DEF NextSeq, TypeOK
      <4> QED BY <4>1, <4>2 DEF Sending
    <3> QED BY <1>1, <3>1, <3>2
  <2> QED BY <2>1, <2>2, <2>4, <2>5, <2>6 DEF Locking, Sending
<1>2. CASE LockSession(t)
  <2>1. locked' = locked /\ claim' = claim /\ msg' = msg
    BY <1>2 DEF LockSession
  <2>2. \A s \in Turns \ {t} : pc'[s] = pc[s]
    BY <1>2 DEF LockSession, TypeOK
  <2>3. pc[t] = "lock" /\ claim[t] = {}
    BY <1>2 DEF LockSession, Locking
  <2>6. pc'[t] = IF msg[t].role = "user" THEN "scan" ELSE "insert"
    BY <1>2 DEF LockSession, TypeOK
  <2>4. CASE TakesRowLock(t)
    <3>1. sessLock = None /\ ~locked /\ sessLock' = t /\ BackOffice
      BY <1>2, <2>4 DEF LockSession, TakesRowLock
    <3>2. \A s \in Turns \ {t} : ~Sending(s)
      BY <1>0, <3>1 DEF Locking
    <3> QED BY <1>0, <2>1, <2>2, <2>3, <2>6, <3>1, <3>2 DEF Locking, Sending
  <2>5. CASE ~TakesRowLock(t)
    <3>1. sessLock' = sessLock
      BY <1>2, <2>5 DEF LockSession
    <3> QED BY <2>1, <2>2, <2>3, <2>5, <2>6, <3>1 DEF Locking, Sending, TakesRowLock
  <2> QED BY <2>4, <2>5
<1>3. CASE LockRefused(t) \/ EmptyTurn(t) \/ InsertRefused(t) \/ AbortTurn(t) \/ DeadlockVictim(t)
  BY <1>3, LockingRollback DEF LockRefused, EmptyTurn, InsertRefused, AbortTurn, DeadlockVictim
<1>4. CASE ClaimScan(t) \/ Claim(t) \/ Insert(t)
  <2>1. locked' = locked /\ sessLock' = sessLock
    BY <1>4 DEF ClaimScan, Claim, Insert, session
  <2>2. \A s \in Turns \ {t} : pc'[s] = pc[s] /\ msg'[s] = msg[s] /\ claim'[s] = claim[s]
    BY <1>4 DEF ClaimScan, Claim, Insert, TypeOK
  <2>3. msg'[t].role = msg[t].role
    BY <1>4 DEF ClaimScan, Claim, Insert, TypeOK, Message
  <2>4. msg[t].role = "user" => (Sending(t)' => Sending(t))
    BY <1>4 DEF ClaimScan, Claim, Insert, Sending
  <2>5. claim'[t] # {} => msg'[t].role = "user" /\ pc'[t] \in {"insert", "inserted"}
    <3>1. CASE ClaimScan(t)
      BY <3>1 DEF ClaimScan, Locking
    <3>2. CASE Insert(t)
      BY <3>2 DEF Insert, Locking, TypeOK
    <3>3. CASE Claim(t)
      BY <3>3, <2>3 DEF Claim, Locking, TypeOK
    <3> QED BY <1>4, <3>1, <3>2, <3>3
  <2>6. pc'[t] \in {"scan", "claim"} => pc[t] \in {"scan", "claim"}
    BY <1>4 DEF ClaimScan, Claim, Insert, TypeOK
  <2> QED BY <2>1, <2>2, <2>3, <2>4, <2>5, <2>6 DEF Locking, Sending
<1>5. CASE CommitTurn(t)
  <2>1. locked' = locked /\ sessLock' = IF sessLock = t THEN None ELSE sessLock
    BY <1>5 DEF CommitTurn
  <2>2. \A s \in Turns \ {t} : pc'[s] = pc[s] /\ msg'[s] = msg[s] /\ claim'[s] = claim[s]
    BY <1>5 DEF CommitTurn, TypeOK
  <2>3. claim'[t] = {}
    BY <1>5 DEF CommitTurn, TypeOK
  <2>4. pc'[t] \in {"seq", "tools", "done"}
    BY <1>5 DEF CommitTurn, TypeOK
  <2> QED BY <1>0, <2>1, <2>2, <2>3, <2>4 DEF Locking, Sending
<1> QED BY <1>1, <1>2, <1>3, <1>4, <1>5 DEF TurnStep

LEMMA LockingOther ==
  ASSUME TypeOK, Locking,
         \/ UNCHANGED vars
         \/ \E u \in Uploads : StartUpload(u) \/ UploadStep(u) \/ AbortUpload(u)
                               \/ StartDelete(u) \/ DeletePending(u)
         \/ CloseLock \/ CloseStep \/ DeleteSession
  PROVE  Locking'
<1>0. Closer \notin Turns /\ None \notin Turns /\ Closer # None
  BY ParamAssumption
<1>1. pc' = pc /\ msg' = msg /\ claim' = claim
  BY DEF vars, turnVars, StartUpload, UploadStep, PutBlob, LockUpload, RecheckSession,
         ScanPending, InsertUpload, EndUpload, AbortUpload, StartDelete, DeletePending,
         CloseLock, CloseStep, CloseCommit, CloseAbort, DeleteSession
<1>2. CASE CloseLock
  BY <1>0, <1>1, <1>2 DEF CloseLock, Locking, Sending
<1>3. CASE CloseStep
  BY <1>0, <1>1, <1>3 DEF CloseStep, CloseCommit, CloseAbort, Locking, Sending
<1>4. CASE locked' = locked /\ sessLock' = sessLock
  BY <1>1, <1>4 DEF Locking, Sending
<1>5. ~CloseLock /\ ~CloseStep => locked' = locked /\ sessLock' = sessLock
  BY DEF vars, session, StartUpload, UploadStep, PutBlob, LockUpload, RecheckSession,
         ScanPending, InsertUpload, EndUpload, AbortUpload, StartDelete, DeletePending,
         DeleteSession
<1> QED BY <1>2, <1>3, <1>4, <1>5

LEMMA LockingInvariant == Spec => [](TypeOK /\ Numbering /\ Locking)
<1>1. TypeOK /\ Locking /\ [Next]_vars => Locking'
  BY LockingTurn, LockingOther DEF Next
<1> QED BY <1>1, LockingInit, NumberingInvariant, PTL DEF Spec

(* After a close commits, no user message and no claim is committed.       *)
THEOREM FrozenHolds == Spec => FrozenToUsers
<1>1. ASSUME TypeOK, Numbering, Locking, [Next]_vars PROVE NoTurnOnLocked
  <2>1. ASSUME NEW t \in Turns, CommitTurn(t), locked PROVE NoTurnOnLocked
    <3>1. pc[t] = "inserted" /\ BackOffice
      BY <1>1, <2>1 DEF CommitTurn, Locking
    <3>2. msg[t].role # "user" /\ claim[t] = {}
      BY <1>1, <2>1, <3>1 DEF Locking, Sending
    <3>3. log' = log \cup {msg[t]} /\ rows' = (rows \ claim[t]) \cup WrittenRows(t)
      BY <2>1 DEF CommitTurn
    <3>4. \A r \in WrittenRows(t) : r.origin = "tool_result"
      BY <3>2 DEF WrittenRows
    <3>5. \A m \in log' \ log : m = msg[t]
      BY <3>3
    <3>6. \A r \in rows' \ rows : r \in WrittenRows(t)
      BY <3>3
    <3> QED BY <3>2, <3>4, <3>5, <3>6 DEF NoTurnOnLocked
  <2>2. ASSUME NEW u \in Uploads, InsertUpload(u) PROVE NoTurnOnLocked
    <3>1. log' = log
      BY <2>2 DEF InsertUpload
    <3>2. \A r \in rows' \ rows :
            r = [id |-> u, origin |-> "upload", blob |-> blob[u], msg |-> NoMessage]
      BY <2>2 DEF InsertUpload
    <3> QED BY <3>1, <3>2 DEF NoTurnOnLocked
  <2>3. CASE log' \subseteq log /\ rows' \subseteq rows
    BY <2>3 DEF NoTurnOnLocked
  <2>4. CASE ~locked
    BY <2>4 DEF NoTurnOnLocked
  <2>5. ASSUME NEW t \in Turns, ~CommitTurn(t),
               Admit(t) \/ TurnStep(t) \/ AbortTurn(t) \/ DeadlockVictim(t)
        PROVE  log' \subseteq log /\ rows' \subseteq rows
    BY <2>5 DEF Admit, TurnStep, AbortTurn, DeadlockVictim, NextSeq, LockSession, LockRefused,
                ClaimScan, Claim, EmptyTurn, Insert, InsertRefused, RunTools, Rollback, tables
  <2>6. ASSUME NEW u \in Uploads, ~InsertUpload(u),
               StartUpload(u) \/ UploadStep(u) \/ AbortUpload(u) \/ StartDelete(u) \/ DeletePending(u)
        PROVE  log' \subseteq log /\ rows' \subseteq rows
    BY <2>6 DEF StartUpload, UploadStep, PutBlob, LockUpload, RecheckSession, ScanPending,
                AbortUpload, StartDelete, DeletePending, tables
  <2>7. UNCHANGED vars \/ CloseLock \/ CloseStep \/ DeleteSession
        => log' \subseteq log /\ rows' \subseteq rows
    BY DEF vars, tables, CloseLock, CloseStep, CloseCommit, CloseAbort, DeleteSession
  <2> QED BY <1>1, <2>1, <2>2, <2>3, <2>4, <2>5, <2>6, <2>7 DEF Next, TurnStep, UploadStep
<1>2. TypeOK /\ Numbering /\ Locking /\ [Next]_vars => [NoTurnOnLocked]_vars
  BY <1>1
<1> QED BY <1>2, LockingInvariant, PTL DEF Spec, FrozenToUsers


-----------------------------------------------------------------------------
(* Artifacts.  What an upload checked under the advisory lock still holds   *)
(* when it inserts, because only its holder adds pending rows; what a turn  *)
(* claimed is still pending and nobody else's when it commits, because a    *)
(* delete and another claim wait for it; and the message a turn is writing  *)
(* already names the rows its commit will bind.                             *)

Waits == {"recheck", "scan", "insert"}   \* where an upload holds the advisory lock

Uploading ==
    /\ \A r \in rows : r.origin = "upload" => r.id \in Uploads /\ upc[r.id] = "done"
    /\ \A q, r \in rows : q.origin = "upload" /\ r.origin = "upload" /\ q.id = r.id => q = r
    /\ \A u \in Uploads : upc[u] \in Waits => advLock = u
    /\ \A u \in Uploads : upc[u] = "insert" =>
         PendingOf(blob[u]) = {} /\ Cardinality(PendingRows) < MaxPending
    /\ PendingBounded

Stored ==
    /\ RowsHaveBlobs
    /\ \A u \in Uploads : upc[u] \in {"commit"} \cup Waits => blob[u] \in store
    /\ \A t \in Turns : msg[t].role = "tool" => msg[t].refs \subseteq store

Carrying ==
    /\ \A t \in Turns : claim[t] \subseteq PendingRows
    /\ \A s, t \in Turns : s # t => claim[s] \cap claim[t] = {}
    /\ \A t \in Turns : msg[t].role = "assistant" => msg[t].refs = {}
    /\ \A t \in Turns : msg[t].role = "user" /\ pc[t] \in {"insert", "inserted"} =>
         /\ msg[t].refs = {r.blob : r \in claim[t]}
         /\ msg[t].text \/ msg[t].refs # {}

Present ==
    /\ ~exists => rows = {}
    /\ sessLock # None => exists

IInv ==
    /\ TypeOK
    /\ Numbering
    /\ Locking
    /\ Uploading
    /\ Stored
    /\ Carrying
    /\ Present
    /\ RefsMatchRows


LEMMA ArtifactsInit == Init => Uploading /\ Stored /\ Carrying /\ Present /\ RefsMatchRows
<1> SUFFICES ASSUME Init
             PROVE  Uploading /\ Stored /\ Carrying /\ Present /\ RefsMatchRows
  OBVIOUS
<1>1. rows = {} /\ log = {} /\ PendingRows = {}
  BY DEF Init, PendingRows
<1>2. Uploading
  <2>1. Cardinality(PendingRows) <= MaxPending
    BY <1>1, FS_EmptySet, ParamAssumption
  <2> QED BY <1>1, <2>1 DEF Init, Uploading, PendingBounded, Waits
<1>3. Stored
  BY <1>1 DEF Init, Stored, RowsHaveBlobs, Waits
<1>4. Carrying
  BY <1>1 DEF Init, Carrying
<1>5. Present /\ RefsMatchRows
  BY <1>1 DEF Init, Present, RefsMatchRows
<1> QED BY <1>2, <1>3, <1>4, <1>5

(* One element more makes a finite set larger by one at most.              *)
LEMMA OneMore ==
  ASSUME NEW S, NEW x, IsFiniteSet(S)
  PROVE  IsFiniteSet(S \cup {x}) /\ Cardinality(S \cup {x}) <= Cardinality(S) + 1
<1>1. Cardinality(S) \in Nat
  BY FS_CardinalityType
<1>2. /\ IsFiniteSet(S \cup {x})
      /\ Cardinality(S \cup {x}) = IF x \in S THEN Cardinality(S) ELSE Cardinality(S) + 1
  BY FS_AddElement
<1> QED BY <1>1, <1>2

(* Pending rows are finitely many: an upload makes at most one row.        *)
LEMMA PendingFinite == ASSUME Uploading PROVE IsFiniteSet(PendingRows)
<1> DEFINE f == [r \in PendingRows |-> r.id]
<1>1. f \in Injection(PendingRows, Uploads)
  <2>1. f \in [PendingRows -> Uploads]
    BY DEF Uploading, PendingRows
  <2>2. \A q, r \in PendingRows : f[q] = f[r] => q = r
    BY DEF Uploading, PendingRows
  <2> QED BY <2>1, <2>2 DEF Injection, IsInjective
<1> QED BY <1>1, FS_Injection, ParamAssumption

(* The only steps that write the tables.                                   *)
Writes ==
    \/ \E t \in Turns : CommitTurn(t)
    \/ \E u \in Uploads : InsertUpload(u) \/ DeletePending(u)
    \/ DeleteSession

LEMMA OthersKeepTables == ASSUME [Next]_vars, ~Writes PROVE rows' = rows /\ log' = log
<1>1. ASSUME NEW t \in Turns, Admit(t) \/ TurnStep(t) \/ AbortTurn(t) \/ DeadlockVictim(t)
      PROVE  rows' = rows /\ log' = log
  BY <1>1 DEF Writes, Admit, TurnStep, AbortTurn, DeadlockVictim, NextSeq, LockSession, LockRefused,
              ClaimScan, Claim, EmptyTurn, Insert, InsertRefused, RunTools, Rollback, tables
<1>2. ASSUME NEW u \in Uploads,
             StartUpload(u) \/ UploadStep(u) \/ AbortUpload(u) \/ StartDelete(u) \/ DeletePending(u)
      PROVE  rows' = rows /\ log' = log
  BY <1>2 DEF Writes, StartUpload, UploadStep, PutBlob, LockUpload, RecheckSession, ScanPending,
              AbortUpload, StartDelete, tables
<1>3. UNCHANGED vars \/ CloseLock \/ CloseStep => rows' = rows /\ log' = log
  BY DEF vars, tables, CloseLock, CloseStep, CloseCommit, CloseAbort
<1> QED BY <1>1, <1>2, <1>3 DEF Next, Writes

(* What a commit does to the rows: the claimed ones move from pending to    *)
(* bound, tool results appear bound, and nothing else moves.               *)
LEMMA CommitRows ==
  ASSUME TypeOK, Numbering, Locking, Carrying, NEW t \in Turns, CommitTurn(t)
  PROVE  /\ msg[t].seq \in Nat \ {0}
         /\ msg[t].role # "user" => claim[t] = {}
         /\ \A r \in WrittenRows(t) :
              /\ r.msg = msg[t].seq
              /\ r.blob \in msg[t].refs
              /\ r.origin = IF msg[t].role = "user" THEN "upload" ELSE "tool_result"
              /\ msg[t].role \in {"user", "tool"}
              /\ msg[t].role = "user" => \E q \in claim[t] : r = [q EXCEPT !.msg = msg[t].seq]
         /\ \A b \in msg[t].refs : \E r \in WrittenRows(t) : r.blob = b
         /\ rows' = (rows \ claim[t]) \cup WrittenRows(t)
         /\ PendingRows' = PendingRows \ claim[t]
<1>1. pc[t] = "inserted" /\ rows' = (rows \ claim[t]) \cup WrittenRows(t)
  BY DEF CommitTurn
<1>2. msg[t].seq \in Nat \ {0}
  BY <1>1, MaxSeqNat DEF Numbering
<1>3. msg[t].role # "user" => claim[t] = {}
  BY DEF Locking
<1>4. \A q \in claim[t] : /\ q \in Row /\ q.origin = "upload"
                          /\ [q EXCEPT !.msg = msg[t].seq].msg = msg[t].seq
                          /\ [q EXCEPT !.msg = msg[t].seq].blob = q.blob
                          /\ [q EXCEPT !.msg = msg[t].seq].origin = q.origin
  BY DEF Carrying, PendingRows, Row, TypeOK
<1>5. msg[t].role \in {"user", "assistant", "tool"}
  BY DEF TypeOK, Message, Roles
<1>6. msg[t].role = "user" => msg[t].refs = {q.blob : q \in claim[t]}
  BY <1>1 DEF Carrying
<1>7. ASSUME NEW r \in WrittenRows(t)
      PROVE  /\ r.msg = msg[t].seq
             /\ r.blob \in msg[t].refs
             /\ r.origin = IF msg[t].role = "user" THEN "upload" ELSE "tool_result"
             /\ msg[t].role \in {"user", "tool"}
             /\ msg[t].role = "user" => \E q \in claim[t] : r = [q EXCEPT !.msg = msg[t].seq]
  <2>1. CASE msg[t].role = "tool"
    BY <2>1 DEF WrittenRows
  <2>2. CASE msg[t].role # "tool"
    <3>1. PICK q \in claim[t] : r = [q EXCEPT !.msg = msg[t].seq]
      BY <2>2 DEF WrittenRows
    <3>2. msg[t].role = "user"
      BY <3>1, <1>3
    <3> QED BY <3>1, <3>2, <1>4, <1>6
  <2> QED BY <2>1, <2>2
<1>8. ASSUME NEW b \in msg[t].refs PROVE \E r \in WrittenRows(t) : r.blob = b
  <2>1. CASE msg[t].role = "tool"
    <3>1. [id |-> t, origin |-> "tool_result", blob |-> b, msg |-> msg[t].seq] \in WrittenRows(t)
      BY <2>1 DEF WrittenRows
    <3> QED BY <3>1
  <2>2. CASE msg[t].role = "user"
    <3>1. PICK q \in claim[t] : q.blob = b
      BY <2>2, <1>6
    <3>2. [q EXCEPT !.msg = msg[t].seq] \in WrittenRows(t)
      BY <2>2 DEF WrittenRows
    <3> QED BY <3>1, <3>2, <1>4
  <2>3. CASE msg[t].role = "assistant"
    BY <2>3 DEF Carrying
  <2> QED BY <1>5, <2>1, <2>2, <2>3
<1>9. PendingRows' = PendingRows \ claim[t]
  BY <1>1, <1>2, <1>7 DEF PendingRows, NoMessage
<1> QED BY <1>1, <1>2, <1>3, <1>7, <1>8, <1>9

-----------------------------------------------------------------------------
(* Uploads against the cap and against each other.                         *)

(* Fewer pending rows keep what an upload found out about them.            *)
LEMMA FewerPending ==
  ASSUME Uploading, PendingRows' \subseteq PendingRows
  PROVE  /\ Cardinality(PendingRows') <= Cardinality(PendingRows)
         /\ Cardinality(PendingRows') \in Nat
         /\ Cardinality(PendingRows) \in Nat
<1>1. IsFiniteSet(PendingRows)
  BY PendingFinite
<1>2. IsFiniteSet(PendingRows') /\ Cardinality(PendingRows') <= Cardinality(PendingRows)
  BY <1>1, FS_Subset
<1> QED BY <1>1, <1>2, FS_CardinalityType

LEMMA UploadingShrinks ==
  ASSUME Uploading, TypeOK, UNCHANGED <<upc, blob, advLock>>,
         PendingRows' \subseteq PendingRows,
         \A r \in rows' : r.origin = "upload" => \E q \in rows : q.origin = "upload" /\ q.id = r.id,
         \A q, r \in rows' : q.origin = "upload" /\ r.origin = "upload" /\ q.id = r.id => q = r
  PROVE  Uploading'
<1>1. Cardinality(PendingRows') <= Cardinality(PendingRows)
      /\ Cardinality(PendingRows') \in Nat /\ Cardinality(PendingRows) \in Nat
  BY FewerPending
<1>2. \A b : PendingOf(b) = {} => PendingOf(b)' = {}
  BY DEF PendingOf
<1>3. PendingBounded'
  BY <1>1, ParamAssumption DEF Uploading, PendingBounded
<1>4. \A u \in Uploads : upc[u] = "insert" =>
         PendingOf(blob[u])' = {} /\ Cardinality(PendingRows') < MaxPending
  BY <1>1, <1>2, ParamAssumption DEF Uploading
<1> QED BY <1>3, <1>4 DEF Uploading

LEMMA UploadingStep == ASSUME IInv, [Next]_vars PROVE Uploading'
<1> USE DEF IInv
<1>1. CASE ~Writes
  <2>1. rows' = rows /\ PendingRows' = PendingRows
    BY <1>1, OthersKeepTables DEF PendingRows
  <2>2. \A b : PendingOf(b)' = PendingOf(b)
    BY <2>1 DEF PendingOf
  <2>3. PendingBounded'
    BY <2>1 DEF Uploading, PendingBounded
  <2>4. CASE UNCHANGED <<upc, blob, advLock>>
    BY <2>1, <2>2, <2>3, <2>4 DEF Uploading
  <2>5. ASSUME NEW u \in Uploads, StartUpload(u) \/ PutBlob(u) \/ AbortUpload(u) \/ LockUpload(u)
                                  \/ RecheckSession(u) \/ ScanPending(u)
        PROVE  Uploading'
    <3>1. upc[u] # "done" /\ blob' = blob
      BY <2>5 DEF StartUpload, PutBlob, LockUpload, RecheckSession, ScanPending, AbortUpload,
                  EndUpload
    <3>2. \A v \in Uploads \ {u} : upc'[v] = upc[v]
      BY <2>5 DEF StartUpload, PutBlob, LockUpload, RecheckSession, ScanPending, AbortUpload,
                  EndUpload, TypeOK
    <3>3. \A v \in Uploads \ {u} : upc[v] \in Waits => advLock = v /\ advLock' = v
      <4>1. \A v \in Uploads \ {u} : upc[v] \in Waits => advLock = v
        BY DEF Uploading
      <4>2. advLock' = advLock \/ advLock \in {None, u}
        BY <2>5 DEF StartUpload, PutBlob, LockUpload, AdvLockFree, RecheckSession, ScanPending,
                    AbortUpload, EndUpload, AdvLockAfter
      <4> QED BY <4>1, <4>2, ParamAssumption
    <3>4. upc'[u] \in Waits => advLock' = u
      BY <2>5 DEF StartUpload, PutBlob, LockUpload, RecheckSession, ScanPending, AbortUpload,
                  EndUpload, AdvLockAfter, AfterFailedPut, TypeOK, Uploading, Waits
    <3>5. upc'[u] = "insert" => PendingOf(blob[u]) = {} /\ Cardinality(PendingRows) < MaxPending
      <4>1. CASE ~ScanPending(u)
        BY <2>5, <4>1 DEF StartUpload, PutBlob, LockUpload, RecheckSession, AbortUpload,
                          EndUpload, AfterFailedPut, TypeOK
      <4>2. CASE ScanPending(u)
        <5>1. Cardinality(PendingRows) \in Nat
          BY PendingFinite, FS_CardinalityType
        <5> QED BY <4>2, <5>1, ParamAssumption DEF ScanPending, EndUpload, TypeOK
      <4> QED BY <4>1, <4>2
    <3>6. \A r \in rows : r.origin = "upload" => r.id \in Uploads /\ upc'[r.id] = "done"
      BY <3>1, <3>2 DEF Uploading
    <3> QED BY <2>1, <2>2, <2>3, <3>1, <3>2, <3>3, <3>4, <3>5, <3>6 DEF Uploading
  <2>6. ASSUME NEW t \in Turns, Admit(t) \/ TurnStep(t) \/ AbortTurn(t) \/ DeadlockVictim(t)
        PROVE  UNCHANGED <<upc, blob, advLock>>
    BY <1>1, <2>6 DEF Writes, Admit, TurnStep, AbortTurn, DeadlockVictim, NextSeq, LockSession,
                LockRefused, ClaimScan, Claim, EmptyTurn, Insert, InsertRefused, RunTools,
                Rollback, uploadVars
  <2>7. ASSUME NEW u \in Uploads, StartDelete(u) \/ DeletePending(u)
        PROVE  UNCHANGED <<upc, blob, advLock>>
    BY <2>7 DEF StartDelete, DeletePending
  <2>8. UNCHANGED vars \/ CloseLock \/ CloseStep => UNCHANGED <<upc, blob, advLock>>
    BY DEF vars, uploadVars, CloseLock, CloseStep, CloseCommit, CloseAbort
  <2> QED BY <1>1, <2>4, <2>5, <2>6, <2>7, <2>8 DEF Next, UploadStep, Writes
<1>2. ASSUME NEW t \in Turns, CommitTurn(t) PROVE Uploading'
  <2>1. UNCHANGED <<upc, blob, advLock>>
    BY <1>2 DEF CommitTurn, uploadVars
  <2>2. /\ rows' = (rows \ claim[t]) \cup WrittenRows(t)
        /\ PendingRows' = PendingRows \ claim[t]
        /\ claim[t] \subseteq PendingRows
    BY <1>2, CommitRows DEF Carrying
  <2>3. ASSUME NEW r \in WrittenRows(t), r.origin = "upload"
        PROVE  \E q \in claim[t] : r = [q EXCEPT !.msg = msg[t].seq] /\ q.id = r.id
    <3>1. PICK q \in claim[t] : r = [q EXCEPT !.msg = msg[t].seq]
      BY <1>2, <2>3, CommitRows
    <3>2. q \in Row
      BY <2>2 DEF PendingRows, TypeOK
    <3> QED BY <3>1, <3>2 DEF Row
  <2>4. \A r \in rows' : r.origin = "upload" => \E q \in rows : q.origin = "upload" /\ q.id = r.id
    BY <2>2, <2>3 DEF PendingRows
  <2>5. ASSUME NEW q \in rows', NEW r \in rows',
               q.origin = "upload" /\ r.origin = "upload" /\ q.id = r.id
        PROVE  q = r
    <3>0. \A x \in claim[t] : x \in rows /\ x.origin = "upload"
      BY <2>2 DEF PendingRows
    <3>1. CASE q \in rows \ claim[t] /\ r \in rows \ claim[t]
      BY <2>5, <3>1 DEF Uploading
    <3>2. CASE q \in WrittenRows(t) /\ r \in WrittenRows(t)
      <4>1. PICK x \in claim[t] : q = [x EXCEPT !.msg = msg[t].seq] /\ x.id = q.id
        BY <2>3, <2>5, <3>2
      <4>2. PICK y \in claim[t] : r = [y EXCEPT !.msg = msg[t].seq] /\ y.id = r.id
        BY <2>3, <2>5, <3>2
      <4>3. x = y
        BY <2>5, <3>0, <4>1, <4>2 DEF Uploading
      <4> QED BY <4>1, <4>2, <4>3
    <3>3. CASE q \in rows \ claim[t] /\ r \in WrittenRows(t)
      <4>1. PICK y \in claim[t] : y.id = r.id
        BY <2>3, <2>5, <3>3
      <4> QED BY <2>5, <3>0, <3>3, <4>1 DEF Uploading
    <3>4. CASE r \in rows \ claim[t] /\ q \in WrittenRows(t)
      <4>1. PICK y \in claim[t] : y.id = q.id
        BY <2>3, <2>5, <3>4
      <4> QED BY <2>5, <3>0, <3>4, <4>1 DEF Uploading
    <3> QED BY <2>2, <3>1, <3>2, <3>3, <3>4
  <2> QED BY <2>1, <2>2, <2>4, <2>5, UploadingShrinks
<1>3. ASSUME NEW u \in Uploads, InsertUpload(u) PROVE Uploading'
  <2> DEFINE new == [id |-> u, origin |-> "upload", blob |-> blob[u], msg |-> NoMessage]
  <2>1. /\ upc[u] = "insert" /\ blob' = blob /\ upc' = [upc EXCEPT ![u] = "done"]
        /\ advLock = u /\ advLock' = None
    BY <1>3 DEF InsertUpload, EndUpload, AdvLockAfter, Uploading, Waits
  <2>2. PendingOf(blob[u]) = {} /\ Cardinality(PendingRows) < MaxPending
    BY <2>1 DEF Uploading
  <2>3. \A v \in Uploads : upc'[v] \notin Waits
    BY <2>1 DEF Uploading, TypeOK, Waits
  <2>4. rows' \subseteq rows \cup {new}
    BY <1>3 DEF InsertUpload
  <2>5. \A r \in rows : r.origin = "upload" => r.id \in Uploads /\ r.id # u /\ upc'[r.id] = "done"
    BY <2>1 DEF Uploading, TypeOK
  <2>6. PendingRows' \subseteq PendingRows \cup {new}
    BY <2>4 DEF PendingRows
  <2>7. new.id = u /\ new.blob = blob[u] /\ upc'[u] = "done"
    BY <2>1 DEF TypeOK
  <2> HIDE DEF new
  <2>8. PendingBounded'
    <3>1. IsFiniteSet(PendingRows) /\ Cardinality(PendingRows) \in Nat
      BY PendingFinite, FS_CardinalityType
    <3>2. IsFiniteSet(PendingRows \cup {new})
          /\ Cardinality(PendingRows \cup {new}) <= Cardinality(PendingRows) + 1
      BY <3>1, OneMore
    <3>3. Cardinality(PendingRows') <= Cardinality(PendingRows \cup {new})
          /\ Cardinality(PendingRows') \in Nat /\ Cardinality(PendingRows \cup {new}) \in Nat
      BY <2>6, <3>2, FS_Subset, FS_CardinalityType
    <3>4. Cardinality(PendingRows') <= MaxPending
      BY <2>2, <3>1, <3>2, <3>3, ParamAssumption
    <3>5. \A q, r \in PendingRows' : q.blob = r.blob => q = r
      BY <2>2, <2>6, <2>7 DEF Uploading, PendingBounded, PendingOf
    <3> QED BY <3>4, <3>5 DEF PendingBounded
  <2> QED BY <2>3, <2>4, <2>5, <2>7, <2>8 DEF Uploading, Waits
<1>4. ASSUME NEW u \in Uploads, DeletePending(u) PROVE Uploading'
  <2>1. rows' \subseteq rows /\ PendingRows' \subseteq PendingRows /\ UNCHANGED <<upc, blob, advLock>>
    BY <1>4 DEF DeletePending, PendingRows
  <2> QED BY <2>1, UploadingShrinks DEF Uploading
<1>5. CASE DeleteSession
  <2>1. rows' \subseteq rows /\ PendingRows' \subseteq PendingRows /\ UNCHANGED <<upc, blob, advLock>>
    BY <1>5 DEF DeleteSession, PendingRows, uploadVars
  <2> QED BY <2>1, UploadingShrinks DEF Uploading
<1> QED BY <1>1, <1>2, <1>3, <1>4, <1>5 DEF Writes


-----------------------------------------------------------------------------
(* Blobs are in the object store before a row names them.                  *)

LEMMA StoredStep == ASSUME IInv, [Next]_vars PROVE Stored'
<1> USE DEF IInv
<1>1. CASE ~Writes
  <2>1. rows' = rows
    BY <1>1, OthersKeepTables
  <2>2. CASE store \subseteq store' /\ UNCHANGED <<msg, upc, blob>>
    BY <2>1, <2>2 DEF Stored, RowsHaveBlobs
  <2>3. ASSUME NEW u \in Uploads, StartUpload(u) \/ UploadStep(u) \/ AbortUpload(u) PROVE Stored'
    <3>1. store \subseteq store' /\ msg' = msg /\ blob' = blob
      BY <1>1, <2>3 DEF Writes, StartUpload, UploadStep, PutBlob, LockUpload, RecheckSession,
                  ScanPending, AbortUpload, EndUpload, turnVars
    <3>2. \A v \in Uploads \ {u} : upc'[v] = upc[v]
      BY <1>1, <2>3 DEF Writes, StartUpload, UploadStep, PutBlob, LockUpload, RecheckSession,
                  ScanPending, AbortUpload, EndUpload, TypeOK
    <3>3. upc'[u] \in {"commit"} \cup Waits => upc[u] \in {"commit"} \cup Waits \/ blob[u] \in store'
      BY <1>1, <2>3 DEF Writes, StartUpload, UploadStep, PutBlob, LockUpload, RecheckSession,
                  ScanPending, AbortUpload, EndUpload, AfterFailedPut, TypeOK, Waits
    <3> QED BY <2>1, <3>1, <3>2, <3>3 DEF Stored, RowsHaveBlobs
  <2>4. ASSUME NEW t \in Turns, Admit(t) \/ NextSeq(t) \/ Claim(t) PROVE Stored'
    <3>1. store' = store /\ upc' = upc /\ blob' = blob
      BY <2>4 DEF Admit, NextSeq, Claim, uploadVars
    <3>2. \A s \in Turns \ {t} : msg'[s] = msg[s]
      BY <2>4 DEF Admit, NextSeq, Claim, TypeOK
    <3>3. msg'[t].role = msg[t].role
      BY <2>4 DEF Admit, NextSeq, Claim, TypeOK, Message
    <3>4. msg'[t].role = "tool" => msg'[t].refs = msg[t].refs
      <4>1. CASE Claim(t)
        BY <3>3, <4>1 DEF Claim, Locking
      <4>2. CASE Admit(t) \/ NextSeq(t)
        BY <4>2 DEF Admit, NextSeq, TypeOK, Message
      <4> QED BY <2>4, <4>1, <4>2
    <3> QED BY <2>1, <3>1, <3>2, <3>3, <3>4 DEF Stored, RowsHaveBlobs
  <2>5. ASSUME NEW t \in Turns, RunTools(t) PROVE Stored'
    <3>1. upc' = upc /\ blob' = blob
      BY <2>5 DEF RunTools, uploadVars
    <3>2. PICK results \in SUBSET Blobs :
            /\ msg' = [msg EXCEPT ![t].role = "tool", ![t].refs = results]
            /\ store' = store \cup results
      BY <2>5 DEF RunTools
    <3>3. msg'[t].refs = results /\ \A s \in Turns \ {t} : msg'[s] = msg[s]
      BY <3>2 DEF TypeOK, Message
    <3> QED BY <2>1, <3>1, <3>2, <3>3 DEF Stored, RowsHaveBlobs
  <2>6. ASSUME NEW t \in Turns,
               \/ LockSession(t) \/ LockRefused(t) \/ ClaimScan(t) \/ EmptyTurn(t) \/ Insert(t)
               \/ InsertRefused(t) \/ AbortTurn(t) \/ DeadlockVictim(t)
        PROVE  UNCHANGED <<store, msg, upc, blob>>
    BY <2>6 DEF LockSession, LockRefused, ClaimScan, EmptyTurn, Insert, InsertRefused, AbortTurn,
                DeadlockVictim, Rollback, uploadVars
  <2>7. ASSUME NEW u \in Uploads, StartDelete(u) \/ DeletePending(u)
        PROVE  UNCHANGED <<store, msg, upc, blob>>
    BY <2>7 DEF StartDelete, DeletePending, turnVars
  <2>8. UNCHANGED vars \/ CloseLock \/ CloseStep => UNCHANGED <<store, msg, upc, blob>>
    BY DEF vars, uploadVars, turnVars, CloseLock, CloseStep, CloseCommit, CloseAbort
  <2> QED BY <1>1, <2>2, <2>3, <2>4, <2>5, <2>6, <2>7, <2>8 DEF Next, TurnStep, Writes
<1>2. ASSUME NEW t \in Turns, CommitTurn(t) PROVE Stored'
  <2>1. store' = store /\ upc' = upc /\ blob' = blob
    BY <1>2 DEF CommitTurn, uploadVars
  <2>2. \A s \in Turns \ {t} : msg'[s] = msg[s]
    BY <1>2 DEF CommitTurn, TypeOK
  <2>3. msg'[t].role = "tool" => msg'[t] = msg[t]
    BY <1>2 DEF CommitTurn, TypeOK, Message
  <2>4. msg[t].refs \subseteq store
    <3>1. CASE msg[t].role = "user"
      <4>1. pc[t] = "inserted"
        BY <1>2 DEF CommitTurn
      <4>2. msg[t].refs = {r.blob : r \in claim[t]} /\ claim[t] \subseteq rows
        BY <3>1, <4>1 DEF Carrying, PendingRows
      <4> QED BY <4>2 DEF Stored, RowsHaveBlobs
    <3>2. CASE msg[t].role # "user"
      BY <3>2 DEF Stored, Carrying, TypeOK, Message, Roles
    <3> QED BY <3>1, <3>2
  <2>5. \A r \in rows' : r \in rows \/ r.blob \in msg[t].refs
    BY <1>2, CommitRows
  <2> QED BY <2>1, <2>2, <2>3, <2>4, <2>5 DEF Stored, RowsHaveBlobs
<1>3. ASSUME NEW u \in Uploads, InsertUpload(u) PROVE Stored'
  <2>1. store' = store /\ msg' = msg /\ blob' = blob /\ upc[u] = "insert"
        /\ upc' = [upc EXCEPT ![u] = "done"]
    BY <1>3 DEF InsertUpload, EndUpload, turnVars
  <2>2. \A r \in rows' : r \in rows \/ r.blob = blob[u]
    BY <1>3 DEF InsertUpload
  <2>3. blob[u] \in store
    BY <2>1 DEF Stored, Waits
  <2> QED BY <2>1, <2>2, <2>3 DEF Stored, RowsHaveBlobs, TypeOK, Waits
<1>4. ASSUME NEW u \in Uploads, DeletePending(u) PROVE Stored'
  <2>1. rows' \subseteq rows /\ UNCHANGED <<store, msg, upc, blob>>
    BY <1>4 DEF DeletePending, turnVars
  <2> QED BY <2>1 DEF Stored, RowsHaveBlobs
<1>5. CASE DeleteSession
  <2>1. rows' = {} /\ UNCHANGED <<store, msg, upc, blob>>
    BY <1>5 DEF DeleteSession, turnVars, uploadVars
  <2> QED BY <2>1 DEF Stored, RowsHaveBlobs
<1> QED BY <1>1, <1>2, <1>3, <1>4, <1>5 DEF Writes

-----------------------------------------------------------------------------
(* Claims stay pending and apart until their turn commits them.            *)

(* A step of turn t that leaves it without a claim, the others with theirs. *)
LEMMA CarryingKept ==
  ASSUME Carrying, NEW t \in Turns,
         \A s \in Turns \ {t} : claim'[s] = claim[s] /\ msg'[s] = msg[s] /\ pc'[s] = pc[s],
         claim'[t] = {},
         msg'[t].role = "assistant" => msg'[t].refs = {},
         msg'[t].role = "user" => pc'[t] \notin {"insert", "inserted"},
         \A s \in Turns \ {t} : claim[s] \subseteq PendingRows'
  PROVE  Carrying'
<1>1. \A s \in Turns : claim'[s] \subseteq PendingRows'
  OBVIOUS
<1>2. \A r, s \in Turns : r # s => claim'[r] \cap claim'[s] = {}
  BY DEF Carrying
<1>3. \A s \in Turns : msg'[s].role = "assistant" => msg'[s].refs = {}
  BY DEF Carrying
<1>4. \A s \in Turns : msg'[s].role = "user" /\ pc'[s] \in {"insert", "inserted"} =>
         /\ msg'[s].refs = {r.blob : r \in claim'[s]}
         /\ msg'[s].text \/ msg'[s].refs # {}
  BY DEF Carrying
<1> QED BY <1>1, <1>2, <1>3, <1>4 DEF Carrying

LEMMA CarryingTurn ==
  ASSUME IInv, NEW t \in Turns,
         Admit(t) \/ TurnStep(t) \/ AbortTurn(t) \/ DeadlockVictim(t)
  PROVE  Carrying'
<1> USE DEF IInv
<1>1. CASE \/ LockRefused(t) \/ EmptyTurn(t) \/ InsertRefused(t) \/ AbortTurn(t)
           \/ DeadlockVictim(t)
  <2>1. Rollback(t)
    BY <1>1 DEF LockRefused, EmptyTurn, InsertRefused, AbortTurn, DeadlockVictim
  <2>2. rows' = rows /\ msg' = msg /\ claim'[t] = {} /\ pc'[t] = "done" /\ PendingRows' = PendingRows
    BY <2>1 DEF Rollback, tables, TypeOK, PendingRows
  <2>3. \A s \in Turns \ {t} : claim'[s] = claim[s] /\ pc'[s] = pc[s]
    BY <2>1 DEF Rollback, TypeOK
  <2>4. msg[t].role = "assistant" => msg[t].refs = {}
    BY DEF Carrying
  <2>5. \A s \in Turns \ {t} : claim[s] \subseteq PendingRows'
    BY <2>2 DEF Carrying
  <2> QED BY <2>2, <2>3, <2>4, <2>5, CarryingKept
<1>2. CASE Admit(t) \/ NextSeq(t) \/ LockSession(t) \/ RunTools(t)
  <2>1. claim' = claim /\ rows' = rows /\ PendingRows' = PendingRows
    BY <1>2 DEF Admit, NextSeq, LockSession, RunTools, tables, PendingRows
  <2>2. \A s \in Turns \ {t} : msg'[s] = msg[s] /\ pc'[s] = pc[s]
    BY <1>2 DEF Admit, NextSeq, LockSession, RunTools, TypeOK
  <2>3. claim[t] = {}
    BY <1>2 DEF Admit, NextSeq, LockSession, RunTools, Locking
  <2>4. msg'[t].role = "assistant" => msg'[t].refs = {}
    <3>1. CASE Admit(t) \/ NextSeq(t)
      <4>1. msg'[t].role = msg[t].role /\ msg'[t].refs = msg[t].refs
        BY <3>1 DEF Admit, NextSeq, TypeOK, Message
      <4> QED BY <4>1 DEF Carrying
    <3>2. CASE LockSession(t)
      BY <3>2 DEF LockSession, Carrying
    <3>3. CASE RunTools(t)
      BY <3>3 DEF RunTools, TypeOK, Message
    <3> QED BY <1>2, <3>1, <3>2, <3>3
  <2>5. msg'[t].role = "user" => pc'[t] \notin {"insert", "inserted"}
    <3>1. CASE Admit(t) \/ RunTools(t)
      BY <3>1 DEF Admit, RunTools, TypeOK
    <3>2. CASE NextSeq(t)
      <4>1. msg'[t].role = msg[t].role
        BY <3>2 DEF NextSeq, TypeOK, Message
      <4> QED BY <3>2, <4>1 DEF NextSeq, TypeOK
    <3>3. CASE LockSession(t)
      BY <3>3 DEF LockSession, TypeOK
    <3> QED BY <1>2, <3>1, <3>2, <3>3
  <2>6. \A s \in Turns : claim[s] \subseteq PendingRows'
    BY <2>1 DEF Carrying
  <2> QED BY <2>1, <2>2, <2>3, <2>4, <2>5, <2>6, CarryingKept
<1>3. CASE ClaimScan(t)
  <2>1. claim' = claim /\ msg' = msg /\ PendingRows' = PendingRows
    BY <1>3 DEF ClaimScan, tables, PendingRows
  <2>2. pc'[t] \notin {"insert", "inserted"} /\ \A s \in Turns \ {t} : pc'[s] = pc[s]
    BY <1>3 DEF ClaimScan, TypeOK
  <2> QED BY <2>1, <2>2 DEF Carrying
<1>4. CASE Insert(t)
  <2>1. claim' = claim /\ msg' = msg /\ PendingRows' = PendingRows
    BY <1>4 DEF Insert, tables, PendingRows
  <2>2. pc[t] = "insert" /\ \A s \in Turns \ {t} : pc'[s] = pc[s]
    BY <1>4 DEF Insert, TypeOK
  <2> QED BY <2>1, <2>2 DEF Carrying
<1>5. CASE Claim(t)
  <2>1. PendingRows' = PendingRows
    BY <1>5 DEF Claim, tables, PendingRows
  <2>2. \A s \in Turns \ {t} : claim'[s] = claim[s] /\ msg'[s] = msg[s] /\ pc'[s] = pc[s]
    BY <1>5 DEF Claim, TypeOK
  <2>3. claim'[t] = Claimable(t) /\ pc[t] = "claim"
    BY <1>5 DEF Claim, TypeOK
  <2>4. /\ msg'[t].role = "user" /\ msg'[t].text = msg[t].text
        /\ msg'[t].refs = {r.blob : r \in Claimable(t)}
    BY <1>5, <2>3 DEF Claim, TypeOK, Message, Locking
  <2>5. msg'[t].text \/ msg'[t].refs # {}
    BY <1>5, <2>4 DEF Claim
  <2>6. \A s \in Turns \ {t} : claim'[s] \cap claim'[t] = {}
    <3>1. \A s \in Turns \ {t} : claim[s] \subseteq HeldByOthers(t)
      BY DEF HeldByOthers
    <3> QED BY <1>5, <2>2, <2>3, <3>1 DEF Claim, Claimable
  <2>7. claim'[t] \subseteq PendingRows'
    BY <2>1, <2>3 DEF Claimable
  <2> QED BY <2>1, <2>2, <2>3, <2>4, <2>5, <2>6, <2>7 DEF Carrying
<1>6. CASE CommitTurn(t)
  <2>1. claim'[t] = {} /\ pc'[t] \notin {"insert", "inserted"}
    BY <1>6 DEF CommitTurn, TypeOK
  <2>2. \A s \in Turns \ {t} : claim'[s] = claim[s] /\ msg'[s] = msg[s] /\ pc'[s] = pc[s]
    BY <1>6 DEF CommitTurn, TypeOK
  <2>3. msg'[t].role = "assistant" => msg'[t].refs = {}
    <3>1. CASE msg[t].role = "assistant"
      BY <1>6, <3>1 DEF CommitTurn, Carrying
    <3>2. CASE msg[t].role # "assistant"
      BY <1>6, <3>2 DEF CommitTurn, TypeOK, Message
    <3> QED BY <3>1, <3>2
  <2>4. \A s \in Turns \ {t} : claim[s] \subseteq PendingRows'
    BY <1>6, CommitRows DEF Carrying
  <2> QED BY <2>1, <2>2, <2>3, <2>4, CarryingKept
<1> QED BY <1>1, <1>2, <1>3, <1>4, <1>5, <1>6 DEF TurnStep

LEMMA CarryingOther ==
  ASSUME IInv,
         \/ UNCHANGED vars
         \/ \E u \in Uploads : StartUpload(u) \/ UploadStep(u) \/ AbortUpload(u)
                               \/ StartDelete(u) \/ DeletePending(u)
         \/ CloseLock \/ CloseStep \/ DeleteSession
  PROVE  Carrying'
<1> USE DEF IInv
<1>1. UNCHANGED <<pc, msg, claim>>
  BY DEF vars, turnVars, StartUpload, UploadStep, PutBlob, LockUpload, RecheckSession,
         ScanPending, InsertUpload, EndUpload, AbortUpload, StartDelete, DeletePending,
         CloseLock, CloseStep, CloseCommit, CloseAbort, DeleteSession
<1>2. \A t \in Turns : claim[t] \subseteq PendingRows'
  <2>1. ASSUME NEW u \in Uploads, DeletePending(u), NEW t \in Turns PROVE claim[t] \subseteq PendingRows'
    <3>1. \A r \in claim[t] : r.id # u
      BY <2>1 DEF DeletePending, BeingClaimed
    <3> QED BY <2>1, <3>1 DEF DeletePending, PendingRows, Carrying
  <2>2. ASSUME DeleteSession, NEW t \in Turns PROVE claim[t] \subseteq PendingRows'
    BY <2>2 DEF DeleteSession, HoldsKeyShare, Locking
  <2>3. CASE rows \subseteq rows'
    BY <2>3 DEF Carrying, PendingRows
  <2>4. ~DeleteSession /\ (\A u \in Uploads : ~DeletePending(u)) => rows \subseteq rows'
    BY DEF vars, tables, StartUpload, UploadStep, PutBlob, LockUpload, RecheckSession,
           ScanPending, InsertUpload, EndUpload, AbortUpload, StartDelete,
           CloseLock, CloseStep, CloseCommit, CloseAbort
  <2> QED BY <2>1, <2>2, <2>3, <2>4
<1> QED BY <1>1, <1>2 DEF Carrying

LEMMA PresentStep == ASSUME IInv, [Next]_vars PROVE Present'
<1> USE DEF IInv
<1>0. None \notin Turns
  BY ParamAssumption
<1>1. CASE ~Writes
  <2>1. rows' = rows
    BY <1>1, OthersKeepTables
  <2>2. ASSUME NEW t \in Turns, Admit(t) \/ TurnStep(t) \/ AbortTurn(t) \/ DeadlockVictim(t)
        PROVE  exists' = exists /\ (sessLock' # None => exists)
    <3>1. CASE LockSession(t)
      BY <3>1 DEF LockSession
    <3>2. CASE ~LockSession(t)
      BY <1>1, <2>2, <3>2 DEF Writes, Admit, TurnStep, AbortTurn, DeadlockVictim, NextSeq,
         LockRefused, ClaimScan, Claim, EmptyTurn, Insert, InsertRefused, RunTools, Rollback,
         session, Present
    <3> QED BY <3>1, <3>2
  <2>3. ASSUME NEW u \in Uploads,
               StartUpload(u) \/ UploadStep(u) \/ AbortUpload(u) \/ StartDelete(u) \/ DeletePending(u)
        PROVE  exists' = exists /\ sessLock' = sessLock
    BY <1>1, <2>3 DEF Writes, StartUpload, UploadStep, PutBlob, LockUpload, RecheckSession,
                ScanPending, AbortUpload, EndUpload, StartDelete, session
  <2>4. UNCHANGED vars \/ CloseLock \/ CloseStep => exists' = exists /\ (sessLock' # None => exists)
    BY DEF vars, session, CloseLock, CloseStep, CloseCommit, CloseAbort, Present
  <2> QED BY <1>1, <2>1, <2>2, <2>3, <2>4 DEF Next, Writes, Present
<1>2. ASSUME NEW t \in Turns, CommitTurn(t) PROVE Present'
  BY <1>2 DEF CommitTurn, Present, Numbering
<1>3. ASSUME NEW u \in Uploads, InsertUpload(u) PROVE Present'
  BY <1>3 DEF InsertUpload, EndUpload, session, Present
<1>4. ASSUME NEW u \in Uploads, DeletePending(u) PROVE Present'
  BY <1>4 DEF DeletePending, session, Present
<1>5. CASE DeleteSession
  BY <1>5 DEF DeleteSession, Present
<1> QED BY <1>1, <1>2, <1>3, <1>4, <1>5 DEF Writes


-----------------------------------------------------------------------------
(* Messages and rows.                                                      *)

(* Rows that belong to no message yet come and go; the rest stay.          *)
LEMMA RefsKept ==
  ASSUME RefsMatchRows, Numbering, log' = log,
         \A r : r.msg # NoMessage => (r \in rows' <=> r \in rows),
         \A r \in rows' : r.msg = NoMessage => r.origin = "upload"
  PROVE  RefsMatchRows'
<1>1. \A m \in log : m.seq # NoMessage
  <2>1. \A m \in log : m.seq \in Seqs
    BY DEF Seqs
  <2> QED BY <2>1, MaxSeqNat DEF Numbering, NoMessage
<1>2. ASSUME NEW m \in log PROVE m.refs = {r.blob : r \in {q \in rows' : q.msg = m.seq}}
  <2>1. {q \in rows' : q.msg = m.seq} = {q \in rows : q.msg = m.seq}
    BY <1>1
  <2> QED BY <2>1 DEF RefsMatchRows
<1>3. \A r \in rows' \ PendingRows' : r \in rows \ PendingRows
  BY DEF PendingRows
<1> QED BY <1>2, <1>3 DEF RefsMatchRows

LEMMA RefsStep == ASSUME IInv, [Next]_vars PROVE RefsMatchRows'
<1> USE DEF IInv
<1>0. /\ MaxSeq \in Nat /\ Seqs = 1 .. MaxSeq
      /\ \A m \in log : m.seq \in Seqs
  BY MaxSeqNat DEF Numbering, Seqs
<1>1. \A r \in rows : r.msg = NoMessage => r.origin = "upload"
  BY <1>0 DEF RefsMatchRows, PendingRows, NoMessage
<1>2. CASE ~Writes
  <2>1. rows' = rows /\ log' = log
    BY <1>2, OthersKeepTables
  <2> QED BY <1>1, <2>1, RefsKept
<1>3. ASSUME NEW t \in Turns, CommitTurn(t) PROVE RefsMatchRows'
  <2> DEFINE n == msg[t].seq
  <2>1. /\ n = MaxSeq + 1
        /\ log' = log \cup {msg[t]}
        /\ rows' = (rows \ claim[t]) \cup WrittenRows(t)
        /\ PendingRows' = PendingRows \ claim[t]
        /\ claim[t] \subseteq PendingRows
        /\ pc[t] = "inserted"
    BY <1>3, CommitRows DEF CommitTurn, Numbering, Carrying
  <2>2. \A r \in rows : r.msg \in Seqs \cup {NoMessage}
    BY <1>0 DEF RefsMatchRows, PendingRows
  <2>3. \A r \in claim[t] : r.msg = NoMessage
    BY <2>1 DEF PendingRows
  <2>4. \A r \in WrittenRows(t) : r.msg = n
    BY <1>3, CommitRows
  <2>5. n \notin Seqs /\ n # NoMessage /\ NoMessage \notin Seqs
    BY <1>0, <2>1 DEF NoMessage
  <2>6. ASSUME NEW m \in log PROVE m.refs = {r.blob : r \in {q \in rows' : q.msg = m.seq}}
    <3>1. m.seq \in Seqs
      BY <1>0
    <3>2. {q \in rows' : q.msg = m.seq} = {q \in rows : q.msg = m.seq}
      BY <2>1, <2>3, <2>4, <2>5, <3>1
    <3> QED BY <3>2 DEF RefsMatchRows
  <2>7. msg[t].refs = {r.blob : r \in {q \in rows' : q.msg = n}}
    <3>1. {q \in rows' : q.msg = n} = WrittenRows(t)
      BY <2>1, <2>2, <2>4, <2>5
    <3>2. msg[t].refs = {r.blob : r \in WrittenRows(t)}
      BY <1>3, CommitRows
    <3> QED BY <3>1, <3>2
  <2>8. ASSUME NEW r \in rows' \ PendingRows'
        PROVE  \E m \in log' : m.seq = r.msg /\ m.role = IF r.origin = "upload" THEN "user" ELSE "tool"
    <3>1. CASE r \in WrittenRows(t)
      <4>1. r.msg = n /\ msg[t].role = IF r.origin = "upload" THEN "user" ELSE "tool"
        <5>1. /\ r.origin = IF msg[t].role = "user" THEN "upload" ELSE "tool_result"
              /\ msg[t].role \in {"user", "tool"}
          BY <1>3, <3>1, CommitRows
        <5> QED BY <2>4, <3>1, <5>1
      <4> QED BY <2>1, <4>1
    <3>2. CASE r \in rows \ PendingRows
      BY <2>1, <3>2 DEF RefsMatchRows
    <3>3. r \in WrittenRows(t) \/ r \in rows \ PendingRows
      BY <2>1
    <3> QED BY <3>1, <3>2, <3>3
  <2>9. msg[t].role = "user" => msg[t].text \/ msg[t].refs # {}
    BY <2>1 DEF Carrying
  <2> QED BY <2>1, <2>6, <2>7, <2>8, <2>9 DEF RefsMatchRows
<1>4. ASSUME NEW u \in Uploads, InsertUpload(u) PROVE RefsMatchRows'
  <2> DEFINE new == [id |-> u, origin |-> "upload", blob |-> blob[u], msg |-> NoMessage]
  <2>1. log' = log /\ (rows' = rows \/ rows' = rows \cup {new})
    BY <1>4 DEF InsertUpload
  <2>2. new.msg = NoMessage /\ new.origin = "upload"
    OBVIOUS
  <2> HIDE DEF new
  <2>3. \A r : r.msg # NoMessage => (r \in rows' <=> r \in rows)
    BY <2>1, <2>2
  <2>4. \A r \in rows' : r.msg = NoMessage => r.origin = "upload"
    BY <1>1, <2>1, <2>2
  <2> QED BY <2>1, <2>3, <2>4, RefsKept
<1>5. ASSUME NEW u \in Uploads, DeletePending(u) PROVE RefsMatchRows'
  <2>1. log' = log /\ rows' = {r \in rows : ~(r.id = u /\ r \in PendingRows)}
    BY <1>5 DEF DeletePending
  <2>2. \A r : r.msg # NoMessage => (r \in rows' <=> r \in rows)
    BY <2>1 DEF PendingRows
  <2> QED BY <1>1, <2>1, <2>2, RefsKept
<1>6. CASE DeleteSession
  BY <1>6 DEF DeleteSession, RefsMatchRows
<1> QED BY <1>2, <1>3, <1>4, <1>5, <1>6 DEF Writes

LEMMA IInvInit == Init => IInv
  BY TypeInit, NumberingInit, LockingInit, ArtifactsInit DEF IInv

LEMMA IInvStep == IInv /\ [Next]_vars => IInv'
<1> SUFFICES ASSUME IInv, [Next]_vars PROVE IInv' OBVIOUS
<1>1. TypeOK' /\ Numbering'
  BY TypeStep, NumberingStep DEF IInv, Numbering
<1>2. Locking'
  BY LockingTurn, LockingOther DEF Next, IInv
<1>3. Carrying'
  BY CarryingTurn, CarryingOther DEF Next
<1> QED BY <1>1, <1>2, <1>3, UploadingStep, StoredStep, PresentStep, RefsStep DEF IInv

LEMMA AlwaysIInv == Spec => []IInv
  BY IInvInit, IInvStep, PTL DEF Spec

(* A message's refs are the blobs of the rows bound to it, an upload is    *)
(* bound to a user message and a tool result to a tool message.            *)
THEOREM RefsAreRows == Spec => []RefsMatchRows
<1>1. IInv => RefsMatchRows
  BY DEF IInv
<1> QED BY <1>1, AlwaysIInv, PTL

(* At most MaxPending uploads wait, and no two for one blob.               *)
THEOREM UploadsBounded == Spec => []PendingBounded
<1>1. IInv => PendingBounded
  BY DEF IInv, Uploading
<1> QED BY <1>1, AlwaysIInv, PTL

(* A committed row's blob is in the object store.                          *)
THEOREM BlobsStored == Spec => []RowsHaveBlobs
<1>1. IInv => RowsHaveBlobs
  BY DEF IInv, Stored
<1> QED BY <1>1, AlwaysIInv, PTL

-----------------------------------------------------------------------------
(* The refinement.                                                         *)

HistoryIsSeq ==
    /\ MaxSeq \in Nat
    /\ History \in Seq(SL!Message)
    /\ Len(History) = MaxSeq
    /\ \A m \in log : m.seq \in 1 .. MaxSeq /\ MessageAt(m.seq) = m
    /\ \A n \in 1 .. MaxSeq : MessageAt(n) \in log /\ MessageAt(n).seq = n

LEMMA HistorySeq == IInv => HistoryIsSeq
<1> SUFFICES ASSUME TypeOK, Numbering PROVE HistoryIsSeq
  BY DEF IInv
<1>1. MaxSeq \in Nat /\ Seqs = 1 .. MaxSeq
  BY MaxSeqNat DEF Numbering
<1>2. \A m \in log : m.seq \in 1 .. MaxSeq
  BY <1>1 DEF Seqs
<1>3. \A n \in 1 .. MaxSeq : MessageAt(n) \in log /\ MessageAt(n).seq = n
  <2>1. \A n \in 1 .. MaxSeq : \E m \in log : m.seq = n
    BY <1>1 DEF Seqs
  <2> QED BY <2>1 DEF MessageAt
<1>4. \A m \in log : MessageAt(m.seq) = m
  BY <1>2, <1>3 DEF Numbering, Distinct
<1>5. \A n \in 1 .. MaxSeq :
        [role |-> MessageAt(n).role, refs |-> MessageAt(n).refs] \in SL!Message
  <2>1. \A m \in log : m.role \in {"user", "assistant", "tool"} /\ m.refs \in SUBSET Blobs
    BY DEF TypeOK, Message, Roles
  <2> QED BY <1>3, <2>1 DEF SL!Message
<1>6. History \in [1 .. MaxSeq -> SL!Message]
  BY <1>5 DEF History
<1>7. History \in Seq(SL!Message) /\ Len(History) = MaxSeq
  BY <1>1, <1>6
<1> QED BY <1>1, <1>2, <1>3, <1>4, <1>7 DEF HistoryIsSeq

LEMMA RefinesInit == Init => SL!Init
<1> SUFFICES ASSUME Init PROVE SL!Init OBVIOUS
<1>1. HistoryIsSeq
  BY IInvInit, HistorySeq
<1>2. Waiting = {}
  BY DEF Init, Waiting, PendingRows
<1>3. MaxSeq = 0
  BY DEF Init, MaxSeq
<1>4. History = <<>>
  BY <1>1, <1>3 DEF HistoryIsSeq
<1> QED BY <1>2, <1>4 DEF Init, SL!Init

(* What makes a sequence the Append of another.                            *)
LEMMA AppendIs ==
  ASSUME NEW S, NEW s \in Seq(S), NEW r \in Seq(S), NEW e \in S,
         Len(r) = Len(s) + 1, \A i \in 1 .. Len(s) : r[i] = s[i], r[Len(s) + 1] = e
  PROVE  r = Append(s, e)
<1>1. Append(s, e) \in Seq(S) /\ Len(Append(s, e)) = Len(s) + 1
  OBVIOUS
<1>2. \A i \in 1 .. Len(s) + 1 : Append(s, e)[i] = IF i <= Len(s) THEN s[i] ELSE e
  OBVIOUS
<1>3. \A i \in 1 .. Len(s) + 1 : r[i] = Append(s, e)[i]
  BY <1>2
<1> QED BY <1>1, <1>3

(* A commit appends its message to the history, whoever else is running.   *)
LEMMA CommitAppends ==
  ASSUME HistoryIsSeq, HistoryIsSeq', IInv, NEW t \in Turns, CommitTurn(t)
  PROVE  History' = Append(History, [role |-> msg[t].role, refs |-> msg[t].refs])
<1> DEFINE entry == [role |-> msg[t].role, refs |-> msg[t].refs]
<1>1. /\ log' = log \cup {msg[t]}
      /\ msg[t].seq = MaxSeq + 1
  BY DEF CommitTurn, IInv, Numbering
<1>2. MaxSeq \in Nat /\ MaxSeq' \in Nat /\ msg[t] \in log'
  BY <1>1 DEF HistoryIsSeq
<1>3. MaxSeq' = MaxSeq + 1
  <2>1. MaxSeq + 1 \in 1 .. MaxSeq'
    BY <1>1, <1>2 DEF HistoryIsSeq
  <2>2. \A n \in 1 .. MaxSeq' : \E m \in log' : m.seq = n
    BY DEF HistoryIsSeq
  <2>3. \A m \in log' : m.seq \in 1 .. MaxSeq + 1
    BY <1>1, <1>2 DEF HistoryIsSeq
  <2>4. \A n \in 1 .. MaxSeq' : n \in 1 .. MaxSeq + 1
    BY <2>2, <2>3
  <2> QED BY <1>2, <2>1, <2>4
<1>4. \A n \in 1 .. MaxSeq : MessageAt(n)' = MessageAt(n)
  <2>1. \A n \in 1 .. MaxSeq : MessageAt(n) \in log' /\ MessageAt(n).seq = n
    BY <1>1 DEF HistoryIsSeq
  <2>2. \A m \in log' : MessageAt(m.seq)' = m
    BY DEF HistoryIsSeq
  <2> QED BY <2>1, <2>2
<1>5. \A n : n = MaxSeq + 1 => MessageAt(n)' = msg[t]
  <2>1. \A m \in log' : MessageAt(m.seq)' = m
    BY DEF HistoryIsSeq
  <2> QED BY <1>1, <1>2, <2>1
<1>6. \A n \in 1 .. MaxSeq' :
        History'[n] = [role |-> MessageAt(n)'.role, refs |-> MessageAt(n)'.refs]
  BY DEF History
<1>7. \A n \in 1 .. MaxSeq : History[n] = [role |-> MessageAt(n).role, refs |-> MessageAt(n).refs]
  BY DEF History
<1>8. ASSUME NEW n \in 1 .. MaxSeq PROVE History'[n] = History[n]
  <2>1. n \in 1 .. MaxSeq'
    BY <1>2, <1>3
  <2>2. History'[n] = [role |-> MessageAt(n)'.role, refs |-> MessageAt(n)'.refs]
    BY <1>6, <2>1
  <2> QED BY <1>4, <1>7, <2>2
<1>9. \A n : n = MaxSeq + 1 => History'[n] = entry
  BY <1>2, <1>3, <1>5, <1>6
<1>10. entry \in SL!Message
  BY DEF IInv, TypeOK, Message, Roles, SL!Message
<1>11. /\ History \in Seq(SL!Message) /\ Len(History) = MaxSeq
       /\ History' \in Seq(SL!Message) /\ Len(History') = MaxSeq'
  BY DEF HistoryIsSeq
<1> HIDE DEF entry
<1>12. History' = Append(History, entry)
  BY <1>3, <1>8, <1>9, <1>10, <1>11, AppendIs
<1> QED BY <1>12 DEF entry

(* Each step does to the abstract log what SessionLog allows, or nothing.  *)
LEMMA RefinesCommit ==
  ASSUME HistoryIsSeq, HistoryIsSeq', IInv, NEW t \in Turns, CommitTurn(t)
  PROVE  SL!Next
<1> USE DEF IInv
<1>1. History' = Append(History, [role |-> msg[t].role, refs |-> msg[t].refs])
  BY CommitAppends
<1>2. exists' = exists /\ locked' = locked /\ exists /\ pc[t] = "inserted"
  BY DEF CommitTurn, Numbering
<1>3. PendingRows' = PendingRows \ claim[t] /\ claim[t] \subseteq PendingRows
  BY CommitRows DEF Carrying
<1>4. CASE msg[t].role = "user"
  <2>1. msg[t].refs = {r.blob : r \in claim[t]}
    BY <1>2, <1>4 DEF Carrying
  <2>2. ~locked
    BY <1>2, <1>4 DEF Locking, Sending
  <2>3. msg[t].refs \subseteq Waiting /\ msg[t].refs \in SUBSET Blobs
    BY <1>3, <2>1 DEF Waiting, TypeOK, Message
  <2>4. Waiting' = Waiting \ msg[t].refs
    <3>1. \A q \in PendingRows, r \in claim[t] : q.blob = r.blob => q = r
      BY <1>3 DEF Uploading, PendingBounded
    <3> QED BY <1>3, <2>1, <3>1 DEF Waiting
  <2>5. SL!Send(msg[t].refs)
    BY <1>1, <1>2, <1>4, <2>2, <2>3, <2>4 DEF SL!Send
  <2> QED BY <2>3, <2>5 DEF SL!Next
<1>5. CASE msg[t].role # "user"
  <2>1. Waiting' = Waiting
    <3>1. claim[t] = {}
      BY <1>5 DEF Locking
    <3> QED BY <1>3, <3>1 DEF Waiting
  <2>2. [role |-> msg[t].role, refs |-> msg[t].refs] \in SL!Message
    BY DEF TypeOK, Message, Roles, SL!Message
  <2>3. SL!Answer([role |-> msg[t].role, refs |-> msg[t].refs])
    BY <1>1, <1>2, <1>5, <2>1 DEF SL!Answer
  <2> QED BY <2>2, <2>3 DEF SL!Next
<1> QED BY <1>4, <1>5

(* The size SessionLog measures is the size TurnStore measures.            *)
LEMMA SameCardinality == ASSUME NEW S PROVE SL!Cardinality(S) = Cardinality(S)
  BY DEF SL!Cardinality, Cardinality

LEMMA HistorySame == ASSUME log' = log PROVE History' = History
  BY DEF History, MessageAt, MaxSeq, Seqs

LEMMA RefinesInsertUpload ==
  ASSUME IInv, NEW u \in Uploads, InsertUpload(u)
  PROVE  [SL!Next]_SL!vars
<1> USE DEF IInv
<1> DEFINE new == [id |-> u, origin |-> "upload", blob |-> blob[u], msg |-> NoMessage]
<1>1. History' = History /\ exists' = exists /\ locked' = locked
  BY HistorySame DEF InsertUpload, EndUpload, session
<1>2. CASE exists /\ PendingOf(blob[u]) = {}
  <2>1. rows' = rows \cup {new}
    BY <1>2 DEF InsertUpload
  <2>2. PendingRows' = PendingRows \cup {new}
    BY <2>1 DEF PendingRows
  <2>3. Waiting' = Waiting \cup {blob[u]}
    <3>1. \A b : b \in Waiting' <=> \E r \in PendingRows \cup {new} : b = r.blob
      BY <2>2 DEF Waiting
    <3>2. new.blob = blob[u]
      OBVIOUS
    <3> HIDE DEF new
    <3> QED BY <3>1, <3>2 DEF Waiting
  <2>4. blob[u] \notin Waiting
    BY <1>2 DEF Waiting, PendingOf
  <2>5. Cardinality(Waiting) < MaxPending
    <3> DEFINE f == [r \in PendingRows |-> r.blob]
    <3>1. f \in Surjection(PendingRows, Waiting)
      BY DEF Surjection, Waiting
    <3>2. IsFiniteSet(PendingRows) /\ Cardinality(PendingRows) \in Nat
      BY PendingFinite, FS_CardinalityType
    <3>3. IsFiniteSet(Waiting) /\ Cardinality(Waiting) <= Cardinality(PendingRows)
      BY <3>1, <3>2, FS_Surjection
    <3>4. Cardinality(PendingRows) < MaxPending
      BY DEF InsertUpload, Uploading
    <3>5. Cardinality(Waiting) \in Nat
      BY <3>3, FS_CardinalityType
    <3> QED BY <3>2, <3>3, <3>4, <3>5, ParamAssumption
  <2>6. SL!Attach(blob[u])
    BY <1>1, <1>2, <2>3, <2>4, <2>5, SameCardinality DEF SL!Attach
  <2>7. blob[u] \in Blobs
    BY DEF TypeOK
  <2> QED BY <2>6, <2>7 DEF SL!Next
<1>3. CASE ~(exists /\ PendingOf(blob[u]) = {})
  <2>1. rows' = rows
    BY <1>3 DEF InsertUpload
  <2> QED BY <1>1, <2>1 DEF SL!vars, Waiting, PendingRows
<1> QED BY <1>2, <1>3

LEMMA RefinesDeletePending ==
  ASSUME IInv, NEW u \in Uploads, DeletePending(u)
  PROVE  [SL!Next]_SL!vars
<1> USE DEF IInv
<1>1. /\ History' = History /\ exists' = exists /\ locked' = locked
      /\ rows' = {r \in rows : ~(r.id = u /\ r \in PendingRows)}
  BY HistorySame DEF DeletePending, session
<1>2. PendingRows' = {r \in PendingRows : r.id # u}
  BY <1>1 DEF PendingRows
<1>3. CASE \E r \in PendingRows : r.id = u
  <2>1. PICK r \in PendingRows : r.id = u
    BY <1>3
  <2>2. PendingRows' = PendingRows \ {r}
    BY <1>2, <2>1 DEF Uploading, PendingRows
  <2>3. Waiting' = Waiting \ {r.blob}
    BY <2>1, <2>2 DEF Waiting, Uploading, PendingBounded
  <2>4. exists /\ r.blob \in Waiting /\ r.blob \in Blobs
    BY <2>1 DEF Present, PendingRows, Waiting, TypeOK, Row
  <2>5. SL!Detach(r.blob)
    BY <1>1, <2>3, <2>4 DEF SL!Detach
  <2> QED BY <2>4, <2>5 DEF SL!Next
<1>4. CASE ~\E r \in PendingRows : r.id = u
  <2>1. PendingRows' = PendingRows
    BY <1>2, <1>4
  <2> QED BY <1>1, <2>1 DEF SL!vars, Waiting
<1> QED BY <1>3, <1>4

LEMMA RefinesStep ==
  ASSUME IInv, HistoryIsSeq, HistoryIsSeq', [Next]_vars
  PROVE  [SL!Next]_SL!vars
<1>1. CASE ~Writes
  <2>1. History' = History /\ Waiting' = Waiting
    BY <1>1, OthersKeepTables, HistorySame DEF Waiting, PendingRows
  <2>2. CASE CloseCommit
    <3>1. exists /\ exists' = exists /\ locked' = TRUE
      BY <2>2, ParamAssumption DEF CloseCommit, IInv, Present
    <3> QED BY <2>1, <3>1 DEF SL!Next, SL!Freeze
  <2>3. CASE exists' = exists /\ locked' = locked
    BY <2>1, <2>3 DEF SL!vars
  <2>4. ASSUME NEW t \in Turns, Admit(t) \/ TurnStep(t) \/ AbortTurn(t) \/ DeadlockVictim(t)
        PROVE  exists' = exists /\ locked' = locked
    BY <2>4 DEF Admit, TurnStep, AbortTurn, DeadlockVictim, NextSeq, LockSession, LockRefused,
         ClaimScan, Claim, EmptyTurn, Insert, InsertRefused, CommitTurn, RunTools, Rollback, session
  <2>5. ASSUME NEW u \in Uploads,
               StartUpload(u) \/ UploadStep(u) \/ AbortUpload(u) \/ StartDelete(u) \/ DeletePending(u)
        PROVE  exists' = exists /\ locked' = locked
    BY <2>5 DEF StartUpload, UploadStep, PutBlob, LockUpload, RecheckSession, ScanPending,
                InsertUpload, AbortUpload, EndUpload, StartDelete, DeletePending, session
  <2>6. UNCHANGED vars \/ CloseLock \/ CloseAbort => exists' = exists /\ locked' = locked
    BY DEF vars, session, CloseLock, CloseAbort
  <2> QED BY <1>1, <2>2, <2>3, <2>4, <2>5, <2>6 DEF Next, Writes, CloseStep
<1>2. ASSUME NEW t \in Turns, CommitTurn(t) PROVE [SL!Next]_SL!vars
  BY <1>2, RefinesCommit
<1>3. ASSUME NEW u \in Uploads, InsertUpload(u) \/ DeletePending(u) PROVE [SL!Next]_SL!vars
  BY <1>3, RefinesInsertUpload, RefinesDeletePending
<1>4. CASE DeleteSession
  <2>1. exists /\ ~locked /\ exists' = FALSE /\ locked' = locked /\ log' = {} /\ rows' = {}
    BY <1>4 DEF DeleteSession
  <2>2. Waiting' = {}
    BY <2>1 DEF Waiting, PendingRows
  <2>3. History' = <<>>
    <3>1. MaxSeq' = 0
      BY <2>1 DEF MaxSeq
    <3> QED BY <3>1 DEF HistoryIsSeq
  <2>4. SL!Drop
    BY <2>1, <2>2, <2>3 DEF SL!Drop
  <2> QED BY <2>4 DEF SL!Next
<1> QED BY <1>1, <1>2, <1>3, <1>4 DEF Writes

(* Read between transactions, the rows of a session are a SessionLog: each  *)
(* statement of each turn, upload, delete and close is one of its atomic   *)
(* operations or changes nothing it shows, however they interleave.        *)
THEOREM StoreImplementsLog == Spec => ImplementsSessionLog
<1>1. Init => SL!Init
  BY RefinesInit
<1>2. IInv /\ HistoryIsSeq /\ HistoryIsSeq' /\ [Next]_vars => [SL!Next]_SL!vars
  BY RefinesStep
<1>3. Spec => [](IInv /\ HistoryIsSeq)
  BY AlwaysIInv, HistorySeq, PTL
<1> QED BY <1>1, <1>2, <1>3, PTL DEF Spec, ImplementsSessionLog, SL!Spec

=============================================================================
