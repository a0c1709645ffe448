----------------------------- MODULE SessionLog ------------------------------
(***************************************************************************)
(* What the tables of one chat session promise to the turn loop, to the    *)
(* artifact routes and to a dataset close, with no transaction in sight:   *)
(* a history that only grows at its end, a set of uploads waiting for the  *)
(* next user message, each handed to exactly one, and a freeze after which *)
(* no user message is accepted.  TurnStore implements it.                  *)
(***************************************************************************)
EXTENDS Integers, Sequences, FiniteSets

CONSTANTS Blobs, MaxPending

VARIABLES
    alive,    \* the session exists
    frozen,   \* a dataset close locked it
    history,  \* the messages in the order a turn replays them
    waiting   \* blobs uploaded and not yet sent

vars == <<alive, frozen, history, waiting>>

Message == [role : {"user", "assistant", "tool"}, refs : SUBSET Blobs]

Init ==
    /\ alive = TRUE
    /\ frozen = FALSE
    /\ history = <<>>
    /\ waiting = {}

(* A user message takes uploads out of the waiting set and carries them.   *)
Send(refs) ==
    /\ alive
    /\ ~frozen
    /\ refs \subseteq waiting
    /\ history' = Append(history, [role |-> "user", refs |-> refs])
    /\ waiting' = waiting \ refs
    /\ UNCHANGED <<alive, frozen>>

(* The model and the tools answer; a turn under way may outlive a freeze.  *)
Answer(m) ==
    /\ alive
    /\ m.role # "user"
    /\ history' = Append(history, m)
    /\ UNCHANGED <<alive, frozen, waiting>>

Attach(b) ==
    /\ alive
    /\ b \notin waiting
    /\ Cardinality(waiting) < MaxPending
    /\ waiting' = waiting \cup {b}
    /\ UNCHANGED <<alive, frozen, history>>

Detach(b) ==
    /\ alive
    /\ b \in waiting
    /\ waiting' = waiting \ {b}
    /\ UNCHANGED <<alive, frozen, history>>

Freeze ==
    /\ alive
    /\ frozen' = TRUE
    /\ UNCHANGED <<alive, history, waiting>>

Drop ==
    /\ alive
    /\ ~frozen
    /\ alive' = FALSE
    /\ history' = <<>>
    /\ waiting' = {}
    /\ UNCHANGED frozen

Next ==
    \/ \E refs \in SUBSET Blobs : Send(refs)
    \/ \E m \in Message : Answer(m)
    \/ \E b \in Blobs : Attach(b) \/ Detach(b)
    \/ Freeze
    \/ Drop

Spec == Init /\ [][Next]_vars
=============================================================================
