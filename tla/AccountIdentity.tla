-------------------------- MODULE AccountIdentity --------------------------
(***************************************************************************)
(* What the objects of one account promise about its id, without           *)
(* constructors in steps, requests, flags, connectivity or errors.  An     *)
(* object starts with the id of the suite.  A new id goes to the object    *)
(* and to the suite in one step, and an object built on the main queue     *)
(* takes at most one in its life.  A death leaves the suite.               *)
(***************************************************************************)

CONSTANTS
    Instances, UserIds, NoId,
    OnMain       \* the objects that are built on the main queue

VARIABLES
    alive,       \* objects of this process
    userId,      \* userId[i]: the id i reports to the service
    savedId      \* the id in the suite

vars == <<alive, userId, savedId>>

Init ==
    /\ alive = {}
    /\ userId = [i \in Instances |-> NoId]
    /\ savedId = NoId

Build(i) ==
    /\ i \notin alive
    /\ alive' = alive \cup {i}
    /\ userId' = [userId EXCEPT ![i] = savedId]
    /\ UNCHANGED savedId

Learn(i, u) ==
    /\ i \in alive
    /\ i \in OnMain => userId[i] = NoId
    /\ userId' = [userId EXCEPT ![i] = u]
    /\ savedId' = u
    /\ UNCHANGED alive

Die ==
    /\ alive' = {}
    /\ userId' = [i \in Instances |-> NoId]
    /\ UNCHANGED savedId

Next ==
    \/ \E i \in Instances : Build(i) \/ \E u \in UserIds : Learn(i, u)
    \/ Die

Spec == Init /\ [][Next]_vars

===========================================================================
