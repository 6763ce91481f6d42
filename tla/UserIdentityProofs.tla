------------------------ MODULE UserIdentityProofs ------------------------
(***************************************************************************)
(* Proofs about UserIdentity, for any number of objects and of ids.        *)
(***************************************************************************)
EXTENDS UserIdentity, TLAPS

\* The strengthening of the invariants below: the flag runningCreateUser is
\* up as long as a request is in flight, and what a dead process held is gone.
FlagInv ==
    \A i \in Instances :
        /\ pending[i] \in {0, 1}
        /\ pending[i] = 1 => running[i]
        /\ phase[i] = "absent" => userId[i] = NoId /\ pending[i] = 0 /\ ~running[i]

\* With constructors on the main queue, an object that is about to ask again
\* still has no id: no answer can come in between.
NoIdInv ==
    /\ FlagInv
    /\ \A i \in OnMain :
          /\ phase[i] = "missing" => userId[i] = NoId
          /\ pending[i] = 1 => userId[i] = NoId

---------------------------------------------------------------------------
LEMMA CreateUserTyped ==
    ASSUME TypeOK, NEW i \in Instances, CreateUser(i)
    PROVE  running' \in [Instances -> BOOLEAN] /\ pending' \in [Instances -> Nat]
<1>1. pending' \in [Instances -> Nat]
  BY DEF TypeOK, CreateUser
<1>2. running' \in [Instances -> BOOLEAN]
  BY DEF TypeOK, CreateUser
<1> QED
  BY <1>1, <1>2

\* Every variable keeps the type of what it stands for.
THEOREM TypeCorrect == Spec => []TypeOK
<1>1. Init => TypeOK
  <2>1. Init => pending \in [Instances -> Nat]
    BY DEF Init
  <2> QED
    BY <2>1 DEF Init, TypeOK, Phases
<1>2. TypeOK /\ [Next]_vars => TypeOK'
  <2> SUFFICES ASSUME TypeOK, [Next]_vars PROVE TypeOK'
    OBVIOUS
  <2> USE DEF TypeOK, Phases
  <2>1. ASSUME NEW i \in Instances, ConstructUser(i) PROVE TypeOK'
    BY <2>1, CreateUserTyped DEF ConstructUser
  <2>2. ASSUME NEW i \in Instances, CheckUserId(i) PROVE TypeOK'
    BY <2>2 DEF CheckUserId, FinishInit
  <2>3. ASSUME NEW i \in Instances, CreateUserAgain(i) PROVE TypeOK'
    BY <2>3, CreateUserTyped DEF CreateUserAgain, FinishInit
  <2>4. ASSUME NEW i \in Instances, NEW u \in UserIds, CreateUserSucceeds(i, u)
        PROVE  TypeOK'
    BY <2>4 DEF CreateUserSucceeds, Answered, SetUserId
  <2>5. ASSUME NEW i \in Instances, CreateUserFails(i) PROVE TypeOK'
    BY <2>5 DEF CreateUserFails, Answered
  <2>6. CASE ProcessDies
    BY <2>6 DEF ProcessDies
  <2>7. CASE ConnectivityChanges
    BY <2>7 DEF ConnectivityChanges
  <2>8. CASE UNCHANGED vars
    BY <2>8 DEF vars
  <2> QED
    BY <2>1, <2>2, <2>3, <2>4, <2>5, <2>6, <2>7, <2>8
       DEF Next, CreateUserTraps, Terminate
<1> QED
  BY <1>1, <1>2, PTL DEF Spec

---------------------------------------------------------------------------
\* An object that runs CreateUser has at most the one request it had or made.
LEMMA CreateUserKeepsFlag ==
    ASSUME TypeOK, NEW i \in Instances, CreateUser(i),
           pending[i] \in {0, 1}, pending[i] = 1 => running[i]
    PROVE  /\ running' = [running EXCEPT ![i] = TRUE]
           /\ pending'[i] \in {0, 1}
           /\ \A j \in Instances \ {i} : pending'[j] = pending[j]
  BY DEF CreateUser, TypeOK

\* The flag invariant is inductive, wherever constructors run.
LEMMA FlagStep == TypeOK /\ FlagInv /\ [Next]_vars => FlagInv'
<1> SUFFICES ASSUME TypeOK, FlagInv, [Next]_vars PROVE FlagInv'
  OBVIOUS
<1> USE DEF TypeOK, FlagInv, Phases
<1>1. ASSUME NEW i \in Instances, ConstructUser(i) PROVE FlagInv'
  BY <1>1, CreateUserKeepsFlag DEF ConstructUser
<1>2. ASSUME NEW i \in Instances, CheckUserId(i) PROVE FlagInv'
  BY <1>2 DEF CheckUserId, FinishInit
<1>3. ASSUME NEW i \in Instances, CreateUserAgain(i) PROVE FlagInv'
  BY <1>3, CreateUserKeepsFlag DEF CreateUserAgain, FinishInit
<1>4. ASSUME NEW i \in Instances, NEW u \in UserIds, CreateUserSucceeds(i, u)
      PROVE  FlagInv'
  BY <1>4 DEF CreateUserSucceeds, Answered, SetUserId
<1>5. ASSUME NEW i \in Instances, CreateUserFails(i) PROVE FlagInv'
  BY <1>5 DEF CreateUserFails, Answered
<1>6. CASE ProcessDies
  BY <1>6 DEF ProcessDies
<1>7. CASE ConnectivityChanges
  BY <1>7 DEF ConnectivityChanges
<1>8. CASE UNCHANGED vars
  BY <1>8 DEF vars
<1> QED
  BY <1>1, <1>2, <1>3, <1>4, <1>5, <1>6, <1>7, <1>8
     DEF Next, CreateUserTraps, Terminate

LEMMA FlagInit == Init => FlagInv
<1> SUFFICES ASSUME Init, NEW i \in Instances
             PROVE  /\ pending[i] \in {0, 1}
                    /\ pending[i] = 1 => running[i]
                    /\ phase[i] = "absent" =>
                          userId[i] = NoId /\ pending[i] = 0 /\ ~running[i]
  BY Zenon DEF FlagInv
<1>1. pending[i] = 0 /\ pending[i] # 1 /\ userId[i] = NoId
  BY DEF Init
<1>2. ~running[i]
  BY DEF Init
<1> QED
  BY <1>1, <1>2

LEMMA FlagCorrect == Spec => []FlagInv
  BY FlagInit, FlagStep, TypeCorrect, PTL DEF Spec

\* No WebService has two createUser requests in flight, on whatever queue the
\* host builds NaveggApi.
THEOREM OneCreateInFlightHolds == Spec => []OneCreateInFlight
<1>1. FlagInv => OneCreateInFlight
  <2>1. FlagInv => \A i \in Instances : pending[i] \in {0, 1}
    BY Zenon DEF FlagInv
  <2>2. \A n \in {0, 1} : n <= 1
    OBVIOUS
  <2> QED
    BY <2>1, <2>2, Zenon DEF FlagInv, OneCreateInFlight
<1> QED
  BY <1>1, FlagCorrect, PTL

---------------------------------------------------------------------------
LEMMA NoIdStep ==
    TypeOK /\ NoIdInv /\ [Next]_vars => NoIdInv'
<1> SUFFICES ASSUME TypeOK, NoIdInv, [Next]_vars PROVE NoIdInv'
  OBVIOUS
<1>0. FlagInv'
  BY FlagStep DEF NoIdInv
<1> USE <1>0, IdentityAssumption DEF TypeOK, NoIdInv, Phases
<1>1. ASSUME NEW i \in Instances, ConstructUser(i) PROVE NoIdInv'
  BY <1>1 DEF ConstructUser, CreateUser, FlagInv
<1>2. ASSUME NEW i \in Instances, CheckUserId(i) PROVE NoIdInv'
  BY <1>2 DEF CheckUserId, FinishInit
<1>3. ASSUME NEW i \in Instances, CreateUserAgain(i) PROVE NoIdInv'
  BY <1>3 DEF CreateUserAgain, CreateUser, FinishInit, FlagInv
<1>4. ASSUME NEW i \in Instances, NEW u \in UserIds, CreateUserSucceeds(i, u)
      PROVE  NoIdInv'
  BY <1>4 DEF CreateUserSucceeds, Answered, MainFree, SetUserId, FlagInv
<1>5. ASSUME NEW i \in Instances, CreateUserFails(i) PROVE NoIdInv'
  BY <1>5 DEF CreateUserFails, Answered, FlagInv
<1>6. CASE ProcessDies
  BY <1>6 DEF ProcessDies
<1>7. CASE ConnectivityChanges
  BY <1>7 DEF ConnectivityChanges
<1>8. CASE UNCHANGED vars
  BY <1>8 DEF vars
<1> QED
  BY <1>1, <1>2, <1>3, <1>4, <1>5, <1>6, <1>7, <1>8
     DEF Next, CreateUserTraps, Terminate

LEMMA NoIdCorrect == Spec => []NoIdInv
<1>1. Init => NoIdInv
  <2> SUFFICES ASSUME Init PROVE NoIdInv
    OBVIOUS
  <2>1. FlagInv
    BY FlagInit
  <2>2. \A i \in OnMain : userId[i] = NoId
    BY IdentityAssumption DEF Init
  <2> QED
    BY <2>1, <2>2, Zenon DEF NoIdInv
<1>2. TypeOK /\ NoIdInv /\ [Next]_vars => NoIdInv'
  BY NoIdStep
<1> QED
  BY <1>1, <1>2, TypeCorrect, PTL DEF Spec

\* An object built on the main queue that knows its id waits for no other.
THEOREM KnownIdStopsCreationHolds == Spec => []KnownIdStopsCreation
<1>1. NoIdInv => KnownIdStopsCreation
  <2> SUFFICES ASSUME NoIdInv, NEW i \in OnMain, pending[i] > 0
               PROVE  userId[i] = NoId
    BY DEF KnownIdStopsCreation
  <2>1. i \in Instances
    BY IdentityAssumption
  <2>2. pending[i] \in {0, 1}
    BY <2>1, Zenon DEF NoIdInv, FlagInv
  <2>3. pending[i] = 1
    BY <2>2
  <2> QED
    BY <2>3, Zenon DEF NoIdInv
<1> QED
  BY <1>1, NoIdCorrect, PTL

\* Nor does its id change while it lives.
THEOREM OwnIdWriteOnceHolds == Spec => OwnIdWriteOnce
<1> DEFINE KeepsIds == \A i \in OnMain :
               userId[i] # NoId /\ phase'[i] # "absent" => userId'[i] = userId[i]
<1>1. TypeOK /\ NoIdInv /\ [Next]_vars => [KeepsIds]_vars
  <2> SUFFICES ASSUME TypeOK, NoIdInv, Next,
                      NEW i \in OnMain, userId[i] # NoId, phase'[i] # "absent"
               PROVE  userId'[i] = userId[i]
    OBVIOUS
  <2>0. i \in Instances
    BY IdentityAssumption
  <2>1. phase[i] # "absent"
    BY <2>0 DEF NoIdInv, FlagInv
  <2>2. ASSUME NEW j \in Instances, ConstructUser(j) PROVE userId'[i] = userId[i]
    BY <2>0, <2>1, <2>2 DEF ConstructUser, TypeOK
  <2>3. ASSUME NEW j \in Instances, NEW u \in UserIds, CreateUserSucceeds(j, u)
        PROVE  userId'[i] = userId[i]
    <3>1. pending[j] = 1 /\ (j \in OnMain => userId[j] = NoId)
      BY <2>3 DEF CreateUserSucceeds, Answered, NoIdInv, FlagInv, TypeOK
    <3> QED
      BY <2>0, <2>3, <3>1 DEF CreateUserSucceeds, SetUserId, TypeOK
  <2>4. ASSUME NEW j \in Instances,
               CheckUserId(j) \/ CreateUserAgain(j) \/ CreateUserFails(j)
        PROVE  userId'[i] = userId[i]
    BY <2>4 DEF CheckUserId, CreateUserAgain, CreateUserFails
  <2>5. CASE ProcessDies
    BY <2>0, <2>5 DEF ProcessDies
  <2>6. CASE ConnectivityChanges
    BY <2>6 DEF ConnectivityChanges
  <2> QED
    BY <2>2, <2>3, <2>4, <2>5, <2>6 DEF Next, CreateUserTraps, Terminate
<1> QED
  BY <1>1, NoIdCorrect, TypeCorrect, PTL DEF Spec, OwnIdWriteOnce

---------------------------------------------------------------------------
LEMMA OwnerStep ==
    TypeOK /\ FlagInv /\ SavedIdHasAnOwner /\ [Next]_vars => SavedIdHasAnOwner'
<1> SUFFICES ASSUME TypeOK, FlagInv, SavedIdHasAnOwner, [Next]_vars
             PROVE  SavedIdHasAnOwner'
  OBVIOUS
<1> USE DEF TypeOK, SavedIdHasAnOwner, Live, Phases
<1>1. ASSUME NEW i \in Instances, ConstructUser(i) PROVE SavedIdHasAnOwner'
  BY <1>1 DEF ConstructUser
<1>2. ASSUME NEW i \in Instances, CheckUserId(i) PROVE SavedIdHasAnOwner'
  BY <1>2 DEF CheckUserId, FinishInit
<1>3. ASSUME NEW i \in Instances, CreateUserAgain(i) PROVE SavedIdHasAnOwner'
  BY <1>3 DEF CreateUserAgain, FinishInit
<1>4. ASSUME NEW i \in Instances, NEW u \in UserIds, CreateUserSucceeds(i, u)
      PROVE  SavedIdHasAnOwner'
  BY <1>4, IdentityAssumption DEF CreateUserSucceeds, Answered, SetUserId, FlagInv
<1>5. ASSUME NEW i \in Instances, CreateUserFails(i) PROVE SavedIdHasAnOwner'
  BY <1>5 DEF CreateUserFails
<1>6. CASE ProcessDies
  BY <1>6 DEF ProcessDies
<1>7. CASE ConnectivityChanges
  BY <1>7 DEF ConnectivityChanges
<1>8. CASE UNCHANGED vars
  BY <1>8 DEF vars
<1> QED
  BY <1>1, <1>2, <1>3, <1>4, <1>5, <1>6, <1>7, <1>8
     DEF Next, CreateUserTraps, Terminate

\* The suite and the memories of the objects agree, rivals apart.
THEOREM SavedIdHasAnOwnerHolds == Spec => []SavedIdHasAnOwner
<1>1. Init => SavedIdHasAnOwner
  BY DEF Init, SavedIdHasAnOwner, Live
<1> QED
  BY <1>1, OwnerStep, FlagCorrect, TypeCorrect, PTL DEF Spec

\* A saved id is replaced only beside the object that saved it, and on the main
\* queue only by an object built before.
THEOREM SavedIdRewrittenOnlyByRivalHolds == Spec => SavedIdRewrittenOnlyByRival
<1> DEFINE Rewrite == savedId # NoId /\ savedId' # savedId =>
               \E i, j \in Instances :
                  /\ Live(i) /\ userId'[i] = savedId' /\ (i \in OnMain => userId[i] = NoId)
                  /\ Live(j) /\ userId[j] = savedId
<1>1. TypeOK /\ NoIdInv /\ SavedIdHasAnOwner /\ [Next]_vars => [Rewrite]_vars
  <2> SUFFICES ASSUME TypeOK, NoIdInv, SavedIdHasAnOwner, Next,
                      savedId # NoId, savedId' # savedId
               PROVE  Rewrite
    OBVIOUS
  <2>1. PICK i \in Instances, u \in UserIds : CreateUserSucceeds(i, u)
    BY DEF Next, ConstructUser, CheckUserId, CreateUserAgain, CreateUserFails,
           CreateUserTraps, Terminate, ProcessDies, ConnectivityChanges
  <2>2. Live(i) /\ userId'[i] = savedId' /\ (i \in OnMain => userId[i] = NoId)
    BY <2>1 DEF CreateUserSucceeds, Answered, SetUserId, NoIdInv, FlagInv, TypeOK, Live
  <2>3. \E j \in Instances : Live(j) /\ userId[j] = savedId
    BY <2>2 DEF SavedIdHasAnOwner
  <2> QED
    BY <2>2, <2>3
<1> QED
  BY <1>1, NoIdCorrect, SavedIdHasAnOwnerHolds, TypeCorrect, PTL
     DEF Spec, SavedIdRewrittenOnlyByRival

\* While a process has at most one object, and that one built on the main
\* queue, an id that was saved stays the id of the account.
THEOREM SoleObjectKeepsSavedId ==
    Spec => [][/\ savedId # NoId
               /\ \A i, j \in Instances : Live(i) /\ Live(j) => i = j /\ i \in OnMain
               => savedId' = savedId]_vars
<1> DEFINE Rewrite == savedId # NoId /\ savedId' # savedId =>
               \E i, j \in Instances :
                  /\ Live(i) /\ userId'[i] = savedId' /\ (i \in OnMain => userId[i] = NoId)
                  /\ Live(j) /\ userId[j] = savedId
           Keep == /\ savedId # NoId
                   /\ \A i, j \in Instances : Live(i) /\ Live(j) => i = j /\ i \in OnMain
                   => savedId' = savedId
<1>1. [Rewrite]_vars => [Keep]_vars
  BY Zenon
<1>2. Spec => [][Rewrite]_vars
  BY SavedIdRewrittenOnlyByRivalHolds DEF SavedIdRewrittenOnlyByRival
<1> QED
  BY <1>1, <1>2, PTL

---------------------------------------------------------------------------
\* An object whose flag is up without a request is past its last request.
THEOREM UnmadeRequestIsFinalHolds == Spec => UnmadeRequestIsFinal
<1> DEFINE Final == \A i \in Instances :
               running[i] /\ pending[i] = 0 /\ phase'[i] # "absent" =>
                  /\ running'[i] /\ pending'[i] = 0
                  /\ userId'[i] = userId[i]
<1>1. TypeOK /\ FlagInv /\ [Next]_vars => [Final]_vars
  <2> SUFFICES ASSUME TypeOK, FlagInv, Next, NEW i \in Instances,
                      running[i], pending[i] = 0, phase'[i] # "absent"
               PROVE  running'[i] /\ pending'[i] = 0 /\ userId'[i] = userId[i]
    OBVIOUS
  <2> DEFINE Goal == running'[i] /\ pending'[i] = 0 /\ userId'[i] = userId[i]
  <2>1. ASSUME NEW j \in Instances, CreateUser(j) PROVE running'[i] /\ pending'[i] = 0
    BY <2>1 DEF CreateUser, TypeOK
  <2>2. ASSUME NEW j \in Instances, ConstructUser(j) PROVE Goal
    <3>1. i # j
      BY <2>2 DEF ConstructUser, FlagInv
    <3> QED
      BY <2>1, <2>2, <3>1 DEF ConstructUser, TypeOK
  <2>3. ASSUME NEW j \in Instances, CheckUserId(j) \/ CreateUserAgain(j) PROVE Goal
    BY <2>1, <2>3, Zenon DEF CheckUserId, CreateUserAgain
  <2>4. ASSUME NEW j \in Instances, NEW u \in UserIds, CreateUserSucceeds(j, u)
        PROVE  Goal
    <3>1. i # j
      BY <2>4 DEF CreateUserSucceeds, Answered
    <3> QED
      BY <2>4, <3>1 DEF CreateUserSucceeds, Answered, SetUserId, TypeOK
  <2>5. ~ProcessDies
    BY DEF ProcessDies
  <2>6. ASSUME ConnectivityChanges PROVE Goal
    BY <2>6 DEF ConnectivityChanges
  <2>7. \/ \E j \in Instances : ConstructUser(j) \/ CheckUserId(j) \/ CreateUserAgain(j)
        \/ \E j \in Instances, u \in UserIds : CreateUserSucceeds(j, u)
        \/ \E j \in Instances : CreateUserFails(j)
        \/ ProcessDies \/ ConnectivityChanges
    BY Zenon DEF Next, CreateUserTraps, Terminate
  <2>8. ASSUME NEW j \in Instances, CreateUserFails(j) PROVE Goal
    <3>1. i # j
      BY <2>8 DEF CreateUserFails, Answered
    <3> QED
      BY <2>8, <3>1 DEF CreateUserFails, Answered, TypeOK
  <2> QED
    BY <2>2, <2>3, <2>4, <2>5, <2>6, <2>7, <2>8, Zenon
<1> QED
  BY <1>1, FlagCorrect, TypeCorrect, PTL DEF Spec, UnmadeRequestIsFinal

---------------------------------------------------------------------------
(***************************************************************************)
(* The abstract account.  Constructors, answers and deaths are Build,      *)
(* Learn and Die; the rest of a constructor, a failure and a change of     *)
(* connectivity are seen in neither the objects nor the suite.             *)
(***************************************************************************)
LEMMA AccountBuild ==
    ASSUME TypeOK, NEW i \in Instances, ConstructUser(i)
    PROVE  Account!Build(i)
<1>1. ~Live(i) /\ {j \in Instances : Live(j)}' = {j \in Instances : Live(j)} \cup {i}
  BY DEF ConstructUser, Live, TypeOK, Phases
<1> QED
  BY <1>1 DEF ConstructUser, Account!Build

LEMMA AccountLearn ==
    ASSUME TypeOK, NoIdInv, NEW i \in Instances, NEW u \in UserIds, CreateUserSucceeds(i, u)
    PROVE  Account!Learn(i, u)
<1>1. pending[i] = 1
  BY DEF CreateUserSucceeds, Answered, NoIdInv, FlagInv, TypeOK
<1>2. Live(i) /\ (i \in OnMain => userId[i] = NoId)
  BY <1>1 DEF NoIdInv, FlagInv, Live
<1>3. UNCHANGED {j \in Instances : Live(j)}
  BY DEF CreateUserSucceeds, Live
<1> QED
  BY <1>2, <1>3 DEF CreateUserSucceeds, SetUserId, Account!Learn

LEMMA AccountDie == ASSUME ProcessDies PROVE Account!Die
<1>1. {j \in Instances : Live(j)}' = {}
  BY DEF ProcessDies, Live
<1> QED
  BY <1>1 DEF ProcessDies, Account!Die

LEMMA AccountStutter ==
    ASSUME TypeOK,
           \/ \E i \in Instances : CheckUserId(i) \/ CreateUserAgain(i) \/ CreateUserFails(i)
           \/ ConnectivityChanges
           \/ UNCHANGED vars
    PROVE  UNCHANGED Account!vars
<1>1. UNCHANGED <<userId, savedId>>
  BY DEF CheckUserId, CreateUserAgain, CreateUserFails, ConnectivityChanges, vars
<1>2. \A j \in Instances : Live(j)' <=> Live(j)
  BY DEF CheckUserId, CreateUserAgain, FinishInit, CreateUserFails, ConnectivityChanges,
         vars, Live, TypeOK, Phases
<1> QED
  BY <1>1, <1>2 DEF Account!vars

\* Whatever its constructors, requests and flags do, the SDK's identity
\* component keeps the promise of AccountIdentity.
THEOREM AccountImplemented == Spec => ImplementsAccount
<1>1. Init => Account!Init
  <2>1. Init => {j \in Instances : Live(j)} = {}
    BY DEF Init, Live
  <2> QED
    BY <2>1 DEF Init, Account!Init
<1>2. TypeOK /\ NoIdInv /\ [Next]_vars => [Account!Next]_(Account!vars)
  <2> SUFFICES ASSUME TypeOK, NoIdInv, [Next]_vars
               PROVE  Account!Next \/ UNCHANGED Account!vars
    OBVIOUS
  <2>1. ASSUME NEW i \in Instances, ConstructUser(i) PROVE Account!Next
    BY <2>1, AccountBuild DEF Account!Next
  <2>2. ASSUME NEW i \in Instances, NEW u \in UserIds, CreateUserSucceeds(i, u)
        PROVE  Account!Next
    BY <2>2, AccountLearn DEF Account!Next
  <2>3. ASSUME ProcessDies PROVE Account!Next
    BY <2>3, AccountDie DEF Account!Next
  <2> QED
    BY <2>1, <2>2, <2>3, AccountStutter DEF Next, CreateUserTraps, Terminate
<1> QED
  BY <1>1, <1>2, NoIdCorrect, TypeCorrect, PTL DEF Spec, ImplementsAccount, Account!Spec

===========================================================================
