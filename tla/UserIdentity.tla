--------------------------- MODULE UserIdentity ---------------------------
(***************************************************************************)
(* How one account of the SDK obtains its Navegg user id.                  *)
(*                                                                         *)
(* A host application builds NaveggApi objects.  NaveggApi.init builds a   *)
(* User, User.init reads the id saved in the defaults suite of the account *)
(* and, when there is none, asks the User's own WebService for a new one   *)
(* (createUser); NaveggApi.init then asks again.  The answer arrives later *)
(* as a callback on the main queue.  All objects of an account share the   *)
(* suite; each has its own WebService and so its own runningCreateUser.    *)
(***************************************************************************)
EXTENDS Naturals

CONSTANTS
    Instances,   \* the NaveggApi objects the host may build for the account
    UserIds,     \* the ids the service may issue
    NoId,        \* the id is nil or "0": User.getUserId treats them alike
    OnMain       \* those of them the host builds on the main queue

ASSUME IdentityAssumption ==
    /\ NoId \notin UserIds
    /\ OnMain \subseteq Instances

VARIABLES
    phase,       \* phase[i]: how far NaveggApi.init of object i has come
    userId,      \* userId[i]: User.userId of i
    running,     \* running[i]: WebService.runningCreateUser of i
    pending,     \* pending[i]: createUser requests of i not yet answered
    savedId,     \* NVGSDK_USERID in the defaults suite
    registered,  \* the suite's "accounts" array lists the account
    online       \* Util.isConnectedInternet

vars == <<phase, userId, running, pending, savedId, registered, online>>

Phases == {"absent",    \* not built, or lost with the process
           "built",     \* User.init has returned
           "missing",   \* NaveggApi.init has seen the id "0"
           "ready"}     \* NaveggApi.init has returned

TypeOK ==
    /\ phase \in [Instances -> Phases]
    /\ userId \in [Instances -> UserIds \cup {NoId}]
    /\ running \in [Instances -> BOOLEAN]
    /\ pending \in [Instances -> Nat]
    /\ savedId \in UserIds \cup {NoId}
    /\ registered \in BOOLEAN
    /\ online \in BOOLEAN

Init ==
    /\ phase = [i \in Instances |-> "absent"]
    /\ userId = [i \in Instances |-> NoId]
    /\ running = [i \in Instances |-> FALSE]
    /\ pending = [i \in Instances |-> 0]
    /\ savedId = NoId
    /\ registered = FALSE
    /\ online \in BOOLEAN

(***************************************************************************)
(* The main queue runs one handler at a time.  A constructor that runs on  *)
(* it keeps every other handler waiting until it returns.                  *)
(***************************************************************************)
MainFree == \A j \in OnMain : phase[j] \notin {"built", "missing"}

---------------------------------------------------------------------------
(***************************************************************************)
(* WebService.createUser, up to the request it leaves behind.  The flag is *)
(* raised before connectivity is looked at, and nothing lowers it when     *)
(* there is none.                                                          *)
(***************************************************************************)
CreateUserAlways(i) ==
    /\ running' = [running EXCEPT ![i] = TRUE]
    /\ pending' = IF online THEN [pending EXCEPT ![i] = @ + 1] ELSE pending

CreateUser(i) ==
    \/ /\ running[i]
       /\ UNCHANGED <<running, pending>>
    \/ /\ ~running[i]
       /\ running' = [running EXCEPT ![i] = TRUE]
       /\ pending' = IF online THEN [pending EXCEPT ![i] = @ + 1] ELSE pending

\* User.__set_user_id: memory first, then the suite, then synchronize.
SetUserIdInMemoryOnly(i, u) ==
    /\ userId' = [userId EXCEPT ![i] = u]
    /\ UNCHANGED savedId

SetUserId(i, u) ==
    /\ userId' = [userId EXCEPT ![i] = u]
    /\ savedId' = u

\* NaveggApi.init, lines 20-23, with the whole of User.init.
ConstructUserIgnoringSaved(i) ==
    /\ phase[i] = "absent"
    /\ i \in OnMain => MainFree
    /\ phase' = [phase EXCEPT ![i] = "built"]
    /\ UNCHANGED userId
    /\ CreateUser(i)
    /\ UNCHANGED <<savedId, registered, online>>

ConstructUser(i) ==
    /\ phase[i] = "absent"
    /\ i \in OnMain => MainFree
    /\ phase' = [phase EXCEPT ![i] = "built"]
    /\ userId' = [userId EXCEPT ![i] = savedId]
    /\ IF savedId = NoId THEN CreateUser(i) ELSE UNCHANGED <<running, pending>>
    /\ UNCHANGED <<savedId, registered, online>>

\* registerReceiverAndAccountSdk, the last statement of NaveggApi.init.
FinishInit(i) ==
    /\ phase' = [phase EXCEPT ![i] = "ready"]
    /\ registered' = TRUE

\* NaveggApi.init, line 26: the test, which a constructor that is not on the
\* main queue makes in one step and acts upon in another.
CheckUserId(i) ==
    /\ phase[i] = "built"
    /\ IF userId[i] = NoId
       THEN /\ phase' = [phase EXCEPT ![i] = "missing"]
            /\ UNCHANGED registered
       ELSE FinishInit(i)
    /\ UNCHANGED <<userId, running, pending, savedId, online>>

\* NaveggApi.init, line 27 to the end.
CreateUserAgain(i) ==
    /\ phase[i] = "missing"
    /\ CreateUser(i)
    /\ FinishInit(i)
    /\ UNCHANGED <<userId, savedId, online>>

---------------------------------------------------------------------------
(***************************************************************************)
(* The answer to a createUser request, handled on the main queue.          *)
(***************************************************************************)
AnsweredTwice(i) ==
    /\ MainFree
    /\ pending' = [pending EXCEPT ![i] = @ - 1]

Answered(i) ==
    /\ pending[i] > 0
    /\ MainFree
    /\ pending' = [pending EXCEPT ![i] = @ - 1]

\* The reply has a nvgid.  (The getSegments call that follows is the
\* business of the segments component.)
CreateUserSucceeds(i, u) ==
    /\ Answered(i)
    /\ SetUserId(i, u)
    /\ running' = [running EXCEPT ![i] = FALSE]
    /\ UNCHANGED <<phase, registered, online>>

\* The reply has no nvgid, cannot be read, has a status validate() refuses,
\* or the request failed: the flag is lowered and nothing else happens.
CreateUserFails(i) ==
    /\ Answered(i)
    /\ running' = [running EXCEPT ![i] = FALSE]
    /\ UNCHANGED <<phase, userId, savedId, registered, online>>

\* The process goes and takes every object and every callback with it.
ProcessDies ==
    /\ phase' = [i \in Instances |-> "absent"]
    /\ userId' = [i \in Instances |-> NoId]
    /\ running' = [i \in Instances |-> FALSE]
    /\ pending' = [i \in Instances |-> 0]
    /\ UNCHANGED <<savedId, registered, online>>

\* The reply is JSON but no dictionary, or its nvgid is no string: the forced
\* unwrap or cast stops the program.
CreateUserTraps(i) ==
    /\ pending[i] > 0
    /\ MainFree
    /\ ProcessDies

\* The system or the user ends the application, at any point.
Terminate ==
    /\ \E i \in Instances : phase[i] # "absent"
    /\ ProcessDies

ConnectivityChanges ==
    /\ online' = ~online
    /\ UNCHANGED <<phase, userId, running, pending, savedId, registered>>

---------------------------------------------------------------------------
Next ==
    \/ \E i \in Instances :
          \/ ConstructUser(i)
          \/ CheckUserId(i)
          \/ CreateUserAgain(i)
          \/ \E u \in UserIds : CreateUserSucceeds(i, u)
          \/ CreateUserFails(i)
          \/ CreateUserTraps(i)
    \/ Terminate
    \/ ConnectivityChanges

Spec == Init /\ [][Next]_vars

\* Constructors run to their end and Alamofire calls every completion.  The
\* host, the user and the network promise nothing.
FairSpec ==
    /\ Spec
    /\ \A i \in Instances :
          /\ WF_vars(CheckUserId(i))
          /\ WF_vars(CreateUserAgain(i))
          /\ WF_vars(CreateUserFails(i) \/ \E u \in UserIds : CreateUserSucceeds(i, u))

---------------------------------------------------------------------------
(***************************************************************************)
(* Properties                                                              *)
(***************************************************************************)
Live(i) == phase[i] # "absent"

\* A WebService never has two createUser requests in flight, although
\* NaveggApi.init calls createUserId twice in a row, and while it has one its
\* flag is up.
OneCreateInFlight ==
    \A i \in Instances : pending[i] <= 1 /\ (pending[i] = 1 => running[i])

\* Once an object built on the main queue knows its id no request for another
\* one is in flight, so no late answer can replace it.
KnownIdStopsCreation ==
    \A i \in OnMain : pending[i] > 0 => userId[i] = NoId

\* Whenever a live object does not hold the saved id, there is a saved id and
\* another live object that holds it: memory runs ahead of the suite in no
\* object, and an object is behind the suite only beside the one that saved.
SavedIdHasAnOwner ==
    \A i \in Instances :
        Live(i) /\ userId[i] # savedId =>
            /\ savedId # NoId
            /\ \E j \in Instances : Live(j) /\ userId[j] = savedId

\* The id such an object reports to the service does not change during its life.
OwnIdWriteOnce ==
    [][\A i \in OnMain :
         userId[i] # NoId /\ phase'[i] # "absent" => userId'[i] = userId[i]]_vars

\* A saved id is replaced only beside the object that saved it, and by an
\* object built on the main queue only if it was built before the id was
\* saved.  With one object per process the saved id of an account is therefore
\* written once, over all its launches.
SavedIdRewrittenOnlyByRival ==
    [][savedId # NoId /\ savedId' # savedId =>
         \E i, j \in Instances :
            /\ Live(i) /\ userId'[i] = savedId' /\ (i \in OnMain => userId[i] = NoId)
            /\ Live(j) /\ userId[j] = savedId]_vars

\* The flag is raised before connectivity is looked at: an object whose
\* request for an id was therefore never made does not make one, nor come by
\* an id that it does not have, for as long as it lives.
UnmadeRequestIsFinal ==
    [][\A i \in Instances :
         running[i] /\ pending[i] = 0 /\ phase'[i] # "absent" =>
            /\ running'[i] /\ pending'[i] = 0
            /\ userId'[i] = userId[i]]_vars

\* The objects and the suite show nothing but objects that start with the
\* saved id and learn a new one together with the suite, those built on the
\* main queue once.
Account == INSTANCE AccountIdentity WITH
    alive <- {i \in Instances : Live(i)}

ImplementsAccount == Account!Spec

\* What the warning of WebService.swift:72 says of a failed createUser: an
\* object left without an id and without a request will retry.
WillRetryLater ==
    \A i \in Instances :
        (phase[i] = "ready" /\ userId[i] = NoId /\ pending[i] = 0)
            ~> (pending[i] > 0 \/ phase[i] = "absent")

===========================================================================
