-------------------------- MODULE OnBoardingSync --------------------------
(***************************************************************************)
(* How on-boarding values of one account travel from the host application  *)
(* to the Navegg service.                                                  *)
(*                                                                         *)
(* NaveggApi.setOnboarding saves the value in the defaults suite           *)
(* (OnBoarding.addInfo) and has WebService.sendOnBoarding send the whole   *)
(* map; User.sendDataSaveInDefault, which ReachabilityManager calls when   *)
(* the application goes to the background or Wi-Fi comes back, sends it    *)
(* again.  A request names the user id of the object that sends it, and    *)
(* the service keeps a profile for every id.  The completion of a request  *)
(* records a status and a date in the suite.  Every NaveggApi object has a *)
(* map and a user id of its own in memory; the suite is shared and         *)
(* outlives the process.                                                   *)
(***************************************************************************)
EXTENDS UtilDates

CONSTANTS
    Instances,       \* NaveggApi objects the host may build for the account
    UserIds, NoId,   \* ids the service may give, and the id "0" of none
    Keys, Values,    \* on-boarding keys and values
    NoValue,         \* the key is not in the dictionary
    NoDate,          \* "dateLastSyncOnBoarding" is not in the suite
    Offsets,         \* offsets from GMT of the zones the device visits
    ClockMayGoBack,  \* TRUE iff the device clock may be set back
    MaxTime,         \* bound: the last instant
    MaxSends         \* bound: requests over all launches

ASSUME OnBoardingAssumption ==
    /\ NoId \notin UserIds
    /\ NoValue \notin Values
    /\ NoDate \notin Nat
    /\ Offsets \subseteq Nat /\ Offsets # {}
    /\ ClockMayGoBack \in BOOLEAN
    /\ MaxTime \in Nat /\ MaxSends \in Nat

VARIABLES
    live,          \* objects built in this process
    userId,        \* userId[i]: what getUserId of i answers
    savedId,       \* the user id in the suite
    valueData,     \* valueData[i]: OnBoarding.valueData of i
    saved,         \* "onBoarding<account>" in the suite
    toSend,        \* "toSendOnBoarding" in the suite: TRUE once sent
    dateLastSync,  \* "dateLastSyncOnBoarding" in the suite, a date text
    flight,        \* requests whose completion has not run
    transit,       \* requests the service has neither merged nor refused
    sends,         \* number of requests issued
    profile,       \* profile[u]: what the service has recorded of user u
    online,        \* Util.isConnectedInternet
    now,           \* Date()
    offset         \* the current calendar's offset from GMT

objects == <<live, userId, valueData>>
suite   == <<saved, toSend, dateLastSync>>
network == <<flight, transit, sends, profile>>
world   == <<savedId, online, now, offset>>
vars    == <<objects, suite, network, world>>

Map == [Keys -> Values \cup {NoValue}]

Empty == [k \in Keys |-> NoValue]

Request == [id : Nat \ {0}, user : UserIds, data : Map]

\* The live objects that know an id.
knowsId == {i \in live : userId[i] # NoId}

TypeOK ==
    /\ live \subseteq Instances
    /\ userId \in [Instances -> UserIds \cup {NoId}]
    /\ savedId \in UserIds \cup {NoId}
    /\ valueData \in [Instances -> Map]
    /\ saved \in Map
    /\ toSend \in BOOLEAN
    /\ dateLastSync \in Nat \cup {NoDate}
    /\ flight \cup transit \subseteq Request
    /\ \A r, s \in flight \cup transit : r.id = s.id => r = s
    /\ sends \in 0..MaxSends
    /\ \A r \in flight \cup transit : r.id <= sends
    /\ profile \in [UserIds -> Map]
    /\ online \in BOOLEAN
    /\ now \in 0..MaxTime
    /\ offset \in Offsets

Init ==
    /\ live = {}
    /\ userId = [i \in Instances |-> NoId]
    /\ savedId = NoId
    /\ valueData = [i \in Instances |-> Empty]
    /\ saved = Empty
    /\ toSend = FALSE
    /\ dateLastSync = NoDate
    /\ flight = {}
    /\ transit = {}
    /\ sends = 0
    /\ profile = [u \in UserIds |-> Empty]
    /\ online \in BOOLEAN
    /\ now = 0
    /\ offset \in Offsets

---------------------------------------------------------------------------
(***************************************************************************)
(* Object life.  User.init loads the id, OnBoarding.init the map; which id *)
(* an answer of createUser brings, and when, is the business of            *)
(* UserIdentity.                                                           *)
(***************************************************************************)
Construct(i) ==
    /\ i \notin live
    /\ live' = live \cup {i}
    /\ userId' = [userId EXCEPT ![i] = savedId]
    /\ valueData' = [valueData EXCEPT ![i] = saved]
    /\ UNCHANGED <<suite, network, world>>

\* An id reaches an object that has none, and the suite.
LearnId(i, u) ==
    /\ i \in live \ knowsId
    /\ userId' = [userId EXCEPT ![i] = u]
    /\ savedId' = u
    /\ UNCHANGED <<live, valueData, suite, network, online, now, offset>>

---------------------------------------------------------------------------
(***************************************************************************)
(* WebService.sendOnBoarding of object i, its map being data.  Without an  *)
(* id it returns at once; without a connection it lowers the status; else  *)
(* a request sets out, and its completion waits for the answer.            *)
(***************************************************************************)
RequestSetsOut(i, data) ==
    LET new == [id |-> sends + 1, user |-> userId[i], data |-> data]
    IN  /\ sends < MaxSends
        /\ sends' = sends + 1
        /\ flight' = flight \cup {new}
        /\ transit' = transit \cup {new}

SendOnBoardingWithSavedId(i, data) ==
    \/ /\ savedId = NoId
       /\ UNCHANGED <<toSend, flight, transit, sends>>
    \/ /\ savedId # NoId
       /\ online
       /\ RequestSetsOut(i, data)
       /\ UNCHANGED toSend
    \/ /\ savedId # NoId
       /\ ~online
       /\ toSend' = FALSE
       /\ UNCHANGED <<flight, transit, sends>>

SendOnBoarding(i, data) ==
    \/ /\ i \notin knowsId
       /\ UNCHANGED <<toSend, flight, transit, sends>>
    \/ /\ i \in knowsId
       /\ online
       /\ RequestSetsOut(i, data)
       /\ UNCHANGED toSend
    \/ /\ i \in knowsId
       /\ ~online
       /\ toSend' = FALSE
       /\ UNCHANGED <<flight, transit, sends>>

\* OnBoarding.addInfo refuses a value that is saved already when the last
\* successful request was answered today.
Suppressed(k, v) ==
    /\ saved[k] = v
    /\ dateLastSync # NoDate
    /\ dayBetweenDates(now, StringToDate(dateLastSync), offset) = 0

\* The map addInfo builds: the one in the suite, read again, with the value.
WithValueFromMemory(i, k, v) == [valueData[i] EXCEPT ![k] = v]

WithValue(i, k, v) == [saved EXCEPT ![k] = v]

\* NaveggApi.setOnboarding, addInfo returning false.
SetOnboardingSuppressed(i, k, v) ==
    /\ i \in live
    /\ Suppressed(k, v)
    /\ valueData' = [valueData EXCEPT ![i] = saved]
    /\ UNCHANGED <<live, userId, suite, network, world>>

\* NaveggApi.setOnboarding, addInfo returning true: save, then send.
SaveInfoInMemoryOnly(i, k, v) ==
    /\ i \in live
    /\ ~Suppressed(k, v)
    /\ valueData' = [valueData EXCEPT ![i] = WithValue(i, k, v)]
    /\ UNCHANGED saved

SaveInfo(i, k, v) ==
    /\ i \in live
    /\ ~Suppressed(k, v)
    /\ valueData' = [valueData EXCEPT ![i] = WithValue(i, k, v)]
    /\ saved' = WithValue(i, k, v)

SetOnboardingSendingFirst(i, k, v) ==
    /\ SaveInfo(i, k, v)
    /\ SendOnBoarding(i, valueData[i])
    /\ UNCHANGED <<live, userId, dateLastSync, profile, world>>

SetOnboarding(i, k, v) ==
    /\ SaveInfo(i, k, v)
    /\ SendOnBoarding(i, WithValue(i, k, v))
    /\ UNCHANGED <<live, userId, dateLastSync, profile, world>>

\* OnBoarding.hasToSendOnBoarding
hasToSendOnBoarding == ~toSend

\* User.sendDataSaveInDefault: the map in memory is sent when
\* hasToSendOnBoarding answers false.
SendDataSaveInDefault(i) ==
    /\ i \in live
    /\ online
    /\ ~hasToSendOnBoarding
    /\ SendOnBoarding(i, valueData[i])
    /\ UNCHANGED <<objects, saved, dateLastSync, profile, world>>

\* The same when the connection goes between the two looks at it, the one of
\* sendDataSaveInDefault and the one of sendOnBoarding.
ResendLosesConnection(i) ==
    /\ i \in knowsId
    /\ online
    /\ ~hasToSendOnBoarding
    /\ online' = FALSE
    /\ toSend' = FALSE
    /\ UNCHANGED <<objects, saved, dateLastSync, network, savedId, now, offset>>

---------------------------------------------------------------------------
(***************************************************************************)
(* The service and the completions.                                        *)
(***************************************************************************)

\* The service merges the map of a request into the profile of the user it
\* names, also when nobody waits for the answer any more.
ServiceAccepts(r) ==
    /\ transit' = transit \ {r}
    /\ profile' = [profile EXCEPT ![r.user] =
          [k \in Keys |-> IF r.data[k] = NoValue THEN @[k] ELSE r.data[k]]]
    /\ UNCHANGED <<objects, suite, flight, sends, world>>

\* case .success of sendOnBoarding.  There is no validate(): an answer with
\* an error status, to a request the service refuses, comes here too.
SendSucceeds(r) ==
    /\ flight' = flight \ {r}
    /\ transit' = transit \ {r}
    /\ toSend' = TRUE
    /\ dateLastSync' = DateToString(now)
    /\ UNCHANGED <<objects, saved, sends, profile, world>>

\* case .failure: no answer arrived.  The request may have been merged, may be
\* on its way still, or lost.
SendFails(r) ==
    /\ flight' = flight \ {r}
    /\ toSend' = FALSE
    /\ UNCHANGED <<objects, saved, dateLastSync, transit, sends, profile, world>>

---------------------------------------------------------------------------
(***************************************************************************)
(* Process death, between handlers or between two writes of one handler.   *)
(* Writes to the suite that were made stay, and so do requests on the way. *)
(***************************************************************************)
ProcessDies ==
    /\ live' = {}
    /\ userId' = [i \in Instances |-> NoId]
    /\ valueData' = [i \in Instances |-> Empty]
    /\ flight' = {}
    /\ UNCHANGED <<sends, profile, world>>

Terminate ==
    /\ live # {}
    /\ ProcessDies
    /\ UNCHANGED <<suite, transit>>

\* addInfo has saved the value, setOnboarding has not sent it.
DiesAfterSave(i, k, v) ==
    /\ i \in live
    /\ ~Suppressed(k, v)
    /\ saved' = WithValue(i, k, v)
    /\ ProcessDies
    /\ UNCHANGED <<toSend, dateLastSync, transit>>

\* The completion has recorded the status but not the date.
DiesBetweenStatusAndDate(r) ==
    /\ toSend' = TRUE
    /\ transit' = transit \ {r}
    /\ ProcessDies
    /\ UNCHANGED <<saved, dateLastSync>>

---------------------------------------------------------------------------
\* The device: connectivity, clock and time zone.
ConnectivityChanges ==
    /\ online' = ~online
    /\ UNCHANGED <<objects, suite, network, savedId, now, offset>>

Tick ==
    /\ now < MaxTime
    /\ now' = now + 1
    /\ UNCHANGED <<objects, suite, network, savedId, online, offset>>

ClockSetBack ==
    /\ ClockMayGoBack
    /\ now' \in 0..(now - 1)
    /\ UNCHANGED <<objects, suite, network, savedId, online, offset>>

Travel ==
    /\ offset' \in Offsets \ {offset}
    /\ UNCHANGED <<objects, suite, network, savedId, online, now>>

Next ==
    \/ \E i \in Instances :
          \/ Construct(i)
          \/ \E u \in UserIds : LearnId(i, u)
          \/ SendDataSaveInDefault(i)
          \/ ResendLosesConnection(i)
          \/ \E k \in Keys, v \in Values :
                \/ SetOnboardingSuppressed(i, k, v)
                \/ SetOnboarding(i, k, v)
                \/ DiesAfterSave(i, k, v)
    \/ \E r \in transit : ServiceAccepts(r)
    \/ \E r \in flight :
          \/ SendSucceeds(r)
          \/ SendFails(r)
          \/ DiesBetweenStatusAndDate(r)
    \/ Terminate
    \/ ConnectivityChanges
    \/ Tick
    \/ ClockSetBack
    \/ Travel

Spec == Init /\ [][Next]_vars

\* ReachabilityManager keeps calling sendDataSaveInDefault and Alamofire calls
\* every completion; connectivity returns as often as it goes.
FairSpec ==
    /\ Spec
    /\ \A i \in Instances : SF_vars(SendDataSaveInDefault(i))
    /\ WF_vars(\E r \in flight : SendSucceeds(r) \/ SendFails(r))
    /\ WF_vars(~online /\ ConnectivityChanges)

---------------------------------------------------------------------------
(***************************************************************************)
(* Properties                                                              *)
(***************************************************************************)

\* A key is in the suite before it is anywhere else: whatever happens to the
\* process, no request, no object and no profile holds a key the device has
\* lost.
WriteAhead ==
    \A k \in Keys : saved[k] = NoValue =>
        /\ \A u \in UserIds : profile[u][k] = NoValue
        /\ \A r \in flight \cup transit : r.data[k] = NoValue
        /\ \A i \in live : valueData[i][k] = NoValue

\* Nothing is sent but in the name of a user: every request under way names
\* the id a live object knows, and before an account has an id there is no
\* request, status, date or profile.
NoAnonymousTraffic ==
    /\ \A r \in flight : \E i \in knowsId : userId[i] = r.user
    /\ savedId = NoId =>
          /\ sends = 0 /\ ~toSend /\ dateLastSync = NoDate
          /\ \A u \in UserIds : profile[u] = Empty

\* The saved map changes at one key at a time and never loses one, however
\* many objects with older maps in memory write to it.
NoLostUpdate ==
    [][saved' # saved =>
         \E k \in Keys : /\ saved' = [saved EXCEPT ![k] = saved'[k]]
                        /\ saved'[k] # NoValue]_vars

\* While one object is alive every request carries the map of the suite, so
\* the newest request makes all earlier ones superfluous.
RequestsCarrySavedMap ==
    [][sends' > sends /\ (\A i, j \in live : i = j) =>
         \A r \in flight' : r.id = sends' => r.data = saved']_vars

\* "will retry later" (WebService.swift:154), when the host does the retrying
\* by calling setOnboarding again: while the status says that the last send
\* failed, addInfo holds back no value the service has recorded of nobody.
HeldBackOnlyWhenSent ==
    \A k \in Keys, v \in Values :
        ~toSend /\ flight = {} /\ Suppressed(k, v)
            => \E u \in UserIds : profile[u][k] = v

\* "Send Data when user lay app in background or close app and after open the
\* app" (User.swift:116): an identified user's saved data that was not sent,
\* or whose last send failed, is sent later on.
FailedSendRetried ==
    \A i \in Instances :
        (i \in knowsId /\ saved # Empty /\ ~toSend /\ flight = {} /\ sends < MaxSends)
            ~> (flight # {} \/ i \notin live)

===========================================================================
