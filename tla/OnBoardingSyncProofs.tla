----------------------- MODULE OnBoardingSyncProofs -----------------------
(***************************************************************************)
(* Proofs about OnBoardingSync, for any number of objects, keys, values    *)
(* and requests, any clock and any zones.                                  *)
(***************************************************************************)
EXTENDS OnBoardingSync, UtilDatesProofs

\* The actions, cut into groups that touch different state.
HostStep ==
    \E i \in Instances :
       \/ Construct(i)
       \/ \E u \in UserIds : LearnId(i, u)
       \/ \E k \in Keys, v \in Values : SetOnboardingSuppressed(i, k, v)

SendStep ==
    \E i \in Instances :
       \/ SendDataSaveInDefault(i)
       \/ ResendLosesConnection(i)
       \/ \E k \in Keys, v \in Values : SetOnboarding(i, k, v)

AnswerStep ==
    \/ \E r \in transit : ServiceAccepts(r)
    \/ \E r \in flight : SendSucceeds(r) \/ SendFails(r)

DeathStep ==
    \/ Terminate
    \/ \E i \in Instances, k \in Keys, v \in Values : DiesAfterSave(i, k, v)
    \/ \E r \in flight : DiesBetweenStatusAndDate(r)

DeviceStep == ConnectivityChanges \/ Tick \/ ClockSetBack \/ Travel

LEMMA NextSplits == Next => HostStep \/ SendStep \/ AnswerStep \/ DeathStep \/ DeviceStep
  BY DEF Next, HostStep, SendStep, AnswerStep, DeathStep, DeviceStep

---------------------------------------------------------------------------
\* The request object i sends next.
NextRequest(i, data) == [id |-> sends + 1, user |-> userId[i], data |-> data]

LEMMA EmptyTyped == Empty \in Map
  BY DEF Empty, Map

LEMMA WithValueTyped ==
    ASSUME TypeOK, NEW i \in Instances, NEW k \in Keys, NEW v \in Values
    PROVE  WithValue(i, k, v) \in Map
  BY DEF TypeOK, WithValue, Map

\* What sendOnBoarding leaves behind: at most one request more, numbered next.
LEMMA SendOnBoardingEffect ==
    ASSUME TypeOK, NEW i \in Instances, NEW data \in Map, SendOnBoarding(i, data)
    PROVE  /\ toSend' \in BOOLEAN
           /\ sends' \in 0..MaxSends
           /\ \/ /\ sends' = sends + 1
                 /\ flight' = flight \cup {NextRequest(i, data)}
                 /\ transit' = transit \cup {NextRequest(i, data)}
                 /\ i \in knowsId
              \/ UNCHANGED <<sends, flight, transit>>
<1>1. toSend' \in BOOLEAN
  BY DEF SendOnBoarding, TypeOK
<1>2. \/ /\ sends < MaxSends
         /\ sends' = sends + 1
         /\ flight' = flight \cup {NextRequest(i, data)}
         /\ transit' = transit \cup {NextRequest(i, data)}
         /\ i \in knowsId
      \/ UNCHANGED <<sends, flight, transit>>
  BY Zenon DEF SendOnBoarding, RequestSetsOut, NextRequest
<1>3. sends' \in 0..MaxSends
  BY <1>2, OnBoardingAssumption DEF TypeOK
<1> QED
  BY <1>1, <1>2, <1>3

\* Requests keep their type and their numbers.
RequestsOK ==
    /\ flight \cup transit \subseteq Request
    /\ \A r, s \in flight \cup transit : r.id = s.id => r = s
    /\ \A r \in flight \cup transit : r.id <= sends

LEMMA SendOnBoardingRequests ==
    ASSUME TypeOK, NEW i \in Instances, NEW data \in Map, SendOnBoarding(i, data)
    PROVE  RequestsOK'
<1>1. CASE UNCHANGED <<sends, flight, transit>>
  BY <1>1 DEF TypeOK, RequestsOK
<1>2. CASE /\ sends' = sends + 1
           /\ flight' = flight \cup {NextRequest(i, data)}
           /\ transit' = transit \cup {NextRequest(i, data)}
           /\ i \in knowsId
  <2> DEFINE new == NextRequest(i, data)
  <2>0. userId[i] \in UserIds
    BY <1>2 DEF TypeOK, knowsId
  <2>1. new \in Request /\ new.id = sends + 1
    BY <2>0 DEF TypeOK, Request, NextRequest
  <2>2. \A r \in flight \cup transit : r \in Request /\ r.id \in Nat /\ r.id <= sends
    BY DEF TypeOK, Request
  <2> HIDE DEF new
  <2>3. flight' \cup transit' = (flight \cup transit) \cup {new}
    BY <1>2 DEF new
  <2> QED
    BY <1>2, <2>1, <2>2, <2>3 DEF TypeOK, RequestsOK
<1> QED
  BY <1>1, <1>2, SendOnBoardingEffect

\* Requests that only end keep the rest in order.
LEMMA EndedRequests ==
    ASSUME TypeOK, flight' \subseteq flight, transit' \subseteq transit, sends' = sends
    PROVE  RequestsOK'
  BY DEF TypeOK, RequestsOK

\* The suite, the objects, the requests and the device keep their types.
THEOREM TypeCorrect == Spec => []TypeOK
<1>1. Init => TypeOK
  <2> SUFFICES ASSUME Init PROVE TypeOK
    OBVIOUS
  <2>1. sends \in 0..MaxSends /\ now \in 0..MaxTime
    BY OnBoardingAssumption DEF Init
  <2>2. /\ valueData \in [Instances -> Map] /\ saved \in Map
        /\ profile \in [UserIds -> Map]
    BY EmptyTyped DEF Init
  <2> QED
    BY <2>1, <2>2 DEF Init, TypeOK
<1>2. TypeOK /\ [Next]_vars => TypeOK'
  <2> SUFFICES ASSUME TypeOK, [Next]_vars PROVE TypeOK'
    OBVIOUS
  <2>1. CASE HostStep
    <3>1. ASSUME NEW i \in Instances, Construct(i) PROVE TypeOK'
      BY <3>1 DEF Construct, TypeOK, suite, network, world
    <3>2. ASSUME NEW i \in Instances, NEW u \in UserIds, LearnId(i, u) PROVE TypeOK'
      BY <3>2 DEF LearnId, TypeOK, suite, network
    <3>3. ASSUME NEW i \in Instances, NEW k \in Keys, NEW v \in Values,
                 SetOnboardingSuppressed(i, k, v)
          PROVE  TypeOK'
      BY <3>3 DEF SetOnboardingSuppressed, TypeOK, suite, network, world
    <3> QED
      BY <2>1, <3>1, <3>2, <3>3 DEF HostStep
  <2>2. CASE SendStep
    <3>1. ASSUME NEW i \in Instances, SendDataSaveInDefault(i) PROVE TypeOK'
      <4>1. valueData[i] \in Map
        BY DEF TypeOK
      <4>2. SendOnBoarding(i, valueData[i])
        BY <3>1 DEF SendDataSaveInDefault
      <4>3. RequestsOK' /\ toSend' \in BOOLEAN /\ sends' \in 0..MaxSends
        BY <4>1, <4>2, SendOnBoardingRequests, SendOnBoardingEffect
      <4> QED
        BY <3>1, <4>3 DEF SendDataSaveInDefault, RequestsOK, TypeOK, objects, world
    <3>2. ASSUME NEW i \in Instances, NEW k \in Keys, NEW v \in Values,
                 SetOnboarding(i, k, v)
          PROVE  TypeOK'
      <4>1. WithValue(i, k, v) \in Map
        BY WithValueTyped
      <4>2. SendOnBoarding(i, WithValue(i, k, v)) /\ SaveInfo(i, k, v)
        BY <3>2 DEF SetOnboarding
      <4>3. RequestsOK' /\ toSend' \in BOOLEAN /\ sends' \in 0..MaxSends
        BY <4>1, <4>2, SendOnBoardingRequests, SendOnBoardingEffect
      <4>4. saved' \in Map /\ valueData' \in [Instances -> Map]
        BY <4>1, <4>2 DEF SaveInfo, TypeOK
      <4> QED
        BY <3>2, <4>3, <4>4 DEF SetOnboarding, RequestsOK, TypeOK, world
    <3>3. ASSUME NEW i \in Instances, ResendLosesConnection(i) PROVE TypeOK'
      BY <3>3 DEF ResendLosesConnection, TypeOK, objects, network
    <3> QED
      BY <2>2, <3>1, <3>2, <3>3 DEF SendStep
  <2>3. CASE AnswerStep
    <3>0. RequestsOK'
      BY <2>3, EndedRequests DEF AnswerStep, ServiceAccepts, SendSucceeds, SendFails
    <3>1. ASSUME NEW r \in transit, ServiceAccepts(r) PROVE TypeOK'
      <4>1. r.user \in UserIds /\ r.data \in Map
        BY <3>1 DEF TypeOK, Request
      <4>2. [k \in Keys |-> IF r.data[k] = NoValue THEN profile[r.user][k] ELSE r.data[k]]
               \in Map
        BY <4>1 DEF TypeOK, Map
      <4>3. profile' \in [UserIds -> Map]
        BY <3>1, <4>2 DEF ServiceAccepts, TypeOK
      <4> QED
        BY <3>0, <3>1, <4>3 DEF ServiceAccepts, RequestsOK, TypeOK, objects, suite, world
    <3>2. ASSUME NEW r \in flight, SendSucceeds(r) PROVE TypeOK'
      <4>1. DateToString(now) \in Nat
        BY DatesAssumption DEF TypeOK, DateToString
      <4> QED
        BY <3>0, <3>2, <4>1 DEF SendSucceeds, RequestsOK, TypeOK, objects, world
    <3>3. ASSUME NEW r \in flight, SendFails(r) PROVE TypeOK'
      BY <3>0, <3>3 DEF SendFails, RequestsOK, TypeOK, objects, world
    <3> QED
      BY <2>3, <3>1, <3>2, <3>3 DEF AnswerStep
  <2>4. CASE DeathStep
    <3>1. saved' \in Map
      BY <2>4, WithValueTyped
         DEF DeathStep, Terminate, DiesAfterSave, DiesBetweenStatusAndDate, TypeOK, suite
    <3>2. toSend' \in BOOLEAN /\ UNCHANGED dateLastSync
      BY <2>4
         DEF DeathStep, Terminate, DiesAfterSave, DiesBetweenStatusAndDate, TypeOK, suite
    <3>3. ProcessDies /\ transit' \subseteq transit
      BY <2>4 DEF DeathStep, Terminate, DiesAfterSave, DiesBetweenStatusAndDate
    <3>4. RequestsOK'
      BY <3>3, EndedRequests DEF ProcessDies
    <3> QED
      BY <3>1, <3>2, <3>3, <3>4, EmptyTyped DEF ProcessDies, RequestsOK, TypeOK, world
  <2>5. CASE DeviceStep
    <3>1. online' \in BOOLEAN /\ offset' \in Offsets
      BY <2>5 DEF DeviceStep, ConnectivityChanges, Tick, ClockSetBack, Travel, TypeOK
    <3>2. now' \in 0..MaxTime
      <4>1. CASE Tick
        BY <4>1, OnBoardingAssumption DEF Tick, TypeOK
      <4>2. CASE ClockSetBack
        BY <4>2, OnBoardingAssumption DEF ClockSetBack, TypeOK
      <4>3. CASE ConnectivityChanges \/ Travel
        BY <4>3 DEF ConnectivityChanges, Travel, TypeOK
      <4> QED
        BY <2>5, <4>1, <4>2, <4>3 DEF DeviceStep
    <3>3. UNCHANGED <<objects, suite, network, savedId>>
      BY <2>5 DEF DeviceStep, ConnectivityChanges, Tick, ClockSetBack, Travel
    <3> QED
      BY <3>1, <3>2, <3>3 DEF TypeOK, objects, suite, network
  <2>6. CASE UNCHANGED vars
    BY <2>6 DEF vars, objects, suite, network, world, TypeOK
  <2> QED
    BY <2>1, <2>2, <2>3, <2>4, <2>5, <2>6, NextSplits
<1> QED
  BY <1>1, <1>2, PTL DEF Spec

---------------------------------------------------------------------------
(***************************************************************************)
(* What is saved, in memory, under way and recorded, one key at a time.    *)
(***************************************************************************)

\* A key with a value stays a key with a value.
LEMMA WithValueKeeps ==
    ASSUME TypeOK, NEW i \in Instances, NEW k \in Keys, NEW v \in Values,
           NEW l \in Keys, WithValue(i, k, v)[l] = NoValue
    PROVE  saved[l] = NoValue
  BY OnBoardingAssumption DEF TypeOK, WithValue, Map

\* The parts of WriteAhead that speak of the suite and the objects.
MemoryBehind == \A k \in Keys, i \in live : saved[k] = NoValue => valueData[i][k] = NoValue
RequestsBehind ==
    \A k \in Keys, r \in flight \cup transit : saved[k] = NoValue => r.data[k] = NoValue
ProfileBehind ==
    \A k \in Keys, u \in UserIds : saved[k] = NoValue => profile[u][k] = NoValue

LEMMA WriteAheadParts == WriteAhead <=> MemoryBehind /\ RequestsBehind /\ ProfileBehind
  BY DEF WriteAhead, MemoryBehind, RequestsBehind, ProfileBehind

\* A request sent with a map no larger than the saved one keeps the rule.
LEMMA SendKeepsRequestsBehind ==
    ASSUME TypeOK, RequestsBehind, NEW i \in Instances, NEW data \in Map,
           SendOnBoarding(i, data),
           \A k \in Keys : saved'[k] = NoValue => saved[k] = NoValue /\ data[k] = NoValue
    PROVE  RequestsBehind'
<1>1. NextRequest(i, data).data = data
  BY DEF NextRequest
<1>2. /\ flight' \cup transit' \subseteq flight \cup transit \cup {NextRequest(i, data)}
  BY SendOnBoardingEffect, Zenon
<1> QED
  BY <1>1, <1>2, Zenon DEF RequestsBehind

\* What a profile holds after a merge it held before, or the request brought it.
LEMMA MergeEffect ==
    ASSUME TypeOK, NEW r \in transit, ServiceAccepts(r), NEW u \in UserIds, NEW k \in Keys
    PROVE  profile'[u][k] = profile[u][k] \/ profile'[u][k] = r.data[k]
<1> DEFINE merged == [l \in Keys |->
                        IF r.data[l] = NoValue THEN profile[r.user][l] ELSE r.data[l]]
<1>1. profile' = [profile EXCEPT ![r.user] = merged]
  BY Zenon DEF ServiceAccepts
<1>2. merged[k] = profile[r.user][k] \/ merged[k] = r.data[k]
  BY Zenon
<1>3. profile \in [UserIds -> Map]
  BY DEF TypeOK
<1> HIDE DEF merged
<1>4. profile'[u] = IF u = r.user THEN merged ELSE profile[u]
  BY <1>1, <1>3
<1> QED
  BY <1>2, <1>4, Zenon

\* No key reaches an object, a request or the service before the suite.
THEOREM WriteAheadHolds == Spec => []WriteAhead
<1>1. Init => WriteAhead
  BY DEF Init, WriteAhead, Empty
<1>2. TypeOK /\ WriteAhead /\ [Next]_vars => WriteAhead'
  <2> SUFFICES ASSUME TypeOK, WriteAhead, [Next]_vars PROVE WriteAhead'
    OBVIOUS
  <2>0. MemoryBehind /\ RequestsBehind /\ ProfileBehind
    BY WriteAheadParts
  <2> SUFFICES MemoryBehind' /\ RequestsBehind' /\ ProfileBehind'
    BY DEF WriteAhead, MemoryBehind, RequestsBehind, ProfileBehind
  <2>1. CASE HostStep
    <3>1. UNCHANGED <<saved, flight, transit, profile>>
      BY <2>1 DEF HostStep, Construct, LearnId, SetOnboardingSuppressed, suite, network
    <3>2. MemoryBehind'
      BY <2>0, <2>1
         DEF HostStep, Construct, LearnId, SetOnboardingSuppressed, suite, MemoryBehind, TypeOK
    <3> QED
      BY <2>0, <3>1, <3>2 DEF RequestsBehind, ProfileBehind
  <2>2. CASE SendStep
    <3>1. ASSUME NEW i \in Instances, SendDataSaveInDefault(i)
          PROVE  MemoryBehind' /\ RequestsBehind' /\ ProfileBehind'
      <4>1. i \in live /\ SendOnBoarding(i, valueData[i]) /\ UNCHANGED <<live, valueData, saved, profile>>
        BY <3>1 DEF SendDataSaveInDefault, objects
      <4>2. valueData[i] \in Map
        BY DEF TypeOK
      <4>3. RequestsBehind'
        BY <2>0, <4>1, <4>2, SendKeepsRequestsBehind DEF MemoryBehind
      <4> QED
        BY <2>0, <4>1, <4>3 DEF MemoryBehind, ProfileBehind
    <3>2. ASSUME NEW i \in Instances, NEW k \in Keys, NEW v \in Values,
                 SetOnboarding(i, k, v)
          PROVE  MemoryBehind' /\ RequestsBehind' /\ ProfileBehind'
      <4>1. /\ saved' = WithValue(i, k, v)
            /\ valueData' = [valueData EXCEPT ![i] = WithValue(i, k, v)]
            /\ SendOnBoarding(i, WithValue(i, k, v))
            /\ UNCHANGED <<live, profile>>
        BY <3>2 DEF SetOnboarding, SaveInfo
      <4>2. \A l \in Keys : saved'[l] = NoValue => saved[l] = NoValue
        BY <4>1, WithValueKeeps
      <4>3. RequestsBehind'
        BY <2>0, <4>1, <4>2, WithValueTyped, SendKeepsRequestsBehind
      <4>4. MemoryBehind'
        BY <2>0, <4>1, <4>2 DEF MemoryBehind, TypeOK
      <4> QED
        BY <2>0, <4>1, <4>2, <4>3, <4>4 DEF ProfileBehind
    <3>3. ASSUME NEW i \in Instances, ResendLosesConnection(i)
          PROVE  MemoryBehind' /\ RequestsBehind' /\ ProfileBehind'
      BY <2>0, <3>3 DEF ResendLosesConnection, objects, network,
                        MemoryBehind, RequestsBehind, ProfileBehind
    <3> QED
      BY <2>2, <3>1, <3>2, <3>3 DEF SendStep
  <2>3. CASE AnswerStep
    <3>1. UNCHANGED <<live, valueData, saved>>
      BY <2>3 DEF AnswerStep, ServiceAccepts, SendSucceeds, SendFails, objects, suite
    <3>2. RequestsBehind'
      <4>1. flight' \subseteq flight /\ transit' \subseteq transit
        BY <2>3 DEF AnswerStep, ServiceAccepts, SendSucceeds, SendFails
      <4> QED
        BY <2>0, <3>1, <4>1 DEF RequestsBehind
    <3>3. ASSUME NEW r \in transit, ServiceAccepts(r) PROVE ProfileBehind'
      BY <2>0, <3>1, <3>3, MergeEffect, Zenon DEF RequestsBehind, ProfileBehind
    <3>4. ASSUME UNCHANGED profile PROVE ProfileBehind'
      BY <2>0, <3>1, <3>4 DEF ProfileBehind
    <3>5. ProfileBehind'
      BY <2>3, <3>3, <3>4 DEF AnswerStep, SendSucceeds, SendFails
    <3> QED
      BY <2>0, <3>1, <3>2, <3>5 DEF MemoryBehind
  <2>4. CASE DeathStep
    <3>1. /\ live' = {} /\ flight' = {} /\ profile' = profile
          /\ transit' \subseteq transit
      BY <2>4
         DEF DeathStep, Terminate, DiesAfterSave, DiesBetweenStatusAndDate, ProcessDies
    <3>2. \A l \in Keys : saved'[l] = NoValue => saved[l] = NoValue
      BY <2>4, WithValueKeeps
         DEF DeathStep, Terminate, DiesAfterSave, DiesBetweenStatusAndDate, suite
    <3> QED
      BY <2>0, <3>1, <3>2 DEF MemoryBehind, RequestsBehind, ProfileBehind
  <2>5. CASE UNCHANGED <<objects, suite, network>>
    BY <2>0, <2>5 DEF objects, suite, network, MemoryBehind, RequestsBehind, ProfileBehind
  <2> QED
    BY <2>1, <2>2, <2>3, <2>4, <2>5, NextSplits
       DEF DeviceStep, ConnectivityChanges, Tick, ClockSetBack, Travel, vars
<1> QED
  BY <1>1, <1>2, TypeCorrect, PTL DEF Spec

\* The saved map changes at one key at a time and loses none.
THEOREM NoLostUpdateHolds == Spec => NoLostUpdate
<1> DEFINE OneKey == saved' # saved =>
              \E k \in Keys : /\ saved' = [saved EXCEPT ![k] = saved'[k]]
                             /\ saved'[k] # NoValue
<1>1. TypeOK /\ [Next]_vars => [OneKey]_vars
  <2> SUFFICES ASSUME TypeOK, Next, saved' # saved PROVE OneKey
    OBVIOUS
  <2>1. PICK i \in Instances, k \in Keys, v \in Values : saved' = WithValue(i, k, v)
    BY DEF Next, Construct, LearnId, SendDataSaveInDefault, ResendLosesConnection,
           SetOnboardingSuppressed, SetOnboarding, SaveInfo, DiesAfterSave, ServiceAccepts, SendSucceeds, SendFails,
           DiesBetweenStatusAndDate, Terminate, ConnectivityChanges, Tick, ClockSetBack,
           Travel, suite
  <2>2. saved'[k] = v
    BY <2>1 DEF WithValue, TypeOK, Map
  <2> QED
    BY <2>1, <2>2, OnBoardingAssumption DEF WithValue
<1> QED
  BY <1>1, TypeCorrect, PTL DEF Spec, NoLostUpdate

---------------------------------------------------------------------------
\* Before there is an id no object knows one and nothing was sent or recorded;
\* a request under way has its sender, which keeps its id, for company.
NothingRecorded ==
    /\ sends = 0 /\ ~toSend /\ dateLastSync = NoDate
    /\ profile = [u \in UserIds |-> Empty]

IdInv == savedId = NoId => knowsId = {} /\ NothingRecorded

SendersKnown == \A r \in flight : \E i \in knowsId : userId[i] = r.user

LEMMA IdStep == TypeOK /\ IdInv /\ [Next]_vars => IdInv'
<1> SUFFICES ASSUME TypeOK, IdInv, [Next]_vars, savedId' = NoId
             PROVE  knowsId' = {} /\ NothingRecorded'
  BY DEF IdInv
<1>1. savedId = NoId /\ (\A i \in Instances, u \in UserIds : ~LearnId(i, u))
  BY OnBoardingAssumption
  DEF Next, Construct, LearnId, SendDataSaveInDefault, ResendLosesConnection,
      SetOnboardingSuppressed, SetOnboarding, DiesAfterSave, ServiceAccepts, SendSucceeds,
      SendFails, ProcessDies, DiesBetweenStatusAndDate, Terminate, ConnectivityChanges, Tick,
      ClockSetBack, Travel, world, vars
<1>2. /\ knowsId = {} /\ sends = 0 /\ ~toSend
      /\ dateLastSync = NoDate /\ profile = [u \in UserIds |-> Empty]
  BY <1>1, Zenon DEF IdInv, NothingRecorded
<1>3. flight = {} /\ transit = {}
  BY <1>2 DEF TypeOK, Request
<1> DEFINE Kept == UNCHANGED <<sends, toSend, dateLastSync, profile>>
<1>4. CASE HostStep
  <2>1. Kept
    BY <1>1, <1>4, Zenon DEF HostStep, Construct, SetOnboardingSuppressed, suite, network
  <2>2. knowsId' = {}
    <3>1. ASSUME NEW i \in Instances, Construct(i) PROVE knowsId' = {}
      BY <1>1, <1>2, <3>1 DEF Construct, knowsId, TypeOK
    <3>2. ASSUME NEW i \in Instances, NEW k \in Keys, NEW v \in Values,
                 SetOnboardingSuppressed(i, k, v)
          PROVE  knowsId' = {}
      BY <1>2, <3>2 DEF SetOnboardingSuppressed, knowsId
    <3> QED
      BY <1>1, <1>4, <3>1, <3>2 DEF HostStep
  <2> QED
    BY <1>2, <2>1, <2>2, Zenon DEF NothingRecorded
<1>5. CASE SendStep
  <2>1. ASSUME NEW i \in Instances, NEW data, SendOnBoarding(i, data)
        PROVE  UNCHANGED <<toSend, flight, transit, sends>>
    BY <1>2, <2>1 DEF SendOnBoarding
  <2>2. Kept /\ UNCHANGED <<live, userId>>
    BY <1>2, <1>5, <2>1, Zenon
    DEF SendStep, SendDataSaveInDefault, ResendLosesConnection, SetOnboarding, objects
  <2> QED
    BY <1>2, <2>2, Zenon DEF NothingRecorded, knowsId
<1>6. CASE AnswerStep
  BY <1>3, <1>6 DEF AnswerStep
<1>7. CASE DeathStep
  <2>1. live' = {} /\ Kept
    BY <1>3, <1>7, Zenon
    DEF DeathStep, Terminate, DiesAfterSave, DiesBetweenStatusAndDate, ProcessDies, suite
  <2> QED
    BY <1>2, <2>1, Zenon DEF NothingRecorded, knowsId
<1>8. CASE UNCHANGED <<objects, suite, network>>
  BY <1>2, <1>8, Zenon DEF objects, suite, network, NothingRecorded, knowsId
<1> QED
  BY <1>4, <1>5, <1>6, <1>7, <1>8, NextSplits
  DEF DeviceStep, ConnectivityChanges, Tick, ClockSetBack, Travel, vars

\* Whoever knows an id keeps it for life.
LEMMA KnownIdsStay ==
    ASSUME TypeOK, [Next]_vars, flight' # {}, NEW i \in knowsId
    PROVE  i \in knowsId' /\ userId'[i] = userId[i]
<1>1. ~ProcessDies
  BY DEF ProcessDies
<1>2. i \in live /\ i \in Instances /\ userId[i] # NoId
  BY DEF knowsId, TypeOK
<1>3. i \in live' /\ userId'[i] = userId[i]
  <2>1. ASSUME NEW j \in Instances, Construct(j) PROVE i \in live' /\ userId'[i] = userId[i]
    BY <1>2, <2>1 DEF Construct, TypeOK
  <2>2. ASSUME NEW j \in Instances, NEW u \in UserIds, LearnId(j, u)
        PROVE  i \in live' /\ userId'[i] = userId[i]
    BY <1>2, <2>2 DEF LearnId, TypeOK
  <2>3. CASE UNCHANGED <<live, userId>>
    BY <1>2, <2>3
  <2>4. \/ \E j \in Instances : Construct(j) \/ \E u \in UserIds : LearnId(j, u)
        \/ UNCHANGED <<live, userId>>
    BY <1>1, Zenon
    DEF Next, SendDataSaveInDefault, ResendLosesConnection, SetOnboardingSuppressed,
        SetOnboarding, DiesAfterSave, ServiceAccepts, SendSucceeds, SendFails,
        DiesBetweenStatusAndDate, Terminate, ConnectivityChanges, Tick, ClockSetBack, Travel,
        objects, vars
  <2> QED
    BY <2>1, <2>2, <2>3, <2>4, Zenon
<1> QED
  BY <1>2, <1>3, Zenon DEF knowsId

LEMMA SendersStep == TypeOK /\ SendersKnown /\ [Next]_vars => SendersKnown'
<1> SUFFICES ASSUME TypeOK, SendersKnown, [Next]_vars, NEW r \in flight'
             PROVE  \E i \in knowsId' : userId'[i] = r.user
  BY Zenon DEF SendersKnown
<1>1. CASE r \in flight
  <2>1. PICK i \in knowsId : userId[i] = r.user
    BY <1>1, Zenon DEF SendersKnown
  <2> QED
    BY <2>1, KnownIdsStay, Zenon
<1>2. CASE r \notin flight
  <2>1. SendStep
    BY <1>2, NextSplits
    DEF HostStep, Construct, LearnId, SetOnboardingSuppressed, AnswerStep, ServiceAccepts,
        SendSucceeds, SendFails, DeathStep, Terminate, DiesAfterSave, DiesBetweenStatusAndDate,
        ProcessDies, DeviceStep, ConnectivityChanges, Tick, ClockSetBack, Travel, network, vars
  <2>2. PICK i \in Instances, data \in Map : SendOnBoarding(i, data)
    <3>1. ASSUME NEW i \in Instances, ResendLosesConnection(i) PROVE FALSE
      BY <1>2, <3>1 DEF ResendLosesConnection, network
    <3>2. ASSUME NEW i \in Instances, SendDataSaveInDefault(i)
          PROVE  SendOnBoarding(i, valueData[i]) /\ valueData[i] \in Map
      BY <3>2 DEF SendDataSaveInDefault, TypeOK
    <3>3. ASSUME NEW i \in Instances, NEW k \in Keys, NEW v \in Values,
                 SetOnboarding(i, k, v)
          PROVE  SendOnBoarding(i, WithValue(i, k, v)) /\ WithValue(i, k, v) \in Map
      BY <3>3, WithValueTyped DEF SetOnboarding
    <3> QED
      BY <2>1, <3>1, <3>2, <3>3, Zenon DEF SendStep
  <2>3. i \in knowsId /\ r = NextRequest(i, data)
    BY <1>2, <2>2, SendOnBoardingEffect
  <2>4. i \in knowsId /\ userId[i] = r.user
    BY <2>3 DEF NextRequest
  <2> QED
    BY <2>4, KnownIdsStay, Zenon
<1> QED
  BY <1>1, <1>2

\* Every request names an id a live object knows, and before there is an id
\* nothing is sent or recorded.
THEOREM NoAnonymousTrafficHolds == Spec => []NoAnonymousTraffic
<1>1. Init => IdInv /\ SendersKnown
  BY Zenon DEF Init, IdInv, NothingRecorded, SendersKnown, knowsId
<1>2. IdInv /\ SendersKnown => NoAnonymousTraffic
  <2>1. NothingRecorded => \A u \in UserIds : profile[u] = Empty
    BY DEF NothingRecorded
  <2> QED
    BY <2>1, Zenon DEF IdInv, NothingRecorded, SendersKnown, NoAnonymousTraffic
<1> QED
  BY <1>1, <1>2, IdStep, SendersStep, TypeCorrect, PTL DEF Spec

---------------------------------------------------------------------------
\* An object that is alone in its process has the saved map in memory.
SoleObjectCurrent ==
    \A i \in live : (\A j \in live : j = i) => valueData[i] = saved

LEMMA SoleStep == TypeOK /\ SoleObjectCurrent /\ [Next]_vars => SoleObjectCurrent'
<1> SUFFICES ASSUME TypeOK, SoleObjectCurrent, [Next]_vars PROVE SoleObjectCurrent'
  OBVIOUS
<1>1. CASE HostStep
  <2>1. ASSUME NEW i \in Instances, Construct(i) PROVE SoleObjectCurrent'
    BY <2>1 DEF Construct, SoleObjectCurrent, suite, TypeOK
  <2>2. ASSUME NEW i \in Instances, NEW u \in UserIds, LearnId(i, u)
        PROVE  SoleObjectCurrent'
    BY <2>2 DEF LearnId, SoleObjectCurrent, suite
  <2>3. ASSUME NEW i \in Instances, NEW k \in Keys, NEW v \in Values,
               SetOnboardingSuppressed(i, k, v)
        PROVE  SoleObjectCurrent'
    BY <2>3 DEF SetOnboardingSuppressed, SoleObjectCurrent, suite, TypeOK
  <2> QED
    BY <1>1, <2>1, <2>2, <2>3 DEF HostStep
<1>2. CASE SendStep
  <2>1. ASSUME NEW i \in Instances, NEW k \in Keys, NEW v \in Values, SetOnboarding(i, k, v)
        PROVE  SoleObjectCurrent'
    BY <2>1 DEF SetOnboarding, SaveInfo, SoleObjectCurrent, TypeOK
  <2>2. CASE UNCHANGED <<objects, saved>>
    BY <2>2, Zenon DEF objects, SoleObjectCurrent
  <2> QED
    BY <1>2, <2>1, <2>2, Zenon DEF SendStep, SendDataSaveInDefault, ResendLosesConnection
<1>3. CASE AnswerStep
  <2>1. UNCHANGED <<live, valueData, saved>>
    BY <1>3, Zenon DEF AnswerStep, ServiceAccepts, SendSucceeds, SendFails, objects, suite
  <2> QED
    BY <2>1, Zenon DEF SoleObjectCurrent
<1>4. CASE DeathStep
  BY <1>4 DEF DeathStep, Terminate, DiesAfterSave, DiesBetweenStatusAndDate, ProcessDies,
              SoleObjectCurrent
<1>5. CASE UNCHANGED <<objects, suite, network>>
  BY <1>5 DEF objects, suite, SoleObjectCurrent
<1> QED
  BY <1>1, <1>2, <1>3, <1>4, <1>5, NextSplits
     DEF DeviceStep, ConnectivityChanges, Tick, ClockSetBack, Travel, vars

\* The request an object leaves, alone in its process, carries the saved map.
THEOREM RequestsCarrySavedMapHolds == Spec => RequestsCarrySavedMap
<1> DEFINE Carries == sends' > sends /\ (\A i, j \in live : i = j) =>
              \A r \in flight' : r.id = sends' => r.data = saved'
<1>1. Init => SoleObjectCurrent
  BY DEF Init, SoleObjectCurrent
<1>2. TypeOK /\ SoleObjectCurrent /\ [Next]_vars => [Carries]_vars
  <2> SUFFICES ASSUME TypeOK, SoleObjectCurrent, Next, sends' > sends,
                      \A i, j \in live : i = j,
                      NEW r \in flight', r.id = sends'
               PROVE  r.data = saved'
    OBVIOUS
  <2>0. sends \in Nat
    BY OnBoardingAssumption DEF TypeOK
  <2>1. SendStep
    <3>1. SendStep \/ UNCHANGED sends
      BY NextSplits, Zenon
      DEF HostStep, Construct, LearnId, SetOnboardingSuppressed, AnswerStep, ServiceAccepts,
          SendSucceeds, SendFails, DeathStep, Terminate, DiesAfterSave,
          DiesBetweenStatusAndDate, ProcessDies, DeviceStep, ConnectivityChanges, Tick,
          ClockSetBack, Travel, network
    <3> QED
      BY <2>0, <3>1
  <2>2. PICK i \in live, data \in Map : SendOnBoarding(i, data) /\ data = saved'
    <3>1. ASSUME NEW i \in Instances, SendDataSaveInDefault(i)
          PROVE  /\ i \in live /\ SendOnBoarding(i, valueData[i])
                 /\ valueData[i] \in Map /\ valueData[i] = saved'
      BY <3>1 DEF SendDataSaveInDefault, SoleObjectCurrent, TypeOK
    <3>2. ASSUME NEW i \in Instances, NEW k \in Keys, NEW v \in Values,
                 SetOnboarding(i, k, v)
          PROVE  /\ i \in live /\ SendOnBoarding(i, WithValue(i, k, v))
                 /\ WithValue(i, k, v) \in Map /\ WithValue(i, k, v) = saved'
      BY <3>2, WithValueTyped DEF SetOnboarding, SaveInfo
    <3>3. ~ \E i \in Instances : ResendLosesConnection(i)
      BY <2>0 DEF ResendLosesConnection, network
    <3> QED
      BY <2>1, <3>1, <3>2, <3>3 DEF SendStep
  <2>3. /\ sends' = sends + 1
        /\ flight' = flight \cup {NextRequest(i, data)}
    BY <2>0, <2>2, SendOnBoardingEffect DEF TypeOK
  <2>4. r \notin flight
    BY <2>0, <2>3 DEF TypeOK, Request
  <2> QED
    BY <2>2, <2>3, <2>4 DEF NextRequest
<1> QED
  BY <1>1, <1>2, SoleStep, TypeCorrect, PTL DEF Spec, RequestsCarrySavedMap

===========================================================================
