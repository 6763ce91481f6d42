-------------------------- MODULE NaveggSdkProofs --------------------------
(***************************************************************************)
(* The SDK implements each of the three components, for any numbers of     *)
(* objects, ids, requests and versions, any zones and clock resolution.    *)
(***************************************************************************)
EXTENDS NaveggSdk, UtilDatesProofs

(***************************************************************************)
(* The composition adds nothing to the behaviour of the identity: every    *)
(* step of the SDK is a step of UserIdentity or leaves its state alone.    *)
(***************************************************************************)

\* Only live objects have requests under way.
LifeInv ==
    /\ phase \in [Instances -> ID!Phases]
    /\ live = {} =>
          /\ sendFlight = {}
          /\ \A i \in Instances : pending[i] = 0
          /\ \A i \in Instances, u \in SG!Versions : segFlight[i][u] = 0

LEMMA LifeInit == Init => LifeInv
  BY DEF Init, ID!Init, ID!Phases, LifeInv, live, SG!NoRequests

LEMMA MemoryLostKeepsLife == MemoryLost => LifeInv'
  BY DEF MemoryLost, LifeInv, live, ID!ProcessDies, ID!Phases, SG!NoRequests

\* A step that is no death keeps the living alive.
LEMMA LifeStep == LifeInv /\ [Next]_vars => LifeInv'
<1> SUFFICES ASSUME LifeInv, [Next]_vars PROVE LifeInv'
  OBVIOUS
<1>1. CASE MemoryLost
  BY <1>1, MemoryLostKeepsLife
<1>2. ASSUME NEW i \in Instances,
             NEW p \in ID!Phases \ {"absent"}, phase' = [phase EXCEPT ![i] = p]
      PROVE  LifeInv'
  <2>1. phase' \in [Instances -> ID!Phases] /\ phase'[i] = p
    BY <1>2 DEF LifeInv
  <2>2. live' # {}
    BY <2>1 DEF live
  <2> QED
    BY <2>1, <2>2 DEF LifeInv
<1>3. ASSUME live # {}, phase' = phase
      PROVE  LifeInv'
  BY <1>3 DEF LifeInv, live
<1>4. ASSUME UNCHANGED <<phase, pending, sendFlight, segFlight>>
      PROVE  LifeInv'
  BY <1>4 DEF LifeInv, live
<1>5. ASSUME NEW i \in Instances, ConstructUser(i) \/ FinishConstruction(i)
      PROVE  LifeInv'
  BY <1>2, <1>5 DEF ConstructUser, FinishConstruction, ID!ConstructUser, ID!CheckUserId,
                    ID!CreateUserAgain, ID!FinishInit, ID!Phases
<1>6. ASSUME NEW i \in Instances,
             CreateUserFails(i) \/ \E u \in UserIds : CreateUserSucceeds(i, u)
      PROVE  LifeInv'
  <2>1. pending[i] > 0 /\ phase' = phase
    BY <1>6 DEF CreateUserFails, CreateUserSucceeds, ID!CreateUserFails,
                ID!CreateUserSucceeds, ID!Answered
  <2>2. live # {}
    BY <2>1 DEF LifeInv
  <2> QED
    BY <1>3, <2>1, <2>2
<1>7. ASSUME NEW i \in Instances,
             \/ SendDataSaveInDefault(i) \/ GetSegments(i)
             \/ \E k \in Keys, v \in Values : SetOnboarding(i, k, v)
      PROVE  LifeInv'
  <2>1. phase[i] = "ready" /\ phase' = phase
    BY <1>7 DEF SendDataSaveInDefault, GetSegments, SetOnboarding, HostMayCall, identity
  <2> QED
    BY <1>3, <2>1 DEF live
<1>8. ASSUME \/ \E r \in transit : ServiceAccepts(r)
             \/ \E r \in sendFlight : SendSucceeds(r) \/ SendFails(r)
      PROVE  LifeInv'
  <2>1. CASE \E r \in transit : ServiceAccepts(r)
    BY <1>4, <2>1 DEF ServiceAccepts, OB!ServiceAccepts, identity
  <2>2. CASE \E r \in sendFlight : SendSucceeds(r) \/ SendFails(r)
    BY <1>3, <2>2 DEF SendSucceeds, SendFails, identity, LifeInv
  <2> QED
    BY <1>8, <2>1, <2>2
<1>9. ASSUME NEW i \in Instances, NEW u \in SG!Versions,
             SegmentsFail(i, u) \/ \E d \in SG!Dictionary : SegmentsArrive(i, u, d)
      PROVE  LifeInv'
  <2>1. segFlight[i][u] > 0 /\ phase' = phase
    BY <1>9 DEF SegmentsFail, SegmentsArrive, SG!SegmentsFail, SG!SegmentsArrive,
                SG!Answered, identity
  <2> QED
    BY <1>3, <2>1 DEF LifeInv
<1>10. CASE ConnectivityChanges
  BY <1>4, <1>10 DEF ConnectivityChanges, ID!ConnectivityChanges, onboarding, segments
<1>11. CASE ClockAndZone
  BY <1>4, <1>11 DEF ClockAndZone, identity, onboarding, segments
<1>12. CASE UNCHANGED vars
  BY <1>4, <1>12 DEF vars, identity, onboarding, segments
<1> QED
  BY <1>1, <1>5, <1>6, <1>7, <1>8, <1>9, <1>10, <1>11, <1>12
     DEF Next, Terminate, DiesInSetOnboarding, DiesInSendSucceeds, DiesInSegmentsArrive

LEMMA IdentityStep == LifeInv /\ [Next]_vars => [ID!Next]_(ID!vars)
<1> SUFFICES ASSUME LifeInv, [Next]_vars PROVE ID!Next \/ UNCHANGED ID!vars
  OBVIOUS
<1>1. ASSUME NEW i \in Instances,
             \/ ConstructUser(i) \/ FinishConstruction(i) \/ CreateUserFails(i)
             \/ \E u \in UserIds : CreateUserSucceeds(i, u)
      PROVE  ID!Next
  BY <1>1 DEF ConstructUser, FinishConstruction, CreateUserFails, CreateUserSucceeds, ID!Next
<1>2. ASSUME NEW i \in Instances, SendDataSaveInDefault(i)
      PROVE  ID!Next \/ UNCHANGED ID!vars
  <2>1. CASE OB!SendDataSaveInDefault(i)
    BY <1>2, <2>1 DEF SendDataSaveInDefault, identity, ID!vars, OB!SendDataSaveInDefault, OB!world
  <2>2. CASE OB!ResendLosesConnection(i)
    BY <1>2, <2>2, Zenon DEF SendDataSaveInDefault, identity, OB!ResendLosesConnection,
                      ID!Next, ID!ConnectivityChanges
  <2> QED
    BY <1>2, <2>1, <2>2 DEF SendDataSaveInDefault
<1>3. ASSUME NEW i \in Instances,
             \/ GetSegments(i)
             \/ \E k \in Keys, v \in Values : SetOnboarding(i, k, v)
             \/ \E u \in SG!Versions :
                   SegmentsFail(i, u) \/ \E d \in SG!Dictionary : SegmentsArrive(i, u, d)
      PROVE  UNCHANGED ID!vars
  BY <1>3 DEF GetSegments, SetOnboarding, SegmentsFail, SegmentsArrive, identity, ID!vars,
              SG!GetSegments, OB!SetOnboarding, OB!SetOnboardingSuppressed, OB!world,
              SG!SegmentsFail, SG!SegmentsArrive
<1>4. ASSUME \/ \E r \in transit : ServiceAccepts(r)
             \/ \E r \in sendFlight : SendSucceeds(r) \/ SendFails(r)
      PROVE  UNCHANGED ID!vars
  BY <1>4 DEF ServiceAccepts, SendSucceeds, SendFails, identity, ID!vars,
              OB!ServiceAccepts, OB!SendSucceeds, OB!SendFails, OB!world
<1>5. ASSUME live # {}, MemoryLost
      PROVE  ID!Next
  BY <1>5 DEF MemoryLost, live, ID!Next, ID!Terminate
<1>6. ASSUME \/ Terminate
             \/ \E i \in Instances, k \in Keys, v \in Values : DiesInSetOnboarding(i, k, v)
             \/ \E r \in sendFlight : DiesInSendSucceeds(r)
      PROVE  ID!Next
  BY <1>5, <1>6 DEF Terminate, DiesInSetOnboarding, DiesInSendSucceeds, HostMayCall, live, LifeInv
<1>7. ASSUME NEW i \in Instances, NEW u \in SG!Versions, NEW d \in SG!Dictionary,
             DiesInSegmentsArrive(i, u, d)
      PROVE  ID!Next
  <2>1. segFlight[i][u] > 0 /\ MemoryLost
    BY <1>7 DEF DiesInSegmentsArrive, SG!DiesBetweenDictionaryAndDate
  <2> QED
    BY <1>5, <2>1 DEF LifeInv
<1>8. CASE ConnectivityChanges
  BY <1>8 DEF ConnectivityChanges, ID!Next
<1>9. CASE ClockAndZone
  BY <1>9 DEF ClockAndZone, identity, ID!vars, OB!Tick, OB!ClockSetBack, OB!Travel
<1>10. CASE UNCHANGED vars
  BY <1>10 DEF vars, identity, device, ID!vars
<1> QED
  BY <1>1, <1>2, <1>3, <1>4, <1>6, <1>7, <1>8, <1>9, <1>10 DEF Next

\* With on-boarding and segments at work beside it, and deaths in the middle of
\* their handlers, the identity behaves as UserIdentity says on the main queue.
THEOREM IdentityImplemented == Spec => ID!Spec
<1>1. Init => ID!Init
  BY DEF Init
<1> QED
  BY <1>1, LifeInit, LifeStep, IdentityStep, PTL DEF Spec, ID!Spec

---------------------------------------------------------------------------
(***************************************************************************)
(* The other two components take from the identity that an object learns   *)
(* an id only while it lives and has none, and from on-boarding that a     *)
(* request under way is some known user's.                                 *)
(***************************************************************************)
IDP == INSTANCE UserIdentityProofs WITH OnMain <- Instances

\* The SDK is a behaviour of UserIdentity, so its theorems apply.
LEMMA IdentityConstants == IDP!IdentityAssumption
  BY SdkAssumption DEF IDP!IdentityAssumption

LEMMA IdentitySpec == Spec => IDP!Spec
<1>1. ID!Init => IDP!Init
  BY DEF ID!Init, IDP!Init
<1>2. [ID!Next]_(ID!vars) => [IDP!Next]_(IDP!vars)
  BY DEF ID!Next, ID!vars, ID!ConstructUser, ID!CheckUserId, ID!CreateUserAgain,
         ID!CreateUserSucceeds, ID!CreateUserFails, ID!CreateUserTraps, ID!Terminate,
         ID!ConnectivityChanges, ID!MainFree, ID!CreateUser, ID!SetUserId,
         ID!FinishInit, ID!Answered, ID!ProcessDies,
         IDP!Next, IDP!vars, IDP!ConstructUser, IDP!CheckUserId, IDP!CreateUserAgain,
         IDP!CreateUserSucceeds, IDP!CreateUserFails, IDP!CreateUserTraps, IDP!Terminate,
         IDP!ConnectivityChanges, IDP!MainFree, IDP!CreateUser, IDP!SetUserId,
         IDP!FinishInit, IDP!Answered, IDP!ProcessDies
<1> QED
  BY <1>1, <1>2, IdentityImplemented, PTL DEF ID!Spec, IDP!Spec

LEMMA IdentityFacts == Spec => [](IDP!TypeOK /\ IDP!NoIdInv)
<1>1. IDP!IdentityAssumption
  BY IdentityConstants
<1> QED
  BY <1>1, IdentitySpec, IDP!TypeCorrect, IDP!NoIdCorrect, PTL

\* The state of the identity, as the other components see it.
SeenTypes ==
    /\ phase \in [Instances -> ID!Phases]
    /\ userId \in [Instances -> UserIds \cup {NoId}]
    /\ savedId \in UserIds \cup {NoId}

\* The live objects that know an id.
knowsId == {i \in live : userId[i] # NoId}

\* An object that waits for an id lives and has none.
WaitingInv == \A i \in Instances : pending[i] > 0 => i \in live \ knowsId

LEMMA SeenCorrect == Spec => [](SeenTypes /\ WaitingInv)
<1>1. IDP!TypeOK => SeenTypes
  BY DEF IDP!TypeOK, SeenTypes, IDP!Phases, ID!Phases
<1>2. IDP!TypeOK /\ IDP!NoIdInv => WaitingInv
  <2> SUFFICES ASSUME IDP!TypeOK, IDP!NoIdInv, NEW i \in Instances, pending[i] > 0
               PROVE  i \in live \ knowsId
    BY DEF WaitingInv
  <2>1. pending[i] \in {0, 1}
    BY Zenon DEF IDP!NoIdInv, IDP!FlagInv
  <2>2. pending[i] = 1 /\ pending[i] # 0
    BY <2>1
  <2>3. userId[i] = NoId /\ phase[i] # "absent"
    BY <2>2, Zenon DEF IDP!NoIdInv, IDP!FlagInv
  <2> QED
    BY <2>3 DEF live, knowsId
<1> QED
  BY <1>1, <1>2, IdentityFacts, PTL

seen == <<live, userId, savedId>>

\* How a step of the identity looks to the other components.
LEMMA ConstructionSeen ==
    ASSUME SeenTypes, NEW i \in Instances, ID!ConstructUser(i)
    PROVE  /\ i \notin live
           /\ live' = live \cup {i}
           /\ userId' = [userId EXCEPT ![i] = savedId]
           /\ knowsId \subseteq knowsId'
           /\ UNCHANGED <<savedId, online>>
<1> USE DEF ID!ConstructUser, SeenTypes, ID!Phases
<1>1. i \notin live /\ UNCHANGED <<savedId, online>>
  BY DEF live
<1>2. live' = live \cup {i}
  BY DEF live
<1>3. userId' = [userId EXCEPT ![i] = savedId]
  OBVIOUS
<1>4. knowsId \subseteq knowsId'
  BY <1>1, <1>2, <1>3 DEF knowsId, live
<1> QED
  BY <1>1, <1>2, <1>3, <1>4

LEMMA FinishSeen ==
    ASSUME SeenTypes, NEW i \in Instances, FinishConstruction(i)
    PROVE  UNCHANGED seen
<1>1. live' = live
  BY DEF FinishConstruction, ID!CheckUserId, ID!CreateUserAgain, ID!FinishInit,
         SeenTypes, ID!Phases, live
<1>2. UNCHANGED <<userId, savedId>>
  BY DEF FinishConstruction, ID!CheckUserId, ID!CreateUserAgain
<1> QED
  BY <1>1, <1>2 DEF seen

LEMMA AnswerSeen ==
    ASSUME SeenTypes, WaitingInv,
           NEW i \in Instances, NEW u \in UserIds, ID!CreateUserSucceeds(i, u)
    PROVE  /\ i \in live \ knowsId
           /\ live' = live
           /\ userId' = [userId EXCEPT ![i] = u]
           /\ savedId' = u
           /\ knowsId \subseteq knowsId'
           /\ UNCHANGED online
<1> USE DEF ID!CreateUserSucceeds, ID!Answered, ID!SetUserId
<1>1. i \in live \ knowsId
  BY DEF WaitingInv
<1>2. live' = live
  BY DEF live
<1>3. knowsId \subseteq knowsId'
  BY <1>1, <1>2, SdkAssumption DEF SeenTypes, knowsId
<1> QED
  BY <1>1, <1>2, <1>3

LEMMA DeathSeen ==
    MemoryLost => /\ live' = {}
                  /\ userId' = [i \in Instances |-> NoId]
                  /\ UNCHANGED <<savedId, device>>
  BY DEF MemoryLost, ID!ProcessDies, live, device

LEMMA IdentityUnseen == UNCHANGED identity => UNCHANGED seen
  BY DEF identity, seen, live

LEMMA KnownUnseen == UNCHANGED seen => UNCHANGED knowsId
  BY DEF seen, knowsId

\* A request for on-boarding that waits for its answer is some known user's,
\* and the ids requests name are ids the service gave.
SenderKnown ==
    /\ sendFlight # {} => knowsId # {}
    /\ \A r \in transit : r.user \in UserIds

SeenInv == SeenTypes /\ WaitingInv /\ LifeInv /\ SenderKnown

LEMMA SendingKnown ==
    ASSUME SeenTypes, NEW i \in Instances, NEW data, OB!SendOnBoarding(i, data)
    PROVE  \/ UNCHANGED <<sendFlight, transit>>
           \/ /\ i \in knowsId
              /\ \E r : r.user \in UserIds /\ transit' = transit \cup {r}
<1> DEFINE new == [id |-> sends + 1, user |-> userId[i], data |-> data]
<1>1. CASE i \in knowsId /\ transit' = transit \cup {new}
  <2>1. new.user \in UserIds
    BY <1>1 DEF knowsId, SeenTypes
  <2> HIDE DEF new
  <2> QED
    BY <1>1, <2>1
<1>2. \/ UNCHANGED <<sendFlight, transit>>
      \/ i \in knowsId /\ transit' = transit \cup {new}
  BY Zenon DEF OB!SendOnBoarding, OB!RequestSetsOut, OB!knowsId, knowsId
<1> QED
  BY <1>1, <1>2

LEMMA SenderKnownStep ==
    ASSUME SeenTypes, WaitingInv, SenderKnown, [Next]_vars
    PROVE  SenderKnown'
<1>1. ASSUME sendFlight' \subseteq sendFlight \/ sendFlight' = {}, transit' \subseteq transit,
             knowsId \subseteq knowsId' \/ sendFlight' = {}
      PROVE  SenderKnown'
  BY <1>1 DEF SenderKnown
<1>2. ASSUME NEW i \in Instances,
             \/ UNCHANGED <<sendFlight, transit>>
             \/ i \in knowsId /\ \E r : r.user \in UserIds /\ transit' = transit \cup {r},
             UNCHANGED seen
      PROVE  SenderKnown'
  BY <1>2, KnownUnseen DEF SenderKnown
<1>3. ASSUME NEW i \in Instances, ConstructUser(i) PROVE SenderKnown'
  BY <1>1, <1>3, ConstructionSeen DEF ConstructUser
<1>4. ASSUME NEW i \in Instances, FinishConstruction(i) PROVE SenderKnown'
  BY <1>1, <1>4, FinishSeen, KnownUnseen DEF FinishConstruction, onboarding
<1>5. ASSUME NEW i \in Instances, NEW u \in UserIds, CreateUserSucceeds(i, u)
      PROVE  SenderKnown'
  BY <1>1, <1>5, AnswerSeen DEF CreateUserSucceeds, onboarding
<1>6. ASSUME NEW i \in Instances, CreateUserFails(i) PROVE SenderKnown'
  <2>1. UNCHANGED <<phase, userId, sendFlight, transit>>
    BY <1>6 DEF CreateUserFails, ID!CreateUserFails, onboarding
  <2> QED
    BY <1>1, <2>1 DEF knowsId, live
<1>7. ASSUME NEW i \in Instances, NEW k \in Keys, NEW v \in Values, SetOnboarding(i, k, v)
      PROVE  SenderKnown'
  <2>1. UNCHANGED seen
    BY <1>7, IdentityUnseen DEF SetOnboarding
  <2>2. \/ UNCHANGED <<sendFlight, transit>>
        \/ \E data : OB!SendOnBoarding(i, data)
    BY <1>7, Zenon DEF SetOnboarding, OB!SetOnboarding, OB!SetOnboardingSuppressed, OB!network
  <2> QED
    BY <1>2, <2>1, <2>2, SendingKnown
<1>8. ASSUME NEW i \in Instances, SendDataSaveInDefault(i) PROVE SenderKnown'
  <2>1. UNCHANGED seen
    BY <1>8, IdentityUnseen DEF SendDataSaveInDefault
  <2>2. \/ UNCHANGED <<sendFlight, transit>>
        \/ \E data : OB!SendOnBoarding(i, data)
    BY <1>8, Zenon DEF SendDataSaveInDefault, OB!SendDataSaveInDefault, OB!ResendLosesConnection,
                       OB!network
  <2> QED
    BY <1>2, <2>1, <2>2, SendingKnown
<1>9. ASSUME \/ \E r \in transit : ServiceAccepts(r)
             \/ \E r \in sendFlight : SendSucceeds(r) \/ SendFails(r)
      PROVE  SenderKnown'
  <2>1. UNCHANGED seen
    BY <1>9, IdentityUnseen DEF ServiceAccepts, SendSucceeds, SendFails
  <2>2. sendFlight' \subseteq sendFlight /\ transit' \subseteq transit
    BY <1>9 DEF ServiceAccepts, SendSucceeds, SendFails, OB!ServiceAccepts, OB!SendSucceeds,
                OB!SendFails
  <2> QED
    BY <1>1, <2>1, <2>2, KnownUnseen
<1>10. ASSUME NEW i \in Instances,
              \/ GetSegments(i)
              \/ \E u \in SG!Versions :
                    SegmentsFail(i, u) \/ \E d \in SG!Dictionary : SegmentsArrive(i, u, d)
       PROVE  SenderKnown'
  <2>1. UNCHANGED seen /\ UNCHANGED <<sendFlight, transit>>
    BY <1>10, IdentityUnseen DEF GetSegments, SegmentsFail, SegmentsArrive, onboarding
  <2> QED
    BY <1>1, <2>1, KnownUnseen
<1>11. CASE ConnectivityChanges \/ ClockAndZone \/ UNCHANGED vars
  <2>1. UNCHANGED <<phase, userId, savedId, sendFlight, transit>>
    BY <1>11, Zenon DEF ConnectivityChanges, ID!ConnectivityChanges, ClockAndZone, vars, identity,
                        onboarding
  <2> QED
    BY <1>1, <2>1 DEF knowsId, live
<1>12. ASSUME MemoryLost, transit' \subseteq transit PROVE SenderKnown'
  BY <1>1, <1>12 DEF MemoryLost
<1> QED
  BY <1>3, <1>4, <1>5, <1>6, <1>7, <1>8, <1>9, <1>10, <1>11, <1>12
     DEF Next, Terminate, DiesInSetOnboarding, DiesInSendSucceeds, DiesInSegmentsArrive,
         OB!DiesAfterSave, OB!DiesBetweenStatusAndDate

LEMMA SeenInvCorrect == Spec => []SeenInv
<1>1. Init => SenderKnown
  BY DEF Init, SenderKnown
<1>2. SeenTypes /\ WaitingInv /\ SenderKnown /\ [Next]_vars => SenderKnown'
  BY SenderKnownStep
<1> QED
  BY <1>1, <1>2, LifeInit, LifeStep, SeenCorrect, PTL DEF Spec, SeenInv

---------------------------------------------------------------------------
(***************************************************************************)
(* The composition adds nothing to the behaviour of on-boarding.           *)
(***************************************************************************)
LEMMA OnBoardingStep == SeenInv /\ [Next]_vars => [OB!Next]_(OB!vars)
<1> SUFFICES ASSUME SeenInv, [Next]_vars PROVE OB!Next \/ UNCHANGED OB!vars
  OBVIOUS
<1> USE DEF SeenInv
<1>1. ASSUME UNCHANGED seen, UNCHANGED onboarding, UNCHANGED device
      PROVE  UNCHANGED OB!vars
  BY <1>1 DEF seen, onboarding, device, OB!vars, OB!objects, OB!suite, OB!network, OB!world
<1>2. ASSUME NEW i \in Instances, ConstructUser(i) PROVE OB!Next
  <2>1. OB!Construct(i)
    BY <1>2, ConstructionSeen
       DEF ConstructUser, OB!Construct, OB!suite, OB!network, OB!world
  <2> QED
    BY <2>1 DEF OB!Next
<1>3. ASSUME NEW i \in Instances, FinishConstruction(i) PROVE UNCHANGED OB!vars
  <2>1. UNCHANGED device
    BY <1>3 DEF FinishConstruction, ID!CheckUserId, ID!CreateUserAgain, device
  <2> QED
    BY <1>1, <1>3, <2>1, FinishSeen DEF FinishConstruction
<1>4. ASSUME NEW i \in Instances, NEW u \in UserIds, CreateUserSucceeds(i, u) PROVE OB!Next
  <2>1. OB!LearnId(i, u)
    BY <1>4, AnswerSeen
       DEF CreateUserSucceeds, onboarding, OB!LearnId, OB!knowsId, knowsId, OB!suite, OB!network
  <2> QED
    BY <2>1 DEF OB!Next
<1>5. ASSUME NEW i \in Instances, CreateUserFails(i) PROVE UNCHANGED OB!vars
  <2>1. UNCHANGED <<device, phase, userId, savedId>>
    BY <1>5 DEF CreateUserFails, ID!CreateUserFails, device
  <2>2. UNCHANGED seen
    BY <2>1 DEF seen, live
  <2> QED
    BY <1>1, <1>5, <2>1, <2>2 DEF CreateUserFails
<1>6. ASSUME NEW i \in Instances,
             \/ SendDataSaveInDefault(i)
             \/ \E k \in Keys, v \in Values : SetOnboarding(i, k, v)
      PROVE  OB!Next
  BY <1>6 DEF SendDataSaveInDefault, SetOnboarding, OB!Next
<1>7. ASSUME \/ \E r \in transit : ServiceAccepts(r)
             \/ \E r \in sendFlight : SendSucceeds(r) \/ SendFails(r)
      PROVE  OB!Next
  BY <1>7 DEF ServiceAccepts, SendSucceeds, SendFails, OB!Next
<1>8. ASSUME NEW i \in Instances,
             \/ GetSegments(i)
             \/ \E u \in SG!Versions :
                   SegmentsFail(i, u) \/ \E d \in SG!Dictionary : SegmentsArrive(i, u, d)
      PROVE  UNCHANGED OB!vars
  <2>1. UNCHANGED <<identity, onboarding, device>>
    BY <1>8 DEF GetSegments, SegmentsFail, SegmentsArrive, device, SG!GetSegments,
                SG!SegmentsFail, SG!SegmentsArrive
  <2> QED
    BY <1>1, <2>1, IdentityUnseen
<1>9. ASSUME live # {}, MemoryLost, UNCHANGED <<saved, toSend, dateOnBoarding, transit>>
      PROVE  OB!Next
  <2>1. OB!Terminate
    BY <1>9, DeathSeen
       DEF MemoryLost, device, OB!Terminate, OB!ProcessDies, OB!suite, OB!world
  <2> QED
    BY <2>1 DEF OB!Next
<1>10. ASSUME NEW i \in Instances, NEW u \in SG!Versions, NEW d \in SG!Dictionary,
              DiesInSegmentsArrive(i, u, d)
       PROVE  OB!Next
  <2>1. segFlight[i][u] > 0
    BY <1>10 DEF DiesInSegmentsArrive, SG!DiesBetweenDictionaryAndDate
  <2>2. live # {}
    BY <2>1 DEF LifeInv
  <2> QED
    BY <1>9, <1>10, <2>2 DEF DiesInSegmentsArrive
<1>11. ASSUME \/ \E i \in Instances, k \in Keys, v \in Values : DiesInSetOnboarding(i, k, v)
              \/ \E r \in sendFlight : DiesInSendSucceeds(r)
       PROVE  OB!Next
  BY <1>11 DEF DiesInSetOnboarding, DiesInSendSucceeds, OB!Next
<1>12. CASE Terminate
  BY <1>9, <1>12 DEF Terminate
<1>13. CASE ConnectivityChanges
  <2>1. UNCHANGED seen
    BY <1>13, IdentityUnseen DEF ConnectivityChanges, ID!ConnectivityChanges, identity
  <2>2. OB!ConnectivityChanges
    BY <1>13, <2>1 DEF ConnectivityChanges, ID!ConnectivityChanges, seen, onboarding,
                       OB!ConnectivityChanges, OB!objects, OB!suite, OB!network
  <2> QED
    BY <2>2 DEF OB!Next
<1>14. CASE ClockAndZone
  BY <1>14 DEF ClockAndZone, OB!Next
<1>15. CASE UNCHANGED vars
  BY <1>1, <1>15, IdentityUnseen DEF vars
<1> QED
  BY <1>2, <1>3, <1>4, <1>5, <1>6, <1>7, <1>8, <1>10, <1>11, <1>12, <1>13, <1>14, <1>15
     DEF Next

\* With the identity and segments at work beside it, on-boarding behaves as
\* OnBoardingSync says: an object learns an id once and while it lives.
THEOREM OnBoardingImplemented == Spec => ImplementsOnBoarding
<1>1. Init => OB!Init
  BY DEF Init, ID!Init, OB!Init, live
<1> QED
  BY <1>1, OnBoardingStep, SeenInvCorrect, PTL DEF Spec, ImplementsOnBoarding, OB!Spec

---------------------------------------------------------------------------
(***************************************************************************)
(* Nor to the behaviour of segments.                                       *)
(***************************************************************************)
LEMMA SegmentsStep == SeenInv /\ [Next]_vars => [SG!Next]_(SG!vars)
<1> SUFFICES ASSUME SeenInv, [Next]_vars PROVE SG!Next \/ UNCHANGED SG!vars
  OBVIOUS
<1> USE DEF SeenInv
<1>1. ASSUME UNCHANGED <<seen, segments, dateOnBoarding, device>>
      PROVE  UNCHANGED SG!vars
  BY <1>1 DEF seen, segments, device, SG!vars, SG!ids
<1>2. ASSUME NEW i \in Instances, ConstructUser(i) PROVE SG!Next
  <2>1. SG!Construct(i)
    BY <1>2, ConstructionSeen DEF ConstructUser, SG!Construct
  <2> QED
    BY <2>1 DEF SG!Next
<1>3. ASSUME NEW i \in Instances, FinishConstruction(i) PROVE UNCHANGED SG!vars
  <2>1. UNCHANGED <<segments, dateOnBoarding, device>>
    BY <1>3 DEF FinishConstruction, ID!CheckUserId, ID!CreateUserAgain, device, onboarding
  <2> QED
    BY <1>1, <1>3, <2>1, FinishSeen
<1>4. ASSUME NEW i \in Instances, NEW u \in UserIds, CreateUserSucceeds(i, u) PROVE SG!Next
  <2>1. SG!LearnId(i, u)
    BY <1>4, AnswerSeen DEF CreateUserSucceeds, onboarding, SG!LearnId, SG!knowsId, knowsId
  <2> QED
    BY <2>1 DEF SG!Next
<1>5. ASSUME NEW i \in Instances, CreateUserFails(i) PROVE UNCHANGED SG!vars
  <2>1. UNCHANGED <<device, phase, userId, savedId, segments, dateOnBoarding>>
    BY <1>5 DEF CreateUserFails, ID!CreateUserFails, device, onboarding
  <2>2. UNCHANGED seen
    BY <2>1 DEF seen, live
  <2> QED
    BY <1>1, <2>1, <2>2
<1>6. ASSUME NEW i \in Instances, NEW k \in Keys, NEW v \in Values, SetOnboarding(i, k, v)
      PROVE  UNCHANGED SG!vars
  <2>1. UNCHANGED <<segments, dateOnBoarding, device>>
    BY <1>6 DEF SetOnboarding, OB!SetOnboarding, OB!SetOnboardingSuppressed, OB!world,
                OB!suite, device
  <2>2. UNCHANGED seen
    BY <1>6, IdentityUnseen DEF SetOnboarding
  <2> QED
    BY <1>1, <2>1, <2>2
<1>7. ASSUME NEW i \in Instances, SendDataSaveInDefault(i)
      PROVE  SG!Next \/ UNCHANGED SG!vars
  <2>1. UNCHANGED <<segments, dateOnBoarding>> /\ UNCHANGED seen
    BY <1>7, IdentityUnseen DEF SendDataSaveInDefault, OB!SendDataSaveInDefault,
                                OB!ResendLosesConnection
  <2>2. CASE OB!SendDataSaveInDefault(i)
    BY <1>1, <2>1, <2>2 DEF OB!SendDataSaveInDefault, OB!world, device
  <2>3. CASE OB!ResendLosesConnection(i)
    <3>1. online' = ~online /\ UNCHANGED <<now, offset>>
      BY <2>3, Zenon DEF OB!ResendLosesConnection
    <3>2. SG!ConnectivityChanges
      BY <2>1, <3>1 DEF SG!ConnectivityChanges, SG!ids, seen, segments
    <3> QED
      BY <3>2 DEF SG!Next
  <2> QED
    BY <1>7, <2>2, <2>3 DEF SendDataSaveInDefault
<1>8. ASSUME NEW r \in transit, ServiceAccepts(r) PROVE SG!Next
  <2>1. UNCHANGED seen
    BY <1>8, IdentityUnseen DEF ServiceAccepts
  <2>2. r.user \in UserIds
    BY <1>8 DEF SenderKnown
  <2>3. SG!ProfileChanges(r.user)
    BY <1>8, <2>1 DEF ServiceAccepts, OB!ServiceAccepts, OB!suite, OB!world, seen,
                      SG!ProfileChanges, SG!ids
  <2> QED
    BY <2>2, <2>3 DEF SG!Next
<1>9. ASSUME NEW r \in sendFlight, SendSucceeds(r) PROVE SG!Next
  <2>1. UNCHANGED seen
    BY <1>9, IdentityUnseen DEF SendSucceeds
  <2>2. knowsId # {}
    BY <1>9 DEF SenderKnown
  <2>3. SG!OnBoardingSynced
    BY <1>9, <2>1, <2>2 DEF SendSucceeds, OB!SendSucceeds, OB!world, seen, segments,
                            SG!OnBoardingSynced, SG!knowsId, knowsId, SG!ids, OB!DateToString, SG!DateToString
  <2> QED
    BY <2>3 DEF SG!Next
<1>10. ASSUME NEW r \in sendFlight, SendFails(r) PROVE UNCHANGED SG!vars
  <2>1. UNCHANGED seen
    BY <1>10, IdentityUnseen DEF SendFails
  <2> QED
    BY <1>1, <1>10, <2>1 DEF SendFails, OB!SendFails, OB!world, device
<1>11. ASSUME NEW i \in Instances,
              \/ GetSegments(i)
              \/ \E u \in SG!Versions :
                    SegmentsFail(i, u) \/ \E d \in SG!Dictionary : SegmentsArrive(i, u, d)
       PROVE  SG!Next
  BY <1>11 DEF GetSegments, SegmentsFail, SegmentsArrive, SG!Next
<1>12. ASSUME live # {}, MemoryLost, UNCHANGED <<savedSegments, dateLastSync, dateOnBoarding>>
       PROVE  SG!Next
  <2>1. SG!Terminate
    BY <1>12, DeathSeen DEF MemoryLost, device, SG!Terminate, SG!ProcessDies
  <2> QED
    BY <2>1 DEF SG!Next
<1>13. ASSUME \/ Terminate
              \/ \E i \in Instances, k \in Keys, v \in Values : DiesInSetOnboarding(i, k, v)
              \/ \E r \in sendFlight : DiesInSendSucceeds(r)
       PROVE  SG!Next
  <2>1. live # {}
    BY <1>13 DEF Terminate, DiesInSetOnboarding, DiesInSendSucceeds, HostMayCall, live, LifeInv
  <2> QED
    BY <1>12, <1>13, <2>1 DEF Terminate, DiesInSetOnboarding, DiesInSendSucceeds,
                              OB!DiesAfterSave, OB!DiesBetweenStatusAndDate
<1>14. ASSUME NEW i \in Instances, NEW u \in SG!Versions, NEW d \in SG!Dictionary,
              DiesInSegmentsArrive(i, u, d)
       PROVE  SG!Next
  BY <1>14 DEF DiesInSegmentsArrive, SG!Next
<1>15. CASE ConnectivityChanges
  <2>1. UNCHANGED seen
    BY <1>15, IdentityUnseen DEF ConnectivityChanges, ID!ConnectivityChanges, identity
  <2>2. SG!ConnectivityChanges
    BY <1>15, <2>1 DEF ConnectivityChanges, ID!ConnectivityChanges, seen, onboarding, segments,
                       SG!ConnectivityChanges, SG!ids
  <2> QED
    BY <2>2 DEF SG!Next
<1>16. CASE ClockAndZone
  <2>1. UNCHANGED seen /\ UNCHANGED <<segments, dateOnBoarding>>
    BY <1>16, IdentityUnseen DEF ClockAndZone, onboarding
  <2>2. SG!ClockMoves \/ SG!Travel
    BY <1>16, <2>1 DEF ClockAndZone, OB!Tick, OB!ClockSetBack, OB!Travel, seen, segments,
                       SG!ClockMoves, SG!Travel, SG!ids
  <2> QED
    BY <2>2 DEF SG!Next
<1>17. CASE UNCHANGED vars
  <2>1. UNCHANGED dateOnBoarding
    BY <1>17 DEF vars, onboarding
  <2> QED
    BY <1>1, <1>17, <2>1, IdentityUnseen DEF vars
<1> QED
  BY <1>2, <1>3, <1>4, <1>5, <1>6, <1>7, <1>8, <1>9, <1>10, <1>11, <1>13, <1>14, <1>15,
     <1>16, <1>17 DEF Next

\* With the identity and on-boarding at work beside it, segments behave as
\* Segments says: a sync is always some known user's, and a death takes the
\* requests of every component.
THEOREM SegmentsImplemented == Spec => ImplementsSegments
<1>1. Init => SG!Init
  BY DEF Init, ID!Init, SG!Init, live
<1> QED
  BY <1>1, SegmentsStep, SeenInvCorrect, PTL DEF Spec, ImplementsSegments, SG!Spec

===========================================================================
