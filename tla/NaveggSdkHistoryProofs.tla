----------------------- MODULE NaveggSdkHistoryProofs -----------------------
(***************************************************************************)
(* What is proved of each component alone, as theorems of the SDK.  The    *)
(* refinements of NaveggSdkProofs carry the theorems of the component      *)
(* modules over; a history variable carries the delivery over as well.     *)
(***************************************************************************)
EXTENDS NaveggSdkHistory, NaveggSdkProofs

\* The theorems about on-boarding and segments, of the state they have here.
HP == INSTANCE OnBoardingHistoryProofs WITH
    dateLastSync <- dateOnBoarding, flight <- sendFlight
SP == INSTANCE SegmentsProofs WITH flight <- segFlight

LEMMA OnBoardingConstants == HP!DatesAssumption /\ HP!OnBoardingAssumption
  BY SdkAssumption, DatesAssumption DEF HP!DatesAssumption, HP!OnBoardingAssumption

LEMMA SegmentsConstants == SP!DatesAssumption /\ SP!SegmentsAssumption
  BY SdkAssumption, DatesAssumption
     DEF SP!DatesAssumption, SP!SegmentsAssumption, SP!Dictionary, SP!UserSegments, SP!Versions

---------------------------------------------------------------------------
\* In the SDK as a whole, beside on-boarding, segments and deaths in the middle
\* of their handlers: no object has two requests for an id in flight, none has
\* one once it knows its id, and the saved id is some live object's whenever
\* another object does not hold it.
THEOREM SdkIdentitySafe ==
    Spec => [](ID!OneCreateInFlight /\ ID!KnownIdStopsCreation /\ ID!SavedIdHasAnOwner)
<1>1. /\ IDP!OneCreateInFlight => ID!OneCreateInFlight
      /\ IDP!KnownIdStopsCreation => ID!KnownIdStopsCreation
      /\ IDP!SavedIdHasAnOwner => ID!SavedIdHasAnOwner
  BY Zenon DEF IDP!OneCreateInFlight, ID!OneCreateInFlight, IDP!KnownIdStopsCreation,
     ID!KnownIdStopsCreation, IDP!SavedIdHasAnOwner, IDP!Live, ID!SavedIdHasAnOwner, ID!Live
<1>2. IDP!IdentityAssumption
  BY IdentityConstants
<1> QED
  BY <1>1, <1>2, IdentitySpec, IDP!OneCreateInFlightHolds, IDP!KnownIdStopsCreationHolds,
     IDP!SavedIdHasAnOwnerHolds, PTL

\* The objects of the SDK and its suite keep the promise of AccountIdentity,
\* whatever the other components do beside them.
THEOREM SdkAccount == Spec => ID!ImplementsAccount
<1>1. IDP!IdentityAssumption
  BY IdentityConstants
<1>2. Spec => IDP!ImplementsAccount
  BY <1>1, IdentitySpec, IDP!AccountImplemented, PTL
<1>3. {i \in Instances : IDP!Live(i)} = {i \in Instances : ID!Live(i)}
  BY Zenon DEF IDP!Live, ID!Live
<1>4. {i \in Instances : IDP!Live(i)}' = {i \in Instances : ID!Live(i)}'
  BY Zenon DEF IDP!Live, ID!Live
<1>5. IDP!Account!Init <=> ID!Account!Init
  BY <1>3, Zenon DEF IDP!Account!Init, ID!Account!Init
<1>6. IDP!Account!vars = ID!Account!vars /\ IDP!Account!vars' = ID!Account!vars'
  BY <1>3, <1>4, Zenon DEF IDP!Account!vars, ID!Account!vars
<1>7. IDP!Account!Next <=> ID!Account!Next
  BY <1>3, <1>4, Zenon DEF IDP!Account!Next, IDP!Account!Build, IDP!Account!Learn,
     IDP!Account!Die, ID!Account!Next, ID!Account!Build, ID!Account!Learn, ID!Account!Die
<1>8. [IDP!Account!Next]_(IDP!Account!vars) => [ID!Account!Next]_(ID!Account!vars)
  BY <1>6, <1>7, Zenon
<1> QED
  BY <1>2, <1>5, <1>8, PTL
     DEF IDP!ImplementsAccount, IDP!Account!Spec, ID!ImplementsAccount, ID!Account!Spec

\* The id an object of the SDK reports does not change while it lives, and the
\* id of the account, once saved, is for ever that of every launch in which the
\* host builds one object at most.
THEOREM SdkKeepsId ==
    Spec => /\ ID!OwnIdWriteOnce
            /\ [][savedId # NoId /\ (\A i, j \in live : i = j) => savedId' = savedId]_vars
<1> DEFINE Own == \A i \in Instances :
               userId[i] # NoId /\ phase'[i] # "absent" => userId'[i] = userId[i]
           Sole == /\ savedId # NoId
                   /\ \A i, j \in Instances :
                         IDP!Live(i) /\ IDP!Live(j) => i = j /\ i \in Instances
                   => savedId' = savedId
           Alone == savedId # NoId /\ (\A i, j \in live : i = j) => savedId' = savedId
<1>1. IDP!IdentityAssumption
  BY IdentityConstants
<1>2. Spec => [][Own]_(IDP!vars) /\ [][Sole]_(IDP!vars)
  BY <1>1, IdentitySpec, IDP!OwnIdWriteOnceHolds, IDP!SoleObjectKeepsSavedId, PTL
     DEF IDP!OwnIdWriteOnce
<1>3. [Own]_(IDP!vars) => [Own]_(ID!vars)
  BY Zenon DEF IDP!vars, ID!vars
<1>4. [Sole]_(IDP!vars) => [Alone]_vars
  <2>1. Sole => Alone
    BY Zenon DEF live, IDP!Live
  <2>2. UNCHANGED IDP!vars => Alone
    BY Zenon DEF IDP!vars
  <2> QED
    BY <2>1, <2>2, Zenon
<1> QED
  BY <1>2, <1>3, <1>4, PTL DEF ID!OwnIdWriteOnce

---------------------------------------------------------------------------
LEMMA SuppressedSame ==
    ASSUME NEW k, NEW v
    PROVE  OB!Suppressed(k, v) <=> HP!Suppressed(k, v)
  BY Zenon DEF OB!Suppressed, OB!dayBetweenDates, OB!LocalDay, OB!StringToDate, OB!TicksPerDay,
     HP!Suppressed, HP!dayBetweenDates, HP!LocalDay, HP!StringToDate, HP!TicksPerDay

LEMMA SetOnboardingSame ==
    ASSUME NEW i, NEW k, NEW v
    PROVE  /\ OB!SetOnboarding(i, k, v) <=> HP!SetOnboarding(i, k, v)
           /\ OB!SetOnboardingSuppressed(i, k, v) <=> HP!SetOnboardingSuppressed(i, k, v)
           /\ OB!DiesAfterSave(i, k, v) <=> HP!DiesAfterSave(i, k, v)
<1>1. OB!SetOnboarding(i, k, v) <=> HP!SetOnboarding(i, k, v)
  BY SuppressedSame, Zenon DEF OB!SetOnboarding, OB!SaveInfo, OB!WithValue, OB!SendOnBoarding,
     OB!RequestSetsOut, OB!knowsId, OB!world,
     HP!SetOnboarding, HP!SaveInfo, HP!WithValue, HP!SendOnBoarding, HP!RequestSetsOut,
     HP!knowsId, HP!world
<1>2. OB!SetOnboardingSuppressed(i, k, v) <=> HP!SetOnboardingSuppressed(i, k, v)
  BY SuppressedSame, Zenon DEF OB!SetOnboardingSuppressed, OB!suite, OB!network, OB!world,
     HP!SetOnboardingSuppressed, HP!suite, HP!network, HP!world
<1>3. OB!DiesAfterSave(i, k, v) <=> HP!DiesAfterSave(i, k, v)
  BY SuppressedSame, Zenon DEF OB!DiesAfterSave, OB!WithValue, OB!ProcessDies, OB!Empty, OB!world,
     HP!DiesAfterSave, HP!WithValue, HP!ProcessDies, HP!Empty, HP!world
<1> QED
  BY <1>1, <1>2, <1>3

LEMMA AnswersSame ==
    ASSUME NEW r
    PROVE  /\ OB!ServiceAccepts(r) <=> HP!ServiceAccepts(r)
           /\ OB!SendSucceeds(r) <=> HP!SendSucceeds(r)
           /\ OB!SendFails(r) <=> HP!SendFails(r)
           /\ OB!DiesBetweenStatusAndDate(r) <=> HP!DiesBetweenStatusAndDate(r)
<1>1. OB!ServiceAccepts(r) <=> HP!ServiceAccepts(r)
  BY Zenon DEF OB!ServiceAccepts, OB!objects, OB!suite, OB!world,
     HP!ServiceAccepts, HP!objects, HP!suite, HP!world
<1>2. OB!SendSucceeds(r) <=> HP!SendSucceeds(r)
  BY Zenon DEF OB!SendSucceeds, OB!DateToString, OB!objects, OB!world,
     HP!SendSucceeds, HP!DateToString, HP!objects, HP!world
<1>3. OB!SendFails(r) <=> HP!SendFails(r)
  BY Zenon DEF OB!SendFails, OB!objects, OB!world, HP!SendFails, HP!objects, HP!world
<1>4. OB!DiesBetweenStatusAndDate(r) <=> HP!DiesBetweenStatusAndDate(r)
  BY Zenon DEF OB!DiesBetweenStatusAndDate, OB!ProcessDies, OB!Empty, OB!world,
     HP!DiesBetweenStatusAndDate, HP!ProcessDies, HP!Empty, HP!world
<1> QED
  BY <1>1, <1>2, <1>3, <1>4

LEMMA ObjectsSame ==
    ASSUME NEW i
    PROVE  /\ OB!Construct(i) <=> HP!Construct(i)
           /\ \A u : OB!LearnId(i, u) <=> HP!LearnId(i, u)
           /\ OB!SendDataSaveInDefault(i) <=> HP!SendDataSaveInDefault(i)
           /\ OB!ResendLosesConnection(i) <=> HP!ResendLosesConnection(i)
<1>1. OB!Construct(i) <=> HP!Construct(i)
  BY Zenon DEF OB!Construct, OB!suite, OB!network, OB!world,
     HP!Construct, HP!suite, HP!network, HP!world
<1>2. ASSUME NEW u PROVE OB!LearnId(i, u) <=> HP!LearnId(i, u)
  BY Zenon DEF OB!LearnId, OB!knowsId, OB!suite, OB!network,
     HP!LearnId, HP!knowsId, HP!suite, HP!network
<1>3. OB!SendDataSaveInDefault(i) <=> HP!SendDataSaveInDefault(i)
  BY Zenon DEF OB!SendDataSaveInDefault, OB!hasToSendOnBoarding, OB!SendOnBoarding,
     OB!RequestSetsOut, OB!knowsId, OB!objects, OB!world,
     HP!SendDataSaveInDefault, HP!hasToSendOnBoarding, HP!SendOnBoarding,
     HP!RequestSetsOut, HP!knowsId, HP!objects, HP!world
<1>4. OB!ResendLosesConnection(i) <=> HP!ResendLosesConnection(i)
  BY Zenon DEF OB!ResendLosesConnection, OB!knowsId, OB!hasToSendOnBoarding, OB!objects, OB!network,
     HP!ResendLosesConnection, HP!knowsId, HP!hasToSendOnBoarding, HP!objects, HP!network
<1> QED
  BY <1>1, <1>2, <1>3, <1>4

LEMMA DeviceSame ==
    /\ OB!Terminate <=> HP!Terminate
    /\ OB!ConnectivityChanges <=> HP!ConnectivityChanges
    /\ OB!Tick <=> HP!Tick
    /\ OB!ClockSetBack <=> HP!ClockSetBack
    /\ OB!Travel <=> HP!Travel
  BY Zenon DEF OB!Terminate, OB!ProcessDies, OB!Empty, OB!ConnectivityChanges, OB!Tick,
     OB!ClockSetBack, OB!Travel, OB!objects, OB!suite, OB!network, OB!world,
     HP!Terminate, HP!ProcessDies, HP!Empty, HP!ConnectivityChanges, HP!Tick,
     HP!ClockSetBack, HP!Travel, HP!objects, HP!suite, HP!network, HP!world

LEMMA OnBoardingNextSame == [OB!Next]_(OB!vars) => [HP!Next]_(HP!vars)
<1>1. OB!vars = HP!vars
  BY Zenon DEF OB!vars, OB!objects, OB!suite, OB!network, OB!world,
     HP!vars, HP!objects, HP!suite, HP!network, HP!world
<1>2. OB!vars' = HP!vars'
  BY Zenon DEF OB!vars, OB!objects, OB!suite, OB!network, OB!world,
     HP!vars, HP!objects, HP!suite, HP!network, HP!world
<1>3. OB!Next => HP!Next
  BY SetOnboardingSame, AnswersSame, ObjectsSame, DeviceSame, Zenon DEF OB!Next, HP!Next
<1> QED
  BY <1>1, <1>2, <1>3, Zenon

\* The SDK is a behaviour of OnBoardingSync, so its theorems apply.
LEMMA OnBoardingSpec == Spec => HP!Spec
<1>1. OB!Init => HP!Init
  BY Zenon DEF OB!Init, OB!Empty, HP!Init, HP!Empty
<1> QED
  BY <1>1, OnBoardingNextSame, OnBoardingImplemented, PTL
     DEF ImplementsOnBoarding, OB!Spec, HP!Spec

---------------------------------------------------------------------------
\* In the SDK as a whole, where objects come by their id through createUser
\* and a death takes every component along: no key is anywhere before it is in
\* the suite, every request names the id of a live object, and before the
\* account has an id nothing is sent or recorded.
THEOREM SdkOnBoardingSafe == Spec => [](OB!WriteAhead /\ OB!NoAnonymousTraffic)
<1>1. HP!WriteAhead => OB!WriteAhead
  BY Zenon DEF HP!WriteAhead, OB!WriteAhead
<1>2. HP!NoAnonymousTraffic => OB!NoAnonymousTraffic
  BY Zenon DEF HP!NoAnonymousTraffic, HP!Empty, HP!knowsId, OB!NoAnonymousTraffic, OB!Empty,
     OB!knowsId
<1>3. HP!DatesAssumption /\ HP!OnBoardingAssumption
  BY OnBoardingConstants
<1> QED
  BY <1>1, <1>2, <1>3, OnBoardingSpec, HP!WriteAheadHolds, HP!NoAnonymousTrafficHolds, PTL

\* No object of the SDK loses what another has saved, and while there is one
\* object every request carries what the suite holds.
THEOREM SdkOnBoardingSteps == Spec => OB!NoLostUpdate /\ OB!RequestsCarrySavedMap
<1> DEFINE Kept == saved' # saved =>
               \E k \in Keys : /\ saved' = [saved EXCEPT ![k] = saved'[k]]
                              /\ saved'[k] # NoValue
           Carried == sends' > sends /\ (\A i, j \in live : i = j) =>
               \A r \in sendFlight' : r.id = sends' => r.data = saved'
<1>1. HP!DatesAssumption /\ HP!OnBoardingAssumption
  BY OnBoardingConstants
<1>2. Spec => [][Kept]_(HP!vars) /\ [][Carried]_(HP!vars)
  BY <1>1, OnBoardingSpec, HP!NoLostUpdateHolds, HP!RequestsCarrySavedMapHolds, PTL
     DEF HP!NoLostUpdate, HP!RequestsCarrySavedMap
<1>3. /\ [Kept]_(HP!vars) => [Kept]_(OB!vars)
      /\ [Carried]_(HP!vars) => [Carried]_(OB!vars)
  BY Zenon DEF OB!vars, OB!objects, OB!suite, OB!network, OB!world,
     HP!vars, HP!objects, HP!suite, HP!network, HP!world
<1> QED
  BY <1>2, <1>3, PTL DEF OB!NoLostUpdate, OB!RequestsCarrySavedMap

---------------------------------------------------------------------------
\* The history variable takes no part in what the SDK does.
LEMMA SdkHistorySpec == HSpec => Spec
<1>1. HInit => Init
  BY Zenon DEF HInit
<1>2. [HNext]_hvars => [Next]_vars
  BY Zenon DEF HNext, hvars
<1> QED
  BY <1>1, <1>2, PTL DEF HSpec, Spec

\* What the suite holds has been written.
WrittenInv ==
    /\ written = [k \in Keys |-> written[k]]
    /\ \A k \in Keys : saved[k] \in written[k] \cup {NoValue}

LEMMA WrittenInvCorrect == HSpec => []WrittenInv
<1>1. HInit => WrittenInv
  <2> SUFFICES ASSUME HInit PROVE WrittenInv
    OBVIOUS
  <2>1. written = [k \in Keys |-> {}] /\ saved = OB!Empty
    BY Zenon DEF HInit, Init
  <2> QED
    BY <2>1 DEF WrittenInv, OB!Empty
<1>2. WrittenInv /\ [HNext]_hvars => WrittenInv'
  <2>1. ASSUME OBH!Remember PROVE WrittenInv'
    BY <2>1 DEF OBH!Remember, WrittenInv
  <2>2. ASSUME WrittenInv, UNCHANGED hvars PROVE WrittenInv'
    BY <2>2 DEF hvars, vars, onboarding, WrittenInv
  <2> QED
    BY <2>1, <2>2 DEF HNext
<1> QED
  BY <1>1, <1>2, PTL DEF HSpec

LEMMA DeliverySpec == HSpec => HP!HSpec
<1>1. HInit /\ OB!Init => HP!HInit
  BY Zenon DEF HInit, OB!Init, OB!Empty, HP!HInit, HP!Init, HP!Empty
<1>2. Init => OB!Init
  BY DEF Init, ID!Init, OB!Init, live
<1>3. SeenInv /\ WrittenInv /\ [HNext]_hvars => [HP!HNext]_(HP!hvars)
  <2> SUFFICES ASSUME SeenInv, WrittenInv, [HNext]_hvars PROVE HP!HNext \/ UNCHANGED HP!hvars
    OBVIOUS
  <2>1. HP!Next \/ UNCHANGED HP!vars
    <3>1. [Next]_vars
      BY Zenon DEF HNext, hvars
    <3> QED
      BY <3>1, OnBoardingStep, OnBoardingNextSame
  <2>2. CASE UNCHANGED hvars
    BY <2>2, Zenon DEF hvars, vars, identity, onboarding, device, live,
       HP!hvars, HP!vars, HP!objects, HP!suite, HP!network, HP!world
  <2>3. CASE OBH!Remember
    <3>1. HP!Remember
      BY <2>3, Zenon DEF OBH!Remember, HP!Remember
    <3>2. ASSUME UNCHANGED HP!vars PROVE UNCHANGED written
      <4>1. UNCHANGED saved
        BY <3>2, Zenon DEF HP!vars, HP!suite
      <4>2. \A k \in Keys : written[k] \cup ({saved[k]} \ {NoValue}) = written[k]
        BY Zenon DEF WrittenInv
      <4>3. written' = [k \in Keys |-> written[k]]
        BY <2>3, <4>1, <4>2, Zenon DEF OBH!Remember
      <4> QED
        BY <4>3, Zenon DEF WrittenInv
    <3> QED
      BY <2>1, <3>1, <3>2, Zenon DEF HP!HNext, HP!hvars
  <2> QED
    BY <2>2, <2>3 DEF HNext
<1> QED
  BY <1>1, <1>2, <1>3, SdkHistorySpec, SeenInvCorrect, WrittenInvCorrect, PTL
     DEF HSpec, HP!HSpec, HInit

LEMMA DeliverySame ==
    /\ HP!Delivery!Init <=> OBH!Delivery!Init
    /\ [HP!Delivery!Next]_(HP!Delivery!vars) <=> [OBH!Delivery!Next]_(OBH!Delivery!vars)
<1>1. HP!Delivery!Init <=> OBH!Delivery!Init
  BY Zenon DEF HP!Delivery!Init, OBH!Delivery!Init
<1>2. /\ HP!Delivery!vars = OBH!Delivery!vars
      /\ HP!Delivery!vars' = OBH!Delivery!vars'
  BY Zenon DEF HP!Delivery!vars, OBH!Delivery!vars
<1>3. \A w : HP!Delivery!Genuine(w) = OBH!Delivery!Genuine(w)
  BY Zenon DEF HP!Delivery!Genuine, HP!Delivery!Map, OBH!Delivery!Genuine, OBH!Delivery!Map
<1>4. \A k, v : HP!Delivery!Write(k, v) <=> OBH!Delivery!Write(k, v)
  BY Zenon DEF HP!Delivery!Write, HP!Delivery!SetOut, OBH!Delivery!Write, OBH!Delivery!SetOut
<1>5. \A u, m : HP!Delivery!Repeat(u, m) <=> OBH!Delivery!Repeat(u, m)
  BY <1>3, Zenon DEF HP!Delivery!Repeat, HP!Delivery!SetOut, OBH!Delivery!Repeat,
     OBH!Delivery!SetOut
<1>6. \A c : /\ HP!Delivery!Merge(c) <=> OBH!Delivery!Merge(c)
             /\ HP!Delivery!Refuse(c) <=> OBH!Delivery!Refuse(c)
  BY Zenon DEF HP!Delivery!Merge, HP!Delivery!Refuse, OBH!Delivery!Merge, OBH!Delivery!Refuse
<1>7. HP!Delivery!Next <=> OBH!Delivery!Next
  BY <1>3, <1>4, <1>5, <1>6, Zenon DEF HP!Delivery!Next, OBH!Delivery!Next
<1> QED
  BY <1>1, <1>2, <1>7, Zenon

\* What the host sets through the whole SDK is delivered as OnboardingDelivery
\* promises.
THEOREM SdkDeliversOnBoarding == HSpec => DeliversOnBoarding
<1>1. HP!DatesAssumption /\ HP!OnBoardingAssumption
  BY OnBoardingConstants
<1>2. HSpec => HP!ImplementsDelivery
  BY <1>1, DeliverySpec, HP!DeliveryImplemented, PTL
<1> QED
  BY <1>2, DeliverySame, PTL
     DEF HP!ImplementsDelivery, HP!Delivery!Spec, DeliversOnBoarding, OBH!Delivery!Spec

---------------------------------------------------------------------------
LEMMA RequestSegmentsSame ==
    ASSUME NEW i, NEW w
    PROVE  SG!RequestSegments(i, w) <=> SP!RequestSegments(i, w)
  BY Zenon DEF SG!RequestSegments, SP!RequestSegments

LEMMA DueSame ==
    /\ SG!DailyRefreshDue <=> SP!DailyRefreshDue
    /\ SG!Due <=> SP!Due
<1>1. SG!DailyRefreshDue <=> SP!DailyRefreshDue
  BY Zenon DEF SG!DailyRefreshDue, SG!dayBetweenDates, SG!LocalDay, SG!StringToDate,
     SG!TicksPerDay, SP!DailyRefreshDue, SP!dayBetweenDates, SP!LocalDay, SP!StringToDate,
     SP!TicksPerDay
<1>2. SG!OnBoardingIsNewer <=> SP!OnBoardingIsNewer
  BY Zenon DEF SG!OnBoardingIsNewer, SG!StringToDate, SP!OnBoardingIsNewer, SP!StringToDate
<1> QED
  BY <1>1, <1>2, Zenon DEF SG!Due, SP!Due

LEMMA SegmentsObjectsSame ==
    ASSUME NEW i
    PROVE  /\ SG!Construct(i) <=> SP!Construct(i)
           /\ \A w : SG!LearnId(i, w) <=> SP!LearnId(i, w)
           /\ SG!GetSegments(i) <=> SP!GetSegments(i)
<1>1. SG!Construct(i) <=> SP!Construct(i)
  BY Zenon DEF SG!Construct, SP!Construct
<1>2. ASSUME NEW w PROVE SG!LearnId(i, w) <=> SP!LearnId(i, w)
  BY RequestSegmentsSame, Zenon DEF SG!LearnId, SG!knowsId, SP!LearnId, SP!knowsId
<1>3. SG!GetSegments(i) <=> SP!GetSegments(i)
  BY RequestSegmentsSame, DueSame, Zenon DEF SG!GetSegments, SG!knowsId, SG!ids,
     SP!GetSegments, SP!knowsId, SP!ids
<1> QED
  BY <1>1, <1>2, <1>3

LEMMA SegmentsAnswersSame ==
    ASSUME NEW i, NEW u
    PROVE  /\ SG!SegmentsFail(i, u) <=> SP!SegmentsFail(i, u)
           /\ SG!SegmentsTrap(i, u) <=> SP!SegmentsTrap(i, u)
           /\ \A d : SG!SegmentsArrive(i, u, d) <=> SP!SegmentsArrive(i, u, d)
           /\ \A d : SG!DiesBetweenDictionaryAndDate(i, u, d)
                        <=> SP!DiesBetweenDictionaryAndDate(i, u, d)
<1>1. SG!SegmentsFail(i, u) <=> SP!SegmentsFail(i, u)
  BY Zenon DEF SG!SegmentsFail, SG!Answered, SG!ids, SP!SegmentsFail, SP!Answered, SP!ids
<1>2. SG!ProcessDies <=> SP!ProcessDies
  BY Zenon DEF SG!ProcessDies, SG!NoRequests, SG!Versions, SP!ProcessDies, SP!NoRequests,
     SP!Versions
<1>3. SG!SegmentsTrap(i, u) <=> SP!SegmentsTrap(i, u)
  BY <1>2, Zenon DEF SG!SegmentsTrap, SP!SegmentsTrap
<1>4. ASSUME NEW d PROVE SG!SegmentsArrive(i, u, d) <=> SP!SegmentsArrive(i, u, d)
  BY Zenon DEF SG!SegmentsArrive, SG!Answered, SG!Answers, SG!SaveSegments, SG!DateToString,
     SG!ids, SP!SegmentsArrive, SP!Answered, SP!Answers, SP!SaveSegments, SP!DateToString, SP!ids
<1>5. ASSUME NEW d
      PROVE  SG!DiesBetweenDictionaryAndDate(i, u, d) <=> SP!DiesBetweenDictionaryAndDate(i, u, d)
  BY <1>2, Zenon DEF SG!DiesBetweenDictionaryAndDate, SG!Answers,
     SP!DiesBetweenDictionaryAndDate, SP!Answers
<1> QED
  BY <1>1, <1>3, <1>4, <1>5

LEMMA SegmentsWorldSame ==
    /\ SG!Terminate <=> SP!Terminate
    /\ SG!OnBoardingSynced <=> SP!OnBoardingSynced
    /\ \A w : SG!ProfileChanges(w) <=> SP!ProfileChanges(w)
    /\ SG!ConnectivityChanges <=> SP!ConnectivityChanges
    /\ SG!ClockMoves <=> SP!ClockMoves
    /\ SG!Travel <=> SP!Travel
<1>1. SG!Terminate <=> SP!Terminate
  BY Zenon DEF SG!Terminate, SG!ProcessDies, SG!NoRequests, SG!Versions, SP!Terminate,
     SP!ProcessDies, SP!NoRequests, SP!Versions
<1>2. SG!OnBoardingSynced <=> SP!OnBoardingSynced
  BY Zenon DEF SG!OnBoardingSynced, SG!DateToString, SG!knowsId, SG!ids,
     SP!OnBoardingSynced, SP!DateToString, SP!knowsId, SP!ids
<1>3. /\ \A w : SG!ProfileChanges(w) <=> SP!ProfileChanges(w)
      /\ SG!ConnectivityChanges <=> SP!ConnectivityChanges
      /\ SG!ClockMoves <=> SP!ClockMoves
      /\ SG!Travel <=> SP!Travel
  BY Zenon DEF SG!ProfileChanges, SG!ConnectivityChanges, SG!ClockMoves, SG!Travel,
     SG!ids, SP!ProfileChanges, SP!ConnectivityChanges, SP!ClockMoves, SP!Travel, SP!ids
<1> QED
  BY <1>1, <1>2, <1>3

\* The SDK is a behaviour of Segments, so its theorems apply.
LEMMA SegmentsSpec == Spec => SP!Spec
<1>1. SG!Init => SP!Init
  BY Zenon DEF SG!Init, SG!NoRequests, SG!Versions, SP!Init, SP!NoRequests, SP!Versions
<1>2. [SG!Next]_(SG!vars) => [SP!Next]_(SP!vars)
  <2>1. SG!vars = SP!vars /\ SG!vars' = SP!vars'
    BY Zenon DEF SG!vars, SG!ids, SP!vars, SP!ids
  <2>2. SG!Versions = SP!Versions /\ SG!Dictionary = SP!Dictionary
    BY Zenon DEF SG!Versions, SG!Dictionary, SG!UserSegments,
       SP!Versions, SP!Dictionary, SP!UserSegments
  <2>3. SG!Next => SP!Next
    BY <2>2, SegmentsObjectsSame, SegmentsAnswersSame, SegmentsWorldSame, Zenon
       DEF SG!Next, SP!Next
  <2> QED
    BY <2>1, <2>3, Zenon
<1> QED
  BY <1>1, <1>2, SegmentsImplemented, PTL DEF ImplementsSegments, SG!Spec, SP!Spec

\* In the SDK as a whole, where the dates of segments are compared with the
\* syncs of on-boarding that really happened: a date in the suite dates a saved
\* dictionary, only a rival keeps an object from the suite's segments or from
\* asking for its first, and the daily refresh waits for a clock set back.
THEOREM SdkSegmentsSafe ==
    Spec => [](/\ SG!DatedSegmentsAreSaved
               /\ SG!SavedSegmentsHaveAnOwner
               /\ SG!SilencedOnlyByRival
               /\ SG!DailyRefreshNeedsClockBack)
<1>1. /\ SP!DatedSegmentsAreSaved => SG!DatedSegmentsAreSaved
      /\ SP!SavedSegmentsHaveAnOwner => SG!SavedSegmentsHaveAnOwner
  BY Zenon DEF SP!DatedSegmentsAreSaved, SG!DatedSegmentsAreSaved,
     SP!SavedSegmentsHaveAnOwner, SG!SavedSegmentsHaveAnOwner
<1>2. /\ SP!SilencedOnlyByRival => SG!SilencedOnlyByRival
      /\ SP!DailyRefreshNeedsClockBack => SG!DailyRefreshNeedsClockBack
  BY DueSame, Zenon DEF SP!SilencedOnlyByRival, SG!SilencedOnlyByRival,
     SP!DailyRefreshNeedsClockBack, SG!DailyRefreshNeedsClockBack
<1>3. SP!DatesAssumption /\ SP!SegmentsAssumption
  BY SegmentsConstants
<1> QED
  BY <1>1, <1>2, <1>3, SegmentsSpec, SP!DatedSegmentsAreSavedHolds,
     SP!SavedSegmentsHaveAnOwnerHolds, SP!SilencedOnlyByRivalHolds,
     SP!DailyRefreshNeedsClockBackHolds, PTL

---------------------------------------------------------------------------
(***************************************************************************)
(* Freshness of segments against on-boarding syncs.  A sync that counts    *)
(* leaves no request behind that could bring older segments, and a date    *)
(* text later than the one of the segments; every step keeps both until a  *)
(* dictionary is saved that is not behind.                                 *)
(***************************************************************************)

\* What the refinements give of the state the argument is about.
FreshTypes ==
    /\ version \in [UserIds -> SG!Versions]
    /\ userId \in [Instances -> UserIds \cup {NoId}]
    /\ segFlight \in [Instances -> [SG!Versions -> Nat]]
    /\ dateLastSync \in Nat \cup {NoDate}
    /\ dateOnBoarding \in Nat \cup {NoDate}
    /\ now \in Nat
    /\ \A r \in sendFlight \cup transit : r.user \in UserIds
    /\ \A i \in Instances, u \in SG!Versions : segFlight[i][u] > 0 => i \in knowsId

LEMMA FreshTypesCorrect == Spec => []FreshTypes
<1>1. SP!DatesAssumption /\ SP!SegmentsAssumption
  BY SegmentsConstants
<1>2. HP!DatesAssumption /\ HP!OnBoardingAssumption
  BY OnBoardingConstants
<1>3. SP!TypeOK /\ SP!Asking /\ HP!TypeOK => FreshTypes
  <2> SUFFICES ASSUME SP!TypeOK, SP!Asking, HP!TypeOK PROVE FreshTypes
    OBVIOUS
  <2>1. SP!Versions = SG!Versions
    BY Zenon DEF SP!Versions, SG!Versions
  <2>2. /\ version \in [UserIds -> SG!Versions]
        /\ userId \in [Instances -> UserIds \cup {NoId}]
        /\ dateLastSync \in Nat \cup {NoDate}
        /\ dateOnBoarding \in Nat \cup {NoDate}
    BY <2>1, Zenon DEF SP!TypeOK
  <2>3. now \in Nat
    <3>1. now \in 0..MaxTime
      BY Zenon DEF SP!TypeOK
    <3> QED
      BY <3>1, SdkAssumption
  <2>4. segFlight \in [Instances -> [SG!Versions -> Nat]]
    <3>1. segFlight \in [Instances -> [SG!Versions -> 0..MaxOutstanding]]
      BY <2>1, Zenon DEF SP!TypeOK
    <3> QED
      BY <3>1, SdkAssumption
  <2>5. \A i \in Instances, u \in SG!Versions : segFlight[i][u] > 0 => i \in knowsId
    BY <2>1, Zenon DEF SP!Asking, SP!knowsId, knowsId
  <2>6. \A r \in sendFlight \cup transit : r.user \in UserIds
    BY DEF HP!TypeOK, HP!Request
  <2> QED
    BY <2>2, <2>3, <2>4, <2>5, <2>6 DEF FreshTypes
<1> QED
  BY <1>1, <1>2, <1>3, SegmentsSpec, SP!TypeCorrect, SP!AskersKnown, OnBoardingSpec,
     HP!TypeCorrect, PTL

\* No request under way may be answered out of a profile older than owed.
AnswersSuffice ==
    /\ owed \in [UserIds -> SG!Versions]
    /\ \A w \in UserIds : owed[w] <= version[w]
    /\ \A i \in Instances, u \in SG!Versions :
          segFlight[i][u] > 0 => owed[userId[i]] <= u

\* While segments are behind, the text of the last on-boarding sync is later
\* than the one of the last dictionary.
BehindIsDated ==
    \A w \in UserIds : Behind(w) =>
        \/ dateLastSync = NoDate
        \/ dateOnBoarding # NoDate /\ dateLastSync < dateOnBoarding

\* A clock that goes forward is not behind the text of the last sync.
SyncTextIsPast ==
    dateOnBoarding # NoDate => dateOnBoarding <= DateToString(now)

FreshInv == AnswersSuffice /\ BehindIsDated /\ SyncTextIsPast

---------------------------------------------------------------------------
(***************************************************************************)
(* What a step may do to the state the invariant speaks of.                *)
(***************************************************************************)
dates == <<dateLastSync, dateOnBoarding, now>>

\* A request that waits after a step waited before it, or was issued by it at
\* the present version.
Waits ==
    \A i \in Instances, u \in SG!Versions : segFlight'[i][u] > 0 =>
        /\ userId'[i] \in UserIds
        /\ \/ segFlight[i][u] > 0 /\ userId'[i] = userId[i]
           \/ u = version[userId'[i]]

Idle == UNCHANGED <<dates, savedSegments, version, owed>> /\ Waits

Accepted ==
    /\ \E w \in UserIds : version' = [version EXCEPT ![w] = @ + 1]
    /\ UNCHANGED <<dates, savedSegments, segFlight, userId, owed>>

Synced ==
    /\ dateOnBoarding' = DateToString(now)
    /\ \E w \in UserIds :
          owed' = IF SyncCounts(w) THEN [owed EXCEPT ![w] = version[w]] ELSE owed
    /\ UNCHANGED <<dateLastSync, now, savedSegments, segFlight, userId, version>>

Arrived ==
    /\ \E i \in Instances, u \in SG!Versions, d \in SG!Dictionary :
          /\ segFlight[i][u] > 0
          /\ d \in SG!Answers(i, u)
          /\ savedSegments' = d
    /\ UNCHANGED <<dateOnBoarding, now, version, owed>>
    /\ Waits

Later ==
    /\ now' = now + 1
    /\ UNCHANGED <<dateLastSync, dateOnBoarding, savedSegments, segFlight, userId, version, owed>>

LEMMA SameDates ==
    /\ \A x : OB!DateToString(x) = DateToString(x)
    /\ \A x : SG!DateToString(x) = DateToString(x)
    /\ \A x : SG!StringToDate(x) = StringToDate(x)
  BY DEF OB!DateToString, SG!DateToString, DateToString, SG!StringToDate, StringToDate

\* An object without requests that gets some, at the present version.
LEMMA WaitsAsked ==
    ASSUME FreshTypes, NEW i \in Instances, NEW w \in UserIds, SG!RequestSegments(i, w),
           userId' \in [Instances -> UserIds \cup {NoId}], userId'[i] = w,
           userId[i] = w \/ \A u \in SG!Versions : ~(segFlight[i][u] > 0),
           \A j \in Instances : j # i => userId'[j] = userId[j]
    PROVE  Waits
<1> SUFFICES ASSUME NEW j \in Instances, NEW u \in SG!Versions, segFlight'[j][u] > 0
             PROVE  /\ userId'[j] \in UserIds
                    /\ \/ segFlight[j][u] > 0 /\ userId'[j] = userId[j]
                       \/ u = version[userId'[j]]
  BY DEF Waits
<1>1. CASE segFlight[j][u] > 0
  <2>1. userId[j] \in UserIds
    BY <1>1, SdkAssumption DEF FreshTypes, knowsId
  <2> QED
    BY <1>1, <2>1
<1>2. CASE ~(segFlight[j][u] > 0)
  <2>1. segFlight' = [segFlight EXCEPT ![i][version[w]] = @ + 1]
    BY <1>2 DEF SG!RequestSegments
  <2>2. j = i /\ u = version[w]
    BY <1>2, <2>1 DEF FreshTypes
  <2> QED
    BY <2>2
<1> QED
  BY <1>1, <1>2

LEMMA WaitsFewer ==
    ASSUME FreshTypes, UNCHANGED userId,
           \A i \in Instances, u \in SG!Versions : segFlight'[i][u] > 0 => segFlight[i][u] > 0
    PROVE  Waits
  BY SdkAssumption DEF Waits, FreshTypes, knowsId

LEMMA WaitsAfterDeath == MemoryLost => Waits
  BY DEF MemoryLost, SG!NoRequests, Waits

LEMMA WaitsNoMore ==
    ASSUME FreshTypes, NEW i \in Instances, NEW u \in SG!Versions, SG!Answered(i, u),
           UNCHANGED userId
    PROVE  Waits
<1>1. \A j \in Instances, x \in SG!Versions : segFlight'[j][x] > 0 => segFlight[j][x] > 0
  BY DEF SG!Answered, FreshTypes
<1> QED
  BY <1>1, WaitsFewer

LEMMA FreshCases ==
    ASSUME ~ClockMayGoBack, FreshTypes, SeenInv, [Next]_vars
    PROVE  Idle \/ Accepted \/ Synced \/ Arrived \/ Later
<1>0. ASSUME UNCHANGED <<segFlight, userId>> PROVE Waits
  BY <1>0, WaitsFewer
<1>1. ASSUME NEW i \in Instances, ConstructUser(i) PROVE Idle
  <2>1. UNCHANGED <<dates, savedSegments, version, owed, segFlight>>
    BY <1>1, Zenon DEF ConstructUser, dates
  <2>2. i \notin live /\ userId' = [userId EXCEPT ![i] = savedId]
    BY <1>1, ConstructionSeen DEF ConstructUser, SeenInv
  <2>3. Waits
    BY <2>1, <2>2, SdkAssumption DEF Waits, FreshTypes, knowsId
  <2> QED
    BY <2>1, <2>3, Zenon DEF Idle
<1>2. ASSUME NEW i \in Instances, FinishConstruction(i) \/ CreateUserFails(i) PROVE Idle
  BY <1>0, <1>2, Zenon DEF Idle, dates, FinishConstruction, CreateUserFails, onboarding, segments,
     ID!CheckUserId, ID!CreateUserAgain, ID!CreateUserFails
<1>3. ASSUME NEW i \in Instances, NEW u \in UserIds, CreateUserSucceeds(i, u) PROVE Idle
  <2>1. UNCHANGED <<dates, savedSegments, version, owed>> /\ SG!RequestSegments(i, u)
    BY <1>3, Zenon DEF CreateUserSucceeds, dates, onboarding
  <2>2. i \in live \ knowsId /\ userId' = [userId EXCEPT ![i] = u]
    BY <1>3, AnswerSeen DEF CreateUserSucceeds, SeenInv
  <2>3. /\ userId' \in [Instances -> UserIds \cup {NoId}]
        /\ userId'[i] = u
        /\ \A j \in Instances : j # i => userId'[j] = userId[j]
        /\ \A x \in SG!Versions : ~(segFlight[i][x] > 0)
    BY <2>2 DEF FreshTypes
  <2>4. Waits
    BY <2>1, <2>3, WaitsAsked
  <2> QED
    BY <2>1, <2>4, Zenon DEF Idle
<1>4. ASSUME NEW i \in Instances,
             \/ SendDataSaveInDefault(i)
             \/ \E k \in Keys, v \in Values : SetOnboarding(i, k, v)
      PROVE  Idle
  BY <1>0, <1>4, Zenon DEF Idle, dates, SendDataSaveInDefault, SetOnboarding, identity, segments,
     OB!SetOnboarding, OB!SetOnboardingSuppressed, OB!SendDataSaveInDefault,
     OB!ResendLosesConnection, OB!world, OB!suite
<1>5. ASSUME NEW i \in Instances, GetSegments(i) PROVE Idle
  <2>1. UNCHANGED <<dates, savedSegments, version, owed, userId>>
        /\ SG!RequestSegments(i, userId[i]) /\ i \in SG!knowsId
    BY <1>5, Zenon DEF GetSegments, SG!GetSegments, dates, identity, onboarding
  <2>2. userId[i] \in UserIds
    BY <2>1 DEF FreshTypes, SG!knowsId
  <2>3. Waits
    BY <2>1, <2>2, WaitsAsked DEF FreshTypes
  <2> QED
    BY <2>1, <2>3, Zenon DEF Idle
<1>6. ASSUME NEW i \in Instances, NEW u \in SG!Versions, SegmentsFail(i, u) PROVE Idle
  <2>1. UNCHANGED <<dates, savedSegments, version, owed, userId>> /\ SG!Answered(i, u)
    BY <1>6, Zenon DEF SegmentsFail, SG!SegmentsFail, dates, identity, onboarding
  <2> QED
    BY <2>1, WaitsNoMore, Zenon DEF Idle
<1>7. ASSUME NEW i \in Instances, NEW u \in SG!Versions, NEW d \in SG!Dictionary,
             SegmentsArrive(i, u, d)
      PROVE  Arrived
  <2>1. /\ UNCHANGED <<dateOnBoarding, now, version, owed, userId>>
        /\ SG!Answered(i, u) /\ d \in SG!Answers(i, u) /\ savedSegments' = d
    BY <1>7, Zenon DEF SegmentsArrive, SG!SegmentsArrive, SG!SaveSegments, identity, onboarding
  <2>2. segFlight[i][u] > 0
    BY <2>1, Zenon DEF SG!Answered
  <2> QED
    BY <2>1, <2>2, WaitsNoMore, Zenon DEF Arrived
<1>8. ASSUME NEW i \in Instances, NEW u \in SG!Versions, NEW d \in SG!Dictionary,
             DiesInSegmentsArrive(i, u, d)
      PROVE  Arrived
  BY <1>8, WaitsAfterDeath, Zenon
     DEF Arrived, DiesInSegmentsArrive, MemoryLost, SG!DiesBetweenDictionaryAndDate
<1>9. ASSUME NEW r \in transit, ServiceAccepts(r) PROVE Accepted
  <2>1. r.user \in UserIds
    BY DEF FreshTypes
  <2> QED
    BY <1>9, <2>1, Zenon DEF Accepted, dates, ServiceAccepts, OB!ServiceAccepts, OB!suite,
       OB!world, identity
<1>10. ASSUME NEW r \in sendFlight, SendSucceeds(r) PROVE Synced
  <2>1. r.user \in UserIds
    BY DEF FreshTypes
  <2> QED
    BY <1>10, <2>1, SameDates, Zenon DEF Synced, SendSucceeds, OB!SendSucceeds, OB!world,
       identity, segments
<1>11. ASSUME NEW r \in sendFlight, SendFails(r) PROVE Idle
  BY <1>0, <1>11, Zenon DEF Idle, dates, SendFails, OB!SendFails, OB!world, identity, segments
<1>12. ASSUME \/ Terminate
              \/ \E i \in Instances, k \in Keys, v \in Values : DiesInSetOnboarding(i, k, v)
              \/ \E r \in sendFlight : DiesInSendSucceeds(r)
       PROVE  Idle
  BY <1>12, WaitsAfterDeath, Zenon
     DEF Idle, dates, Terminate, DiesInSetOnboarding, DiesInSendSucceeds, MemoryLost,
         OB!DiesAfterSave, OB!DiesBetweenStatusAndDate
<1>13. CASE ConnectivityChanges
  BY <1>0, <1>13, Zenon
     DEF Idle, dates, ConnectivityChanges, ID!ConnectivityChanges, onboarding, segments
<1>14. CASE ClockAndZone
  <2>1. UNCHANGED <<dateLastSync, dateOnBoarding, savedSegments, segFlight, userId, version, owed>>
    BY <1>14, Zenon DEF ClockAndZone, identity, onboarding, segments
  <2>2. now' = now \/ now' = now + 1
    BY <1>14, Zenon DEF ClockAndZone, OB!Tick, OB!ClockSetBack, OB!Travel
  <2> QED
    BY <1>0, <2>1, <2>2, Zenon DEF Idle, Later, dates
<1>15. CASE UNCHANGED vars
  BY <1>0, <1>15, Zenon DEF Idle, dates, vars, identity, onboarding, segments, device
<1> QED
  BY <1>1, <1>2, <1>3, <1>4, <1>5, <1>6, <1>7, <1>8, <1>9, <1>10, <1>11, <1>12, <1>13, <1>14,
     <1>15, Zenon DEF Next

---------------------------------------------------------------------------
LEMMA VersionIsNat == SG!Versions = 0..MaxVersion /\ MaxVersion \in Nat
  BY SdkAssumption DEF SG!Versions

LEMMA TextOrder ==
    ASSUME NEW a \in Nat, NEW b \in Nat
    PROVE  StringToDate(a) < StringToDate(b) <=> a < b
<1>1. StringToDate(a) = a * TicksPerSecond /\ StringToDate(b) = b * TicksPerSecond
  BY DEF StringToDate
<1>2. TicksPerSecond \in Nat \ {0}
  BY DatesAssumption
<1>3. ASSUME a < b PROVE a * TicksPerSecond < b * TicksPerSecond
  BY <1>2, <1>3
<1>4. ASSUME b <= a PROVE b * TicksPerSecond <= a * TicksPerSecond
  BY <1>2, <1>4
<1>5. a * TicksPerSecond \in Nat /\ b * TicksPerSecond \in Nat
  BY <1>2
<1> QED
  BY <1>1, <1>3, <1>4, <1>5

LEMMA TextMonotone ==
    ASSUME NEW x \in Nat
    PROVE  /\ DateToString(x) \in Nat
           /\ DateToString(x + 1) \in Nat
           /\ DateToString(x) <= DateToString(x + 1)
<1>1. DateToString(x) \in Nat /\ DateToString(x + 1) \in Nat
  BY TextNotLater
<1> QED
  BY <1>1, DivMonotone, DatesAssumption DEF DateToString

\* While owed and the profiles stay, so does what requests may bring.
LEMMA SufficeKept ==
    ASSUME FreshTypes, AnswersSuffice, Waits, UNCHANGED <<version, owed>>
    PROVE  AnswersSuffice'
<1> SUFFICES ASSUME NEW i \in Instances, NEW u \in SG!Versions, segFlight'[i][u] > 0
             PROVE  owed[userId'[i]] <= u
  BY DEF AnswersSuffice
<1>1. userId'[i] \in UserIds
  BY DEF Waits
<1>2. CASE segFlight[i][u] > 0 /\ userId'[i] = userId[i]
  BY <1>2 DEF AnswersSuffice
<1>3. CASE u = version[userId'[i]]
  BY <1>1, <1>3 DEF AnswersSuffice
<1> QED
  BY <1>2, <1>3 DEF Waits

\* An answer is never behind.
LEMMA ArrivedNotBehind ==
    ASSUME FreshTypes, AnswersSuffice, Arrived, NEW w \in UserIds
    PROVE  ~Behind(w)'
<1> SUFFICES ASSUME Behind(w)' PROVE FALSE
  OBVIOUS
<1>1. PICK i \in Instances, u \in SG!Versions, d \in SG!Dictionary :
         segFlight[i][u] > 0 /\ d \in SG!Answers(i, u) /\ savedSegments' = d
  BY DEF Arrived
<1>2. d # NoSegments
  BY SdkAssumption DEF SG!Dictionary, SG!UserSegments, SG!Versions
<1>3. PICK v \in SG!Versions : v < owed[w] /\ d = [user |-> w, version |-> v]
  BY <1>1, <1>2 DEF Behind, Arrived
<1>4. d # ErrorAnswer
  BY <1>3, SdkAssumption DEF SG!Versions
<1>5. PICK n \in u..version[userId[i]] : d = [user |-> userId[i], version |-> n]
  BY <1>1, <1>4 DEF SG!Answers
<1>6. userId[i] = w /\ n = v
  BY <1>3, <1>5
<1>7. owed[w] <= u
  BY <1>1, <1>6 DEF AnswersSuffice
<1> QED
  BY <1>3, <1>5, <1>6, <1>7, VersionIsNat DEF AnswersSuffice

LEMMA FreshInit == Init => FreshInv
<1> SUFFICES ASSUME Init PROVE FreshInv
  OBVIOUS
<1>1. owed = [w \in UserIds |-> 0] /\ version = [w \in UserIds |-> 0]
      /\ segFlight = [i \in Instances |-> SG!NoRequests] /\ dateOnBoarding = NoDate
  BY Zenon DEF Init
<1>2. AnswersSuffice
  BY <1>1, VersionIsNat DEF AnswersSuffice, SG!NoRequests
<1>3. BehindIsDated /\ SyncTextIsPast
  BY <1>1 DEF BehindIsDated, Behind, SyncTextIsPast
<1> QED
  BY <1>2, <1>3 DEF FreshInv

LEMMA FreshStep ==
    ASSUME FreshTypes, FreshTypes', FreshInv, SeenInv, ~ClockMayGoBack, [Next]_vars
    PROVE  FreshInv'
<1> USE DEF FreshInv
<1>1. CASE Idle
  <2>1. AnswersSuffice'
    BY <1>1, SufficeKept DEF Idle
  <2>2. BehindIsDated' /\ SyncTextIsPast'
    BY <1>1, Zenon DEF Idle, dates, BehindIsDated, Behind, SyncTextIsPast, DateToString
  <2> QED
    BY <2>1, <2>2
<1>2. CASE Accepted
  <2>1. PICK w \in UserIds : version' = [version EXCEPT ![w] = @ + 1]
    BY <1>2 DEF Accepted
  <2>2. AnswersSuffice'
    BY <1>2, <2>1, VersionIsNat DEF Accepted, AnswersSuffice, FreshTypes
  <2>3. BehindIsDated' /\ SyncTextIsPast'
    BY <1>2, Zenon DEF Accepted, dates, BehindIsDated, Behind, SyncTextIsPast, DateToString
  <2> QED
    BY <2>2, <2>3
<1>3. CASE Synced
  <2>1. DateToString(now) \in Nat /\ DateToString(now) # NoDate
    BY TextNotLater, SdkAssumption DEF FreshTypes
  <2>2. SyncTextIsPast'
    BY <1>3, <2>1 DEF Synced, SyncTextIsPast
  <2>3. PICK w \in UserIds :
            owed' = IF SyncCounts(w) THEN [owed EXCEPT ![w] = version[w]] ELSE owed
    BY <1>3 DEF Synced
  <2>4. AnswersSuffice'
    <3>1. CASE SyncCounts(w)
      <4>1. owed' = [owed EXCEPT ![w] = version[w]]
            /\ UNCHANGED <<segFlight, userId, version>>
        BY <1>3, <2>3, <3>1 DEF Synced
      <4>2. \A i \in Instances, u \in SG!Versions :
               segFlight[i][u] > 0 /\ userId[i] = w => version[w] <= u
        <5> SUFFICES ASSUME NEW i \in Instances, NEW u \in SG!Versions,
                            segFlight[i][u] > 0, userId[i] = w
                     PROVE  version[w] <= u
          OBVIOUS
        <5>1. u < version[w] => segFlight[i][u] = 0
          BY <3>1, Zenon DEF SyncCounts
        <5>2. u \in Nat /\ version[w] \in Nat /\ segFlight[i][u] # 0
          BY VersionIsNat DEF FreshTypes
        <5> QED
          BY <5>1, <5>2
      <4> QED
        BY <4>1, <4>2, VersionIsNat DEF AnswersSuffice, FreshTypes
    <3>2. CASE ~SyncCounts(w)
      BY <1>3, <2>3, <3>2 DEF Synced, AnswersSuffice
    <3> QED
      BY <3>1, <3>2
  <2>5. ASSUME NEW x \in UserIds, Behind(x)'
        PROVE  dateLastSync = NoDate \/ dateLastSync < DateToString(now)
    <3>1. CASE SyncCounts(w)
      BY <2>1, <3>1, TextOrder DEF SyncCounts, FreshTypes
    <3>2. CASE ~SyncCounts(w)
      <4>1. Behind(x)
        BY <1>3, <2>3, <2>5, <3>2, Zenon DEF Synced, Behind
      <4> QED
        BY <2>1, <4>1 DEF BehindIsDated, SyncTextIsPast, FreshTypes
    <3> QED
      BY <3>1, <3>2
  <2>6. BehindIsDated'
    <3>1. dateOnBoarding' = DateToString(now) /\ dateLastSync' = dateLastSync
      BY <1>3, Zenon DEF Synced
    <3> QED
      BY <2>1, <2>5, <3>1, Zenon DEF BehindIsDated
  <2> QED
    BY <2>2, <2>4, <2>6
<1>4. CASE Arrived
  <2>1. AnswersSuffice'
    BY <1>4, SufficeKept DEF Arrived
  <2>2. BehindIsDated'
    BY <1>4, ArrivedNotBehind DEF BehindIsDated
  <2>3. SyncTextIsPast'
    BY <1>4, Zenon DEF Arrived, SyncTextIsPast, DateToString
  <2> QED
    BY <2>1, <2>2, <2>3
<1>5. CASE Later
  <2>1. AnswersSuffice'
    BY <1>5, Zenon DEF Later, AnswersSuffice
  <2>2. BehindIsDated'
    BY <1>5, Zenon DEF Later, BehindIsDated, Behind
  <2>3. DateToString(now) \in Nat /\ DateToString(now + 1) \in Nat
        /\ DateToString(now) <= DateToString(now + 1)
    BY TextMonotone DEF FreshTypes
  <2>4. dateOnBoarding # NoDate =>
            dateOnBoarding \in Nat /\ dateOnBoarding <= DateToString(now)
    BY DEF FreshTypes, SyncTextIsPast
  <2>5. dateOnBoarding # NoDate => dateOnBoarding <= DateToString(now + 1)
    BY <2>3, <2>4
  <2>6. SyncTextIsPast'
    BY <1>5, <2>5, Zenon DEF Later, SyncTextIsPast, DateToString
  <2> QED
    BY <2>1, <2>2, <2>6
<1> QED
  BY <1>1, <1>2, <1>3, <1>4, <1>5, FreshCases

\* The test of User.getSegments, on the texts.
LEMMA DueWhenBehind ==
    ASSUME FreshTypes, BehindIsDated
    PROVE  OwedSegmentsAreDue
<1> SUFFICES ASSUME NEW w \in UserIds, Behind(w), dateLastSync # NoDate
             PROVE  SG!OnBoardingIsNewer
  BY DEF OwedSegmentsAreDue, SG!Due
<1>1. dateOnBoarding # NoDate /\ dateLastSync < dateOnBoarding
  BY DEF BehindIsDated
<1>2. dateLastSync \in Nat /\ dateOnBoarding \in Nat
  BY <1>1 DEF FreshTypes
<1> QED
  BY <1>1, <1>2, TextOrder, SameDates DEF SG!OnBoardingIsNewer

\* After an on-boarding sync that counts, getSegments has a reason to ask until
\* a dictionary is saved that is not behind the sync of the user it is of,
\* whatever fails, dies or is synced meanwhile, for whichever user.
THEOREM OwedSegmentsAreDueHolds == Spec => []OwedSegmentsAreDue
<1>1. CASE ClockMayGoBack
  <2>1. OwedSegmentsAreDue
    BY <1>1 DEF OwedSegmentsAreDue
  <2> QED
    BY <2>1, PTL
<1>2. CASE ~ClockMayGoBack
  <2>1. FreshTypes /\ FreshTypes' /\ SeenInv /\ FreshInv /\ [Next]_vars => FreshInv'
    BY <1>2, FreshStep
  <2>2. FreshTypes /\ FreshInv => OwedSegmentsAreDue
    BY DueWhenBehind DEF FreshInv
  <2> QED
    BY <2>1, <2>2, FreshInit, FreshTypesCorrect, SeenInvCorrect, PTL DEF Spec
<1> QED
  BY <1>1, <1>2

===========================================================================
