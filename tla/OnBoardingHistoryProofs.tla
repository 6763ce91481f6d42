---------------------- MODULE OnBoardingHistoryProofs ----------------------
(***************************************************************************)
(* OnBoardingSync implements OnboardingDelivery, for any objects, keys,    *)
(* values, clocks and numbers of requests.                                 *)
(***************************************************************************)
EXTENDS OnBoardingHistory, OnBoardingSyncProofs

---------------------------------------------------------------------------
(***************************************************************************)
(* The history variable adds nothing to what OnBoardingSync does.          *)
(***************************************************************************)
LEMMA HistoryStep == [HNext]_hvars => [Next]_vars
  BY Zenon DEF HNext, hvars

LEMMA HistorySpec == HSpec => Spec
<1>1. HInit => Init
  BY Zenon DEF HInit
<1> QED
  BY <1>1, HistoryStep, PTL DEF HSpec, Spec

---------------------------------------------------------------------------
(***************************************************************************)
(* Every map there is holds, under each key, a value written for that key. *)
(***************************************************************************)
Genuine(w, m) == \A k \in Keys : m[k] \in w[k] \cup {NoValue}

WrittenOK == written \in [Keys -> SUBSET Values]

HInv ==
    /\ WrittenOK
    /\ Genuine(written, saved)
    /\ \A u \in UserIds : Genuine(written, profile[u])
    /\ \A i \in Instances : Genuine(written, valueData[i])
    /\ \A r \in flight \cup transit : Genuine(written, r.data)

\* What was written stays, and the suite's values are among it.
LEMMA RememberGrows ==
    ASSUME WrittenOK, Remember, saved' \in Map
    PROVE  /\ WrittenOK'
           /\ \A m : Genuine(written, m) => Genuine(written', m)
           /\ Genuine(written', saved')
<1>1. \A k \in Keys : written'[k] = written[k] \cup ({saved'[k]} \ {NoValue})
  BY Zenon DEF Remember
<1>2. \A k \in Keys : {saved'[k]} \ {NoValue} \subseteq Values
  BY DEF Map
<1>3. WrittenOK'
  BY <1>2 DEF WrittenOK, Remember
<1>4. \A m : Genuine(written, m) => Genuine(written', m)
  BY <1>1, Zenon DEF Genuine
<1>5. Genuine(written', saved')
  BY <1>1, Zenon DEF Genuine
<1> QED
  BY <1>3, <1>4, <1>5

\* Where the maps of an object come from.
LEMMA MemorySource ==
    ASSUME TypeOK, Next
    PROVE  \A i \in Instances :
              valueData'[i] \in {valueData[i], saved, saved', Empty}
<1> DEFINE Goal == \A i \in Instances :
              valueData'[i] \in {valueData[i], saved, saved', Empty}
<1>0. valueData \in [Instances -> Map]
  BY DEF TypeOK
<1>1. CASE UNCHANGED valueData
  BY <1>1
<1>2. CASE ProcessDies
  BY <1>2, Zenon DEF ProcessDies
<1>3. ASSUME NEW i \in Instances, NEW m \in {saved, saved'},
             valueData' = [valueData EXCEPT ![i] = m]
      PROVE  Goal
  BY <1>0, <1>3
<1>4. ASSUME NEW i \in Instances, Construct(i) PROVE Goal
  BY <1>3, <1>4, Zenon DEF Construct
<1>5. ASSUME NEW i \in Instances, NEW k \in Keys, NEW v \in Values,
             SetOnboardingSuppressed(i, k, v) \/ SetOnboarding(i, k, v)
      PROVE  Goal
  BY <1>3, <1>5, Zenon DEF SetOnboardingSuppressed, SetOnboarding, SaveInfo
<1>6. \/ UNCHANGED valueData
      \/ ProcessDies
      \/ \E i \in Instances : Construct(i)
      \/ \E i \in Instances, k \in Keys, v \in Values :
            SetOnboardingSuppressed(i, k, v) \/ SetOnboarding(i, k, v)
  BY NextSplits, Zenon
  DEF HostStep, SendStep, AnswerStep, DeathStep, DeviceStep, LearnId, SendDataSaveInDefault,
      ResendLosesConnection, ServiceAccepts, SendSucceeds, SendFails, Terminate, DiesAfterSave,
      DiesBetweenStatusAndDate, ConnectivityChanges, Tick, ClockSetBack, Travel, objects
<1> QED
  BY <1>1, <1>2, <1>4, <1>5, <1>6, Zenon

\* Where the map of a request comes from.
LEMMA RequestSource ==
    ASSUME TypeOK, Next, NEW r \in flight' \cup transit'
    PROVE  \/ \E s \in flight \cup transit : r.data = s.data
           \/ r.data = saved'
           \/ \E i \in Instances : r.data = valueData[i]
<1> DEFINE Goal == \/ \E s \in flight \cup transit : r.data = s.data
                   \/ r.data = saved'
                   \/ \E i \in Instances : r.data = valueData[i]
<1>1. CASE flight' \cup transit' \subseteq flight \cup transit
  BY <1>1, Zenon
<1>2. ASSUME NEW i \in Instances, NEW k \in Keys, NEW v \in Values, SetOnboarding(i, k, v)
      PROVE  Goal
  <2>1. saved' = WithValue(i, k, v) /\ SendOnBoarding(i, saved') /\ saved' \in Map
    BY <1>2, WithValueTyped, Zenon DEF SetOnboarding, SaveInfo
  <2>2. NextRequest(i, saved').data = saved'
    BY DEF NextRequest
  <2> QED
    BY <2>1, <2>2, SendOnBoardingEffect
<1>3. ASSUME NEW i \in Instances, SendDataSaveInDefault(i) PROVE Goal
  <2>1. NextRequest(i, valueData[i]).data = valueData[i]
    BY DEF NextRequest
  <2> QED
    BY <1>3, <2>1, SendOnBoardingEffect DEF SendDataSaveInDefault, TypeOK
<1>4. \/ flight' \cup transit' \subseteq flight \cup transit
      \/ \E i \in Instances, k \in Keys, v \in Values : SetOnboarding(i, k, v)
      \/ \E i \in Instances : SendDataSaveInDefault(i)
  BY NextSplits, Zenon
  DEF HostStep, SendStep, AnswerStep, DeathStep, DeviceStep, Construct, LearnId,
      SetOnboardingSuppressed, ResendLosesConnection, ServiceAccepts, SendSucceeds, SendFails,
      Terminate, DiesAfterSave, DiesBetweenStatusAndDate, ProcessDies, ConnectivityChanges,
      Tick, ClockSetBack, Travel, network
<1> QED
  BY <1>1, <1>2, <1>3, <1>4, Zenon

LEMMA ProfileSource ==
    ASSUME TypeOK, Next, NEW u \in UserIds, NEW k \in Keys
    PROVE  \/ profile'[u][k] = profile[u][k]
           \/ \E r \in transit : profile'[u][k] = r.data[k]
<1>1. UNCHANGED profile \/ \E r \in transit : ServiceAccepts(r)
  BY NextSplits, Zenon
  DEF HostStep, SendStep, AnswerStep, DeathStep, DeviceStep, Construct, LearnId,
      SetOnboardingSuppressed, SetOnboarding, SendDataSaveInDefault, ResendLosesConnection,
      SendSucceeds, SendFails, Terminate, DiesAfterSave, DiesBetweenStatusAndDate, ProcessDies,
      ConnectivityChanges, Tick, ClockSetBack, Travel, network
<1> QED
  BY <1>1, MergeEffect, Zenon

LEMMA HInvInit == HInit => HInv
<1> SUFFICES ASSUME HInit PROVE HInv
  OBVIOUS
<1>1. WrittenOK
  BY DEF HInit, WrittenOK
<1>2. Genuine(written, Empty)
  BY Zenon DEF Genuine, Empty
<1>3. \A u \in UserIds : HInit => profile[u] = Empty
  BY DEF HInit, Init
<1> QED
  BY <1>1, <1>2, <1>3, Zenon DEF HInit, Init, HInv

LEMMA HInvStep == TypeOK /\ TypeOK' /\ HInv /\ [HNext]_hvars => HInv'
<1> SUFFICES ASSUME TypeOK, TypeOK', HInv, [HNext]_hvars PROVE HInv'
  OBVIOUS
<1>1. CASE UNCHANGED hvars
  BY <1>1, Zenon DEF hvars, vars, objects, suite, network, HInv, WrittenOK
<1>2. CASE HNext
  <2>0. saved' \in Map
    BY Zenon DEF TypeOK
  <2>1. /\ WrittenOK'
        /\ \A m : Genuine(written, m) => Genuine(written', m)
        /\ Genuine(written', saved')
    BY <1>2, <2>0, RememberGrows, Zenon DEF HNext, HInv
  <2>2. ASSUME NEW i \in Instances PROVE Genuine(written', valueData'[i])
    <3>1. valueData'[i] \in {valueData[i], saved, saved', Empty}
      BY <1>2, MemorySource, Zenon DEF HNext
    <3>2. Genuine(written', Empty)
      BY Zenon DEF Genuine, Empty
    <3> QED
      BY <2>1, <3>1, <3>2, Zenon DEF HInv
  <2>3. ASSUME NEW r \in flight' \cup transit' PROVE Genuine(written', r.data)
    <3>1. \/ \E s \in flight \cup transit : r.data = s.data
          \/ r.data = saved'
          \/ \E i \in Instances : r.data = valueData[i]
      BY <1>2, RequestSource, Zenon DEF HNext
    <3> QED
      BY <2>1, <3>1, Zenon DEF HInv
  <2>4. ASSUME NEW u \in UserIds PROVE Genuine(written', profile'[u])
    <3>1. \A k \in Keys : \/ profile'[u][k] = profile[u][k]
                          \/ \E r \in transit : profile'[u][k] = r.data[k]
      BY <1>2, ProfileSource, Zenon DEF HNext
    <3>2. Genuine(written', profile[u]) /\ \A r \in transit : Genuine(written', r.data)
      BY <2>1, Zenon DEF HInv
    <3> QED
      BY <3>1, <3>2, Zenon DEF Genuine
  <2> QED
    BY <2>1, <2>2, <2>3, <2>4, Zenon DEF HInv
<1> QED
  BY <1>1, <1>2

\* The inductive invariant of the history: every map in the suite, in memory, in
\* a request or in the profile holds only values written for their keys.
THEOREM HInvHolds == HSpec => [](TypeOK /\ HInv)
<1>1. HSpec => []TypeOK
  BY HistorySpec, TypeCorrect, PTL
<1> QED
  BY <1>1, HInvInit, HInvStep, PTL DEF HSpec

\* No object, request or profile holds a value nobody wrote under its key.
THEOREM OnlyWrittenValuesHolds == HSpec => []OnlyWrittenValues
<1>1. HInv => OnlyWrittenValues
  BY Zenon DEF HInv, Genuine, OnlyWrittenValues
<1> QED
  BY <1>1, HInvHolds, PTL

---------------------------------------------------------------------------
(***************************************************************************)
(* Step simulation: what each step of OnBoardingSync is to the delivery.   *)
(***************************************************************************)
LEMMA WrittenStays ==
    ASSUME HInv, Remember, saved' = saved
    PROVE  written' = written
<1>1. \A k \in Keys : written[k] \cup ({saved[k]} \ {NoValue}) = written[k]
  BY Zenon DEF HInv, Genuine
<1>2. written' = [k \in Keys |-> written[k]]
  BY <1>1, Zenon DEF Remember
<1> QED
  BY <1>2 DEF HInv, WrittenOK

LEMMA WrittenGrows ==
    ASSUME HInv, TypeOK, Remember, NEW k \in Keys, NEW v \in Values,
           saved' = [saved EXCEPT ![k] = v]
    PROVE  written' = [written EXCEPT ![k] = @ \cup {v}]
<1>1. ASSUME NEW l \in Keys
      PROVE  written[l] \cup ({saved'[l]} \ {NoValue})
                = IF l = k THEN written[l] \cup {v} ELSE written[l]
  <2>1. CASE l = k
    <3>1. saved'[l] = v /\ v # NoValue
      BY <2>1, OnBoardingAssumption DEF TypeOK, Map
    <3> QED
      BY <2>1, <3>1, Zenon
  <2>2. CASE l # k
    <3>1. saved'[l] = saved[l]
      BY <2>2 DEF TypeOK, Map
    <3> QED
      BY <2>2, <3>1, Zenon DEF HInv, Genuine
  <2> QED
    BY <2>1, <2>2
<1>2. written' = [l \in Keys |-> IF l = k THEN written[l] \cup {v} ELSE written[l]]
  BY <1>1, Zenon DEF Remember
<1> QED
  BY <1>2 DEF HInv, WrittenOK

\* The abstract variables, and what they become in a step.
LEMMA DeliveryVars ==
    /\ Delivery!vars = <<written, saved, transit, sends, profile>>
    /\ Delivery!vars' = <<written', saved', transit', sends', profile'>>
  BY Zenon DEF Delivery!vars

\* sendOnBoarding has a copy of data set out, or none.
LEMMA SendIsSetOut ==
    ASSUME TypeOK, NEW i \in Instances, NEW data \in Map, SendOnBoarding(i, data)
    PROVE  (\E u \in UserIds : Delivery!SetOut(u, data)) \/ UNCHANGED <<sends, transit>>
<1>1. i \in knowsId => userId[i] \in UserIds
  BY DEF TypeOK, knowsId
<1> QED
  BY <1>1, SendOnBoardingEffect, Zenon DEF NextRequest, Delivery!SetOut

LEMMA StutterStep ==
    ASSUME HInv, Remember, UNCHANGED <<saved, transit, sends, profile>>
    PROVE  UNCHANGED Delivery!vars
  BY WrittenStays, DeliveryVars, Zenon

LEMMA WriteStep ==
    ASSUME TypeOK, HInv, Remember, NEW i \in Instances, NEW k \in Keys, NEW v \in Values,
           SetOnboarding(i, k, v) \/ DiesAfterSave(i, k, v)
    PROVE  Delivery!Write(k, v)
<1>1. /\ saved' = [saved EXCEPT ![k] = v]
      /\ SendOnBoarding(i, saved') \/ UNCHANGED <<sends, transit>>
      /\ saved' \in Map
      /\ profile' = profile
  BY WithValueTyped, Zenon DEF SetOnboarding, DiesAfterSave, ProcessDies, SaveInfo, WithValue
<1>2. written' = [written EXCEPT ![k] = @ \cup {v}]
  BY <1>1, WrittenGrows
<1>3. (\E u \in UserIds : Delivery!SetOut(u, saved')) \/ UNCHANGED <<sends, transit>>
  BY <1>1, SendIsSetOut
<1> QED
  BY <1>1, <1>2, <1>3, Zenon DEF Delivery!Write

LEMMA RepeatStep ==
    ASSUME TypeOK, HInv, Remember, NEW i \in Instances, SendDataSaveInDefault(i)
    PROVE  \/ \E u \in UserIds, m \in Delivery!Genuine(written) : Delivery!Repeat(u, m)
           \/ UNCHANGED Delivery!vars
<1>1. /\ SendOnBoarding(i, valueData[i]) /\ valueData[i] \in Map
      /\ saved' = saved /\ profile' = profile
  BY DEF SendDataSaveInDefault, TypeOK
<1>2. written' = written
  BY <1>1, WrittenStays
<1>3. (\E u \in UserIds : Delivery!SetOut(u, valueData[i])) \/ UNCHANGED <<sends, transit>>
  BY <1>1, SendIsSetOut
<1>4. valueData[i] \in Delivery!Genuine(written)
  BY <1>1, Zenon DEF HInv, Genuine, Delivery!Genuine, Delivery!Map, Map
<1>5. CASE \E u \in UserIds : Delivery!SetOut(u, valueData[i])
  BY <1>1, <1>2, <1>4, <1>5, Zenon DEF Delivery!Repeat
<1>6. CASE UNCHANGED <<sends, transit>>
  BY <1>1, <1>2, <1>6, DeliveryVars, Zenon
<1> QED
  BY <1>3, <1>5, <1>6

LEMMA MergeStep ==
    ASSUME HInv, Remember, NEW r \in transit, ServiceAccepts(r)
    PROVE  Delivery!Merge(r)
<1>1. /\ transit' = transit \ {r}
      /\ profile' = [profile EXCEPT ![r.user] =
            [k \in Keys |-> IF r.data[k] = NoValue THEN @[k] ELSE r.data[k]]]
      /\ saved' = saved /\ sends' = sends
  BY Zenon DEF ServiceAccepts, suite
<1>2. written' = written
  BY <1>1, WrittenStays
<1> QED
  BY <1>1, <1>2, Zenon DEF Delivery!Merge

\* An answer to a request that was not merged, noticed or not by the device, is
\* a refusal.
LEMMA RefuseStep ==
    ASSUME HInv, Remember, NEW r \in flight,
           SendSucceeds(r) \/ DiesBetweenStatusAndDate(r)
    PROVE  (r \in transit /\ Delivery!Refuse(r)) \/ UNCHANGED Delivery!vars
<1>1. transit' = transit \ {r} /\ saved' = saved /\ sends' = sends /\ profile' = profile
  BY Zenon DEF SendSucceeds, DiesBetweenStatusAndDate, ProcessDies
<1>2. written' = written
  BY <1>1, WrittenStays
<1>3. CASE r \in transit
  BY <1>1, <1>2, <1>3, Zenon DEF Delivery!Refuse
<1>4. CASE r \notin transit
  <2>1. transit \ {r} = transit
    BY <1>4, Zenon
  <2> QED
    BY <1>1, <1>2, <2>1, DeliveryVars, Zenon
<1> QED
  BY <1>3, <1>4

\* Every behaviour of on-boarding, with the history variable hidden, is one of
\* the delivery.
THEOREM DeliveryImplemented == HSpec => ImplementsDelivery
<1>1. HInit => Delivery!Init
  BY Zenon DEF HInit, Init, Empty, Delivery!Init
<1>2. TypeOK /\ HInv /\ [HNext]_hvars => [Delivery!Next]_Delivery!vars
  <2> SUFFICES ASSUME TypeOK, HInv, [HNext]_hvars
               PROVE  Delivery!Next \/ UNCHANGED Delivery!vars
    BY Zenon
  <2>1. CASE UNCHANGED hvars
    BY <2>1, DeliveryVars, Zenon DEF hvars, vars, suite, network
  <2>2. CASE HNext
    <3>0. Next /\ Remember
      BY <2>2, Zenon DEF HNext
    <3>1. CASE UNCHANGED <<saved, transit, sends, profile>>
      BY <3>0, <3>1, StutterStep
    <3>2. ASSUME NEW i \in Instances, NEW k \in Keys, NEW v \in Values,
                 SetOnboarding(i, k, v) \/ DiesAfterSave(i, k, v)
          PROVE  Delivery!Next
      BY <3>0, <3>2, WriteStep, Zenon DEF Delivery!Next
    <3>3. ASSUME NEW i \in Instances, SendDataSaveInDefault(i)
          PROVE  Delivery!Next \/ UNCHANGED Delivery!vars
      BY <3>0, <3>3, RepeatStep, Zenon DEF Delivery!Next
    <3>4. ASSUME NEW r \in transit, ServiceAccepts(r) PROVE Delivery!Next
      BY <3>0, <3>4, MergeStep, Zenon DEF Delivery!Next
    <3>5. ASSUME NEW r \in flight, SendSucceeds(r) \/ DiesBetweenStatusAndDate(r)
          PROVE  Delivery!Next \/ UNCHANGED Delivery!vars
      BY <3>0, <3>5, RefuseStep, Zenon DEF Delivery!Next
    <3>6. \/ UNCHANGED <<saved, transit, sends, profile>>
          \/ \E i \in Instances, k \in Keys, v \in Values :
                SetOnboarding(i, k, v) \/ DiesAfterSave(i, k, v)
          \/ \E i \in Instances : SendDataSaveInDefault(i)
          \/ \E r \in transit : ServiceAccepts(r)
          \/ \E r \in flight : SendSucceeds(r) \/ DiesBetweenStatusAndDate(r)
      BY <3>0, NextSplits, Zenon
      DEF HostStep, SendStep, AnswerStep, DeathStep, DeviceStep, Construct, LearnId,
          SetOnboardingSuppressed, ResendLosesConnection, SendFails, Terminate, ProcessDies,
          ConnectivityChanges, Tick, ClockSetBack, Travel, suite, network
    <3> QED
      BY <3>1, <3>2, <3>3, <3>4, <3>5, <3>6, Zenon
  <2> QED
    BY <2>1, <2>2
<1> QED
  BY <1>1, <1>2, HInvHolds, PTL DEF HSpec, ImplementsDelivery, Delivery!Spec

===========================================================================
