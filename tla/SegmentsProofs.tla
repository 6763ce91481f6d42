-------------------------- MODULE SegmentsProofs --------------------------
(***************************************************************************)
(* Proofs about Segments, for any number of objects, ids, requests and     *)
(* profile versions, any clock and any zones.                              *)
(***************************************************************************)
EXTENDS Segments, UtilDatesProofs

\* TypeOK in three parts: what is stored, what is under way, the device.
StoreOK ==
    /\ live \subseteq Instances
    /\ jsonSegments \in [Instances -> Dictionary \cup {NoSegments}]
    /\ savedSegments \in Dictionary \cup {NoSegments}
    /\ dateLastSync \in Nat \cup {NoDate}
    /\ dateOnBoarding \in Nat \cup {NoDate}
    /\ version \in [UserIds -> Versions]

FlightOK == flight \in [Instances -> [Versions -> 0..MaxOutstanding]]

DeviceOK ==
    /\ userId \in [Instances -> UserIds \cup {NoId}]
    /\ savedId \in UserIds \cup {NoId}
    /\ online \in BOOLEAN
    /\ now \in 0..MaxTime
    /\ offset \in Offsets

LEMMA TypeParts == TypeOK <=> StoreOK /\ FlightOK /\ DeviceOK
  BY Zenon DEF TypeOK, StoreOK, FlightOK, DeviceOK

---------------------------------------------------------------------------
LEMMA NoRequestsTyped == NoRequests \in [Versions -> 0..MaxOutstanding]
  BY SegmentsAssumption DEF NoRequests

LEMMA RequestTyped ==
    ASSUME FlightOK, StoreOK, NEW i \in Instances, NEW w \in UserIds, RequestSegments(i, w)
    PROVE  FlightOK'
<1> version[w] \in Versions
  BY DEF StoreOK
<1>1. CASE UNCHANGED flight
  BY <1>1 DEF FlightOK
<1>2. CASE /\ flight[i][version[w]] < MaxOutstanding
           /\ flight' = [flight EXCEPT ![i][version[w]] = @ + 1]
  BY <1>2, SegmentsAssumption DEF FlightOK
<1> QED
  BY <1>1, <1>2, Zenon DEF RequestSegments

LEMMA AnsweredTyped ==
    ASSUME FlightOK, NEW i \in Instances, NEW u \in Versions, Answered(i, u)
    PROVE  FlightOK'
  BY SegmentsAssumption DEF FlightOK, Answered

LEMMA NowTyped == DeviceOK => now \in Nat /\ offset \in Nat
<1>1. now \in 0..MaxTime /\ offset \in Offsets => now \in Nat /\ offset \in Nat
  BY SegmentsAssumption
<1> QED
  BY <1>1, Zenon DEF DeviceOK

\* Only live objects that know an id wait for answers.
Asking == \A i \in Instances, u \in Versions : flight[i][u] > 0 => i \in knowsId

LEMMA AskingStep ==
    ASSUME StoreOK, FlightOK, DeviceOK, Asking, [Next]_vars PROVE Asking'
<1>1. ASSUME NEW i \in Instances, NEW w, version[w] \in Versions, RequestSegments(i, w),
             knowsId \subseteq knowsId', i \in knowsId'
      PROVE  Asking'
  <2>1. CASE UNCHANGED flight
    BY <1>1, <2>1 DEF Asking
  <2>2. CASE flight' = [flight EXCEPT ![i][version[w]] = @ + 1]
    BY <1>1, <2>2 DEF Asking, FlightOK
  <2> QED
    BY <1>1, <2>1, <2>2, Zenon DEF RequestSegments
<1>2. ASSUME NEW i \in Instances, NEW u \in Versions, Answered(i, u), UNCHANGED knowsId
      PROVE  Asking'
  BY <1>2 DEF Answered, Asking, FlightOK
<1>3. CASE ProcessDies
  BY <1>3 DEF ProcessDies, NoRequests, Asking
<1>4. ASSUME UNCHANGED flight, knowsId \subseteq knowsId' PROVE Asking'
  BY <1>4 DEF Asking
<1>5. ASSUME NEW i \in Instances, Construct(i) PROVE Asking'
  <2>1. knowsId \subseteq knowsId'
    BY <1>5, Zenon DEF Construct, knowsId, StoreOK, DeviceOK
  <2> QED
    BY <1>4, <1>5, <2>1 DEF Construct
<1>6. ASSUME NEW i \in Instances, NEW w \in UserIds, LearnId(i, w) PROVE Asking'
  <2>1. knowsId \subseteq knowsId' /\ i \in knowsId'
    BY <1>6, SegmentsAssumption DEF LearnId, knowsId, DeviceOK
  <2>2. version[w] \in Versions
    BY DEF StoreOK
  <2> QED
    BY <1>1, <1>6, <2>1, <2>2 DEF LearnId
<1>7. ASSUME NEW i \in Instances, GetSegments(i) PROVE Asking'
  <2>1. UNCHANGED knowsId /\ i \in knowsId /\ RequestSegments(i, userId[i])
    BY <1>7, Zenon DEF GetSegments, ids, knowsId
  <2>2. version[userId[i]] \in Versions
    BY <2>1 DEF knowsId, StoreOK, DeviceOK
  <2> QED
    BY <1>1, <2>1, <2>2
<1>8. ASSUME NEW i \in Instances, NEW u \in Versions,
             SegmentsFail(i, u) \/ \E d \in Dictionary : SegmentsArrive(i, u, d)
      PROVE  Asking'
  <2>1. UNCHANGED knowsId /\ Answered(i, u)
    BY <1>8, Zenon DEF SegmentsFail, SegmentsArrive, ids, knowsId
  <2> QED
    BY <1>2, <2>1
<1>9. CASE OnBoardingSynced \/ (\E w \in UserIds : ProfileChanges(w)) \/ ConnectivityChanges
           \/ ClockMoves \/ Travel \/ UNCHANGED vars
  <2>1. UNCHANGED <<flight, knowsId>>
    BY <1>9, Zenon DEF OnBoardingSynced, ProfileChanges, ConnectivityChanges, ClockMoves, Travel,
                       vars, ids, knowsId
  <2> QED
    BY <1>4, <2>1
<1> QED
  BY <1>3, <1>5, <1>6, <1>7, <1>8, <1>9, Zenon
     DEF Next, SegmentsTrap, DiesBetweenDictionaryAndDate, Terminate

\* The suite, the objects, the requests and the device keep their types.
THEOREM TypeCorrect == Spec => []TypeOK
<1>1. Init => TypeOK
  <2> SUFFICES ASSUME Init PROVE TypeOK
    OBVIOUS
  <2>1. version \in [UserIds -> Versions] /\ now \in 0..MaxTime
    BY SegmentsAssumption DEF Init, Versions
  <2>2. flight \in [Instances -> [Versions -> 0..MaxOutstanding]]
    BY NoRequestsTyped DEF Init
  <2> QED
    BY <2>1, <2>2 DEF Init, TypeOK
<1>2. TypeOK /\ [Next]_vars => TypeOK'
  <2> SUFFICES ASSUME StoreOK, FlightOK, DeviceOK, [Next]_vars
               PROVE  StoreOK' /\ FlightOK' /\ DeviceOK'
    BY TypeParts, Zenon DEF TypeOK, StoreOK, FlightOK, DeviceOK
  <2>1. ASSUME NEW i \in Instances, Construct(i) PROVE StoreOK' /\ FlightOK' /\ DeviceOK'
    <3>1. StoreOK'
      BY <2>1 DEF Construct, StoreOK
    <3>2. DeviceOK'
      BY <2>1 DEF Construct, DeviceOK
    <3> QED
      BY <2>1, <3>1, <3>2, Zenon DEF Construct, FlightOK
  <2>2. ASSUME NEW i \in Instances, NEW w \in UserIds, LearnId(i, w) PROVE StoreOK' /\ FlightOK' /\ DeviceOK'
    <3>1. StoreOK'
      BY <2>2 DEF LearnId, StoreOK
    <3>2. FlightOK'
      BY <2>2, RequestTyped DEF LearnId
    <3>3. DeviceOK'
      BY <2>2 DEF LearnId, DeviceOK
    <3> QED
      BY <3>1, <3>2, <3>3
  <2>3. ASSUME NEW i \in Instances, GetSegments(i) PROVE StoreOK' /\ FlightOK' /\ DeviceOK'
    <3>1. userId[i] \in UserIds
      BY <2>3 DEF GetSegments, knowsId, DeviceOK
    <3>2. FlightOK'
      BY <2>3, <3>1, RequestTyped DEF GetSegments
    <3> QED
      BY <2>3, <3>2, Zenon DEF GetSegments, ids, StoreOK, DeviceOK
  <2>4. ASSUME NEW i \in Instances, NEW u \in Versions, NEW d \in Dictionary,
               SegmentsArrive(i, u, d)
        PROVE  StoreOK' /\ FlightOK' /\ DeviceOK'
    <3>1. DateToString(now) \in Nat
      BY NowTyped, TextNotLater
    <3>2. StoreOK'
      BY <2>4, <3>1 DEF SegmentsArrive, SaveSegments, StoreOK
    <3>3. FlightOK'
      BY <2>4, AnsweredTyped DEF SegmentsArrive
    <3> QED
      BY <2>4, <3>2, <3>3, Zenon DEF SegmentsArrive, ids, DeviceOK
  <2>5. ASSUME NEW i \in Instances, NEW u \in Versions, SegmentsFail(i, u)
        PROVE  StoreOK' /\ FlightOK' /\ DeviceOK'
    <3>1. FlightOK'
      BY <2>5, AnsweredTyped DEF SegmentsFail
    <3> QED
      BY <2>5, <3>1, Zenon DEF SegmentsFail, ids, StoreOK, DeviceOK
  <2>6. ASSUME ProcessDies,
               savedSegments' \in Dictionary \cup {NoSegments}, UNCHANGED dateLastSync
        PROVE  StoreOK' /\ FlightOK' /\ DeviceOK'
    <3>1. StoreOK'
      BY <2>6 DEF ProcessDies, StoreOK
    <3>2. FlightOK'
      BY <2>6, NoRequestsTyped DEF ProcessDies, FlightOK
    <3>3. DeviceOK'
      BY <2>6 DEF ProcessDies, DeviceOK
    <3> QED
      BY <3>1, <3>2, <3>3
  <2>7. CASE OnBoardingSynced
    <3>1. DateToString(now) \in Nat
      BY NowTyped, TextNotLater
    <3>2. StoreOK'
      BY <2>7, <3>1 DEF OnBoardingSynced, StoreOK
    <3> QED
      BY <2>7, <3>2, Zenon DEF OnBoardingSynced, ids, FlightOK, DeviceOK
  <2>8. CASE ClockMoves
    <3>1. now' \in 0..MaxTime
      <4>1. (now' = now + 1 /\ now < MaxTime) \/ now' \in 0..(now - 1)
        BY <2>8, Zenon DEF ClockMoves
      <4>2. now \in 0..MaxTime
        BY Zenon DEF DeviceOK
      <4> QED
        BY <4>1, <4>2, SegmentsAssumption
    <3> QED
      BY <2>8, <3>1, Zenon DEF ClockMoves, ids, StoreOK, FlightOK, DeviceOK
  <2>9. CASE ConnectivityChanges \/ Travel
    <3>1. online' \in BOOLEAN /\ offset' \in Offsets
      BY <2>9 DEF ConnectivityChanges, Travel, DeviceOK
    <3> QED
      BY <2>9, <3>1, Zenon DEF ConnectivityChanges, Travel, ids, StoreOK, FlightOK, DeviceOK
  <2>10. CASE UNCHANGED vars
    BY <2>10, Zenon DEF vars, ids, StoreOK, FlightOK, DeviceOK
  <2>11. ASSUME NEW i \in Instances, NEW u \in Versions,
                \/ SegmentsTrap(i, u)
                \/ \E d \in Dictionary : DiesBetweenDictionaryAndDate(i, u, d)
         PROVE  StoreOK' /\ FlightOK' /\ DeviceOK'
    <3>1. ProcessDies /\ savedSegments' \in Dictionary \cup {NoSegments} /\ UNCHANGED dateLastSync
      BY <2>11 DEF SegmentsTrap, DiesBetweenDictionaryAndDate, StoreOK
    <3> QED
      BY <2>6, <3>1
  <2>12. CASE Terminate
    BY <2>6, <2>12 DEF Terminate, StoreOK
  <2>13. ASSUME NEW w \in UserIds, ProfileChanges(w) PROVE StoreOK' /\ FlightOK' /\ DeviceOK'
    <3>1. version' \in [UserIds -> Versions]
      BY <2>13, SegmentsAssumption DEF ProfileChanges, StoreOK, Versions
    <3> QED
      BY <2>13, <3>1, Zenon DEF ProfileChanges, ids, StoreOK, FlightOK, DeviceOK
  <2> QED
    BY <2>1, <2>2, <2>3, <2>4, <2>5, <2>7, <2>8, <2>9, <2>10, <2>11, <2>12, <2>13,
       Zenon DEF Next
<1> QED
  BY <1>1, <1>2, PTL DEF Spec

---------------------------------------------------------------------------
\* The steps that leave what the suite and the objects hold of segments.
Quiet == UNCHANGED <<live, jsonSegments, savedSegments, dateLastSync>>

LEMMA StepCases ==
    [Next]_vars =>
        \/ Quiet
        \/ \E i \in Instances : Construct(i)
        \/ \E i \in Instances, u \in Versions, d \in Dictionary :
              SegmentsArrive(i, u, d) \/ DiesBetweenDictionaryAndDate(i, u, d)
        \/ ProcessDies /\ UNCHANGED <<savedSegments, dateLastSync>>
  BY DEF Next, vars, Quiet, LearnId, GetSegments, SegmentsFail, SegmentsTrap, Terminate,
         OnBoardingSynced, ProfileChanges, ConnectivityChanges, ClockMoves, Travel

LEMMA DictionaryIsSomething == \A d \in Dictionary : d # NoSegments
  BY SegmentsAssumption

\* A date in the suite dates a dictionary in the suite.
THEOREM DatedSegmentsAreSavedHolds == Spec => []DatedSegmentsAreSaved
<1>1. Init => DatedSegmentsAreSaved
  BY DEF Init, DatedSegmentsAreSaved
<1>2. DatedSegmentsAreSaved /\ [Next]_vars => DatedSegmentsAreSaved'
  BY StepCases, DictionaryIsSomething
     DEF DatedSegmentsAreSaved, Quiet, Construct, SegmentsArrive, SaveSegments,
         DiesBetweenDictionaryAndDate
<1> QED
  BY <1>1, <1>2, PTL DEF Spec

---------------------------------------------------------------------------
\* Only an object that knows its id waits for segments.
THEOREM AskersKnown == Spec => []Asking
<1>1. Init => Asking
  BY DEF Init, NoRequests, Asking
<1>2. TypeOK /\ Asking /\ [Next]_vars => Asking'
  BY AskingStep, TypeParts
<1> QED
  BY <1>1, <1>2, TypeCorrect, PTL DEF Spec

\* An object is behind the suite only beside a live object that is not.
THEOREM SavedSegmentsHaveAnOwnerHolds == Spec => []SavedSegmentsHaveAnOwner
<1>1. Init => SavedSegmentsHaveAnOwner
  BY DEF Init, SavedSegmentsHaveAnOwner
<1>2. TypeOK /\ Asking /\ SavedSegmentsHaveAnOwner /\ [Next]_vars
        => SavedSegmentsHaveAnOwner'
  <2> SUFFICES ASSUME StoreOK, Asking, SavedSegmentsHaveAnOwner, [Next]_vars
               PROVE  SavedSegmentsHaveAnOwner'
    BY TypeParts
  <2>1. CASE Quiet
    BY <2>1 DEF Quiet, SavedSegmentsHaveAnOwner
  <2>2. ASSUME NEW i \in Instances, Construct(i) PROVE SavedSegmentsHaveAnOwner'
    BY <2>2 DEF Construct, StoreOK, SavedSegmentsHaveAnOwner
  <2>3. ASSUME NEW i \in Instances, NEW u \in Versions, NEW d \in Dictionary,
               SegmentsArrive(i, u, d)
        PROVE  SavedSegmentsHaveAnOwner'
    <3>1. i \in live
      BY <2>3 DEF SegmentsArrive, Answered, Asking, knowsId
    <3> QED
      BY <2>3, <3>1, DictionaryIsSomething
         DEF SegmentsArrive, SaveSegments, StoreOK, SavedSegmentsHaveAnOwner
  <2>4. CASE ProcessDies
    BY <2>4 DEF ProcessDies, SavedSegmentsHaveAnOwner
  <2> QED
    BY <2>1, <2>2, <2>3, <2>4, StepCases DEF DiesBetweenDictionaryAndDate
<1> QED
  BY <1>1, <1>2, AskersKnown, TypeCorrect, PTL DEF Spec

\* Only a rival keeps an object without segments from asking.  No date means
\* that it may ask; a date means saved segments, and these have an owner.
THEOREM SilencedOnlyByRivalHolds == Spec => []SilencedOnlyByRival
<1>1. DatedSegmentsAreSaved /\ SavedSegmentsHaveAnOwner => SilencedOnlyByRival
  <2> SUFFICES ASSUME DatedSegmentsAreSaved, SavedSegmentsHaveAnOwner,
                      NEW i \in live, jsonSegments[i] = NoSegments, ~Due
               PROVE  \E j \in live \ {i} : jsonSegments[j] # NoSegments
    BY DEF SilencedOnlyByRival
  <2>1. savedSegments # NoSegments
    BY DEF Due, DatedSegmentsAreSaved
  <2>2. PICK j \in live : jsonSegments[j] = savedSegments
    BY <2>1 DEF SavedSegmentsHaveAnOwner
  <2> QED
    BY <2>1, <2>2
<1> QED
  BY <1>1, DatedSegmentsAreSavedHolds, SavedSegmentsHaveAnOwnerHolds, PTL

---------------------------------------------------------------------------
\* A clock that only goes forward is never behind the date of the last sync.
SyncIsPast ==
    ~ClockMayGoBack /\ dateLastSync # NoDate => StringToDate(dateLastSync) <= now

LEMMA SyncIsPastStep == TypeOK /\ SyncIsPast /\ [Next]_vars => SyncIsPast'
<1> SUFFICES ASSUME TypeOK, SyncIsPast, [Next]_vars, ~ClockMayGoBack PROVE SyncIsPast'
  BY Zenon DEF SyncIsPast
<1>1. now \in Nat /\ now' \in Nat /\ now <= now'
  <2>1. now \in Nat
    BY TypeParts, NowTyped
  <2>2. now' = now \/ now' = now + 1
    BY DEF Next, vars, Construct, LearnId, GetSegments, SegmentsArrive, SegmentsFail,
           SegmentsTrap, DiesBetweenDictionaryAndDate, Terminate, ProcessDies,
           OnBoardingSynced, ProfileChanges, ConnectivityChanges, ClockMoves, Travel
  <2> QED
    BY <2>1, <2>2
<1>2. CASE UNCHANGED dateLastSync
  <2>1. dateLastSync # NoDate => StringToDate(dateLastSync) \in Int
    BY DatesAssumption DEF TypeOK, StringToDate
  <2>2. dateLastSync # NoDate => StringToDate(dateLastSync) <= now
    BY Zenon DEF SyncIsPast
  <2>3. dateLastSync # NoDate => StringToDate(dateLastSync) <= now'
    BY <1>1, <2>1, <2>2
  <2> QED
    BY <1>2, <2>3, Zenon DEF SyncIsPast, StringToDate
<1>3. CASE dateLastSync' = DateToString(now) /\ now' = now
  <2>1. StringToDate(DateToString(now)) <= now
    BY <1>1, TextNotLater
  <2> QED
    BY <1>3, <2>1, Zenon DEF SyncIsPast, StringToDate
<1> QED
  BY <1>2, <1>3, StepCases
     DEF Quiet, Construct, SegmentsArrive, SaveSegments, DiesBetweenDictionaryAndDate

\* Whatever the zones, the daily refresh is due only after the clock went back.
THEOREM DailyRefreshNeedsClockBackHolds == Spec => []DailyRefreshNeedsClockBack
<1>1. Init => SyncIsPast
  BY DEF Init, SyncIsPast
<1>2. TypeOK /\ SyncIsPast => DailyRefreshNeedsClockBack
  <2> SUFFICES ASSUME TypeOK, SyncIsPast, DailyRefreshDue, ~ClockMayGoBack PROVE FALSE
    BY Zenon DEF DailyRefreshNeedsClockBack
  <2>1. now \in Nat /\ offset \in Nat
    BY TypeParts, NowTyped
  <2>2. StringToDate(dateLastSync) <= now
    BY Zenon DEF SyncIsPast, DailyRefreshDue
  <2>3. StringToDate(dateLastSync) \in Nat
    BY DatesAssumption DEF TypeOK, DailyRefreshDue, StringToDate
  <2>4. dayBetweenDates(now, StringToDate(dateLastSync), offset) <= 0
    BY <2>1, <2>2, <2>3, DaysMonotone
  <2>5. LocalDay(now, offset) \in Int /\ LocalDay(StringToDate(dateLastSync), offset) \in Int
    BY <2>1, <2>3, TicksPerDayPositive, DivMod DEF LocalDay
  <2> QED
    BY <2>4, <2>5 DEF DailyRefreshDue, dayBetweenDates
<1> QED
  BY <1>1, <1>2, SyncIsPastStep, TypeCorrect, PTL DEF Spec

\* What the exchanged dates of User.swift:78 amount to: the daily refresh is
\* due only while the clock is behind the date of the last sync, and it is due
\* whenever the clock is a day behind.  Time that passes never makes it due.
THEOREM DailyRefreshMeansBehind ==
    Spec => [](dateLastSync # NoDate =>
                 /\ DailyRefreshDue => now < StringToDate(dateLastSync)
                 /\ now + TicksPerDay <= StringToDate(dateLastSync) => DailyRefreshDue)
<1>1. TypeOK => (dateLastSync # NoDate =>
                   /\ DailyRefreshDue => now < StringToDate(dateLastSync)
                   /\ now + TicksPerDay <= StringToDate(dateLastSync) => DailyRefreshDue)
  <2> SUFFICES ASSUME TypeOK, dateLastSync # NoDate
               PROVE  /\ DailyRefreshDue => now < StringToDate(dateLastSync)
                      /\ now + TicksPerDay <= StringToDate(dateLastSync) => DailyRefreshDue
    OBVIOUS
  <2> DEFINE sync == StringToDate(dateLastSync)
             n == dayBetweenDates(now, sync, offset)
  <2>1. now \in Nat /\ offset \in Nat
    BY TypeParts, NowTyped
  <2>2. sync \in Nat
    BY DatesAssumption DEF TypeOK, StringToDate
  <2>3. DailyRefreshDue <=> n >= 1
    BY DEF DailyRefreshDue
  <2>4. n \in Int /\ sync - now < TicksPerDay * n + TicksPerDay
    BY <2>1, <2>2, DaysMeasureTime
  <2>5. sync <= now => n <= 0
    BY <2>1, <2>2, DaysMonotone
  <2> HIDE DEF sync, n
  <2>6. ASSUME now + TicksPerDay <= sync, n <= 0 PROVE FALSE
    <3>1. TicksPerDay * n <= 0
      BY <2>4, <2>6, TicksPerDayPositive
    <3> QED
      BY <2>1, <2>2, <2>4, <2>6, <3>1, TicksPerDayPositive
  <2>7. /\ DailyRefreshDue => now < sync
        /\ now + TicksPerDay <= sync => DailyRefreshDue
    BY <2>1, <2>2, <2>3, <2>4, <2>5, <2>6, TicksPerDayPositive
  <2> QED
    BY <2>7 DEF sync
<1> QED
  BY <1>1, TypeCorrect, PTL

===========================================================================
