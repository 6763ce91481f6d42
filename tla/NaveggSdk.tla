----------------------------- MODULE NaveggSdk -----------------------------
(***************************************************************************)
(* The SDK put together: identity, on-boarding and segments of one account *)
(* over one defaults suite, one service and one device.                    *)
(*                                                                         *)
(* Each of the three components is instantiated here and takes its own     *)
(* steps; what the other two know of such a step only as a step of their   *)
(* environment is now the real thing.  An object is alive from the start   *)
(* of its constructor, so live is no longer state but a function of the    *)
(* identity, and the ids it knows are the identity's; the profile of a     *)
(* user has a new version whenever the service accepts data in its name;   *)
(* the date getSegments compares its own with is the one sendOnBoarding    *)
(* wrote.                                                                  *)
(* The host builds and calls NaveggApi on the main queue.                  *)
(***************************************************************************)
EXTENDS UtilDates

CONSTANTS
    Instances, UserIds, NoId,       \* see UserIdentity
    Keys, Values, NoValue, NoDate,  \* see OnBoardingSync
    NoSegments, ErrorAnswer,        \* see Segments
    Offsets, ClockMayGoBack,
    MaxTime, MaxSends, MaxVersion, MaxOutstanding

ASSUME SdkAssumption ==
    /\ NoId \notin UserIds
    /\ NoValue \notin Values
    /\ NoDate \notin Nat
    /\ ErrorAnswer \notin [user : UserIds, version : 0..MaxVersion]
    /\ NoSegments \notin [user : UserIds, version : 0..MaxVersion] \cup {ErrorAnswer}
    /\ Offsets \subseteq Nat /\ Offsets # {}
    /\ ClockMayGoBack \in BOOLEAN
    /\ MaxTime \in Nat
    /\ MaxSends \in Nat
    /\ MaxVersion \in Nat
    /\ MaxOutstanding \in Nat \ {0}

VARIABLES
    phase, userId, running, pending, savedId, registered,
    valueData, saved, toSend, dateOnBoarding, sendFlight, transit, sends, profile,
    jsonSegments, savedSegments, dateLastSync, segFlight, version,
    online, now, offset,
    owed   \* history: owed[w] is the version that segments of user w must
           \* have to be newer than w's latest on-boarding sync; 0 if there
           \* was none that counts

identity   == <<phase, userId, running, pending, savedId, registered>>
onboarding == <<valueData, saved, toSend, dateOnBoarding, sendFlight, transit, sends,
                profile>>
segments   == <<jsonSegments, savedSegments, dateLastSync, segFlight, version>>
device     == <<online, now, offset>>
vars       == <<identity, onboarding, segments, device, owed>>

live    == {i \in Instances : phase[i] # "absent"}

ID == INSTANCE UserIdentity WITH OnMain <- Instances
OB == INSTANCE OnBoardingSync WITH dateLastSync <- dateOnBoarding, flight <- sendFlight
SG == INSTANCE Segments WITH flight <- segFlight

Init ==
    /\ ID!Init
    /\ valueData = [i \in Instances |-> OB!Empty]
    /\ saved = OB!Empty
    /\ toSend = FALSE
    /\ dateOnBoarding = NoDate
    /\ sendFlight = {}
    /\ transit = {}
    /\ sends = 0
    /\ profile = [w \in UserIds |-> OB!Empty]
    /\ jsonSegments = [i \in Instances |-> NoSegments]
    /\ savedSegments = NoSegments
    /\ dateLastSync = NoDate
    /\ segFlight = [i \in Instances |-> SG!NoRequests]
    /\ version = [w \in UserIds |-> 0]
    /\ now = 0
    /\ offset \in Offsets
    /\ owed = [w \in UserIds |-> 0]

---------------------------------------------------------------------------
(***************************************************************************)
(* Identity.                                                               *)
(***************************************************************************)

\* User.init: the id, the on-boarding map, the segments.
ConstructUser(i) ==
    /\ ID!ConstructUser(i)
    /\ valueData' = [valueData EXCEPT ![i] = saved]
    /\ jsonSegments' = [jsonSegments EXCEPT ![i] = savedSegments]
    /\ UNCHANGED <<saved, toSend, dateOnBoarding, sendFlight, transit, sends, profile,
                   savedSegments, dateLastSync, segFlight, version, now, offset, owed>>

FinishConstruction(i) ==
    /\ ID!CheckUserId(i) \/ ID!CreateUserAgain(i)
    /\ UNCHANGED <<onboarding, segments, now, offset, owed>>

\* The answer with an id, and the getSegments call that follows it.
CreateUserSucceeds(i, u) ==
    /\ ID!CreateUserSucceeds(i, u)
    /\ SG!RequestSegments(i, u)
    /\ UNCHANGED <<onboarding, jsonSegments, savedSegments, dateLastSync, version,
                   now, offset, owed>>

CreateUserFails(i) ==
    /\ ID!CreateUserFails(i)
    /\ UNCHANGED <<onboarding, segments, now, offset, owed>>

---------------------------------------------------------------------------
(***************************************************************************)
(* On-boarding.  Handlers run when no constructor holds the main queue;    *)
(* the service and the device do not wait for it.                          *)
(***************************************************************************)
HostMayCall(i) == ID!MainFree /\ phase[i] = "ready"

SetOnboarding(i, k, v) ==
    /\ HostMayCall(i)
    /\ UNCHANGED <<identity, segments, owed>>
    /\ OB!SetOnboarding(i, k, v) \/ OB!SetOnboardingSuppressed(i, k, v)

SendDataSaveInDefault(i) ==
    /\ HostMayCall(i)
    /\ UNCHANGED <<identity, segments, owed>>
    /\ OB!SendDataSaveInDefault(i) \/ OB!ResendLosesConnection(i)

\* New data is a new version of the sender's profile.
ServiceAccepts(r) ==
    /\ version[r.user] < MaxVersion
    /\ UNCHANGED <<identity, jsonSegments, savedSegments, dateLastSync, segFlight, owed>>
    /\ OB!ServiceAccepts(r)
    /\ version' = [version EXCEPT ![r.user] = @ + 1]

\* A sync of user w counts when no request for w's segments is under way that
\* was issued before the service had what the sync has brought, and when the
\* text of its date is later than the one of the last segments.
SyncCounts(w) ==
    /\ \A i \in Instances, u \in SG!Versions :
          userId[i] = w /\ u < version[w] => segFlight[i][u] = 0
    /\ dateLastSync # NoDate =>
          StringToDate(dateLastSync) < StringToDate(DateToString(now))

SendSucceeds(r) ==
    /\ ID!MainFree
    /\ UNCHANGED <<identity, segments>>
    /\ OB!SendSucceeds(r)
    /\ owed' = IF SyncCounts(r.user)
               THEN [owed EXCEPT ![r.user] = version[r.user]]
               ELSE owed

SendFails(r) ==
    /\ ID!MainFree
    /\ UNCHANGED <<identity, segments, owed>>
    /\ OB!SendFails(r)

---------------------------------------------------------------------------
(***************************************************************************)
(* Segments.                                                               *)
(***************************************************************************)
GetSegments(i) ==
    /\ HostMayCall(i)
    /\ UNCHANGED <<identity, onboarding, owed>>
    /\ SG!GetSegments(i)

SegmentsArrive(i, u, d) ==
    /\ ID!MainFree
    /\ UNCHANGED <<identity, onboarding, owed>>
    /\ SG!SegmentsArrive(i, u, d)

SegmentsFail(i, u) ==
    /\ ID!MainFree
    /\ UNCHANGED <<identity, onboarding, owed>>
    /\ SG!SegmentsFail(i, u)

---------------------------------------------------------------------------
(***************************************************************************)
(* Process death takes the memory of all components at once, and the       *)
(* requests under way; what the suite has been told stays.                 *)
(***************************************************************************)
MemoryLost ==
    /\ ID!ProcessDies
    /\ valueData' = [i \in Instances |-> OB!Empty]
    /\ sendFlight' = {}
    /\ jsonSegments' = [i \in Instances |-> NoSegments]
    /\ segFlight' = [i \in Instances |-> SG!NoRequests]
    /\ UNCHANGED <<sends, profile, version, now, offset, owed>>

\* Between handlers, at the user's or the system's will or by a trap in the
\* answer of createUser or getSegments.
Terminate ==
    /\ live # {}
    /\ MemoryLost
    /\ UNCHANGED <<saved, toSend, dateOnBoarding, transit, savedSegments, dateLastSync>>

\* Between the writes of addInfo and the request, of sendOnBoarding's
\* completion, of saveSegments.
DiesInSetOnboarding(i, k, v) ==
    /\ HostMayCall(i)
    /\ MemoryLost
    /\ UNCHANGED <<savedSegments, dateLastSync>>
    /\ OB!DiesAfterSave(i, k, v)

DiesInSendSucceeds(r) ==
    /\ ID!MainFree
    /\ MemoryLost
    /\ UNCHANGED <<savedSegments, dateLastSync>>
    /\ OB!DiesBetweenStatusAndDate(r)

DiesInSegmentsArrive(i, u, d) ==
    /\ ID!MainFree
    /\ MemoryLost
    /\ UNCHANGED <<saved, toSend, dateOnBoarding, transit>>
    /\ SG!DiesBetweenDictionaryAndDate(i, u, d)

---------------------------------------------------------------------------
\* The device.
ConnectivityChanges ==
    /\ ID!ConnectivityChanges
    /\ UNCHANGED <<onboarding, segments, now, offset, owed>>

ClockAndZone ==
    /\ UNCHANGED <<identity, onboarding, segments, owed>>
    /\ OB!Tick \/ OB!ClockSetBack \/ OB!Travel

---------------------------------------------------------------------------
Next ==
    \/ \E i \in Instances :
          \/ ConstructUser(i)
          \/ FinishConstruction(i)
          \/ \E u \in UserIds : CreateUserSucceeds(i, u)
          \/ CreateUserFails(i)
          \/ SendDataSaveInDefault(i)
          \/ GetSegments(i)
          \/ \E k \in Keys, v \in Values :
                SetOnboarding(i, k, v) \/ DiesInSetOnboarding(i, k, v)
          \/ \E u \in SG!Versions :
                \/ SegmentsFail(i, u)
                \/ \E d \in SG!Dictionary :
                      SegmentsArrive(i, u, d) \/ DiesInSegmentsArrive(i, u, d)
    \/ \E r \in transit : ServiceAccepts(r)
    \/ \E r \in sendFlight :
          \/ SendSucceeds(r)
          \/ SendFails(r)
          \/ DiesInSendSucceeds(r)
    \/ Terminate
    \/ ConnectivityChanges
    \/ ClockAndZone

Spec == Init /\ [][Next]_vars

\* Constructors run to their end, the host keeps asking for segments,
\* connectivity returns as often as it goes, and the service does not fail
\* for ever to answer with a dictionary.
Fairness ==
    /\ \A i \in Instances :
          /\ WF_vars(FinishConstruction(i))
          /\ SF_vars(GetSegments(i) /\ online)
          /\ SF_vars(\E u \in SG!Versions, d \in SG!Dictionary : SegmentsArrive(i, u, d))
    /\ WF_vars(~online /\ ConnectivityChanges)

FairSpec == Spec /\ Fairness

---------------------------------------------------------------------------
(***************************************************************************)
(* Properties                                                              *)
(***************************************************************************)

\* Each component behaves here as its own module says, with what it takes
\* for granted of the others: an object learns an id once and while it lives,
\* only what was sent for a known user is recorded, a death takes every
\* component with it.
ImplementsOnBoarding == OB!Spec

ImplementsSegments == SG!Spec

\* Segments of user w are behind the sync they should follow.  A dictionary of
\* another user of the account, or an error's, is not called behind: it has
\* replaced w's, and its date is the one getSegments looks at.
Behind(w) ==
    /\ owed[w] # 0
    /\ \/ savedSegments = NoSegments
       \/ \E v \in SG!Versions :
             v < owed[w] /\ savedSegments = [user |-> w, version |-> v]

\* After an on-boarding sync that counts getSegments has a reason to ask,
\* through failed requests, deaths and further syncs of any user, until a
\* dictionary is saved that is not behind, as long as the clock goes forward.
\* (A sync does not count in the same second, where User.swift:85 sees no
\* difference, nor beside an older request, which may bring older segments
\* under a newer date.  An error's dictionary ends the asking for good.)
OwedSegmentsAreDue ==
    \A w \in UserIds : Behind(w) => SG!Due \/ ClockMayGoBack

\* Such a sync is followed by a dictionary that is not behind, if an object
\* that knows the id lives on and its host keeps asking: by segments of the
\* version owed or a newer one, unless an error or a rival comes first.
OwedSegmentsArrive ==
    \A i \in Instances, w \in UserIds, v \in SG!Versions \ {0} :
        i \in live /\ userId[i] = w /\ owed[w] = v ~>
            \/ \E n \in v..MaxVersion : savedSegments = [user |-> w, version |-> n]
            \/ savedSegments \in SG!Dictionary /\ savedSegments \notin [user : {w}, version : SG!Versions]
            \/ i \notin live

===========================================================================
