----------------------------- MODULE Segments -----------------------------
(***************************************************************************)
(* How an object of one account keeps the user's segments.                 *)
(*                                                                         *)
(* User.init loads the dictionary saved in the defaults suite;             *)
(* User.getSegments asks the service for a new one when the saved date     *)
(* calls for it, and answers the host from memory; WebService.createUser   *)
(* asks once when the user id arrives.  User.saveSegments, run by the      *)
(* completion, writes memory, the dictionary and the date.  The suite is   *)
(* shared by all objects of the account, memory is not.                    *)
(*                                                                         *)
(* A request names the user id of the object that makes it, and the        *)
(* service keeps a profile for every id: segments are represented by the   *)
(* id and by the version of its profile they were computed from.  There is *)
(* no validate(): the dictionary of texts an error status may bring, {}    *)
(* for one, is saved and dated as segments are; ErrorAnswer stands for it. *)
(* distintcCustomSegment only adds the entry "custom" with the text        *)
(* getSegments answers for a missing one, since customListPermanent never  *)
(* gets an element; it is left out.                                        *)
(***************************************************************************)
EXTENDS UtilDates

CONSTANTS
    Instances,       \* NaveggApi objects the host may build for the account
    UserIds, NoId,   \* ids the service may give, and the id "0" of none
    NoSegments,      \* no dictionary
    ErrorAnswer,     \* a dictionary that holds no segments
    NoDate,          \* the date is not in the suite
    Offsets,         \* offsets from GMT of the zones the device visits
    ClockMayGoBack,  \* TRUE iff the device clock may be set back
    MaxTime,         \* bound: the last instant
    MaxVersion,      \* bound: changes of a user's profile
    MaxOutstanding   \* bound: like requests of one object in flight together

Versions == 0..MaxVersion

UserSegments == [user : UserIds, version : Versions]

Dictionary == UserSegments \cup {ErrorAnswer}

ASSUME SegmentsAssumption ==
    /\ NoId \notin UserIds
    /\ ErrorAnswer \notin UserSegments
    /\ NoSegments \notin Dictionary
    /\ NoDate \notin Nat
    /\ Offsets \subseteq Nat /\ Offsets # {}
    /\ ClockMayGoBack \in BOOLEAN
    /\ MaxTime \in Nat /\ MaxVersion \in Nat
    /\ MaxOutstanding \in Nat \ {0}

VARIABLES
    live,            \* objects built in this process
    userId,          \* userId[i]: what getUserId of i answers
    savedId,         \* the user id in the suite
    jsonSegments,    \* jsonSegments[i]: User.jsonSegments of i
    savedSegments,   \* "jsonSegments" in the suite
    dateLastSync,    \* "dateLastSync" in the suite, a date text
    dateOnBoarding,  \* "dateLastSyncOnBoarding" in the suite, a date text
    flight,          \* flight[i][v]: unanswered requests that i issued at version
                     \* v of its user's profile
    version,         \* version[u]: of the profile the service holds of user u
    online,          \* Util.isConnectedInternet
    now,             \* Date()
    offset           \* the current calendar's offset from GMT

ids  == <<userId, savedId>>
vars == <<live, ids, jsonSegments, savedSegments, dateLastSync,
          dateOnBoarding, flight, version, online, now, offset>>

\* The live objects that know an id.
knowsId == {i \in live : userId[i] # NoId}

NoRequests == [v \in Versions |-> 0]

TypeOK ==
    /\ live \subseteq Instances
    /\ userId \in [Instances -> UserIds \cup {NoId}]
    /\ savedId \in UserIds \cup {NoId}
    /\ jsonSegments \in [Instances -> Dictionary \cup {NoSegments}]
    /\ savedSegments \in Dictionary \cup {NoSegments}
    /\ dateLastSync \in Nat \cup {NoDate}
    /\ dateOnBoarding \in Nat \cup {NoDate}
    /\ flight \in [Instances -> [Versions -> 0..MaxOutstanding]]
    /\ version \in [UserIds -> Versions]
    /\ online \in BOOLEAN
    /\ now \in 0..MaxTime
    /\ offset \in Offsets

Init ==
    /\ live = {}
    /\ userId = [i \in Instances |-> NoId]
    /\ savedId = NoId
    /\ jsonSegments = [i \in Instances |-> NoSegments]
    /\ savedSegments = NoSegments
    /\ dateLastSync = NoDate
    /\ dateOnBoarding = NoDate
    /\ flight = [i \in Instances |-> NoRequests]
    /\ version = [u \in UserIds |-> 0]
    /\ online \in BOOLEAN
    /\ now = 0
    /\ offset \in Offsets

---------------------------------------------------------------------------
(***************************************************************************)
(* WebService.getSegments of object i, whose id is w: with a connection,   *)
(* one more request.                                                       *)
(***************************************************************************)
RequestSegments(i, w) ==
    \/ /\ online
       /\ flight[i][version[w]] < MaxOutstanding
       /\ flight' = [flight EXCEPT ![i][version[w]] = @ + 1]
    \/ /\ ~online
       /\ UNCHANGED flight

\* User.init: the id and the dictionary of the suite.
ConstructWithoutLoading(i) ==
    /\ i \notin live
    /\ live' = live \cup {i}
    /\ userId' = [userId EXCEPT ![i] = savedId]
    /\ UNCHANGED <<savedId, jsonSegments, savedSegments, dateLastSync,
                   dateOnBoarding, flight, version, online, now, offset>>

Construct(i) ==
    /\ i \notin live
    /\ live' = live \cup {i}
    /\ userId' = [userId EXCEPT ![i] = savedId]
    /\ jsonSegments' = [jsonSegments EXCEPT ![i] = savedSegments]
    /\ UNCHANGED <<savedId, savedSegments, dateLastSync, dateOnBoarding,
                   flight, version, online, now, offset>>

\* The success of createUser: the id, then ws.getSegments, whatever the dates.
LearnId(i, w) ==
    /\ i \in live \ knowsId
    /\ userId' = [userId EXCEPT ![i] = w]
    /\ savedId' = w
    /\ RequestSegments(i, w)
    /\ UNCHANGED <<live, jsonSegments, savedSegments, dateLastSync,
                   dateOnBoarding, version, online, now, offset>>

\* User.getSegments: the test on the days between today and the last sync...
DailyRefreshDue ==
    /\ dateLastSync # NoDate
    /\ dayBetweenDates(now, StringToDate(dateLastSync), offset) >= 1

\* ...and, when it fails, the one on the date of the last on-boarding sync.
OnBoardingIsOlder ==
    /\ dateLastSync # NoDate
    /\ dateOnBoarding # NoDate
    /\ StringToDate(dateOnBoarding) < StringToDate(dateLastSync)

OnBoardingIsNewer ==
    /\ dateLastSync # NoDate
    /\ dateOnBoarding # NoDate
    /\ StringToDate(dateLastSync) < StringToDate(dateOnBoarding)

DueOnceDated == dateLastSync # NoDate

Due == dateLastSync = NoDate \/ DailyRefreshDue \/ OnBoardingIsNewer

GetSegments(i) ==
    /\ i \in knowsId
    /\ Due
    /\ RequestSegments(i, userId[i])
    /\ UNCHANGED <<live, ids, jsonSegments, savedSegments,
                   dateLastSync, dateOnBoarding, version, online, now, offset>>

---------------------------------------------------------------------------
(***************************************************************************)
(* Completions.  Segments were computed at some moment between the         *)
(* request, issued at version u, and now.  An object's id does not change  *)
(* while it waits.                                                         *)
(***************************************************************************)
AnsweredTwice(i, u) == flight' = [flight EXCEPT ![i][u] = @ - 1]

Answered(i, u) ==
    /\ flight[i][u] > 0
    /\ flight' = [flight EXCEPT ![i][u] = @ - 1]

\* Any dictionary of texts is taken for segments, whatever its status.
Answers(i, u) ==
    {[user |-> userId[i], version |-> v] : v \in u..version[userId[i]]} \cup {ErrorAnswer}

\* User.saveSegments
SaveSegments(i, d) ==
    /\ jsonSegments' = [jsonSegments EXCEPT ![i] = d]
    /\ savedSegments' = d
    /\ dateLastSync' = DateToString(now)

SegmentsArrive(i, u, d) ==
    /\ Answered(i, u)
    /\ d \in Answers(i, u)
    /\ SaveSegments(i, d)
    /\ UNCHANGED <<live, ids, dateOnBoarding, version, online, now, offset>>

\* case .failure: no answer, or one that is not JSON.
SegmentsFail(i, u) ==
    /\ Answered(i, u)
    /\ UNCHANGED <<live, ids, jsonSegments, savedSegments,
                   dateLastSync, dateOnBoarding, version, online, now, offset>>

---------------------------------------------------------------------------
(***************************************************************************)
(* Process death: between handlers, on an answer that is not a dictionary  *)
(* of texts (as! traps), or between the two writes of saveSegments.        *)
(***************************************************************************)
ProcessDies ==
    /\ live' = {}
    /\ userId' = [i \in Instances |-> NoId]
    /\ jsonSegments' = [i \in Instances |-> NoSegments]
    /\ flight' = [i \in Instances |-> NoRequests]
    /\ UNCHANGED <<savedId, dateOnBoarding, version, online, now, offset>>

Terminate ==
    /\ live # {}
    /\ ProcessDies
    /\ UNCHANGED <<savedSegments, dateLastSync>>

SegmentsTrap(i, u) ==
    /\ flight[i][u] > 0
    /\ ProcessDies
    /\ UNCHANGED <<savedSegments, dateLastSync>>

DiesBetweenDateAndDictionary(i, u, d) ==
    /\ flight[i][u] > 0
    /\ d \in Answers(i, u)
    /\ dateLastSync' = DateToString(now)
    /\ ProcessDies
    /\ UNCHANGED savedSegments

DiesBetweenDictionaryAndDate(i, u, d) ==
    /\ flight[i][u] > 0
    /\ d \in Answers(i, u)
    /\ savedSegments' = d
    /\ ProcessDies
    /\ UNCHANGED dateLastSync

---------------------------------------------------------------------------
\* case .success of sendOnBoarding (see OnBoardingSync), whether or not the
\* service took the data.
OnBoardingSynced ==
    /\ knowsId # {}
    /\ dateOnBoarding' = DateToString(now)
    /\ UNCHANGED <<live, ids, jsonSegments, savedSegments,
                   dateLastSync, flight, version, online, now, offset>>

\* The profile of a user changes, by on-boarding data or otherwise.
ProfileChanges(w) ==
    /\ version[w] < MaxVersion
    /\ version' = [version EXCEPT ![w] = @ + 1]
    /\ UNCHANGED <<live, ids, jsonSegments, savedSegments, dateLastSync,
                   dateOnBoarding, flight, online, now, offset>>

\* The device: connectivity, clock and time zone.
ConnectivityChanges ==
    /\ online' = ~online
    /\ UNCHANGED <<live, ids, jsonSegments, savedSegments,
                   dateLastSync, dateOnBoarding, flight, version, now, offset>>

ClockMoves ==
    /\ \/ now' = now + 1 /\ now < MaxTime
       \/ ClockMayGoBack /\ now' \in 0..(now - 1)
    /\ UNCHANGED <<live, ids, jsonSegments, savedSegments,
                   dateLastSync, dateOnBoarding, flight, version, online, offset>>

Travel ==
    /\ offset' \in Offsets \ {offset}
    /\ UNCHANGED <<live, ids, jsonSegments, savedSegments,
                   dateLastSync, dateOnBoarding, flight, version, online, now>>

Next ==
    \/ \E i \in Instances :
          \/ Construct(i)
          \/ \E w \in UserIds : LearnId(i, w)
          \/ GetSegments(i)
          \/ \E u \in Versions :
                \/ SegmentsFail(i, u)
                \/ SegmentsTrap(i, u)
                \/ \E d \in Dictionary :
                      \/ SegmentsArrive(i, u, d)
                      \/ DiesBetweenDictionaryAndDate(i, u, d)
    \/ Terminate
    \/ OnBoardingSynced
    \/ \E w \in UserIds : ProfileChanges(w)
    \/ ConnectivityChanges
    \/ ClockMoves
    \/ Travel

Spec == Init /\ [][Next]_vars

\* The host keeps asking, connectivity returns as often as it goes, Alamofire
\* calls every completion and the service does not fail for ever to answer
\* with a dictionary.
FairSpec ==
    /\ Spec
    /\ \A i \in Instances :
          /\ SF_vars(GetSegments(i) /\ online)
          /\ SF_vars(\E u \in Versions, d \in Dictionary : SegmentsArrive(i, u, d))
    /\ WF_vars(~online /\ ConnectivityChanges)

---------------------------------------------------------------------------
(***************************************************************************)
(* Properties                                                              *)
(***************************************************************************)

\* A date in the suite always dates a dictionary in the suite, also when the
\* process dies between the two writes: a launch that finds a date, and so
\* does not ask, has something to answer with.
DatedSegmentsAreSaved == dateLastSync # NoDate => savedSegments # NoSegments

\* While the suite holds a dictionary that some live object does not, another
\* live object does: only a rival leaves an object behind the suite.
SavedSegmentsHaveAnOwner ==
    \A i \in live : jsonSegments[i] # savedSegments =>
        /\ savedSegments # NoSegments
        /\ \E j \in live : jsonSegments[j] = savedSegments

\* A live object that has no dictionary has a reason to ask for one, over all
\* launches and wherever the process died, unless a rival of its process has
\* one: its own calls of getSegments never leave it with neither.
SilencedOnlyByRival ==
    \A i \in live : jsonSegments[i] = NoSegments =>
        Due \/ \E j \in live \ {i} : jsonSegments[j] # NoSegments

\* User.swift:78 counts the days from now to the last sync, not the other way
\* round: as long as the clock is not set back the test never succeeds, in no
\* zone, and only an on-boarding sync makes getSegments ask again.
DailyRefreshNeedsClockBack == DailyRefreshDue => ClockMayGoBack

\* An identified object whose host keeps asking has a dictionary in the end,
\* if it is the only one of its account and requests do not fail for ever.
\* It need not hold segments: an error's is kept, and is not asked about again.
DictionaryEventually ==
    \A i \in Instances :
        i \in knowsId ~> (jsonSegments[i] # NoSegments \/ i \notin live)

\* "will retry later" (WebService.swift:116): an object that has asked, whose
\* host keeps asking, has a dictionary in the end, whatever fails meanwhile.
AskedSegmentsArrive ==
    \A i \in Instances :
        flight[i] # NoRequests ~> (jsonSegments[i] # NoSegments \/ i \notin live)

===========================================================================
