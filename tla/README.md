# A TLA+ development of the Navegg iOS SDK

The Navegg SDK gives a host application an id for its user, takes "on-boarding" values about the
user to the Navegg service, and answers with the segments the service puts the user in. It is a
few hundred lines of Swift (`src/SdkNaveggIOS`), but everything it does is spread over callbacks
on the main queue, a defaults suite that outlives the process and is shared by every object of an
account, a network that comes and goes, and the device's clock. Nothing of this is reached by a
test of the repository: its test targets are templates. This project models that behaviour, checks
it with TLC and proves the safety properties with TLAPS.

## Inventory

| Component | State | Operations |
|---|---|---|
| `NaveggApi` (`Main/NaveggApi.swift`), the public facade | a `User` | `init`, `setOnboarding`, `getSegments` |
| `User` (`Bean/User.swift`) | `userId`, `jsonSegments`, an `OnBoarding`, a `WebService` | `init`, `createUserId`, `__set_user_id`, `getSegments`, `saveSegments`, `setOnBoarding`, `sendOnBoarding`, `sendDataSaveInDefault` |
| `OnBoarding` (`Bean/OnBoarding.swift`) | `valueData`; in the suite: the map, `toSendOnBoarding`, `dateLastSyncOnBoarding` | `init`, `addInfo`, `__set_to_send_onBoarding`, `hasToSendOnBoarding`, `setDateLastSync` |
| `WebService` (`WebService/WebService.swift`) | `runningCreateUser`; requests in flight | `createUser`, `getSegments`, `sendOnBoarding`, each with a completion |
| `Util` (`Main/Util.swift`) | none | `DateToString`, `StringToDate`, `dayBetweenDates`; reads of the device |
| `ReachabilityManager` (`Bean/ReachabilityManager.swift`) | its `User`, its registrations as an observer, `hasCreateNotificationCenter` | `startMonitoring`, `stopMonitoring`, `startApplicationDidEnterBackground`, `getTypeConnection`, `createNotificationCenter`, two callbacks, two closures |
| `Reachability.swift` (vendored) | `previousFlags`, `notifierRunning`, the two closures, its serial queue | `startNotifier`, `stopNotifier`, `connection`, `reachabilityChanged` |
| Alamofire (vendored) | requests | outside the program's own logic |
| `openssl-1.0.1m` (vendored) | | an unchanged library that no project file or Swift source refers to; by lines most of the repository |
| `package.proto`, test targets, example hosts, `Frameworks` | | generated, templates, binaries |

How they interact: a `NaveggApi` makes one `User`; a `User` makes one `OnBoarding` and one
`WebService`. All of them call each other directly, on the queue of the host. Alamofire runs each
completion on the main queue; a completion writes to the `User` or the `OnBoarding` it captured.
Objects of one account in one process do not know each other and meet only in the defaults suite
`NVGSDK<account>`; so do successive processes. `ReachabilityManager` calls
`User.sendDataSaveInDefault` when the application goes to the background or Wi-Fi comes back. It
hears of the network from the notifier of `Reachability.swift`, whose handler runs on a serial
queue of its own and hands closures and notifications to the main queue. `ReachabilityManager` is
an internal class and no file of the repository calls it: who calls its methods, and when, cannot be
read from the source, and its model has them called in any order.

What is hard: answers come late, in any order, or not at all; the process may die between any two
writes; an object's memory and the suite drift apart when two objects exist; `NaveggApi.init` may
run off the main queue while its own answer arrives; the notifier looks at the network three times
for one change, which may itself change in between; decisions depend on calendar days in a zone
that may change and a clock that may be set back. `PROJECT.json` lists the hazards, each at its
line.

What makes each component correct:

* identity: an account gets one id and keeps it; a `WebService` never asks twice at once; an
  object that knows its id never changes it; an object without one gets one in the end;
* on-boarding: nothing is sent before it is saved; no value is lost, whoever else writes; nothing
  is sent for an unknown user; what could not be sent is sent later; what was sent is not sent
  again the same day;
* segments: the date that stops an object from asking stands for a dictionary it can answer with; a
  host that keeps asking has one in the end; it is fetched again daily, and after a successful
  on-boarding sync;
* network monitor: a change of the network is handed on; a callback finds its `User`; a return of
  Wi-Fi has the data sent while monitoring is on. (Not all of this is so: see the runs.)
* together: what each component takes for granted of the others is true of them.

## Modules

| Module | Models | Reads as |
|---|---|---|
| `UserIdentity` | `NaveggApi.init`, `User.init`, `createUser` and its answer, `__set_user_id` | `phase` is how far a constructor has come, `running` is `runningCreateUser`, `pending` counts unanswered requests, `savedId` is `NVGSDK_USERID` |
| `AccountIdentity` | the abstract promise of the identity: an object starts with the saved id, a new id goes to the object and the suite in one step, to an object built on the main queue once | `alive` are the objects that are not absent; `Account` in `UserIdentity` is the refinement mapping |
| `UtilDates` | the three date helpers of `Util` | an instant is a number of ticks, a date text the number of seconds it denotes |
| `OnBoardingSync` | `setOnboarding`, `addInfo`, `sendDataSaveInDefault`, `sendOnBoarding` and its answer | `saved`, `toSend`, `dateLastSync` are the suite, `userId` and `valueData` the memory of each object, `flight` the requests whose completion has not run, `transit` those the service has neither merged nor refused, `profile[u]` what it has recorded for the id `u` the requests carry |
| `Segments` | `getSegments` of the three classes, `saveSegments`, the loading of the dictionary | segments are an id and the version of its profile they were computed from, `ErrorAnswer` is a dictionary without any; `flight[i][v]` counts the requests object `i` issued at version `v` of its id's profile |
| `OnboardingDelivery` | the abstract promise of on-boarding: values are written one key at a time, copies of written values set out, the service merges each at most once | `written` and `latest` are what the host set, `underway` the copies on their way, `issued` how many there were |
| `OnBoardingHistory` | `OnBoardingSync` with the history variable `written`, and the refinement mapping to `OnboardingDelivery` | `latest` is the suite, `underway` is `transit`, `issued` is `sends`; a completion, or a death in its middle, is seen only if it answers a request the service refused |
| `OnBoardingMC` | the symmetry of the above for TLC | |
| `NetworkMonitor`, `NetworkMonitorMC` | `ReachabilityManager` and the notifier of `Reachability.swift`; the second gives sets of flags | `stage` is how far the handler on the serial queue has come, `mainQueue` the blocks waiting on the main queue, `checks` the initial checks, `signalled` a change not yet handled, `changeObservers` and `backObservers` the registrations, `closures` whether both closures are installed; `reported`, `slipped` and `wifiBack` are history variables |
| `NaveggSdk` | the composition of `UserIdentity`, `OnBoardingSync` and `Segments` over one suite, service and device | the three components are `ID`, `OB` and `SG`; `owed` is a history variable |
| `NaveggSdkMC` | the symmetry of the above for TLC | |
| `NaveggSdkHistory` | `NaveggSdk` with the history variable of `OnBoardingHistory` | `OBH` maps the composition to `OnboardingDelivery` |
| `UserIdentityProofs`, `UtilDatesProofs`, `OnBoardingSyncProofs`, `SegmentsProofs`, `OnBoardingHistoryProofs`, `NetworkMonitorProofs`, `NaveggSdkProofs`, `NaveggSdkHistoryProofs` | theorems about the module of the same name | |

`OnBoardingSync` and `Segments` extend `UtilDates`. The three component modules stand side by
side: each has the little of the others that it needs as an action of its environment (`LearnId`
stands for the success of `createUser`, `OnBoardingSynced` for the success of `sendOnBoarding`,
`ProfileChanges` for data the service accepts). `NaveggSdk` puts the real thing in their place:
there the ids are the identity's and `live` a function of its state, the completion of
`createUser` asks for segments, the completion of `sendOnBoarding` writes the date `getSegments`
compares with, data the service accepts is a new version of the sender's profile, and a death takes
the memory of all three. `NetworkMonitor` is not composed with them: it adds to them only the
occasions of `sendDataSaveInDefault`, which they allow at any time.

### How actions correspond to the code

* A handler that runs on the main queue is one action, up to the request it leaves behind. The
  completion is another action, which may come at any later time or never.
* In `UserIdentity`, `OnMain` are the objects the host builds on the main queue. While such a
  constructor runs no other handler of that queue does (`MainFree`). `init` is three steps
  (`ConstructUser`, `CheckUserId`, `CreateUserAgain`); if it runs on another queue, answers may
  arrive between them.
* Process death is an action. It may come between handlers (`Terminate`, and the forced casts and
  unwraps on an answer: `CreateUserTraps`, `SegmentsTrap`) or between two writes of one handler
  (`DiesAfterSave`, `DiesBetweenStatusAndDate`, `DiesBetweenDictionaryAndDate`). Writes that were
  made to the suite stay. Death between the two assignments of `__set_user_id` leaves what death
  before the answer leaves, so it needs no action.
* `sendOnBoarding` and `getSegments` do not call `validate()`: an answer with an error status is a
  success. `SendSucceeds` therefore needs no `ServiceAccepts` before it, and takes a request that
  had none, a refused one, out of `transit`. Of such an answer `getSegments` saves and dates any
  dictionary of texts, `{}` for one: `SegmentsArrive` may bring `ErrorAnswer` instead of segments.
* Requests carry the id of the object that makes them (`WebService.swift:89` and `:130`), and two
  objects of one account may have different ids. The service keeps a profile and its version for
  every id, and segments are of the id that asked.
* A request has two lives. `SendFails`, a timeout or a lost connection, ends only the one on the
  device, as does a death; the request stays in `transit` and `ServiceAccepts` may merge it before,
  later, in another launch, after newer ones, or never.
* In `NetworkMonitor` the handler `reachabilityChanged` is three actions, one for each look at the
  flags: `Compare` (line 268), `CaptureBlock` (270-275, which puts a block on the main queue) and
  `RecordFlags` (277). `Deliver` is that block: the closure, then the notification, whose observers
  each queue the block that is `Install`. `startMonitoring` contains `stopMonitoring`, whose
  `removeObserver` takes every registration away, and adds one; `startApplicationDidEnterBackground`
  adds one at every call and tests nothing. A start of the notifier may be refused, which the
  manager ignores.
* Connectivity is read when the code reads it. `sendDataSaveInDefault` and the `sendOnBoarding` it
  calls each look, so the connection may go in between (`ResendLosesConnection`).
* Clock, zone and connectivity change on their own (`Tick`, `ClockSetBack`, `ClockMoves`,
  `Travel`, `ConnectivityChanges`, `FlagsChange`; `ClockAndZone` in the composition).
* In `NaveggSdk`, `FinishConstruction` is the rest of a constructor, which no other handler
  interrupts; the answers that trap are deaths like any other (`Terminate`).

### Assumptions made by the models

* Objects live until the process ends. (A `NaveggApi` the host lets go only makes fewer calls; the
  closures of its requests keep its `User`.)
* Except for the constructors of objects outside `OnMain`, host calls run on the main queue, as
  Alamofire's completions do.
* What was written to the suite survives the process.
* Off the main queue a read or a write of `runningCreateUser` or `userId` is atomic.
* `NetworkMonitor`: the several reads of the flags inside one evaluation of `connection` are one.
  The methods are called on the main queue, in any order; nothing else is assumed of a caller.
* The notifier is the one of the source in the tree, `Carthage/Checkouts` (4.1.0, which
  `Cartfile.resolved` names). `Podfile.lock` names 5.0.0, and `ReachabilityManager` uses its
  throwing initializer and its case `.unavailable`; that source is not in the tree. The case is
  taken like `.none`, as `getTypeConnection` does, and the initializer is taken to succeed.
* The service issues no id "0" and never the empty one.
* A zone has a fixed offset; days have one length. (`Offsets` are natural numbers: a zone west of
  Greenwich is one a day further east, seen from the previous day.)
* The in-memory copies of the dates, which are written and not read, are left out, as is the entry
  "custom" of the segments: `customListPermanent` stays empty, so `distintcCustomSegment` only adds
  the empty text that `getSegments` gives for a missing entry.

## Runs

| Run | Bounds | What it shows |
|---|---|---|
| `identity_main` | 3 objects, 2 of them built on the main queue, 2 ids | `OneCreateInFlight` and `SavedIdHasAnOwner` of all objects; `KnownIdStopsCreation` and `OwnIdWriteOnce` of those built on the main queue; `SavedIdRewrittenOnlyByRival`; `UnmadeRequestIsFinal`; and `ImplementsAccount`, the step simulation of `AccountIdentity` |
| `identity_retry` | 1 object, fair | violates `WillRetryLater` |
| `onboarding_safety` | 2 objects, 2 ids, 2 keys, 2 values, 2 requests, days of 1 second, 2 instants, clock may go back; symmetry of objects, ids, keys and values | `WriteAhead`, `NoAnonymousTraffic`, `NoLostUpdate`, `RequestsCarrySavedMap`, `OnlyWrittenValues`, and `ImplementsDelivery`, the step simulation of `OnboardingDelivery` |
| `onboarding_held_back` | 2 values, 2 requests | violates `HeldBackOnlyWhenSent` |
| `onboarding_resend` | 1 object, fair | violates `FailedSendRetried` |
| `segments_safety` | 2 objects, 2 ids, 2 versions of each profile, 1 request of an object at each, days of 4 ticks, 6 instants, 2 zones, clock goes forward | `DatedSegmentsAreSaved`, `SavedSegmentsHaveAnOwner`, `SilencedOnlyByRival`, `DailyRefreshNeedsClockBack` |
| `segments_delivery` | 1 object, 2 versions, 2 like requests, 4 instants, 2 zones, clock may go back, fair | `DictionaryEventually` |
| `segments_rivals` | 2 objects, 2 ids, fair | violates `AskedSegmentsArrive` |
| `monitor` | 1 user, 4 sets of flags, 2 initial checks, 2 registrations, 3 blocks on the main queue, fair | `QuietMeansReported`, `CallbacksHaveUser`, `ReturnIsPending`, `ArmedReturnResends` |
| `sdk_components` | 2 objects, 2 ids, 1 request, 1 new version, clock may go back | `ImplementsOnBoarding`, `ImplementsSegments` |
| `sdk_rivals` | 2 objects, 2 ids, 2 requests, 1 new version, 2 instants; symmetry of objects and ids | `OwedSegmentsAreDue` with two objects and two profiles |
| `sdk_delivery` | 1 object, 2 requests, 2 new versions, 1 request for segments at each, half seconds, 6 instants, 2 zones, fair | `OwedSegmentsAreDue`, `OwedSegmentsArrive` |

The type invariants are checked in `identity_main`, `onboarding_safety`, `segments_safety` and
`monitor`; `NaveggSdk` inherits the types of its components through the three refinements. Every
`pass` run is exhaustive within its bounds. Bounds on data are small because the code compares
values only for equality; two objects are enough for one to fall behind the suite and a third gives
an id to be rewritten twice; two requests allow one completion to overtake the other, and two values
of a key an older one to overtake a newer. In `onboarding_safety` a day is a second, so that the two
instants are on two days, and there is one zone: none of its properties depends on where a day
begins, which is the business of `UtilDates` and of the runs with two zones, `segments_safety`,
`segments_delivery` and `sdk_delivery`. In `segments_safety` and `sdk_delivery` there are two ticks
to the second because the text of a date drops the fraction. In the monitor two kinds of Wi-Fi let
the flags change without a change of the connection; two initial checks come from a stop between two
starts; two registrations for the background are one more than one call makes; three blocks are a
delivery, the installation it causes and the next delivery. In `sdk_delivery` every bound is one
more than a single round trip needs, so that a second sync may come while segments of the first are
owed; there `MaxVersion` is not below `MaxSends`, so that the profile's bound keeps no request from
being accepted. `sdk_components` and `sdk_rivals` have two objects instead; in `sdk_rivals` the
second request is the other id's, or a resend the service does not merge again. Named bounds:
`MaxTime`, `MaxSends`, `MaxVersion`, `MaxOutstanding`, `MaxChecks`, `MaxObservers`, `MaxBlocks`.

### Where code and comments disagree

1. `identity_retry`: an object that starts without a connection raises `runningCreateUser` before
   it looks (`WebService.swift:39`) and never lowers it; after a failed answer nobody asks again.
   The warning on line 72 says "will retry later".
2. `onboarding_resend`: the test in `sendDataSaveInDefault` (`User.swift:119`) is inverted; only
   data that was sent is sent again.
3. `onboarding_held_back`: `addInfo` (`OnBoarding.swift:37-47`) holds a value back when any request
   succeeded today, also when the one that carried the value failed.
4. `segments_rivals`: whether an object asks for segments (`User.swift:76-91`) depends on dates that
   another object of the account may have written; its own failed request is then not repeated.

The arguments of `dayBetweenDates` on `User.swift:78` are the other way round than in a count of
elapsed days. No text in the repository says what was meant, so this is stated as the property
`DailyRefreshNeedsClockBack`, and proved: the daily refresh needs a clock that was set back.
`stopMonitoring` leaves the closures installed, and `getTypeConnection` or
`startApplicationDidEnterBackground` starts the same notifier again, so data may be sent on a change
of the network after monitoring was stopped. No property here forbids that.

Three more things the code does, and no line of the repository denies, so that no run refutes
anything:

* What `startMonitoring` starts may send nothing on the first return of Wi-Fi. The closure that would
  is installed by a block that the first notification queues (`ReachabilityManager.swift:47-55`); if
  no notification came before, of the initial check for one, the return itself only installs it.
* The notifier looks at the flags once more when it records them (`Reachability.swift:277`). A change
  since it chose a block is recorded without one, and the signal of that change then finds nothing
  new: it is overlooked until the next change. `QuietMeansReported` says that this gap is the only
  one. A return of Wi-Fi that falls into it sends nothing, also when the closures are installed;
  `ReturnIsPending` and `ArmedReturnResends` leave such a return out.
* An answer of `getSegments` with an error status is saved and dated if it is a dictionary of texts
  (`WebService.swift:100-108`). An object that has it has no segments and does not ask again before
  the next on-boarding sync. `DictionaryEventually`, `OwedSegmentsAreDue` and `OwedSegmentsArrive`
  therefore speak of a dictionary, and count an error's as an end of the asking.

### Fairness

`Spec` has none; all safety properties are of `Spec`. `FairSpec` of each module adds what
the code's scheduling gives, and for the host and the network what the property assumes of them:

* constructors run to their end and Alamofire calls every completion (weak fairness);
* `OnBoardingSync`: the callbacks of `ReachabilityManager` keep coming (strong fairness of
  `SendDataSaveInDefault`, whose enabling comes and goes with the connection) and connectivity
  returns;
* `Segments`: the host keeps calling `getSegments`, connectivity returns, and the service does not
  fail for ever to answer with a dictionary (strong fairness of the answer, whatever it holds);
* `NetworkMonitor`: the serial queue and the main queue run what is put on them (weak fairness of
  each queue); callers and network promise nothing;
* `NaveggSdk`: as in `Segments`; nothing is assumed of requests for an id or of on-boarding.

The host, process death, the clock and the loss of connectivity are never forced to happen or to stop.

## Proofs

TLAPS checks every theorem of the eight proof modules for all values of the constants that satisfy
the named assumptions of the modules (`IdentityAssumption`, `DatesAssumption`,
`OnBoardingAssumption`, `SegmentsAssumption`, `MonitorAssumption`, `SdkAssumption`): sentinels differ
from values, zones are natural offsets, a day and a second have at least one tick. Bounds are
arbitrary numbers.

* `UserIdentityProofs`. `TypeCorrect`; then `FlagInv`, the strengthening of `OneCreateInFlight`: at
  most one request, the flag up while there is one, and an object that is not alive holds nothing.
  `FlagInv` is inductive on any queue. `NoIdInv` adds that an object in `OnMain` between its test
  and its second request, or with a request in flight, has no id; without `MainFree` an answer could
  come in between, and that is why it is claimed of `OnMain` only. `KnownIdStopsCreation`,
  `OwnIdWriteOnce` and, with `SavedIdHasAnOwner`, `SavedIdRewrittenOnlyByRival` follow, and from the
  last that an account whose processes build one object each keeps its first id
  (`SoleObjectKeepsSavedId`). `UnmadeRequestIsFinal` needs `FlagInv`: an absent object has its flag
  down, so a constructor cannot be the one to act for an object whose flag is up.
  `AccountImplemented` maps a constructor's first step to `Build`, an answer to `Learn` (whose guard
  is `NoIdInv`), deaths to `Die`, and everything else to a stutter.
* `UtilDatesProofs`. Integer division is monotone, and equal quotients are close. Hence a date
  written as text and read back is no later (`TextNotLater`), an earlier instant is on no later day
  in any zone (`DaysMonotone`), two instants of a day are less than a day apart (`SameDayIsClose`).
  A text is within a second of its date (`TextKeepsTheSecond`), survives being read and written
  again (`TextRoundTrip`), and tells instants a second apart (`LaterSecondLaterText`). The days
  counted between two instants are off by less than one from the time that passed
  (`DaysMeasureTime`), and differ by one at most between zones (`ZonesDisagreeByADay`).
* `OnBoardingSyncProofs`. The actions are grouped by what they touch (`NextSplits`), and the effect
  of `SendOnBoarding` is stated once (`SendOnBoardingEffect`). `WriteAhead` is inductive with
  `TypeOK`, in three parts for memory, requests and profile. `NoAnonymousTraffic` needs `IdInv`
  (while the suite has no id no object knows one). `RequestsCarrySavedMap` needs
  `SoleObjectCurrent`: an object that is alone in its process is level with the suite.
* `SegmentsProofs`. `DatedSegmentsAreSaved` is inductive; `SavedSegmentsHaveAnOwner` needs `Asking`
  (only live objects that know their id wait, `AskersKnown`); the two together give
  `SilencedOnlyByRival`; `DailyRefreshNeedsClockBack` needs `SyncIsPast` (a clock that goes forward
  is never behind the saved date) and `DaysMonotone`. `DailyRefreshMeansBehind` says from
  `DaysMeasureTime` what the exchanged arguments of `User.swift:78` amount to: the refresh is due
  only while the clock is behind the last sync, and always when it is a day behind.
* `OnBoardingHistoryProofs`. `HInv`: every map, in the suite, in memory, in a request or at the
  service, holds under each key only values written for it. It is inductive with `TypeOK` of
  `OnBoardingSync`, which is cited and not proved again; the sources of each kind of map are lemmas
  of their own (`MemorySource`, `RequestSource`, `ProfileSource`). `OnlyWrittenValues` is part of
  it, and the step simulation of `OnboardingDelivery` (`DeliveryImplemented`) rests on it: a resent
  map is one of written values only because of `HInv`. An answer to a request that was not merged is
  its refusal, whether the device records the whole answer or dies in the middle (`RefuseStep`); a
  death after `addInfo` has saved is a write without a copy (`WriteStep`); failures and deaths
  between handlers are stuttering steps.
* `NetworkMonitorProofs`. `TypeCorrect` goes by parts of the type. `QuietMeansReported` has two
  inductive halves: whoever changes the flags or starts the notifier leaves a signal, a check or a
  busy handler (`QuietIsUpToDate`), and what the handler records it has reported unless the flags
  slipped away under it (`RecordsAreReported`). `CallbacksHaveUser` needs the blocks on the queue to
  be accounted for (`BareAppend`, `BareTail`). `ReturnIsPending` needs `ArmedInv`: while a return
  waits for its resend the closures are installed and the notifier runs, and a User stays one
  (`UserStays`). Appending a block keeps one that resends and taking the head keeps it unless it was
  that one (`ResendsAppend`, `ResendsTail`). `RestMeansResent` follows: with the queue empty and the
  handler at rest no such return is left without its resend, so what remains of `ArmedReturnResends`
  is that the queues do run empty.
* `NaveggSdkProofs`. `IdentityImplemented`: every step of the SDK is a step of `UserIdentity` or
  leaves its state alone. It needs `LifeInv`, that only live objects have requests under way: a
  death in the middle of a completion is otherwise no death that `UserIdentity` allows. Because of
  it everything proved of `UserIdentity` holds in the composition (`IdentitySpec`), among it that an
  object waiting for an id lives and has none (`WaitingInv`), which is what `LearnId` of the other
  two components takes for granted. Lemmas say how each step of the identity looks to them
  (`ConstructionSeen`, `AnswerSeen`, `DeathSeen`). `OnBoardingImplemented` follows;
  `SegmentsImplemented` also needs `SenderKnown`, that a request under way is some known user's.
* `NaveggSdkHistoryProofs`. The theorems about each component alone, cited for the composition. The
  instances a proof module brings along have definitions of their own, and lemmas say action by
  action that they are the same (`SetOnboardingSame`, `AnswersSame`, `SegmentsObjectsSame` and the
  like); so `Spec` of the SDK implies `Spec` of each component (`IdentitySpec`, `OnBoardingSpec`,
  `SegmentsSpec`), and the results follow: `SdkIdentitySafe`, `SdkKeepsId`, `SdkAccount`,
  `SdkOnBoardingSafe`, `SdkOnBoardingSteps`, `SdkSegmentsSafe`. `SdkDeliversOnBoarding` carries over
  the delivery; a step of another component must leave `written` alone, and that needs `WrittenInv`,
  that what the suite holds has been written. `OwedSegmentsAreDueHolds` is the invariant of the
  composition itself, with a profile for every id: while a user is owed segments, no request of that
  user's objects under way may be answered out of an older profile (`AnswersSuffice`); while the
  saved ones are behind, the text of the last on-boarding sync is later than theirs
  (`BehindIsDated`); and a clock that goes forward is not behind that text (`SyncTextIsPast`), so
  further syncs, of any user, only make it later. Its steps are sorted by what they do to that state
  (`FreshCases`: `Idle`, `Accepted`, `Synced`, `Arrived`, `Later`). An answer of any kind leaves
  nobody behind: it is newer than what its user is owed, of another user, or an error's
  (`ArrivedNotBehind`).

Only model-checked: the liveness properties `DictionaryEventually`, `ArmedReturnResends` and
`OwedSegmentsArrive`, and the disagreements that are about liveness, since liveness under fairness
is outside what the prover does. Of two of them the safety half is proved: `ReturnIsPending` of
`ArmedReturnResends`, `SilencedOnlyByRival` of `DictionaryEventually`; of the third, `OwedSegmentsArrive`,
it is `OwedSegmentsAreDue`.

Only proved: that the composition implements `UserIdentity` (`IdentityImplemented`), whose actions it
takes as they are, and that it implements `OnboardingDelivery` (`SdkDeliversOnBoarding`), which
needs more values and objects to be interesting than the composition can be checked with.

## Not modelled, and why

All of the SDK's code that keeps state or decides on it is modelled. What is left:

* `openssl-1.0.1m`. By lines it is nearly all of the repository, so that the share of the tree's
  lines these modules model is small. It is OpenSSL as its authors published it, kept beside the
  SDK and used by none of its project files or sources; a model of a TLS library would say nothing
  about this program.
* Alamofire, beyond what its callers rely on, and the deprecated tests of `Reachability.swift`.
* Reads of the device that no decision depends on (`getDeviceId`, `getTypeCategory`, `getIOSModel`,
  `getLanguageApp` and the like), `getIOSVersionOS`, which has no caller, the split of parameters and the building of URLs.
* `distintcCustomSegment`, `getInfo`, `getDateLastSync`: without callers or without effect, as said
  above.
* The messages of `package.proto` and their generated code, which no source of the SDK uses; the
  test targets, which assert nothing; the example hosts.
