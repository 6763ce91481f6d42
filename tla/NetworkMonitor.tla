--------------------------- MODULE NetworkMonitor ---------------------------
(***************************************************************************)
(* When the SDK hears of the network and of the background, and has saved  *)
(* data sent again.                                                        *)
(*                                                                         *)
(* ReachabilityManager.shared keeps a User, observers at the notification  *)
(* centre, and the notifier of the vendored Reachability.swift.  A change  *)
(* of the network signals the notifier's serial queue; its handler compares*)
(* the flags with the ones it has seen, picks a closure, hands it with a   *)
(* notification to the main queue, and records the flags: three steps, each*)
(* with a look of its own at the flags.  The closure that sends the data is*)
(* installed by a block the first notification puts on the main queue.     *)
(*                                                                         *)
(* Nothing in the repository calls the manager, whose class is internal:   *)
(* its methods are called here in any order, on the main queue.  The reads *)
(* of the flags inside one evaluation of Reachability.connection are taken *)
(* as one.  The manager keeps nothing across processes, so a new process   *)
(* is a new behaviour.                                                     *)
(***************************************************************************)
EXTENDS Integers, Sequences

CONSTANTS
    Users,         \* the User objects the host may pass
    NoUser,        \* ReachabilityManager.user is nil
    FlagSets,      \* the sets of reachability flags the device shows
    NoFlags,       \* previousFlags is nil
    OnDevice,      \* FALSE iff the program runs in the simulator
    MaxChecks,     \* bound: initial checks queued together
    MaxObservers,  \* bound: registrations for the background
    MaxBlocks      \* bound: blocks waiting on the main queue

FlagNames == {"reachable", "isWWAN", "connectionRequired",
              "onTrafficOrDemand", "interventionRequired"}

ASSUME MonitorAssumption ==
    /\ NoUser \notin Users
    /\ FlagSets \subseteq SUBSET FlagNames
    /\ NoFlags \notin FlagSets
    /\ OnDevice \in BOOLEAN
    /\ MaxChecks \in Nat /\ MaxObservers \in Nat /\ MaxBlocks \in Nat

VARIABLES
    flags,            \* what SCNetworkReachabilityGetFlags answers
    previousFlags,    \* Reachability.previousFlags
    notifierRunning,  \* Reachability.notifierRunning
    signalled,        \* a change waits to be handled on the serial queue
    checks,           \* initial checks queued by startNotifier
    stage,            \* how far the serial queue's handler has come
    mainQueue,        \* blocks on the main queue
    closures,         \* whenReachable and whenUnreachable are installed
    user,             \* ReachabilityManager.user
    changeObservers,  \* registrations of reachabilityChanged
    backObservers,    \* registrations of backGroundReachabilityChanged
    hasCreateNotificationCenter,
    reported,         \* history: the flags the last block was chosen for
    slipped,          \* history: they changed before the handler recorded them
    wifiBack          \* history: Wi-Fi came back in time to be noticed, and no
                      \* resend has followed

notifier == <<previousFlags, notifierRunning, signalled, checks, stage>>
manager  == <<user, changeObservers, backObservers, hasCreateNotificationCenter>>
history  == <<reported, slipped, wifiBack>>
vars     == <<flags, notifier, mainQueue, closures, manager, history>>

Blocks == {"nil", "whenReachable", "whenUnreachable",  \* deliveries
           "install"}                                  \* by reachabilityChanged

TypeOK ==
    /\ flags \in FlagSets
    /\ previousFlags \in FlagSets \cup {NoFlags}
    /\ notifierRunning \in BOOLEAN
    /\ signalled \in BOOLEAN
    /\ checks \in 0..MaxChecks
    /\ stage \in {"idle", "changed", "captured"}
    /\ mainQueue \in Seq(Blocks)
    /\ closures \in BOOLEAN
    /\ user \in Users \cup {NoUser}
    /\ changeObservers \in Nat
    /\ backObservers \in 0..MaxObservers
    /\ hasCreateNotificationCenter \in BOOLEAN
    /\ reported \in FlagSets \cup {NoFlags}
    /\ slipped \in BOOLEAN
    /\ wifiBack \in BOOLEAN

Init ==
    /\ flags \in FlagSets
    /\ previousFlags = NoFlags
    /\ notifierRunning = FALSE
    /\ signalled = FALSE
    /\ checks = 0
    /\ stage = "idle"
    /\ mainQueue = <<>>
    /\ closures = FALSE
    /\ user = NoUser
    /\ changeObservers = 0
    /\ backObservers = 0
    /\ hasCreateNotificationCenter = FALSE
    /\ reported = NoFlags
    /\ slipped = FALSE
    /\ wifiBack = FALSE

\* Reachability.connection; allowsCellularConnection keeps its default TRUE.
connection(f) ==
    IF "reachable" \notin f THEN "none"
    ELSE IF ~OnDevice THEN "wifi"
    ELSE IF "isWWAN" \in f THEN "cellular"
    ELSE IF \/ "connectionRequired" \notin f
            \/ "onTrafficOrDemand" \in f /\ "interventionRequired" \notin f THEN "wifi"
    ELSE "none"

---------------------------------------------------------------------------
(***************************************************************************)
(* Starting and stopping, called by the host.                              *)
(***************************************************************************)

\* Reachability.startNotifier when notifierRunning is running.  The system may
\* refuse; the manager drops the error.
StartNotifierUnchecked(running) ==
    \/ /\ notifierRunning' = TRUE
       /\ UNCHANGED checks
    \/ /\ ~running
       /\ notifierRunning' = FALSE
       /\ UNCHANGED checks

StartNotifier(running) ==
    \/ /\ running
       /\ notifierRunning' = TRUE
       /\ UNCHANGED checks
    \/ /\ ~running
       /\ checks < MaxChecks
       /\ notifierRunning' = TRUE
       /\ checks' = checks + 1
    \/ /\ ~running
       /\ notifierRunning' = FALSE
       /\ UNCHANGED checks

\* ReachabilityManager.getTypeConnection
getTypeConnection ==
    /\ StartNotifier(notifierRunning)
    /\ UNCHANGED <<flags, previousFlags, signalled, stage, mainQueue, closures,
                   manager, history>>

\* removeObserver takes every registration of the name away.
RegistrationsAfterRemoval == 0

\* ReachabilityManager.startMonitoring: stopMonitoring, one more observer, start.
startMonitoringUserLast(u) ==
    /\ StartNotifier(FALSE)
    /\ changeObservers' = RegistrationsAfterRemoval + 1
    /\ user' = IF notifierRunning' THEN u ELSE user
    /\ signalled' = FALSE
    /\ wifiBack' = (wifiBack /\ notifierRunning')
    /\ UNCHANGED <<flags, previousFlags, stage, mainQueue, closures, backObservers,
                   hasCreateNotificationCenter, reported, slipped>>

startMonitoring(u) ==
    /\ user' = u
    /\ changeObservers' = RegistrationsAfterRemoval + 1
    /\ StartNotifier(FALSE)
    /\ signalled' = FALSE
    /\ wifiBack' = (wifiBack /\ notifierRunning')
    /\ UNCHANGED <<flags, previousFlags, stage, mainQueue, closures, backObservers,
                   hasCreateNotificationCenter, reported, slipped>>

\* ReachabilityManager.stopMonitoring: a signal under way is dropped, a queued
\* initial check, a running handler and the closures are not.
stopMonitoring ==
    /\ notifierRunning' = FALSE
    /\ signalled' = FALSE
    /\ changeObservers' = RegistrationsAfterRemoval
    /\ wifiBack' = FALSE
    /\ UNCHANGED <<flags, previousFlags, checks, stage, mainQueue, closures, user,
                   backObservers, hasCreateNotificationCenter, reported, slipped>>

\* ReachabilityManager.createNotificationCenter: a note for the host, which
\* isCreateNotificationCenter reads back; the manager itself never looks at it.
createNotificationCenter(create) ==
    /\ hasCreateNotificationCenter' = create
    /\ UNCHANGED <<flags, notifier, mainQueue, closures, user, changeObservers,
                   backObservers, history>>

\* ReachabilityManager.startApplicationDidEnterBackground: one more
\* registration at every call.
startApplicationDidEnterBackground(u) ==
    /\ backObservers < MaxObservers
    /\ user' = u
    /\ backObservers' = backObservers + 1
    /\ StartNotifier(notifierRunning)
    /\ UNCHANGED <<flags, previousFlags, signalled, stage, mainQueue, closures,
                   changeObservers, hasCreateNotificationCenter, history>>

---------------------------------------------------------------------------
(***************************************************************************)
(* Reachability.reachabilityChanged on the serial queue, called by a signal*)
(* or as an initial check.                                                 *)
(***************************************************************************)
CompareUnasked ==
    /\ stage = "idle"
    /\ checks' = checks - 1
    /\ stage' = IF previousFlags = flags THEN "idle" ELSE "changed"
    /\ UNCHANGED <<flags, previousFlags, notifierRunning, signalled, mainQueue, closures,
                   manager, history>>

Compare ==
    /\ stage = "idle"
    /\ \/ signalled /\ signalled' = FALSE /\ UNCHANGED checks
       \/ checks > 0 /\ checks' = checks - 1 /\ UNCHANGED signalled
    /\ stage' = IF previousFlags = flags THEN "idle" ELSE "changed"
    /\ UNCHANGED <<flags, previousFlags, notifierRunning, mainQueue, closures,
                   manager, history>>

Block == IF ~closures THEN "nil"
         ELSE IF connection(flags) = "none" THEN "whenUnreachable" ELSE "whenReachable"

CaptureBlock ==
    /\ stage = "changed"
    /\ Len(mainQueue) < MaxBlocks
    /\ mainQueue' = Append(mainQueue, Block)
    /\ stage' = "captured"
    /\ reported' = flags
    /\ slipped' = FALSE
    /\ UNCHANGED <<flags, previousFlags, notifierRunning, signalled, checks, closures,
                   manager, wifiBack>>

RecordNothing ==
    /\ stage = "captured"
    /\ stage' = "idle"
    /\ UNCHANGED <<flags, previousFlags, notifierRunning, signalled, checks, mainQueue,
                   closures, manager, history>>

RecordFlags ==
    /\ stage = "captured"
    /\ previousFlags' = flags
    /\ stage' = "idle"
    /\ UNCHANGED <<flags, notifierRunning, signalled, checks, mainQueue, closures,
                   manager, history>>

---------------------------------------------------------------------------
(***************************************************************************)
(* The main queue.                                                         *)
(***************************************************************************)

\* block?(self), then the notification, whose every observer asks for the
\* closures to be installed.  whenUnreachable does nothing.
ResendsOnDelivery ==
    /\ Head(mainQueue) = "whenReachable"
    /\ connection(flags) = "wifi"
    /\ user # NoUser

Deliver ==
    /\ mainQueue # <<>>
    /\ Head(mainQueue) # "install"
    /\ mainQueue' = Tail(mainQueue) \o [n \in 1..changeObservers |-> "install"]
    /\ wifiBack' = (wifiBack /\ ~ResendsOnDelivery)
    /\ UNCHANGED <<flags, notifier, closures, manager, reported, slipped>>

\* The block of ReachabilityManager.reachabilityChanged.
Install ==
    /\ mainQueue # <<>>
    /\ Head(mainQueue) = "install"
    /\ mainQueue' = Tail(mainQueue)
    /\ closures' = TRUE
    /\ UNCHANGED <<flags, notifier, manager, history>>

\* The application goes to the background: every registration of
\* backGroundReachabilityChanged calls sendDataSaveInDefault.
EnterBackground ==
    /\ backObservers > 0
    /\ user # NoUser
    /\ wifiBack' = FALSE
    /\ UNCHANGED <<flags, notifier, mainQueue, closures, manager, reported, slipped>>

---------------------------------------------------------------------------
(***************************************************************************)
(* The network.  A running notifier is signalled; several changes before   *)
(* its queue gets to them make one signal.                                 *)
(***************************************************************************)
Monitored == notifierRunning /\ changeObservers > 0

\* The handler will find the flags changed whenever it next compares them
\* while there is Wi-Fi.
LastSawNoWifi == previousFlags # NoFlags => connection(previousFlags) # "wifi"

ReachableBlockWaits == \E n \in 1..Len(mainQueue) : mainQueue[n] = "whenReachable"

\* The closures are there, and a return of Wi-Fi will be noticed: a block that
\* asks for Wi-Fi waits, the handler is yet to choose one, or it is at rest
\* and has not recorded Wi-Fi last.  The last look of the handler, the one
\* that records the flags, notices nothing.
Armed ==
    /\ closures
    /\ \/ ReachableBlockWaits
       \/ stage = "changed"
       \/ stage = "idle" /\ LastSawNoWifi

FlagsChange(f) ==
    /\ f # flags
    /\ flags' = f
    /\ signalled' = notifierRunning
    /\ slipped' = (slipped \/ stage = "captured")
    /\ wifiBack' =
          /\ connection(f) = "wifi"
          /\ wifiBack \/ (connection(flags) # "wifi" /\ Monitored /\ Armed)
    /\ UNCHANGED <<previousFlags, notifierRunning, checks, stage, mainQueue, closures,
                   manager, reported>>

---------------------------------------------------------------------------
HostCalls ==
    \/ getTypeConnection
    \/ stopMonitoring
    \/ \E u \in Users : startMonitoring(u) \/ startApplicationDidEnterBackground(u)
    \/ \E create \in BOOLEAN : createNotificationCenter(create)

SerialQueue == Compare \/ CaptureBlock \/ RecordFlags

MainQueue == Deliver \/ Install

Next ==
    \/ HostCalls
    \/ SerialQueue
    \/ MainQueue
    \/ EnterBackground
    \/ \E f \in FlagSets : FlagsChange(f)

Spec == Init /\ [][Next]_vars

\* Both dispatch queues run what is put on them.  The host, the user and the
\* network promise nothing.
FairSpec == Spec /\ WF_vars(SerialQueue) /\ WF_vars(MainQueue)

---------------------------------------------------------------------------
(***************************************************************************)
(* Properties                                                              *)
(***************************************************************************)

\* A running notifier with nothing left to do has recorded the present flags,
\* and the last block it chose was chosen for them, unless they changed
\* between that choice and the record: such a change, and no other, is
\* recorded without a block and overlooked until the next one.
QuietMeansReported ==
    notifierRunning /\ stage = "idle" /\ ~signalled /\ checks = 0
        => previousFlags = flags /\ (reported = flags \/ slipped)

\* Nobody is called back on behalf of a User the manager does not have, so
\* the optional call user?.sendDataSaveInDefault() is never skipped.
CallbacksHaveUser ==
    \/ user # NoUser
    \/ /\ ~closures /\ changeObservers = 0 /\ backObservers = 0
       /\ \A n \in 1..Len(mainQueue) : mainQueue[n] = "nil"

\* What such a return of Wi-Fi sets going is never lost, by whatever the host
\* does short of stopping, by flags that go on changing, or by the order of the
\* queues: until the data is sent there is a block that sends it, a handler
\* about to queue one, or a look at the flags still to come that will see them
\* changed; and when the block runs there is Wi-Fi and a User.
ReturnIsPending ==
    wifiBack =>
        /\ connection(flags) = "wifi" /\ user # NoUser
        /\ \/ ReachableBlockWaits
           \/ stage = "changed" /\ Block = "whenReachable"
           \/ /\ closures /\ stage = "idle" /\ LastSawNoWifi
              /\ signalled \/ checks > 0

\* If Wi-Fi comes back when the closures are installed, and not between the
\* handler's choice of a block and its record of the flags, then the data is
\* sent, unless Wi-Fi goes away again or monitoring stops.
ArmedReturnResends == wifiBack ~> ~wifiBack

===========================================================================
