------------------------ MODULE NetworkMonitorProofs ------------------------
(***************************************************************************)
(* Proofs about NetworkMonitor: what holds for any sets of flags and users *)
(* and any bounds.                                                         *)
(***************************************************************************)
EXTENDS NetworkMonitor, TLAPS

\* The actions, one to a case.
LEMMA StepCases ==
  [Next]_vars =>
    \/ getTypeConnection
    \/ stopMonitoring
    \/ \E u \in Users : startMonitoring(u)
    \/ \E u \in Users : startApplicationDidEnterBackground(u)
    \/ \E create \in BOOLEAN : createNotificationCenter(create)
    \/ Compare
    \/ CaptureBlock
    \/ RecordFlags
    \/ Deliver
    \/ Install
    \/ EnterBackground
    \/ \E f \in FlagSets : FlagsChange(f)
    \/ UNCHANGED vars
  BY Zenon DEF Next, HostCalls, SerialQueue, MainQueue

---------------------------------------------------------------------------
(***************************************************************************)
(* Types.                                                                  *)
(***************************************************************************)

\* TypeOK in four parts.
NotifierOK ==
    /\ flags \in FlagSets
    /\ previousFlags \in FlagSets \cup {NoFlags}
    /\ stage \in {"idle", "changed", "captured"}
    /\ reported \in FlagSets \cup {NoFlags}

SwitchesOK ==
    /\ notifierRunning \in BOOLEAN
    /\ signalled \in BOOLEAN
    /\ closures \in BOOLEAN
    /\ slipped \in BOOLEAN
    /\ wifiBack \in BOOLEAN
    /\ hasCreateNotificationCenter \in BOOLEAN
    /\ user \in Users \cup {NoUser}

CountsOK ==
    /\ checks \in 0..MaxChecks
    /\ changeObservers \in Nat
    /\ backObservers \in 0..MaxObservers

QueueOK == mainQueue \in Seq(Blocks)

LEMMA TypeParts == TypeOK <=> NotifierOK /\ SwitchesOK /\ CountsOK /\ QueueOK
  BY Zenon DEF TypeOK, NotifierOK, SwitchesOK, CountsOK, QueueOK

\* startNotifier queues at most one more check.
LEMMA StartTyped ==
    ASSUME checks \in 0..MaxChecks, NEW running \in BOOLEAN, StartNotifier(running)
    PROVE  /\ checks' \in 0..MaxChecks
           /\ notifierRunning' \in BOOLEAN
<1>1. CASE UNCHANGED checks /\ notifierRunning' \in BOOLEAN
  BY <1>1
<1>2. CASE checks < MaxChecks /\ checks' = checks + 1 /\ notifierRunning' \in BOOLEAN
  BY <1>2, MonitorAssumption
<1> QED
  BY <1>1, <1>2, Zenon DEF StartNotifier

LEMMA TypeInit == Init => TypeOK
<1> SUFFICES ASSUME Init PROVE TypeOK
  OBVIOUS
<1>1. NotifierOK
  BY DEF Init, NotifierOK
<1>2. SwitchesOK
  BY Zenon DEF Init, SwitchesOK
<1>3. CountsOK
  BY MonitorAssumption DEF Init, CountsOK
<1>4. QueueOK
  BY DEF Init, QueueOK
<1> QED
  BY <1>1, <1>2, <1>3, <1>4, TypeParts

LEMMA TypeStep == TypeOK /\ [Next]_vars => TypeOK'
<1> SUFFICES ASSUME NotifierOK, SwitchesOK, CountsOK, QueueOK, [Next]_vars
             PROVE  NotifierOK' /\ SwitchesOK' /\ CountsOK' /\ QueueOK'
  BY TypeParts, Zenon DEF TypeOK, NotifierOK, SwitchesOK, CountsOK, QueueOK
<1> DEFINE Typed == NotifierOK /\ SwitchesOK /\ CountsOK /\ QueueOK
<1>1. ASSUME getTypeConnection PROVE Typed'
  <2>1. checks' \in 0..MaxChecks /\ notifierRunning' \in BOOLEAN
    BY <1>1, StartTyped, Zenon DEF getTypeConnection, SwitchesOK, CountsOK
  <2> QED
    BY <1>1, <2>1, Zenon DEF getTypeConnection, manager, history, NotifierOK, SwitchesOK, CountsOK, QueueOK
<1>2. ASSUME stopMonitoring PROVE Typed'
  <2>1. changeObservers' \in Nat
    BY <1>2 DEF stopMonitoring, RegistrationsAfterRemoval
  <2> QED
    BY <1>2, <2>1, Zenon DEF stopMonitoring, NotifierOK, SwitchesOK, CountsOK, QueueOK
<1>3. ASSUME NEW u \in Users, startMonitoring(u) PROVE Typed'
  <2>1. checks' \in 0..MaxChecks /\ notifierRunning' \in BOOLEAN
    BY <1>3, StartTyped, Zenon DEF startMonitoring, CountsOK
  <2>2. changeObservers' \in Nat
    BY <1>3 DEF startMonitoring, RegistrationsAfterRemoval
  <2>3. wifiBack' \in BOOLEAN
    BY <1>3, Zenon DEF startMonitoring
  <2> QED
    BY <1>3, <2>1, <2>2, <2>3, Zenon
    DEF startMonitoring, NotifierOK, SwitchesOK, CountsOK, QueueOK
<1>4. ASSUME NEW u \in Users, startApplicationDidEnterBackground(u) PROVE Typed'
  <2>1. checks' \in 0..MaxChecks /\ notifierRunning' \in BOOLEAN
    BY <1>4, StartTyped, Zenon DEF startApplicationDidEnterBackground, SwitchesOK, CountsOK
  <2>2. backObservers' \in 0..MaxObservers
    BY <1>4, MonitorAssumption DEF startApplicationDidEnterBackground, CountsOK
  <2> QED
    BY <1>4, <2>1, <2>2, Zenon
    DEF startApplicationDidEnterBackground, history, NotifierOK, SwitchesOK, CountsOK, QueueOK
<1>5. ASSUME Compare PROVE Typed'
  <2>1. checks' \in 0..MaxChecks
    BY <1>5, MonitorAssumption DEF Compare, CountsOK
  <2>2. stage' \in {"idle", "changed", "captured"}
    BY <1>5 DEF Compare
  <2>3. signalled' \in BOOLEAN
    BY <1>5, Zenon DEF Compare, SwitchesOK
  <2> QED
    BY <1>5, <2>1, <2>2, <2>3, Zenon
    DEF Compare, manager, history, NotifierOK, SwitchesOK, CountsOK, QueueOK
<1>6. ASSUME CaptureBlock PROVE Typed'
  <2>1. Block \in Blocks
    BY Zenon DEF Block, Blocks
  <2>2. QueueOK'
    BY <1>6, <2>1 DEF CaptureBlock, QueueOK
  <2>3. stage' \in {"idle", "changed", "captured"}
    BY <1>6 DEF CaptureBlock
  <2> QED
    BY <1>6, <2>2, <2>3, Zenon DEF CaptureBlock, manager, NotifierOK, SwitchesOK, CountsOK
<1>7. ASSUME RecordFlags PROVE Typed'
  <2>1. NotifierOK'
    BY <1>7 DEF RecordFlags, history, NotifierOK
  <2> QED
    BY <1>7, <2>1, Zenon DEF RecordFlags, manager, history, SwitchesOK, CountsOK, QueueOK
<1>8. ASSUME Deliver PROVE Typed'
  <2>1. QueueOK'
    <3>1. [n \in 1..changeObservers |-> "install"] \in Seq(Blocks)
      BY DEF CountsOK, Blocks
    <3>2. Tail(mainQueue) \in Seq(Blocks)
      BY <1>8 DEF Deliver, QueueOK
    <3>3. mainQueue' = Tail(mainQueue) \o [n \in 1..changeObservers |-> "install"]
      BY <1>8, Zenon DEF Deliver
    <3>4. \A s, t \in Seq(Blocks) : s \o t \in Seq(Blocks)
      OBVIOUS
    <3> QED
      BY <3>1, <3>2, <3>3, <3>4, Zenon DEF QueueOK
  <2>2. wifiBack' \in BOOLEAN
    BY <1>8, Zenon DEF Deliver
  <2> QED
    BY <1>8, <2>1, <2>2, Zenon DEF Deliver, notifier, manager, NotifierOK, SwitchesOK, CountsOK
<1>9. ASSUME Install PROVE Typed'
  <2>1. QueueOK'
    BY <1>9 DEF Install, QueueOK
  <2> QED
    BY <1>9, <2>1, Zenon DEF Install, notifier, manager, history, NotifierOK, SwitchesOK, CountsOK
<1>10. ASSUME EnterBackground PROVE Typed'
    BY <1>10, Zenon
    DEF EnterBackground, notifier, manager, NotifierOK, SwitchesOK, CountsOK, QueueOK
<1>11. ASSUME NEW f \in FlagSets, FlagsChange(f) PROVE Typed'
  <2>1. wifiBack' \in BOOLEAN /\ slipped' \in BOOLEAN
    BY <1>11, Zenon DEF FlagsChange
  <2> QED
    BY <1>11, <2>1, Zenon
    DEF FlagsChange, manager, NotifierOK, SwitchesOK, CountsOK, QueueOK
<1>12. ASSUME UNCHANGED vars PROVE Typed'
  BY <1>12, Zenon
  DEF vars, notifier, manager, history, NotifierOK, SwitchesOK, CountsOK, QueueOK
<1>13. ASSUME NEW create \in BOOLEAN, createNotificationCenter(create) PROVE Typed'
  BY <1>13, Zenon
  DEF createNotificationCenter, notifier, history, NotifierOK, SwitchesOK, CountsOK, QueueOK
<1> QED
  BY <1>1, <1>2, <1>3, <1>4, <1>5, <1>6, <1>7, <1>8, <1>9, <1>10, <1>11, <1>12, <1>13,
     StepCases, Zenon

\* The notifier, the manager and the queues keep their types.
THEOREM TypeCorrect == Spec => []TypeOK
<1> QED
  BY TypeInit, TypeStep, PTL DEF Spec

---------------------------------------------------------------------------
(***************************************************************************)
(* The notifier.                                                           *)
(***************************************************************************)

\* A start that runs a stopped notifier leaves a check to do.
LEMMA StartLeavesCheck ==
    ASSUME checks \in 0..MaxChecks, NEW running \in BOOLEAN, StartNotifier(running),
           notifierRunning'
    PROVE  (running /\ checks' = checks) \/ checks' # 0
<1>1. checks + 1 # 0
  BY MonitorAssumption
<1> QED
  BY <1>1, Zenon DEF StartNotifier

\* What a running notifier that has nothing to do knows: it is not behind the
\* device.
QuietIsUpToDate ==
    notifierRunning /\ stage = "idle" /\ ~signalled /\ checks = 0
        => previousFlags = flags

\* What the handler has recorded it has reported, and what it is about to
\* record it has, unless the flags slipped away under it.
RecordsAreReported ==
    IF stage = "captured" THEN reported = flags \/ slipped
                          ELSE previousFlags = reported \/ slipped

LEMMA QuietStep == TypeOK /\ QuietIsUpToDate /\ [Next]_vars => QuietIsUpToDate'
<1> SUFFICES ASSUME TypeOK, QuietIsUpToDate, [Next]_vars,
                    notifierRunning', stage' = "idle", ~signalled', checks' = 0
             PROVE  previousFlags' = flags'
  BY Zenon DEF QuietIsUpToDate
<1>1. ASSUME getTypeConnection PROVE previousFlags' = flags'
  BY <1>1, StartLeavesCheck, Zenon DEF getTypeConnection, QuietIsUpToDate, TypeOK
<1>2. ASSUME stopMonitoring PROVE previousFlags' = flags'
  BY <1>2, Zenon DEF stopMonitoring
<1>3. ASSUME NEW u \in Users, startMonitoring(u) PROVE previousFlags' = flags'
  BY <1>3, StartLeavesCheck, Zenon DEF startMonitoring, TypeOK
<1>4. ASSUME NEW u \in Users, startApplicationDidEnterBackground(u)
      PROVE  previousFlags' = flags'
  BY <1>4, StartLeavesCheck, Zenon
  DEF startApplicationDidEnterBackground, QuietIsUpToDate, TypeOK
<1>5. ASSUME Compare PROVE previousFlags' = flags'
  <2>1. previousFlags = flags
    BY <1>5 DEF Compare
  <2> QED
    BY <1>5, <2>1, Zenon DEF Compare
<1>6. ASSUME CaptureBlock PROVE previousFlags' = flags'
  BY <1>6 DEF CaptureBlock
<1>7. ASSUME RecordFlags PROVE previousFlags' = flags'
  BY <1>7, Zenon DEF RecordFlags
<1>8. ASSUME UNCHANGED <<flags, notifier>> PROVE previousFlags' = flags'
  BY <1>8, Zenon DEF notifier, QuietIsUpToDate
<1>9. ASSUME NEW f \in FlagSets, FlagsChange(f) PROVE previousFlags' = flags'
  BY <1>9, Zenon DEF FlagsChange
<1>10. (Deliver \/ Install \/ EnterBackground \/ UNCHANGED vars
          \/ \E create \in BOOLEAN : createNotificationCenter(create))
          => UNCHANGED <<flags, notifier>>
  BY Zenon DEF Deliver, Install, EnterBackground, createNotificationCenter, vars
<1> QED
  BY <1>1, <1>2, <1>3, <1>4, <1>5, <1>6, <1>7, <1>8, <1>9, <1>10, StepCases, Zenon

LEMMA ReportedStep == RecordsAreReported /\ [Next]_vars => RecordsAreReported'
<1> SUFFICES ASSUME RecordsAreReported, [Next]_vars PROVE RecordsAreReported'
  OBVIOUS
<1>1. CASE Compare
  <2>1. stage # "captured" /\ stage' # "captured"
    BY <1>1 DEF Compare
  <2> QED
    BY <1>1, <2>1, Zenon DEF Compare, history, RecordsAreReported
<1>2. CASE CaptureBlock
  BY <1>2, Zenon DEF CaptureBlock, RecordsAreReported
<1>3. CASE RecordFlags
  <2>1. stage = "captured" /\ stage' # "captured"
    BY <1>3 DEF RecordFlags
  <2> QED
    BY <1>3, <2>1, Zenon DEF RecordFlags, history, RecordsAreReported
<1>4. ASSUME NEW f \in FlagSets, FlagsChange(f) PROVE RecordsAreReported'
  BY <1>4, Zenon DEF FlagsChange, RecordsAreReported
<1>5. CASE UNCHANGED <<flags, previousFlags, stage, reported, slipped>>
  BY <1>5, Zenon DEF RecordsAreReported
<1>6. \/ Compare \/ CaptureBlock \/ RecordFlags \/ \E f \in FlagSets : FlagsChange(f)
      \/ UNCHANGED <<flags, previousFlags, stage, reported, slipped>>
  BY StepCases, Zenon
  DEF getTypeConnection, stopMonitoring, startMonitoring, startApplicationDidEnterBackground,
      createNotificationCenter, Deliver, Install, EnterBackground, notifier, history, vars
<1> QED
  BY <1>1, <1>2, <1>3, <1>4, <1>5, <1>6, Zenon

\* A notifier at rest has told its observers of the present flags, unless they
\* changed between its choice of the last block and its record of the flags.
THEOREM QuietMeansReportedHolds == Spec => []QuietMeansReported
<1>1. Init => QuietIsUpToDate /\ RecordsAreReported
  BY DEF Init, QuietIsUpToDate, RecordsAreReported
<1>2. QuietIsUpToDate /\ RecordsAreReported => QuietMeansReported
  BY DEF QuietIsUpToDate, RecordsAreReported, QuietMeansReported
<1> QED
  BY <1>1, <1>2, TypeInit, TypeStep, QuietStep, ReportedStep, PTL DEF Spec

---------------------------------------------------------------------------
(***************************************************************************)
(* Callbacks and the User.  Without a User nothing is registered, nothing  *)
(* is installed and no block on the main queue is more than a bare         *)
(* notification; and a User never goes away again.                         *)
(***************************************************************************)
BareQueue(q) == \A n \in 1..Len(q) : q[n] = "nil"

LEMMA BareAppend ==
    ASSUME NEW q \in Seq(Blocks), BareQueue(q)
    PROVE  BareQueue(Append(q, "nil"))
  BY DEF BareQueue

LEMMA BareTail ==
    ASSUME NEW q \in Seq(Blocks), BareQueue(q), q # <<>>,
           NEW t, t = Tail(q) \o [n \in 1..0 |-> "install"]
    PROVE  BareQueue(t) /\ Head(q) = "nil"
<1>1. [n \in 1..0 |-> "install"] = <<>>
  OBVIOUS
<1>2. Tail(q) \in Seq(Blocks) /\ t = Tail(q)
  BY <1>1
<1> QED
  BY <1>2 DEF BareQueue

LEMMA CallbacksStep == TypeOK /\ CallbacksHaveUser /\ [Next]_vars => CallbacksHaveUser'
<1> SUFFICES ASSUME TypeOK, CallbacksHaveUser, [Next]_vars PROVE CallbacksHaveUser'
  OBVIOUS
<1>1. CASE user # NoUser
  <2>1. user' \in Users \cup {user}
    BY StepCases, Zenon
    DEF getTypeConnection, stopMonitoring, startMonitoring, startApplicationDidEnterBackground,
        createNotificationCenter, Compare, CaptureBlock, RecordFlags, Deliver, Install,
        EnterBackground, FlagsChange, manager, vars
  <2>2. user' # NoUser
    BY <1>1, <2>1, MonitorAssumption, Zenon
  <2> QED
    BY <2>2, Zenon DEF CallbacksHaveUser
<1>2. CASE /\ ~closures /\ changeObservers = 0 /\ backObservers = 0
           /\ BareQueue(mainQueue)
  <2> DEFINE Idle == ~closures /\ changeObservers = 0 /\ backObservers = 0
  <2>1. ASSUME NEW u \in Users,
               startMonitoring(u) \/ startApplicationDidEnterBackground(u)
        PROVE  user' # NoUser
    BY <2>1, MonitorAssumption, Zenon
    DEF startMonitoring, startApplicationDidEnterBackground
  <2>2. ASSUME CaptureBlock PROVE Idle' /\ BareQueue(mainQueue')
    <3>1. mainQueue' = Append(mainQueue, "nil")
      BY <1>2, <2>2, Zenon DEF CaptureBlock, Block
    <3>2. BareQueue(mainQueue')
      BY <1>2, <3>1, BareAppend, Zenon DEF TypeOK
    <3> QED
      BY <1>2, <2>2, <3>2, Zenon DEF CaptureBlock, manager
  <2>3. ASSUME Deliver PROVE Idle' /\ BareQueue(mainQueue')
    <3>1. mainQueue # <<>> /\ mainQueue' = Tail(mainQueue) \o [n \in 1..0 |-> "install"]
      BY <1>2, <2>3, Zenon DEF Deliver
    <3>2. BareQueue(mainQueue')
      BY <1>2, <3>1, BareTail, Zenon DEF TypeOK
    <3> QED
      BY <1>2, <2>3, <3>2, Zenon DEF Deliver, manager
  <2>4. ~Install
    <3>1. mainQueue # <<>> => Head(mainQueue) = "nil"
      BY <1>2 DEF TypeOK, BareQueue
    <3> QED
      BY <3>1 DEF Install
  <2>5. ASSUME mainQueue' = mainQueue, closures' = closures,
               changeObservers' \in {0, changeObservers}, backObservers' = backObservers
        PROVE  Idle' /\ BareQueue(mainQueue')
    BY <1>2, <2>5, Zenon
  <2>6. ASSUME getTypeConnection \/ stopMonitoring \/ Compare \/ RecordFlags
                 \/ EnterBackground \/ UNCHANGED vars \/ (\E f \in FlagSets : FlagsChange(f))
                 \/ (\E create \in BOOLEAN : createNotificationCenter(create))
        PROVE  /\ mainQueue' = mainQueue /\ closures' = closures
               /\ changeObservers' \in {0, changeObservers} /\ backObservers' = backObservers
    BY <2>6, Zenon DEF getTypeConnection, stopMonitoring, RegistrationsAfterRemoval,
       createNotificationCenter, Compare, RecordFlags, EnterBackground, FlagsChange, manager, vars
  <2>7. user' # NoUser \/ (Idle' /\ BareQueue(mainQueue'))
    BY <2>1, <2>2, <2>3, <2>4, <2>5, <2>6, StepCases, Zenon
  <2> QED
    BY <2>7, Zenon DEF CallbacksHaveUser, BareQueue
<1> QED
  BY <1>1, <1>2, Zenon DEF CallbacksHaveUser, BareQueue

\* No call of user?.sendDataSaveInDefault() is skipped for want of a User.
THEOREM CallbacksHaveUserHolds == Spec => []CallbacksHaveUser
<1>1. Init => CallbacksHaveUser
  BY DEF Init, CallbacksHaveUser
<1> QED
  BY <1>1, TypeInit, TypeStep, CallbacksStep, PTL DEF Spec

---------------------------------------------------------------------------
(***************************************************************************)
(* A return of Wi-Fi that can be noticed.  ReturnIsPending is inductive    *)
(* together with the facts that the notifier runs and the closures are     *)
(* there for as long as it is owed.                                        *)
(***************************************************************************)
ArmedInv == wifiBack => notifierRunning /\ closures

Resends(q) == \E n \in 1..Len(q) : q[n] = "whenReachable"

\* The handler at rest that will find the flags changed.
AtRest == stage = "idle" /\ LastSawNoWifi

LEMMA ResendsAppend ==
    ASSUME NEW q \in Seq(Blocks), NEW b \in Blocks, Resends(q) \/ b = "whenReachable"
    PROVE  Resends(Append(q, b))
<1>1. CASE b = "whenReachable"
  <2>1. Append(q, b)[Len(q) + 1] = "whenReachable" /\ Len(q) + 1 \in 1..Len(Append(q, b))
    BY <1>1
  <2> QED
    BY <2>1, Zenon DEF Resends
<1>2. CASE Resends(q)
  BY <1>2 DEF Resends
<1> QED
  BY <1>1, <1>2

LEMMA ResendsTail ==
    ASSUME NEW q \in Seq(Blocks), NEW t \in Seq(Blocks), Resends(q), q # <<>>,
           Head(q) # "whenReachable"
    PROVE  Resends(Tail(q) \o t)
<1>1. PICK n \in 1..Len(q) : q[n] = "whenReachable"
  BY DEF Resends
<1>2. n # 1
  BY <1>1
<1>3. (Tail(q) \o t)[n - 1] = "whenReachable" /\ n - 1 \in 1..Len(Tail(q) \o t)
  BY <1>1, <1>2
<1> QED
  BY <1>3, Zenon DEF Resends

\* With the closures installed and Wi-Fi there, the handler queues the block
\* that has the data sent.
LEMMA WifiBlock == closures /\ connection(flags) = "wifi" => Block = "whenReachable"
  BY DEF Block

LEMMA BlockTyped == Block \in Blocks
  BY Zenon DEF Block, Blocks

LEMMA UserStays == TypeOK /\ user # NoUser /\ [Next]_vars => user' # NoUser
<1> SUFFICES ASSUME TypeOK, user # NoUser, [Next]_vars PROVE user' # NoUser
  OBVIOUS
<1>1. user' \in Users \cup {user}
  BY StepCases, Zenon
  DEF getTypeConnection, stopMonitoring, startMonitoring, startApplicationDidEnterBackground,
      createNotificationCenter, Compare, CaptureBlock, RecordFlags, Deliver, Install,
      EnterBackground, FlagsChange, manager, vars
<1> QED
  BY <1>1, MonitorAssumption, Zenon

LEMMA PendingStep ==
    ASSUME TypeOK, CallbacksHaveUser, ArmedInv, ReturnIsPending, [Next]_vars
    PROVE  ArmedInv' /\ ReturnIsPending'
<1> SUFFICES ASSUME wifiBack'
             PROVE  /\ notifierRunning' /\ closures'
                    /\ connection(flags)' = "wifi" /\ user' # NoUser
                    /\ \/ AtRest' /\ (signalled' \/ checks' # 0)
                       \/ stage' = "changed"
                       \/ Resends(mainQueue)'
  <2>1. checks' \in Nat /\ checks' # 0 => checks' > 0
    OBVIOUS
  <2>2. checks' \in Nat
    BY TypeStep DEF TypeOK
  <2>3. closures' /\ connection(flags)' = "wifi" => Block' = "whenReachable"
    BY DEF Block, connection
  <2> QED
    BY <2>1, <2>2, <2>3, Zenon
    DEF ArmedInv, ReturnIsPending, ReachableBlockWaits, AtRest, Resends
<1> DEFINE Waiting == \/ AtRest /\ (signalled \/ checks # 0)
                      \/ stage = "changed"
                      \/ Resends(mainQueue)
           Goal == /\ notifierRunning' /\ closures'
                   /\ connection(flags)' = "wifi" /\ user' # NoUser
                   /\ Waiting'
<1>0. ASSUME wifiBack
      PROVE  /\ notifierRunning /\ closures /\ connection(flags) = "wifi"
             /\ user # NoUser /\ user' # NoUser /\ Waiting
  <2>1. user # NoUser /\ connection(flags) = "wifi"
    BY <1>0, Zenon DEF ReturnIsPending
  <2>2. checks \in Nat
    BY DEF TypeOK
  <2>3. checks > 0 => checks # 0
    BY <2>2
  <2> QED
    BY <1>0, <2>1, <2>3, UserStays, Zenon
    DEF ArmedInv, ReturnIsPending, ReachableBlockWaits, AtRest, Resends
<1>1. ASSUME UNCHANGED <<flags, previousFlags, stage, mainQueue, closures, wifiBack>>,
             notifierRunning',
             \/ signalled' = signalled /\ checks' = checks
             \/ checks' # 0
      PROVE  Goal
  <2>1. connection(flags)' = connection(flags) /\ (AtRest' <=> AtRest)
    BY <1>1, Zenon DEF AtRest, LastSawNoWifi, connection
  <2>2. Resends(mainQueue)' <=> Resends(mainQueue)
    BY <1>1, Zenon DEF Resends
  <2>3. wifiBack /\ closures' = closures /\ stage' = stage
    BY <1>1
  <2>4. Waiting'
    BY <1>0, <1>1, <2>1, <2>2, <2>3
  <2> QED
    BY <1>0, <1>1, <2>1, <2>3, <2>4
<1>2. CASE Compare
  <2>1. CASE ~Resends(mainQueue)
    <3>1. previousFlags # flags
      BY <1>0, <1>2, <2>1, MonitorAssumption, Zenon
      DEF Compare, AtRest, LastSawNoWifi, history, TypeOK
    <3> QED
      BY <1>0, <1>2, <3>1, Zenon DEF Compare, manager, history, connection
  <2> QED
    BY <1>0, <1>2, <2>1, Zenon DEF Compare, manager, history, connection
<1>3. CASE CaptureBlock
  <2>1. Resends(mainQueue')
    BY <1>0, <1>3, ResendsAppend, WifiBlock, BlockTyped DEF CaptureBlock, TypeOK
  <2> QED
    BY <1>0, <1>3, <2>1, Zenon DEF CaptureBlock, manager, connection
<1>4. CASE RecordFlags
  <2>1. Resends(mainQueue)
    BY <1>0, <1>4 DEF RecordFlags, AtRest, history
  <2> QED
    BY <1>0, <1>4, <2>1, Zenon DEF RecordFlags, manager, history, connection
<1>5. CASE Deliver
  <2>1. wifiBack /\ ~ResendsOnDelivery
    BY <1>5, Zenon DEF Deliver
  <2>2. Head(mainQueue) # "whenReachable"
    BY <1>0, <2>1, Zenon DEF ResendsOnDelivery
  <2>3. Resends(mainQueue) => Resends(mainQueue')
    <3>1. [n \in 1..changeObservers |-> "install"] \in Seq(Blocks)
      BY DEF TypeOK, Blocks
    <3> QED
      BY <1>5, <2>2, <3>1, ResendsTail DEF Deliver, TypeOK
  <2> QED
    BY <1>0, <1>5, <2>1, <2>3, Zenon
    DEF Deliver, notifier, manager, AtRest, LastSawNoWifi, connection
<1>6. CASE Install
  <2>1. Resends(mainQueue) => Resends(mainQueue')
    <3>1. mainQueue' = Tail(mainQueue) \o <<>> /\ <<>> \in Seq(Blocks)
      BY <1>6 DEF Install, TypeOK
    <3>2. mainQueue # <<>> /\ Head(mainQueue) # "whenReachable"
      BY <1>6 DEF Install
    <3> QED
      BY <3>1, <3>2, ResendsTail, Zenon DEF TypeOK
  <2> QED
    BY <1>0, <1>6, <2>1, Zenon
    DEF Install, notifier, manager, history, AtRest, LastSawNoWifi, connection
<1>7. ASSUME NEW f \in FlagSets, FlagsChange(f) PROVE Goal
  <2>1. connection(flags)' = "wifi"
    BY <1>7, Zenon DEF FlagsChange, connection
  <2>2. Waiting /\ notifierRunning => Waiting'
    BY <1>7, Zenon DEF FlagsChange, AtRest, LastSawNoWifi, Resends, connection
  <2>3. CASE ~wifiBack
    <3>1. Monitored /\ Armed
      BY <1>7, <2>3, Zenon DEF FlagsChange
    <3>2. user # NoUser
      BY <3>1, Zenon DEF CallbacksHaveUser, Armed
    <3>3. user' # NoUser
      BY <3>2, UserStays
    <3>4. Waiting'
      BY <1>7, <3>1, Zenon
      DEF FlagsChange, Monitored, Armed, ReachableBlockWaits, AtRest, LastSawNoWifi, Resends,
          connection
    <3> QED
      BY <1>7, <2>1, <3>1, <3>3, <3>4, Zenon DEF FlagsChange, Monitored, Armed
  <2>4. CASE wifiBack
    BY <1>0, <1>7, <2>1, <2>2, <2>4, Zenon DEF FlagsChange
  <2> QED
    BY <2>3, <2>4, Zenon
<1>8. CASE UNCHANGED vars
  BY <1>1, <1>0, <1>8, Zenon DEF vars, notifier, history
<1>9. CASE getTypeConnection
  BY <1>0, <1>1, <1>9, StartLeavesCheck, Zenon
  DEF getTypeConnection, StartNotifier, history, TypeOK
<1>10. ASSUME NEW u \in Users, startMonitoring(u) PROVE Goal
  <2>1. notifierRunning' /\ wifiBack' = wifiBack
    BY <1>10, Zenon DEF startMonitoring
  <2>2. checks' # 0
    BY <1>10, <2>1, StartLeavesCheck, Zenon DEF startMonitoring, TypeOK
  <2> QED
    BY <1>1, <1>10, <2>1, <2>2, Zenon DEF startMonitoring
<1>11. ASSUME NEW u \in Users, startApplicationDidEnterBackground(u) PROVE Goal
  BY <1>0, <1>1, <1>11, StartLeavesCheck, Zenon
  DEF startApplicationDidEnterBackground, StartNotifier, history, TypeOK
<1>12. ~stopMonitoring /\ ~EnterBackground
  BY DEF stopMonitoring, EnterBackground
<1>13. ASSUME NEW create \in BOOLEAN, createNotificationCenter(create) PROVE Goal
  BY <1>0, <1>1, <1>13, Zenon DEF createNotificationCenter, notifier, history
<1> QED
  BY <1>1, <1>2, <1>3, <1>4, <1>5, <1>6, <1>7, <1>8, <1>9, <1>10, <1>11, <1>12, <1>13,
     StepCases, Zenon

\* A return of Wi-Fi that can be noticed is never lost on its way to the User.
THEOREM ReturnIsPendingHolds == Spec => []ReturnIsPending
<1>1. Init => ArmedInv /\ ReturnIsPending /\ CallbacksHaveUser
  BY DEF Init, ArmedInv, ReturnIsPending, CallbacksHaveUser
<1>2. TypeOK /\ CallbacksHaveUser /\ ArmedInv /\ ReturnIsPending /\ [Next]_vars
        => ArmedInv' /\ ReturnIsPending'
  BY PendingStep
<1> QED
  BY <1>1, <1>2, TypeInit, TypeStep, CallbacksStep, PTL DEF Spec

\* With nothing on its way in the notifier, its handler and the main queue,
\* no such return is without its resend.
THEOREM RestMeansResent ==
    Spec => [](/\ mainQueue = <<>> /\ stage = "idle" /\ ~signalled /\ checks = 0
               => ~wifiBack)
<1>1. ReturnIsPending
        => (/\ mainQueue = <<>> /\ stage = "idle" /\ ~signalled /\ checks = 0
            => ~wifiBack)
  BY DEF ReturnIsPending, ReachableBlockWaits
<1> QED
  BY <1>1, ReturnIsPendingHolds, PTL

===========================================================================
