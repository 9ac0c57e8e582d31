----------------------------- MODULE Proximity -----------------------------
(***************************************************************************)
(* The proximity scan of the mobile app (mobile/lib/ble_service.dart) and  *)
(* the switch that runs it (mobile/lib/main.dart, toggleProximity and      *)
(* dispose).  Dart runs one callback at a time; a toggle gives way at each *)
(* await, and the next tap on the switch does not wait for it.  A task is  *)
(* one call of toggleProximity or of dispose.  What flutter_blue_plus does *)
(* is external: its calls end some time later, or throw.                   *)
(***************************************************************************)
EXTENDS Integers, Sequences

CONSTANTS
    Tasks,          \* the taps on the switch, and the end of the page; a bound
    NoTask,         \* null
    Devices,        \* devices that advertise the OpenBioUnlock service
    Levels,         \* signal strengths
    nearThreshold,  \* -70, ble_service.dart:20
    farThreshold,   \* -82
    MaxReadings     \* bound on the results of one device between two stops

ASSUME ProximityAssumption ==
    /\ NoTask \notin Tasks
    /\ Levels \subseteq Int
    /\ nearThreshold \in Int /\ farThreshold \in Int
    /\ farThreshold <= nearThreshold
    /\ MaxReadings \in Nat

VARIABLES
    pc,             \* pc[t]: the await at which task t is
    mounted,        \* the page is there
    proximity,      \* the switch
    listeners,      \* the live listeners of the page, named by their task
    uiSubscription, \* proximitySubscription
    active,         \* the live subscriptions to scan results, named by their task
    subscription,   \* _subscription
    scanning,       \* the platform scans
    nearby,         \* _nearby; an absent entry reads as FALSE
    readings,       \* history: the results of each device since _nearby.clear()
    overlapped,     \* history: a task was started while another was at an await
    stopFailed      \* history: the latest stop() ended in an exception

proximityVars == <<pc, mounted, proximity, listeners, uiSubscription, active, subscription,
                   scanning, nearby, readings, overlapped, stopFailed>>

\* The awaits of startProximityScan: "onCancel", "onStop" and "onStart"; those of
\* switching off and of dispose: "uiCancel", "stop" and "cancel".
Awaits == {"onCancel", "onStop", "onStart", "uiCancel", "stop", "cancel"}

ProximityTypeOK ==
    /\ pc \in [Tasks -> Awaits \cup {"unused", "done"}]
    /\ mounted \in BOOLEAN
    /\ proximity \in BOOLEAN
    /\ listeners \in SUBSET Tasks
    /\ uiSubscription \in Tasks \cup {NoTask}
    /\ active \in SUBSET Tasks
    /\ subscription \in Tasks \cup {NoTask}
    /\ scanning \in BOOLEAN
    /\ nearby \in [Devices -> BOOLEAN]
    /\ readings \in [Devices -> Seq(Levels)]
    /\ overlapped \in BOOLEAN
    /\ stopFailed \in BOOLEAN

ProximityInit ==
    /\ pc = [t \in Tasks |-> "unused"]
    /\ mounted = TRUE
    /\ proximity = FALSE
    /\ listeners = {}
    /\ uiSubscription = NoTask
    /\ active = {}
    /\ subscription = NoTask
    /\ scanning = FALSE
    /\ nearby = [d \in Devices |-> FALSE]
    /\ readings = [d \in Devices |-> <<>>]
    /\ overlapped = FALSE
    /\ stopFailed = FALSE

Idle == \A t \in Tasks : pc[t] \notin Awaits

\* Task t starts and runs to its first await.
Begin(t, await) ==
    /\ mounted
    /\ pc[t] = "unused"
    /\ pc' = [pc EXCEPT ![t] = await]
    /\ overlapped' = (overlapped \/ ~Idle)

\* Task t goes on after `await` and runs to the next one, or to its end.
Resume(t, await, next) ==
    /\ pc[t] = await
    /\ pc' = [pc EXCEPT ![t] = next]

-----------------------------------------------------------------------------
(* toggleProximity(true) and startProximityScan *)

\* The page listens to the service, whose previous subscription is cancelled.
ToggleOn(t) ==
    /\ Begin(t, "onCancel")
    /\ ~proximity
    /\ proximity' = TRUE
    /\ uiSubscription' = t
    /\ listeners' = listeners \cup {t}
    /\ active' = active \ {subscription}
    /\ UNCHANGED <<mounted, subscription, scanning, nearby, readings, stopFailed>>

\* stopScan() is called.
OnStopScan(t) ==
    /\ Resume(t, "onCancel", "onStop")
    /\ UNCHANGED <<mounted, proximity, listeners, uiSubscription, active, subscription,
                   scanning, nearby, readings, overlapped, stopFailed>>

\* stopScan() has ended: subscribe and call startScan().
OnListen(t) ==
    /\ Resume(t, "onStop", "onStart")
    /\ scanning' = FALSE
    /\ subscription' = t
    /\ active' = active \cup {t}
    /\ UNCHANGED <<mounted, proximity, listeners, uiSubscription, nearby, readings,
                   overlapped, stopFailed>>

\* startScan() has ended.
OnStarted(t) ==
    /\ Resume(t, "onStart", "done")
    /\ scanning' = TRUE
    /\ UNCHANGED <<mounted, proximity, listeners, uiSubscription, active, subscription,
                   nearby, readings, overlapped, stopFailed>>

\* stopScan() or startScan() throws.  Nobody catches it: the switch stays on.
OnThrows(t) ==
    /\ Resume(t, "onStop", "done") \/ Resume(t, "onStart", "done")
    /\ UNCHANGED <<mounted, proximity, listeners, uiSubscription, active, subscription,
                   scanning, nearby, readings, overlapped, stopFailed>>

-----------------------------------------------------------------------------
(* toggleProximity(false), stop and dispose *)

\* Mutant: the listener of the page is kept.
ToggleOffKeeps(t) ==
    /\ Begin(t, "uiCancel")
    /\ proximity
    /\ proximity' = FALSE
    /\ UNCHANGED <<mounted, listeners, uiSubscription, active, subscription, scanning,
                   nearby, readings, stopFailed>>

\* The listener of the page is cancelled.
ToggleOff(t) ==
    /\ Begin(t, "uiCancel")
    /\ proximity
    /\ proximity' = FALSE
    /\ listeners' = listeners \ {uiSubscription}
    /\ UNCHANGED <<mounted, uiSubscription, active, subscription, scanning, nearby, readings,
                   stopFailed>>

\* stop() calls stopScan().
StopScan(t) ==
    /\ Resume(t, "uiCancel", "stop")
    /\ UNCHANGED <<mounted, proximity, listeners, uiSubscription, active, subscription,
                   scanning, nearby, readings, overlapped, stopFailed>>

\* The page goes away: its listener is cancelled and stop() calls stopScan().
dispose(t) ==
    /\ Begin(t, "stop")
    /\ mounted' = FALSE
    /\ listeners' = listeners \ {uiSubscription}
    /\ UNCHANGED <<proximity, uiSubscription, active, subscription, scanning, nearby, readings,
                   stopFailed>>

\* Mutant: the subscription is dropped without being cancelled.
StopDrops(t) ==
    /\ Resume(t, "stop", "cancel")
    /\ scanning' = FALSE
    /\ UNCHANGED <<mounted, proximity, listeners, uiSubscription, active, subscription,
                   nearby, readings, overlapped, stopFailed>>

\* stopScan() has ended: the subscription is cancelled.
StopCancels(t) ==
    /\ Resume(t, "stop", "cancel")
    /\ scanning' = FALSE
    /\ active' = active \ {subscription}
    /\ UNCHANGED <<mounted, proximity, listeners, uiSubscription, subscription, nearby,
                   readings, overlapped, stopFailed>>

\* stopScan() throws: the rest of stop() is skipped.
StopThrows(t) ==
    /\ Resume(t, "stop", "done")
    /\ stopFailed' = TRUE
    /\ UNCHANGED <<mounted, proximity, listeners, uiSubscription, active, subscription,
                   scanning, nearby, readings, overlapped>>

\* The cancellation has ended: whatever _subscription is by now is forgotten.
StopClears(t) ==
    /\ Resume(t, "cancel", "done")
    /\ subscription' = NoTask
    /\ nearby' = [d \in Devices |-> FALSE]
    /\ readings' = [d \in Devices |-> <<>>]
    /\ stopFailed' = FALSE
    /\ UNCHANGED <<mounted, proximity, listeners, uiSubscription, active, scanning, overlapped>>

-----------------------------------------------------------------------------
(* Scan results *)

\* Mutant: one threshold for coming and going.
IsNearbyPlain(previous, rssi) == rssi >= nearThreshold

\* A device comes near at the near threshold and leaves below the far one.
IsNearby(previous, rssi) ==
    IF previous THEN rssi >= farThreshold ELSE rssi >= nearThreshold

\* A result reaches a live subscription, possibly one that is late.
Result(t, d, rssi) ==
    /\ t \in active
    /\ Len(readings[d]) < MaxReadings
    /\ nearby' = [nearby EXCEPT ![d] = IsNearby(@, rssi)]
    /\ readings' = [readings EXCEPT ![d] = Append(@, rssi)]
    /\ UNCHANGED <<pc, mounted, proximity, listeners, uiSubscription, active, subscription,
                   scanning, overlapped, stopFailed>>

-----------------------------------------------------------------------------

ProximityNext ==
    \/ \E t \in Tasks : ToggleOn(t)
    \/ \E t \in Tasks : OnStopScan(t)
    \/ \E t \in Tasks : OnListen(t)
    \/ \E t \in Tasks : OnStarted(t)
    \/ \E t \in Tasks : OnThrows(t)
    \/ \E t \in Tasks : ToggleOff(t)
    \/ \E t \in Tasks : StopScan(t)
    \/ \E t \in Tasks : dispose(t)
    \/ \E t \in Tasks : StopCancels(t)
    \/ \E t \in Tasks : StopThrows(t)
    \/ \E t \in Tasks : StopClears(t)
    \/ \E t \in Tasks, d \in Devices, rssi \in Levels : Result(t, d, rssi)

ProximitySpec == ProximityInit /\ [][ProximityNext]_proximityVars

-----------------------------------------------------------------------------
(* Properties *)

\* A stop that has ended leaves nothing behind: no subscription, no scan and no
\* device remembered as near, whatever calls of the platform threw before, as
\* long as no tap came while another was being handled (ble_service.dart:20-40).
\* Taps that overlap do leave a subscription that nobody can cancel.
OffMeansOff ==
    Idle /\ ~overlapped /\ ~stopFailed /\ ~(proximity /\ mounted) =>
        /\ active = {}
        /\ ~scanning
        /\ \A d \in Devices : ~nearby[d]

\* With the switch off or the page gone nothing listens to the scan, whatever
\* taps overlap and whatever subscriptions are left behind: the status line does
\* not change (main.dart:46-57 and 93).
SilentWhenOff == ~(proximity /\ mounted) => listeners = {}

\* The results so far put the device near: one reached the near threshold, and
\* none since was below the far one.
InRange(s) ==
    \E i \in DOMAIN s : s[i] >= nearThreshold /\ \A j \in i .. Len(s) : s[j] >= farThreshold

\* A device counts as nearby exactly when its results say so, however many
\* subscriptions deliver them (ble_service.dart:26-28).
HysteresisRight == \A d \in Devices : nearby[d] <=> InRange(readings[d])

\* Inductive: without overlaps one task at a time holds the service, and every
\* live subscription is the one that the service knows of.
Calm ==
    /\ \A t, u \in Tasks : pc[t] \in Awaits /\ pc[u] \in Awaits => t = u
    /\ active \subseteq {subscription} \cap Tasks
    /\ \A t \in Tasks :
         /\ pc[t] \in {"onCancel", "onStop", "onStart"} => proximity /\ mounted
         /\ pc[t] \in {"onCancel", "onStop"} => active = {}
         /\ pc[t] \in {"uiCancel", "stop", "cancel"} => ~(proximity /\ mounted)
         /\ pc[t] = "cancel" => active = {} /\ ~scanning
    /\ Idle /\ ~stopFailed /\ ~(proximity /\ mounted) =>
         /\ active = {}
         /\ ~scanning
         /\ \A d \in Devices : ~nearby[d]

\* Inductive: the only listener is the one the page knows of.
ListenerKnown ==
    /\ listeners \subseteq {uiSubscription}
    /\ SilentWhenOff

ProximityInv ==
    /\ ProximityTypeOK
    /\ ~overlapped => Calm
    /\ ListenerKnown
    /\ HysteresisRight

=============================================================================
