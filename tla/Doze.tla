-------------------------------- MODULE Doze --------------------------------
(***************************************************************************)
(* The ambient display service of parts/: DozeSettingsFragment (settings), *)
(* DozeUtils.checkDozeService (starts and stops the service), DozeService  *)
(* (reacts to the screen) and the enable() and disable() of PickupSensor   *)
(* and ProximitySensor (register and unregister a listener, each on an     *)
(* executor thread of its own).                                            *)
(*                                                                         *)
(* Everything but the executors runs on the application's main thread, one *)
(* message of mainQ at a time.  What the system sends to it, the messages  *)
(* of the activity manager (life) and the screen broadcasts (bcast),       *)
(* arrives there in the order in which each was sent, after any delay.     *)
(***************************************************************************)
EXTENDS Integers, Sequences, FiniteSetsExt

CONSTANTS
  Instances,     \* identities of DozeService objects
  AodAvailable,  \* DozeUtils.alwaysOnDisplayAvailable()
  MaxQueue,      \* bound: no new screen change or settings change while
                 \* this many messages and tasks are pending,
  MaxRaces       \* and the same for a user who is not careful

ASSUME BooleanAssumption == AodAvailable \in BOOLEAN
ASSUME MaxQueueAssumption == {MaxQueue, MaxRaces} \subseteq Nat \ {0}

None == "none"
ASSUME NoneAssumption == None \notin Instances

Sensors == {"pickup", "proximity"}
Gestures == {"pick_up", "hand_wave", "pocket"}
GesturesOf(s) == IF s = "pickup" THEN {"pick_up"} ELSE {"hand_wave", "pocket"}

VARIABLES
  careful,    \* the user of this behaviour changes settings only once the
              \* application has been told that the screen is on, and stays
              \* in the settings activity
  screen,     \* "on" or "off"
  doze,       \* Settings.Secure.DOZE_ENABLED
  aod,        \* Settings.Secure.DOZE_ALWAYS_ON
  pref,       \* pref[g]: the preference of gesture g
  fragment,   \* DozeSettingsFragment is attached to its activity
  started,    \* the activity manager has DozeService as started
  life,       \* its messages on their way to the application
  bcast,      \* the screen broadcasts on their way to the application
  mainQ,      \* messages of the main thread
  service,    \* the live DozeService object, or None
  tasks,      \* tasks[d][s]: queue of the executor of d's sensor s
  listeners   \* <<d, s>>: d's sensor s is registered as a listener

world == <<careful, screen>>
settings == <<doze, aod, pref>>
system == <<started, life>>
objects == <<service, tasks, listeners>>
vars == <<world, settings, fragment, system, bcast, mainQ, objects>>

Messages == {"boot", "check", "orphan", "create", "destroy", "on", "off",
             "forgotten"}
Tasks == {"register", "unregister"}

IsScreen(msg) == msg \in {"on", "off"}
ScreenTold == bcast = <<>> /\ \A k \in DOMAIN mainQ : ~IsScreen(mainQ[k])

\* Types of the state.  A screen broadcast never reaches the application
\* while there is no service object whose receiver could handle it.
TypeOK ==
  /\ careful \in BOOLEAN
  /\ screen \in {"on", "off"}
  /\ doze \in BOOLEAN /\ aod \in BOOLEAN
  /\ pref \in [Gestures -> BOOLEAN]
  /\ fragment \in BOOLEAN /\ started \in BOOLEAN
  /\ life \in Seq({"create", "destroy"})
  /\ bcast \in Seq({"on", "off"})
  /\ mainQ \in Seq(Messages)
  /\ service \in Instances \cup {None}
  /\ tasks \in [Instances -> [Sensors -> Seq(Tasks)]]
  /\ listeners \subseteq Instances \X Sensors
  /\ service = None => ScreenTold

Idle == [d \in Instances |-> [s \in Sensors |-> <<>>]]

\* "boot": BootCompletedReceiver.onReceive is about to run.
Init == /\ careful \in BOOLEAN
        /\ screen \in {"on", "off"}
        /\ doze \in BOOLEAN
        /\ aod \in IF AodAvailable THEN BOOLEAN ELSE {FALSE}
        /\ pref \in [Gestures -> BOOLEAN]
        /\ fragment = FALSE
        /\ started = FALSE /\ life = <<>> /\ bcast = <<>>
        /\ mainQ = <<"boot">>
        /\ service = None /\ tasks = Idle /\ listeners = {}

\* Messages and tasks on their way.
TasksOf(d) == Len(tasks[d]["pickup"]) + Len(tasks[d]["proximity"])
Pending == Len(mainQ) + Len(life) + Len(bcast)
             + MapThenSumSet(TasksOf, Instances)
Room == Pending < IF careful THEN MaxQueue ELSE MaxRaces

-----------------------------------------------------------------------------
(* DozeUtils.                                                              *)

SensorsEnabled(p) == \E g \in Gestures : p[g]
SensorUsed(s) == \E g \in GesturesOf(s) : pref[g]
Wanted(d, a, p) == d /\ ~a /\ SensorsEnabled(p)

\* checkDozeService with the given settings.  The activity manager ignores
\* the start of a started service and the stop of a stopped one.
CheckDozeService(d, a, p) ==
  IF Wanted(d, a, p) = started THEN UNCHANGED system
  ELSE /\ started' = ~started
       /\ life' = Append(life, IF started THEN "destroy" ELSE "create")

-----------------------------------------------------------------------------
(* The system: the screen, and the delivery of messages.                   *)

\* The broadcast goes to the receivers registered at that moment.
ScreenChanges ==
  /\ Room
  /\ screen' = IF screen = "on" THEN "off" ELSE "on"
  /\ bcast' = IF service = None THEN bcast ELSE Append(bcast, screen')
  /\ UNCHANGED <<careful, settings, fragment, system, mainQ, objects>>

ArriveLife ==
  /\ life # <<>>
  /\ mainQ' = Append(mainQ, Head(life)) /\ life' = Tail(life)
  /\ UNCHANGED <<world, settings, fragment, started, bcast, objects>>

ArriveBroadcast ==
  /\ bcast # <<>>
  /\ mainQ' = Append(mainQ, Head(bcast)) /\ bcast' = Tail(bcast)
  /\ UNCHANGED <<world, settings, fragment, system, objects>>

-----------------------------------------------------------------------------
(* DozeSettingsFragment.                                                   *)

UserActs ==
  /\ fragment /\ screen = "on" /\ Room
  /\ careful => ScreenTold

\* onPreferenceChange of a gesture: posts checkDozeService, and the
\* preference is stored when it returns.  The gestures are disabled while
\* doze is off or the always-on display is on.
GestureChanges ==
  /\ UserActs /\ doze /\ ~(AodAvailable /\ aod)
  /\ \E g \in Gestures : pref' = [pref EXCEPT ![g] = ~@]
  /\ mainQ' = Append(mainQ, "check")
  /\ UNCHANGED <<world, doze, aod, fragment, system, bcast, objects>>

\* onPreferenceChange of the always-on display.
AlwaysOnChanges ==
  /\ UserActs /\ AodAvailable /\ doze
  /\ aod' = ~aod
  /\ mainQ' = Append(mainQ, "check")
  /\ UNCHANGED <<world, doze, pref, fragment, system, bcast, objects>>

\* onCheckedChanged of the switch bar: the check is made at once, before
\* the always-on display is switched off with doze.
DozeChangesLate ==
  /\ UserActs
  /\ doze' = ~doze
  /\ CheckDozeService(doze, aod, pref)
  /\ aod' = (aod /\ doze')
  /\ UNCHANGED <<world, pref, fragment, bcast, mainQ, objects>>
DozeChanges ==
  /\ UserActs
  /\ doze' = ~doze
  /\ CheckDozeService(doze', aod, pref)
  /\ aod' = (aod /\ doze')
  /\ UNCHANGED <<world, pref, fragment, bcast, mainQ, objects>>

Open == /\ ~fragment /\ screen = "on" /\ fragment' = TRUE
        /\ UNCHANGED <<world, settings, system, bcast, mainQ, objects>>

\* The checks that the fragment has posted are left without an activity.
Leave ==
  /\ ~careful /\ fragment
  /\ fragment' = FALSE
  /\ mainQ' = [k \in DOMAIN mainQ |->
                 IF mainQ[k] = "check" THEN "orphan" ELSE mainQ[k]]
  /\ UNCHANGED <<world, settings, system, bcast, objects>>

-----------------------------------------------------------------------------
(* The main thread.                                                        *)

Receive(msg) == mainQ # <<>> /\ Head(mainQ) = msg

Check ==
  /\ Receive("boot") \/ Receive("check")
  /\ mainQ' = Tail(mainQ)
  /\ CheckDozeService(doze, aod, pref)
  /\ UNCHANGED <<world, settings, fragment, bcast, objects>>

\* getActivity() is null: checkDozeService throws and the process dies.  The
\* activity manager restarts the service (START_STICKY) if it was started.
Orphan ==
  /\ Receive("orphan")
  /\ mainQ' = <<>> /\ bcast' = <<>> /\ fragment' = FALSE
  /\ service' = None /\ tasks' = Idle /\ listeners' = {}
  /\ life' = IF started THEN <<"create">> ELSE <<>>
  /\ UNCHANGED <<world, settings, started>>

\* No executor of d has work left and no listener of d is registered.
Unused(d) == /\ d # service /\ tasks[d] = Idle[d]
             /\ \A s \in Sensors : <<d, s>> \notin listeners

OnCreate ==
  /\ Receive("create") /\ mainQ' = Tail(mainQ)
  /\ \E d \in Instances : Unused(d) /\ service' = d
  /\ UNCHANGED <<world, settings, fragment, system, bcast, tasks, listeners>>

\* tasks after submitting t to the executors of the given sensors.
Submit(used, t) ==
  [tasks EXCEPT ![service] =
     [s \in Sensors |-> IF s \in used THEN Append(@[s], t) ELSE @[s]]]
Used == {s \in Sensors : SensorUsed(s)}

\* unregisterReceiver: broadcasts on their way are dropped, and those that
\* wait for the main thread will do nothing.
Forget(q) ==
  [k \in DOMAIN q |-> IF IsScreen(q[k]) THEN "forgotten" ELSE q[k]]
OnDestroyIfUsed ==
  /\ Receive("destroy") /\ mainQ' = Forget(Tail(mainQ))
  /\ bcast' = <<>>
  /\ tasks' = Submit(Used, "unregister")
  /\ service' = None
  /\ UNCHANGED <<world, settings, fragment, system, listeners>>
OnDestroyKeepReceiver ==
  /\ Receive("destroy") /\ mainQ' = Tail(mainQ)
  /\ tasks' = Submit(Sensors, "unregister")
  /\ service' = None
  /\ UNCHANGED <<world, settings, fragment, system, bcast, listeners>>
OnDestroy ==
  /\ Receive("destroy") /\ mainQ' = Forget(Tail(mainQ))
  /\ bcast' = <<>>
  /\ tasks' = Submit(Sensors, "unregister")
  /\ service' = None
  /\ UNCHANGED <<world, settings, fragment, system, listeners>>

\* Only the sensors of gestures that are enabled now.
OnDisplayOnPickup ==
  /\ Receive("on") /\ mainQ' = Tail(mainQ)
  /\ tasks' = Submit(Used \cap {"pickup"}, "unregister")
  /\ UNCHANGED <<world, settings, fragment, system, bcast, service, listeners>>
OnDisplayOn ==
  /\ Receive("on") /\ mainQ' = Tail(mainQ)
  /\ tasks' = Submit(Used, "unregister")
  /\ UNCHANGED <<world, settings, fragment, system, bcast, service, listeners>>

OnDisplayOffProximity ==
  /\ Receive("off") /\ mainQ' = Tail(mainQ)
  /\ tasks' = Submit({s \in Sensors : s = "pickup" => pref["hand_wave"]} \cap Used,
                     "register")
  /\ UNCHANGED <<world, settings, fragment, system, bcast, service, listeners>>
OnDisplayOff ==
  /\ Receive("off") /\ mainQ' = Tail(mainQ)
  /\ tasks' = Submit(Used, "register")
  /\ UNCHANGED <<world, settings, fragment, system, bcast, service, listeners>>

Forgotten ==
  /\ Receive("forgotten") /\ mainQ' = Tail(mainQ)
  /\ UNCHANGED <<world, settings, fragment, system, bcast, objects>>

MainThread == \/ Check \/ Orphan \/ OnCreate \/ OnDestroy
              \/ OnDisplayOn \/ OnDisplayOff \/ Forgotten

-----------------------------------------------------------------------------
(* The executor of d's sensor s.                                           *)

Pop(d, s) == tasks' = [tasks EXCEPT ![d][s] = Tail(@)]

Register(d, s) ==
  /\ tasks[d][s] # <<>> /\ Head(tasks[d][s]) = "register"
  /\ Pop(d, s) /\ listeners' = listeners \cup {<<d, s>>}
Unregister(d, s) ==
  /\ tasks[d][s] # <<>> /\ Head(tasks[d][s]) = "unregister"
  /\ Pop(d, s) /\ listeners' = listeners \ {<<d, s>>}

Executor(d, s) ==
  /\ Register(d, s) \/ Unregister(d, s)
  /\ UNCHANGED <<world, settings, fragment, system, bcast, mainQ, service>>

User == GestureChanges \/ AlwaysOnChanges \/ DozeChanges \/ Open \/ Leave

Next == \/ ScreenChanges \/ ArriveLife \/ ArriveBroadcast
        \/ User \/ MainThread
        \/ \E d \in Instances, s \in Sensors : Executor(d, s)

\* The looper, the executors and the system deliver what is pending;
\* nothing is assumed of the user and of the screen.
Fairness ==
  /\ WF_vars(ArriveLife) /\ WF_vars(ArriveBroadcast) /\ WF_vars(MainThread)
  /\ \A d \in Instances, s \in Sensors : WF_vars(Executor(d, s))

Spec == Init /\ [][Next]_vars /\ Fairness

-----------------------------------------------------------------------------
Settled == /\ mainQ = <<>> /\ life = <<>> /\ bcast = <<>> /\ tasks = Idle

\* Once everything is delivered, and if the user was careful, the service
\* runs exactly if the settings ask for it, however the changes of the
\* settings and the checks they posted were interleaved.
ServiceMatchesSettings ==
  Settled /\ careful => (service # None <=> Wanted(doze, aod, pref))

\* Once everything is delivered, no object but the live service listens to
\* a sensor: a stopped service leaves no listener behind, though it had
\* tasks queued on its executors when it was destroyed.
OwnedListeners == Settled => listeners \subseteq {service} \X Sensors

\* Once everything is delivered, no sensor is listened to with the screen
\* on and a careful user, although onDisplayOn leaves alone the sensors of
\* disabled gestures.
QuietWhenOn == Settled /\ careful /\ screen = "on" => listeners = {}

\* With the screen off and a careful user, the service listens to the
\* sensors of all enabled gestures, or, if it was started after the screen
\* went off, to none.
ArmedTogether == Settled /\ careful /\ screen = "off" =>
                   \/ listeners = {}
                   \/ listeners = {<<service, s>> : s \in Used}

\* When doze is off for good, sooner or later no sensor is listened to, and
\* none ever again.
OffIsQuiet == <>[](~doze) => <>[](listeners = {})
=============================================================================
