-------------------------- MODULE ProximityGestures --------------------------
(***************************************************************************)
(* ProximitySensor.java of parts/: which movements in front of the         *)
(* proximity sensor launch a pulse of the ambient display.  The sensor     *)
(* reports changes, and its value when a listener is registered; the       *)
(* listener runs later, on the main thread.                                *)
(***************************************************************************)
EXTENDS Integers, Sequences

CONSTANTS
  HANDWAVE_MAX_DELTA,  \* in ticks; the code has 1 s
  POCKET_MIN_DELTA,    \* in ticks; the code has 2 s
  MaxTime,             \* bound of the clock
  MaxEvents            \* bound of the events waiting for the main thread

ASSUME DeltaAssumption ==
  /\ HANDWAVE_MAX_DELTA \in Nat /\ POCKET_MIN_DELTA \in Nat
  /\ HANDWAVE_MAX_DELTA < POCKET_MIN_DELTA
ASSUME BoundAssumption == MaxTime \in Nat /\ MaxEvents \in Nat

VARIABLES
  now,            \* SensorEvent.timestamp of an event that happens now
  near,           \* something covers the sensor
  nearSince,      \* since when, or when it was covered last
  cover,          \* how long it was covered then
  registered,     \* the listener is registered
  regSince,       \* since when
  events,         \* events on their way to the main thread
  mSawNear,
  mInPocketTime,
  handwave,       \* DozeUtils.isHandwaveGestureEnabled()
  pocket,         \* DozeUtils.isPocketGestureEnabled()
  last            \* the last event handled, and whether it launched a pulse

world == <<now, near, nearSince, cover>>
sensor == <<registered, regSince, events>>
object == <<mSawNear, mInPocketTime>>
prefs == <<handwave, pocket>>
vars == <<world, sensor, object, prefs, last>>

Times == 0..MaxTime

\* held: how long the sensor was covered when it was covered last.
\* whole: the listener was registered since before it was covered.
Event == [near : BOOLEAN, time : Times, held : Times, whole : BOOLEAN]
Handled == [event : Event, handwave : BOOLEAN, pocket : BOOLEAN, pulse : BOOLEAN]
NoneYet == [event |-> [near |-> TRUE, time |-> 0, held |-> 0, whole |-> FALSE],
            handwave |-> FALSE, pocket |-> FALSE, pulse |-> FALSE]

\* Types of the state; no reported time is in the future.
TypeOK ==
  /\ {now, nearSince, regSince, mInPocketTime} \subseteq 0..now
  /\ now <= MaxTime /\ cover \in 0..now
  /\ {near, registered, mSawNear, handwave, pocket} \subseteq BOOLEAN
  /\ events \in Seq(Event)
  /\ last \in Handled

InitNever == /\ now = 0 /\ near \in BOOLEAN /\ nearSince = 0 /\ cover = 0
             /\ registered = FALSE /\ regSince = 0 /\ events = <<>>
             /\ mSawNear = FALSE /\ mInPocketTime = -1
             /\ handwave \in BOOLEAN /\ pocket \in BOOLEAN
             /\ last = NoneYet
Init == /\ now = 0 /\ near \in BOOLEAN /\ nearSince = 0 /\ cover = 0
        /\ registered = FALSE /\ regSince = 0 /\ events = <<>>
        /\ mSawNear = FALSE /\ mInPocketTime = 0
        /\ handwave \in BOOLEAN /\ pocket \in BOOLEAN
        /\ last = NoneYet

Tick == /\ now < MaxTime /\ now' = now + 1
        /\ UNCHANGED <<near, nearSince, cover, sensor, object, prefs, last>>

Report ==
  events' = Append(events, [near |-> near', time |-> now, held |-> cover',
                            whole |-> registered /\ regSince <= nearSince])

\* Something covers the sensor, or uncovers it.
Move == /\ Len(events) < MaxEvents
        /\ near' = ~near
        /\ nearSince' = IF near THEN nearSince ELSE now
        /\ cover' = IF near THEN now - nearSince ELSE cover
        /\ IF registered THEN Report ELSE UNCHANGED events
        /\ UNCHANGED <<now, registered, regSince, object, prefs, last>>

\* enable() and disable(), when their executor gets to them.
Enable == /\ ~registered /\ Len(events) < MaxEvents
          /\ registered' = TRUE /\ regSince' = now
          /\ UNCHANGED <<world, object, prefs, last>> /\ Report
Disable == /\ registered
           /\ registered' = FALSE /\ events' = <<>>
           /\ UNCHANGED <<world, regSince, object, prefs, last>>

PrefChanges == /\ handwave' \in BOOLEAN /\ pocket' \in BOOLEAN
               /\ UNCHANGED <<world, sensor, object, last>>

\* shouldPulse; its limits are strict on one side only.
ShouldPulseLoose(time) ==
  LET delta == time - mInPocketTime
  IN  \/ handwave /\ pocket
      \/ handwave /\ ~pocket /\ delta <= HANDWAVE_MAX_DELTA
      \/ pocket /\ ~handwave /\ delta > POCKET_MIN_DELTA
ShouldPulse(time) ==
  LET delta == time - mInPocketTime
  IN  \/ handwave /\ pocket
      \/ handwave /\ ~pocket /\ delta < HANDWAVE_MAX_DELTA
      \/ pocket /\ ~handwave /\ delta >= POCKET_MIN_DELTA

\* mInPocketTime is set by every event but that which ends a cover.
EndsCover(e) == mSawNear /\ ~e.near

OnSensorChanged ==
  /\ events # <<>> /\ events' = Tail(events)
  /\ LET e == Head(events) IN
       /\ last' = [event |-> e, handwave |-> handwave, pocket |-> pocket,
                   pulse |-> EndsCover(e) /\ ShouldPulse(e.time)]
       /\ mInPocketTime' = IF EndsCover(e) THEN mInPocketTime ELSE e.time
       /\ mSawNear' = e.near
  /\ UNCHANGED <<world, registered, regSince, prefs>>

Next == Tick \/ Move \/ Enable \/ Disable \/ PrefChanges \/ OnSensorChanged
Spec == Init /\ [][Next]_vars

-----------------------------------------------------------------------------
Uncovered == ~last.event.near /\ last.event.whole
Wave == last.event.held < HANDWAVE_MAX_DELTA
InPocket == last.event.held >= POCKET_MIN_DELTA

\* With one gesture enabled, the end of a cover that the sensor has seen
\* from its beginning launches a pulse exactly if the sensor was covered for
\* the time of that gesture, however late the events were handled.
OneGestureExact ==
  Uncovered =>
    /\ last.handwave /\ ~last.pocket => (last.pulse <=> Wave)
    /\ last.pocket /\ ~last.handwave => (last.pulse <=> InPocket)

\* "Minimum time until the device is considered to have been in the pocket:
\* 2s": with only the pocket gesture enabled, a pulse means that the sensor
\* was covered that long when it was covered last.
PocketMeansCovered ==
  last.pulse /\ last.pocket /\ ~last.handwave => InPocket
=============================================================================
