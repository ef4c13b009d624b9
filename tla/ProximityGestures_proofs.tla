---------------------- MODULE ProximityGestures_proofs ----------------------
(***************************************************************************)
(* For all limits with HANDWAVE_MAX_DELTA < POCKET_MIN_DELTA, any clock    *)
(* bound and any queue of events: with one gesture enabled, the end of a   *)
(* cover that the listener has seen from its beginning launches a pulse    *)
(* exactly if the cover lasted as long as that gesture asks.               *)
(*                                                                         *)
(* The argument: an event that ends such a cover comes, in the queue, right*)
(* after the event that began it, or finds it in the object when it is the *)
(* first of the queue; so the object's mInPocketTime is the beginning of   *)
(* the cover when the end is handled, however late that is.                *)
(***************************************************************************)
EXTENDS ProximityGestures, TLAPS

USE DeltaAssumption, BoundAssumption

\* What the listener will have seen last when event k is handled.
Before(k) == IF k = 1 THEN [near |-> mSawNear, time |-> mInPocketTime]
             ELSE [near |-> events[k - 1].near, time |-> events[k - 1].time]

\* No event is reported from the future.
ReportedInv == \A k \in 1..Len(events) : events[k].time <= now

\* The end of a cover follows its beginning.
CoverInv ==
  \A k \in 1..Len(events) :
    events[k].whole /\ ~events[k].near =>
      Before(k) = [near |-> TRUE, time |-> events[k].time - events[k].held]

\* A cover that goes on, with the listener registered since before, is the
\* last thing that the listener has seen, or will have.
GoesOnInv ==
  registered /\ near /\ regSince <= nearSince =>
    Before(Len(events) + 1) = [near |-> TRUE, time |-> nearSince]

IInv == TypeOK /\ ReportedInv /\ CoverInv /\ GoesOnInv

\* The types, one variable at a time.
LEMMA Typed ==
  ASSUME TypeOK
  PROVE  /\ now \in 0..MaxTime /\ nearSince \in 0..now /\ regSince \in 0..now
         /\ mInPocketTime \in 0..now /\ cover \in 0..now
         /\ near \in BOOLEAN /\ registered \in BOOLEAN /\ mSawNear \in BOOLEAN
         /\ handwave \in BOOLEAN /\ pocket \in BOOLEAN
         /\ events \in Seq(Event) /\ last \in Handled
BY DEF TypeOK

LEMMA InitIInv == Init => IInv /\ OneGestureExact
<1> SUFFICES ASSUME Init PROVE IInv /\ OneGestureExact OBVIOUS
<1>1. NoneYet \in Handled
  BY DEF NoneYet, Handled, Event, Times
<1>2. TypeOK
  <2>1. {now, nearSince, regSince, mInPocketTime} \subseteq 0..now
    BY DEF Init
  <2>2. {near, registered, mSawNear, handwave, pocket} \subseteq BOOLEAN
    BY DEF Init
  <2>3. events \in Seq(Event) /\ now <= MaxTime /\ cover \in 0..now
    BY DEF Init
  <2> QED BY <1>1, <2>1, <2>2, <2>3 DEF Init, TypeOK
<1>3. ReportedInv /\ CoverInv /\ GoesOnInv
  BY DEF Init, ReportedInv, CoverInv, GoesOnInv
<1>4. OneGestureExact
  BY DEF Init, NoneYet, OneGestureExact, Uncovered
<1> QED BY <1>2, <1>3, <1>4 DEF IInv

\* An event reported now goes to the end of the queue; the rest of the queue
\* stays, and so does what is seen before it.
LEMMA Appended ==
  ASSUME TypeOK, NEW e \in Event, events' = Append(events, e), UNCHANGED object,
         NEW n \in Nat, n = Len(events)
  PROVE  /\ events' \in Seq(Event) /\ Len(events') = n + 1
         /\ \A k \in 1..n : events'[k] = events[k]
         /\ events'[n + 1] = e
         /\ \A k \in 1..(n + 1) : Before(k)' = Before(k)
         /\ Before(n + 2)' = [near |-> e.near, time |-> e.time]
<1>1. events \in Seq(Event)
  BY DEF TypeOK
<1>2. /\ events' \in Seq(Event) /\ Len(events') = n + 1
      /\ \A k \in 1..n : events'[k] = events[k]
      /\ events'[n + 1] = e
  BY <1>1
<1>3. \A k \in 1..(n + 1) : Before(k)' = Before(k)
  BY <1>2 DEF Before, object
<1>4. Before(n + 2)' = [near |-> e.near, time |-> e.time]
  <2>1. n + 2 # 1 /\ (n + 2) - 1 = n + 1
    OBVIOUS
  <2> QED BY <1>2, <2>1 DEF Before
<1> QED BY <1>2, <1>3, <1>4

\* Something covers the sensor, or uncovers it.
LEMMA MoveInv ==
  ASSUME IInv, Move
  PROVE  IInv'
<1> DEFINE e == [near |-> near', time |-> now, held |-> cover',
                 whole |-> registered /\ regSince <= nearSince]
<1>1. /\ near' = ~near /\ now' = now /\ UNCHANGED <<registered, regSince, last>>
      /\ UNCHANGED <<mSawNear, mInPocketTime, handwave, pocket>>
      /\ nearSince' = IF near THEN nearSince ELSE now
      /\ cover' = IF near THEN now - nearSince ELSE cover
  BY DEF Move, object, prefs
<1>2. TypeOK /\ ReportedInv /\ CoverInv /\ GoesOnInv
  BY DEF IInv
<1>3. /\ nearSince' \in 0..now /\ cover' \in 0..now
      /\ near' \in BOOLEAN /\ now \in 0..MaxTime
  BY <1>1, <1>2, Typed
<1>4. CASE ~registered
  <2>1. events' = events
    BY <1>4 DEF Move
  <2>2. TypeOK'
    BY <1>1, <1>2, <1>3, <2>1, Typed DEF TypeOK
  <2>3. \A k : Before(k)' = Before(k)
    BY <1>1, <2>1 DEF Before
  <2> QED BY <1>1, <1>2, <1>4, <2>1, <2>2, <2>3
          DEF IInv, ReportedInv, CoverInv, GoesOnInv
<1>5. CASE registered
  <2>1. events' = Append(events, e)
    BY <1>5 DEF Move, Report
  <2>2. e \in Event
    BY <1>2, <1>3, Typed DEF Event, Times
  <2>3. PICK n \in Nat : n = Len(events)
    BY <1>2, Typed
  <2>4. /\ events' \in Seq(Event) /\ Len(events') = n + 1
        /\ \A k \in 1..n : events'[k] = events[k]
        /\ events'[n + 1] = e
        /\ \A k \in 1..(n + 1) : Before(k)' = Before(k)
        /\ Before(n + 2)' = [near |-> e.near, time |-> e.time]
    BY <1>1, <1>2, <2>1, <2>2, <2>3, Appended DEF object
  <2>5. TypeOK'
    BY <1>1, <1>2, <1>3, <2>3, <2>4, Typed DEF TypeOK
  <2>6. ReportedInv'
    <3> SUFFICES ASSUME NEW k \in 1..(n + 1)
                 PROVE  events'[k].time <= now
      BY <1>1, <2>3, <2>4 DEF ReportedInv
    <3>1. CASE k = n + 1
      BY <1>3, <2>3, <2>4, <3>1
    <3>2. CASE k \in 1..n
      BY <1>2, <2>3, <2>4, <3>2 DEF ReportedInv
    <3> QED BY <2>4, <3>1, <3>2
  <2>7. CoverInv'
    <3> SUFFICES ASSUME NEW k \in 1..(n + 1),
                        events'[k].whole, ~events'[k].near
                 PROVE  Before(k) = [near |-> TRUE, time |->
                                       events'[k].time - events'[k].held]
      BY <2>3, <2>4 DEF CoverInv
    <3>1. CASE k = n + 1
      <4>1. near /\ regSince <= nearSince /\ ~near'
        BY <1>1, <1>2, <2>3, <2>4, <3>1, Typed
      <4>2. Before(k) = [near |-> TRUE, time |-> nearSince]
        BY <1>2, <1>5, <2>3, <3>1, <4>1 DEF GoesOnInv
      <4>3. e.time - e.held = nearSince
        BY <1>1, <1>2, <4>1, Typed
      <4> QED BY <2>3, <2>4, <3>1, <4>2, <4>3
    <3>2. CASE k \in 1..n
      BY <1>2, <2>3, <2>4, <3>2 DEF CoverInv
    <3> QED BY <2>4, <3>1, <3>2
  <2>8. GoesOnInv'
    <3>1. near' => nearSince' = now /\ ~near
      BY <1>1, <1>2, Typed
    <3>2. Before(n + 2)' = [near |-> near', time |-> now]
      BY <2>4
    <3>3. (n + 1) + 1 = n + 2
      OBVIOUS
    <3>4. Before(Len(events) + 1)' = Before(n + 2)'
      BY <2>4, <3>3 DEF Before
    <3>5. near' => Before(n + 2)' = [near |-> TRUE, time |-> nearSince']
      BY <3>1, <3>2
    <3> QED BY <3>4, <3>5 DEF GoesOnInv
  <2> QED BY <2>5, <2>6, <2>7, <2>8 DEF IInv
<1> QED BY <1>2, <1>4, <1>5, Typed

\* enable(): the value reported at registration begins a cover for the
\* listener only if the sensor was covered at that moment.
LEMMA EnableInv ==
  ASSUME IInv, Enable
  PROVE  IInv'
<1> DEFINE e == [near |-> near', time |-> now, held |-> cover',
                 whole |-> registered /\ regSince <= nearSince]
<1>1. /\ ~registered /\ registered' = TRUE /\ regSince' = now
      /\ UNCHANGED <<now, near, nearSince, cover, last>>
      /\ UNCHANGED <<mSawNear, mInPocketTime, handwave, pocket>>
      /\ events' = Append(events, e)
  BY DEF Enable, Report, world, object, prefs
<1>2. TypeOK /\ ReportedInv /\ CoverInv
  BY DEF IInv
<1>3. e \in Event /\ e.whole = FALSE /\ now \in 0..MaxTime
  BY <1>1, <1>2, Typed DEF Event, Times
<1>4. PICK n \in Nat : n = Len(events)
  BY <1>2, Typed
<1>5. /\ events' \in Seq(Event) /\ Len(events') = n + 1
      /\ \A k \in 1..n : events'[k] = events[k]
      /\ events'[n + 1] = e
      /\ \A k \in 1..(n + 1) : Before(k)' = Before(k)
      /\ Before(n + 2)' = [near |-> e.near, time |-> e.time]
  BY <1>1, <1>2, <1>3, <1>4, Appended DEF object
<1>6. TypeOK'
  BY <1>1, <1>2, <1>5, Typed DEF TypeOK
<1>7. ReportedInv' /\ CoverInv'
  <2> SUFFICES ASSUME NEW k \in 1..(n + 1)
               PROVE  /\ events'[k].time <= now
                      /\ events'[k].whole /\ ~events'[k].near =>
                           Before(k) = [near |-> TRUE, time |->
                                          events'[k].time - events'[k].held]
    BY <1>1, <1>5 DEF ReportedInv, CoverInv
  <2>1. CASE k = n + 1
    BY <1>3, <1>5, <2>1
  <2>2. CASE k \in 1..n
    BY <1>2, <1>4, <1>5, <2>2 DEF ReportedInv, CoverInv
  <2> QED BY <1>5, <2>1, <2>2
<1>8. GoesOnInv'
  <2>1. now <= nearSince => nearSince = now
    BY <1>2, Typed
  <2>2. Before(n + 2)' = [near |-> near, time |-> now]
    BY <1>1, <1>5
  <2>3. (n + 1) + 1 = n + 2
    OBVIOUS
  <2> QED BY <1>1, <1>5, <2>1, <2>2, <2>3 DEF GoesOnInv
<1> QED BY <1>6, <1>7, <1>8 DEF IInv

\* disable() drops the events on their way.
LEMMA DisableInv ==
  ASSUME IInv, Disable
  PROVE  IInv'
<1>1. /\ registered' = FALSE /\ events' = <<>>
      /\ UNCHANGED <<now, near, nearSince, cover, regSince, last>>
      /\ UNCHANGED <<mSawNear, mInPocketTime, handwave, pocket>>
  BY DEF Disable, world, object, prefs
<1>2. TypeOK'
  <2>1. events' \in Seq(Event)
    BY <1>1
  <2> QED BY <1>1, <2>1, Typed DEF IInv, TypeOK
<1>3. ReportedInv' /\ CoverInv' /\ GoesOnInv'
  BY <1>1 DEF ReportedInv, CoverInv, GoesOnInv
<1> QED BY <1>2, <1>3 DEF IInv

\* Time passes, or the preferences change.
LEMMA OutsideInv ==
  ASSUME IInv, Tick \/ PrefChanges \/ UNCHANGED vars
  PROVE  IInv'
<1>1. /\ UNCHANGED <<near, nearSince, cover, registered, regSince, events>>
      /\ UNCHANGED <<mSawNear, mInPocketTime, last>>
      /\ now' \in {now, now + 1} /\ now' <= MaxTime
      /\ handwave' \in BOOLEAN /\ pocket' \in BOOLEAN
  BY Typed DEF Tick, PrefChanges, vars, world, sensor, object, prefs, IInv
<1>2. TypeOK'
  BY <1>1, Typed DEF IInv, TypeOK
<1>3. \A k : Before(k)' = Before(k)
  BY <1>1 DEF Before
<1>4. CoverInv' /\ GoesOnInv'
  BY <1>1, <1>3 DEF IInv, CoverInv, GoesOnInv
<1>5. ReportedInv'
  <2> SUFFICES ASSUME NEW k \in 1..Len(events) PROVE events[k].time <= now'
    BY <1>1 DEF ReportedInv
  <2>1. events[k] \in Event
    BY Typed DEF IInv
  <2>2. events[k].time <= now /\ events[k].time \in Int /\ now \in Int
    BY <2>1, Typed DEF IInv, ReportedInv, Event, Times
  <2> QED BY <1>1, <2>2
<1> QED BY <1>2, <1>4, <1>5 DEF IInv

\* The listener handles the first event of the queue: the second one now
\* finds it in the object.
LEMMA HandledInv ==
  ASSUME IInv, OnSensorChanged
  PROVE  IInv' /\ OneGestureExact'
<1> DEFINE e == events[1]
<1>1. TypeOK /\ ReportedInv /\ CoverInv /\ GoesOnInv
  BY DEF IInv
<1>2. /\ events # <<>> /\ events' = Tail(events)
      /\ last' = [event |-> e, handwave |-> handwave, pocket |-> pocket,
                  pulse |-> EndsCover(e) /\ ShouldPulse(e.time)]
      /\ mInPocketTime' = IF EndsCover(e) THEN mInPocketTime ELSE e.time
      /\ mSawNear' = e.near
      /\ UNCHANGED <<now, near, nearSince, cover, registered, regSince>>
      /\ UNCHANGED <<handwave, pocket>>
  <2>1. events # <<>> => Head(events) = events[1]
    BY <1>1, Typed
  <2> QED BY <2>1 DEF OnSensorChanged, world, prefs
<1>3. /\ Len(events) \in Nat \ {0} /\ e \in Event
      /\ events' \in Seq(Event) /\ Len(events') = Len(events) - 1
      /\ \A k \in 1..Len(events') : events'[k] = events[k + 1]
  BY <1>1, <1>2, Typed
<1>4. e.near \in BOOLEAN /\ e.time \in Times /\ e.held \in Times
      /\ e.whole \in BOOLEAN /\ e.time <= now
  BY <1>1, <1>3 DEF Event, ReportedInv
<1>5. (EndsCover(e) /\ ShouldPulse(e.time)) \in BOOLEAN
  BY DEF EndsCover
<1>6. TypeOK'
  <2>1. last' \in Handled
    BY <1>1, <1>2, <1>3, <1>5, Typed DEF Handled
  <2>2. mInPocketTime' \in 0..now
    BY <1>1, <1>2, <1>4, Typed DEF Times
  <2> QED BY <1>1, <1>2, <1>3, <1>4, <2>1, <2>2, Typed DEF TypeOK
<1>7. ReportedInv'
  BY <1>1, <1>2, <1>3 DEF ReportedInv
<1>8. ASSUME NEW k \in 1..Len(events), k # 1 \/ e.near
      PROVE  Before(k)' = Before(k + 1)
  <2>1. CASE k = 1
    <3>1. mInPocketTime' = e.time /\ mSawNear' = e.near
      BY <1>2, <1>8, <2>1 DEF EndsCover
    <3> QED BY <1>3, <2>1, <3>1 DEF Before
  <2>2. CASE k # 1
    <3>1. k - 1 \in 1..Len(events') /\ events'[k - 1] = events[k]
      BY <1>3, <2>2
    <3> QED BY <1>3, <2>2, <3>1 DEF Before
  <2> QED BY <2>1, <2>2
<1>9. CoverInv'
  <2> SUFFICES ASSUME NEW k \in 1..Len(events'), events'[k].whole,
                      ~events'[k].near
               PROVE  Before(k)' = [near |-> TRUE, time |->
                                     events'[k].time - events'[k].held]
    BY DEF CoverInv
  <2>1. /\ k + 1 \in 1..Len(events) /\ k \in 1..Len(events)
        /\ events'[k] = events[k + 1]
    BY <1>3
  <2>2. Before(k + 1) = [near |-> TRUE, time |->
                           events'[k].time - events'[k].held]
    BY <1>1, <2>1 DEF CoverInv
  <2>3. k = 1 => e.near
    BY <2>2 DEF Before
  <2> QED BY <1>8, <2>1, <2>2, <2>3
<1>10. GoesOnInv'
  <2> SUFFICES ASSUME registered, near, regSince <= nearSince
               PROVE  GoesOnInv'
    BY <1>2 DEF GoesOnInv
  <2>0. PICK n \in Nat \ {0} : n = Len(events)
    BY <1>3
  <2>1. Before(n + 1) = [near |-> TRUE, time |-> nearSince]
    BY <1>1, <2>0 DEF GoesOnInv
  <2>2. n = 1 => e.near
    BY <2>1 DEF Before
  <2>3. Before(n)' = Before(n + 1)
    <3>1. n \in 1..Len(events)
      BY <2>0
    <3> QED BY <1>8, <2>2, <3>1
  <2>4. Len(events') + 1 = n
    BY <1>3, <2>0
  <2> QED BY <1>2, <2>1, <2>3, <2>4 DEF GoesOnInv
<1>11. OneGestureExact'
  <2> SUFFICES ASSUME ~e.near, e.whole
               PROVE  /\ handwave /\ ~pocket =>
                           (last'.pulse <=> e.held < HANDWAVE_MAX_DELTA)
                      /\ pocket /\ ~handwave =>
                           (last'.pulse <=> e.held >= POCKET_MIN_DELTA)
    BY <1>2 DEF OneGestureExact, Uncovered, Wave, InPocket
  <2>1. Before(1) = [near |-> TRUE, time |-> e.time - e.held]
    BY <1>1, <1>3 DEF CoverInv
  <2>2. mSawNear = TRUE /\ mInPocketTime = e.time - e.held
    BY <2>1 DEF Before
  <2>3. e.time - mInPocketTime = e.held
    BY <1>4, <2>2 DEF Times
  <2>4. last'.pulse <=> ShouldPulse(e.time)
    BY <1>2, <2>2 DEF EndsCover
  <2> QED BY <2>3, <2>4 DEF ShouldPulse
<1> QED BY <1>6, <1>7, <1>9, <1>10, <1>11 DEF IInv

LEMMA StepIInv ==
  IInv /\ OneGestureExact /\ [Next]_vars => IInv' /\ OneGestureExact'
<1> SUFFICES ASSUME IInv, OneGestureExact, [Next]_vars
             PROVE  IInv' /\ OneGestureExact'
  OBVIOUS
<1>1. CASE OnSensorChanged
  BY <1>1, HandledInv
<1>2. CASE ~OnSensorChanged
  <2>1. last' = last
    BY <1>2 DEF Next, Tick, Move, Enable, Disable, PrefChanges, vars
  <2>2. OneGestureExact'
    BY <2>1 DEF OneGestureExact, Uncovered, Wave, InPocket
  <2> QED BY <1>2, <2>2, MoveInv, EnableInv, DisableInv, OutsideInv DEF Next
<1> QED BY <1>1, <1>2

\* The order of the queue tells each end of a cover where it began.
THEOREM Invariance == Spec => [](IInv /\ OneGestureExact)
BY InitIInv, StepIInv, PTL DEF Spec

\* Every time that the sensor or the object knows is in the past, and the
\* clock stays within its bound.
THEOREM TypeCorrect == Spec => []TypeOK
<1>1. IInv => TypeOK
  BY DEF IInv
<1> QED BY <1>1, Invariance, PTL

\* With one gesture enabled, the end of a cover that the sensor has seen from
\* its beginning launches a pulse exactly if the cover lasted as long as that
\* gesture asks, however late its events were handled.
THEOREM OneGestureTheorem == Spec => []OneGestureExact
BY Invariance, PTL
=============================================================================
