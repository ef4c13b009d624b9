---------------------------- MODULE Doze_proofs -----------------------------
(***************************************************************************)
(* The ambient display service, for any set of service objects, queues of  *)
(* any length and any user: what holds once everything is delivered.       *)
(*                                                                         *)
(* The argument follows the messages.  In the order in which they arrive   *)
(* they carry their receiver from what it believes to what is true: those  *)
(* of the activity manager from a live or no service object to whether the *)
(* service is started, the broadcasts from the screen that the service was *)
(* told last to the screen.  The last task of an executor decides whether  *)
(* its listener will be registered in the end.                             *)
(***************************************************************************)
EXTENDS Doze, TLAPS

\* Among the messages of q, those of M carry their receiver from a to b,
\* each one to a value that it does not have yet.  f is the way: f[k] is
\* what the receiver has before message k.
Way(q, M, f) ==
  /\ \A k \in 1..Len(q) : q[k] \in M => f[k] # q[k] /\ f[k + 1] = q[k]
  /\ \A j, k \in 1..(Len(q) + 1) :
       j < k => f[j] = f[k] \/ \E i \in 1..Len(q) : j <= i /\ i < k /\ q[i] \in M
Carries(q, M, a, b) ==
  \E f \in [1..(Len(q) + 1) -> M] : Way(q, M, f) /\ f[1] = a /\ f[Len(q) + 1] = b

Lives == {"create", "destroy"}
Screens == {"on", "off"}

\* The messages of the activity manager alternate, on both of their ways,
\* and the last one says whether the service is started.
Now(alive) == IF alive THEN "create" ELSE "destroy"
LifeInv ==
  \E mid \in Lives : /\ Carries(mainQ, Lives, Now(service # None), mid)
                    /\ Carries(life, Lives, mid, Now(started))

\* The listener of d's sensor s will be registered once d's executors have
\* done their work.
Final(d, s) ==
  IF tasks[d][s] = <<>> THEN <<d, s>> \in listeners
  ELSE tasks[d][s][Len(tasks[d][s])] = "register"
Armed == {s \in Sensors : Final(service, s)}

\* The broadcasts carry the service from the screen it was told last to the
\* screen.  For a careful user its sensors are those that are in use since
\* it was told that the screen is off.
ScreenInv ==
  service # None =>
    \E told, mid \in Screens :
      /\ Carries(mainQ, Screens, told, mid)
      /\ Carries(bcast, Screens, mid, screen)
      /\ careful => Armed = {} \/ (told = "off" /\ Armed = Used)

\* No other object will have a listener.
Gone == \A d \in Instances, s \in Sensors : d # service => ~Final(d, s)

\* For a careful user a check is due, or the last one was right.
CheckInv ==
  careful =>
    /\ \A k \in DOMAIN mainQ : mainQ[k] # "orphan"
    /\ \/ \E k \in DOMAIN mainQ : mainQ[k] \in {"boot", "check"}
       \/ started = Wanted(doze, aod, pref)

IInv == TypeOK /\ LifeInv /\ ScreenInv /\ Gone /\ CheckInv

-----------------------------------------------------------------------------
(* What messages carry.                                                    *)

LEMMA CarriesEnds ==
  ASSUME NEW S, NEW M, NEW q \in Seq(S), NEW a, NEW b, Carries(q, M, a, b)
  PROVE  /\ a \in M /\ b \in M
         /\ (\A k \in 1..Len(q) : q[k] \notin M) => a = b
<1>1. PICK f \in [1..(Len(q) + 1) -> M] : Way(q, M, f) /\ f[1] = a /\ f[Len(q) + 1] = b
  BY DEF Carries
<1>2. Len(q) \in Nat
  OBVIOUS
<1>3. a \in M /\ b \in M
  BY <1>1, <1>2
<1>4. ASSUME \A k \in 1..Len(q) : q[k] \notin M PROVE a = b
  <2>1. CASE Len(q) = 0
    BY <1>1, <2>1
  <2>2. CASE Len(q) > 0
    BY <1>1, <1>2, <1>4, <2>2 DEF Way
  <2> QED
    BY <1>2, <2>1, <2>2
<1> QED
  BY <1>3, <1>4

LEMMA CarriesNothing ==
  ASSUME NEW M, NEW q, Len(q) \in Nat, NEW a \in M,
         \A k \in 1..Len(q) : q[k] \notin M
  PROVE  Carries(q, M, a, a)
<1> DEFINE f == [k \in 1..(Len(q) + 1) |-> a]
<1>1. f \in [1..(Len(q) + 1) -> M] /\ Way(q, M, f)
  BY DEF Way
<1>2. f[1] = a /\ f[Len(q) + 1] = a
  OBVIOUS
<1> QED
  BY <1>1, <1>2 DEF Carries

LEMMA CarriesEmpty ==
  ASSUME NEW M, NEW a \in M
  PROVE  Carries(<<>>, M, a, a)
<1>1. Len(<<>>) = 0
  OBVIOUS
<1> QED
  BY <1>1, CarriesNothing

LEMMA CarriedNowhere ==
  ASSUME NEW M, NEW a, NEW b, NEW c, Carries(<<>>, M, a, b), Carries(<<>>, M, b, c)
  PROVE  a = c
<1>1. <<>> \in Seq(M) /\ \A k \in 1..Len(<<>>) : <<>>[k] \notin M
  OBVIOUS
<1>2. a = b /\ b = c
  BY <1>1, CarriesEnds
<1> QED
  BY <1>2

\* A message that is not the receiver's value carries it on.
LEMMA CarriesAppend ==
  ASSUME NEW S, NEW M, NEW q \in Seq(S), NEW a, NEW b, Carries(q, M, a, b),
         NEW msg \in S, msg \in M, msg # b
  PROVE  Carries(Append(q, msg), M, a, msg)
<1> DEFINE n == Len(q)
           r == Append(q, msg)
<1>1. PICK f \in [1..(n + 1) -> M] : Way(q, M, f) /\ f[1] = a /\ f[n + 1] = b
  BY DEF Carries
<1>2. n \in Nat /\ Len(r) = n + 1 /\ r[n + 1] = msg /\ \A k \in 1..n : r[k] = q[k]
  OBVIOUS
<1> DEFINE g == [k \in 1..(Len(r) + 1) |-> IF k = n + 2 THEN msg ELSE f[k]]
<1>3. /\ g[n + 2] = msg /\ \A k \in 1..(n + 1) : g[k] = f[k]
      /\ g \in [1..(Len(r) + 1) -> M]
  BY <1>1, <1>2
<1> HIDE DEF n, r, g
<1>4. ASSUME NEW k \in 1..Len(r), r[k] \in M PROVE g[k] # r[k] /\ g[k + 1] = r[k]
  <2>1. CASE k = n + 1
    BY <1>1, <1>2, <1>3, <2>1
  <2>2. CASE k \in 1..n
    <3>1. f[k] # q[k] /\ f[k + 1] = q[k] /\ r[k] = q[k]
      BY <1>1, <1>2, <1>4, <2>2 DEF Way, n
    <3> QED
      BY <1>2, <1>3, <2>2, <3>1
  <2> QED
    BY <1>2, <2>1, <2>2
<1>5. ASSUME NEW j \in 1..(Len(r) + 1), NEW k \in 1..(Len(r) + 1), j < k
      PROVE  g[j] = g[k] \/ \E i \in 1..Len(r) : j <= i /\ i < k /\ r[i] \in M
  <2>1. CASE k = n + 2
    <3>1. n + 1 \in 1..Len(r) /\ j <= n + 1 /\ n + 1 < k /\ r[n + 1] \in M
      BY <1>2, <1>5, <2>1
    <3> QED
      BY <3>1
  <2>2. CASE k # n + 2
    <3>1. j \in 1..(n + 1) /\ k \in 1..(n + 1)
      BY <1>2, <1>5, <2>2
    <3>2. f[j] = f[k] \/ \E i \in 1..n : j <= i /\ i < k /\ q[i] \in M
      BY <1>1, <1>5, <3>1 DEF Way, n
    <3>3. (\E i \in 1..n : j <= i /\ i < k /\ q[i] \in M)
             => \E i \in 1..Len(r) : j <= i /\ i < k /\ r[i] \in M
      BY <1>2
    <3> QED
      BY <1>3, <3>1, <3>2, <3>3
  <2> QED
    BY <2>1, <2>2
<1>6. Way(r, M, g)
  BY <1>4, <1>5 DEF Way
<1>7. g[1] = a /\ g[Len(r) + 1] = msg
  BY <1>1, <1>2, <1>3
<1> QED
  BY <1>3, <1>6, <1>7 DEF Carries, r

\* Other messages carry it nowhere.
LEMMA CarriesAppendOther ==
  ASSUME NEW S, NEW M, NEW q \in Seq(S), NEW a, NEW b, Carries(q, M, a, b),
         NEW msg \in S, msg \notin M
  PROVE  Carries(Append(q, msg), M, a, b)
<1> DEFINE n == Len(q)
           r == Append(q, msg)
<1>1. PICK f \in [1..(n + 1) -> M] : Way(q, M, f) /\ f[1] = a /\ f[n + 1] = b
  BY DEF Carries
<1>2. n \in Nat /\ Len(r) = n + 1 /\ r[n + 1] = msg /\ \A k \in 1..n : r[k] = q[k]
  OBVIOUS
<1> DEFINE g == [k \in 1..(Len(r) + 1) |-> IF k = n + 2 THEN b ELSE f[k]]
<1>3. /\ g[n + 2] = b /\ \A k \in 1..(n + 1) : g[k] = f[k]
      /\ g \in [1..(Len(r) + 1) -> M]
  BY <1>1, <1>2
<1> HIDE DEF n, r, g
<1>4. ASSUME NEW k \in 1..Len(r), r[k] \in M PROVE g[k] # r[k] /\ g[k + 1] = r[k]
  <2>1. k \in 1..n
    BY <1>2, <1>4
  <2>2. f[k] # q[k] /\ f[k + 1] = q[k] /\ r[k] = q[k]
    BY <1>1, <1>2, <1>4, <2>1 DEF Way, n
  <2> QED
    BY <1>2, <1>3, <2>1, <2>2
<1>5. ASSUME NEW j \in 1..(Len(r) + 1), NEW k \in 1..(Len(r) + 1), j < k
      PROVE  g[j] = g[k] \/ \E i \in 1..Len(r) : j <= i /\ i < k /\ r[i] \in M
  <2>1. CASE k # n + 2
    <3>1. j \in 1..(n + 1) /\ k \in 1..(n + 1)
      BY <1>2, <1>5, <2>1
    <3>2. f[j] = f[k] \/ \E i \in 1..n : j <= i /\ i < k /\ q[i] \in M
      BY <1>1, <1>5, <3>1 DEF Way, n
    <3>3. (\E i \in 1..n : j <= i /\ i < k /\ q[i] \in M)
             => \E i \in 1..Len(r) : j <= i /\ i < k /\ r[i] \in M
      BY <1>2
    <3> QED
      BY <1>3, <3>1, <3>2, <3>3
  <2>2. CASE k = n + 2 /\ j # n + 1
    <3>1. j \in 1..(n + 1) /\ n + 1 \in 1..(n + 1) /\ j < n + 1
      BY <1>2, <1>5, <2>2
    <3>2. f[j] = f[n + 1] \/ \E i \in 1..n : j <= i /\ i < n + 1 /\ q[i] \in M
      BY <1>1, <3>1 DEF Way, n
    <3>3. (\E i \in 1..n : j <= i /\ i < n + 1 /\ q[i] \in M)
             => \E i \in 1..Len(r) : j <= i /\ i < k /\ r[i] \in M
      BY <1>2, <2>2
    <3> QED
      BY <1>1, <1>3, <2>2, <3>1, <3>2, <3>3
  <2>3. CASE k = n + 2 /\ j = n + 1
    BY <1>1, <1>2, <1>3, <2>3
  <2> QED
    BY <2>1, <2>2, <2>3
<1>6. Way(r, M, g)
  BY <1>4, <1>5 DEF Way
<1>7. g[1] = a /\ g[Len(r) + 1] = b
  BY <1>1, <1>2, <1>3
<1> QED
  BY <1>3, <1>6, <1>7 DEF Carries, r

\* The first message, handled, leaves the others on the rest of the way.
LEMMA CarriesTail ==
  ASSUME NEW S, NEW M, NEW q \in Seq(S), NEW a, NEW b, Carries(q, M, a, b), q # <<>>
  PROVE  /\ Head(q) \in M => a # Head(q) /\ Carries(Tail(q), M, Head(q), b)
         /\ Head(q) \notin M => Carries(Tail(q), M, a, b)
<1> DEFINE n == Len(q)
           r == Tail(q)
           now == IF Head(q) \in M THEN Head(q) ELSE a
<1>1. PICK f \in [1..(n + 1) -> M] : Way(q, M, f) /\ f[1] = a /\ f[n + 1] = b
  BY DEF Carries
<1>2. /\ n \in Nat \ {0} /\ Len(r) = n - 1 /\ Head(q) = q[1]
      /\ \A k \in 1..(n - 1) : r[k] = q[k + 1]
  OBVIOUS
<1> DEFINE g == [k \in 1..(Len(r) + 1) |-> f[k + 1]]
<1>3. /\ \A k \in 1..n : g[k] = f[k + 1]
      /\ g \in [1..(Len(r) + 1) -> M]
  BY <1>1, <1>2
<1>4. /\ f[2] = now
      /\ Head(q) \in M => a # Head(q)
  <2>1. 1 \in 1..Len(q) /\ 1 \in 1..(Len(q) + 1) /\ 2 \in 1..(Len(q) + 1)
    BY <1>2
  <2>2. q[1] \in M => f[1] # q[1] /\ f[1 + 1] = q[1]
    BY <1>1, <2>1 DEF Way
  <2>3. f[1] = f[2] \/ \E i \in 1..Len(q) : 1 <= i /\ i < 2 /\ q[i] \in M
    BY <1>1, <2>1 DEF Way
  <2>4. q[1] \notin M => f[1] = f[2]
    BY <1>2, <2>3
  <2> QED
    BY <1>1, <1>2, <2>2, <2>4
<1> HIDE DEF n, r, g
<1>5. ASSUME NEW k \in 1..Len(r), r[k] \in M PROVE g[k] # r[k] /\ g[k + 1] = r[k]
  <2>1. k + 1 \in 1..n /\ k \in 1..n /\ r[k] = q[k + 1]
    BY <1>2
  <2>2. f[k + 1] # q[k + 1] /\ f[k + 1 + 1] = q[k + 1]
    BY <1>1, <1>5, <2>1 DEF Way, n
  <2> QED
    BY <1>3, <2>1, <2>2
<1>6. ASSUME NEW j \in 1..(Len(r) + 1), NEW k \in 1..(Len(r) + 1), j < k
      PROVE  g[j] = g[k] \/ \E i \in 1..Len(r) : j <= i /\ i < k /\ r[i] \in M
  <2>1. j \in 1..n /\ k \in 1..n /\ j + 1 \in 1..(n + 1) /\ k + 1 \in 1..(n + 1)
    BY <1>2
  <2>2. f[j + 1] = f[k + 1] \/ \E i \in 1..n : j + 1 <= i /\ i < k + 1 /\ q[i] \in M
    BY <1>1, <1>6, <2>1 DEF Way, n
  <2>3. ASSUME NEW i \in 1..n, j + 1 <= i, i < k + 1, q[i] \in M
        PROVE  \E l \in 1..Len(r) : j <= l /\ l < k /\ r[l] \in M
    <3>1. i - 1 \in 1..(n - 1) /\ j <= i - 1 /\ i - 1 < k
      BY <1>2, <2>1, <2>3
    <3>2. r[i - 1] = q[i]
      BY <1>2, <3>1
    <3> QED
      BY <1>2, <2>3, <3>1, <3>2
  <2> QED
    BY <1>3, <2>1, <2>2, <2>3
<1>7. Way(r, M, g)
  BY <1>5, <1>6 DEF Way
<1>8. g[1] = now /\ g[Len(r) + 1] = b
  <2>1. 1 \in 1..n /\ n \in 1..n /\ Len(r) + 1 = n
    BY <1>2
  <2> QED
    BY <1>1, <1>3, <1>4, <2>1
<1>9. Carries(r, M, now, b)
  BY <1>3, <1>7, <1>8 DEF Carries
<1> QED
  BY <1>4, <1>9 DEF r

\* Changing messages that are not in M to others that are not changes nothing.
LEMMA CarriesMap ==
  ASSUME NEW M, NEW q, NEW a, NEW b, Carries(q, M, a, b),
         NEW r, Len(r) = Len(q),
         \A k \in 1..Len(q) : r[k] = q[k] \/ (r[k] \notin M /\ q[k] \notin M)
  PROVE  Carries(r, M, a, b)
<1>1. PICK f \in [1..(Len(q) + 1) -> M] : Way(q, M, f) /\ f[1] = a /\ f[Len(q) + 1] = b
  BY DEF Carries
<1>2. Way(r, M, f)
  <2>1. ASSUME NEW k \in 1..Len(r), r[k] \in M PROVE f[k] # r[k] /\ f[k + 1] = r[k]
    <3>1. k \in 1..Len(q) /\ r[k] = q[k]
      BY <2>1
    <3> QED
      BY <1>1, <2>1, <3>1 DEF Way
  <2>2. ASSUME NEW j \in 1..(Len(r) + 1), NEW k \in 1..(Len(r) + 1), j < k
        PROVE  f[j] = f[k] \/ \E i \in 1..Len(r) : j <= i /\ i < k /\ r[i] \in M
    <3>1. f[j] = f[k] \/ \E i \in 1..Len(q) : j <= i /\ i < k /\ q[i] \in M
      BY <1>1, <2>2 DEF Way
    <3>2. ASSUME NEW i \in 1..Len(q), q[i] \in M PROVE i \in 1..Len(r) /\ r[i] \in M
      BY <3>2
    <3> QED
      BY <3>1, <3>2
  <2> QED
    BY <2>1, <2>2 DEF Way
<1> QED
  BY <1>1, <1>2 DEF Carries

-----------------------------------------------------------------------------
(* The initial states.                                                     *)

LEMMA Initially == Init => IInv
<1> SUFFICES ASSUME Init PROVE IInv
  OBVIOUS
<1>1. /\ mainQ \in Seq(Messages) /\ life \in Seq(Lives) /\ bcast \in Seq(Screens)
      /\ Len(mainQ) = 1 /\ mainQ[1] = "boot" /\ DOMAIN mainQ = 1..1
  BY DEF Init, Messages, Lives, Screens
<1>2. TypeOK
  <2>1. ScreenTold
    BY <1>1 DEF Init, ScreenTold, IsScreen
  <2>2. tasks \in [Instances -> [Sensors -> Seq(Tasks)]]
    BY DEF Init, Idle
  <2> QED
    BY <1>1, <2>1, <2>2, BooleanAssumption DEF Init, TypeOK, Lives, Screens
<1>3. LifeInv
  <2>1. /\ Carries(<<>>, Lives, "destroy", "destroy")
        /\ Now(service # None) = "destroy" /\ Now(started) = "destroy"
        /\ "destroy" \in Lives
    BY CarriesEmpty DEF Init, Now, Lives
  <2>2. Carries(Append(<<>>, "boot"), Lives, "destroy", "destroy")
    <3>1. <<>> \in Seq(Messages) /\ "boot" \in Messages /\ "boot" \notin Lives
      BY DEF Messages, Lives
    <3> QED
      BY <2>1, <3>1, CarriesAppendOther
  <2>3. Append(<<>>, "boot") = mainQ /\ life = <<>>
    BY DEF Init
  <2> QED
    BY <2>1, <2>2, <2>3 DEF LifeInv
<1>4. ScreenInv
  BY DEF Init, ScreenInv
<1>5. Gone
  BY DEF Init, Gone, Final, Idle
<1>6. CheckInv
  BY <1>1 DEF CheckInv
<1> QED
  BY <1>2, <1>3, <1>4, <1>5, <1>6 DEF IInv

-----------------------------------------------------------------------------
(* What the parts of a step do.                                            *)

\* The last task submitted decides.
LEMMA SubmitFinal ==
  ASSUME TypeOK, service # None, NEW used, used \subseteq Sensors,
         NEW t \in Tasks, tasks' = Submit(used, t), listeners' = listeners
  PROVE  /\ tasks' \in [Instances -> [Sensors -> Seq(Tasks)]]
         /\ \A d \in Instances, s \in Sensors :
              Final(d, s)' <=> IF d = service /\ s \in used THEN t = "register"
                               ELSE Final(d, s)
<1>1. service \in Instances /\ tasks \in [Instances -> [Sensors -> Seq(Tasks)]]
  BY DEF TypeOK
<1>2. /\ tasks' \in [Instances -> [Sensors -> Seq(Tasks)]]
      /\ \A d \in Instances, s \in Sensors :
           tasks'[d][s] = IF d = service /\ s \in used THEN Append(tasks[d][s], t)
                          ELSE tasks[d][s]
  BY <1>1 DEF Submit
<1>3. ASSUME NEW d \in Instances, NEW s \in Sensors
      PROVE  Final(d, s)' <=> IF d = service /\ s \in used THEN t = "register"
                              ELSE Final(d, s)
  <2>1. CASE d = service /\ s \in used
    <3>1. tasks[d][s] \in Seq(Tasks) /\ tasks'[d][s] = Append(tasks[d][s], t)
      BY <1>1, <1>2, <2>1
    <3>2. tasks'[d][s] # <<>> /\ tasks'[d][s][Len(tasks'[d][s])] = t
      BY <3>1
    <3> QED
      BY <2>1, <3>2 DEF Final
  <2>2. CASE ~(d = service /\ s \in used)
    <3>1. tasks'[d][s] = tasks[d][s]
      BY <1>2, <2>2
    <3> QED
      BY <2>2, <3>1 DEF Final
  <2> QED
    BY <2>1, <2>2
<1> QED
  BY <1>2, <1>3

LEMMA LastOfTail ==
  ASSUME NEW S, NEW q \in Seq(S), q # <<>>
  PROVE  \/ Tail(q) = <<>> /\ Head(q) = q[Len(q)]
         \/ Tail(q) # <<>> /\ Tail(q)[Len(Tail(q))] = q[Len(q)]
<1>1. /\ Len(q) \in Nat \ {0} /\ Len(Tail(q)) = Len(q) - 1 /\ Tail(q) \in Seq(S)
      /\ Head(q) = q[1] /\ \A k \in 1..(Len(q) - 1) : Tail(q)[k] = q[k + 1]
  OBVIOUS
<1>2. (Tail(q) = <<>>) <=> (Len(Tail(q)) = 0)
  BY <1>1
<1>3. CASE Len(q) = 1
  BY <1>1, <1>2, <1>3
<1>4. CASE Len(q) # 1
  BY <1>1, <1>2, <1>4
<1> QED
  BY <1>3, <1>4

\* An executor that works changes nothing about the end of its work.
LEMMA ExecutorFinal ==
  ASSUME TypeOK, NEW d \in Instances, NEW s \in Sensors, Executor(d, s)
  PROVE  /\ tasks' \in [Instances -> [Sensors -> Seq(Tasks)]]
         /\ listeners' \subseteq Instances \X Sensors
         /\ \A e \in Instances, u \in Sensors : Final(e, u)' <=> Final(e, u)
<1>1. /\ tasks \in [Instances -> [Sensors -> Seq(Tasks)]]
      /\ listeners \subseteq Instances \X Sensors
  BY DEF TypeOK
<1>2. /\ tasks[d][s] # <<>> /\ Pop(d, s)
      /\ \/ Head(tasks[d][s]) = "register" /\ listeners' = listeners \cup {<<d, s>>}
         \/ Head(tasks[d][s]) = "unregister" /\ listeners' = listeners \ {<<d, s>>}
  BY DEF Executor, Register, Unregister
<1>3. /\ tasks' \in [Instances -> [Sensors -> Seq(Tasks)]]
      /\ \A e \in Instances, u \in Sensors :
           tasks'[e][u] = IF e = d /\ u = s THEN Tail(tasks[d][s]) ELSE tasks[e][u]
  <2>1. tasks[d][s] \in Seq(Tasks) /\ Tail(tasks[d][s]) \in Seq(Tasks)
    BY <1>1, <1>2
  <2> QED
    BY <1>1, <1>2, <2>1 DEF Pop
<1>4. listeners' \subseteq Instances \X Sensors
  BY <1>1, <1>2
<1>5. ASSUME NEW e \in Instances, NEW u \in Sensors
      PROVE  Final(e, u)' <=> Final(e, u)
  <2>1. CASE ~(e = d /\ u = s)
    <3>1. tasks'[e][u] = tasks[e][u]
      BY <1>3, <2>1
    <3>2. <<e, u>> \in listeners' <=> <<e, u>> \in listeners
      BY <1>2, <2>1
    <3> QED
      BY <3>1, <3>2 DEF Final
  <2>2. CASE e = d /\ u = s
    <3> DEFINE q == tasks[d][s]
    <3>1. q \in Seq(Tasks) /\ q # <<>> /\ tasks'[e][u] = Tail(q)
      BY <1>1, <1>2, <1>3, <2>2
    <3>2. CASE Tail(q) = <<>> /\ Head(q) = q[Len(q)]
      <4>1. <<e, u>> \in listeners' <=> Head(q) = "register"
        BY <1>2, <2>2
      <4> QED
        BY <2>2, <3>1, <3>2, <4>1 DEF Final
    <3>3. CASE Tail(q) # <<>> /\ Tail(q)[Len(Tail(q))] = q[Len(q)]
      BY <2>2, <3>1, <3>3 DEF Final
    <3> QED
      BY <3>1, <3>2, <3>3, LastOfTail
  <2> QED
    BY <2>1, <2>2
<1> QED
  BY <1>3, <1>4, <1>5

\* A check leaves the activity manager with what the settings ask for.
LEMMA CheckedLife ==
  ASSUME TypeOK, NEW d \in BOOLEAN, NEW a \in BOOLEAN, NEW p,
         CheckDozeService(d, a, p)
  PROVE  /\ started' = Wanted(d, a, p) /\ started' \in BOOLEAN
         /\ life' \in Seq(Lives)
         /\ \A mid \in Lives : Carries(life, Lives, mid, Now(started))
                                 => Carries(life', Lives, mid, Now(started'))
<1>1. Wanted(d, a, p) \in BOOLEAN /\ started \in BOOLEAN /\ life \in Seq(Lives)
  BY DEF Wanted, SensorsEnabled, TypeOK, Lives
<1>2. CASE Wanted(d, a, p) = started
  BY <1>1, <1>2 DEF CheckDozeService, system
<1>3. CASE Wanted(d, a, p) # started
  <2>1. /\ started' = ~started
        /\ life' = Append(life, Now(~started))
        /\ Now(~started) \in Lives /\ Now(~started) # Now(started)
    BY <1>1, <1>3 DEF CheckDozeService, Now, Lives
  <2>2. started' = Wanted(d, a, p) /\ started' \in BOOLEAN
    BY Zenon, <1>1, <1>3, <2>1
  <2>3. life' \in Seq(Lives)
    BY <1>1, <2>1
  <2>4. ASSUME NEW mid \in Lives, Carries(life, Lives, mid, Now(started))
        PROVE  Carries(life', Lives, mid, Now(started'))
    <3>1. Carries(Append(life, Now(~started)), Lives, mid, Now(~started))
      BY <1>1, <2>1, <2>4, CarriesAppend
    <3> QED
      BY <2>1, <3>1
  <2> QED
    BY <2>2, <2>3, <2>4
<1> QED
  BY <1>2, <1>3

\* Two states that agree on what an invariant reads agree on the invariant.
LEMMA SameLife ==
  ASSUME LifeInv, UNCHANGED <<mainQ, service, life, started>>
  PROVE  LifeInv'
BY DEF LifeInv

LEMMA SameScreen ==
  ASSUME ScreenInv, UNCHANGED <<careful, screen, bcast, mainQ, pref, objects>>
  PROVE  ScreenInv'
<1>1. Armed' = Armed /\ Used' = Used
  BY DEF Armed, Final, Used, SensorUsed, objects
<1> QED
  BY <1>1 DEF ScreenInv, objects

LEMMA SameGone ==
  ASSUME Gone, UNCHANGED objects
  PROVE  Gone'
BY DEF Gone, Final, objects

LEMMA SameCheck ==
  ASSUME CheckInv, UNCHANGED <<careful, mainQ, started, doze, aod, pref>>
  PROVE  CheckInv'
BY DEF CheckInv, Wanted, SensorsEnabled

\* The main thread takes its first message.
LEMMA Taken ==
  ASSUME TypeOK, NEW msg, Receive(msg)
  PROVE  /\ msg = mainQ[1] /\ 1 \in DOMAIN mainQ
         /\ Tail(mainQ) \in Seq(Messages) /\ Len(mainQ) \in Nat \ {0}
         /\ Len(Tail(mainQ)) = Len(mainQ) - 1
         /\ DOMAIN mainQ = 1..Len(mainQ)
         /\ DOMAIN Tail(mainQ) = 1..(Len(mainQ) - 1)
         /\ \A k \in DOMAIN Tail(mainQ) :
              k + 1 \in DOMAIN mainQ /\ Tail(mainQ)[k] = mainQ[k + 1]
<1>1. mainQ \in Seq(Messages) /\ mainQ # <<>> /\ Head(mainQ) = msg
  BY DEF TypeOK, Receive
<1>2. /\ Len(mainQ) \in Nat \ {0} /\ Tail(mainQ) \in Seq(Messages)
      /\ Len(Tail(mainQ)) = Len(mainQ) - 1
      /\ Head(mainQ) = mainQ[1]
      /\ \A k \in 1..(Len(mainQ) - 1) : Tail(mainQ)[k] = mainQ[k + 1]
  BY <1>1
<1>3. DOMAIN mainQ = 1..Len(mainQ) /\ DOMAIN Tail(mainQ) = 1..(Len(mainQ) - 1)
  BY <1>1, <1>2
<1> QED
  BY <1>1, <1>2, <1>3

LEMMA TakenLife ==
  ASSUME TypeOK, LifeInv, NEW msg, Receive(msg), msg \notin Lives,
         mainQ' = Tail(mainQ), UNCHANGED <<service, life, started>>
  PROVE  LifeInv'
<1>1. PICK mid \in Lives : /\ Carries(mainQ, Lives, Now(service # None), mid)
                           /\ Carries(life, Lives, mid, Now(started))
  BY DEF LifeInv
<1>2. mainQ \in Seq(Messages) /\ mainQ # <<>> /\ Head(mainQ) \notin Lives
  BY DEF TypeOK, Receive
<1>3. Carries(Tail(mainQ), Lives, Now(service # None), mid)
  BY <1>1, <1>2, CarriesTail
<1> QED
  BY <1>1, <1>3 DEF LifeInv

LEMMA TakenScreen ==
  ASSUME TypeOK, ScreenInv, NEW msg, Receive(msg), msg \notin Screens,
         mainQ' = Tail(mainQ), UNCHANGED <<careful, screen, bcast, pref, objects>>
  PROVE  ScreenInv'
<1>1. Armed' = Armed /\ Used' = Used
  BY DEF Armed, Final, Used, SensorUsed, objects
<1> SUFFICES ASSUME service # None
             PROVE  \E told, mid \in Screens :
                      /\ Carries(mainQ', Screens, told, mid)
                      /\ Carries(bcast', Screens, mid, screen')
                      /\ careful' => Armed' = {} \/ (told = "off" /\ Armed' = Used')
  BY DEF ScreenInv, objects
<1>2. PICK told \in Screens, mid \in Screens :
             /\ Carries(mainQ, Screens, told, mid)
             /\ Carries(bcast, Screens, mid, screen)
             /\ careful => Armed = {} \/ (told = "off" /\ Armed = Used)
  BY DEF ScreenInv
<1>3. mainQ \in Seq(Messages) /\ mainQ # <<>> /\ Head(mainQ) \notin Screens
  BY DEF TypeOK, Receive
<1>4. Carries(Tail(mainQ), Screens, told, mid)
  BY <1>2, <1>3, CarriesTail
<1> QED
  BY <1>1, <1>2, <1>4

LEMMA TakenCheck ==
  ASSUME TypeOK, CheckInv, NEW msg, Receive(msg), msg \notin {"boot", "check"},
         \/ mainQ' = Tail(mainQ) \/ mainQ' = Forget(Tail(mainQ)),
         UNCHANGED <<careful, started, doze, aod, pref>>
  PROVE  CheckInv'
<1> SUFFICES ASSUME careful PROVE CheckInv'
  BY DEF CheckInv
<1> DEFINE q == Tail(mainQ)
<1>1. /\ msg = mainQ[1] /\ DOMAIN mainQ = 1..Len(mainQ) /\ Len(mainQ) \in Nat \ {0}
      /\ DOMAIN q = 1..(Len(mainQ) - 1)
      /\ \A k \in DOMAIN q : k + 1 \in DOMAIN mainQ /\ q[k] = mainQ[k + 1]
  BY Taken
<1>2. /\ DOMAIN mainQ' = DOMAIN q
      /\ \A k \in DOMAIN q : mainQ'[k] = q[k] \/ (IsScreen(q[k]) /\ mainQ'[k] = "forgotten")
  BY DEF Forget
<1> HIDE DEF q
<1>3. \A k \in DOMAIN mainQ' : mainQ'[k] # "orphan"
  <2>1. \A k \in DOMAIN mainQ : mainQ[k] # "orphan"
    BY DEF CheckInv
  <2> QED
    BY <1>1, <1>2, <2>1
<1>4. CASE \E k \in DOMAIN mainQ : mainQ[k] \in {"boot", "check"}
  <2>1. PICK k \in DOMAIN mainQ : mainQ[k] \in {"boot", "check"}
    BY <1>4
  <2>2. k - 1 \in DOMAIN q /\ q[k - 1] = mainQ[k]
    <3>1. k # 1
      BY <1>1, <2>1
    <3>2. k - 1 \in DOMAIN q /\ k - 1 + 1 = k
      BY <1>1, <3>1
    <3> QED
      BY <1>1, <3>2
  <2>3. mainQ'[k - 1] \in {"boot", "check"}
    BY <1>2, <2>1, <2>2 DEF IsScreen
  <2> QED
    BY <1>2, <1>3, <2>2, <2>3 DEF CheckInv
<1>5. CASE started = Wanted(doze, aod, pref)
  <2>1. started' = Wanted(doze', aod', pref')
    BY <1>5
  <2> QED
    BY <1>3, <2>1 DEF CheckInv
<1> QED
  BY <1>4, <1>5 DEF CheckInv

LEMMA TakenTold ==
  ASSUME TypeOK, ScreenTold, NEW msg, Receive(msg), mainQ' = Tail(mainQ),
         bcast' = bcast
  PROVE  ScreenTold'
BY Taken DEF ScreenTold

-----------------------------------------------------------------------------
(* The system and the settings.                                            *)

LEMMA ScreenChangesStep == ASSUME IInv, ScreenChanges PROVE IInv'
<1>1. /\ UNCHANGED <<careful, settings, fragment, system, mainQ, objects>>
      /\ screen' = IF screen = "on" THEN "off" ELSE "on"
      /\ bcast' = IF service = None THEN bcast ELSE Append(bcast, screen')
  BY DEF ScreenChanges
<1>2. screen \in Screens /\ screen' \in Screens /\ screen' # screen /\ bcast \in Seq(Screens)
  BY <1>1 DEF IInv, TypeOK, Screens
<1>3. TypeOK'
  <2>1. bcast' \in Seq(Screens)
    BY <1>1, <1>2
  <2>2. service' = None => ScreenTold'
    BY <1>1 DEF IInv, TypeOK, ScreenTold, objects
  <2> QED
    BY <1>1, <1>2, <2>1, <2>2 DEF IInv, TypeOK, Screens, settings, system, objects
<1>4. LifeInv'
  BY <1>1, SameLife DEF IInv, system, objects
<1>5. ScreenInv'
  <2>1. Armed' = Armed /\ Used' = Used
    BY <1>1 DEF Armed, Final, Used, SensorUsed, objects, settings
  <2> SUFFICES ASSUME service # None
               PROVE  \E told, mid \in Screens :
                        /\ Carries(mainQ', Screens, told, mid)
                        /\ Carries(bcast', Screens, mid, screen')
                        /\ careful' => Armed' = {} \/ (told = "off" /\ Armed' = Used')
    BY <1>1 DEF ScreenInv, objects
  <2>2. PICK told \in Screens, mid \in Screens :
               /\ Carries(mainQ, Screens, told, mid)
               /\ Carries(bcast, Screens, mid, screen)
               /\ careful => Armed = {} \/ (told = "off" /\ Armed = Used)
    BY DEF IInv, ScreenInv
  <2>3. Carries(Append(bcast, screen'), Screens, mid, screen')
    BY <1>2, <2>2, CarriesAppend
  <2> QED
    BY <1>1, <2>1, <2>2, <2>3
<1>6. Gone'
  BY <1>1, SameGone DEF IInv
<1>7. CheckInv'
  BY <1>1, SameCheck DEF IInv, settings, system
<1> QED
  BY <1>3, <1>4, <1>5, <1>6, <1>7 DEF IInv

LEMMA ArriveLifeStep == ASSUME IInv, ArriveLife PROVE IInv'
<1>1. /\ UNCHANGED <<world, settings, fragment, started, bcast, objects>>
      /\ life # <<>> /\ mainQ' = Append(mainQ, Head(life)) /\ life' = Tail(life)
  BY DEF ArriveLife
<1>2. /\ mainQ \in Seq(Messages) /\ life \in Seq(Lives)
      /\ Head(life) \in Lives /\ Tail(life) \in Seq(Lives)
  BY <1>1 DEF IInv, TypeOK, Lives
<1>3. /\ Head(life) \in Messages \ {"orphan", "on", "off"}
      /\ mainQ' \in Seq(Messages) /\ Len(mainQ) \in Nat
      /\ DOMAIN mainQ = 1..Len(mainQ) /\ DOMAIN mainQ' = 1..(Len(mainQ) + 1)
      /\ mainQ'[Len(mainQ) + 1] = Head(life)
      /\ \A k \in DOMAIN mainQ : mainQ'[k] = mainQ[k]
  <2>1. Head(life) \in Messages \ {"orphan", "on", "off"}
    BY <1>2 DEF Lives, Messages
  <2> QED
    BY <1>1, <1>2, <2>1
<1>4. TypeOK'
  <2>1. service' = None => ScreenTold'
    BY <1>1, <1>3 DEF IInv, TypeOK, ScreenTold, IsScreen, objects
  <2> QED
    BY <1>1, <1>2, <1>3, <2>1 DEF IInv, TypeOK, Lives, world, settings, objects
<1>5. LifeInv'
  <2>1. PICK mid \in Lives : /\ Carries(mainQ, Lives, Now(service # None), mid)
                             /\ Carries(life, Lives, mid, Now(started))
    BY DEF IInv, LifeInv
  <2>2. mid # Head(life) /\ Carries(Tail(life), Lives, Head(life), Now(started))
    BY <1>1, <1>2, <2>1, CarriesTail
  <2>3. Carries(Append(mainQ, Head(life)), Lives, Now(service # None), Head(life))
    BY <1>2, <1>3, <2>1, <2>2, CarriesAppend
  <2> QED
    BY <1>1, <1>2, <2>2, <2>3 DEF LifeInv, objects
<1>6. ScreenInv'
  <2>1. Armed' = Armed /\ Used' = Used
    BY <1>1 DEF Armed, Final, Used, SensorUsed, objects, settings
  <2> SUFFICES ASSUME service # None
               PROVE  \E told, mid \in Screens :
                        /\ Carries(mainQ', Screens, told, mid)
                        /\ Carries(bcast', Screens, mid, screen')
                        /\ careful' => Armed' = {} \/ (told = "off" /\ Armed' = Used')
    BY <1>1 DEF ScreenInv, objects
  <2>2. PICK told \in Screens, mid \in Screens :
               /\ Carries(mainQ, Screens, told, mid)
               /\ Carries(bcast, Screens, mid, screen)
               /\ careful => Armed = {} \/ (told = "off" /\ Armed = Used)
    BY DEF IInv, ScreenInv
  <2>3. Head(life) \in Messages /\ Head(life) \notin Screens
    BY <1>3 DEF Screens
  <2>4. Carries(Append(mainQ, Head(life)), Screens, told, mid)
    BY <1>2, <2>2, <2>3, CarriesAppendOther
  <2> QED
    BY <1>1, <2>1, <2>2, <2>4 DEF world
<1>7. Gone'
  BY <1>1, SameGone DEF IInv
<1>8. CheckInv'
  <2>1. Wanted(doze, aod, pref)' = Wanted(doze, aod, pref)
    BY <1>1 DEF settings, Wanted, SensorsEnabled
  <2> QED
    BY <1>1, <1>3, <2>1 DEF IInv, CheckInv, world
<1> QED
  BY <1>4, <1>5, <1>6, <1>7, <1>8 DEF IInv

LEMMA ArriveBroadcastStep == ASSUME IInv, ArriveBroadcast PROVE IInv'
<1>1. /\ UNCHANGED <<world, settings, fragment, system, objects>>
      /\ bcast # <<>> /\ mainQ' = Append(mainQ, Head(bcast)) /\ bcast' = Tail(bcast)
  BY DEF ArriveBroadcast
<1>2. /\ mainQ \in Seq(Messages) /\ bcast \in Seq(Screens)
      /\ Head(bcast) \in Screens /\ Tail(bcast) \in Seq(Screens)
      /\ service # None
  BY <1>1 DEF IInv, TypeOK, Screens, ScreenTold
<1>3. /\ Head(bcast) \in Messages \ {"orphan", "create", "destroy"}
      /\ mainQ' \in Seq(Messages) /\ Len(mainQ) \in Nat
      /\ DOMAIN mainQ = 1..Len(mainQ) /\ DOMAIN mainQ' = 1..(Len(mainQ) + 1)
      /\ mainQ'[Len(mainQ) + 1] = Head(bcast)
      /\ \A k \in DOMAIN mainQ : mainQ'[k] = mainQ[k]
  <2>1. Head(bcast) \in Messages \ {"orphan", "create", "destroy"}
    BY <1>2 DEF Screens, Messages
  <2> QED
    BY <1>1, <1>2, <2>1
<1>4. TypeOK'
  BY <1>1, <1>2, <1>3 DEF IInv, TypeOK, Screens, world, settings, system, objects
<1>5. LifeInv'
  <2>1. PICK mid \in Lives : /\ Carries(mainQ, Lives, Now(service # None), mid)
                             /\ Carries(life, Lives, mid, Now(started))
    BY DEF IInv, LifeInv
  <2>2. Head(bcast) \in Messages /\ Head(bcast) \notin Lives
    BY <1>3 DEF Lives
  <2>3. Carries(Append(mainQ, Head(bcast)), Lives, Now(service # None), mid)
    BY <1>2, <2>1, <2>2, CarriesAppendOther
  <2> QED
    BY <1>1, <2>1, <2>3 DEF LifeInv, system, objects
<1>6. ScreenInv'
  <2>1. Armed' = Armed /\ Used' = Used
    BY <1>1 DEF Armed, Final, Used, SensorUsed, objects, settings
  <2>2. PICK told \in Screens, mid \in Screens :
               /\ Carries(mainQ, Screens, told, mid)
               /\ Carries(bcast, Screens, mid, screen)
               /\ careful => Armed = {} \/ (told = "off" /\ Armed = Used)
    BY <1>2 DEF IInv, ScreenInv
  <2>3. mid # Head(bcast) /\ Carries(Tail(bcast), Screens, Head(bcast), screen)
    BY <1>1, <1>2, <2>2, CarriesTail
  <2>4. Carries(Append(mainQ, Head(bcast)), Screens, told, Head(bcast))
    BY <1>2, <1>3, <2>2, <2>3, CarriesAppend
  <2> QED
    BY <1>1, <1>2, <2>1, <2>2, <2>3, <2>4 DEF ScreenInv, world
<1>7. Gone'
  BY <1>1, SameGone DEF IInv
<1>8. CheckInv'
  <2>1. Wanted(doze, aod, pref)' = Wanted(doze, aod, pref)
    BY <1>1 DEF settings, Wanted, SensorsEnabled
  <2> QED
    BY <1>1, <1>3, <2>1 DEF IInv, CheckInv, world, system
<1> QED
  BY <1>4, <1>5, <1>6, <1>7, <1>8 DEF IInv

\* A change of the settings that posts a check.  A careful user makes it
\* when the service knows that the screen is on: no sensor is armed.
LEMMA PostedStep ==
  ASSUME IInv, UserActs, mainQ' = Append(mainQ, "check"),
         UNCHANGED <<world, fragment, system, bcast, objects>>,
         doze' \in BOOLEAN, aod' \in BOOLEAN, pref' \in [Gestures -> BOOLEAN]
  PROVE  IInv'
<1>1. mainQ \in Seq(Messages) /\ "check" \in Messages
  BY DEF IInv, TypeOK, Messages
<1>2. /\ mainQ' \in Seq(Messages) /\ Len(mainQ) \in Nat
      /\ DOMAIN mainQ = 1..Len(mainQ) /\ DOMAIN mainQ' = 1..(Len(mainQ) + 1)
      /\ mainQ'[Len(mainQ) + 1] = "check"
      /\ \A k \in DOMAIN mainQ : mainQ'[k] = mainQ[k]
  BY <1>1
<1>3. TypeOK'
  <2>1. service' = None => ScreenTold'
    BY <1>2 DEF IInv, TypeOK, ScreenTold, IsScreen, objects
  <2> QED
    BY <1>2, <2>1 DEF IInv, TypeOK, world, system, objects
<1>4. LifeInv'
  <2>1. PICK mid \in Lives : /\ Carries(mainQ, Lives, Now(service # None), mid)
                             /\ Carries(life, Lives, mid, Now(started))
    BY DEF IInv, LifeInv
  <2>2. "check" \notin Lives
    BY DEF Lives
  <2>3. Carries(Append(mainQ, "check"), Lives, Now(service # None), mid)
    BY <1>1, <2>1, <2>2, CarriesAppendOther
  <2> QED
    BY <2>1, <2>3 DEF LifeInv, system, objects
<1>5. ScreenInv'
  <2>1. Armed' = Armed
    BY DEF Armed, Final, objects
  <2> SUFFICES ASSUME service # None
               PROVE  \E told, mid \in Screens :
                        /\ Carries(mainQ', Screens, told, mid)
                        /\ Carries(bcast', Screens, mid, screen')
                        /\ careful' => Armed' = {} \/ (told = "off" /\ Armed' = Used')
    BY DEF ScreenInv, objects
  <2>2. PICK told \in Screens, mid \in Screens :
               /\ Carries(mainQ, Screens, told, mid)
               /\ Carries(bcast, Screens, mid, screen)
               /\ careful => Armed = {} \/ (told = "off" /\ Armed = Used)
    BY DEF IInv, ScreenInv
  <2>3. Carries(Append(mainQ, "check"), Screens, told, mid)
    <3>1. "check" \notin Screens
      BY DEF Screens
    <3> QED
      BY <1>1, <2>2, <3>1, CarriesAppendOther
  <2>4. ASSUME careful PROVE Armed = {}
    <3>1. bcast = <<>> /\ bcast \in Seq(Screens) /\ screen = "on"
          /\ \A k \in 1..Len(mainQ) : mainQ[k] \notin Screens
      BY <1>2, <2>4 DEF UserActs, ScreenTold, IsScreen, Screens, IInv, TypeOK
    <3>2. told = mid
      BY <1>1, <2>2, <3>1, CarriesEnds
    <3>3. mid = screen
      <4>1. \A k \in 1..Len(bcast) : bcast[k] \notin Screens
        BY <3>1
      <4> QED
        BY <2>2, <3>1, <4>1, CarriesEnds
    <3> QED
      BY <2>2, <2>4, <3>1, <3>2, <3>3
  <2> QED
    BY <2>1, <2>2, <2>3, <2>4 DEF world
<1>6. Gone'
  BY SameGone DEF IInv
<1>7. CheckInv'
  BY <1>2 DEF IInv, CheckInv, world
<1> QED
  BY <1>3, <1>4, <1>5, <1>6, <1>7 DEF IInv

LEMMA GestureChangesStep == ASSUME IInv, GestureChanges PROVE IInv'
<1>1. pref' \in [Gestures -> BOOLEAN]
  BY DEF IInv, TypeOK, GestureChanges
<1>2. doze' \in BOOLEAN /\ aod' \in BOOLEAN
  BY DEF IInv, TypeOK, GestureChanges
<1> QED
  BY <1>1, <1>2, PostedStep DEF GestureChanges

LEMMA AlwaysOnChangesStep == ASSUME IInv, AlwaysOnChanges PROVE IInv'
<1>1. doze' \in BOOLEAN /\ aod' \in BOOLEAN /\ pref' \in [Gestures -> BOOLEAN]
  BY DEF IInv, TypeOK, AlwaysOnChanges
<1> QED
  BY <1>1, PostedStep DEF AlwaysOnChanges

LEMMA DozeChangesStep == ASSUME IInv, DozeChanges PROVE IInv'
<1>1. /\ doze' = ~doze /\ CheckDozeService(doze', aod, pref) /\ aod' = (aod /\ doze')
      /\ UNCHANGED <<world, pref, fragment, bcast, mainQ, objects>>
  BY DEF DozeChanges
<1>2. TypeOK /\ doze' \in BOOLEAN /\ aod \in BOOLEAN /\ aod' \in BOOLEAN
  BY <1>1 DEF IInv, TypeOK
<1>3. /\ started' = Wanted(doze', aod, pref) /\ started' \in BOOLEAN
      /\ life' \in Seq(Lives)
      /\ \A mid \in Lives : Carries(life, Lives, mid, Now(started))
                              => Carries(life', Lives, mid, Now(started'))
  BY <1>1, <1>2, CheckedLife
<1>4. TypeOK'
  <2>1. service' = None => ScreenTold'
    BY <1>1 DEF IInv, TypeOK, ScreenTold, objects
  <2> QED
    BY <1>1, <1>2, <1>3, <2>1 DEF TypeOK, Lives, world, objects
<1>5. LifeInv'
  <2>1. PICK mid \in Lives : /\ Carries(mainQ, Lives, Now(service # None), mid)
                             /\ Carries(life, Lives, mid, Now(started))
    BY DEF IInv, LifeInv
  <2> QED
    BY <1>1, <1>3, <2>1 DEF LifeInv, objects
<1>6. ScreenInv'
  BY <1>1, SameScreen DEF IInv, world
<1>7. Gone'
  BY <1>1, SameGone DEF IInv
<1>8. CheckInv'
  <2>1. Wanted(doze', aod, pref) = Wanted(doze', aod', pref')
    BY <1>1, <1>2 DEF Wanted
  <2> QED
    BY <1>1, <1>3, <2>1 DEF IInv, CheckInv, world
<1> QED
  BY <1>4, <1>5, <1>6, <1>7, <1>8 DEF IInv

LEMMA OpenStep == ASSUME IInv, Open PROVE IInv'
<1>1. /\ UNCHANGED <<world, settings, system, bcast, mainQ, objects>>
      /\ fragment' = TRUE
  BY DEF Open
<1>2. TypeOK'
  BY <1>1 DEF IInv, TypeOK, ScreenTold, world, settings, system, objects
<1>3. LifeInv' /\ Gone'
  BY <1>1, SameLife, SameGone DEF IInv, system, objects
<1>4. ScreenInv' /\ CheckInv'
  BY <1>1, SameScreen, SameCheck DEF IInv, world, settings, system
<1> QED
  BY <1>2, <1>3, <1>4 DEF IInv

LEMMA LeaveStep == ASSUME IInv, Leave PROVE IInv'
<1>1. /\ UNCHANGED <<world, settings, system, bcast, objects>>
      /\ ~careful /\ fragment' = FALSE
      /\ mainQ' = [k \in DOMAIN mainQ |->
                     IF mainQ[k] = "check" THEN "orphan" ELSE mainQ[k]]
  BY DEF Leave
<1>2. mainQ \in Seq(Messages) /\ "orphan" \in Messages
  BY DEF IInv, TypeOK, Messages
<1>3. /\ mainQ' \in Seq(Messages) /\ Len(mainQ') = Len(mainQ)
      /\ DOMAIN mainQ' = DOMAIN mainQ /\ DOMAIN mainQ = 1..Len(mainQ)
      /\ \A k \in 1..Len(mainQ) :
           mainQ'[k] = mainQ[k] \/ (mainQ'[k] = "orphan" /\ mainQ[k] = "check")
  BY <1>1, <1>2
<1>4. TypeOK'
  <2>1. service' = None => ScreenTold'
    BY <1>1, <1>3 DEF IInv, TypeOK, ScreenTold, IsScreen, objects
  <2> QED
    BY <1>1, <1>3, <2>1 DEF IInv, TypeOK, world, settings, system, objects
<1>5. LifeInv'
  <2>1. PICK mid \in Lives : /\ Carries(mainQ, Lives, Now(service # None), mid)
                             /\ Carries(life, Lives, mid, Now(started))
    BY DEF IInv, LifeInv
  <2>2. Carries(mainQ', Lives, Now(service # None), mid)
    <3>1. "orphan" \notin Lives /\ "check" \notin Lives
      BY DEF Lives
    <3>2. \A k \in 1..Len(mainQ) : \/ mainQ'[k] = mainQ[k]
                                   \/ mainQ'[k] \notin Lives /\ mainQ[k] \notin Lives
      BY <1>3, <3>1
    <3> QED
      BY <1>3, <2>1, <3>2, CarriesMap
  <2> QED
    BY <1>1, <2>1, <2>2 DEF LifeInv, system, objects
<1>6. ScreenInv'
  <2> SUFFICES ASSUME service # None
               PROVE  \E told, mid \in Screens : /\ Carries(mainQ', Screens, told, mid)
                                                 /\ Carries(bcast', Screens, mid, screen')
    BY <1>1 DEF ScreenInv, objects, world
  <2>1. PICK told \in Screens, mid \in Screens :
               /\ Carries(mainQ, Screens, told, mid)
               /\ Carries(bcast, Screens, mid, screen)
    BY DEF IInv, ScreenInv
  <2>2. Carries(mainQ', Screens, told, mid)
    <3>1. "orphan" \notin Screens /\ "check" \notin Screens
      BY DEF Screens
    <3>2. \A k \in 1..Len(mainQ) : \/ mainQ'[k] = mainQ[k]
                                   \/ mainQ'[k] \notin Screens /\ mainQ[k] \notin Screens
      BY <1>3, <3>1
    <3> QED
      BY <1>3, <2>1, <3>2, CarriesMap
  <2> QED
    BY <1>1, <2>1, <2>2 DEF world
<1>7. Gone'
  BY <1>1, SameGone DEF IInv
<1>8. CheckInv'
  BY <1>1 DEF CheckInv, world
<1> QED
  BY <1>4, <1>5, <1>6, <1>7, <1>8 DEF IInv

-----------------------------------------------------------------------------
(* The main thread and the executors.                                      *)

LEMMA CheckStep == ASSUME IInv, Check PROVE IInv'
<1>1. /\ UNCHANGED <<world, settings, fragment, bcast, objects>>
      /\ mainQ' = Tail(mainQ) /\ CheckDozeService(doze, aod, pref)
  BY DEF Check
<1>2. PICK msg \in {"boot", "check"} : Receive(msg)
  BY DEF Check
<1>3. TypeOK /\ doze \in BOOLEAN /\ aod \in BOOLEAN
  BY DEF IInv, TypeOK
<1>4. /\ started' = Wanted(doze, aod, pref) /\ started' \in BOOLEAN
      /\ life' \in Seq(Lives)
      /\ \A mid \in Lives : Carries(life, Lives, mid, Now(started))
                              => Carries(life', Lives, mid, Now(started'))
  BY <1>1, <1>3, CheckedLife
<1>5. TypeOK'
  <2>1. Tail(mainQ) \in Seq(Messages)
    BY <1>2, <1>3, Taken
  <2>2. service' = None => ScreenTold'
    BY <1>1, <1>2, <1>3, TakenTold DEF TypeOK, objects
  <2> QED
    BY <1>1, <1>3, <1>4, <2>1, <2>2 DEF TypeOK, Lives, world, settings, objects
<1>6. LifeInv'
  <2>1. PICK mid \in Lives : /\ Carries(mainQ, Lives, Now(service # None), mid)
                             /\ Carries(life, Lives, mid, Now(started))
    BY DEF IInv, LifeInv
  <2>2. mainQ \in Seq(Messages) /\ mainQ # <<>> /\ Head(mainQ) \notin Lives
    BY <1>2, <1>3 DEF TypeOK, Receive, Lives
  <2>3. Carries(Tail(mainQ), Lives, Now(service # None), mid)
    BY <2>1, <2>2, CarriesTail
  <2> QED
    BY <1>1, <1>4, <2>1, <2>3 DEF LifeInv, objects
<1>7. ScreenInv'
  <2>1. msg \notin Screens
    BY DEF Screens
  <2> QED
    BY <1>1, <1>2, <1>3, <2>1, TakenScreen DEF IInv, world, settings
<1>8. Gone'
  BY <1>1, SameGone DEF IInv
<1>9. CheckInv'
  <2>1. started' = Wanted(doze', aod', pref')
    BY <1>1, <1>4 DEF settings
  <2>2. careful' => \A k \in DOMAIN mainQ' : mainQ'[k] # "orphan"
    BY <1>1, <1>2, <1>3, Taken DEF IInv, CheckInv, world
  <2> QED
    BY <2>1, <2>2 DEF CheckInv
<1> QED
  BY <1>5, <1>6, <1>7, <1>8, <1>9 DEF IInv

\* The process dies: everything starts over, with or without a service.
LEMMA OrphanStep == ASSUME IInv, Orphan PROVE IInv'
<1>1. /\ UNCHANGED <<world, settings, started>>
      /\ mainQ' = <<>> /\ bcast' = <<>> /\ fragment' = FALSE
      /\ service' = None /\ tasks' = Idle /\ listeners' = {}
      /\ life' = IF started THEN <<"create">> ELSE <<>>
  BY DEF Orphan
<1>2. started \in BOOLEAN
  BY DEF IInv, TypeOK
<1>3. TypeOK'
  <2>1. ScreenTold'
    BY <1>1 DEF ScreenTold
  <2>2. tasks' \in [Instances -> [Sensors -> Seq(Tasks)]]
    BY <1>1 DEF Idle
  <2>3. life' \in Seq({"create", "destroy"}) /\ bcast' \in Seq({"on", "off"})
        /\ mainQ' \in Seq(Messages)
    <3>1. \A S : <<>> \in Seq(S)
      OBVIOUS
    <3>2. <<"create">> \in Seq({"create", "destroy"})
      OBVIOUS
    <3> QED
      BY Zenon, <1>1, <3>1, <3>2
  <2> QED
    BY <1>1, <2>1, <2>2, <2>3 DEF IInv, TypeOK, world, settings
<1>4. LifeInv'
  <2>1. /\ Carries(<<>>, Lives, "destroy", "destroy") /\ "destroy" \in Lives
        /\ Now(service' # None) = "destroy"
    BY <1>1, CarriesEmpty DEF Now, Lives
  <2>2. Carries(life', Lives, "destroy", Now(started'))
    <3>1. CASE started
      <4>1. <<>> \in Seq(Lives) /\ "create" \in Lives /\ "create" # "destroy"
        BY DEF Lives
      <4>2. Carries(Append(<<>>, "create"), Lives, "destroy", "create")
        BY <2>1, <4>1, CarriesAppend
      <4>3. life' = Append(<<>>, "create") /\ Now(started') = "create"
        BY <1>1, <3>1 DEF Now
      <4> QED
        BY <4>2, <4>3
    <3>2. CASE ~started
      BY <1>1, <2>1, <3>2 DEF Now
    <3> QED
      BY <3>1, <3>2
  <2> QED
    BY <1>1, <2>1, <2>2 DEF LifeInv
<1>5. ScreenInv'
  BY <1>1 DEF ScreenInv
<1>6. Gone'
  BY <1>1 DEF Gone, Final, Idle
<1>7. CheckInv'
  <2>1. mainQ[1] = "orphan" /\ 1 \in DOMAIN mainQ
    BY Taken DEF Orphan, IInv
  <2>2. ~careful'
    BY <1>1, <2>1 DEF IInv, CheckInv, world
  <2> QED
    BY <2>2 DEF CheckInv
<1> QED
  BY <1>3, <1>4, <1>5, <1>6, <1>7 DEF IInv

\* The new object knows of no screen change; none is on its way to it.
LEMMA OnCreateStep == ASSUME IInv, OnCreate PROVE IInv'
<1>1. /\ UNCHANGED <<world, settings, fragment, system, bcast, tasks, listeners>>
      /\ Receive("create") /\ mainQ' = Tail(mainQ)
  BY DEF OnCreate
<1>2. PICK new \in Instances : Unused(new) /\ service' = new
  BY DEF OnCreate
<1>3. TypeOK /\ new # None
  BY NoneAssumption DEF IInv
<1>4. PICK mid \in Lives : /\ service = None
                           /\ Carries(Tail(mainQ), Lives, "create", mid)
                           /\ Carries(life, Lives, mid, Now(started))
  <2>1. PICK mid \in Lives : /\ Carries(mainQ, Lives, Now(service # None), mid)
                             /\ Carries(life, Lives, mid, Now(started))
    BY DEF IInv, LifeInv
  <2>2. mainQ \in Seq(Messages) /\ mainQ # <<>> /\ Head(mainQ) = "create"
        /\ "create" \in Lives
    BY <1>1, <1>3 DEF TypeOK, Receive, Lives
  <2>3. /\ Now(service # None) # "create"
        /\ Carries(Tail(mainQ), Lives, "create", mid)
    BY <2>1, <2>2, CarriesTail
  <2>4. service = None
    BY <2>3 DEF Now
  <2> QED
    BY <2>1, <2>3, <2>4
<1>5. ScreenTold'
  BY <1>1, <1>3, <1>4, TakenTold DEF TypeOK
<1>6. TypeOK'
  <2>1. Tail(mainQ) \in Seq(Messages)
    BY <1>1, <1>3, Taken
  <2> QED
    BY <1>1, <1>2, <1>3, <1>5, <2>1 DEF TypeOK, world, settings, system
<1>7. LifeInv'
  <2>1. Now(service' # None) = "create"
    BY <1>2, <1>3 DEF Now
  <2> QED
    BY <1>1, <1>4, <2>1 DEF LifeInv, system
<1>8. ScreenInv'
  <2>1. /\ bcast' = <<>> /\ \A k \in 1..Len(mainQ') : mainQ'[k] \notin Screens
    <3>1. bcast' = <<>> /\ \A k \in DOMAIN mainQ' : mainQ'[k] \notin Screens
      BY <1>5 DEF ScreenTold, IsScreen, Screens
    <3>2. mainQ' \in Seq(Messages)
      BY <1>6 DEF TypeOK
    <3>3. DOMAIN mainQ' = 1..Len(mainQ')
      BY <3>2
    <3> QED
      BY <3>1, <3>3
  <2>2. screen' \in Screens
    BY <1>6 DEF TypeOK, Screens
  <2>3. Carries(bcast', Screens, screen', screen')
    BY <2>1, <2>2, CarriesEmpty
  <2>4. Carries(mainQ', Screens, screen', screen')
    <3>1. Len(mainQ') \in Nat
      BY <1>6 DEF TypeOK
    <3> QED
      BY <2>1, <2>2, <3>1, CarriesNothing
  <2>5. Armed' = {}
    <3>1. \A s \in Sensors : /\ <<new, s>> \notin listeners'
                             /\ tasks'[new][s] = <<>>
      BY <1>1, <1>2 DEF Unused, Idle
    <3> QED
      BY <1>2, <3>1 DEF Armed, Final
  <2> QED
    BY <2>2, <2>3, <2>4, <2>5 DEF ScreenInv
<1>9. Gone'
  <2>1. ASSUME NEW d \in Instances, NEW s \in Sensors, d # service'
        PROVE  ~Final(d, s)'
    <3>1. ~Final(d, s)
      BY <1>4, NoneAssumption DEF IInv, Gone
    <3> QED
      BY <1>1, <3>1 DEF Final
  <2> QED
    BY <2>1 DEF Gone
<1>10. CheckInv'
  BY <1>1, <1>3, TakenCheck DEF IInv, world, settings, system
<1> QED
  BY <1>6, <1>7, <1>8, <1>9, <1>10 DEF IInv

\* The object will have no listener, whatever its executors still do.
LEMMA OnDestroyStep == ASSUME IInv, OnDestroy PROVE IInv'
<1>1. /\ UNCHANGED <<world, settings, fragment, system, listeners>>
      /\ Receive("destroy") /\ mainQ' = Forget(Tail(mainQ))
      /\ bcast' = <<>> /\ service' = None
      /\ tasks' = Submit(Sensors, "unregister")
  BY DEF OnDestroy
<1>2. TypeOK
  BY DEF IInv
<1>3. PICK mid \in Lives : /\ service # None
                           /\ Carries(Tail(mainQ), Lives, "destroy", mid)
                           /\ Carries(life, Lives, mid, Now(started))
  <2>1. PICK mid \in Lives : /\ Carries(mainQ, Lives, Now(service # None), mid)
                             /\ Carries(life, Lives, mid, Now(started))
    BY DEF IInv, LifeInv
  <2>2. mainQ \in Seq(Messages) /\ mainQ # <<>> /\ Head(mainQ) = "destroy"
        /\ "destroy" \in Lives
    BY <1>1, <1>2 DEF TypeOK, Receive, Lives
  <2>3. /\ Now(service # None) # "destroy"
        /\ Carries(Tail(mainQ), Lives, "destroy", mid)
    BY <2>1, <2>2, CarriesTail
  <2>4. service # None
    BY <2>3 DEF Now
  <2> QED
    BY <2>1, <2>3, <2>4
<1>4. /\ tasks' \in [Instances -> [Sensors -> Seq(Tasks)]]
      /\ \A d \in Instances, s \in Sensors :
           Final(d, s)' <=> IF d = service /\ s \in Sensors
                            THEN "unregister" = "register" ELSE Final(d, s)
  BY <1>1, <1>2, <1>3, SubmitFinal DEF Tasks
<1>5. Tail(mainQ) \in Seq(Messages)
  BY <1>1, <1>2, Taken
<1>6. /\ mainQ' \in Seq(Messages) /\ Len(mainQ') = Len(Tail(mainQ))
      /\ DOMAIN mainQ' = DOMAIN Tail(mainQ)
      /\ DOMAIN Tail(mainQ) = 1..Len(Tail(mainQ))
      /\ \A k \in 1..Len(Tail(mainQ)) :
           IF IsScreen(Tail(mainQ)[k]) THEN mainQ'[k] = "forgotten"
           ELSE mainQ'[k] = Tail(mainQ)[k]
  <2>1. "forgotten" \in Messages
    BY DEF Messages
  <2> QED
    BY <1>1, <1>5, <2>1 DEF Forget
<1>7. TypeOK'
  <2>1. ScreenTold'
    BY <1>1, <1>6 DEF ScreenTold, IsScreen
  <2>2. bcast' \in Seq({"on", "off"})
    BY <1>1
  <2> QED
    BY <1>1, <1>2, <1>4, <1>6, <2>1, <2>2 DEF TypeOK, world, settings, system
<1>8. LifeInv'
  <2>1. \A k \in 1..Len(Tail(mainQ)) :
          \/ mainQ'[k] = Tail(mainQ)[k]
          \/ mainQ'[k] \notin Lives /\ Tail(mainQ)[k] \notin Lives
    BY <1>6 DEF IsScreen, Lives
  <2>2. Carries(mainQ', Lives, "destroy", mid)
    BY <1>3, <1>6, <2>1, CarriesMap
  <2>3. Now(service' # None) = "destroy"
    BY <1>1 DEF Now
  <2> QED
    BY <1>1, <1>3, <2>2, <2>3 DEF LifeInv, system
<1>9. ScreenInv'
  BY <1>1 DEF ScreenInv
<1>10. Gone'
  <2>1. ASSUME NEW d \in Instances, NEW s \in Sensors PROVE ~Final(d, s)'
    BY <1>4 DEF IInv, Gone
  <2> QED
    BY <2>1 DEF Gone
<1>11. CheckInv'
  BY <1>1, <1>2, TakenCheck DEF IInv, world, settings, system
<1> QED
  BY <1>7, <1>8, <1>9, <1>10, <1>11 DEF IInv

\* The sensors that are disarmed are those that were armed: with a careful
\* user the gestures are what they were.
LEMMA OnDisplayOnStep == ASSUME IInv, OnDisplayOn PROVE IInv'
<1>1. /\ UNCHANGED <<world, settings, fragment, system, bcast, service, listeners>>
      /\ Receive("on") /\ mainQ' = Tail(mainQ)
      /\ tasks' = Submit(Used, "unregister")
  BY DEF OnDisplayOn
<1>2. TypeOK
  BY DEF IInv
<1>3. service # None /\ service \in Instances
  BY <1>1, <1>2, Taken DEF TypeOK, ScreenTold, IsScreen
<1>4. /\ tasks' \in [Instances -> [Sensors -> Seq(Tasks)]]
      /\ \A d \in Instances, s \in Sensors :
           Final(d, s)' <=> IF d = service /\ s \in Used
                            THEN "unregister" = "register" ELSE Final(d, s)
  <2>1. Used \subseteq Sensors /\ "unregister" \in Tasks /\ listeners' = listeners
    BY <1>1 DEF Used, Tasks
  <2> QED
    BY <1>1, <1>2, <1>3, <2>1, SubmitFinal
<1>5. TypeOK'
  <2>1. Tail(mainQ) \in Seq(Messages)
    BY <1>1, <1>2, Taken
  <2> QED
    BY <1>1, <1>2, <1>3, <1>4, <2>1 DEF TypeOK, world, settings, system
<1>6. LifeInv'
  <2>1. "on" \notin Lives
    BY DEF Lives
  <2> QED
    BY <1>1, <1>2, <2>1, TakenLife DEF IInv, system
<1>7. ScreenInv'
  <2>1. PICK told \in Screens, mid \in Screens :
               /\ Carries(mainQ, Screens, told, mid)
               /\ Carries(bcast, Screens, mid, screen)
               /\ careful => Armed = {} \/ (told = "off" /\ Armed = Used)
    BY <1>3 DEF IInv, ScreenInv
  <2>2. mainQ \in Seq(Messages) /\ mainQ # <<>> /\ Head(mainQ) = "on"
        /\ "on" \in Screens
    BY <1>1, <1>2 DEF TypeOK, Receive, Screens
  <2>3. told # "on" /\ Carries(Tail(mainQ), Screens, "on", mid)
    BY <2>1, <2>2, CarriesTail
  <2>4. told = "off"
    BY <2>3 DEF Screens
  <2>5. careful => Armed' = {}
    <3>1. PICK own \in Instances : own = service
      BY <1>3
    <3>2. ASSUME careful, NEW s \in Sensors PROVE s \notin Armed'
      <4>1. s \in Used \/ ~Final(own, s)
        BY <2>1, <3>1, <3>2 DEF Armed
      <4>2. ~Final(own, s)'
        BY <1>4, <3>1, <4>1
      <4> QED
        BY <1>1, <3>1, <4>2 DEF Armed, Final
    <3> QED
      BY <3>2 DEF Armed
  <2> QED
    BY <1>1, <2>1, <2>2, <2>3, <2>5 DEF ScreenInv, world
<1>8. Gone'
  BY <1>1, <1>4 DEF IInv, Gone
<1>9. CheckInv'
  BY <1>1, <1>2, TakenCheck DEF IInv, world, settings, system
<1> QED
  BY <1>5, <1>6, <1>7, <1>8, <1>9 DEF IInv

\* No sensor was armed; those in use are armed together.
LEMMA OnDisplayOffStep == ASSUME IInv, OnDisplayOff PROVE IInv'
<1>1. /\ UNCHANGED <<world, settings, fragment, system, bcast, service, listeners>>
      /\ Receive("off") /\ mainQ' = Tail(mainQ)
      /\ tasks' = Submit(Used, "register")
  BY DEF OnDisplayOff
<1>2. TypeOK
  BY DEF IInv
<1>3. service # None /\ service \in Instances
  BY <1>1, <1>2, Taken DEF TypeOK, ScreenTold, IsScreen
<1>4. /\ tasks' \in [Instances -> [Sensors -> Seq(Tasks)]]
      /\ \A d \in Instances, s \in Sensors :
           Final(d, s)' <=> IF d = service /\ s \in Used
                            THEN "register" = "register" ELSE Final(d, s)
  <2>1. Used \subseteq Sensors /\ "register" \in Tasks /\ listeners' = listeners
    BY <1>1 DEF Used, Tasks
  <2> QED
    BY <1>1, <1>2, <1>3, <2>1, SubmitFinal
<1>5. TypeOK'
  <2>1. Tail(mainQ) \in Seq(Messages)
    BY <1>1, <1>2, Taken
  <2> QED
    BY <1>1, <1>2, <1>3, <1>4, <2>1 DEF TypeOK, world, settings, system
<1>6. LifeInv'
  <2>1. "off" \notin Lives
    BY DEF Lives
  <2> QED
    BY <1>1, <1>2, <2>1, TakenLife DEF IInv, system
<1>7. ScreenInv'
  <2>1. PICK told \in Screens, mid \in Screens :
               /\ Carries(mainQ, Screens, told, mid)
               /\ Carries(bcast, Screens, mid, screen)
               /\ careful => Armed = {} \/ (told = "off" /\ Armed = Used)
    BY <1>3 DEF IInv, ScreenInv
  <2>2. mainQ \in Seq(Messages) /\ mainQ # <<>> /\ Head(mainQ) = "off"
        /\ "off" \in Screens
    BY <1>1, <1>2 DEF TypeOK, Receive, Screens
  <2>3. told # "off" /\ Carries(Tail(mainQ), Screens, "off", mid)
    BY <2>1, <2>2, CarriesTail
  <2>4. told = "on"
    BY <2>3 DEF Screens
  <2>5. careful => Armed' = Used'
    <3>1. Used' = Used
      BY <1>1 DEF Used, SensorUsed, settings
    <3>2. PICK own \in Instances : own = service
      BY <1>3
    <3>3. ASSUME careful, NEW s \in Sensors PROVE s \in Armed' <=> s \in Used
      <4>1. ~Final(own, s)
        BY <2>1, <2>4, <3>2, <3>3 DEF Armed
      <4>2. Final(own, s)' <=> s \in Used
        BY <1>4, <3>2, <4>1
      <4>3. s \in Armed' <=> Final(own, s)'
        BY <1>1, <3>2 DEF Armed, Final
      <4> QED
        BY <4>2, <4>3
    <3>4. Armed' \subseteq Sensors /\ Used \subseteq Sensors
      BY DEF Armed, Used
    <3> QED
      BY <3>1, <3>3, <3>4
  <2> QED
    BY <1>1, <2>1, <2>2, <2>3, <2>5 DEF ScreenInv, world
<1>8. Gone'
  BY <1>1, <1>4 DEF IInv, Gone
<1>9. CheckInv'
  BY <1>1, <1>2, TakenCheck DEF IInv, world, settings, system
<1> QED
  BY <1>5, <1>6, <1>7, <1>8, <1>9 DEF IInv

LEMMA ForgottenStep == ASSUME IInv, Forgotten PROVE IInv'
<1>1. /\ UNCHANGED <<world, settings, fragment, system, bcast, objects>>
      /\ Receive("forgotten") /\ mainQ' = Tail(mainQ)
  BY DEF Forgotten
<1>2. TypeOK /\ "forgotten" \notin Lives /\ "forgotten" \notin Screens
  BY DEF IInv, Lives, Screens
<1>3. TypeOK'
  <2>1. Tail(mainQ) \in Seq(Messages)
    BY <1>1, <1>2, Taken
  <2>2. service' = None => ScreenTold'
    BY <1>1, <1>2, TakenTold DEF TypeOK, objects
  <2> QED
    BY <1>1, <1>2, <2>1, <2>2 DEF TypeOK, world, settings, system, objects
<1>4. LifeInv'
  BY <1>1, <1>2, TakenLife DEF IInv, system, objects
<1>5. ScreenInv'
  BY <1>1, <1>2, TakenScreen DEF IInv, world, settings
<1>6. Gone'
  BY <1>1, SameGone DEF IInv
<1>7. CheckInv'
  BY <1>1, <1>2, TakenCheck DEF IInv, world, settings, system
<1> QED
  BY <1>3, <1>4, <1>5, <1>6, <1>7 DEF IInv

LEMMA ExecutorStep ==
  ASSUME IInv, NEW d \in Instances, NEW s \in Sensors, Executor(d, s)
  PROVE  IInv'
<1>1. UNCHANGED <<world, settings, fragment, system, bcast, mainQ, service>>
  BY DEF Executor
<1>2. TypeOK
  BY DEF IInv
<1>3. /\ tasks' \in [Instances -> [Sensors -> Seq(Tasks)]]
      /\ listeners' \subseteq Instances \X Sensors
      /\ \A e \in Instances, u \in Sensors : Final(e, u)' <=> Final(e, u)
  BY <1>2, ExecutorFinal
<1>4. TypeOK'
  BY <1>1, <1>2, <1>3 DEF TypeOK, ScreenTold, world, settings, system
<1>5. LifeInv'
  BY <1>1, SameLife DEF IInv, system
<1>6. ScreenInv'
  <2>1. service # None => Armed' = Armed
    <3> SUFFICES ASSUME service # None PROVE Armed' = Armed
      OBVIOUS
    <3>1. PICK own \in Instances : own = service
      BY <1>2 DEF TypeOK
    <3>2. ASSUME NEW u \in Sensors PROVE u \in Armed' <=> u \in Armed
      <4>1. Final(own, u)' <=> Final(own, u)
        BY <1>3
      <4> QED
        BY <1>1, <3>1, <4>1 DEF Armed, Final
    <3>3. Armed \subseteq Sensors /\ Armed' \subseteq Sensors
      BY DEF Armed
    <3> QED
      BY <3>2, <3>3
  <2>2. Used' = Used
    BY <1>1 DEF Used, SensorUsed, settings
  <2> QED
    BY <1>1, <2>1, <2>2 DEF IInv, ScreenInv, world
<1>7. Gone'
  BY <1>1, <1>3 DEF IInv, Gone
<1>8. CheckInv'
  BY <1>1, SameCheck DEF IInv, world, settings, system
<1> QED
  BY <1>4, <1>5, <1>6, <1>7, <1>8 DEF IInv

LEMMA Stutter == ASSUME IInv, UNCHANGED vars PROVE IInv'
<1>1. UNCHANGED <<world, settings, fragment, system, bcast, mainQ, objects>>
  BY DEF vars
<1>2. TypeOK'
  BY <1>1 DEF IInv, TypeOK, ScreenTold, world, settings, system, objects
<1>3. LifeInv' /\ Gone'
  BY <1>1, SameLife, SameGone DEF IInv, system, objects
<1>4. ScreenInv' /\ CheckInv'
  BY <1>1, SameScreen, SameCheck DEF IInv, world, settings, system
<1> QED
  BY <1>2, <1>3, <1>4 DEF IInv

-----------------------------------------------------------------------------
(* The theorems.                                                           *)

\* The messages on their way and the tasks of the executors lead to what the
\* properties say, whatever order they are delivered in.
THEOREM Invariance == Spec => []IInv
<1>1. Init => IInv
  BY Initially
<1>2. ASSUME IInv, Next PROVE IInv'
  <2>1. CASE ScreenChanges
    BY <1>2, <2>1, ScreenChangesStep
  <2>2. CASE ArriveLife
    BY <1>2, <2>2, ArriveLifeStep
  <2>3. CASE ArriveBroadcast
    BY <1>2, <2>3, ArriveBroadcastStep
  <2>4. CASE User
    BY <1>2, <2>4, GestureChangesStep, AlwaysOnChangesStep, DozeChangesStep,
       OpenStep, LeaveStep DEF User
  <2>5. CASE MainThread
    BY <1>2, <2>5, CheckStep, OrphanStep, OnCreateStep, OnDestroyStep,
       OnDisplayOnStep, OnDisplayOffStep, ForgottenStep DEF MainThread
  <2>6. CASE \E d \in Instances, s \in Sensors : Executor(d, s)
    BY <1>2, <2>6, ExecutorStep
  <2> QED
    BY Zenon, <1>2, <2>1, <2>2, <2>3, <2>4, <2>5, <2>6 DEF Next
<1>3. IInv /\ [Next]_vars => IInv'
  BY <1>2, Stutter
<1> QED
  BY <1>1, <1>3, PTL DEF Spec

\* No broadcast is on its way, or waits for the main thread, without a
\* service object, however often the service is started and stopped.
THEOREM TypeCorrect == Spec => []TypeOK
<1>1. IInv => TypeOK
  BY DEF IInv
<1> QED
  BY <1>1, Invariance, PTL

\* After any history of settings, checks and starts that is delivered, the
\* service runs exactly if the settings ask for it.
THEOREM ServiceTheorem == Spec => []ServiceMatchesSettings
<1>1. IInv => ServiceMatchesSettings
  <2> SUFFICES ASSUME IInv, Settled, careful
               PROVE  service # None <=> Wanted(doze, aod, pref)
    BY DEF ServiceMatchesSettings
  <2>1. mainQ = <<>> /\ life = <<>> /\ DOMAIN mainQ = 1..0
    BY DEF Settled
  <2>2. started = Wanted(doze, aod, pref)
    BY <2>1 DEF IInv, CheckInv
  <2>3. PICK mid \in Lives : /\ Carries(mainQ, Lives, Now(service # None), mid)
                             /\ Carries(life, Lives, mid, Now(started))
    BY DEF IInv, LifeInv
  <2>4. Now(service # None) = Now(started)
    BY <2>1, <2>3, CarriedNowhere
  <2> QED
    BY <2>2, <2>4 DEF Now
<1> QED
  BY <1>1, Invariance, PTL

\* No object but the live service keeps a listener.
THEOREM OwnedTheorem == Spec => []OwnedListeners
<1>1. IInv => OwnedListeners
  <2> SUFFICES ASSUME IInv, Settled, NEW l \in listeners
               PROVE  l \in {service} \X Sensors
    BY DEF OwnedListeners
  <2>1. PICK d \in Instances, s \in Sensors : l = <<d, s>>
    BY DEF IInv, TypeOK
  <2>2. tasks[d][s] = <<>>
    BY DEF Settled, Idle
  <2>3. Final(d, s)
    BY <2>1, <2>2 DEF Final
  <2>4. d = service
    BY <2>3 DEF IInv, Gone
  <2> QED
    BY <2>1, <2>4
<1> QED
  BY <1>1, Invariance, PTL

\* What the listeners are once everything is delivered: those of the armed
\* sensors of the live service.
LEMMA SettledListeners ==
  ASSUME IInv, Settled
  PROVE  /\ service = None => listeners = {}
         /\ service # None => listeners = {<<service, s>> : s \in Armed}
<1>1. \A d \in Instances, s \in Sensors : <<d, s>> \in listeners <=> Final(d, s)
  BY DEF Settled, Idle, Final
<1>2. listeners \subseteq Instances \X Sensors /\ service \in Instances \cup {None}
  BY DEF IInv, TypeOK
<1>3. \A d \in Instances, s \in Sensors : <<d, s>> \in listeners => d = service
  BY <1>1 DEF IInv, Gone
<1>4. service = None => listeners = {}
  BY <1>2, <1>3, NoneAssumption
<1>5. ASSUME service # None PROVE listeners = {<<service, s>> : s \in Armed}
  <2>1. service \in Instances
    BY <1>2, <1>5
  <2>2. \A s \in Sensors : <<service, s>> \in listeners <=> s \in Armed
    BY <1>1, <2>1 DEF Armed
  <2>3. Armed \subseteq Sensors
    BY DEF Armed
  <2> QED
    BY <1>2, <1>3, <2>2, <2>3
<1> QED
  BY <1>4, <1>5

\* With the screen on and a careful user nothing listens.
THEOREM QuietTheorem == Spec => []QuietWhenOn
<1>1. IInv => QuietWhenOn
  <2> SUFFICES ASSUME IInv, Settled, careful, screen = "on" PROVE listeners = {}
    BY DEF QuietWhenOn
  <2>1. CASE service = None
    BY <2>1, SettledListeners
  <2>2. CASE service # None
    <3>1. PICK told \in Screens, mid \in Screens :
                 /\ Carries(mainQ, Screens, told, mid)
                 /\ Carries(bcast, Screens, mid, screen)
                 /\ Armed = {} \/ (told = "off" /\ Armed = Used)
      BY <2>2 DEF IInv, ScreenInv
    <3>2. told = screen
      BY <3>1, CarriedNowhere DEF Settled
    <3>3. Armed = {}
      BY <3>1, <3>2
    <3> QED
      BY <2>2, <3>3, SettledListeners
  <2> QED
    BY <2>1, <2>2
<1> QED
  BY <1>1, Invariance, PTL

\* With the screen off and a careful user, all gestures in use are listened
\* to or none is.
THEOREM ArmedTheorem == Spec => []ArmedTogether
<1>1. IInv => ArmedTogether
  <2> SUFFICES ASSUME IInv, Settled, careful
               PROVE  \/ listeners = {}
                      \/ listeners = {<<service, s>> : s \in Used}
    BY DEF ArmedTogether
  <2>1. CASE service = None
    BY <2>1, SettledListeners
  <2>2. CASE service # None
    <3>1. Armed = {} \/ Armed = Used
      BY <2>2 DEF IInv, ScreenInv
    <3> QED
      BY <2>2, <3>1, SettledListeners
  <2> QED
    BY <2>1, <2>2
<1> QED
  BY <1>1, Invariance, PTL
=============================================================================
