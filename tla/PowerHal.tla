------------------------------ MODULE PowerHal ------------------------------
(***************************************************************************)
(* The power HAL of power/: Power.cpp and power-mode.cpp (the calls of the *)
(* framework), power-common.c (the hints that every SoC handles alike and  *)
(* the choice between them and the SoC's file) and what they keep in the   *)
(* perf lock library and in sysfs.  The HAL answers one call at a time.    *)
(*                                                                         *)
(* Android.mk links the file of one platform, or none; so does soc.  The   *)
(* files define the same functions: in their modules each name ends in the *)
(* SoC's.  Every other platform, this device's trinket among them, has the *)
(* weak functions of power-common.c.                                       *)
(***************************************************************************)
EXTENDS Power8974, Power8084, Power8226, Power8610, Power8909, Power8916,
        Power8937, Power8952, Power8953, Power8960, Power8992, Power8994,
        Power8996, Power8998, Power660, Power845, Power710, PowerMsmnile

CONSTANTS
  SoCs,        \* the platforms the HAL may be built for
  Libraries,   \* the sets of functions that the perf lock library may have
  Clients,     \* "service": only Power.cpp calls; "library": any function
               \* of power-common.h is called, by a board's own additions
  Texts,       \* the metadata of video hints: sequences of attributes
  Durations,   \* the lengths of interactions, in milliseconds
  CallSets,    \* bound: the kinds of calls that one such client makes
  Profiles,    \* the profiles it asks for, "unknown" is a number too high
  MaxLocks,    \* bound: locks of one kind that are held at a time
  MaxRef,      \* bound: references to one hint
  MaxList,     \* bound: active hints in the list
  MaxMissed    \* bound: display-ons under another governor

ASSUME BoundsAssumption ==
  MaxLocks \in Nat \ {0} /\ MaxRef \in Nat /\ MaxList \in Nat /\ MaxMissed \in Nat

VARIABLES
  soc,         \* the platform
  client,      \* who calls
  calls,       \* the kinds of calls the client makes
  foreign,     \* metadata names none of the identities in OwnIds
  missed,      \* history: how often the display was turned on, having been
               \* off, under a governor other than the interactive one
  hal          \* the HAL's static variables, and the locks that are held

config == <<soc, client, calls, foreign, is_target_8974pro, lib>>
FullLibrary == lib = Functions
vars == <<config, governor, missed, hal>>

Groups == {"profile", "video", "mode", "boost", "display"}
Governors == {"interactive", "schedutil", "other", "unreadable"}
Hints == {"VIDEO_ENCODE", "VIDEO_DECODE", "SUSTAINED_PERFORMANCE", "VR_MODE",
          "INTERACTION", "LAUNCH"}
GroupOf(hint) ==
  CASE hint \in {"VIDEO_ENCODE", "VIDEO_DECODE"} -> "video"
    [] hint \in {"SUSTAINED_PERFORMANCE", "VR_MODE"} -> "mode"
    [] hint \in {"INTERACTION", "LAUNCH"} -> "boost"

(* The identities under which the HAL lists locks that no video hint is    *)
(* about and whose number the properties bound.                            *)
OwnIds == {"profile", "display"}
ForeignText(text) ==
  {parse_video_encode_metadata(text).hint_id,
   parse_video_decode_metadata(text).hint_id} \cap OwnIds = {}

DataOf(hint) ==
  {Null} \cup
  CASE GroupOf(hint) = "video" ->
         {<<text>> : text \in {t \in Texts : foreign => ForeignText(t)}}
    [] hint = "INTERACTION" -> {<<ms>> : ms \in Durations}
    [] OTHER -> {<<TRUE>>}

(* Memory is allocated only for the list of active hints. *)
OutcomesOf(hint) ==
  IF GroupOf(hint) = "video" THEN Outcomes ELSE Outcomes \ {"nomem"}

(* The hints whose handle and count are in handles[] of power-common.c,    *)
(* with what their locks are for: a SoC's perf mode may acquire the same   *)
(* hint of the library.                                                    *)
Counted == {"SUSTAINED_PERFORMANCE", "VIDEO_ENCODE"}
KindOf(hint) == IF hint = "VIDEO_ENCODE" THEN "encode" ELSE "sustained"

(* Where else the HAL keeps a handle: switch_mode(), the SoC's own         *)
(* encoding, interaction and launch, and interaction() of utils.c.         *)
Handles == Counted \cup {"mode", "encode", "interaction", "launch", "lock_handle"}

TimedKinds == {"scroll", "touch", "launch"}
SentKinds == {"display_off", "display_on"}
Kinds == TimedKinds \cup SentKinds \cup HintIds
           \cup {"initial", "sustained", "vr", "vr_sustained"}
Locks == Kinds \X (Nat \ {0})

-----------------------------------------------------------------------------
(* The platforms                                                           *)


set_power_profile(s, profile, out) ==
  CASE soc = "8974" -> set_power_profile_8974(s, profile, out)
    [] soc = "8084" -> set_power_profile_8084(s, profile, out)
    [] soc = "8226" -> set_power_profile_8226(s, profile, out)
    [] soc = "8610" -> set_power_profile_8610(s, profile, out)
    [] soc = "8916" -> set_power_profile_8916(s, profile, out)
    [] soc = "8937" -> set_power_profile_8937(s, profile, out)
    [] soc = "8952" -> set_power_profile_8952(s, profile, out)
    [] soc = "8953" -> set_power_profile_8953(s, profile, out)
    [] soc = "8960" -> set_power_profile_8960(s, profile, out)
    [] soc = "8992" -> set_power_profile_8992(s, profile, out)
    [] soc = "8994" -> set_power_profile_8994(s, profile, out)
    [] soc = "8996" -> set_power_profile_8996(s, profile, out)
    [] soc = "8998" -> set_power_profile_8998(s, profile, out)
    [] soc = "660" -> set_power_profile_660(s, profile, out)
    [] OTHER -> s

power_hint_override(s, hint, data, out) ==
  CASE soc = "8974" -> power_hint_override_8974(s, hint, data, out)
    [] soc = "8084" -> power_hint_override_8084(s, hint, data, out)
    [] soc = "8226" -> power_hint_override_8226(s, hint, data, out)
    [] soc = "8610" -> power_hint_override_8610(s, hint, data, out)
    [] soc = "8909" -> power_hint_override_8909(s, hint, data, out)
    [] soc = "8916" -> power_hint_override_8916(s, hint, data, out)
    [] soc = "8937" -> power_hint_override_8937(s, hint, data, out)
    [] soc = "8952" -> power_hint_override_8952(s, hint, data, out)
    [] soc = "8953" -> power_hint_override_8953(s, hint, data, out)
    [] soc = "8960" -> power_hint_override_8960(s, hint, data, out)
    [] soc = "8992" -> power_hint_override_8992(s, hint, data, out)
    [] soc = "8994" -> power_hint_override_8994(s, hint, data, out)
    [] soc = "8996" -> power_hint_override_8996(s, hint, data, out)
    [] soc = "8998" -> power_hint_override_8998(s, hint, data, out)
    [] soc = "660" -> power_hint_override_660(s, hint, data, out)
    [] soc = "845" -> power_hint_override_845(s, hint, data, out)
    [] soc = "msmnile" -> power_hint_override_msmnile(s, hint, data, out)
    [] OTHER -> HINT_NONE(s)

set_interactive_override(s, on, out, io) ==
  CASE soc = "8974" -> set_interactive_override_8974(s, on, out, io)
    [] soc = "8084" -> set_interactive_override_8084(s, on, out, io)
    [] soc = "8226" -> set_interactive_override_8226(s, on, out, io)
    [] soc = "8610" -> set_interactive_override_8610(s, on, out, io)
    [] soc = "8909" -> set_interactive_override_8909(s, on, out, io)
    [] soc = "8916" -> set_interactive_override_8916(s, on, out, io)
    [] soc = "8937" -> set_interactive_override_8937(s, on, out, io)
    [] soc = "8952" -> set_interactive_override_8952(s, on, out, io)
    [] soc = "8953" -> set_interactive_override_8953(s, on, out, io)
    [] soc = "8960" -> set_interactive_override_8960(s, on, out, io)
    [] soc = "8992" -> set_interactive_override_8992(s, on, out, io)
    [] soc = "8994" -> set_interactive_override_8994(s, on, out, io)
    [] soc = "8996" -> set_interactive_override_8996(s, on, out, io)
    [] soc = "8998" -> set_interactive_override_8998(s, on, out, io)
    [] soc = "660" -> set_interactive_override_660(s, on, out, io)
    [] soc = "845" -> set_interactive_override_845(s, on, out, io)
    [] soc = "710" -> set_interactive_override_710(s, on, out, io)
    [] soc = "msmnile" -> set_interactive_override_msmnile(s, on, out, io)
    [] OTHER -> s

-----------------------------------------------------------------------------
(* power-common.c                                                          *)

power_init ==
  [held |-> IF soc \in {"8974", "8084"} THEN {<<"initial", 1>>} ELSE {},
   h |-> [v \in Handles |-> None],
   count |-> [hint \in Counted |-> 0],
   list |-> <<>>,
   display_hint_sent |-> FALSE,
   profile |-> "balanced",
   mode |-> NORMAL_MODE,
   encode_sent |-> FALSE,
   launch_mode |-> FALSE,
   recent |-> FALSE,
   first_off |-> FALSE,
   node_open |-> FALSE,
   node |-> "unwritten"]

(* A start counts only while there is a lock, a stop only if one was       *)
(* acquired; the last stop releases it.                                    *)
Start(s, hint, out) ==
  LET acquired == IF s.count[hint] > 0 THEN s
                  ELSE perf_hint_enable(s, hint, KindOf(hint), out) IN
  IF acquired.h[hint] = None THEN acquired
  ELSE [acquired EXCEPT !.count[hint] = @ + 1]

StopUnchecked(s, hint) ==
  [release_request(s, s.h[hint]) EXCEPT !.h[hint] = None, !.count[hint] = @ - 1]

StopEach(s, hint) ==
  CASE s.h[hint] = None -> s
    [] s.h[hint] # None /\ s.count[hint] > 1 ->
         [release_request(s, s.h[hint]) EXCEPT !.count[hint] = @ - 1]
    [] s.h[hint] # None /\ s.count[hint] <= 1 ->
         [release_request(s, s.h[hint]) EXCEPT
            !.h[hint] = None, !.count[hint] = 0]

Stop(s, hint) ==
  CASE s.h[hint] = None -> s
    [] s.h[hint] # None /\ s.count[hint] > 1 -> [s EXCEPT !.count[hint] = @ - 1]
    [] s.h[hint] # None /\ s.count[hint] <= 1 ->
         [release_request(s, s.h[hint]) EXCEPT
            !.h[hint] = None, !.count[hint] = 0]

(* out is the outcome of what the SoC acquires, common of what is acquired *)
(* here if the SoC has not handled the hint.                               *)
power_hint(s, hint, data, out, common) ==
  LET override == power_hint_override(s, hint, data, out) IN
  CASE override.ret = "HINT_HANDLED" \/ hint \notin Counted -> override.hal
    [] override.ret = "HINT_NONE" /\ hint \in Counted /\ data # Null ->
         Start(override.hal, hint, common)
    [] override.ret = "HINT_NONE" /\ hint \in Counted /\ data = Null ->
         Stop(override.hal, hint)

(* Every call sends its hint and drops the handle, a repeated display-off  *)
(* too; on is 0 or 1, and sent what the library makes of the hint.         *)
SendDisplay(s, on, sent) ==
  perf_hint_unkept(s, IF on THEN "display_on" ELSE "display_off", sent)

set_interactive_again(s, on, sent, out, io) ==
  set_interactive_override(
    [SendDisplay(s, on, sent) EXCEPT !.display_hint_sent = ~on], on, out, io)

set_interactive(s, on, sent, out, io) ==
  LET hinted == SendDisplay(s, on, sent) IN
  IF s.display_hint_sent /\ ~on THEN hinted
  ELSE set_interactive_override(
         [hinted EXCEPT !.display_hint_sent = ~on], on, out, io)

-----------------------------------------------------------------------------
(* The calls                                                               *)

Bounded(s) ==
  /\ \A lock \in s.held : lock[2] <= MaxLocks
  /\ \A hint \in Counted : s.count[hint] <= MaxRef
  /\ Len(s.list) <= MaxList

(* What Power.cpp does for the other modes and boosts leaves the HAL's     *)
(* state alone.                                                            *)
Step(s, n) == /\ Bounded(s) /\ n <= MaxMissed
              /\ hal' = s
              /\ missed' = n
              /\ UNCHANGED <<config, governor>>
Call(s) == Step(s, missed)

(* Mode::LAUNCH, and setBoost(). *)
SetLaunch(enabled) ==
  \E out \in OutcomesOf("LAUNCH") :
    Call(power_hint(hal, "LAUNCH", IF enabled THEN <<enabled>> ELSE Null, out, out))

SetBoost(durationMs) ==
  \E out \in OutcomesOf("INTERACTION") :
    Call(power_hint(hal, "INTERACTION", <<durationMs>>, out, out))

(* Mode::INTERACTIVE. *)
Missed(on) ==
  missed + IF on /\ hal.display_hint_sent /\ ~is_interactive_governor THEN 1 ELSE 0

SetInteractive(enabled) ==
  \E sent \in Outcomes \ {"nomem"}, out \in Outcomes, io \in BOOLEAN :
    Step(set_interactive(hal, enabled, sent, out, io), Missed(enabled))

(* Mode::SUSTAINED_PERFORMANCE and FIXED_PERFORMANCE: enabled is not       *)
(* passed on.                                                              *)
SetSustained(enabled) ==
  \E out, common \in OutcomesOf("SUSTAINED_PERFORMANCE") :
    Call(power_hint(hal, "SUSTAINED_PERFORMANCE", Null, out, common))

Service ==
  /\ client = "service"
  /\ \/ "display" \in calls /\ \E on \in BOOLEAN : SetInteractive(on)
     \/ "mode" \in calls /\ \E enabled \in BOOLEAN : SetSustained(enabled)
     \/ "boost" \in calls /\ \E enabled \in BOOLEAN : SetLaunch(enabled)
     \/ "boost" \in calls /\ \E ms \in Durations : SetBoost(ms)

Hint ==
  \E hint \in Hints :
    /\ GroupOf(hint) \in calls
    /\ \E data \in DataOf(hint), out, common \in OutcomesOf(hint) :
         /\ \/ common = "refused"
            \/ hint \in Counted /\ common = "granted"
         /\ Call(power_hint(hal, hint, data, out, common))

SetProfile ==
  /\ "profile" \in calls
  /\ \E profile \in Profiles, out \in Outcomes :
       Call(set_power_profile(hal, profile, out))

Interactive ==
  /\ "display" \in calls
  /\ \E on \in BOOLEAN : SetInteractive(on)

Library ==
  /\ client = "library"
  /\ Hint \/ SetProfile \/ Interactive

-----------------------------------------------------------------------------
(* The environment                                                         *)

(* A lock with a duration ends. *)
Expire ==
  \E lock \in hal.held :
    /\ lock[1] \in TimedKinds
    /\ hal' = [hal EXCEPT !.held = @ \ {lock}]
    /\ UNCHANGED <<config, governor, missed>>

(* 250 ms pass. *)
Elapse ==
  /\ hal.recent
  /\ hal' = [hal EXCEPT !.recent = FALSE]
  /\ UNCHANGED <<config, governor, missed>>

(* No other call reads the governor. *)
ReadsGovernor == calls \cap {"video", "display"} # {}

ChangeGovernor ==
  /\ ReadsGovernor
  /\ governor' \in Governors
  /\ UNCHANGED <<config, missed, hal>>

Init ==
  /\ soc \in SoCs
  /\ lib \in Libraries
  /\ client \in Clients
  /\ calls \in CallSets
  /\ client = "service" => calls \cap {"display", "mode", "boost"} # {}
  /\ is_target_8974pro \in IF soc = "8974" THEN BOOLEAN ELSE {FALSE}
  /\ governor \in IF ReadsGovernor THEN Governors ELSE {"unreadable"}
  /\ foreign \in IF "video" \in calls THEN BOOLEAN ELSE {TRUE}
  /\ missed = 0
  /\ hal = power_init

Next == Service \/ Library \/ Expire \/ Elapse \/ ChangeGovernor

Spec == Init /\ [][Next]_vars

-----------------------------------------------------------------------------
(* Properties                                                              *)

(* The state is of these types; every handle is one the library gave. *)
TypeOK ==
  /\ hal.held \subseteq Locks /\ \A lock \in hal.held : lock[2] <= MaxLocks
  /\ hal.h \in [Handles -> Locks \cup {None}]
  /\ hal.count \in [Counted -> 0..MaxRef]
  /\ \A i \in DOMAIN hal.list : /\ hal.list[i].hint_id \in HintIds
                                /\ hal.list[i].lock \in Locks
  /\ hal.mode \subseteq Modes
  /\ hal.profile \in {"balanced"} \cup FiveProfiles
  /\ governor \in Governors /\ missed \in 0..MaxMissed
  /\ \A v \in {"display_hint_sent", "encode_sent", "launch_mode", "recent",
               "first_off", "node_open"} : hal[v] \in BOOLEAN

HeldOf(kinds) == {lock \in hal.held : lock[1] \in kinds}
Entries(id) == {i \in DOMAIN hal.list : hal.list[i].hint_id = id}
ListedLocks == {hal.list[i].lock : i \in DOMAIN hal.list}

(* A lock that the HAL will release later, through a counted hint, a perf  *)
(* mode or the list of active hints, is held until then and belongs to     *)
(* one of them only; and a hint is counted exactly while its lock is held. *)
NoStaleHandle ==
  /\ \A hint \in Counted : /\ (hal.count[hint] > 0) <=> (hal.h[hint] # None)
                           /\ hal.h[hint] \notin ListedLocks
  /\ \A v \in Counted \cup {"mode"} : hal.h[v] # None => hal.h[v] \in hal.held
  /\ hal.h["mode"] \notin {hal.h["SUSTAINED_PERFORMANCE"]} \ {None}
  /\ ListedLocks \subseteq hal.held
  /\ Cardinality(ListedLocks) = Len(hal.list)

(* With the whole library the HAL forgets no lock without a duration, it   *)
(* keeps the handle by which it can be released, but in two places: what   *)
(* set_interactive() sends on every call has its handle dropped            *)
(* (power-common.c:118-124), and where encoding has a handle of its own    *)
(* (power-845.c, power-8998.c) a second start loses the first one's.       *)
NoOrphan ==
  FullLibrary =>
    \A lock \in hal.held :
      \/ lock[1] \in TimedKinds \cup SentKinds \cup {"initial"}
      \/ lock \in ListedLocks \cup {hal.h[v] : v \in Counted \cup {"mode", "encode"}}
      \/ soc \in {"845", "8998"} /\ lock[1] = "encode"

(* A profile other than the balanced one has exactly one lock, the         *)
(* balanced one none, whichever changes of profile succeeded, as long as   *)
(* no metadata names the identity under which it is listed.                *)
ProfileBacked ==
  foreign /\ {"acq", "rel"} \subseteq lib =>
    Cardinality(Entries("profile")) = IF hal.profile = "balanced" THEN 0 ELSE 1

(* The perf mode's lock is the one of the modes that are on, and no other  *)
(* mode's lock is held, whichever switches failed in between.              *)
ModeBacked ==
  "rel" \in lib =>
    /\ hal.h["mode"] # None => /\ hal.mode # NORMAL_MODE
                               /\ hal.h["mode"][1] = get_perfd_hint_id(hal.mode)
    /\ HeldOf({"sustained", "vr", "vr_sustained"})
         \subseteq {hal.h["mode"], hal.h["SUSTAINED_PERFORMANCE"]}

(* Boosts do not pile up: of the scroll and of the launch boost at most    *)
(* one is held, and a launch is going on exactly while there is a handle   *)
(* to end it with.                                                         *)
BoostsSingle ==
  /\ "rel" \in lib => \A kind \in {"scroll", "launch"} :
                        Cardinality(HeldOf({kind})) <= 1
  /\ hal.launch_mode <=> hal.h["launch"] # None

(* The lock of the display being off is held once however often that is    *)
(* announced, and not with the display on: only a display-on under another *)
(* governor, which does not release it, leaves one behind, for good.  The  *)
(* premise is that no metadata names its identity.                         *)
DisplayLockOnce ==
  foreign /\ "rel" \in lib =>
    Cardinality(HeldOf({"display"}))
      <= missed + IF hal.display_hint_sent THEN 1 ELSE 0
=============================================================================
