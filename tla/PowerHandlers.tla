--------------------------- MODULE PowerHandlers ----------------------------
(***************************************************************************)
(* What the files power-<SoC>.c have in common: the same functions, with   *)
(* other constants, are repeated in most of them.  The module of a SoC     *)
(* says which it has and with which constants.                             *)
(***************************************************************************)
EXTENDS PerfLock

Answer(s, ret) == [hal |-> s, ret |-> ret]
HINT_HANDLED(s) == Answer(s, "HINT_HANDLED")
HINT_NONE(s) == Answer(s, "HINT_NONE")

-----------------------------------------------------------------------------
(* Profiles: one lock in the list of active hints                          *)

ThreeProfiles == {"power_save", "high_performance"}
FiveProfiles == ThreeProfiles \cup {"bias_power", "bias_performance"}

ChangeProfileKeeping(s, profile, Listed, out) ==
  IF profile = s.profile \/ profile \notin Listed \/ ~Performed(out) THEN s
  ELSE [perform_hint_action(s, "profile", out) EXCEPT !.profile = profile]

(* Listed are the profiles that have resources; asking for any other       *)
(* leaves the balanced one.                                                *)
ChangeProfile(s, profile, Listed, out) ==
  LET undone == IF s.profile = "balanced" THEN s
                ELSE [undo_hint_action(s, "profile") EXCEPT
                        !.profile = "balanced"]
      performed == perform_hint_action(undone, "profile", out) IN
  CASE profile = s.profile -> s
    [] profile # s.profile /\ profile \notin Listed -> undone
    [] profile # s.profile /\ profile \in Listed ->
         [performed EXCEPT !.profile = IF Performed(out) THEN profile ELSE @]

SkipsHints(s) == s.profile \in {"power_save", "high_performance"}

-----------------------------------------------------------------------------
(* Video: request is the parsed text of data, understood says whether the  *)
(* current governor is one the SoC has resources for                       *)

ListedHint(s, data, request, out) ==
  IF data # Null /\ is_interactive_governor /\ request.state \in {"0", "1"}
  THEN HINT_HANDLED(IF request.state = "1"
                    THEN perform_hint_action(s, request.hint_id, out)
                    ELSE undo_hint_action(s, request.hint_id))
  ELSE HINT_NONE(s)

(* A second start is left to power_hint(); whether the first one succeeded *)
(* is not looked at.                                                       *)
FlaggedHint(s, data, understood, request, out) ==
  LET performed == perform_hint_action(s, request.hint_id, out)
      undone == undo_hint_action(s, request.hint_id) IN
  IF data = Null \/ ~understood THEN HINT_NONE(s)
  ELSE CASE request.state = "1" /\ ~s.encode_sent ->
              HINT_HANDLED([performed EXCEPT !.encode_sent = TRUE])
         [] request.state = "0" ->
              HINT_HANDLED([undone EXCEPT !.encode_sent = FALSE])
         [] OTHER -> HINT_NONE(s)

HandleHint(s, data, request, out) ==
  IF data = Null \/ ~is_interactive_governor THEN HINT_NONE(s)
  ELSE CASE request.state = "1" ->
              HINT_HANDLED(perf_hint_enable(s, "encode", "encode", out))
         [] request.state = "0" ->
              HINT_HANDLED(release_request(s, s.h.encode))
         [] OTHER -> HINT_NONE(s)

-----------------------------------------------------------------------------
(* Interaction: a boost of at least `least' milliseconds.  hal.recent says *)
(* that less than 250 ms have passed since the last one.                   *)

kMaxInteractiveDuration == 5000
Duration(data, least) ==
  IF data = Null \/ data[1] <= least THEN least
  ELSE IF data[1] > kMaxInteractiveDuration THEN kMaxInteractiveDuration
  ELSE data[1]
TooSoon(s, duration) == s.recent /\ duration <= 750

(* The resources of a fling differ, its lock does not. *)
TouchBoost(s, data, least, out) ==
  IF TooSoon(s, Duration(data, least)) THEN s
  ELSE interaction([s EXCEPT !.recent = TRUE], out)

ScrollBoostUnreleased(s, data, least, out) ==
  IF TooSoon(s, Duration(data, least)) THEN s
  ELSE perf_hint_enable([s EXCEPT !.recent = TRUE], "interaction", "scroll", out)

ScrollBoost(s, data, least, out) ==
  IF TooSoon(s, Duration(data, least)) THEN s
  ELSE perf_hint_enable([release_request(s, s.h.interaction) EXCEPT
                           !.recent = TRUE], "interaction", "scroll", out)

-----------------------------------------------------------------------------
(* Launch: boosted is the state after the acquisition of its lock          *)

LaunchEnded(s) ==
  IF s.h.launch = None THEN [s EXCEPT !.launch_mode = FALSE]
  ELSE [release_request(s, s.h.launch) EXCEPT
          !.h.launch = None, !.launch_mode = FALSE]

Launch(s, data, boosted) ==
  CASE data = Null -> HINT_HANDLED(LaunchEnded(s))
    [] data # Null /\ s.launch_mode -> HINT_HANDLED(s)
    [] data # Null /\ ~s.launch_mode ->
         IF boosted.h.launch = None THEN HINT_NONE(boosted)
         ELSE HINT_HANDLED([boosted EXCEPT !.launch_mode = TRUE])

LaunchHint(s, data, out) ==
  Launch(s, data, perf_hint_enable(s, "launch", "launch", out))
LaunchLock(s, data, out) ==
  Launch(s, data, interaction_with_handle(s, "launch", "launch", out))

-----------------------------------------------------------------------------
(* Perf modes: hal.mode is the set of the modes that are on                *)

Modes == {"sustained", "vr"}
NORMAL_MODE == {}
get_perfd_hint_id(mode) ==
  CASE mode = {"sustained"} -> "sustained"
    [] mode = {"vr"} -> "vr"
    [] mode = Modes -> "vr_sustained"

switch_mode_unreleased(s, mode, out) ==
  IF mode = NORMAL_MODE THEN [s EXCEPT !.h.mode = None]
  ELSE perf_hint_enable(s, "mode", get_perfd_hint_id(mode), out)

switch_mode(s, mode, out) ==
  LET released == [release_request(s, s.h.mode) EXCEPT !.h.mode = None] IN
  IF mode = NORMAL_MODE THEN released
  ELSE perf_hint_enable(released, "mode", get_perfd_hint_id(mode), out)

process_perf_hint(s, data, type, out) ==
  LET mode == IF data = Null THEN s.mode \ {type} ELSE s.mode \cup {type}
      switched == switch_mode(s, mode, out) IN
  CASE mode = s.mode -> HINT_HANDLED(s)
    [] mode # s.mode /\ mode # NORMAL_MODE /\ switched.h.mode = None ->
         HINT_NONE(switched)
    [] OTHER -> HINT_HANDLED([switched EXCEPT !.mode = mode])

-----------------------------------------------------------------------------
(* Display: a lock while it is off, or a node of the touch panel           *)

DisplayHint(s, on, out) ==
  IF ~is_interactive_governor THEN s
  ELSE IF on THEN undo_hint_action(s, "display")
  ELSE perform_hint_action(s, "display", out)

(* The first call only opens the node; io: open() or write() succeeds. *)
DisplayNode(s, on, io) ==
  IF ~io THEN s
  ELSE IF ~s.node_open THEN [s EXCEPT !.node_open = TRUE]
  ELSE [s EXCEPT !.node = IF on THEN "1" ELSE "0"]
=============================================================================
