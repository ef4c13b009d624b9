----------------------------- MODULE Power8084 ------------------------------
(* power-8084.c.  APQ8084: a lock keeps two cores online while the           *)
(* display is on.                                                            *)
EXTENDS PowerHandlers

get_number_of_profiles_8084 == 5
profile_resources_8084 == FiveProfiles
set_power_profile_8084(s, profile, out) ==
  ChangeProfile(s, profile, profile_resources_8084, out)

process_video_encode_hint_8084(s, data, out) ==
  ListedHint(s, data, parse_video_encode_metadata(data[1]), out)

process_video_decode_hint_8084(s, data, out) ==
  ListedHint(s, data, parse_video_decode_metadata(data[1]), out)

kDefaultInteractiveDuration_8084 == 200
process_interaction_hint_8084(s, data, out) ==
  TouchBoost(s, data, kDefaultInteractiveDuration_8084, out)

process_activity_launch_hint_8084(s, data, out) ==
  LaunchLock(s, data, out)

power_hint_override_8084(s, hint, data, out) ==
  IF SkipsHints(s) THEN HINT_HANDLED(s) ELSE
  CASE hint = "VIDEO_ENCODE" -> process_video_encode_hint_8084(s, data, out)
    [] hint = "VIDEO_DECODE" -> process_video_decode_hint_8084(s, data, out)
    [] hint = "INTERACTION" ->
         HINT_HANDLED(process_interaction_hint_8084(s, data, out))
    [] hint = "LAUNCH" -> process_activity_launch_hint_8084(s, data, out)
    [] OTHER -> HINT_NONE(s)

(* The lock of two cores is released after the first display-off, then by  *)
(* the one list entry that each display-off removes.                       *)
TwoCores_8084(s, on, out) ==
  IF on THEN perform_hint_action(s, "display_2", out)
  ELSE undo_hint_action(
         IF s.first_off THEN s
         ELSE [undo_initial_hint_action(s) EXCEPT !.first_off = TRUE],
         "display_2")

set_interactive_override_8084(s, on, out, io) ==
  IF governor = "unreadable" THEN s
  ELSE DisplayHint(TwoCores_8084(s, on, out), on, out)
=============================================================================
