----------------------------- MODULE Power8953 ------------------------------
(* power-8953.c.  MSM8953: encoding has resources under two governors,       *)
(* and the display has both a lock and a node.                               *)
EXTENDS PowerHandlers

get_number_of_profiles_8953 == 5
profile_resources_8953 == FiveProfiles
set_power_profile_8953(s, profile, out) ==
  ChangeProfile(s, profile, profile_resources_8953, out)

process_video_encode_hint_8953(s, data, out) ==
  FlaggedHint(s, data, is_schedutil_governor \/ is_interactive_governor,
              parse_video_encode_metadata(data[1]), out)

kMinInteractiveDuration_8953 == 500
process_interaction_hint_8953(s, data, out) ==
  ScrollBoost(s, data, kMinInteractiveDuration_8953, out)

process_activity_launch_hint_8953(s, data, out) ==
  LaunchHint(s, data, out)

power_hint_override_8953(s, hint, data, out) ==
  IF SkipsHints(s) THEN HINT_HANDLED(s) ELSE
  CASE hint = "VIDEO_ENCODE" -> process_video_encode_hint_8953(s, data, out)
    [] hint = "INTERACTION" ->
         HINT_HANDLED(process_interaction_hint_8953(s, data, out))
    [] hint = "LAUNCH" -> process_activity_launch_hint_8953(s, data, out)
    [] OTHER -> HINT_NONE(s)

set_interactive_override_8953(s, on, out, io) ==
  IF governor = "unreadable" THEN s
  ELSE DisplayNode(DisplayHint(s, on, out), on, io)
=============================================================================
