----------------------------- MODULE Power8992 ------------------------------
(* power-8992.c.  MSM8992.                                                   *)
EXTENDS PowerHandlers

get_number_of_profiles_8992 == 5
profile_resources_8992 == FiveProfiles
set_power_profile_8992(s, profile, out) ==
  ChangeProfile(s, profile, profile_resources_8992, out)

process_video_encode_hint_8992(s, data, out) ==
  ListedHint(s, data, parse_video_encode_metadata(data[1]), out)

process_video_decode_hint_8992(s, data, out) ==
  ListedHint(s, data, parse_video_decode_metadata(data[1]), out)

kDefaultInteractiveDuration_8992 == 500
process_interaction_hint_8992(s, data, out) ==
  TouchBoost(s, data, kDefaultInteractiveDuration_8992, out)

process_activity_launch_hint_8992(s, data, out) ==
  LaunchLock(s, data, out)

power_hint_override_8992(s, hint, data, out) ==
  IF SkipsHints(s) THEN HINT_HANDLED(s) ELSE
  CASE hint = "VIDEO_ENCODE" -> process_video_encode_hint_8992(s, data, out)
    [] hint = "VIDEO_DECODE" -> process_video_decode_hint_8992(s, data, out)
    [] hint = "INTERACTION" ->
         HINT_HANDLED(process_interaction_hint_8992(s, data, out))
    [] hint = "LAUNCH" -> process_activity_launch_hint_8992(s, data, out)
    [] OTHER -> HINT_NONE(s)

set_interactive_override_8992(s, on, out, io) == DisplayHint(s, on, out)
=============================================================================
