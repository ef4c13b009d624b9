------------------------------ MODULE Power660 ------------------------------
(* power-660.c.  SDM660 and SDM630.                                          *)
EXTENDS PowerHandlers

get_number_of_profiles_660 == 5
profile_resources_660 == FiveProfiles
set_power_profile_660(s, profile, out) ==
  ChangeProfile(s, profile, profile_resources_660, out)

process_video_encode_hint_660(s, data, out) ==
  FlaggedHint(s, data, is_interactive_governor,
              parse_video_encode_metadata(data[1]), out)

kMinInteractiveDuration_660 == 400
process_interaction_hint_660(s, data, out) ==
  ScrollBoost(s, data, kMinInteractiveDuration_660, out)

process_activity_launch_hint_660(s, data, out) ==
  LaunchHint(s, data, out)

power_hint_override_660(s, hint, data, out) ==
  IF SkipsHints(s) THEN HINT_HANDLED(s) ELSE
  CASE hint = "VIDEO_ENCODE" -> process_video_encode_hint_660(s, data, out)
    [] hint = "INTERACTION" ->
         HINT_HANDLED(process_interaction_hint_660(s, data, out))
    [] hint = "LAUNCH" -> process_activity_launch_hint_660(s, data, out)
    [] OTHER -> HINT_NONE(s)

set_interactive_override_660(s, on, out, io) == DisplayHint(s, on, out)
=============================================================================
