----------------------------- MODULE Power8996 ------------------------------
(* power-8996.c.  MSM8996: perf modes; the display is ignored.               *)
EXTENDS PowerHandlers

get_number_of_profiles_8996 == 5
profile_resources_8996 == FiveProfiles
set_power_profile_8996(s, profile, out) ==
  ChangeProfile(s, profile, profile_resources_8996, out)

process_video_encode_hint_8996(s, data, out) ==
  FlaggedHint(s, data, is_interactive_governor,
              parse_video_encode_metadata(data[1]), out)

kMinInteractiveDuration_8996 == 500
process_interaction_hint_8996(s, data, out) ==
  IF s.mode # NORMAL_MODE THEN s
  ELSE ScrollBoost(s, data, kMinInteractiveDuration_8996, out)

process_activity_launch_hint_8996(s, data, out) ==
  IF data # Null /\ s.mode # NORMAL_MODE THEN HINT_HANDLED(s)
  ELSE LaunchHint(s, data, out)

power_hint_override_8996(s, hint, data, out) ==
  IF SkipsHints(s) THEN HINT_HANDLED(s) ELSE
  CASE hint = "VIDEO_ENCODE" -> process_video_encode_hint_8996(s, data, out)
    [] hint = "SUSTAINED_PERFORMANCE" ->
         process_perf_hint(s, data, "sustained", out)
    [] hint = "VR_MODE" -> process_perf_hint(s, data, "vr", out)
    [] hint = "INTERACTION" ->
         HINT_HANDLED(process_interaction_hint_8996(s, data, out))
    [] hint = "LAUNCH" -> process_activity_launch_hint_8996(s, data, out)
    [] OTHER -> HINT_NONE(s)

set_interactive_override_8996(s, on, out, io) == s
=============================================================================
