----------------------------- MODULE Power8960 ------------------------------
(* power-8960.c.  MSM8960 and APQ8064: no boosts.                            *)
EXTENDS PowerHandlers

get_number_of_profiles_8960 == 3
profile_resources_8960 == ThreeProfiles
set_power_profile_8960(s, profile, out) ==
  ChangeProfile(s, profile, profile_resources_8960, out)

process_video_encode_hint_8960(s, data, out) ==
  ListedHint(s, data, parse_video_encode_metadata(data[1]), out)

process_video_decode_hint_8960(s, data, out) ==
  ListedHint(s, data, parse_video_decode_metadata(data[1]), out)

power_hint_override_8960(s, hint, data, out) ==
  IF SkipsHints(s) THEN HINT_HANDLED(s) ELSE
  CASE hint = "VIDEO_ENCODE" -> process_video_encode_hint_8960(s, data, out)
    [] hint = "VIDEO_DECODE" -> process_video_decode_hint_8960(s, data, out)
    [] OTHER -> HINT_NONE(s)

set_interactive_override_8960(s, on, out, io) == DisplayHint(s, on, out)
=============================================================================
