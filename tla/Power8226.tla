----------------------------- MODULE Power8226 ------------------------------
(* power-8226.c.  MSM8226: no boost of launches.                             *)
EXTENDS PowerHandlers

get_number_of_profiles_8226 == 3
profile_resources_8226 == ThreeProfiles
set_power_profile_8226(s, profile, out) ==
  ChangeProfile(s, profile, profile_resources_8226, out)

process_video_encode_hint_8226(s, data, out) ==
  ListedHint(s, data, parse_video_encode_metadata(data[1]), out)

process_video_decode_hint_8226(s, data, out) ==
  ListedHint(s, data, parse_video_decode_metadata(data[1]), out)

kDefaultInteractiveDuration_8226 == 500
process_interaction_hint_8226(s, data, out) ==
  TouchBoost(s, data, kDefaultInteractiveDuration_8226, out)

power_hint_override_8226(s, hint, data, out) ==
  IF SkipsHints(s) THEN HINT_HANDLED(s) ELSE
  CASE hint = "VIDEO_ENCODE" -> process_video_encode_hint_8226(s, data, out)
    [] hint = "VIDEO_DECODE" -> process_video_decode_hint_8226(s, data, out)
    [] hint = "INTERACTION" ->
         HINT_HANDLED(process_interaction_hint_8226(s, data, out))
    [] OTHER -> HINT_NONE(s)

set_interactive_override_8226(s, on, out, io) == DisplayHint(s, on, out)
=============================================================================
