----------------------------- MODULE Power8916 ------------------------------
(* power-8916.c.  MSM8916 and MSM8939: video encoding is left alone.         *)
EXTENDS PowerHandlers

get_number_of_profiles_8916 == 3
profile_resources_8916 == ThreeProfiles
set_power_profile_8916(s, profile, out) ==
  ChangeProfile(s, profile, profile_resources_8916, out)

kDefaultInteractiveDuration_8916 == 500
process_interaction_hint_8916(s, data, out) ==
  TouchBoost(s, data, kDefaultInteractiveDuration_8916, out)

process_activity_launch_hint_8916(s, data, out) ==
  LaunchLock(s, data, out)

power_hint_override_8916(s, hint, data, out) ==
  IF SkipsHints(s) THEN HINT_HANDLED(s) ELSE
  CASE hint = "VIDEO_ENCODE" -> HINT_HANDLED(s)
    [] hint = "INTERACTION" ->
         HINT_HANDLED(process_interaction_hint_8916(s, data, out))
    [] hint = "LAUNCH" -> process_activity_launch_hint_8916(s, data, out)
    [] OTHER -> HINT_NONE(s)

set_interactive_override_8916(s, on, out, io) == DisplayHint(s, on, out)
=============================================================================
