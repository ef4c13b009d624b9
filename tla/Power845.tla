------------------------------ MODULE Power845 ------------------------------
(* power-845.c.  SDM845: perf modes, no profiles; the lock of video          *)
(* encoding is in a handle of its own.                                       *)
EXTENDS PowerHandlers

process_video_encode_hint_845(s, data, out) ==
  HandleHint(s, data, parse_video_encode_metadata(data[1]), out)

kMinInteractiveDuration_845 == 100
process_interaction_hint_845(s, data, out) ==
  IF s.mode # NORMAL_MODE THEN s
  ELSE ScrollBoost(s, data, kMinInteractiveDuration_845, out)

process_activity_launch_hint_845(s, data, out) ==
  IF data # Null /\ s.mode # NORMAL_MODE THEN HINT_HANDLED(s)
  ELSE LaunchHint(s, data, out)

power_hint_override_845(s, hint, data, out) ==
  CASE hint = "VIDEO_ENCODE" -> process_video_encode_hint_845(s, data, out)
    [] hint = "SUSTAINED_PERFORMANCE" ->
         process_perf_hint(s, data, "sustained", out)
    [] hint = "VR_MODE" -> process_perf_hint(s, data, "vr", out)
    [] hint = "INTERACTION" ->
         HINT_HANDLED(process_interaction_hint_845(s, data, out))
    [] hint = "LAUNCH" -> process_activity_launch_hint_845(s, data, out)
    [] OTHER -> HINT_NONE(s)

set_interactive_override_845(s, on, out, io) == DisplayNode(s, on, io)
=============================================================================
