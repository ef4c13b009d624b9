----------------------------- MODULE Power8909 ------------------------------
(* power-8909.c.  MSM8909: no profiles and no boosts.                        *)
EXTENDS PowerHandlers

process_video_encode_hint_8909(s, data, out) ==
  ListedHint(s, data, parse_video_encode_metadata(data[1]), out)

process_video_decode_hint_8909(s, data, out) ==
  ListedHint(s, data, parse_video_decode_metadata(data[1]), out)

power_hint_override_8909(s, hint, data, out) ==
  CASE hint = "VIDEO_ENCODE" -> process_video_encode_hint_8909(s, data, out)
    [] hint = "VIDEO_DECODE" -> process_video_decode_hint_8909(s, data, out)
    [] OTHER -> HINT_NONE(s)

set_interactive_override_8909(s, on, out, io) == DisplayHint(s, on, out)
=============================================================================
