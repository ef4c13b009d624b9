---------------------------- MODULE PowerMsmnile ----------------------------
(* power-msmnile.c.  MSMNILE (SM8150): the display node and a boost of       *)
(* fixed length.                                                             *)
EXTENDS PowerHandlers

power_hint_override_msmnile(s, hint, data, out) ==
  CASE hint = "INTERACTION" -> HINT_HANDLED(interaction(s, out))
    [] OTHER -> HINT_NONE(s)

set_interactive_override_msmnile(s, on, out, io) == DisplayNode(s, on, io)
=============================================================================
