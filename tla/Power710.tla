------------------------------ MODULE Power710 ------------------------------
(* power-710.c.  SDM710: only the display node.                              *)
EXTENDS PowerHandlers

set_interactive_override_710(s, on, out, io) == DisplayNode(s, on, io)
=============================================================================
