----------------------------- MODULE MCPowerHal -----------------------------
(* An instance of PowerHal for TLC: every platform, the library whole,     *)
(* missing, or without one of the functions that acquire.                  *)
EXTENDS PowerHal

MCLibraries == {Functions, {"rel", "hint"}, {"acq", "rel"}, {}}

(* A start, a stop that takes a start back, a start under an identity of   *)
(* its own, the stop that belongs to it, a text that says nothing, and a   *)
(* start and a stop under the identity of the profile's lock.              *)
MCTexts == {<<<<"state", "1">>>>,
            <<<<"state", "1">>, <<"", "">>, <<"state", "0">>>>,
            <<<<"hint_id", "7">>, <<"state", "1">>>>,
            <<<<"state", "stop">>, <<"hint_id", "7">>>>,
            <<<<"state", "">>>>,
            <<<<"hint_id", "profile">>, <<"state", "1">>>>,
            <<<<"hint_id", "profile">>, <<"state", "0">>>>}

(* Calls are combined that share the list of active hints, or the profile  *)
(* that makes hints be skipped.                                            *)
MCCallSets == {{"profile", "video"}, {"profile", "display"},
               {"profile", "mode", "boost"}}

(* One profile that skips hints, one that does not. *)
MCProfiles == {"balanced", "power_save", "bias_power", "unknown"}

MCDurations == {300, 800}
=============================================================================
