------------------------------ MODULE PerfLock ------------------------------
(***************************************************************************)
(* The client of the perf lock library in power/: utils.c, the list of     *)
(* active hints (list.c, hint-data.c) and the attribute lists of video     *)
(* hints (metadata-parser.c).                                              *)
(*                                                                         *)
(* The HAL is a single thread, so each call into it is one step.  Its      *)
(* static variables are the record hal of PowerHal; here, and in the       *)
(* modules of the SoCs, an operator named like a C function maps the       *)
(* record s before the call to the record after it.  A lock is             *)
(* <<kind, n>>: what it was acquired for, and the number the library gave  *)
(* it.  The outcome out of an acquisition is the environment's choice;     *)
(* "refused" is also a hint that the library takes note of without a lock. *)
(***************************************************************************)
EXTENDS Naturals, SequencesExt

VARIABLES
  lib,        \* the functions initialize() found in the library
  governor    \* the scaling governor that sysfs shows, or "unreadable"

Functions == {"acq", "rel", "hint"}
Outcomes == {"granted", "refused", "nomem"}

(* A pointer argument is the sequence of what it points to. *)
Null == <<>>

(* A handle that CHECK_HANDLE rejects: 0 or -1. *)
None == <<"none", 0>>

(* A number is not given to another lock while the HAL may still use it. *)
Known(s) == s.held \cup {s.h[v] : v \in DOMAIN s.h}
                   \cup {s.list[i].lock : i \in DOMAIN s.list}
NewLock(s, kind) ==
  <<kind, CHOOSE n \in 1..(Cardinality(Known(s)) + 1) : <<kind, n>> \notin Known(s)>>

-----------------------------------------------------------------------------
(* utils.c: locks kept in a variable v of the HAL                          *)

release_request(s, lock) ==
  IF "rel" \in lib THEN [s EXCEPT !.held = @ \ {lock}] ELSE s

perf_hint_enable(s, v, kind, out) ==
  IF "hint" \in lib /\ out = "granted"
  THEN [s EXCEPT !.h[v] = NewLock(s, kind), !.held = @ \cup {NewLock(s, kind)}]
  ELSE [s EXCEPT !.h[v] = None]

(* The caller drops the handle that it is returned. *)
perf_hint_unkept(s, kind, out) ==
  IF "hint" \in lib /\ out = "granted"
  THEN [s EXCEPT !.held = @ \cup {NewLock(s, kind)}]
  ELSE s

(* The library extends a lock it is given while that is held. *)
interaction_with_handle(s, v, kind, out) ==
  LET lock == IF s.h[v] \in s.held THEN s.h[v] ELSE NewLock(s, kind) IN
  IF "acq" \notin lib THEN s
  ELSE IF out = "granted" THEN [s EXCEPT !.h[v] = lock, !.held = @ \cup {lock}]
  ELSE [s EXCEPT !.h[v] = None]

interaction(s, out) == interaction_with_handle(s, "lock_handle", "touch", out)

undo_initial_hint_action(s) == release_request(s, <<"initial", 1>>)

-----------------------------------------------------------------------------
(* utils.c, list.c: locks kept in the list of active hints                 *)

add_list_node(list, data) == <<data>> \o list
find_node(list, id) == SelectInSeq(list, LAMBDA data : data.hint_id = id)
remove_list_node(list, i) == RemoveAt(list, i)

(* Its return value is 0: without the library's function nothing is done.  *)
Performed(out) == "acq" \notin lib \/ out = "granted"

perform_hint_action_leaking(s, id, out) ==
  LET lock == NewLock(s, id)
      acquired == [s EXCEPT !.held = @ \cup {lock}] IN
  CASE "acq" \notin lib \/ out = "refused" -> s
    [] "acq" \in lib /\ out = "nomem" -> acquired
    [] "acq" \in lib /\ out = "granted" ->
         [acquired EXCEPT !.list =
            add_list_node(@, [hint_id |-> id, lock |-> lock])]

perform_hint_action(s, id, out) ==
  LET lock == NewLock(s, id)
      acquired == [s EXCEPT !.held = @ \cup {lock}] IN
  CASE "acq" \notin lib \/ out = "refused" -> s
    [] "acq" \in lib /\ out = "nomem" -> release_request(acquired, lock)
    [] "acq" \in lib /\ out = "granted" ->
         [acquired EXCEPT !.list =
            add_list_node(@, [hint_id |-> id, lock |-> lock])]

undo_hint_action(s, id) ==
  LET i == find_node(s.list, id) IN
  IF "rel" \notin lib \/ i = 0 THEN s
  ELSE [release_request(s, s.list[i].lock) EXCEPT
          !.list = remove_list_node(@, i)]

-----------------------------------------------------------------------------
(* utils.c: the governor                                                   *)

is_interactive_governor == governor = "interactive"
is_schedutil_governor == governor = "schedutil"

(* metadata-parser.c: the text of a video hint is a sequence of            *)
(* <<attribute, value>>; <<"", "">> is a string without '='.               *)
(* The identities of hints: those of the HAL's own, and numbers that only  *)
(* metadata gives.  A numeral in a text is written as the identity that it *)
(* denotes; atoi() reads any other value as 0.                             *)
Numerals == {"0", "1", "7"}
HintIds == {"encode", "decode", "profile", "display", "display_2"} \cup Numerals
atoi(value) == IF value \in HintIds THEN value ELSE "0"

(* Of the values that an attribute is given, the last one counts. *)
Attribute(text, name, default) ==
  LET given == {i \in DOMAIN text : text[i][1] = name /\ text[i][2] # ""} IN
  IF given = {} THEN default ELSE atoi(text[Max(given)][2])

parse_video_encode_metadata(text) ==
  [state |-> Attribute(text, "state", "-1"),
   hint_id |-> Attribute(text, "hint_id", "encode")]
parse_video_decode_metadata(text) ==
  [state |-> Attribute(text, "state", "-1"),
   hint_id |-> Attribute(text, "hint_id", "decode")]
=============================================================================
