---------------------------- MODULE FailsafeBoot ----------------------------
(***************************************************************************)
(* What prepare_boot_update() promises its client and the boot loader:     *)
(* every LUN always selects a whole chain of boot images, it is switched   *)
(* from one chain to the other in one indivisible step, and a chain is     *)
(* only ever overwritten while no LUN selects it.                          *)
(***************************************************************************)
CONSTANTS Luns, Chains

VARIABLES
  boots,  \* boots[l]: the chain of images LUN l boots from
  img     \* img[c]: "old", "torn" (being rewritten) or "new"

Init == /\ boots = [l \in Luns |-> "primary"]
        /\ img = [c \in Chains |-> "old"]

\* The tables of l now select chain c.
Switch(l, c) == /\ img[c] # "torn"
                /\ boots' = [boots EXCEPT ![l] = c]
                /\ UNCHANGED img

\* The client starts to overwrite chain c.
BeginWrite(c) == /\ \A l \in Luns : boots[l] # c
                 /\ img' = [img EXCEPT ![c] = "torn"]
                 /\ UNCHANGED boots

EndWrite(c) == /\ img[c] = "torn"
               /\ img' = [img EXCEPT ![c] = "new"]
               /\ UNCHANGED boots

Next == \/ \E l \in Luns, c \in Chains : Switch(l, c)
        \/ \E c \in Chains : BeginWrite(c) \/ EndWrite(c)

Spec == Init /\ [][Next]_<<boots, img>>
=============================================================================
