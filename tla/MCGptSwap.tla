----------------------------- MODULE MCGptSwap -----------------------------
(* Names that are prefixes of one another, with and without backups, two   *)
(* names of xbl, and a partition that is not in the list.                  *)
EXTENDS GptSwap

MCSwapList == << <<"xbl">>, <<"xbl", "_config">>, <<"cmnlib">>, <<"cmnlib", "32">> >>
MCNames == {MCSwapList[j] : j \in 1..4} \cup {MCSwapList[j] \o Bak : j \in 1..4}
             \cup {<<"boot">>}
=============================================================================
