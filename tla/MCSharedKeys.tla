---------------------------- MODULE MCSharedKeys ----------------------------
(***************************************************************************)
(* SharedKeys for TLC: private keys that are equal, opposite and neither,  *)
(* plaintexts that are empty, of part of a block, of a block and longer.   *)
(***************************************************************************)
EXTENDS SharedKeys

MCLeaderKeys == {2, 5}
MCFollowerKeys == {2, 3, 11}
MCServerKeys == {4}
MCCoins == {1, 2}
MCFaults == {"none", "a2m", "m2a", "vm", "record"}
MCTexts == {<<>>, <<1>>, <<1, 0, 1, 1, 0, 1>>, <<0, 1, 1, 0, 1, 0, 1>>}
=============================================================================
