---------------------------- MODULE MCNodeRoll ----------------------------
(* Instance of NodeRoll for TLC: node names are numbers, their order is the
   order of the panel's rows. *)
EXTENDS NodeRollInvariant

MCOldNodes == {2}
MCFreshNames == {1, 3}
===========================================================================
