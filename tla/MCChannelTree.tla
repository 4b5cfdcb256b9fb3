---------------------------- MODULE MCChannelTree ----------------------------
(* Instances of ChannelTree for TLC. *)
EXTENDS ChannelTree, TLC

\* Users, and the channel objects other than the root, are interchangeable.
Symmetry == Permutations(Users) \cup Permutations(Objs \ {Root})
=============================================================================
