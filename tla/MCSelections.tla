---------------------------- MODULE MCSelections ----------------------------
(* A peer name and the nodes that may bear it, a service, a glob that      *)
(* covers the peer and a tag.                                              *)
EXTENDS Selections, TLC

Nodes == Permutations(Node)
MCCovers == [r \in NameRule |-> {"p"}]
=============================================================================
