---------------------------- MODULE MCConfigFile ----------------------------
(* Two names, two ranges, and two clients that add at the same time. *)
EXTENDS ConfigFile

Clients == Permutations(Client)
=============================================================================
