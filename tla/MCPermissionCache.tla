--------------------------- MODULE MCPermissionCache ---------------------------
(* Small instances of PermissionCache for TLC. *)
EXTENDS PermissionCache, TLC

WorkersAlike == Permutations(Workers)
================================================================================
