--------------------------------- MODULE MCApi ---------------------------------
(* The small instances of MCAccounts for the requests of Api. *)
EXTENDS Api, MCAccounts
================================================================================
