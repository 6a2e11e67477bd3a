---------------------------- MODULE MCPeopleRecords ----------------------------
(* Small instances of PeopleRecords for TLC. *)
EXTENDS PeopleRecords, TLC

Alike == Permutations(Departments) \cup Permutations(Workers)
         \cup Permutations(Contracts) \cup Permutations(Goals)
================================================================================
