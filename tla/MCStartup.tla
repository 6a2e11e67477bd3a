------------------------------ MODULE MCStartup ------------------------------
(* Small instances of Startup for TLC: an old database with two employees, and  *)
(* a catalogue of two positions.                                                *)
EXTENDS Startup

CONSTANTS ann, bob,
          departments,  \* the texts bob's department may have
          title,        \* the text of ann's title
          ops           \* the id of the second position of the catalogue

lowerOf == [n \in {"dev", "Dev", "ops", "Ops", "general"} |->
              CASE n = "Dev" -> "dev" [] n = "Ops" -> "ops" [] OTHER -> n]

MCNames == {n \in Texts : n \notin {" dev", " "}}
MCTrim == [t \in Texts \cup {None} |->
             CASE t = " dev" -> "dev" [] t = " " -> None [] OTHER -> t]
MCLower == [n \in MCNames |-> lowerOf[n]]
MCKeys == {lowerOf[n] : n \in MCNames}
MCCatalogue == [p \in {"pos_general", ops} |-> IF p = "pos_general" THEN "general" ELSE "ops"]
MCEmp0 == {[e \in Employees |->
  [dept |-> IF e = ann THEN " dev" ELSE d, deptId |-> None,
   title |-> IF e = ann THEN title ELSE " ", pos |-> "pos_general"]] : d \in departments}
MCDeptName0 == [d \in DeptIds |-> IF d \in Managed THEN "ops" ELSE None]
================================================================================
