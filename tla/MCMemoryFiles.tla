------------------------------ MODULE MCMemoryFiles ------------------------------
(* Three files, two contents; every set of files fits. *)
EXTENDS MemoryFiles

AnySet == [File -> Content \cup {None}]

================================================================================
