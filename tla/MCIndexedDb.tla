---------------------------- MODULE MCIndexedDb ----------------------------
(* The instance of IndexedDbThreadStore that TLC checks. *)
EXTENDS IndexedDbThreadStore, MCThreadInstance
=============================================================================
