----------------------------- MODULE MCStoreRpc ------------------------------
(* Three entries of two fields, two of them registered; index 3 is past the *)
(* table and 257 is cast to 1.                                             *)
EXTENDS StoreRpc

MCDefault == [i \in Index |-> [f \in Field |-> 1]]
MCZero == [f \in Field |-> 0]
=============================================================================
