-------------------------------- MODULE MCPage --------------------------------
(* Three layer ids, two of them in use, and two groups whose names have the same *)
(* ASCII part; two requests of the user, beside the page's own first load.       *)
EXTENDS LayerCard, TLC

CONSTANTS base, nav, sym, work, play

Two == <<base, nav>>
Stems == work :> work @@ play :> work
OneGroup == <<[id |-> <<work, 1>>, name |-> work, layers |-> {base}]>>
===============================================================================
