--------------------------- MODULE MCMaskShutdown ---------------------------
(***************************************************************************)
(* Stopping a server with two workers and a store of three cities: rows    *)
(* that must all be exchanged, equal rows, and a city that sells out.      *)
(***************************************************************************)
EXTENDS MaskShutdown

Inventories == {<<0, 1, 2>>, <<1, 2, 2>>}
=============================================================================
