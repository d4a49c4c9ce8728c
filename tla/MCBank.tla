------------------------------- MODULE MCBank -------------------------------
(***************************************************************************)
(* The bank with the amounts of lab6/demo.sh: deposit 1, withdraw 1 and    *)
(* deposit 2.                                                              *)
(***************************************************************************)
EXTENDS Bank, TLC

CONSTANTS c1, c2, c3

demo == (c1 :> 1) @@ (c2 :> -1) @@ (c3 :> 2)
=============================================================================
