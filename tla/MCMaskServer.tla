---------------------------- MODULE MCMaskServer ----------------------------
(***************************************************************************)
(* Small instances of MaskServer.  The IDs are three of the table in       *)
(* hw2/client.cpp: one that buys on even days, one that buys on odd days   *)
(* and one whose check digit is wrong.                                     *)
(***************************************************************************)
EXTENDS MaskServer, TLC

A117188556 == <<65, 1, 1, 7, 1, 8, 8, 5, 5, 6>>
E165814285 == <<69, 1, 6, 5, 8, 1, 4, 2, 8, 5>>
Z196589657 == <<90, 1, 9, 6, 5, 8, 9, 6, 5, 7>>

EvenID   == {A117188556}
BothIDs  == {A117188556, E165814285}
GoodBad  == {A117188556, Z196589657}

Order(type, city, a, b, c) == [type |-> type, city |-> city, mask |-> <<a, b, c>>]

(* Two masks of a kind of which the shop holds three. *)
OneOrder == {Order("S1", 1, 2, 0, 1)}

(* One that succeeds, and every way to fail: a store marked unknown, a     *)
(* city past the last one, a negative count, too many masks in all.        *)
OddOrders == {Order("S1", 1, 2, 0, 1), Order("XXX", 1, 1, 1, 1),
              Order("S1", 2, 1, 1, 1), Order("S1", 1, 1, -1, 1),
              Order("S1", 1, 2, 1, 1)}

(* The tenth city of a store. *)
TenthCity == {Order("S1", 10, 1, 1, 1)}

OneShop == (<<"S1", 1>> :> <<3, 1, 2>>)
NineShops == [sh \in {<<"S1", c>> : c \in 1..9} |-> <<1, 1, 1>>]

Perms == Permutations(Conn)
=============================================================================
