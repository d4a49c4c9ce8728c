---------------------------- MODULE MCMaskKiosk ----------------------------
(***************************************************************************)
(* A kiosk with two shops, a table of two rows and three numbers: two with *)
(* a right check digit, one even and one odd, which an even day refuses    *)
(* and which has a letter among its digits; and a wrong one.               *)
(***************************************************************************)
EXTENDS MaskKiosk, TLC

A117188556 == <<17, 1, 1, 7, 1, 8, 8, 5, 5, 6>>
A00000D009 == <<17, 0, 0, 0, 0, 0, 20, 0, 0, 9>>
C124442497 == <<19, 1, 2, 4, 4, 4, 2, 4, 9, 7>>

Visitors == {A117188556, A00000D009, C124442497}

(* A purchase that fits at first and then takes more than there is, one of *)
(* a shop the inventory does not list, one of too many masks, and one that *)
(* the key * turns into a gift to the shop.                                *)
Order(s, a, b, c) == [shop |-> s, mask |-> <<a, b, c>>]
Wishes == {Order("A1", 1, 1, 1), Order("C1", 0, 0, 1), Order("A1", 2, 2, 0),
           Order("B1", Star, 0, 1)}
OneWish == {Order("A1", 1, 0, 1)}

Stock == ("A1" :> <<2, 1, 2>>) @@ ("B1" :> <<1, 1, 1>>)
=============================================================================
