----------------------------- MODULE MaskKiosk -----------------------------
(***************************************************************************)
(* The mask-selling kiosk of homework 1 (hw1.c): one program, a keypad, a  *)
(* display and a file inventory.txt.  The keys of the menu are 1 show, 2   *)
(* login or logout, 3 buy, 4 statistics and # to leave.                    *)
(*                                                                         *)
(* Login and buy read keys up to a #; what they have read then is one      *)
(* choice in the model.  An entry shorter than ten keys leaves the tail of *)
(* the last number in ID_number, so an entry is any number of IDs, and #   *)
(* alone is the last number again.                                         *)
(*                                                                         *)
(* The table check has Rows rows.  Logins past the last row start again at *)
(* the first, but ifboughtfn looks at the first login_n - 1 rows, the ones *)
(* behind the table included.                                              *)
(***************************************************************************)
EXTENDS Integers, FiniteSets

CONSTANTS IDs,        \* numbers the visitors key in: ten keys
          Orders,     \* what they key in to buy: [shop, mask]
          Inventory,  \* inventory.txt: shop -> triple of mask counts
          Rows,       \* rows of check, 10 in the source
          Days,       \* values of <day_of_week>
          MaxLogins,  \* bound: logins accepted
          MaxBuys,    \* bound: purchases of a run of the program
          MaxRestarts \* bound: how often the program is started again

VARIABLES day_of_week, inOut, ID_number, allowlog, check, i_ID, login_n,
          bought_n, buy_n, alcohol, seg,
          data,       \* the counts in memory, zero for a shop not read yet
          listed,     \* num and in_num: the shops read from the file
          file,       \* inventory.txt
          pc,         \* "menu", "rewrite": the file is truncated, "off"
          restarts,
          paid,       \* history: purchases in this visit
          earlier     \* history: numbers that bought in an earlier visit

table  == <<check, i_ID, login_n>>
stock  == <<data, listed, file>>
past   == <<paid, earlier>>
vars   == <<day_of_week, inOut, ID_number, allowlog, table, bought_n, buy_n,
            alcohol, seg, stock, pc, restarts, past>>

Shops == DOMAIN Inventory \cup {o.shop : o \in Orders}

(* A key as the code computes with it, key - '0': a digit is itself, A to  *)
(* D are 17 to 20 and * is -6.  hw1.c does not check that a number is a     *)
(* letter and nine digits.  A place of ID_number not keyed yet holds a NUL. *)
Star  == -6
Keys  == 0..9 \cup 17..20 \cup {Star}
Unset == -48
Codes == Keys \cup {Unset}
Blank == [i \in 1..10 |-> Unset]

ASSUME KioskIDs == IDs \subseteq [1..10 -> Codes]
ASSUME KioskOrders == \A o \in Orders : o.mask \in [1..3 -> Keys]
ASSUME KioskInventory == Inventory \in [DOMAIN Inventory -> [1..3 -> Nat]]
ASSUME KioskBounds == Rows \in Nat \ {0} /\ Days \subseteq 1..7
                      /\ MaxLogins \in Nat /\ MaxBuys \in Nat /\ MaxRestarts \in Nat

-----------------------------------------------------------------------------
(* % of C: the remainder has the sign of the dividend. *)
Rem(a, n) == IF a >= 0 THEN a % n ELSE -((-a) % n)

(* checkIDnumber: the check digit, and the day.  The first key counts as   *)
(* the letter A, B, C or D, and any other as nothing.                      *)
letter(ch) == CASE ch = 17 -> 1 [] ch = 18 -> 10 [] ch = 19 -> 19 [] ch = 20 -> 28
                [] OTHER -> 0

checkDigit(id) ==
    LET y == letter(id[1])
        S == y + id[2]*8 + id[3]*7 + id[4]*6 + id[5]*5
               + id[6]*4 + id[7]*3 + id[8]*2 + id[9]*1
    IN  10 - Rem(S, 10) = id[10]

checkIDnumber(id) ==
    /\ checkDigit(id)
    /\ day_of_week = 7 \/ day_of_week % 2 = Rem(id[10], 2)

(* print_7seg: the last four keys as a number, printed in decimal (it has  *)
(* five digits at most) and read again as hexadecimal, sign and all.       *)
(* Value is an unsigned long: a negative number here is the word with the  *)
(* same bits.                                                              *)
lastFour(id) == 1000*id[7] + 100*id[8] + 10*id[9] + id[10]
asHex(n) == 65536*(n \div 10000) + 4096*((n \div 1000) % 10) + 256*((n \div 100) % 10)
               + 16*((n \div 10) % 10) + (n % 10)
print_7seg(id) == IF lastFour(id) >= 0 THEN asHex(lastFour(id)) ELSE -asHex(-lastFour(id))

(* Mutant: every row is looked at but the visitor's own. *)
ifboughtfn_SkipsOwn ==
    {\E i \in 0..Rows-1 : (i + 1) % Rows # i_ID /\ check[i] = ID_number}

(* ifboughtfn: what it finds behind the table is anything. *)
ifboughtfn ==
    IF \E i \in 0..Rows-1 : i < login_n - 1 /\ check[i] = ID_number
    THEN {TRUE}
    ELSE IF login_n - 1 > Rows THEN BOOLEAN ELSE {FALSE}

Zeros == [k \in 1..3 |-> 0]

-----------------------------------------------------------------------------
(* main starts with an empty memory and the inventory.txt it finds. *)
Init ==
    /\ day_of_week \in Days
    /\ inOut = FALSE /\ allowlog = FALSE
    /\ ID_number = Blank
    /\ check = [i \in 0..Rows-1 |-> Blank]
    /\ i_ID = 0 /\ login_n = 0 /\ bought_n = 0 /\ buy_n = 0
    /\ alcohol = 5
    /\ seg = 0
    /\ data = [s \in Shops |-> Zeros]
    /\ listed = {}
    /\ file = Inventory
    /\ pc = "menu"
    /\ restarts = 0
    /\ paid = 0 /\ earlier = {}

(* Key 1: readInventory. *)
show ==
    /\ pc = "menu"
    /\ listed' = DOMAIN file
    /\ data' = [s \in Shops |-> IF s \in DOMAIN file THEN file[s] ELSE data[s]]
    /\ UNCHANGED <<day_of_week, inOut, ID_number, allowlog, table, bought_n,
                   buy_n, alcohol, seg, file, pc, restarts, past>>

(* Key 2 with nobody logged in.  inOut is set before the number is known,  *)
(* and stays set when it is refused.                                       *)
login(id) ==
    /\ pc = "menu" /\ ~inOut
    /\ inOut' = TRUE
    /\ ID_number' = id
    /\ allowlog' = checkIDnumber(id)
    /\ IF checkIDnumber(id)
       THEN /\ login_n < MaxLogins
            /\ check' = [check EXCEPT ![i_ID] = id]
            /\ i_ID' = IF i_ID + 1 >= Rows THEN 0 ELSE i_ID + 1
            /\ login_n' = login_n + 1
            /\ seg' = print_7seg(id)
       ELSE UNCHANGED <<table, seg>>
    /\ UNCHANGED <<day_of_week, bought_n, buy_n, alcohol, stock, pc, restarts,
                   past>>

(* Mutant: the display keeps the number of the visitor who left. *)
logout_KeepsSeg ==
    /\ pc = "menu" /\ inOut
    /\ inOut' = FALSE
    /\ buy_n' = 0
    /\ earlier' = IF paid > 0 THEN earlier \cup {ID_number} ELSE earlier
    /\ paid' = 0
    /\ UNCHANGED <<day_of_week, ID_number, allowlog, table, bought_n, alcohol,
                   seg, stock, pc, restarts>>

(* Key 2 with somebody logged in. *)
logout ==
    /\ pc = "menu" /\ inOut
    /\ inOut' = FALSE
    /\ buy_n' = 0
    /\ seg' = 0
    /\ earlier' = IF paid > 0 THEN earlier \cup {ID_number} ELSE earlier
    /\ paid' = 0
    /\ UNCHANGED <<day_of_week, ID_number, allowlog, table, bought_n, alcohol,
                   stock, pc, restarts>>

Sum(o) == o.mask[1] + o.mask[2] + o.mask[3]

(* The counts after a purchase: the first two kinds stop at zero. *)
taken(o) ==
    [k \in 1..3 |-> LET left == data[o.shop][k] - o.mask[k]
                    IN  IF k < 3 /\ left <= 0 THEN 0 ELSE left]

(* Mutants: the file is not written; the alcohol is supplied too late. *)
purchase_NoRewrite(o) ==
    /\ bought_n' = bought_n + 1
    /\ buy_n' = buy_n + 1
    /\ data' = [data EXCEPT ![o.shop] = taken(o)]
    /\ alcohol' = IF alcohol <= 0 THEN 4 ELSE alcohol - 1
    /\ paid' = paid + 1
    /\ UNCHANGED <<pc, file>>

purchase_Dry(o) ==
    /\ bought_n' = bought_n + 1
    /\ buy_n' = buy_n + 1
    /\ data' = [data EXCEPT ![o.shop] = taken(o)]
    /\ alcohol' = IF alcohol < 0 THEN 4 ELSE alcohol - 1
    /\ paid' = paid + 1
    /\ pc' = "rewrite"
    /\ file' = [s \in {} |-> Zeros]

(* The purchase, up to the fopen of rewriteInv, which truncates the file. *)
purchase(o) ==
    /\ bought_n' = bought_n + 1
    /\ buy_n' = buy_n + 1
    /\ data' = [data EXCEPT ![o.shop] = taken(o)]
    /\ alcohol' = IF alcohol <= 0 THEN 4 ELSE alcohol - 1
    /\ paid' = paid + 1
    /\ pc' = "rewrite"
    /\ file' = [s \in {} |-> Zeros]

(* Key 3, past the checks of main: the order is refused when it is for     *)
(* more than three masks, or when buy_n says that the visitor has bought;  *)
(* that answer also resets buy_n.                                          *)
buy(o) ==
    /\ pc = "menu" /\ inOut
    /\ bought_n >= 1 => FALSE \in ifboughtfn
    /\ Sum(o) <= 3
    /\ \/ buy_n >= 1 /\ buy_n' = 0
          /\ UNCHANGED <<bought_n, data, alcohol, paid, pc, file>>
       \/ buy_n = 0 /\ bought_n < MaxBuys /\ purchase(o)
    /\ UNCHANGED <<day_of_week, inOut, ID_number, allowlog, table, seg, listed,
                   restarts, earlier>>

(* The rest of rewriteInv: the shops that were read are written. *)
rewriteInv ==
    /\ pc = "rewrite"
    /\ file' = [s \in listed |-> data[s]]
    /\ pc' = "menu"
    /\ UNCHANGED <<day_of_week, inOut, ID_number, allowlog, table, bought_n,
                   buy_n, alcohol, seg, data, listed, restarts, past>>

(* Key #. *)
leave ==
    /\ pc = "menu"
    /\ pc' = "off"
    /\ UNCHANGED <<day_of_week, inOut, ID_number, allowlog, table, bought_n,
                   buy_n, alcohol, seg, stock, restarts, past>>

(* The board is switched off, or the program left, and started again. *)
Restart ==
    /\ restarts < MaxRestarts
    /\ restarts' = restarts + 1
    /\ day_of_week' \in Days
    /\ inOut' = FALSE /\ allowlog' = FALSE
    /\ ID_number' = Blank
    /\ check' = [i \in 0..Rows-1 |-> Blank]
    /\ i_ID' = 0 /\ login_n' = 0 /\ bought_n' = 0 /\ buy_n' = 0
    /\ alcohol' = 5
    /\ seg' = 0
    /\ data' = [s \in Shops |-> Zeros]
    /\ listed' = {}
    /\ pc' = "menu"
    /\ paid' = 0 /\ earlier' = {}
    /\ UNCHANGED file

Next == \/ show \/ logout \/ rewriteInv \/ leave \/ Restart
        \/ \E id \in IDs \cup {ID_number} : login(id)
        \/ \E o \in Orders : buy(o)

Spec == Init /\ [][Next]_vars

-----------------------------------------------------------------------------
TypeOK ==
    /\ day_of_week \in 1..7
    /\ inOut \in BOOLEAN /\ allowlog \in BOOLEAN
    /\ ID_number \in IDs \cup {Blank}
    /\ check \in [0..Rows-1 -> IDs \cup {Blank}]
    /\ i_ID \in 0..Rows-1
    /\ login_n \in 0..MaxLogins /\ bought_n \in 0..MaxBuys
    /\ buy_n \in 0..1
    /\ alcohol \in 0..5
    /\ seg \in Int
    /\ data \in [Shops -> [1..3 -> Int]]
    /\ listed \subseteq DOMAIN Inventory
    /\ DOMAIN file \subseteq DOMAIN Inventory
    /\ pc \in {"menu", "rewrite", "off"}
    /\ restarts \in 0..MaxRestarts
    /\ paid \in Nat
    /\ earlier \subseteq IDs \cup {Blank}

(* A number that login accepted and that bought does not buy again in a    *)
(* later visit, however often the table of logins has wrapped around: the  *)
(* rows ifboughtfn looks at hold the old login, or the visitor's own.      *)
OneVisit == pc = "rewrite" /\ allowlog => ID_number \notin earlier

(* The inductive invariant behind OneVisit.  While the table has not       *)
(* wrapped, the row of an accepted number that bought is above the row of  *)
(* the visitor; afterwards the visitor's own row is one ifboughtfn reads.  *)
Counters ==
    /\ inOut \in BOOLEAN /\ allowlog \in BOOLEAN
    /\ check \in [0..Rows-1 -> IDs \cup {Blank}]
    /\ i_ID \in 0..Rows-1
    /\ login_n \in Nat /\ bought_n \in Nat /\ paid \in Nat
Bought  == /\ earlier # {} \/ paid > 0 => bought_n >= 1
           /\ pc = "rewrite" \/ paid > 0 => inOut
OwnRow  == IF i_ID = 0 THEN Rows - 1 ELSE i_ID - 1
Inside  == inOut /\ allowlog
Visitor == /\ inOut => allowlog = checkIDnumber(ID_number)
           /\ Inside => login_n >= 1 /\ check[OwnRow] = ID_number
Filling == login_n <= Rows => i_ID = IF login_n = Rows THEN 0 ELSE login_n
Kept    == login_n <= Rows =>
              \A id \in earlier : checkIDnumber(id) =>
                 \E i \in 0..Rows-1 : /\ check[i] = id
                                      /\ i < login_n - (IF Inside THEN 1 ELSE 0)
KioskInv == Counters /\ Bought /\ Visitor /\ Filling /\ Kept /\ OneVisit

(* The display shows the visitor who is logged in, and nobody else: the    *)
(* last four digits of his number, one on each place.  A number with other *)
(* keys there may need a fifth place.                                      *)
fourPlaces(id) == id[7]*4096 + id[8]*256 + id[9]*16 + id[10]
SegShowsVisitor ==
    IF inOut /\ allowlog
    THEN /\ seg = print_7seg(ID_number)
         /\ (\A i \in 7..10 : ID_number[i] \in 0..9) => seg = fourPlaces(ID_number)
    ELSE seg = 0

(* Between two keys inventory.txt holds what the program believes, once it *)
(* has read it.  What was lost before that, in a rewriteInv before the     *)
(* first show or cut off by the switch, is lost to both.                   *)
Synced == pc # "rewrite" /\ listed # {} => file = [s \in listed |-> data[s]]

(* What the file holds, in any state, is a triple of counts per shop: with *)
(* the type, the display and Synced it is an inductive invariant.          *)
Stored == file \in [DOMAIN file -> [1..3 -> Int]]
DeskInv == TypeOK /\ Stored /\ SegShowsVisitor /\ Synced

(* hw1.c: "You have bought masks.\nPress 2 to logout".  A visitor who has  *)
(* bought can only log out.                                                *)
BoughtOnce == allowlog => paid <= 1
=============================================================================
