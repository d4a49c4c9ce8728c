-------------------------- MODULE MaskKioskProofs --------------------------
(***************************************************************************)
(* An accepted number buys in one visit only, for every size of the table  *)
(* of logins and any number of visitors.  KioskInv is inductive; the step  *)
(* that needs it is buy, the others keep the rows in place.                *)
(***************************************************************************)
EXTENDS MaskKiosk, TLAPS

(* The check of a number depends on the day only. *)
LEMMA CheckStable ==
    ASSUME NEW id, day_of_week' = day_of_week
    PROVE  /\ checkIDnumber(id)' <=> checkIDnumber(id)
           /\ checkIDnumber(id) \in BOOLEAN
BY DEF checkIDnumber

(* The program starts in KioskInv. *)
LEMMA KioskInit == Init => KioskInv
<1> SUFFICES ASSUME Init PROVE KioskInv
  OBVIOUS
<1> USE KioskBounds DEF Init
<1>1. Counters
  <2>1. inOut \in BOOLEAN /\ allowlog \in BOOLEAN
    OBVIOUS
  <2>2. check \in [0..Rows-1 -> IDs \cup {Blank}]
    BY Zenon
  <2>3. i_ID \in 0..Rows-1 /\ login_n \in Nat /\ bought_n \in Nat /\ paid \in Nat
    OBVIOUS
  <2> QED
    BY <2>1, <2>2, <2>3 DEF Counters
<1>2. Bought /\ Filling /\ Kept /\ OneVisit
  BY DEF Bought, Filling, Kept, OneVisit
<1>3. Visitor
  BY DEF Visitor, Inside
<1> QED
  BY <1>1, <1>2, <1>3 DEF KioskInv

(* What an action leaves alone of the table and the history stays true. *)
LEMMA SameTable ==
    ASSUME KioskInv, UNCHANGED <<day_of_week, inOut, ID_number, allowlog, table>>,
           earlier' = earlier
    PROVE  Visitor' /\ Filling' /\ Kept'
<1> USE DEF table
<1>1. OwnRow' = OwnRow /\ Inside' = Inside
  BY DEF OwnRow, Inside
<1>2. \A id : checkIDnumber(id)' <=> checkIDnumber(id)
  BY CheckStable
<1>3. checkIDnumber(ID_number)' = checkIDnumber(ID_number)
  BY DEF checkIDnumber
<1>4. Visitor'
  BY <1>1, <1>3 DEF KioskInv, Visitor
<1>5. Filling'
  BY DEF KioskInv, Filling
<1>6. Kept'
  BY <1>1, <1>2 DEF KioskInv, Kept
<1> QED
  BY <1>4, <1>5, <1>6

(* A login that is accepted takes the next row; a refused one none. *)
LEMMA LoginKeeps ==
    ASSUME KioskInv, NEW id \in IDs \cup {ID_number}, ID_number \in IDs \cup {Blank},
           login(id)
    PROVE  KioskInv'
<1> USE KioskBounds DEF table, stock, past
<1>c. /\ day_of_week' = day_of_week /\ earlier' = earlier /\ paid' = paid
      /\ pc' = "menu" /\ pc = "menu" /\ ~inOut /\ inOut' = TRUE /\ ID_number' = id
      /\ allowlog' = checkIDnumber(id) /\ bought_n' = bought_n
  BY DEF login
<1>t. Counters /\ Bought /\ Filling /\ Kept
  BY DEF KioskInv
<1>i. id \in IDs \cup {Blank}
  OBVIOUS
<1>b. Bought'
  BY <1>c, <1>t DEF Bought
<1>o. OneVisit'
  BY <1>c DEF OneVisit
<1>1. CASE checkIDnumber(id)
  <2>1. /\ check' = [check EXCEPT ![i_ID] = id]
        /\ i_ID' = IF i_ID + 1 >= Rows THEN 0 ELSE i_ID + 1
        /\ login_n' = login_n + 1
    BY <1>1 DEF login
  <2>2. Counters'
    BY <1>c, <1>t, <1>i, <1>1, <2>1 DEF Counters
  <2>3. OwnRow' = i_ID
    BY <1>t, <2>1 DEF OwnRow, Counters
  <2>4. checkIDnumber(ID_number)' = checkIDnumber(id)
    BY <1>c DEF checkIDnumber
  <2>5. Visitor'
    <3>1. check'[OwnRow'] = id /\ login_n' >= 1
      BY <1>t, <2>1, <2>3 DEF Counters
    <3> QED
      BY <1>c, <2>4, <3>1 DEF Visitor
  <2>6. Filling'
    BY <1>t, <2>1 DEF Filling, Counters
  <2>7. Kept'
    <3> SUFFICES ASSUME login_n' <= Rows, NEW x \in earlier, checkIDnumber(x)
                 PROVE  \E i \in 0..Rows-1 : check'[i] = x /\ i < login_n' - 1
      <4>1. Inside'
        BY <1>c, <1>1 DEF Inside
      <4> QED
        BY <1>c, <4>1, CheckStable DEF Kept
    <3>1. login_n <= Rows /\ login_n # Rows /\ i_ID = login_n
      BY <1>t, <2>1 DEF Filling, Counters
    <3>2. PICK i \in 0..Rows-1 : check[i] = x /\ i < login_n
      BY <1>c, <1>t, <3>1 DEF Kept, Inside, Counters
    <3>3. check'[i] = x /\ i < login_n' - 1
      BY <1>t, <2>1, <3>1, <3>2 DEF Counters
    <3> QED
      BY <3>3
  <2> QED
    BY <1>b, <1>o, <2>2, <2>5, <2>6, <2>7 DEF KioskInv
<1>2. CASE ~checkIDnumber(id)
  <2>1. check' = check /\ i_ID' = i_ID /\ login_n' = login_n
    BY <1>2 DEF login
  <2>2. checkIDnumber(ID_number)' = checkIDnumber(id)
    BY <1>c DEF checkIDnumber
  <2>3. ~Inside /\ ~Inside'
    BY <1>c, <1>2 DEF Inside
  <2>4. Counters'
    BY <1>c, <1>t, <1>2, <2>1, CheckStable DEF Counters
  <2>5. Visitor'
    BY <1>c, <2>2, <2>3 DEF Visitor
  <2>6. Filling'
    BY <1>t, <2>1 DEF Filling
  <2>7. Kept'
    BY <1>c, <1>t, <2>1, <2>3, CheckStable DEF Kept
  <2> QED
    BY <1>b, <1>o, <2>4, <2>5, <2>6, <2>7 DEF KioskInv
<1> QED
  BY <1>1, <1>2

(* When the visitor leaves, his row becomes one of the rows above. *)
LEMMA LogoutKeeps ==
    ASSUME KioskInv, logout
    PROVE  KioskInv'
<1> USE KioskBounds DEF table, stock
<1>c. /\ day_of_week' = day_of_week /\ check' = check /\ i_ID' = i_ID
      /\ login_n' = login_n /\ bought_n' = bought_n /\ pc' = "menu" /\ pc = "menu"
      /\ inOut /\ inOut' = FALSE /\ allowlog' = allowlog /\ paid' = 0
      /\ ID_number' = ID_number
      /\ earlier' = IF paid > 0 THEN earlier \cup {ID_number} ELSE earlier
  BY DEF logout
<1>t. Counters /\ Bought /\ Visitor /\ Filling /\ Kept
  BY DEF KioskInv
<1>1. Counters' /\ Filling' /\ OneVisit'
  BY <1>c, <1>t DEF Counters, Filling, OneVisit
<1>2. Bought'
  BY <1>c, <1>t DEF Bought, Counters
<1>3. ~Inside' /\ Visitor'
  BY <1>c DEF Inside, Visitor
<1>4. Kept'
  <2> SUFFICES ASSUME login_n <= Rows, NEW x \in earlier', checkIDnumber(x)
               PROVE  \E i \in 0..Rows-1 : check[i] = x /\ i < login_n
    BY <1>c, <1>3, <1>t, CheckStable DEF Kept, Counters
  <2>1. CASE x \in earlier
    BY <1>t, <2>1 DEF Kept, Counters
  <2>2. CASE x \notin earlier
    <3>1. x = ID_number
      BY <1>c, <2>2
    <3>2. allowlog = checkIDnumber(ID_number)
      BY <1>c, <1>t DEF Visitor
    <3>3. Inside
      BY <1>c, <3>1, <3>2 DEF Inside
    <3>4. login_n >= 1 /\ check[OwnRow] = x
      BY <1>t, <3>1, <3>3 DEF Visitor
    <3>5. OwnRow = login_n - 1
      BY <1>t, <3>4 DEF OwnRow, Filling, Counters
    <3> QED
      BY <1>t, <3>4, <3>5 DEF Counters
  <2> QED
    BY <2>1, <2>2
<1> QED
  BY <1>1, <1>2, <1>3, <1>4 DEF KioskInv

(* An accepted visitor who bought in an earlier visit is found by          *)
(* ifboughtfn: in the row of that visit, or in his own.                    *)
LEMMA FoundAgain ==
    ASSUME KioskInv, inOut, allowlog, ID_number \in earlier
    PROVE  bought_n >= 1 /\ FALSE \notin ifboughtfn
<1> USE KioskBounds
<1>t. Counters /\ Bought /\ Visitor /\ Kept
  BY DEF KioskInv
<1>1. bought_n >= 1
  BY <1>t DEF Bought
<1>2. Inside /\ checkIDnumber(ID_number) /\ check[OwnRow] = ID_number
  BY <1>t DEF Inside, Visitor
<1>3. \E i \in 0..Rows-1 : i < login_n - 1 /\ check[i] = ID_number
  <2>1. CASE login_n <= Rows
    BY <1>t, <1>2, <2>1 DEF Kept
  <2>2. CASE ~(login_n <= Rows)
    <3>1. OwnRow \in 0..Rows-1
      BY <1>t DEF OwnRow, Counters
    <3>2. OwnRow < login_n - 1
      BY <1>t, <2>2, <3>1 DEF Counters
    <3> QED
      BY <1>2, <3>1, <3>2
  <2> QED
    BY <2>1, <2>2
<1>4. ifboughtfn = {TRUE}
  BY <1>3, Zenon DEF ifboughtfn
<1> QED
  BY <1>1, <1>4

(* A purchase by an accepted number is its first visit with one. *)
LEMMA BuyKeeps ==
    ASSUME KioskInv, NEW o \in Orders, buy(o)
    PROVE  KioskInv'
<1> USE DEF table
<1>c. /\ UNCHANGED <<day_of_week, inOut, ID_number, allowlog, table>>
      /\ earlier' = earlier /\ inOut
      /\ bought_n >= 1 => FALSE \in ifboughtfn
  BY DEF buy
<1>t. Counters /\ Bought
  BY DEF KioskInv
<1>1. Visitor' /\ Filling' /\ Kept'
  BY <1>c, SameTable
<1>2. \/ bought_n' = bought_n /\ paid' = paid /\ pc' = pc
      \/ bought_n' = bought_n + 1 /\ paid' = paid + 1 /\ pc' = "rewrite"
  BY DEF buy, purchase
<1>3. Counters' /\ Bought'
  BY <1>c, <1>t, <1>2 DEF Counters, Bought
<1>4. OneVisit'
  BY <1>c, FoundAgain DEF OneVisit
<1> QED
  BY <1>1, <1>3, <1>4 DEF KioskInv

(* Every step keeps the invariant. *)
LEMMA KioskStep ==
    ASSUME KioskInv, ID_number \in IDs \cup {Blank}, [Next]_vars
    PROVE  KioskInv'
<1> USE KioskBounds DEF table, stock, past
<1>t. Counters /\ Bought /\ OneVisit
  BY DEF KioskInv
<1>1. CASE show
  <2>1. UNCHANGED <<day_of_week, inOut, ID_number, allowlog, table, bought_n, pc, past>>
    BY <1>1 DEF show
  <2>2. Counters' /\ Bought' /\ OneVisit'
    BY <1>t, <2>1 DEF Counters, Bought, OneVisit
  <2> QED
    BY <2>1, <2>2, SameTable DEF KioskInv
<1>2. CASE logout
  BY <1>2, LogoutKeeps
<1>3. CASE rewriteInv
  <2>1. /\ UNCHANGED <<day_of_week, inOut, ID_number, allowlog, table, bought_n, past>>
        /\ pc' = "menu"
    BY <1>3 DEF rewriteInv
  <2>2. Counters' /\ Bought' /\ OneVisit'
    BY <1>t, <2>1 DEF Counters, Bought, OneVisit
  <2> QED
    BY <2>1, <2>2, SameTable DEF KioskInv
<1>4. CASE leave
  <2>1. /\ UNCHANGED <<day_of_week, inOut, ID_number, allowlog, table, bought_n, past>>
        /\ pc' = "off"
    BY <1>4 DEF leave
  <2>2. Counters' /\ Bought' /\ OneVisit'
    BY <1>t, <2>1 DEF Counters, Bought, OneVisit
  <2> QED
    BY <2>1, <2>2, SameTable DEF KioskInv
<1>5. CASE Restart
  <2> USE <1>5 DEF Restart
  <2>1. Counters'
    <3>1. (inOut \in BOOLEAN /\ allowlog \in BOOLEAN)'
      OBVIOUS
    <3>2. check' \in [0..Rows-1 -> IDs \cup {Blank}]
      BY Zenon
    <3>3. (i_ID \in 0..Rows-1 /\ login_n \in Nat /\ bought_n \in Nat /\ paid \in Nat)'
      OBVIOUS
    <3> QED
      BY <3>1, <3>2, <3>3 DEF Counters
  <2>2. Bought' /\ Filling' /\ Kept' /\ OneVisit'
    BY DEF Bought, Filling, Kept, OneVisit
  <2>3. Visitor'
    BY DEF Visitor, Inside
  <2> QED
    BY <2>1, <2>2, <2>3 DEF KioskInv
<1>6. ASSUME NEW id \in IDs \cup {ID_number}, login(id) PROVE KioskInv'
  BY <1>6, LoginKeeps
<1>7. ASSUME NEW o \in Orders, buy(o) PROVE KioskInv'
  BY <1>7, BuyKeeps
<1>8. CASE UNCHANGED vars
  <2>1. UNCHANGED <<day_of_week, inOut, ID_number, allowlog, table, bought_n, pc, past>>
    BY <1>8 DEF vars
  <2>2. Counters' /\ Bought' /\ OneVisit'
    BY <1>t, <2>1 DEF Counters, Bought, OneVisit
  <2> QED
    BY <2>1, <2>2, SameTable DEF KioskInv
<1> QED
  BY <1>1, <1>2, <1>3, <1>4, <1>5, <1>6, <1>7, <1>8 DEF Next

(* ID_number holds a number keyed in, or nothing. *)
LEMMA NumberType == Spec => [](ID_number \in IDs \cup {Blank})
<1>1. Init => ID_number \in IDs \cup {Blank}
  BY DEF Init
<1>2. ID_number \in IDs \cup {Blank} /\ [Next]_vars => (ID_number \in IDs \cup {Blank})'
  BY DEF Next, vars, show, logout, rewriteInv, leave, Restart, login, buy
<1> QED
  BY <1>1, <1>2, PTL DEF Spec

(* hw1.c: a number that login() accepted and that bought once never buys   *)
(* in a later visit of the same run of the program, whatever the size of   *)
(* the table check, however often it has wrapped around.                   *)
THEOREM OneVisitOnly == Spec => []OneVisit
<1>1. KioskInv /\ ID_number \in IDs \cup {Blank} /\ [Next]_vars => KioskInv'
  BY KioskStep
<1>2. KioskInv => OneVisit
  BY DEF KioskInv
<1> QED
  BY <1>1, <1>2, KioskInit, NumberType, PTL DEF Spec
-----------------------------------------------------------------------------
(* Four decimal digits, printed and read again as hexadecimal, are these   *)
(* digits, one on each place.                                              *)
LEMMA FourDigits ==
    ASSUME NEW d1 \in 0..9, NEW d2 \in 0..9, NEW d3 \in 0..9, NEW d4 \in 0..9
    PROVE  /\ 1000*d1 + 100*d2 + 10*d3 + d4 >= 0
           /\ asHex(1000*d1 + 100*d2 + 10*d3 + d4) = d1*4096 + d2*256 + d3*16 + d4
<1> DEFINE n == 1000*d1 + 100*d2 + 10*d3 + d4
<1>1. n \in Nat /\ n >= 0 /\ n < 10000
  OBVIOUS
<1>2. n \div 10000 = 0
  BY <1>1
<1>3. n \div 1000 = d1 /\ d1 % 10 = d1
  OBVIOUS
<1>4. n \div 100 = 10*d1 + d2 /\ (10*d1 + d2) % 10 = d2
  OBVIOUS
<1>5. n \div 10 = 100*d1 + 10*d2 + d3 /\ (100*d1 + 10*d2 + d3) % 10 = d3
  OBVIOUS
<1>6. n % 10 = d4
  OBVIOUS
<1> HIDE DEF n
<1>7. asHex(n) = 65536*0 + 4096*d1 + 256*d2 + 16*d3 + d4
  BY <1>1, <1>2, <1>3, <1>4, <1>5, <1>6, SMT DEF asHex
<1> QED
  BY <1>1, <1>7 DEF n

(* Keys are numbers. *)
LEMMA KeyType ==
    ASSUME NEW id \in IDs \cup {Blank}, NEW i \in 1..10
    PROVE  id[i] \in Int
<1>1. id \in [1..10 -> Codes]
  BY KioskIDs DEF Blank, Codes
<1>2. Codes \subseteq Int
  BY DEF Codes, Keys, Star, Unset
<1> QED
  BY <1>1, <1>2

(* What print_7seg sends is a number, and for a number that ends in four   *)
(* digits it is these.                                                     *)
LEMMA SegRight ==
    ASSUME NEW id \in IDs \cup {Blank}
    PROVE  /\ print_7seg(id) \in Int
           /\ (\A i \in 7..10 : id[i] \in 0..9) => print_7seg(id) = fourPlaces(id)
<1>1. id[7] \in Int /\ id[8] \in Int /\ id[9] \in Int /\ id[10] \in Int
  BY KeyType
<1>2. lastFour(id) \in Int
  BY <1>1 DEF lastFour
<1>3. print_7seg(id) \in Int
  <2>1. ASSUME NEW n \in Int PROVE asHex(n) \in Int
    BY DEF asHex
  <2> QED
    BY <1>2, <2>1 DEF print_7seg
<1>4. ASSUME \A i \in 7..10 : id[i] \in 0..9 PROVE print_7seg(id) = fourPlaces(id)
  <2> DEFINE d1 == id[7]
             d2 == id[8]
             d3 == id[9]
             d4 == id[10]
             n  == 1000*d1 + 100*d2 + 10*d3 + d4
             w  == d1*4096 + d2*256 + d3*16 + d4
  <2>1. d1 \in 0..9 /\ d2 \in 0..9 /\ d3 \in 0..9 /\ d4 \in 0..9
    BY <1>4
  <2>2. lastFour(id) = n /\ fourPlaces(id) = w
    BY DEF lastFour, fourPlaces
  <2> HIDE DEF d1, d2, d3, d4
  <2>3. n >= 0 /\ asHex(n) = w
    BY <2>1, FourDigits
  <2> HIDE DEF n, w
  <2>4. lastFour(id) >= 0 /\ asHex(lastFour(id)) = fourPlaces(id)
    BY <2>2, <2>3
  <2> QED
    BY <2>4 DEF print_7seg
<1> QED
  BY <1>3, <1>4

(* A step that leaves number, login and display alone keeps the display right. *)
LEMMA SegStays ==
    ASSUME SegShowsVisitor, UNCHANGED <<inOut, allowlog, ID_number, seg>>
    PROVE  SegShowsVisitor'
BY DEF SegShowsVisitor, print_7seg, lastFour, asHex, fourPlaces

(* A purchase leaves a triple of counts, the third possibly below zero. *)
LEMMA TakenType ==
    ASSUME TypeOK, NEW o \in Orders
    PROVE  taken(o) \in [1..3 -> Int] /\ o.shop \in Shops
<1>1. o.shop \in Shops
  BY DEF Shops
<1>2. data[o.shop] \in [1..3 -> Int] /\ o.mask \in [1..3 -> Int]
  <2>1. Keys \subseteq Int
    BY DEF Keys, Star
  <2>2. o.mask \in [1..3 -> Keys]
    BY KioskOrders
  <2>3. o.mask \in [1..3 -> Int]
    BY <2>1, <2>2
  <2> QED
    BY <1>1, <2>3 DEF TypeOK
<1> QED
  BY <1>1, <1>2 DEF taken

(* A file of no shop is a table of counts as well. *)
LEMMA EmptyFile ==
    /\ [s \in {} |-> Zeros] \in [{} -> [1..3 -> Int]]
    /\ DOMAIN [s \in {} |-> Zeros] = {}
OBVIOUS

(* main finds the file of the shops and clears the display. *)
LEMMA DeskInit == Init => DeskInv
<1> SUFFICES ASSUME Init PROVE DeskInv
  OBVIOUS
<1> USE KioskBounds, KioskInventory DEF Init
<1>1. TypeOK
  <2>1. day_of_week \in 1..7 /\ inOut \in BOOLEAN /\ allowlog \in BOOLEAN
        /\ ID_number \in IDs \cup {Blank}
    OBVIOUS
  <2>2. check \in [0..Rows-1 -> IDs \cup {Blank}]
    BY Zenon
  <2>3. /\ i_ID \in 0..Rows-1 /\ login_n \in 0..MaxLogins /\ bought_n \in 0..MaxBuys
        /\ buy_n \in 0..1 /\ alcohol \in 0..5 /\ seg \in Int
        /\ restarts \in 0..MaxRestarts /\ paid \in Nat
    OBVIOUS
  <2>4. data \in [Shops -> [1..3 -> Int]]
    BY DEF Zeros
  <2>5. /\ listed \subseteq DOMAIN Inventory /\ DOMAIN file \subseteq DOMAIN Inventory
        /\ pc \in {"menu", "rewrite", "off"} /\ earlier \subseteq IDs \cup {Blank}
    OBVIOUS
  <2> QED
    BY <2>1, <2>2, <2>3, <2>4, <2>5 DEF TypeOK
<1>2. Stored
  BY DEF Stored
<1>3. SegShowsVisitor /\ Synced
  BY DEF SegShowsVisitor, Synced
<1> QED
  BY <1>1, <1>2, <1>3 DEF DeskInv

(* An accepted number appears on the display, a refused one leaves it as   *)
(* it was: dark, since nobody was logged in.                               *)
LEMMA LoginDesk ==
    ASSUME DeskInv, NEW id \in IDs \cup {ID_number}, login(id)
    PROVE  DeskInv'
<1> USE KioskBounds DEF table, stock, past
<1>t. TypeOK /\ SegShowsVisitor
  BY DEF DeskInv
<1>c. /\ UNCHANGED <<day_of_week, bought_n, buy_n, alcohol, data, listed, file, pc,
                     restarts, paid, earlier>>
      /\ ~inOut /\ inOut' = TRUE /\ ID_number' = id /\ allowlog' = checkIDnumber(id)
  BY DEF login
<1>i. id \in IDs \cup {Blank}
  BY <1>t DEF TypeOK
<1>b. inOut' \in BOOLEAN /\ allowlog' \in BOOLEAN
  BY <1>c DEF checkIDnumber
<1>1. /\ check' \in [0..Rows-1 -> IDs \cup {Blank}] /\ i_ID' \in 0..Rows-1
      /\ login_n' \in 0..MaxLogins /\ seg' \in Int
      /\ seg' = IF checkIDnumber(id) THEN print_7seg(id) ELSE 0
  <2>1. CASE checkIDnumber(id)
    <3>1. /\ check' = [check EXCEPT ![i_ID] = id] /\ login_n < MaxLogins
          /\ i_ID' = IF i_ID + 1 >= Rows THEN 0 ELSE i_ID + 1
          /\ login_n' = login_n + 1 /\ seg' = print_7seg(id)
      BY <2>1 DEF login
    <3>2. seg' \in Int
      BY <1>i, <3>1, SegRight
    <3>3. check' \in [0..Rows-1 -> IDs \cup {Blank}]
      BY <1>t, <1>i, <3>1 DEF TypeOK
    <3>4. i_ID' \in 0..Rows-1 /\ login_n' \in 0..MaxLogins
      BY <1>t, <3>1 DEF TypeOK
    <3> QED
      BY <2>1, <3>1, <3>2, <3>3, <3>4
  <2>2. CASE ~checkIDnumber(id)
    <3>1. check' = check /\ i_ID' = i_ID /\ login_n' = login_n /\ seg' = seg
      BY <2>2 DEF login
    <3>2. seg = 0
      BY <1>t, <1>c DEF SegShowsVisitor
    <3> QED
      BY <1>t, <2>2, <3>1, <3>2 DEF TypeOK
  <2> QED
    BY <2>1, <2>2
<1>2. TypeOK'
  BY <1>t, <1>c, <1>i, <1>b, <1>1 DEF TypeOK
<1>3. SegShowsVisitor'
  <2>1. print_7seg(ID_number)' = print_7seg(id) /\ fourPlaces(ID_number)' = fourPlaces(id)
    BY <1>c DEF print_7seg, lastFour, asHex, fourPlaces
  <2> QED
    BY <1>c, <1>i, <1>1, <2>1, SegRight DEF SegShowsVisitor
<1>4. Stored' /\ Synced'
  BY <1>c DEF DeskInv, Stored, Synced
<1> QED
  BY <1>2, <1>3, <1>4 DEF DeskInv

(* A purchase changes the counts only while the file is being rewritten. *)
LEMMA BuyDesk ==
    ASSUME DeskInv, NEW o \in Orders, buy(o)
    PROVE  DeskInv'
<1> USE KioskBounds DEF table
<1>t. TypeOK /\ SegShowsVisitor
  BY DEF DeskInv
<1>c. UNCHANGED <<day_of_week, inOut, ID_number, allowlog, check, i_ID, login_n, seg,
                  listed, restarts, earlier>>
  BY DEF buy
<1>s. SegShowsVisitor'
  BY <1>t, <1>c, SegStays
<1>1. CASE buy_n' = 0 /\ UNCHANGED <<bought_n, data, alcohol, paid, pc, file>>
  <2>1. TypeOK'
    BY <1>t, <1>c, <1>1 DEF TypeOK
  <2>2. Stored' /\ Synced'
    BY <1>c, <1>1 DEF DeskInv, Stored, Synced
  <2> QED
    BY <1>s, <2>1, <2>2 DEF DeskInv
<1>2. CASE buy_n = 0 /\ bought_n < MaxBuys /\ purchase(o)
  <2>1. /\ bought_n' = bought_n + 1 /\ buy_n' = 1 /\ paid' = paid + 1
        /\ alcohol' = IF alcohol <= 0 THEN 4 ELSE alcohol - 1
        /\ data' = [data EXCEPT ![o.shop] = taken(o)]
        /\ pc' = "rewrite" /\ file' = [s \in {} |-> Zeros]
    BY <1>2 DEF purchase
  <2>2. data' \in [Shops -> [1..3 -> Int]]
    BY <1>t, <2>1, TakenType DEF TypeOK
  <2>3. DOMAIN file' = {} /\ Stored'
    BY <2>1, EmptyFile DEF Stored
  <2>4. /\ bought_n' \in 0..MaxBuys /\ buy_n' \in 0..1 /\ paid' \in Nat
        /\ alcohol' \in 0..5
    BY <1>t, <1>2, <2>1 DEF TypeOK
  <2>5. TypeOK'
    BY <1>t, <1>c, <2>1, <2>2, <2>3, <2>4 DEF TypeOK
  <2>6. Synced'
    BY <2>1 DEF Synced
  <2> QED
    BY <1>s, <2>3, <2>5, <2>6 DEF DeskInv
<1> QED
  BY <1>1, <1>2 DEF buy

(* readInventory takes the file as it is. *)
LEMMA ShowDesk ==
    ASSUME DeskInv, show
    PROVE  DeskInv'
<1> USE DEF table, past
<1>t. TypeOK /\ Stored /\ SegShowsVisitor
  BY DEF DeskInv
<1>c. /\ UNCHANGED <<day_of_week, inOut, ID_number, allowlog, check, i_ID, login_n,
                     bought_n, buy_n, alcohol, seg, file, pc, restarts, paid, earlier>>
      /\ listed' = DOMAIN file
      /\ data' = [s \in Shops |-> IF s \in DOMAIN file THEN file[s] ELSE data[s]]
  BY DEF show
<1>d. DOMAIN file \subseteq Shops
  BY <1>t DEF TypeOK, Shops
<1>1. data' \in [Shops -> [1..3 -> Int]]
  <2>1. \A s \in DOMAIN file : file[s] \in [1..3 -> Int]
    BY <1>t DEF Stored
  <2>2. \A s \in Shops : data[s] \in [1..3 -> Int]
    BY <1>t DEF TypeOK
  <2> QED
    BY <1>c, <2>1, <2>2
<1>2. TypeOK'
  BY <1>t, <1>c, <1>1 DEF TypeOK
<1>3. file = [s \in DOMAIN file |-> data'[s]]
  BY <1>t, <1>c, <1>d DEF Stored
<1>4. Stored' /\ Synced'
  BY <1>t, <1>c, <1>3 DEF Stored, Synced
<1>5. SegShowsVisitor'
  BY <1>t, <1>c, SegStays
<1> QED
  BY <1>2, <1>4, <1>5 DEF DeskInv

(* rewriteInv writes the shops that were read. *)
LEMMA RewriteDesk ==
    ASSUME DeskInv, rewriteInv
    PROVE  DeskInv'
<1> USE DEF table, past
<1>t. TypeOK /\ SegShowsVisitor
  BY DEF DeskInv
<1>c. /\ UNCHANGED <<day_of_week, inOut, ID_number, allowlog, check, i_ID, login_n,
                     bought_n, buy_n, alcohol, seg, data, listed, restarts, paid,
                     earlier>>
      /\ pc' = "menu" /\ file' = [s \in listed |-> data[s]]
  BY DEF rewriteInv
<1>1. DOMAIN file' = listed /\ Stored'
  <2>1. \A s \in listed : data[s] \in [1..3 -> Int]
    BY <1>t DEF TypeOK, Shops
  <2> QED
    BY <1>c, <2>1 DEF Stored
<1>2. TypeOK'
  BY <1>t, <1>c, <1>1 DEF TypeOK
<1>3. Synced'
  BY <1>c DEF Synced
<1>4. SegShowsVisitor'
  BY <1>t, <1>c, SegStays
<1> QED
  BY <1>1, <1>2, <1>3, <1>4 DEF DeskInv

(* A restart forgets all but the file. *)
LEMMA RestartDesk ==
    ASSUME DeskInv, Restart
    PROVE  DeskInv'
<1> USE KioskBounds DEF Restart
<1>t. TypeOK /\ Stored
  BY DEF DeskInv
<1>1. TypeOK'
  <2>1. (day_of_week \in 1..7 /\ inOut \in BOOLEAN /\ allowlog \in BOOLEAN
        /\ ID_number \in IDs \cup {Blank})'
    OBVIOUS
  <2>2. check' \in [0..Rows-1 -> IDs \cup {Blank}]
    BY Zenon
  <2>3. (/\ i_ID \in 0..Rows-1 /\ login_n \in 0..MaxLogins /\ bought_n \in 0..MaxBuys
         /\ buy_n \in 0..1 /\ alcohol \in 0..5 /\ seg \in Int
         /\ restarts \in 0..MaxRestarts /\ paid \in Nat)'
    BY <1>t DEF TypeOK
  <2>4. data' \in [Shops -> [1..3 -> Int]]
    BY DEF Zeros
  <2>5. (/\ listed \subseteq DOMAIN Inventory /\ DOMAIN file \subseteq DOMAIN Inventory
         /\ pc \in {"menu", "rewrite", "off"} /\ earlier \subseteq IDs \cup {Blank})'
    BY <1>t DEF TypeOK
  <2> QED
    BY <2>1, <2>2, <2>3, <2>4, <2>5 DEF TypeOK
<1>2. Stored' /\ SegShowsVisitor' /\ Synced'
  BY <1>t DEF Stored, SegShowsVisitor, Synced
<1> QED
  BY <1>1, <1>2 DEF DeskInv

(* logout darkens the display. *)
LEMMA LogoutDesk ==
    ASSUME DeskInv, logout
    PROVE  DeskInv'
<1> USE DEF table, stock
<1>t. TypeOK /\ Stored /\ Synced
  BY DEF DeskInv
<1>c. /\ UNCHANGED <<day_of_week, ID_number, allowlog, check, i_ID, login_n, bought_n,
                     alcohol, data, listed, file, pc, restarts>>
      /\ inOut' = FALSE /\ buy_n' = 0 /\ seg' = 0 /\ paid' = 0
      /\ earlier' = IF paid > 0 THEN earlier \cup {ID_number} ELSE earlier
  BY DEF logout
<1>1. earlier' \subseteq IDs \cup {Blank}
  <2>1. earlier \subseteq IDs \cup {Blank} /\ ID_number \in IDs \cup {Blank}
    BY <1>t DEF TypeOK
  <2>2. earlier' = earlier \/ earlier' = earlier \cup {ID_number}
    BY <1>c
  <2> QED
    BY <2>1, <2>2
<1>2. inOut' \in BOOLEAN /\ buy_n' \in 0..1 /\ seg' \in Int /\ paid' \in Nat
  <2>1. inOut' \in BOOLEAN
    BY <1>c, Zenon
  <2>2. buy_n' \in 0..1 /\ seg' \in Int /\ paid' \in Nat
    <3>1. buy_n' = 0 /\ seg' = 0 /\ paid' = 0
      BY <1>c
    <3> QED
      BY <3>1
  <2> QED
    BY <2>1, <2>2
<1>3. TypeOK'
  BY <1>t, <1>c, <1>1, <1>2 DEF TypeOK
<1>4. Stored' /\ Synced' /\ SegShowsVisitor'
  BY <1>t, <1>c DEF Stored, Synced, SegShowsVisitor
<1> QED
  BY <1>3, <1>4 DEF DeskInv

(* Leaving the program changes nothing but the place in it. *)
LEMMA LeaveDesk ==
    ASSUME DeskInv, leave \/ UNCHANGED vars
    PROVE  DeskInv'
<1> USE DEF table, stock, past
<1>t. TypeOK /\ Stored /\ SegShowsVisitor /\ Synced
  BY DEF DeskInv
<1>c. /\ UNCHANGED <<day_of_week, inOut, ID_number, allowlog, check, i_ID, login_n,
                     bought_n, buy_n, alcohol, seg, data, listed, file, restarts,
                     paid, earlier>>
      /\ (pc' = pc) \/ (pc = "menu" /\ pc' = "off")
  <2>1. CASE leave
    BY <2>1 DEF leave
  <2>2. CASE UNCHANGED vars
    BY <2>2 DEF vars
  <2> QED
    BY <2>1, <2>2
<1>1. pc' \in {"menu", "rewrite", "off"}
  BY <1>t, <1>c DEF TypeOK
<1>2. TypeOK'
  BY <1>t, <1>c, <1>1 DEF TypeOK
<1>3. Stored' /\ Synced' /\ SegShowsVisitor'
  BY <1>t, <1>c, SegStays DEF Stored, Synced
<1> QED
  BY <1>2, <1>3 DEF DeskInv

(* Every step keeps the types, the display and the file. *)
LEMMA DeskStep ==
    ASSUME DeskInv, [Next]_vars
    PROVE  DeskInv'
BY LoginDesk, LogoutDesk, LeaveDesk, BuyDesk, ShowDesk, RewriteDesk, RestartDesk DEF Next

(* The invariant of display and file holds in every state. *)
LEMMA DeskAlways == Spec => []DeskInv
<1>1. DeskInv /\ [Next]_vars => DeskInv'
  BY DeskStep
<1> QED
  BY <1>1, DeskInit, PTL DEF Spec

(* hw1.c: every variable of main keeps its range, whatever is keyed in as  *)
(* a number: the index i_ID stays in the table and the alcohol between 0   *)
(* and 5.                                                                  *)
THEOREM KioskTyped == Spec => []TypeOK
<1>1. DeskInv => TypeOK
  BY DEF DeskInv
<1> QED
  BY <1>1, DeskAlways, PTL

(* hw1.c: while an accepted visitor is logged in the display shows his     *)
(* last four digits, one on each place (or what print_7seg makes of other  *)
(* keys), and it is dark at any other time, a refused login included.      *)
THEOREM DisplayRight == Spec => []SegShowsVisitor
<1>1. DeskInv => SegShowsVisitor
  BY DEF DeskInv
<1> QED
  BY <1>1, DeskAlways, PTL

(* hw1.c: from the first show of a run on, the file is outside rewriteInv  *)
(* what the program read and sold, also for shops that were lost before.   *)
THEOREM FileSynced == Spec => []Synced
<1>1. DeskInv => Synced
  BY DEF DeskInv
<1> QED
  BY <1>1, DeskAlways, PTL
=============================================================================
