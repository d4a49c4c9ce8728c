---------------------------- MODULE MaskChecker ----------------------------
(***************************************************************************)
(* What the homework checker (hw3/checker.cpp) demands of the log that the *)
(* mask server writes.  check_1 and check_2 replay result.txt line by line *)
(* against a small database and compare the result of every line with the  *)
(* one the database gives.  One step of this module is one line the        *)
(* checker accepts; a behaviour is a log it accepts from end to end.       *)
(*                                                                         *)
(* The checker tolerates a stale "show" or "statics" line between a        *)
(* client's last line and its purchase (check_flag), and ignores the index *)
(* and the day of a line.  This module does not: it is the strict reading, *)
(* so a log allowed here is a log the checker accepts.                     *)
(***************************************************************************)
EXTENDS Integers, Sequences

CONSTANTS Conn,       \* the connections (connfd), one per client thread
          IDs,        \* identity numbers: a letter's ASCII code, nine digits
          Orders,     \* [type, city, mask], mask a triple of counts
          Inventory,  \* <<store, city>> -> triple of mask counts
          Capacity,   \* <alcohol amount>, argv[4]
          StartDays,  \* the values of <day of week>, argv[3]
          NoOne       \* the connection of no line

VARIABLES day, alcohol, stores, buy_list,
          my_id,      \* my_id[c]: the ID logged in on c, Nobody when
                      \* log_static[c] is false (the checker reads my_id[c]
                      \* under log_static[c] only)
          line        \* the line of the log judged last

vars == <<day, alcohol, stores, buy_list, my_id, line>>

Nobody == <<>>

-----------------------------------------------------------------------------
(* The number a letter stands for: msg[0] minus an offset. *)
LetterNumber(ch) ==
    CASE ch \in 65..72 \cup {87}  -> ch - 55
      [] ch = 73                  -> ch - 39
      [] ch \in 74..78            -> ch - 56
      [] ch = 79                  -> ch - 44
      [] ch \in 80..86 \cup {90}  -> ch - 57
      [] ch \in {88, 89}          -> ch - 58

(* The check digit of an ID: 10 minus the weighted sum modulo 10. *)
judge_correction(msg) ==
    LET n == LetterNumber(msg[1])
        Y == (n \div 10) + (n % 10) * 9
        sum == Y + msg[2]*8 + msg[3]*7 + msg[4]*6 + msg[5]*5
                 + msg[6]*4 + msg[7]*3 + msg[8]*2 + msg[9]*1
    IN  10 - (sum % 10) = msg[10]

(* Odd IDs on odd days, even IDs on even days, everybody on day 7. *)
judge_day(id) ==
    \/ day = 7
    \/ day % 2 = 1 /\ id[10] % 2 = 1
    \/ day % 2 = 0 /\ id[10] % 2 = 0

(* The conditions, all of them, under which a purchase must succeed. *)
CanBuy(c, o) ==
    /\ my_id[c] # Nobody
    /\ judge_day(my_id[c])
    /\ my_id[c] \notin buy_list
    /\ o.mask[1] + o.mask[2] + o.mask[3] <= 3
    /\ \A k \in 1..3 : o.mask[k] >= 0
    /\ <<o.type, o.city>> \in DOMAIN stores
    /\ \A k \in 1..3 : stores[<<o.type, o.city>>][k] >= o.mask[k]

-----------------------------------------------------------------------------
(* The next line of the log is from c, holds command cmd and result res. *)
Judge(c, cmd, res) ==
    line' = [index |-> line.index + 1, day |-> day, fd |-> c,
             cmd |-> cmd, res |-> res]

Login(c, id) ==
    /\ IF judge_correction(id) /\ my_id[c] = Nobody
       THEN /\ Judge(c, <<"login", id>>, <<"Login successful.">>)
            /\ my_id' = [my_id EXCEPT ![c] = id]
       ELSE /\ Judge(c, <<"login", id>>, <<"Login failed.">>)
            /\ UNCHANGED my_id
    /\ UNCHANGED <<day, alcohol, stores, buy_list>>

Logout(c) ==
    /\ IF my_id[c] # Nobody
       THEN /\ Judge(c, <<"logout">>, <<"Logout successful.">>)
            /\ buy_list' = buy_list \cup {my_id[c]}
            /\ my_id' = [my_id EXCEPT ![c] = Nobody]
       ELSE /\ Judge(c, <<"logout">>, <<"Logout failed.">>)
            /\ UNCHANGED <<buy_list, my_id>>
    /\ UNCHANGED <<day, alcohol, stores>>

Buy(c, o) ==
    IF CanBuy(c, o)
    THEN /\ Judge(c, <<"buy", o>>, <<"Thank you for your purchase.">>)
         /\ alcohol' = IF alcohol - 1 < 5 THEN Capacity ELSE alcohol - 1
         /\ stores' = [stores EXCEPT ![<<o.type, o.city>>] =
                          [k \in 1..3 |-> @[k] - o.mask[k]]]
         /\ my_id' = [my_id EXCEPT ![c] = Nobody]
         /\ IF day + 1 > 7
            THEN day' = 1 /\ buy_list' = {}
            ELSE day' = day + 1 /\ buy_list' = buy_list \cup {my_id[c]}
    ELSE /\ Judge(c, <<"buy", o>>, <<"Buy failed.">>)
         /\ UNCHANGED <<day, alcohol, stores, buy_list, my_id>>

Show(c) ==
    /\ Judge(c, <<"show">>, <<"show", stores>>)
    /\ UNCHANGED <<day, alcohol, stores, buy_list, my_id>>

Statics(c) ==
    /\ Judge(c, <<"statics">>, <<"statics", alcohol>>)
    /\ UNCHANGED <<day, alcohol, stores, buy_list, my_id>>

Other(c) ==
    /\ Judge(c, <<"exit">>, <<"Input format not valid.">>)
    /\ UNCHANGED <<day, alcohol, stores, buy_list, my_id>>

-----------------------------------------------------------------------------
NoLine == [index |-> -1, day |-> 0, fd |-> NoOne, cmd |-> <<"none">>,
           res |-> <<"none">>]

Init ==
    /\ day \in StartDays
    /\ alcohol = Capacity
    /\ stores = Inventory
    /\ buy_list = {}
    /\ my_id = [c \in Conn |-> Nobody]
    /\ line = NoLine

Next ==
    \E c \in Conn :
        \/ \E id \in IDs : Login(c, id)
        \/ Logout(c)
        \/ \E o \in Orders : Buy(c, o)
        \/ Show(c)
        \/ Statics(c)
        \/ Other(c)

Spec == Init /\ [][Next]_vars
=============================================================================
