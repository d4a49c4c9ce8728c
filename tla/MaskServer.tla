----------------------------- MODULE MaskServer -----------------------------
(***************************************************************************)
(* The mask-selling server of homework 3 (hw3.cpp): one thread per         *)
(* connection, one mutex (all_mutex) around the handling of a command, a   *)
(* small database, and a log (writeToResult) with one line per command.    *)
(* The server of homework 2 (hw2/server.cpp) has the same handlers.        *)
(*                                                                         *)
(* A command is handled in the steps read, lock, decide, commit, log and   *)
(* unlock.  Deciding computes the result from the database; committing     *)
(* changes the database and writes the reply; logging appends the line.    *)
(* Nothing but the mutex keeps the steps of two workers apart.             *)
(*                                                                         *)
(* The clients are the threads of hw2/client.cpp and the connections of    *)
(* checker.cpp: each sends one command at a time and waits for the reply,  *)
(* closes after work_num commands, and may be killed at any moment.        *)
(***************************************************************************)
EXTENDS Integers, Sequences, FiniteSets

CONSTANTS Conn,       \* the connections; a worker and its client share a name
          IDs,        \* identity numbers: a letter's ASCII code, nine digits
          Orders,     \* [type, city, mask]: store, city number, three counts
          Plain,      \* the words sent without an argument: "show", "exit"...
          Inventory,  \* <<store, city>> -> triple of mask counts
          Capacity,   \* <alcohol capacity>
          StartDays,  \* the values of <day_of_week>
          work_num,   \* commands a client sends before it closes
          Free        \* the mutex is not held

VARIABLES
    (* the database, shared by the workers *)
    day, alcohol, data, buied_ID, result_index, writeToResult, mutex,
    (* the worker of a connection *)
    pc, iflogin, ID, buf, info,
    (* the client of a connection, and the two directions of its socket *)
    cli, sent, req, rsp, link,
    (* history: purchases of an ID in the current week *)
    bought

db      == <<day, alcohol, data, buied_ID, bought>>
session == <<iflogin, ID>>
journal == <<result_index, writeToResult>>
client  == <<cli, sent, req, link>>
vars    == <<db, session, journal, client, rsp, mutex, pc, buf, info>>

(***************************************************************************)
(* The usage line names a day of the week, the client numbers the cities   *)
(* of a store from 1 and the accept loop has room for thirty threads.      *)
(***************************************************************************)
ASSUME ConnAssumption == IsFiniteSet(Conn) /\ Cardinality(Conn) <= 30
ASSUME FreeAssumption == Free \notin Conn
ASSUME IDAssumption ==
    \A id \in IDs : /\ id \in Seq(Nat) /\ Len(id) = 10
                    /\ id[1] \in 65..90
                    /\ \A i \in 2..10 : id[i] \in 0..9
ASSUME OrderAssumption ==
    \A o \in Orders : o.city \in 1..99 /\ o.mask \in [1..3 -> Int]
ASSUME PlainAssumption == Plain \cap {"", "login", "buy"} = {}
ASSUME InventoryAssumption ==
    /\ Inventory \in [DOMAIN Inventory -> [1..3 -> Nat]]
    /\ \A sh \in DOMAIN Inventory :
          sh[2] \in 1..9 /\ \A c \in 1..sh[2] : <<sh[1], c>> \in DOMAIN Inventory
ASSUME DayAssumption == StartDays \subseteq 1..7 /\ Capacity \in Int
ASSUME WorkAssumption == work_num \in Nat

-----------------------------------------------------------------------------
Cmds == {<<w>> : w \in Plain}
        \cup {<<"login", id>> : id \in IDs} \cup {<<"buy", o>> : o \in Orders}

Blank  == <<"">>        \* buf after memset
NoID   == <<>>          \* ID[] before the first login
Thanks == <<"Thank you for your purchase.">>
Failed == <<"Buy failed.">>
Silent == <<>>          \* no reply, and a line without a result

(* The number the first letter of an ID stands for. *)
letter_y(ch) ==
    CASE ch = 73        -> 34
      [] ch = 79        -> 35
      [] ch = 87        -> 32
      [] ch = 90        -> 33
      [] ch \in 65..72  -> ch - 65 + 10
      [] ch \in 74..78  -> ch - 74 + 18
      [] ch \in 80..86  -> ch - 80 + 23
      [] ch = 88        -> 30
      [] ch = 89        -> 31

check_ID(id) ==
    LET y == letter_y(id[1])
        Y == (y \div 10) + (y % 10) * 9
        S == Y + id[2]*8 + id[3]*7 + id[4]*6 + id[5]*5
               + id[6]*4 + id[7]*3 + id[8]*2 + id[9]*1
        Z == 10 - (S % 10)
    IN  Z = id[10]

Buied == {buied_ID[i] : i \in 1..Len(buied_ID)}

check_day_of_week(id) ==
    /\ day = 7 \/ day % 2 = id[10] % 2
    /\ id \notin Buied

(* server_buy reads the city as one character: its first decimal digit. *)
city_num(o) == IF o.city < 10 THEN o.city ELSE o.city \div 10
Shop(o)     == <<o.type, city_num(o)>>

-----------------------------------------------------------------------------
(* What each handler answers, and writes in the line of the log. *)
login_result(t, id) ==
    IF ~iflogin[t] /\ check_ID(id)
    THEN <<"Login successful.">> ELSE <<"Login failed.">>

(* Mutant: a logout without a login is not answered. *)
logout_result_Silent(t) ==
    IF iflogin[t] THEN <<"Logout successful.">> ELSE Silent

logout_result(t) ==
    IF iflogin[t] THEN <<"Logout successful.">> ELSE <<"Logout failed.">>

(* Mutants: the stock is not looked at; the sum of the counts is not. *)
buy_result_NoStock(t, o) ==
    IF \/ ~iflogin[t]
       \/ ~check_day_of_week(ID[t])
       \/ o.type = "XXX"
       \/ o.mask[1] + o.mask[2] + o.mask[3] > 3
    THEN Failed ELSE Thanks

buy_result_NoSum(t, o) ==
    IF \/ ~iflogin[t]
       \/ ~check_day_of_week(ID[t])
       \/ Shop(o) \notin DOMAIN data
       \/ \E k \in 1..3 : o.mask[k] > 3 \/ o.mask[k] < 0
       \/ \E k \in 1..3 : data[Shop(o)][k] < o.mask[k]
    THEN Failed ELSE Thanks

(* A store that is neither "XXX" nor in the inventory ends the search loop *)
(* of server_buy with nothing written.                                     *)
buy_result(t, o) ==
    IF \/ ~iflogin[t]
       \/ ~check_day_of_week(ID[t])
       \/ o.type = "XXX"
       \/ \E k \in 1..3 : o.mask[k] > 3 \/ o.mask[k] < 0
       \/ o.mask[1] + o.mask[2] + o.mask[3] > 3
    THEN Failed
    ELSE IF \A sh \in DOMAIN data : sh[1] # o.type
    THEN Silent
    ELSE IF \/ Shop(o) \notin DOMAIN data
            \/ \E k \in 1..3 : data[Shop(o)][k] < o.mask[k]
    THEN Failed
    ELSE Thanks

(* The command as the line holds it: server_invalid writes "exit". *)
logged_cmd(c) ==
    IF c[1] \in {"show", "login", "logout", "buy", "statics"}
    THEN c ELSE <<"exit">>

result_of(t, c) ==
    CASE c[1] = "show"    -> <<"show", data>>
      [] c[1] = "login"   -> login_result(t, c[2])
      [] c[1] = "logout"  -> logout_result(t)
      [] c[1] = "buy"     -> buy_result(t, c[2])
      [] c[1] = "statics" -> <<"statics", alcohol>>
      [] OTHER            -> <<"Input format not valid.">>

line_of(t) == [index |-> result_index, day |-> day, fd |-> t,
               cmd |-> logged_cmd(buf[t]), res |-> result_of(t, buf[t])]
NoLine     == [index |-> -1, day |-> 0, fd |-> Free, cmd |-> <<"none">>,
               res |-> <<"none">>]

-----------------------------------------------------------------------------
(* The clients, and the accept loop of main. *)
Accept(t) ==
    /\ cli[t] = "off" /\ pc[t] = "none"
    /\ cli' = [cli EXCEPT ![t] = "idle"]
    /\ pc' = [pc EXCEPT ![t] = "read"]
    /\ UNCHANGED <<db, session, journal, sent, req, link, rsp, mutex, buf, info>>

Send(t, c) ==
    /\ cli[t] = "idle" /\ sent[t] < work_num
    /\ cli' = [cli EXCEPT ![t] = "wait"]
    /\ sent' = [sent EXCEPT ![t] = @ + 1]
    /\ req' = [req EXCEPT ![t] = c]
    /\ UNCHANGED <<db, session, journal, link, rsp, mutex, pc, buf, info>>

Receive(t) ==
    /\ cli[t] = "wait" /\ rsp[t]
    /\ cli' = [cli EXCEPT ![t] = "idle"]
    /\ rsp' = [rsp EXCEPT ![t] = FALSE]
    /\ UNCHANGED <<db, session, journal, sent, req, link, mutex, pc, buf, info>>

Close(t) ==
    /\ cli[t] = "idle" /\ sent[t] = work_num
    /\ cli' = [cli EXCEPT ![t] = "gone"]
    /\ link' = [link EXCEPT ![t] = "fin"]
    /\ UNCHANGED <<db, session, journal, sent, req, rsp, mutex, pc, buf, info>>

(* The client process ends: main returns or a signal arrives.  The kernel  *)
(* closes the socket, with a reset when a reply in it was not read.        *)
Die(t) ==
    /\ cli[t] \in {"idle", "wait"}
    /\ cli' = [cli EXCEPT ![t] = "gone"]
    /\ link' = [link EXCEPT ![t] = IF rsp[t] THEN "rst" ELSE "fin"]
    /\ rsp' = [rsp EXCEPT ![t] = FALSE]
    /\ UNCHANGED <<db, session, journal, sent, req, mutex, pc, buf, info>>

-----------------------------------------------------------------------------
(* mask_server: the loop of a worker.  buf is not initialised before the   *)
(* first read.  It would be seen if that read failed, and it does not: a   *)
(* connection is reset only with a reply unread, so after a command.       *)
Read(t) ==
    /\ pc[t] = "read" /\ req[t] # Blank
    /\ buf' = [buf EXCEPT ![t] = req[t]]
    /\ req' = [req EXCEPT ![t] = Blank]
    /\ pc' = [pc EXCEPT ![t] = "lock"]
    /\ UNCHANGED <<db, session, journal, cli, sent, link, rsp, mutex, info>>

(* read returns -1 on a reset connection, once.  The loop takes that for a *)
(* command and handles the empty buffer.                                   *)
ReadError(t) ==
    /\ pc[t] = "read" /\ link[t] = "rst"
    /\ link' = [link EXCEPT ![t] = "fin"]
    /\ pc' = [pc EXCEPT ![t] = "lock"]
    /\ UNCHANGED <<db, session, journal, cli, sent, req, rsp, mutex, buf, info>>

ReadEOF(t) ==
    /\ pc[t] = "read" /\ req[t] = Blank /\ link[t] = "fin"
    /\ pc' = [pc EXCEPT ![t] = "done"]
    /\ UNCHANGED <<db, session, journal, client, rsp, mutex, buf, info>>

(* Mutant: the mutex is taken whether or not it is free. *)
Lock_Unguarded(t) ==
    /\ pc[t] = "lock"
    /\ mutex' = t
    /\ pc' = [pc EXCEPT ![t] = "decide"]
    /\ UNCHANGED <<db, session, journal, client, rsp, buf, info>>

Lock(t) ==
    /\ pc[t] = "lock" /\ mutex = Free
    /\ mutex' = t
    /\ pc' = [pc EXCEPT ![t] = "decide"]
    /\ UNCHANGED <<db, session, journal, client, rsp, buf, info>>

Decide(t) ==
    /\ pc[t] = "decide"
    /\ info' = [info EXCEPT ![t] = line_of(t)]
    /\ pc' = [pc EXCEPT ![t] = "commit"]
    /\ UNCHANGED <<db, session, journal, client, rsp, mutex, buf>>

(* The handler is called and its reply written; nobody reads the reply of  *)
(* a client that is gone.                                                  *)
Handle(t, words) ==
    /\ pc[t] = "commit" /\ info[t].cmd[1] \in words
    /\ pc' = [pc EXCEPT ![t] = "log"]
    /\ rsp' = [rsp EXCEPT ![t] = cli[t] = "wait" /\ info[t].res # Silent]
    /\ UNCHANGED <<journal, client, mutex, buf, info>>

server_show(t)    == Handle(t, {"show"}) /\ UNCHANGED <<db, session>>
server_statics(t) == Handle(t, {"statics"}) /\ UNCHANGED <<db, session>>
server_invalid(t) == Handle(t, {"exit"}) /\ UNCHANGED <<db, session>>

server_login(t) ==
    /\ Handle(t, {"login"})
    /\ IF info[t].res = <<"Login successful.">>
       THEN /\ iflogin' = [iflogin EXCEPT ![t] = TRUE]
            /\ ID' = [ID EXCEPT ![t] = buf[t][2]]
       ELSE UNCHANGED session
    /\ UNCHANGED db

(* Mutant: the session survives its logout. *)
server_logout_Stays(t) ==
    /\ Handle(t, {"logout"})
    /\ IF info[t].res = <<"Logout successful.">>
       THEN buied_ID' = Append(buied_ID, ID[t])
       ELSE UNCHANGED buied_ID
    /\ UNCHANGED <<day, alcohol, data, bought, session>>

(* A logout that succeeds spends the ID for the week, bought or not. *)
server_logout(t) ==
    /\ Handle(t, {"logout"})
    /\ IF info[t].res = <<"Logout successful.">>
       THEN /\ iflogin' = [iflogin EXCEPT ![t] = FALSE]
            /\ buied_ID' = Append(buied_ID, ID[t])
       ELSE UNCHANGED <<iflogin, buied_ID>>
    /\ UNCHANGED <<day, alcohol, data, bought, ID>>

(* Mutant: the week has one day too many. *)
purchase_LongWeek(t, o) ==
    /\ data' = [data EXCEPT ![Shop(o)] = [k \in 1..3 |-> @[k] - o.mask[k]]]
    /\ alcohol' = IF alcohol - 1 < 5 THEN Capacity ELSE alcohol - 1
    /\ iflogin' = [iflogin EXCEPT ![t] = FALSE]
    /\ IF day + 1 > 8
       THEN day' = 1 /\ buied_ID' = <<>> /\ bought' = [id \in IDs |-> 0]
       ELSE /\ day' = day + 1
            /\ buied_ID' = Append(buied_ID, ID[t])
            /\ bought' = [bought EXCEPT ![ID[t]] = @ + 1]

purchase(t, o) ==
    /\ data' = [data EXCEPT ![Shop(o)] = [k \in 1..3 |-> @[k] - o.mask[k]]]
    /\ alcohol' = IF alcohol - 1 < 5 THEN Capacity ELSE alcohol - 1
    /\ iflogin' = [iflogin EXCEPT ![t] = FALSE]
    /\ IF day + 1 = 8
       THEN /\ day' = 1
            /\ buied_ID' = <<>>
            /\ bought' = [id \in IDs |-> 0]
       ELSE /\ day' = day + 1
            /\ buied_ID' = Append(buied_ID, ID[t])
            /\ bought' = [bought EXCEPT ![ID[t]] = @ + 1]

server_buy(t) ==
    /\ Handle(t, {"buy"})
    /\ IF info[t].res = Thanks
       THEN purchase(t, buf[t][2]) /\ UNCHANGED ID
       ELSE UNCHANGED <<db, session>>

Log(t) ==
    /\ pc[t] = "log"
    /\ writeToResult' = info[t]
    /\ result_index' = result_index + 1
    /\ info' = [info EXCEPT ![t] = NoLine]
    /\ pc' = [pc EXCEPT ![t] = "unlock"]
    /\ UNCHANGED <<db, session, client, rsp, mutex, buf>>

(* Mutant: the mutex is not released. *)
Unlock_Forgotten(t) ==
    /\ pc[t] = "unlock"
    /\ buf' = [buf EXCEPT ![t] = Blank]
    /\ pc' = [pc EXCEPT ![t] = "read"]
    /\ UNCHANGED <<db, session, journal, client, rsp, mutex, info>>

Unlock(t) ==
    /\ pc[t] = "unlock"
    /\ buf' = [buf EXCEPT ![t] = Blank]
    /\ mutex' = Free
    /\ pc' = [pc EXCEPT ![t] = "read"]
    /\ UNCHANGED <<db, session, journal, client, rsp, info>>

-----------------------------------------------------------------------------
Init ==
    /\ day \in StartDays
    /\ alcohol = Capacity
    /\ data = Inventory
    /\ buied_ID = <<>>
    /\ bought = [id \in IDs |-> 0]
    /\ result_index = 0
    /\ writeToResult = NoLine
    /\ mutex = Free
    /\ pc = [t \in Conn |-> "none"]
    /\ iflogin = [t \in Conn |-> FALSE]
    /\ ID = [t \in Conn |-> NoID]
    /\ buf = [t \in Conn |-> Blank]
    /\ info = [t \in Conn |-> NoLine]
    /\ cli = [t \in Conn |-> "off"]
    /\ sent = [t \in Conn |-> 0]
    /\ req = [t \in Conn |-> Blank]
    /\ rsp = [t \in Conn |-> FALSE]
    /\ link = [t \in Conn |-> "up"]

Client(t) == \/ Accept(t)
             \/ \E c \in Cmds : Send(t, c)
             \/ Receive(t)
             \/ Close(t)
             \/ Die(t)

mask_server(t) ==
    \/ Read(t) \/ ReadError(t) \/ ReadEOF(t) \/ Lock(t) \/ Decide(t)
    \/ server_show(t) \/ server_login(t) \/ server_logout(t)
    \/ server_buy(t) \/ server_statics(t) \/ server_invalid(t)
    \/ Log(t) \/ Unlock(t)

(* Every client has come and gone; main still waits in accept. *)
Quiet == (\A t \in Conn : pc[t] = "done") /\ UNCHANGED vars

Next == (\E t \in Conn : Client(t) \/ mask_server(t)) \/ Quiet

Spec == Init /\ [][Next]_vars

(* The scheduler runs every worker and every client that waits.            *)
FairSpec == /\ Spec
            /\ \A t \in Conn : WF_vars(mask_server(t)) /\ WF_vars(Receive(t))

-----------------------------------------------------------------------------
Results == {Thanks, Failed, Silent, <<"Input format not valid.">>,
            <<"Login successful.">>, <<"Login failed.">>,
            <<"Logout successful.">>, <<"Logout failed.">>}

(* The database and the control state of workers and clients are well      *)
(* formed: in particular the day the server keeps is a day of the week.    *)
TypeOK ==
    /\ day \in 1..7
    /\ alcohol \in Int
    /\ data \in [DOMAIN Inventory -> [1..3 -> Int]]
    /\ buied_ID \in Seq(IDs)
    /\ bought \in [IDs -> Nat]
    /\ result_index \in Nat
    /\ mutex \in Conn \cup {Free}
    /\ pc \in [Conn -> {"none", "read", "lock", "decide", "commit", "log",
                        "unlock", "done"}]
    /\ iflogin \in [Conn -> BOOLEAN]
    /\ ID \in [Conn -> IDs \cup {NoID}]
    /\ buf \in [Conn -> Cmds \cup {Blank}]
    /\ cli \in [Conn -> {"off", "idle", "wait", "gone"}]
    /\ sent \in [Conn -> 0..work_num]
    /\ req \in [Conn -> Cmds \cup {Blank}]
    /\ rsp \in [Conn -> BOOLEAN]
    /\ link \in [Conn -> {"up", "fin", "rst"}]
    /\ DOMAIN info = Conn

(* A worker inside the critical section owns the mutex, and only it.       *)
Inside(t)  == pc[t] \in {"decide", "commit", "log", "unlock"}
Exclusion  == \A t \in Conn : mutex = t <=> Inside(t)

(* What a worker decided still holds when it commits: the line it built is *)
(* the one it would build now.                                             *)
Decided    == \A t \in Conn : pc[t] = "commit" => info[t] = line_of(t)

(* An ID that bought this week is on the list that server_buy consults.    *)
Listed     == \A id \in IDs : bought[id] > 0 => id \in Buied

Sessions   == \A t \in Conn : iflogin[t] => ID[t] \in IDs

(* No ID buys twice in a week, whatever sessions it is logged in on: a     *)
(* purchase server_buy is about to commit is the first of its ID since the *)
(* list of buyers was cleared.                                             *)
OncePerWeek ==
    \A t \in Conn : pc[t] = "commit" /\ info[t].res = Thanks
                       => bought[ID[t]] = 0

(* Concurrent purchases never sell a mask that is not in stock: no count   *)
(* that server_buy decrements drops below zero.                            *)
NoOversell == \A sh \in DOMAIN data : \A k \in 1..3 : data[sh][k] >= 0

(* The inductive invariant behind the properties above. *)
IInv == /\ TypeOK /\ Exclusion /\ Decided /\ Sessions /\ Listed
        /\ NoOversell

(* The lines are numbered without a gap: the last one in the log, and the  *)
(* one a worker is about to append.                                        *)
Numbered == /\ writeToResult.index = result_index - 1
            /\ \A t \in Conn : pc[t] = "log" => info[t].index = result_index

(* The array buied_ID has BUY_ID_NUM rows and no bounds check.  A row      *)
(* costs a login and then a logout or a purchase, and a login still open   *)
(* is paid for, so n lines of log never fill more than n / 2 rows.         *)
BuyListPaid ==
    2 * Len(buied_ID) + Cardinality({t \in Conn : iflogin[t]})
        <= result_index + Cardinality({t \in Conn : pc[t] = "log"})

(* The log, line by line, is one that checker.cpp accepts: handlers of     *)
(* several workers take effect one at a time, in the order of their lines. *)
(* A line counts from the moment its handler has committed.                *)
Judged == LET L == {t \in Conn : pc[t] = "log"}
          IN  IF L = {} THEN writeToResult ELSE info[CHOOSE t \in L : TRUE]

Checker == INSTANCE MaskChecker WITH
               stores   <- data,
               buy_list <- Buied,
               my_id    <- [t \in Conn |-> IF iflogin[t] THEN ID[t] ELSE NoID],
               line     <- Judged,
               NoOne    <- Free

CheckerAccepts == Checker!Spec

(* The orders for which the server and the checker read the same command:  *)
(* the store is in the inventory or is the word "XXX", and the number of   *)
(* the city has one digit.                                                 *)
KnownOrders ==
    /\ \A sh \in DOMAIN Inventory : sh[1] # "XXX"
    /\ \A o \in Orders :
          /\ o.city < 10
          /\ o.type = "XXX" \/ \E sh \in DOMAIN Inventory : sh[1] = o.type

(* A client that waits for the reply to a command is answered, or dies. *)
Answered == \A t \in Conn : cli[t] = "wait" ~> cli[t] # "wait"

(* The thread of a client that closed or was killed ends, also after the   *)
(* failing read that mask_server takes for one more command.               *)
WorkerEnds == \A t \in Conn : cli[t] = "gone" ~> pc[t] = "done"

=============================================================================
