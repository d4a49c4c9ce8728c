-------------------------- MODULE MaskServerProofs --------------------------
(***************************************************************************)
(* Proofs about the mask server, for any number of connections, any        *)
(* inventory, any orders and any length of the clients' command lists.     *)
(***************************************************************************)
EXTENDS MaskServer, TLAPS, FiniteSetTheorems

USE DEF db, session, journal, client, vars

(* A row added to the list of buyers. *)
LEMMA AppendFacts ==
    ASSUME NEW S, NEW s \in Seq(S), NEW e \in S
    PROVE  /\ Append(s, e) \in Seq(S)
           /\ Len(Append(s, e)) = Len(s) + 1
           /\ {Append(s, e)[i] : i \in 1..Len(Append(s, e))}
                = {s[i] : i \in 1..Len(s)} \cup {e}
<1>1. /\ Append(s, e) \in Seq(S)
      /\ Len(Append(s, e)) = Len(s) + 1
      /\ Len(s) \in Nat
      /\ \A i \in 1..Len(s) : Append(s, e)[i] = s[i]
      /\ Append(s, e)[Len(s) + 1] = e
  OBVIOUS
<1>2. 1..(Len(s) + 1) = 1..Len(s) \cup {Len(s) + 1}
  BY <1>1
<1>3. QED
  BY <1>1, <1>2

(* A counter per ID that one purchase increments. *)
LEMMA BumpFacts ==
    ASSUME NEW S, NEW f \in [S -> Nat], NEW x \in S
    PROVE  /\ [f EXCEPT ![x] = @ + 1] \in [S -> Nat]
           /\ \A y \in S : y # x => [f EXCEPT ![x] = @ + 1][y] = f[y]
  OBVIOUS

(* The shelves after a sale. *)
LEMMA SaleFacts ==
    ASSUME NEW S, NEW f \in [S -> [1..3 -> Int]], NEW x \in S,
           NEW n \in [1..3 -> Int], NEW g,
           g = [f EXCEPT ![x] = [k \in 1..3 |-> @[k] - n[k]]]
    PROVE  /\ g \in [S -> [1..3 -> Int]]
           /\ \A y \in S : y # x => g[y] = f[y]
           /\ \A k \in 1..3 : g[x][k] = f[x][k] - n[k]
<1>1. [k \in 1..3 |-> f[x][k] - n[k]] \in [1..3 -> Int]
  OBVIOUS
<1>2. QED
  BY <1>1

(* A command carries an ID when it is a login and an order when it is a    *)
(* purchase, and nothing else does.                                        *)
LEMMA CmdShape ==
    ASSUME NEW c \in Cmds \cup {Blank}
    PROVE  /\ c[1] = "login" => \E id \in IDs : c = <<"login", id>>
           /\ c[1] = "buy"   => \E o \in Orders : c = <<"buy", o>>
           /\ logged_cmd(c)[1] = "login" => c[1] = "login"
           /\ logged_cmd(c)[1] = "buy" => c[1] = "buy"
           /\ logged_cmd(c)[1] = "logout" => c[1] = "logout"
<1>1. CASE c = Blank
  BY <1>1 DEF Blank, logged_cmd
<1>2. CASE \E w \in Plain : c = <<w>>
  <2>1. PICK w \in Plain : c = <<w>>
    BY <1>2
  <2>2. w # "login" /\ w # "buy" /\ c[1] = w
    BY <2>1, PlainAssumption
  <2>3. logged_cmd(c)[1] \in {w, "exit"} /\ (w = "exit" => c[1] = "exit")
    BY <2>2 DEF logged_cmd
  <2>4. QED
    BY <2>2, <2>3 DEF logged_cmd
<1>3. CASE \E id \in IDs : c = <<"login", id>>
  BY <1>3 DEF logged_cmd
<1>4. CASE \E o \in Orders : c = <<"buy", o>>
  BY <1>4 DEF logged_cmd
<1>5. QED
  BY <1>1, <1>2, <1>3, <1>4 DEF Cmds

(* The line a handler builds holds the command and the handler's result. *)
LEMMA LineFields ==
    ASSUME NEW t \in Conn, TypeOK
    PROVE  /\ line_of(t).cmd = logged_cmd(buf[t])
           /\ line_of(t).res = result_of(t, buf[t])
           /\ line_of(t).index = result_index
           /\ line_of(t).day = day
           /\ line_of(t).fd = t
  BY DEF line_of

(* The result of a command is the result its handler gives. *)
LEMMA ResultOf ==
    ASSUME NEW t \in Conn, NEW c
    PROVE  /\ c[1] = "show" => result_of(t, c) = <<"show", data>>
           /\ c[1] = "statics" => result_of(t, c) = <<"statics", alcohol>>
           /\ c[1] = "login"  => result_of(t, c) = login_result(t, c[2])
           /\ c[1] = "logout" => result_of(t, c) = logout_result(t)
           /\ c[1] = "buy"    => result_of(t, c) = buy_result(t, c[2])
           /\ c[1] \notin {"show", "login", "logout", "buy", "statics"}
                => result_of(t, c) = <<"Input format not valid.">>
  BY DEF result_of

(* What a worker that is about to commit can rely on: the conditions under *)
(* which it decided still hold.                                            *)
LEMMA Committing ==
    ASSUME NEW t \in Conn, TypeOK, Decided, Sessions, pc[t] = "commit"
    PROVE  /\ info[t].cmd[1] = "login" => buf[t][2] \in IDs
           /\ info[t].cmd[1] = "logout" /\ info[t].res = <<"Logout successful.">>
                => ID[t] \in IDs
           /\ info[t].cmd[1] = "buy" /\ info[t].res = Thanks
                => LET o == buf[t][2]
                   IN  /\ o \in Orders
                       /\ ID[t] \in IDs
                       /\ check_day_of_week(ID[t])
                       /\ Shop(o) \in DOMAIN data
                       /\ \A k \in 1..3 : data[Shop(o)][k] >= o.mask[k]
<1>1. info[t] = line_of(t) /\ buf[t] \in Cmds \cup {Blank}
  BY DEF Decided, TypeOK
<1>2. /\ info[t].cmd = logged_cmd(buf[t])
      /\ info[t].res = result_of(t, buf[t])
  BY <1>1, LineFields
<1>3. info[t].cmd[1] = "login" => buf[t][2] \in IDs
  BY <1>1, <1>2, CmdShape
<1>4. ASSUME info[t].cmd[1] = "logout", info[t].res = <<"Logout successful.">>
      PROVE  ID[t] \in IDs
  <2>1. info[t].res = logout_result(t)
    BY <1>1, <1>2, <1>4, CmdShape, ResultOf
  <2>2. iflogin[t]
    <3>1. <<"Logout successful.">> # <<"Logout failed.">>
      OBVIOUS
    <3>2. QED
      BY <2>1, <1>4, <3>1, Zenon DEF logout_result
  <2>3. QED
    BY <2>2 DEF Sessions
<1>5. ASSUME info[t].cmd[1] = "buy", info[t].res = Thanks
      PROVE  LET o == buf[t][2]
             IN  /\ o \in Orders
                 /\ ID[t] \in IDs
                 /\ check_day_of_week(ID[t])
                 /\ Shop(o) \in DOMAIN data
                 /\ \A k \in 1..3 : data[Shop(o)][k] >= o.mask[k]
  <2> DEFINE o == buf[t][2]
  <2>1. buf[t][1] = "buy" /\ o \in Orders
    BY <1>1, <1>2, <1>5, CmdShape
  <2>2. buy_result(t, o) = Thanks
    BY <2>1, <1>2, <1>5, ResultOf
  <2>3. /\ iflogin[t] /\ check_day_of_week(ID[t])
        /\ Shop(o) \in DOMAIN data
        /\ \A k \in 1..3 : ~(data[Shop(o)][k] < o.mask[k])
    <3> HIDE DEF o
    <3>1. Thanks # Failed /\ Thanks # Silent
      BY DEF Thanks, Failed, Silent
    <3>2. QED
      BY <2>2, <3>1 DEF buy_result
  <2>4. data \in [DOMAIN Inventory -> [1..3 -> Int]] /\ o.mask \in [1..3 -> Int]
    BY <2>1, OrderAssumption DEF TypeOK
  <2>5. \A k \in 1..3 : data[Shop(o)][k] >= o.mask[k]
    <3> HIDE DEF o
    <3>1. QED
      BY <2>3, <2>4
  <2>6. ID[t] \in IDs
    BY <2>3 DEF Sessions
  <2>7. QED
    BY <2>1, <2>3, <2>5, <2>6
<1>6. QED
  BY <1>3, <1>4, <1>5

(* A purchase that is thanked for takes its masks from one shelf, and they *)
(* were there.                                                             *)
LEMMA SoldFacts ==
    ASSUME NEW t \in Conn, TypeOK, Decided, Sessions, server_buy(t),
           info[t].res = Thanks
    PROVE  LET o == buf[t][2]
           IN  /\ Shop(o) \in DOMAIN Inventory
               /\ data' \in [DOMAIN Inventory -> [1..3 -> Int]]
               /\ \A y \in DOMAIN Inventory : y # Shop(o) => data'[y] = data[y]
               /\ \A k \in 1..3 : data'[Shop(o)][k] >= 0
<1> DEFINE o == buf[t][2]
<1>1. pc[t] = "commit" /\ info[t].cmd[1] = "buy"
  BY DEF server_buy, Handle
<1>2. /\ o \in Orders
      /\ Shop(o) \in DOMAIN data
      /\ \A k \in 1..3 : data[Shop(o)][k] >= o.mask[k]
  BY <1>1, Committing
<1>3. o.mask \in [1..3 -> Int] /\ data \in [DOMAIN Inventory -> [1..3 -> Int]]
  BY <1>2, OrderAssumption DEF TypeOK
<1>4. data' = [data EXCEPT ![Shop(o)] = [k \in 1..3 |-> @[k] - o.mask[k]]]
  BY Zenon DEF server_buy, purchase
<1> HIDE DEF o
<1>5. Shop(o) \in DOMAIN Inventory
  BY <1>2, <1>3
<1>6. /\ data' \in [DOMAIN Inventory -> [1..3 -> Int]]
      /\ \A y \in DOMAIN Inventory : y # Shop(o) => data'[y] = data[y]
      /\ \A k \in 1..3 : data'[Shop(o)][k] = data[Shop(o)][k] - o.mask[k]
  BY <1>3, <1>4, <1>5, SaleFacts
<1>7. \A k \in 1..3 : data'[Shop(o)][k] >= 0
  BY <1>2, <1>3, <1>5, <1>6
<1>8. QED
  BY <1>5, <1>6, <1>7 DEF o

-----------------------------------------------------------------------------
(* The shape of the state survives every step. *)
LEMMA TypeStep ==
    ASSUME TypeOK, Decided, Sessions, [Next]_vars
    PROVE  TypeOK'
<1> USE DEF TypeOK
<1>1. ASSUME NEW t \in Conn, Client(t)
      PROVE  TypeOK'
  <2>1. CASE Accept(t)
    BY <2>1 DEF Accept
  <2>2. ASSUME NEW c \in Cmds, Send(t, c)
        PROVE  TypeOK'
    BY <2>2, WorkAssumption DEF Send
  <2>3. CASE Receive(t)
    BY <2>3 DEF Receive
  <2>4. CASE Close(t)
    BY <2>4 DEF Close
  <2>5. CASE Die(t)
    BY <2>5 DEF Die
  <2>6. QED
    BY <1>1, <2>1, <2>2, <2>3, <2>4, <2>5 DEF Client
<1>2. ASSUME NEW t \in Conn, NEW W, Handle(t, W),
             UNCHANGED <<day, alcohol, data, buied_ID, bought>>,
             iflogin' \in [Conn -> BOOLEAN], ID' \in [Conn -> IDs \cup {NoID}]
      PROVE  TypeOK'
  BY <1>2 DEF Handle
<1>3. ASSUME NEW t \in Conn, server_login(t)
      PROVE  TypeOK'
  <2>1. pc[t] = "commit" /\ info[t].cmd[1] = "login"
    BY <1>3 DEF server_login, Handle
  <2>2. buf[t][2] \in IDs
    BY <2>1, Committing
  <2>3. QED
    <3>1. Handle(t, {"login"}) /\ UNCHANGED db
      BY <1>3 DEF server_login
    <3>2. /\ \/ iflogin' = iflogin
             \/ iflogin' = [iflogin EXCEPT ![t] = TRUE]
          /\ \/ ID' = ID
             \/ ID' = [ID EXCEPT ![t] = buf[t][2]]
      BY <1>3, Zenon DEF server_login
    <3>3. /\ iflogin' \in [Conn -> BOOLEAN]
          /\ ID' \in [Conn -> IDs \cup {NoID}]
      BY <2>2, <3>2
    <3>4. QED
      BY <1>2, <3>1, <3>3
<1>4. ASSUME NEW t \in Conn, server_logout(t)
      PROVE  TypeOK'
  <2>1. pc[t] = "commit" /\ info[t].cmd[1] = "logout"
    BY <1>4 DEF server_logout, Handle
  <2>2. CASE info[t].res = <<"Logout successful.">>
    <3>1. ID[t] \in IDs
      BY <2>1, <2>2, Committing
    <3>2. buied_ID' \in Seq(IDs)
      <4>1. buied_ID' = Append(buied_ID, ID[t])
        BY <1>4, <2>2 DEF server_logout
      <4>2. QED
        BY <3>1, <4>1, AppendFacts
    <3>3. QED
      BY <1>4, <2>2, <3>2 DEF server_logout, Handle
  <2>3. CASE info[t].res # <<"Logout successful.">>
    BY <1>2, <1>4, <2>3 DEF server_logout
  <2>4. QED
    BY <2>2, <2>3
<1>5. ASSUME NEW t \in Conn, server_buy(t)
      PROVE  TypeOK'
  <2>1. pc[t] = "commit" /\ info[t].cmd[1] = "buy" /\ Handle(t, {"buy"})
    BY <1>5 DEF server_buy, Handle
  <2>2. CASE info[t].res = Thanks
    <3> DEFINE o == buf[t][2]
    <3>1. o \in Orders /\ ID[t] \in IDs /\ Shop(o) \in DOMAIN data
      BY <2>1, <2>2, Committing
    <3>2. o.mask \in [1..3 -> Int]
      BY <3>1, OrderAssumption
    <3>3. purchase(t, o) /\ UNCHANGED ID
      BY <1>5, <2>2 DEF server_buy
    <3> HIDE DEF o
    <3>4. data' \in [DOMAIN Inventory -> [1..3 -> Int]]
      BY <1>5, <2>2, SoldFacts
    <3>5. day' \in 1..7 /\ alcohol' \in Int
      BY <3>3, DayAssumption DEF purchase
    <3>6. buied_ID' \in Seq(IDs)
      <4>1. buied_ID' = <<>> \/ buied_ID' = Append(buied_ID, ID[t])
        BY <3>3, Zenon DEF purchase
      <4>2. Append(buied_ID, ID[t]) \in Seq(IDs)
        BY <3>1, AppendFacts
      <4>3. <<>> \in Seq(IDs)
        OBVIOUS
      <4>4. QED
        BY <4>1, <4>2, <4>3, Zenon
    <3>7. bought' \in [IDs -> Nat]
      <4>1. \/ bought' = [id \in IDs |-> 0]
            \/ bought' = [bought EXCEPT ![ID[t]] = @ + 1]
        BY <3>3, Zenon DEF purchase
      <4>2. [id \in IDs |-> 0] \in [IDs -> Nat]
        OBVIOUS
      <4>3. [bought EXCEPT ![ID[t]] = @ + 1] \in [IDs -> Nat]
        BY <3>1, BumpFacts
      <4>4. QED
        BY <4>1, <4>2, <4>3, Zenon
    <3>9. iflogin' \in [Conn -> BOOLEAN]
      BY <3>3, Zenon DEF purchase
    <3>8. QED
      BY <2>1, <3>3, <3>4, <3>5, <3>6, <3>7, <3>9 DEF Handle
  <2>3. CASE info[t].res # Thanks
    BY <1>2, <1>5, <2>1, <2>3 DEF server_buy
  <2>4. QED
    BY <2>2, <2>3
<1>6. ASSUME NEW t \in Conn, mask_server(t)
      PROVE  TypeOK'
  <2>1. CASE Read(t)
    BY <2>1 DEF Read
  <2>2. CASE ReadError(t)
    BY <2>2 DEF ReadError
  <2>3. CASE ReadEOF(t)
    BY <2>3 DEF ReadEOF
  <2>4. CASE Lock(t)
    BY <2>4 DEF Lock
  <2>5. CASE Decide(t)
    BY <2>5 DEF Decide
  <2>6. CASE server_show(t) \/ server_statics(t) \/ server_invalid(t)
    BY <2>6, <1>2 DEF server_show, server_statics, server_invalid
  <2>7. CASE Log(t)
    BY <2>7 DEF Log
  <2>8. CASE Unlock(t)
    BY <2>8 DEF Unlock
  <2>9. QED
    BY <1>3, <1>4, <1>5, <1>6, <2>1, <2>2, <2>3, <2>4, <2>5, <2>6, <2>7, <2>8
    DEF mask_server
<1>7. CASE UNCHANGED vars
  BY <1>7
<1>8. QED
  BY <1>1, <1>6, <1>7 DEF Next, Quiet

-----------------------------------------------------------------------------
(* The six handlers in one: the worker that owns the mutex commits. *)
LEMMA HandlerIsHandle ==
    ASSUME NEW t \in Conn,
           \/ server_show(t) \/ server_login(t) \/ server_logout(t)
           \/ server_buy(t) \/ server_statics(t) \/ server_invalid(t)
    PROVE  \E W : Handle(t, W)
  BY DEF server_show, server_login, server_logout, server_buy, server_statics,
         server_invalid

(* Only the owner of the mutex is inside, before and after every step. *)
LEMMA ExclusionStep ==
    ASSUME TypeOK, Exclusion, [Next]_vars
    PROVE  Exclusion'
<1> USE DEF TypeOK, Exclusion, Inside
<1>1. ASSUME NEW t \in Conn, Client(t)
      PROVE  Exclusion'
  <2>1. CASE Accept(t)
    BY <2>1 DEF Accept
  <2>2. CASE UNCHANGED <<pc, mutex>>
    BY <2>2
  <2>3. QED
    BY <1>1, <2>1, <2>2 DEF Client, Send, Receive, Close, Die
<1>2. ASSUME NEW t \in Conn, NEW W, Handle(t, W)
      PROVE  Exclusion'
  BY <1>2 DEF Handle
<1>3. ASSUME NEW t \in Conn, mask_server(t)
      PROVE  Exclusion'
  <2>1. CASE Read(t) \/ ReadError(t) \/ ReadEOF(t)
    <3>1. /\ mutex' = mutex /\ pc[t] = "read"
          /\ pc' = [pc EXCEPT ![t] = "lock"] \/ pc' = [pc EXCEPT ![t] = "done"]
      BY <2>1, Zenon DEF Read, ReadError, ReadEOF
    <3>2. QED
      BY <3>1
  <2>2. CASE Lock(t)
    BY <2>2, FreeAssumption DEF Lock
  <2>3. CASE Decide(t)
    BY <2>3 DEF Decide
  <2>4. CASE Log(t)
    BY <2>4 DEF Log
  <2>5. CASE Unlock(t)
    BY <2>5, FreeAssumption DEF Unlock
  <2>6. QED
    BY <1>2, <1>3, <2>1, <2>2, <2>3, <2>4, <2>5, HandlerIsHandle DEF mask_server
<1>4. CASE UNCHANGED vars
  BY <1>4
<1>5. QED
  BY <1>1, <1>3, <1>4 DEF Next, Quiet

(* A line depends on the database and on the worker's own variables only. *)
LEMMA LineStable ==
    ASSUME NEW u \in Conn,
           UNCHANGED <<day, alcohol, data, buied_ID, result_index>>,
           buf'[u] = buf[u], iflogin'[u] = iflogin[u], ID'[u] = ID[u]
    PROVE  line_of(u)' = line_of(u)
<1>1. check_day_of_week(ID[u])' = check_day_of_week(ID[u])
  BY DEF check_day_of_week, Buied
<1>2. \A o : buy_result(u, o)' = buy_result(u, o)
  BY <1>1 DEF buy_result, Shop, city_num, Failed, Silent, Thanks
<1>3. /\ \A id : login_result(u, id)' = login_result(u, id)
      /\ logout_result(u)' = logout_result(u)
  BY DEF login_result, logout_result
<1>4. result_of(u, buf[u])' = result_of(u, buf[u])
  BY <1>2, <1>3 DEF result_of
<1>5. QED
  BY <1>4 DEF line_of

(* What a worker decided stays true until it commits: another worker would *)
(* have to be inside to change it.                                         *)
LEMMA DecidedStep ==
    ASSUME TypeOK, Exclusion, Decided, [Next]_vars
    PROVE  Decided'
<1> SUFFICES ASSUME NEW u \in Conn, pc'[u] = "commit"
             PROVE  info'[u] = line_of(u)'
  BY DEF Decided
<1>1. ASSUME UNCHANGED <<day, alcohol, data, buied_ID, result_index>>,
             buf'[u] = buf[u], iflogin'[u] = iflogin[u], ID'[u] = ID[u],
             pc[u] = "commit", info'[u] = info[u]
      PROVE  info'[u] = line_of(u)'
  BY <1>1, LineStable DEF Decided
<1>2. ASSUME NEW t \in Conn, Client(t)
      PROVE  info'[u] = line_of(u)'
  <2>1. UNCHANGED <<db, session, journal, buf, info>>
    BY <1>2 DEF Client, Accept, Send, Receive, Close, Die
  <2>2. pc[u] = "commit"
    BY <1>2 DEF Client, Accept, Send, Receive, Close, Die, TypeOK
  <2>3. QED
    BY <1>1, <2>1, <2>2
<1>3. ASSUME NEW t \in Conn, Inside(t), u # t, pc' = [pc EXCEPT ![t] = pc'[t]]
      PROVE  FALSE
  <2>1. pc[u] = "commit"
    BY <1>3 DEF TypeOK
  <2>2. QED
    BY <1>3, <2>1 DEF Exclusion, Inside
<1>4. ASSUME NEW t \in Conn, NEW W, Handle(t, W)
      PROVE  FALSE
  BY <1>3, <1>4 DEF Handle, Inside, TypeOK
<1>5. ASSUME NEW t \in Conn, mask_server(t)
      PROVE  info'[u] = line_of(u)'
  <2>1. CASE Read(t) \/ ReadError(t) \/ ReadEOF(t)
    <3>1. u # t /\ pc[u] = "commit"
      BY <2>1 DEF Read, ReadError, ReadEOF, TypeOK
    <3>2. /\ UNCHANGED <<db, session, journal, info>>
          /\ buf'[u] = buf[u]
      BY <2>1, <3>1 DEF Read, ReadError, ReadEOF, TypeOK
    <3>3. QED
      BY <1>1, <3>1, <3>2
  <2>2. CASE Lock(t)
    <3>1. u # t /\ pc[u] = "commit"
      BY <2>2 DEF Lock, TypeOK
    <3>2. QED
      BY <1>1, <2>2, <3>1 DEF Lock
  <2>3. CASE Decide(t)
    <3>1. u = t
      BY <1>3, <2>3 DEF Decide, Inside, TypeOK
    <3>2. line_of(u)' = line_of(u)
      BY <2>3, LineStable DEF Decide
    <3>3. info'[u] = line_of(u)
      BY <2>3, <3>1 DEF Decide, TypeOK
    <3>4. QED
      BY <3>2, <3>3
  <2>4. CASE Log(t) \/ Unlock(t)
    BY <1>3, <2>4 DEF Log, Unlock, Inside, TypeOK
  <2>5. QED
    BY <1>4, <1>5, <2>1, <2>2, <2>3, <2>4, HandlerIsHandle DEF mask_server
<1>6. CASE UNCHANGED vars
  BY <1>1, <1>6
<1>7. QED
  BY <1>2, <1>5, <1>6 DEF Next, Quiet

(* Steps that are no login, logout or purchase leave the sessions and the  *)
(* database alone.                                                         *)
LEMMA OtherStep ==
    ASSUME NEW t \in Conn,
           \/ Client(t) \/ Read(t) \/ ReadError(t) \/ ReadEOF(t)
           \/ Lock(t) \/ Decide(t) \/ Log(t) \/ Unlock(t)
           \/ server_show(t) \/ server_statics(t) \/ server_invalid(t)
    PROVE  UNCHANGED <<db, session>>
<1>1. CASE Client(t)
  BY <1>1 DEF Client, Accept, Send, Receive, Close, Die
<1>2. CASE Read(t) \/ ReadError(t) \/ ReadEOF(t) \/ Lock(t) \/ Decide(t)
  BY <1>2 DEF Read, ReadError, ReadEOF, Lock, Decide
<1>3. CASE Log(t) \/ Unlock(t)
  BY <1>3 DEF Log, Unlock
<1>4. CASE server_show(t) \/ server_statics(t) \/ server_invalid(t)
  BY <1>4 DEF server_show, server_statics, server_invalid
<1>5. QED
  BY <1>1, <1>2, <1>3, <1>4

(* A connection is logged in with an ID. *)
LEMMA SessionsStep ==
    ASSUME TypeOK, Decided, Sessions, [Next]_vars
    PROVE  Sessions'
<1>1. ASSUME UNCHANGED session
      PROVE  Sessions'
  BY <1>1 DEF Sessions
<1>2. ASSUME NEW t \in Conn, server_login(t)
      PROVE  Sessions'
  <2>1. pc[t] = "commit" /\ info[t].cmd[1] = "login"
    BY <1>2 DEF server_login, Handle
  <2>2. buf[t][2] \in IDs
    BY <2>1, Committing
  <2>3. QED
    <3>1. CASE info[t].res = <<"Login successful.">>
      <4>1. /\ iflogin' = [iflogin EXCEPT ![t] = TRUE]
            /\ ID' = [ID EXCEPT ![t] = buf[t][2]]
        BY <1>2, <3>1, Zenon DEF server_login
      <4>2. QED
        BY <2>2, <4>1 DEF Sessions, TypeOK
    <3>2. CASE info[t].res # <<"Login successful.">>
      BY <1>1, <1>2, <3>2, Zenon DEF server_login
    <3>3. QED
      BY <3>1, <3>2
<1>3. ASSUME NEW t \in Conn, server_logout(t)
      PROVE  Sessions'
  <2>1. ID' = ID /\ (iflogin' = iflogin \/ iflogin' = [iflogin EXCEPT ![t] = FALSE])
    BY <1>3, Zenon DEF server_logout
  <2>2. QED
    BY <2>1 DEF Sessions, TypeOK
<1>4. ASSUME NEW t \in Conn, server_buy(t)
      PROVE  Sessions'
  <2>1. CASE info[t].res = Thanks
    BY <1>4, <2>1 DEF server_buy, purchase, Sessions, TypeOK
  <2>2. CASE info[t].res # Thanks
    BY <1>1, <1>4, <2>2 DEF server_buy
  <2>3. QED
    BY <2>1, <2>2
<1>5. QED
  BY <1>1, <1>2, <1>3, <1>4, OtherStep DEF Next, mask_server, Quiet

(* A row added to the list adds its ID to the IDs on it. *)
LEMMA BuiedAppend ==
    ASSUME TypeOK, NEW e \in IDs, buied_ID' = Append(buied_ID, e)
    PROVE  Buied' = Buied \cup {e}
<1>1. buied_ID \in Seq(IDs)
  BY DEF TypeOK
<1>2. {Append(buied_ID, e)[i] : i \in 1..Len(Append(buied_ID, e))}
        = {buied_ID[i] : i \in 1..Len(buied_ID)} \cup {e}
  BY <1>1, AppendFacts
<1>3. Buied' = {buied_ID'[i] : i \in 1..Len(buied_ID')}
  BY DEF Buied
<1>4. QED
  BY <1>2, <1>3, Zenon DEF Buied

(* The list of buyers holds every ID that bought this week. *)
LEMMA ListedStep ==
    ASSUME TypeOK, Decided, Sessions, Listed, [Next]_vars
    PROVE  Listed'
<1>1. ASSUME UNCHANGED <<buied_ID, bought>>
      PROVE  Listed'
  BY <1>1 DEF Listed, Buied
<1>2. ASSUME NEW t \in Conn, server_logout(t)
      PROVE  Listed'
  <2>1. pc[t] = "commit" /\ info[t].cmd[1] = "logout"
    BY <1>2 DEF server_logout, Handle
  <2>2. CASE info[t].res = <<"Logout successful.">>
    <3>1. ID[t] \in IDs
      BY <2>1, <2>2, Committing
    <3>2. buied_ID' = Append(buied_ID, ID[t]) /\ bought' = bought
      BY <1>2, <2>2 DEF server_logout
    <3>3. Buied' = Buied \cup {ID[t]}
      BY <3>1, <3>2, BuiedAppend
    <3>4. QED
      BY <3>2, <3>3 DEF Listed
  <2>3. CASE info[t].res # <<"Logout successful.">>
    BY <1>1, <1>2, <2>3 DEF server_logout
  <2>4. QED
    BY <2>2, <2>3
<1>3. ASSUME NEW t \in Conn, server_buy(t)
      PROVE  Listed'
  <2>1. pc[t] = "commit" /\ info[t].cmd[1] = "buy"
    BY <1>3 DEF server_buy, Handle
  <2>2. CASE info[t].res = Thanks
    <3> DEFINE o == buf[t][2]
    <3>1. ID[t] \in IDs
      BY <2>1, <2>2, Committing
    <3>2. purchase(t, o)
      BY <1>3, <2>2 DEF server_buy
    <3>3. CASE bought' = [id \in IDs |-> 0]
      BY <3>3 DEF Listed
    <3>4. CASE /\ buied_ID' = Append(buied_ID, ID[t])
               /\ bought' = [bought EXCEPT ![ID[t]] = @ + 1]
      <4>1. Buied' = Buied \cup {ID[t]}
        BY <3>1, <3>4, BuiedAppend
      <4>2. bought \in [IDs -> Nat]
        BY DEF TypeOK
      <4>3. \A y \in IDs : y # ID[t] => bought'[y] = bought[y]
        BY <3>1, <3>4, <4>2, BumpFacts
      <4>4. QED
        BY <4>1, <4>3 DEF Listed
    <3>5. QED
      BY <3>2, <3>3, <3>4, Zenon DEF purchase
  <2>3. CASE info[t].res # Thanks
    BY <1>1, <1>3, <2>3 DEF server_buy
  <2>4. QED
    BY <2>2, <2>3
<1>4. QED
  BY <1>1, <1>2, <1>3, OtherStep DEF Next, mask_server, Quiet, server_login

(* A purchase takes what is there. *)
LEMMA NoOversellStep ==
    ASSUME TypeOK, Decided, Sessions, NoOversell, [Next]_vars
    PROVE  NoOversell'
<1>1. ASSUME UNCHANGED data
      PROVE  NoOversell'
  BY <1>1 DEF NoOversell
<1>2. ASSUME NEW t \in Conn, server_buy(t)
      PROVE  NoOversell'
  <2>1. pc[t] = "commit" /\ info[t].cmd[1] = "buy"
    BY <1>2 DEF server_buy, Handle
  <2>2. CASE info[t].res = Thanks
    <3> DEFINE o == buf[t][2]
    <3>1. /\ Shop(o) \in DOMAIN Inventory
          /\ data' \in [DOMAIN Inventory -> [1..3 -> Int]]
          /\ \A y \in DOMAIN Inventory : y # Shop(o) => data'[y] = data[y]
          /\ \A k \in 1..3 : data'[Shop(o)][k] >= 0
      BY <1>2, <2>2, SoldFacts
    <3> HIDE DEF o
    <3>2. DOMAIN data' = DOMAIN Inventory /\ DOMAIN data = DOMAIN Inventory
      BY <3>1 DEF TypeOK
    <3>3. QED
      BY <3>1, <3>2, Zenon DEF NoOversell
  <2>3. CASE info[t].res # Thanks
    BY <1>1, <1>2, <2>3 DEF server_buy
  <2>4. QED
    BY <2>2, <2>3
<1>3. QED
  BY <1>1, <1>2, OtherStep DEF Next, mask_server, Quiet, server_login, server_logout

-----------------------------------------------------------------------------
(* The inductive invariant holds at the start of the server. *)
LEMMA InitIInv == Init => IInv
<1> SUFFICES ASSUME Init PROVE IInv
  OBVIOUS
<1>1. TypeOK
  BY DayAssumption, InventoryAssumption, WorkAssumption DEF Init, TypeOK
<1>2. Exclusion /\ Decided /\ Sessions /\ Listed
  BY FreeAssumption DEF Init, Exclusion, Inside, Decided, Sessions, Listed
<1>3. NoOversell
  BY InventoryAssumption DEF Init, NoOversell
<1>4. QED
  BY <1>1, <1>2, <1>3 DEF IInv

(* IInv is an invariant of the server. *)
THEOREM Invariance == Spec => []IInv
<1>1. IInv /\ [Next]_vars => IInv'
  BY TypeStep, ExclusionStep, DecidedStep, SessionsStep, ListedStep,
     NoOversellStep DEF IInv
<1>2. QED
  BY InitIInv, <1>1, PTL DEF Spec

(* The state of the server is well formed: the day stays a day of the week *)
(* although main takes it from the command line and server_buy increments  *)
(* it, and every row of the list of buyers is an ID.                       *)
THEOREM TypeCorrect == Spec => []TypeOK
<1>1. IInv => TypeOK
  BY DEF IInv
<1>2. QED
  BY Invariance, <1>1, PTL

(* all_mutex keeps the workers apart: one at most is inside a handler, and *)
(* it is the owner.                                                        *)
THEOREM MutualExclusion == Spec => []Exclusion
<1>1. IInv => Exclusion
  BY DEF IInv
<1>2. QED
  BY Invariance, <1>1, PTL

(* No ID buys twice between two resets of the list of buyers, on however   *)
(* many connections it is logged in at the same time.                      *)
THEOREM BuyersOncePerWeek == Spec => []OncePerWeek
<1>1. IInv => OncePerWeek
  <2> SUFFICES ASSUME IInv, NEW t \in Conn, pc[t] = "commit",
                      info[t].res = Thanks
               PROVE  bought[ID[t]] = 0
    BY DEF OncePerWeek
  <2> USE DEF IInv
  <2>1. info[t] = line_of(t) /\ buf[t] \in Cmds \cup {Blank}
    BY DEF Decided, TypeOK
  <2>2. result_of(t, buf[t]) = Thanks
    BY <2>1, LineFields
  <2>3. buf[t][1] = "buy"
    <3> DEFINE c == buf[t]
    <3>1. /\ \A id : login_result(t, id) # Thanks
          /\ logout_result(t) # Thanks
          /\ <<"show", data>> # Thanks
          /\ <<"statics", alcohol>> # Thanks
          /\ <<"Input format not valid.">> # Thanks
      BY DEF Thanks, login_result, logout_result
    <3> HIDE DEF c
    <3>2. result_of(t, c) = Thanks
      BY <2>2 DEF c
    <3>3. c[1] = "buy"
      BY <3>1, <3>2, ResultOf, Zenon
    <3>4. QED
      BY <3>3 DEF c
  <2>4. info[t].cmd[1] = "buy"
    BY <2>1, <2>3, LineFields DEF logged_cmd
  <2>5. ID[t] \in IDs /\ check_day_of_week(ID[t])
    BY <2>4, Committing
  <2>6. QED
    BY <2>5 DEF Listed, check_day_of_week, TypeOK
<1>2. QED
  BY Invariance, <1>1, PTL

(* server_buy never sells a mask that is not in stock. *)
THEOREM StockSuffices == Spec => []NoOversell
<1>1. IInv => NoOversell
  BY DEF IInv
<1>2. QED
  BY Invariance, <1>1, PTL

-----------------------------------------------------------------------------
(* The two sets of connections that BuyListPaid counts. *)
OpenSessions == {t \in Conn : iflogin[t]}
Logging      == {t \in Conn : pc[t] = "log"}

(* Sets of connections can be counted, and one connection counts for one. *)
LEMMA CountConn ==
    ASSUME NEW S \in SUBSET Conn, NEW t \in Conn
    PROVE  /\ Cardinality(S) \in Nat
           /\ t \notin S => Cardinality(S \cup {t}) = Cardinality(S) + 1
           /\ t \in S => Cardinality(S \ {t}) = Cardinality(S) - 1
<1>1. IsFiniteSet(S)
  BY ConnAssumption, FS_Subset
<1>2. Cardinality(S) \in Nat
  BY <1>1, FS_CardinalityType
<1>3. t \notin S => Cardinality(S \cup {t}) = Cardinality(S) + 1
  BY <1>1, FS_AddElement
<1>4. t \in S => Cardinality(S \ {t}) = Cardinality(S) - 1
  BY <1>1, FS_RemoveElement
<1> QED
  BY <1>2, <1>3, <1>4

(* What BuyListPaid says, with the names above. *)
LEMMA PaidForm ==
    /\ BuyListPaid <=> 2 * Len(buied_ID) + Cardinality(OpenSessions)
                           <= result_index + Cardinality(Logging)
    /\ BuyListPaid' <=> 2 * Len(buied_ID') + Cardinality(OpenSessions')
                           <= result_index' + Cardinality(Logging')
BY DEF BuyListPaid, OpenSessions, Logging

(* A worker is counted among the logging ones from its handler on, until   *)
(* its line is in the log.                                                 *)
LEMMA LoggingMoves ==
    ASSUME TypeOK, NEW t \in Conn
    PROVE  /\ pc[t] = "commit" /\ pc' = [pc EXCEPT ![t] = "log"]
                => Cardinality(Logging') = Cardinality(Logging) + 1
           /\ pc[t] = "log" /\ pc' = [pc EXCEPT ![t] = "unlock"]
                => Cardinality(Logging') = Cardinality(Logging) - 1
<1>1. Logging \in SUBSET Conn
  BY DEF Logging
<1>2. ASSUME pc[t] = "commit", pc' = [pc EXCEPT ![t] = "log"]
      PROVE  t \notin Logging /\ Logging' = Logging \cup {t}
  BY <1>2 DEF Logging, TypeOK
<1>3. ASSUME pc[t] = "log", pc' = [pc EXCEPT ![t] = "unlock"]
      PROVE  t \in Logging /\ Logging' = Logging \ {t}
  BY <1>3 DEF Logging, TypeOK
<1> QED
  BY <1>1, <1>2, <1>3, CountConn

(* A session opens and closes. *)
LEMMA OpenMoves ==
    ASSUME TypeOK, NEW t \in Conn
    PROVE  /\ ~iflogin[t] /\ iflogin' = [iflogin EXCEPT ![t] = TRUE]
                => Cardinality(OpenSessions') = Cardinality(OpenSessions) + 1
           /\ iflogin[t] /\ iflogin' = [iflogin EXCEPT ![t] = FALSE]
                => Cardinality(OpenSessions') = Cardinality(OpenSessions) - 1
<1>1. OpenSessions \in SUBSET Conn
  BY DEF OpenSessions
<1>2. ASSUME ~iflogin[t], iflogin' = [iflogin EXCEPT ![t] = TRUE]
      PROVE  t \notin OpenSessions /\ OpenSessions' = OpenSessions \cup {t}
  BY <1>2 DEF OpenSessions, TypeOK
<1>3. ASSUME iflogin[t], iflogin' = [iflogin EXCEPT ![t] = FALSE]
      PROVE  t \in OpenSessions /\ OpenSessions' = OpenSessions \ {t}
  BY <1>3 DEF OpenSessions, TypeOK
<1> QED
  BY <1>1, <1>2, <1>3, CountConn

(* The session a handler that succeeds was decided for. *)
LEMMA SessionDecided ==
    ASSUME NEW t \in Conn, TypeOK, Decided, pc[t] = "commit"
    PROVE  /\ info[t].cmd[1] = "login" /\ info[t].res = <<"Login successful.">>
                => ~iflogin[t]
           /\ info[t].cmd[1] = "logout" /\ info[t].res = <<"Logout successful.">>
                => iflogin[t]
           /\ info[t].cmd[1] = "buy" /\ info[t].res = Thanks => iflogin[t]
<1>1. info[t] = line_of(t) /\ buf[t] \in Cmds \cup {Blank}
  BY DEF Decided, TypeOK
<1>2. info[t].cmd = logged_cmd(buf[t]) /\ info[t].res = result_of(t, buf[t])
  BY <1>1, LineFields
<1>3. ASSUME info[t].cmd[1] = "login", info[t].res = <<"Login successful.">>
      PROVE  ~iflogin[t]
  <2>1. info[t].res = login_result(t, buf[t][2])
    BY <1>1, <1>2, <1>3, CmdShape, ResultOf
  <2>2. <<"Login successful.">> # <<"Login failed.">>
    OBVIOUS
  <2> QED
    BY <1>3, <2>1, <2>2, Zenon DEF login_result
<1>4. ASSUME info[t].cmd[1] = "logout", info[t].res = <<"Logout successful.">>
      PROVE  iflogin[t]
  <2>1. info[t].res = logout_result(t)
    BY <1>1, <1>2, <1>4, CmdShape, ResultOf
  <2>2. <<"Logout successful.">> # <<"Logout failed.">>
    OBVIOUS
  <2> QED
    BY <1>4, <2>1, <2>2, Zenon DEF logout_result
<1>5. ASSUME info[t].cmd[1] = "buy", info[t].res = Thanks
      PROVE  iflogin[t]
  <2>1. info[t].res = buy_result(t, buf[t][2])
    BY <1>1, <1>2, <1>5, CmdShape, ResultOf
  <2>2. Thanks # Failed
    BY DEF Thanks, Failed
  <2> QED
    BY <1>5, <2>1, <2>2, Zenon DEF buy_result
<1> QED
  BY <1>3, <1>4, <1>5

(* A row of buied_ID is paid for by two lines: the one of the login, and   *)
(* the one of the logout or the purchase that wrote the row.               *)
LEMMA PaidStep ==
    ASSUME TypeOK, Decided, Sessions, BuyListPaid, [Next]_vars
    PROVE  BuyListPaid'
<1>c. /\ Cardinality(OpenSessions) \in Nat /\ Cardinality(Logging) \in Nat
      /\ Cardinality(OpenSessions') \in Nat /\ Cardinality(Logging') \in Nat
      /\ Len(buied_ID) \in Nat /\ result_index \in Nat
  <2>1. /\ OpenSessions \in SUBSET Conn /\ Logging \in SUBSET Conn
        /\ OpenSessions' \in SUBSET Conn /\ Logging' \in SUBSET Conn
    BY DEF OpenSessions, Logging
  <2>2. \A S \in SUBSET Conn : Cardinality(S) \in Nat
    BY ConnAssumption, FS_Subset, FS_CardinalityType
  <2>3. Len(buied_ID) \in Nat /\ result_index \in Nat
    BY DEF TypeOK
  <2> QED
    BY <2>1, <2>2, <2>3
<1>p. 2 * Len(buied_ID) + Cardinality(OpenSessions) <= result_index + Cardinality(Logging)
  BY PaidForm
<1>q. ASSUME 2 * Len(buied_ID') + Cardinality(OpenSessions')
               <= result_index' + Cardinality(Logging')
      PROVE  BuyListPaid'
  BY <1>q, PaidForm
<1>1. ASSUME UNCHANGED <<buied_ID, iflogin, result_index>>,
             \A u \in Conn : pc'[u] = "log" <=> pc[u] = "log"
      PROVE  BuyListPaid'
  BY <1>1 DEF BuyListPaid
<1>2. ASSUME NEW t \in Conn,
             Client(t) \/ Read(t) \/ ReadError(t) \/ ReadEOF(t) \/ Lock(t)
               \/ Decide(t) \/ Unlock(t)
      PROVE  BuyListPaid'
  <2>1. UNCHANGED <<buied_ID, iflogin, result_index>>
    BY <1>2 DEF Client, Accept, Send, Receive, Close, Die, Read, ReadError, ReadEOF,
                Lock, Decide, Unlock
  <2>2. \A u \in Conn : pc'[u] = "log" <=> pc[u] = "log"
    BY <1>2 DEF TypeOK, Client, Accept, Send, Receive, Close, Die, Read, ReadError,
                ReadEOF, Lock, Decide, Unlock
  <2> QED
    BY <1>1, <2>1, <2>2
<1>3. ASSUME NEW t \in Conn, Log(t)
      PROVE  BuyListPaid'
  <2>1. /\ pc[t] = "log" /\ pc' = [pc EXCEPT ![t] = "unlock"]
        /\ result_index' = result_index + 1 /\ UNCHANGED <<buied_ID, iflogin>>
    BY <1>3 DEF Log
  <2>2. Cardinality(Logging') = Cardinality(Logging) - 1
    BY <2>1, LoggingMoves
  <2>3. Cardinality(OpenSessions') = Cardinality(OpenSessions)
    BY <2>1 DEF OpenSessions
  <2> QED
    BY <1>c, <1>p, <1>q, <2>1, <2>2, <2>3
<1>h. ASSUME NEW t \in Conn, NEW W, Handle(t, W)
      PROVE  /\ pc[t] = "commit" /\ info[t].cmd[1] \in W /\ result_index' = result_index
             /\ Cardinality(Logging') = Cardinality(Logging) + 1
  BY <1>h, LoggingMoves DEF Handle
<1>4. ASSUME NEW t \in Conn, NEW W, Handle(t, W), UNCHANGED <<buied_ID, iflogin>>
      PROVE  BuyListPaid'
  <2>1. Cardinality(OpenSessions') = Cardinality(OpenSessions)
    BY <1>4 DEF OpenSessions
  <2> QED
    BY <1>c, <1>p, <1>q, <1>h, <1>4, <2>1
<1>5. ASSUME NEW t \in Conn, server_login(t)
      PROVE  BuyListPaid'
  <2>1. Handle(t, {"login"}) /\ UNCHANGED buied_ID
    BY <1>5 DEF server_login
  <2>2. CASE info[t].res = <<"Login successful.">>
    <3>1. ~iflogin[t] /\ iflogin' = [iflogin EXCEPT ![t] = TRUE]
      <4>1. pc[t] = "commit" /\ info[t].cmd[1] = "login"
        BY <2>1 DEF Handle
      <4>2. ~iflogin[t]
        BY <2>2, <4>1, SessionDecided
      <4> QED
        BY <1>5, <2>2, <4>2 DEF server_login
    <3>2. Cardinality(OpenSessions') = Cardinality(OpenSessions) + 1
      BY <3>1, OpenMoves
    <3> QED
      BY <1>c, <1>p, <1>q, <1>h, <2>1, <3>2
  <2>3. CASE info[t].res # <<"Login successful.">>
    BY <1>4, <1>5, <2>1, <2>3 DEF server_login
  <2> QED
    BY <2>2, <2>3
<1>r. ASSUME NEW t \in Conn, NEW W, Handle(t, W), iflogin[t],
             iflogin' = [iflogin EXCEPT ![t] = FALSE],
             buied_ID' = <<>> \/ buied_ID' = Append(buied_ID, ID[t])
      PROVE  BuyListPaid'
  <2>1. Cardinality(OpenSessions') = Cardinality(OpenSessions) - 1
    BY <1>r, OpenMoves
  <2>2. Len(buied_ID') = 0 \/ Len(buied_ID') = Len(buied_ID) + 1
    <3>1. ID[t] \in IDs /\ buied_ID \in Seq(IDs)
      BY <1>r DEF Sessions, TypeOK
    <3>2. Len(Append(buied_ID, ID[t])) = Len(buied_ID) + 1
      BY <3>1, AppendFacts
    <3> QED
      BY <1>r, <3>2
  <2> QED
    BY <1>c, <1>p, <1>q, <1>h, <1>r, <2>1, <2>2
<1>6. ASSUME NEW t \in Conn, server_logout(t)
      PROVE  BuyListPaid'
  <2>1. Handle(t, {"logout"})
    BY <1>6 DEF server_logout
  <2>2. CASE info[t].res = <<"Logout successful.">>
    <3>1. pc[t] = "commit" /\ info[t].cmd[1] = "logout"
      BY <2>1 DEF Handle
    <3>2. iflogin[t]
      BY <2>2, <3>1, SessionDecided
    <3>3. /\ iflogin' = [iflogin EXCEPT ![t] = FALSE]
          /\ buied_ID' = Append(buied_ID, ID[t])
      BY <1>6, <2>2 DEF server_logout
    <3> QED
      BY <1>r, <2>1, <3>2, <3>3
  <2>3. CASE info[t].res # <<"Logout successful.">>
    BY <1>4, <1>6, <2>1, <2>3 DEF server_logout
  <2> QED
    BY <2>2, <2>3
<1>7. ASSUME NEW t \in Conn, server_buy(t)
      PROVE  BuyListPaid'
  <2>1. Handle(t, {"buy"})
    BY <1>7 DEF server_buy
  <2>2. CASE info[t].res = Thanks
    <3>1. purchase(t, buf[t][2])
      BY <1>7, <2>2 DEF server_buy
    <3>2. /\ iflogin' = [iflogin EXCEPT ![t] = FALSE]
          /\ buied_ID' = <<>> \/ buied_ID' = Append(buied_ID, ID[t])
      BY <3>1, Zenon DEF purchase
    <3>3. iflogin[t]
      <4>1. pc[t] = "commit" /\ info[t].cmd[1] = "buy"
        BY <2>1 DEF Handle
      <4> QED
        BY <2>2, <4>1, SessionDecided
    <3> QED
      BY <1>r, <2>1, <3>2, <3>3
  <2>3. CASE info[t].res # Thanks
    BY <1>4, <1>7, <2>1, <2>3 DEF server_buy
  <2> QED
    BY <2>2, <2>3
<1>8. ASSUME NEW t \in Conn, server_show(t) \/ server_statics(t) \/ server_invalid(t)
      PROVE  BuyListPaid'
  BY <1>4, <1>8 DEF server_show, server_statics, server_invalid
<1>9. CASE UNCHANGED vars
  BY <1>1, <1>9
<1> QED
  BY <1>2, <1>3, <1>5, <1>6, <1>7, <1>8, <1>9 DEF Next, mask_server, Quiet

(* hw3.cpp: however the workers interleave, n lines of log have filled at  *)
(* most n / 2 rows of buied_ID, the array without a bounds check.          *)
THEOREM RowsPaid == Spec => []BuyListPaid
<1>1. Init => BuyListPaid
  <2> SUFFICES ASSUME Init PROVE BuyListPaid
    OBVIOUS
  <2>1. {t \in Conn : iflogin[t]} = {} /\ {t \in Conn : pc[t] = "log"} = {}
    BY DEF Init
  <2>2. Len(buied_ID) = 0 /\ result_index = 0
    BY DEF Init
  <2>3. Cardinality({t \in Conn : iflogin[t]}) = 0
        /\ Cardinality({t \in Conn : pc[t] = "log"}) = 0
    BY <2>1, FS_EmptySet, Zenon
  <2> QED
    BY <2>2, <2>3 DEF BuyListPaid
<1>2. IInv /\ BuyListPaid /\ [Next]_vars => BuyListPaid'
  BY PaidStep DEF IInv
<1> QED
  BY <1>1, <1>2, Invariance, PTL DEF Spec

-----------------------------------------------------------------------------
(* The mask server implements the checker's replay: for orders both read   *)
(* the same way, every log it writes is one checker.cpp accepts.           *)

(* The two computations of the check digit agree, letter by letter: the    *)
(* server's table (hw3.cpp) and the checker's offsets (checker.cpp).       *)
LEMMA LettersAgree ==
    ASSUME NEW ch \in 65..90
    PROVE  letter_y(ch) = Checker!LetterNumber(ch)
  BY DEF letter_y, Checker!LetterNumber

(* An ID the server accepts is one the checker accepts, and conversely. *)
THEOREM CheckDigitsAgree ==
    ASSUME NEW id \in IDs
    PROVE  check_ID(id) <=> Checker!judge_correction(id)
<1>1. letter_y(id[1]) = Checker!LetterNumber(id[1])
  BY IDAssumption, LettersAgree
<1>2. QED
  BY <1>1 DEF check_ID, Checker!judge_correction

(* The parity rule: "different parity" in the server, a case per parity in *)
(* the checker.                                                            *)
LEMMA DaysAgree ==
    ASSUME TypeOK, NEW id \in IDs
    PROVE  check_day_of_week(id) <=> Checker!judge_day(id) /\ id \notin Buied
<1>1. id[10] \in 0..9 /\ day \in 1..7
  BY IDAssumption DEF TypeOK
<1>2. QED
  BY <1>1 DEF check_day_of_week, Checker!judge_day

(* Who is logged in, for the checker. *)
my_id == [t \in Conn |-> IF iflogin[t] THEN ID[t] ELSE NoID]

LEMMA LoggedIn ==
    ASSUME TypeOK, Sessions, NEW t \in Conn
    PROVE  /\ iflogin[t] => my_id[t] = ID[t]
           /\ ~iflogin[t] => my_id[t] = Checker!Nobody
           /\ iflogin[t] <=> my_id[t] # Checker!Nobody
<1>1. \A id \in IDs : id # <<>>
  BY IDAssumption
<1>2. QED
  BY <1>1 DEF my_id, Sessions, NoID, Checker!Nobody, TypeOK

(* A purchase succeeds exactly when the checker demands that it does, and  *)
(* fails otherwise.                                                        *)
LEMMA PurchasesAgree ==
    ASSUME IInv, KnownOrders, NEW t \in Conn, NEW o \in Orders
    PROVE  /\ Checker!CanBuy(t, o) => buy_result(t, o) = Thanks
           /\ ~Checker!CanBuy(t, o) => buy_result(t, o) = Failed
           /\ Shop(o) = <<o.type, o.city>>
<1> USE DEF IInv
<1>1. Shop(o) = <<o.type, o.city>> /\ o.mask \in [1..3 -> Int]
  BY OrderAssumption DEF KnownOrders, Shop, city_num
<1>2. data \in [DOMAIN Inventory -> [1..3 -> Int]] /\ DOMAIN data = DOMAIN Inventory
  BY DEF TypeOK
<1>3. ASSUME Checker!CanBuy(t, o)
      PROVE  buy_result(t, o) = Thanks
  <2>1. my_id[t] # Checker!Nobody
    BY <1>3 DEF Checker!CanBuy, my_id
  <2>2. iflogin[t] /\ my_id[t] = ID[t] /\ ID[t] \in IDs
    BY <2>1, LoggedIn DEF Sessions
  <2>3. Checker!judge_day(ID[t]) /\ ID[t] \notin Buied
    BY <1>3, <2>2 DEF Checker!CanBuy, my_id
  <2>4. check_day_of_week(ID[t])
    BY <2>2, <2>3, DaysAgree
  <2>5. /\ o.mask[1] + o.mask[2] + o.mask[3] <= 3
        /\ \A k \in 1..3 : o.mask[k] >= 0
        /\ <<o.type, o.city>> \in DOMAIN data
        /\ \A k \in 1..3 : data[<<o.type, o.city>>][k] >= o.mask[k]
    BY <1>3 DEF Checker!CanBuy
  <2>6. \A k \in 1..3 : ~(o.mask[k] > 3) /\ ~(o.mask[k] < 0)
    <3>1. o.mask[1] \in Int /\ o.mask[2] \in Int /\ o.mask[3] \in Int
      BY <1>1
    <3>2. o.mask[1] >= 0 /\ o.mask[2] >= 0 /\ o.mask[3] >= 0
      BY <2>5
    <3>3. o.mask[1] <= 3 /\ o.mask[2] <= 3 /\ o.mask[3] <= 3
      BY <2>5, <3>1, <3>2
    <3>4. \A k \in 1..3 : k = 1 \/ k = 2 \/ k = 3
      OBVIOUS
    <3>5. QED
      BY <3>1, <3>2, <3>3, <3>4
  <2>7. \A k \in 1..3 : ~(data[Shop(o)][k] < o.mask[k])
    BY <1>1, <1>2, <2>5
  <2>8. ~(o.mask[1] + o.mask[2] + o.mask[3] > 3)
    BY <1>1, <2>5
  <2>9. o.type # "XXX" /\ \E sh \in DOMAIN data : sh[1] = o.type
    BY <1>2, <2>5 DEF KnownOrders
  <2>10. QED
    BY <1>1, <2>2, <2>4, <2>5, <2>6, <2>7, <2>8, <2>9 DEF buy_result
<1>4. ASSUME ~Checker!CanBuy(t, o)
      PROVE  buy_result(t, o) = Failed
  <2>1. SUFFICES ASSUME buy_result(t, o) # Failed
                 PROVE  Checker!CanBuy(t, o)
    BY <1>4
  <2>2. /\ iflogin[t] /\ check_day_of_week(ID[t]) /\ o.type # "XXX"
        /\ \A k \in 1..3 : ~(o.mask[k] > 3) /\ ~(o.mask[k] < 0)
        /\ ~(o.mask[1] + o.mask[2] + o.mask[3] > 3)
    BY <2>1 DEF buy_result
  <2>3. \E sh \in DOMAIN data : sh[1] = o.type
    BY <1>2, <2>2 DEF KnownOrders
  <2>4. /\ Shop(o) \in DOMAIN data
        /\ \A k \in 1..3 : ~(data[Shop(o)][k] < o.mask[k])
    BY <2>1, <2>2, <2>3 DEF buy_result
  <2>5. my_id[t] # Checker!Nobody /\ my_id[t] = ID[t] /\ ID[t] \in IDs
    BY <2>2, LoggedIn DEF Sessions
  <2>6. Checker!judge_day(ID[t]) /\ ID[t] \notin Buied
    BY <2>2, <2>5, DaysAgree
  <2>7. /\ o.mask[1] + o.mask[2] + o.mask[3] <= 3
        /\ \A k \in 1..3 : o.mask[k] >= 0
        /\ \A k \in 1..3 : data[Shop(o)][k] >= o.mask[k]
    BY <1>1, <1>2, <2>2, <2>4
  <2>8. QED
    BY <1>1, <2>4, <2>5, <2>6, <2>7 DEF Checker!CanBuy, my_id
<1>5. QED
  BY <1>1, <1>3, <1>4

-----------------------------------------------------------------------------
(* The lines are numbered without a gap. *)
LEMMA NumberedStep ==
    ASSUME IInv, Numbered, [Next]_vars
    PROVE  Numbered'
<1> USE DEF IInv
<1>1. ASSUME UNCHANGED <<journal, info>>,
             \A u \in Conn : pc'[u] = "log" => pc[u] = "log"
      PROVE  Numbered'
  BY <1>1 DEF Numbered
<1>2. ASSUME NEW t \in Conn, NEW W, Handle(t, W)
      PROVE  Numbered'
  <2>1. info[t] = line_of(t) /\ pc' = [pc EXCEPT ![t] = "log"]
    BY <1>2 DEF Handle, Decided
  <2>2. info[t].index = result_index
    BY <2>1, LineFields
  <2>3. QED
    BY <1>2, <2>1, <2>2 DEF Handle, Numbered, TypeOK
<1>3. ASSUME NEW t \in Conn, Log(t)
      PROVE  Numbered'
  <2>1. writeToResult'.index = result_index /\ result_index' = result_index + 1
    BY <1>3 DEF Log, Numbered
  <2>2. result_index \in Nat
    BY DEF TypeOK
  <2>3. writeToResult'.index = result_index' - 1
    BY <2>1, <2>2
  <2>4. \A u \in Conn : pc'[u] # "log"
    BY <1>3 DEF Log, TypeOK, Exclusion, Inside
  <2>5. QED
    BY <2>3, <2>4 DEF Numbered
<1>4. ASSUME NEW t \in Conn, Client(t)
      PROVE  Numbered'
  <2>1. UNCHANGED <<journal, info>>
    BY <1>4 DEF Client, Accept, Send, Receive, Close, Die
  <2>2. pc' = pc \/ pc' = [pc EXCEPT ![t] = "read"]
    BY <1>4, Zenon DEF Client, Accept, Send, Receive, Close, Die
  <2>3. QED
    BY <1>1, <2>1, <2>2 DEF TypeOK
<1>5. ASSUME NEW t \in Conn,
             Read(t) \/ ReadError(t) \/ ReadEOF(t) \/ Lock(t) \/ Unlock(t)
      PROVE  Numbered'
  <2>1. UNCHANGED <<journal, info>>
    BY <1>5 DEF Read, ReadError, ReadEOF, Lock, Unlock
  <2>2. \/ pc' = [pc EXCEPT ![t] = "lock"] \/ pc' = [pc EXCEPT ![t] = "done"]
        \/ pc' = [pc EXCEPT ![t] = "decide"] \/ pc' = [pc EXCEPT ![t] = "read"]
    BY <1>5, Zenon DEF Read, ReadError, ReadEOF, Lock, Unlock
  <2>3. QED
    BY <1>1, <2>1, <2>2 DEF TypeOK
<1>6. ASSUME NEW t \in Conn, Decide(t)
      PROVE  Numbered'
  BY <1>6 DEF Decide, Numbered, TypeOK
<1>7. CASE UNCHANGED vars
  BY <1>7 DEF Numbered
<1>8. QED
  BY <1>2, <1>3, <1>4, <1>5, <1>6, <1>7, HandlerIsHandle
  DEF Next, mask_server, Quiet

(* The line that counts, while a worker is about to append one and while   *)
(* none is.                                                                *)
LEMMA JudgedFacts ==
    ASSUME IInv
    PROVE  /\ \A t \in Conn : pc[t] = "log" => Judged = info[t]
           /\ (\A t \in Conn : pc[t] # "log") => Judged = writeToResult
<1> DEFINE L == {t \in Conn : pc[t] = "log"}
<1>1. ASSUME NEW t \in Conn, pc[t] = "log"
      PROVE  Judged = info[t]
  <2>1. \A u \in L : u = t
    BY <1>1 DEF IInv, Exclusion, Inside
  <2>2. t \in L
    BY <1>1
  <2>3. (CHOOSE u \in L : TRUE) = t
    BY <2>1, <2>2
  <2>4. QED
    BY <2>2, <2>3 DEF Judged
<1>2. ASSUME \A t \in Conn : pc[t] # "log"
      PROVE  Judged = writeToResult
  BY <1>2 DEF Judged
<1>3. QED
  BY <1>1, <1>2

(* The same facts about the next state. *)
LEMMA JudgedNext ==
    ASSUME IInv'
    PROVE  /\ \A t \in Conn : pc'[t] = "log" => Judged' = info'[t]
           /\ (\A t \in Conn : pc'[t] # "log") => Judged' = writeToResult'
<1> DEFINE L == {t \in Conn : pc'[t] = "log"}
<1>1. ASSUME NEW t \in Conn, pc'[t] = "log"
      PROVE  Judged' = info'[t]
  <2>1. \A u \in L : u = t
    BY <1>1 DEF IInv, Exclusion, Inside
  <2>2. t \in L
    BY <1>1
  <2>3. (CHOOSE u \in L : TRUE) = t
    BY <2>1, <2>2
  <2>4. QED
    BY <2>2, <2>3 DEF Judged
<1>2. ASSUME \A t \in Conn : pc'[t] # "log"
      PROVE  Judged' = writeToResult'
  BY <1>2 DEF Judged
<1>3. QED
  BY <1>1, <1>2

(* A handler that commits appends the line it decided on, and numbers it   *)
(* next.                                                                   *)
LEMMA HandlerJudged ==
    ASSUME IInv, IInv', Numbered, NEW t \in Conn, NEW W, Handle(t, W)
    PROVE  /\ Judged' = line_of(t)
           /\ Judged.index + 1 = result_index
           /\ logged_cmd(buf[t])[1] \in W
<1> USE DEF IInv
<1>1. /\ pc[t] = "commit" /\ pc' = [pc EXCEPT ![t] = "log"]
      /\ info' = info /\ info[t].cmd[1] \in W
  BY DEF Handle
<1>2. info[t] = line_of(t)
  BY <1>1 DEF Decided
<1>3. pc'[t] = "log"
  BY <1>1 DEF TypeOK
<1>4. Judged' = info'[t]
  BY <1>3, JudgedNext
<1>5. \A u \in Conn : pc[u] # "log"
  BY <1>1 DEF Exclusion, Inside
<1>6. Judged = writeToResult
  BY <1>5, JudgedFacts
<1>7. result_index \in Nat
  BY DEF TypeOK
<1>8. QED
  BY <1>1, <1>2, <1>4, <1>6, <1>7, LineFields DEF Numbered

LEMMA HandlerLine ==
    ASSUME IInv, IInv', Numbered, NEW t \in Conn, NEW W, Handle(t, W)
    PROVE  Checker!Judge(t, logged_cmd(buf[t]), result_of(t, buf[t]))
  BY HandlerJudged DEF line_of, Checker!Judge

-----------------------------------------------------------------------------
(* What the checker sees of a step that commits no command: nothing. *)
LEMMA Unseen ==
    ASSUME IInv, IInv', UNCHANGED <<db, session>>, Judged' = Judged
    PROVE  UNCHANGED Checker!vars
  BY DEF Checker!vars, Buied

LEMMA SilentStep ==
    ASSUME IInv, IInv', NEW t \in Conn,
           \/ Client(t) \/ Read(t) \/ ReadError(t) \/ ReadEOF(t)
           \/ Lock(t) \/ Decide(t) \/ Log(t) \/ Unlock(t)
    PROVE  UNCHANGED Checker!vars
<1> USE DEF IInv
<1>1. UNCHANGED <<db, session>>
  BY OtherStep
<1>2. ASSUME writeToResult' = writeToResult,
             \A u \in Conn : pc'[u] = "log" <=> pc[u] = "log",
             \A u \in Conn : pc[u] = "log" => info'[u] = info[u]
      PROVE  Judged' = Judged
  <2>1. CASE \E u \in Conn : pc[u] = "log"
    BY <1>2, <2>1, JudgedFacts, JudgedNext
  <2>2. CASE \A u \in Conn : pc[u] # "log"
    BY <1>2, <2>2, JudgedFacts, JudgedNext
  <2>3. QED
    BY <2>1, <2>2
<1>3. CASE Client(t)
  <2>1. UNCHANGED <<writeToResult, info>>
    BY <1>3 DEF Client, Accept, Send, Receive, Close, Die
  <2>2. pc' = pc \/ (pc[t] = "none" /\ pc' = [pc EXCEPT ![t] = "read"])
    BY <1>3, Zenon DEF Client, Accept, Send, Receive, Close, Die
  <2>3. \A u \in Conn : pc'[u] = "log" <=> pc[u] = "log"
    BY <2>2 DEF TypeOK
  <2>4. QED
    BY <1>1, <1>2, <2>1, <2>3, Unseen
<1>4. CASE Read(t) \/ ReadError(t) \/ ReadEOF(t) \/ Lock(t) \/ Unlock(t)
  <2>1. UNCHANGED <<writeToResult, info>>
    BY <1>4 DEF Read, ReadError, ReadEOF, Lock, Unlock
  <2>2. /\ pc[t] # "log"
        /\ \/ pc' = [pc EXCEPT ![t] = "lock"] \/ pc' = [pc EXCEPT ![t] = "done"]
           \/ pc' = [pc EXCEPT ![t] = "decide"] \/ pc' = [pc EXCEPT ![t] = "read"]
    BY <1>4 DEF Read, ReadError, ReadEOF, Lock, Unlock
  <2>3. \A u \in Conn : pc'[u] = "log" <=> pc[u] = "log"
    BY <2>2 DEF TypeOK
  <2>4. QED
    BY <1>1, <1>2, <2>1, <2>3, Unseen
<1>5. CASE Decide(t)
  <2>1. /\ pc[t] = "decide" /\ pc' = [pc EXCEPT ![t] = "commit"]
        /\ writeToResult' = writeToResult
        /\ info' = [info EXCEPT ![t] = line_of(t)]
    BY <1>5 DEF Decide
  <2>2. \A u \in Conn : pc'[u] = "log" <=> pc[u] = "log"
    BY <2>1 DEF TypeOK
  <2>3. \A u \in Conn : pc[u] = "log" => info'[u] = info[u]
    BY <2>1 DEF TypeOK
  <2>4. QED
    BY <1>1, <1>2, <2>1, <2>2, <2>3, Unseen
<1>6. CASE Log(t)
  <2>1. /\ pc[t] = "log" /\ pc' = [pc EXCEPT ![t] = "unlock"]
        /\ writeToResult' = info[t]
    BY <1>6 DEF Log
  <2>2. \A u \in Conn : pc'[u] # "log"
    BY <2>1 DEF TypeOK, Exclusion, Inside
  <2>3. Judged = info[t] /\ Judged' = writeToResult'
    BY <2>1, <2>2, JudgedFacts, JudgedNext
  <2>4. QED
    BY <1>1, <2>1, <2>3, Unseen
<1>7. QED
  BY <1>3, <1>4, <1>5, <1>6

(* A command of one word, as the line holds it. *)
LEMMA WordShape ==
    ASSUME NEW c \in Cmds \cup {Blank}
    PROVE  /\ \A w \in {"show", "logout", "statics"} :
                 logged_cmd(c)[1] = w => c[1] = w /\ logged_cmd(c) = <<w>>
           /\ logged_cmd(c)[1] = "exit"
                => /\ logged_cmd(c) = <<"exit">>
                   /\ c[1] \notin {"show", "login", "logout", "buy", "statics"}
<1>1. CASE c = Blank
  BY <1>1 DEF Blank, logged_cmd
<1>2. CASE \E w \in Plain : c = <<w>>
  <2>1. PICK w \in Plain : c = <<w>>
    BY <1>2
  <2>2. CASE w \in {"show", "logout", "statics"}
    BY <2>1, <2>2 DEF logged_cmd
  <2>3. CASE w \notin {"show", "logout", "statics"}
    <3>1. c[1] \notin {"show", "login", "logout", "buy", "statics"}
      BY <2>1, <2>3, PlainAssumption
    <3>2. logged_cmd(c) = <<"exit">>
      BY <3>1, Zenon DEF logged_cmd
    <3>3. QED
      BY <3>1, <3>2
  <2>4. QED
    BY <2>2, <2>3
<1>3. CASE \E id \in IDs : c = <<"login", id>>
  BY <1>3 DEF logged_cmd
<1>4. CASE \E o \in Orders : c = <<"buy", o>>
  BY <1>4 DEF logged_cmd
<1>5. QED
  BY <1>1, <1>2, <1>3, <1>4 DEF Cmds

(* A command with an argument, as the line holds it. *)
LEMMA ArgumentShape ==
    ASSUME NEW c \in Cmds \cup {Blank}
    PROVE  /\ logged_cmd(c)[1] = "login"
                => \E id \in IDs : c = <<"login", id>> /\ logged_cmd(c) = c
           /\ logged_cmd(c)[1] = "buy"
                => \E o \in Orders : c = <<"buy", o>> /\ logged_cmd(c) = c
<1>1. /\ logged_cmd(c)[1] = "login" => c[1] = "login" /\ logged_cmd(c) = c
      /\ logged_cmd(c)[1] = "buy" => c[1] = "buy" /\ logged_cmd(c) = c
  BY CmdShape DEF logged_cmd
<1>2. QED
  BY <1>1, CmdShape

(* The three handlers that read only. *)
LEMMA ReadersRefine ==
    ASSUME IInv, IInv', Numbered, NEW t \in Conn,
           server_show(t) \/ server_statics(t) \/ server_invalid(t)
    PROVE  Checker!Show(t) \/ Checker!Statics(t) \/ Checker!Other(t)
<1>1. UNCHANGED <<day, alcohol, data, buied_ID, iflogin, ID>>
  BY OtherStep
<1>2. buf[t] \in Cmds \cup {Blank}
  BY DEF IInv, TypeOK
<1>3. CASE server_show(t)
  <2>1. Handle(t, {"show"})
    BY <1>3 DEF server_show
  <2>2. buf[t][1] = "show" /\ logged_cmd(buf[t]) = <<"show">>
    BY <1>2, <2>1, HandlerJudged, WordShape
  <2>3. result_of(t, buf[t]) = <<"show", data>>
    BY <2>2, ResultOf
  <2>4. Checker!Judge(t, <<"show">>, <<"show", data>>)
    BY <2>1, <2>2, <2>3, HandlerLine
  <2>5. QED
    BY <1>1, <2>4 DEF Checker!Show, Buied
<1>4. CASE server_statics(t)
  <2>1. Handle(t, {"statics"})
    BY <1>4 DEF server_statics
  <2>2. buf[t][1] = "statics" /\ logged_cmd(buf[t]) = <<"statics">>
    BY <1>2, <2>1, HandlerJudged, WordShape
  <2>3. result_of(t, buf[t]) = <<"statics", alcohol>>
    BY <2>2, ResultOf
  <2>4. Checker!Judge(t, <<"statics">>, <<"statics", alcohol>>)
    BY <2>1, <2>2, <2>3, HandlerLine
  <2>5. QED
    BY <1>1, <2>4 DEF Checker!Statics, Buied
<1>5. CASE server_invalid(t)
  <2>1. Handle(t, {"exit"})
    BY <1>5 DEF server_invalid
  <2>2. /\ logged_cmd(buf[t]) = <<"exit">>
        /\ buf[t][1] \notin {"show", "login", "logout", "buy", "statics"}
    BY <1>2, <2>1, HandlerJudged, WordShape
  <2>3. result_of(t, buf[t]) = <<"Input format not valid.">>
    BY <2>2, ResultOf
  <2>4. Checker!Judge(t, <<"exit">>, <<"Input format not valid.">>)
    BY <2>1, <2>2, <2>3, HandlerLine
  <2>5. QED
    BY <1>1, <2>4 DEF Checker!Other, Buied
<1>6. QED
  BY <1>3, <1>4, <1>5

(* A login. *)
LEMMA LoginRefines ==
    ASSUME IInv, IInv', Numbered, NEW t \in Conn, server_login(t)
    PROVE  \E id \in IDs : Checker!Login(t, id)
<1>1. Handle(t, {"login"}) /\ UNCHANGED <<day, alcohol, data, buied_ID>>
  BY DEF server_login
<1>2. PICK id \in IDs : buf[t] = <<"login", id>> /\ logged_cmd(buf[t]) = buf[t]
  <2>1. buf[t] \in Cmds \cup {Blank}
    BY DEF IInv, TypeOK
  <2>2. QED
    BY <1>1, <2>1, HandlerJudged, ArgumentShape
<1>3. result_of(t, buf[t]) = login_result(t, id) /\ buf[t][2] = id
  <2>1. buf[t][1] = "login" /\ buf[t][2] = id
    BY <1>2
  <2>2. QED
    BY <2>1, ResultOf
<1>4. Checker!Judge(t, <<"login", id>>, login_result(t, id))
  BY <1>1, <1>2, <1>3, HandlerLine
<1>5. info[t].res = login_result(t, id)
  BY <1>1, <1>3, LineFields DEF Handle, IInv, Decided
<1>6. check_ID(id) <=> Checker!judge_correction(id)
  BY CheckDigitsAgree
<1>7. iflogin[t] <=> my_id[t] # Checker!Nobody
  BY LoggedIn DEF IInv
<1>8. Buied' = Buied
  BY <1>1 DEF Buied
<1>9. CASE ~iflogin[t] /\ check_ID(id)
  <2>1. login_result(t, id) = <<"Login successful.">>
    BY <1>9, Zenon DEF login_result
  <2>2. iflogin' = [iflogin EXCEPT ![t] = TRUE] /\ ID' = [ID EXCEPT ![t] = id]
    BY <1>3, <1>5, <2>1, Zenon DEF server_login
  <2>3. my_id' = [my_id EXCEPT ![t] = id]
    BY <2>2 DEF my_id, IInv, TypeOK
  <2>4. QED
    BY <1>1, <1>4, <1>6, <1>7, <1>8, <1>9, <2>1, <2>3 DEF Checker!Login, my_id
<1>10. CASE ~(~iflogin[t] /\ check_ID(id))
  <2>1. login_result(t, id) = <<"Login failed.">>
    BY <1>10, Zenon DEF login_result
  <2>2. UNCHANGED <<iflogin, ID>>
    <3>1. <<"Login failed.">> # <<"Login successful.">>
      OBVIOUS
    <3>2. QED
      BY <1>5, <2>1, <3>1 DEF server_login
  <2>3. my_id' = my_id
    BY <2>2 DEF my_id
  <2>4. QED
    BY <1>1, <1>4, <1>6, <1>7, <1>8, <1>10, <2>1, <2>3 DEF Checker!Login, my_id
<1>11. QED
  BY <1>9, <1>10

(* A logout. *)
LEMMA LogoutRefines ==
    ASSUME IInv, IInv', Numbered, NEW t \in Conn, server_logout(t)
    PROVE  Checker!Logout(t)
<1>1. Handle(t, {"logout"}) /\ UNCHANGED <<day, alcohol, data, ID>>
  BY DEF server_logout
<1>2. buf[t][1] = "logout" /\ logged_cmd(buf[t]) = <<"logout">>
  <2>1. buf[t] \in Cmds \cup {Blank}
    BY DEF IInv, TypeOK
  <2>2. QED
    BY <1>1, <2>1, HandlerJudged, WordShape
<1>3. result_of(t, buf[t]) = logout_result(t)
  BY <1>2, ResultOf
<1>4. Checker!Judge(t, <<"logout">>, logout_result(t))
  BY <1>1, <1>2, <1>3, HandlerLine
<1>5. info[t].res = logout_result(t)
  BY <1>1, <1>3, LineFields DEF Handle, IInv, Decided
<1>6. /\ iflogin[t] <=> my_id[t] # Checker!Nobody
      /\ iflogin[t] => my_id[t] = ID[t] /\ ID[t] \in IDs
  BY LoggedIn DEF IInv, Sessions
<1>7. CASE iflogin[t]
  <2>1. logout_result(t) = <<"Logout successful.">>
    BY <1>7, Zenon DEF logout_result
  <2>2. /\ iflogin' = [iflogin EXCEPT ![t] = FALSE]
        /\ buied_ID' = Append(buied_ID, ID[t])
    BY <1>5, <2>1, Zenon DEF server_logout
  <2>3. my_id' = [my_id EXCEPT ![t] = Checker!Nobody]
    BY <1>1, <2>2 DEF my_id, IInv, TypeOK, NoID, Checker!Nobody
  <2>4. Buied' = Buied \cup {my_id[t]}
    BY <1>6, <1>7, <2>2, BuiedAppend DEF IInv
  <2>5. QED
    BY <1>1, <1>4, <1>6, <1>7, <2>1, <2>3, <2>4 DEF Checker!Logout, my_id
<1>8. CASE ~iflogin[t]
  <2>1. logout_result(t) = <<"Logout failed.">>
    BY <1>8, Zenon DEF logout_result
  <2>2. UNCHANGED <<iflogin, buied_ID>>
    <3>1. <<"Logout failed.">> # <<"Logout successful.">>
      OBVIOUS
    <3>2. QED
      BY <1>5, <2>1, <3>1 DEF server_logout
  <2>3. my_id' = my_id /\ Buied' = Buied
    BY <1>1, <2>2 DEF my_id, Buied
  <2>4. QED
    BY <1>1, <1>4, <1>6, <1>8, <2>1, <2>3 DEF Checker!Logout, my_id
<1>9. QED
  BY <1>7, <1>8

(* A purchase. *)
LEMMA BuyRefines ==
    ASSUME KnownOrders, IInv, IInv', Numbered, NEW t \in Conn, server_buy(t)
    PROVE  \E o \in Orders : Checker!Buy(t, o)
<1>1. Handle(t, {"buy"}) /\ UNCHANGED ID
  BY DEF server_buy
<1>2. PICK o \in Orders : buf[t] = <<"buy", o>> /\ logged_cmd(buf[t]) = buf[t]
  <2>1. buf[t] \in Cmds \cup {Blank}
    BY DEF IInv, TypeOK
  <2>2. QED
    BY <1>1, <2>1, HandlerJudged, ArgumentShape
<1>3. result_of(t, buf[t]) = buy_result(t, o) /\ buf[t][2] = o
  <2>1. buf[t][1] = "buy" /\ buf[t][2] = o
    BY <1>2
  <2>2. QED
    BY <2>1, ResultOf
<1>4. Checker!Judge(t, <<"buy", o>>, buy_result(t, o))
  BY <1>1, <1>2, <1>3, HandlerLine
<1>5. info[t].res = buy_result(t, o)
  BY <1>1, <1>3, LineFields DEF Handle, IInv, Decided
<1>6. /\ Checker!CanBuy(t, o) => buy_result(t, o) = Thanks
      /\ ~Checker!CanBuy(t, o) => buy_result(t, o) = Failed
      /\ Shop(o) = <<o.type, o.city>>
  BY PurchasesAgree
<1>7. CASE Checker!CanBuy(t, o)
  <2>1. purchase(t, o)
    BY <1>3, <1>5, <1>6, <1>7 DEF server_buy
  <2>2. /\ data' = [data EXCEPT ![<<o.type, o.city>>] =
                       [k \in 1..3 |-> @[k] - o.mask[k]]]
        /\ alcohol' = IF alcohol - 1 < 5 THEN Capacity ELSE alcohol - 1
        /\ iflogin' = [iflogin EXCEPT ![t] = FALSE]
    BY <1>6, <2>1, Zenon DEF purchase
  <2>3. my_id[t] = ID[t] /\ ID[t] \in IDs
    <3>1. my_id[t] # Checker!Nobody
      BY <1>7 DEF Checker!CanBuy, my_id
    <3>2. QED
      BY <3>1, LoggedIn DEF IInv, Sessions
  <2>4. my_id' = [my_id EXCEPT ![t] = Checker!Nobody]
    BY <1>1, <2>2 DEF my_id, IInv, TypeOK, NoID, Checker!Nobody
  <2>5. IF day + 1 > 7
        THEN day' = 1 /\ Buied' = {}
        ELSE day' = day + 1 /\ Buied' = Buied \cup {my_id[t]}
    <3>1. day \in 1..7
      BY DEF IInv, TypeOK
    <3>2. CASE day + 1 = 8
      <4>1. day' = 1 /\ buied_ID' = <<>>
        BY <2>1, <3>2, Zenon DEF purchase
      <4>2. Buied' = {}
        BY <4>1 DEF Buied
      <4>3. QED
        BY <3>1, <3>2, <4>1, <4>2
    <3>3. CASE day + 1 # 8
      <4>1. day' = day + 1 /\ buied_ID' = Append(buied_ID, ID[t])
        BY <2>1, <3>3, Zenon DEF purchase
      <4>2. Buied' = Buied \cup {my_id[t]}
        BY <2>3, <4>1, BuiedAppend DEF IInv
      <4>3. QED
        BY <3>1, <3>3, <4>1, <4>2
    <3>4. QED
      BY <3>2, <3>3
  <2>6. Checker!Judge(t, <<"buy", o>>, <<"Thank you for your purchase.">>)
    BY <1>4, <1>6, <1>7 DEF Thanks
  <2>7. QED
    BY <1>7, <2>2, <2>4, <2>5, <2>6 DEF Checker!Buy, my_id
<1>8. CASE ~Checker!CanBuy(t, o)
  <2>1. UNCHANGED <<day, alcohol, data, buied_ID, iflogin, ID>>
    <3>1. Failed # Thanks
      BY DEF Failed, Thanks
    <3>2. QED
      BY <1>5, <1>6, <1>8, <3>1 DEF server_buy
  <2>2. my_id' = my_id /\ Buied' = Buied
    BY <2>1 DEF my_id, Buied
  <2>3. Checker!Judge(t, <<"buy", o>>, <<"Buy failed.">>)
    BY <1>4, <1>6, <1>8 DEF Failed
  <2>4. QED
    BY <1>8, <2>1, <2>2, <2>3 DEF Checker!Buy, my_id
<1>9. QED
  BY <1>7, <1>8

-----------------------------------------------------------------------------
(* The log of the server is accepted by the checker: with orders both read *)
(* the same way, every behaviour of the server, with any number of         *)
(* concurrent clients, replays one command at a time.                      *)
THEOREM LogAccepted == ASSUME KnownOrders PROVE Spec => CheckerAccepts
<1>1. Init => Checker!Init /\ Numbered
  <2> SUFFICES ASSUME Init PROVE Checker!Init /\ Numbered
    OBVIOUS
  <2>1. Judged = NoLine
    BY DEF Init, Judged
  <2>2. Buied = {} /\ [t \in Conn |-> IF iflogin[t] THEN ID[t] ELSE NoID]
                       = [t \in Conn |-> Checker!Nobody]
    BY DEF Init, Buied, NoID, Checker!Nobody
  <2>3. Numbered
    BY DEF Init, Numbered, NoLine
  <2>4. QED
    BY <2>1, <2>2, <2>3 DEF Init, Checker!Init, Checker!NoLine, NoLine
<1>2. IInv /\ IInv' /\ Numbered /\ [Next]_vars
        => [Checker!Next]_(Checker!vars) /\ Numbered'
  <2> SUFFICES ASSUME IInv, IInv', Numbered, [Next]_vars
               PROVE  [Checker!Next]_(Checker!vars)
    BY NumberedStep
  <2>1. ASSUME NEW t \in Conn, Client(t) \/ mask_server(t)
        PROVE  Checker!Next \/ UNCHANGED Checker!vars
    BY <2>1, SilentStep, ReadersRefine, LoginRefines, LogoutRefines, BuyRefines
    DEF mask_server, Checker!Next
  <2>2. CASE UNCHANGED vars
    <3>1. Judged' = Judged
      BY <2>2 DEF Judged
    <3>2. QED
      BY <2>2, <3>1, Unseen
  <2>3. QED
    BY <2>1, <2>2 DEF Next, Quiet
<1>3. QED
  BY <1>1, <1>2, Invariance, PTL DEF Spec, Checker!Spec, CheckerAccepts
=============================================================================
