---------------------------- MODULE MaskShutdown ----------------------------
(***************************************************************************)
(* Stopping the mask server of homework 3: exit_handler of hw3.cpp, run on *)
(* SIGINT while workers handle commands.  It closes the listening socket,  *)
(* writes the log to result.txt, sorts and prints the inventory under the  *)
(* mutex and destroys the mutex.  It does not exit: back in main, accept   *)
(* fails on the closed socket and main exits.                              *)
(*                                                                         *)
(* SIGINT goes to main, and while main is in the handler to any worker.    *)
(* checker.cpp asks the user to stop the server when all its commands are  *)
(* answered, and then replays result.txt.                                  *)
(*                                                                         *)
(* A command is a purchase of one mask in the city of a row, or another    *)
(* one; MaskServer has the handlers in full.  exit_handler destroys the    *)
(* mutex while workers may still run, so what the mutex made one step, the *)
(* sale of a mask and the line in the log, is taken apart here.            *)
(***************************************************************************)
EXTENDS InventorySort, SequencesExt

CONSTANTS Conn,        \* the workers, each with its client
          Main,        \* the thread of main
          Free,        \* the mutex is not held
          Orders,      \* rows that purchases name
          work_num,    \* commands a client sends
          MaxSignals   \* bound: SIGINTs sent

VARIABLES
    pc, buf,           \* of a worker: where it is, the command it handles
    count, text,       \* of a worker: the stock it read, the log it put together
    req, left, idle,   \* of a client: command sent, commands left, answered
    writeToResult,     \* the log: what every command sold
    inventory,         \* inventory.txt: masks of each city, never written
    result,            \* result.txt
    saved,             \* result is closed
    mutex, destroyed, sockfd, running,
    hpc,               \* of a thread: where it is in exit_handler
    sigint, signals,   \* SIGINT is pending; how many were sent
    (* history: at the first SIGINT, the lines in the log and whether all  *)
    (* commands were done; the first table printed and the log at that time *)
    before, quiet, first

worker  == <<pc, buf, count, text>>
client  == <<req, left, idle>>
files   == <<result, saved>>
lock    == <<mutex, destroyed>>
signal  == <<sigint, signals>>
history == <<inventory, before, quiet, first>>
vars    == <<data, sort, worker, client, writeToResult, files, lock, sockfd,
             running, hpc, signal, history>>

ASSUME OrdersAssumption == Orders \subseteq Rows
ASSUME ThreadAssumption == Main \notin Conn /\ Free \notin Conn \cup {Main}
ASSUME WorkAssumption == work_num \in Nat /\ MaxSignals \in Nat

Threads == Conn \cup {Main}
Other   == -1            \* a command that sells nothing
NoCmd   == -2
Cmds    == Orders \cup {Other}
Nothing == 0             \* in the log: no city sold
Torn    == <<-1>>        \* the log, or result.txt, after a data race on the string
NoTable == [rows |-> <<>>, log |-> <<NoCmd>>]

Runs(t) == running /\ hpc[t] = "none"

-----------------------------------------------------------------------------
(* main accepts, clients send. *)
Accept(t) ==
    /\ Runs(Main) /\ sockfd /\ pc[t] = "none"
    /\ pc' = [pc EXCEPT ![t] = "read"]
    /\ UNCHANGED <<data, sort, buf, count, text, client, writeToResult, files, lock,
                   sockfd, running, hpc, signal, history>>

Send(t, c) ==
    /\ running /\ pc[t] # "none" /\ idle[t] /\ left[t] > 0
    /\ req' = [req EXCEPT ![t] = c]
    /\ left' = [left EXCEPT ![t] = @ - 1]
    /\ idle' = [idle EXCEPT ![t] = FALSE]
    /\ UNCHANGED <<data, sort, worker, writeToResult, files, lock, sockfd,
                   running, hpc, signal, history>>

-----------------------------------------------------------------------------
(* mask_server: read, lock, handle and answer, append the line, unlock. *)
Read(t) ==
    /\ Runs(t) /\ pc[t] = "read" /\ req[t] # NoCmd
    /\ buf' = [buf EXCEPT ![t] = req[t]]
    /\ req' = [req EXCEPT ![t] = NoCmd]
    /\ pc' = [pc EXCEPT ![t] = "lock"]
    /\ UNCHANGED <<data, sort, count, text, left, idle, writeToResult, files, lock,
                   sockfd, running, hpc, signal, history>>

(* pthread_mutex_lock: a destroyed mutex is refused (EINVAL) and the       *)
(* caller goes on without it; who waits already gets it when it is free.   *)
Acquire(t, at, wait, next) ==
    \/ /\ at = "lock" /\ destroyed
       /\ next /\ UNCHANGED mutex
    \/ /\ mutex = Free /\ (at = "lock" => ~destroyed)
       /\ next /\ mutex' = t
    \/ /\ at = "lock" /\ mutex # Free /\ ~destroyed
       /\ wait /\ UNCHANGED mutex

(* Mutant: the worker does not wait for the mutex. *)
Lock_Skipped(t) ==
    /\ Runs(t) /\ pc[t] = "lock"
    /\ pc' = [pc EXCEPT ![t] = "handle"]
    /\ UNCHANGED <<data, sort, buf, count, text, client, writeToResult, files, lock,
                   sockfd, running, hpc, signal, history>>

Lock(t) ==
    /\ Runs(t) /\ pc[t] \in {"lock", "wait"}
    /\ Acquire(t, pc[t], pc' = [pc EXCEPT ![t] = "wait"],
                         pc' = [pc EXCEPT ![t] = "handle"])
    /\ UNCHANGED <<data, sort, buf, count, text, client, writeToResult, files,
                   destroyed, sockfd, running, hpc, signal, history>>

(* A purchase goes by the row, which is the city only before a sort. *)
Sells(t) == buf[t] # Other /\ data[buf[t]].stock > 0

(* Mutant: a refused purchase leaves its command where the line is taken from. *)
Handle_Stale(t) ==
    /\ Runs(t) /\ pc[t] = "handle"
    /\ \/ /\ Sells(t)
          /\ pc' = [pc EXCEPT ![t] = "load"]
          /\ UNCHANGED idle
       \/ /\ ~Sells(t)
          /\ idle' = [idle EXCEPT ![t] = TRUE]
          /\ pc' = [pc EXCEPT ![t] = "log"]
    /\ UNCHANGED <<data, sort, buf, count, text, req, left, writeToResult, files, lock,
                   sockfd, running, hpc, signal, history>>

(* A command that sells nothing is answered; a purchase goes on. *)
Handle(t) ==
    /\ Runs(t) /\ pc[t] = "handle"
    /\ \/ /\ Sells(t)
          /\ pc' = [pc EXCEPT ![t] = "load"]
          /\ UNCHANGED <<buf, idle>>
       \/ /\ ~Sells(t)
          /\ buf' = [buf EXCEPT ![t] = Nothing]
          /\ idle' = [idle EXCEPT ![t] = TRUE]
          /\ pc' = [pc EXCEPT ![t] = "log"]
    /\ UNCHANGED <<data, sort, count, text, req, left, writeToResult, files, lock,
                   sockfd, running, hpc, signal, history>>

(* data[i][city_num-1].a -= ...: a load and a store.  The build may use    *)
(* the count it checked or read it again.                                  *)
Load(t) ==
    /\ Runs(t) /\ pc[t] = "load"
    /\ count' = [count EXCEPT ![t] = data[buf[t]].stock]
    /\ pc' = [pc EXCEPT ![t] = "sell"]
    /\ UNCHANGED <<data, sort, buf, text, client, writeToResult, files, lock, sockfd,
                   running, hpc, signal, history>>

Sell(t) ==
    /\ Runs(t) /\ pc[t] = "sell"
    /\ data' = [data EXCEPT ![buf[t]].stock = count[t] - 1]
    /\ count' = [count EXCEPT ![t] = 0]
    /\ buf' = [buf EXCEPT ![t] = buf[t] + 1]
    /\ idle' = [idle EXCEPT ![t] = TRUE]
    /\ pc' = [pc EXCEPT ![t] = "log"]
    /\ UNCHANGED <<sort, text, req, left, writeToResult, files, lock, sockfd, running,
                   hpc, signal, history>>

(* writeToResult = writeToResult + ...: the sum is a string of its own,    *)
(* which is then moved to writeToResult.  The line holds the city sold.    *)
Log(t) ==
    /\ Runs(t) /\ pc[t] = "log"
    /\ text' = [text EXCEPT ![t] = IF writeToResult = Torn THEN Torn
                                   ELSE Append(writeToResult, buf[t])]
    /\ pc' = [pc EXCEPT ![t] = "assign"]
    /\ UNCHANGED <<data, sort, buf, count, client, writeToResult, files, lock, sockfd,
                   running, hpc, signal, history>>

(* Another worker reads or moves the string at this moment, which only     *)
(* one without the mutex does: the build may free it twice or read what is *)
(* freed.                                                                  *)
Clashes(t) == \E u \in Conn \ {t} : pc[u] \in {"log", "assign"}

Assign(t) ==
    /\ Runs(t) /\ pc[t] = "assign"
    /\ \/ writeToResult' = text[t] /\ UNCHANGED running
       \/ Clashes(t) /\ writeToResult' = Torn /\ running' \in BOOLEAN
    /\ text' = [text EXCEPT ![t] = <<>>]
    /\ pc' = [pc EXCEPT ![t] = "unlock"]
    /\ UNCHANGED <<data, sort, buf, count, client, files, lock, sockfd, hpc, signal,
                   history>>

(* pthread_mutex_unlock of a destroyed mutex is refused as well. *)
Released(t) == IF mutex = t /\ ~destroyed THEN Free ELSE mutex

(* Mutant: the mutex is kept when nothing was sold. *)
Unlock_Sold(t) ==
    /\ Runs(t) /\ pc[t] = "unlock"
    /\ mutex' = IF buf[t] = Nothing THEN mutex ELSE Released(t)
    /\ buf' = [buf EXCEPT ![t] = NoCmd]
    /\ pc' = [pc EXCEPT ![t] = "read"]
    /\ UNCHANGED <<data, sort, count, text, client, writeToResult, files, destroyed,
                   sockfd, running, hpc, signal, history>>

Unlock(t) ==
    /\ Runs(t) /\ pc[t] = "unlock"
    /\ mutex' = Released(t)
    /\ buf' = [buf EXCEPT ![t] = NoCmd]
    /\ pc' = [pc EXCEPT ![t] = "read"]
    /\ UNCHANGED <<data, sort, count, text, client, writeToResult, files, destroyed,
                   sockfd, running, hpc, signal, history>>

-----------------------------------------------------------------------------
(* The user presses Ctrl-C.  A signal that is pending already is lost.     *)
Interrupt ==
    /\ running /\ signals < MaxSignals
    /\ sigint' = TRUE
    /\ signals' = signals + 1
    /\ UNCHANGED <<data, sort, worker, client, writeToResult, files, lock, sockfd,
                   running, hpc, history>>

(* No command is being handled and none will come. *)
AllDone == \A t \in Conn : pc[t] = "none" \/ (pc[t] = "read" /\ left[t] = 0 /\ idle[t])

(* Linux takes main unless it is in the handler, which blocks SIGINT;     *)
(* then any worker that is not.                                            *)
Deliver(h) ==
    /\ sigint /\ Runs(h)
    /\ h = Main \/ (hpc[Main] # "none" /\ pc[h] # "none")
    /\ sigint' = FALSE
    /\ hpc' = [hpc EXCEPT ![h] = "close"]
    /\ IF before = -1
       THEN before' = Len(writeToResult) /\ quiet' = AllDone
       ELSE UNCHANGED <<before, quiet>>
    /\ UNCHANGED <<data, sort, worker, client, writeToResult, files, lock, sockfd,
                   running, signals, inventory, first>>

InHandler(h, at, next) ==
    /\ running /\ hpc[h] = at
    /\ hpc' = [hpc EXCEPT ![h] = next]
    /\ UNCHANGED <<worker, client, writeToResult, signal>>

(* Mutant: the socket stays open. *)
CloseSocket_Forgotten(h) ==
    /\ InHandler(h, "close", "file")
    /\ UNCHANGED <<data, sort, files, lock, sockfd, running, history>>

CloseSocket(h) ==
    /\ InHandler(h, "close", "file")
    /\ sockfd' = FALSE
    /\ UNCHANGED <<data, sort, files, lock, running, history>>

(* Someone assigns to the string, or writes to the stream, at this moment. *)
Races(h) == \/ \E t \in Conn : pc[t] = "assign"
            \/ \E g \in Threads \ {h} : hpc[g] = "file"

(* Mutant: the stream is not closed. *)
WriteFile_Again(h) ==
    /\ InHandler(h, "file", "lock")
    /\ saved' = TRUE
    /\ result' = result \o writeToResult
    /\ UNCHANGED <<data, sort, lock, sockfd, running, history>>

(* result << writeToResult; result.close().  In a race the build may read  *)
(* a string that is being moved or freed: anything may be written, or the  *)
(* process killed.  A second call finds the stream closed.                 *)
WriteFile(h) ==
    /\ InHandler(h, "file", "lock")
    /\ saved' = TRUE
    /\ \/ /\ result' = IF saved THEN result ELSE writeToResult
          /\ UNCHANGED running
       \/ /\ Races(h) /\ ~saved
          /\ result' = Torn /\ running' \in BOOLEAN
    /\ UNCHANGED <<data, sort, lock, sockfd, history>>

(* Mutant: the handler does not take the mutex. *)
HandlerLock_Skipped(h) ==
    /\ hpc[h] \in {"lock", "wait"}
    /\ InHandler(h, hpc[h], "sort") /\ UNCHANGED mutex
    /\ UNCHANGED <<data, sort, files, destroyed, sockfd, running, history>>

HandlerLock(h) ==
    /\ hpc[h] \in {"lock", "wait"}
    /\ Acquire(h, hpc[h], InHandler(h, "lock", "wait"), InHandler(h, hpc[h], "sort"))
    /\ UNCHANGED <<data, sort, files, destroyed, sockfd, running, history>>

SortStep(h) ==
    /\ InHandler(h, "sort", "sort")
    /\ SumRows \/ While \/ For
    /\ UNCHANGED <<files, lock, sockfd, running, history>>

PrintTable(h) ==
    /\ InHandler(h, "sort", "unlock")
    /\ PrintRows
    /\ first' = IF first = NoTable THEN [rows |-> table', log |-> writeToResult]
                                   ELSE first
    /\ UNCHANGED <<files, lock, sockfd, running, inventory, before,
                   quiet>>

(* server_sort has returned. *)
HandlerUnlock(h) ==
    /\ InHandler(h, "unlock", "destroy")
    /\ mutex' = Released(h)
    /\ spc' = "idle"
    /\ UNCHANGED <<data, toIndex, j, table, total, files, destroyed, sockfd,
                   running, history>>

(* pthread_mutex_destroy of a mutex that is held is refused (EBUSY). *)
Destroy(h) ==
    /\ InHandler(h, "destroy", "none")
    /\ destroyed' = (destroyed \/ mutex = Free)
    /\ UNCHANGED <<data, sort, files, mutex, sockfd, running, history>>

exit_handler(h) ==
    \/ CloseSocket(h) \/ WriteFile(h) \/ HandlerLock(h) \/ SortStep(h)
    \/ PrintTable(h) \/ HandlerUnlock(h) \/ Destroy(h)

(* accept returns -1 and main calls exit. *)
AcceptFails ==
    /\ Runs(Main) /\ ~sockfd
    /\ running' = FALSE
    /\ UNCHANGED <<data, sort, worker, client, writeToResult, files, lock, sockfd,
                   hpc, signal, history>>

-----------------------------------------------------------------------------
Init ==
    /\ SortInit
    /\ inventory = [l \in Lines |-> data[l - 1].stock]
    /\ pc = [t \in Conn |-> "none"]
    /\ buf = [t \in Conn |-> NoCmd]
    /\ count = [t \in Conn |-> 0] /\ text = [t \in Conn |-> <<>>]
    /\ req = [t \in Conn |-> NoCmd]
    /\ left = [t \in Conn |-> work_num]
    /\ idle = [t \in Conn |-> TRUE]
    /\ writeToResult = <<>> /\ result = <<>> /\ saved = FALSE
    /\ mutex = Free /\ destroyed = FALSE
    /\ sockfd = TRUE /\ running = TRUE
    /\ hpc = [h \in Threads |-> "none"]
    /\ sigint = FALSE /\ signals = 0
    /\ before = -1 /\ quiet = FALSE /\ first = NoTable

mask_server(t) == \/ Read(t) \/ Lock(t) \/ Handle(t) \/ Load(t) \/ Sell(t)
                  \/ Log(t) \/ Assign(t) \/ Unlock(t)

Next == \/ \E t \in Conn : Accept(t) \/ mask_server(t) \/ \E c \in Cmds : Send(t, c)
        \/ \E h \in Threads : Deliver(h) \/ exit_handler(h)
        \/ Interrupt \/ AcceptFails

Spec == Init /\ [][Next]_vars

(* The scheduler runs every thread, in its handler or not, and the kernel  *)
(* delivers signals.                                                       *)
FairSpec == /\ Spec
            /\ \A t \in Conn : WF_vars(mask_server(t))
            /\ \A h \in Threads : WF_vars(exit_handler(h)) /\ WF_vars(Deliver(h))
            /\ WF_vars(AcceptFails)

-----------------------------------------------------------------------------
Logs == Seq(Lines \cup {Nothing}) \cup {Torn}

TypeOK ==
    /\ SortTypeOK
    /\ pc \in [Conn -> {"none", "read", "lock", "wait", "handle", "load", "sell",
                        "log", "assign", "unlock"}]
    /\ buf \in [Conn -> Cmds \cup {NoCmd} \cup Lines \cup {Nothing}]
    /\ req \in [Conn -> Cmds \cup {NoCmd}]
    /\ left \in [Conn -> 0..work_num] /\ idle \in [Conn -> BOOLEAN]
    /\ count \in [Conn -> Int] /\ text \in [Conn -> Logs]
    /\ writeToResult \in Logs /\ result \in Logs /\ saved \in BOOLEAN
    /\ inventory \in [Lines -> Nat]
    /\ mutex \in Threads \cup {Free} /\ destroyed \in BOOLEAN
    /\ sockfd \in BOOLEAN /\ running \in BOOLEAN /\ quiet \in BOOLEAN
    /\ hpc \in [Threads -> {"none", "close", "file", "lock", "wait", "sort",
                            "unlock", "destroy"}]

(* What checker.cpp is left with after replaying a log, by city. *)
Sold(log, l) == Cardinality({i \in 1..Len(log) : log[i] = l})
Replay(log)  == [l \in Lines |-> inventory[l] - Sold(log, l)]

(* checker.cpp prints the cities after its replay in an order std::sort    *)
(* may choose: descending, cities that are equal in any order.             *)
city_compare(a, b) == a[2] > b[2]
city_sort(tab, stock) ==
    /\ {tab[k][1] : k \in Rows} = Lines
    /\ \A k \in Rows : tab[k][2] = stock[tab[k][1]]
    /\ \A p, q \in Rows : p < q => ~city_compare(tab[q], tab[p])

(* The first table the server prints is the inventory after exactly the    *)
(* sales in the log at that moment: the mutex keeps every worker from      *)
(* standing between a sale and its line.                                   *)
FirstTable ==
    first # NoTable => city_sort(first.rows, Replay(first.log))

(* Until exit_handler destroys the mutex no city sells a mask it has not:  *)
(* between the check of a purchase and its sale no other purchase and no   *)
(* exchange of the sort comes to the row.                                  *)
NoneOversold == ~destroyed => \A k \in Rows : data[k].stock >= 0

(* result.txt holds the log up to some line, and no line that was in the   *)
(* log when SIGINT came is missing, unless the write raced with a worker.  *)
(* What workers do to the log without the mutex comes after these lines.   *)
SavedLog ==
    saved /\ result # Torn =>
       /\ writeToResult # Torn => IsPrefix(result, writeToResult)
       /\ Len(result) >= before

(* Stopped as checker.cpp asks, after the last answer is logged, the       *)
(* server leaves a result.txt and a table that agree: the checker, reading *)
(* the one, prints the other.  Only two handlers that write the file at    *)
(* the same time can spoil that.                                           *)
CheckerAgrees ==
    quiet /\ first # NoTable /\ result # Torn =>
       /\ result = writeToResult
       /\ city_sort(first.rows, Replay(result))

-----------------------------------------------------------------------------
(* The inductive invariant behind these properties.  What a worker has in  *)
(* buf and its client in the socket depends on where the worker is.        *)
Holding(t) == pc[t] \in {"lock", "wait", "handle", "load", "sell"}
Boxes ==
    \A t \in Conn :
       /\ Holding(t) => buf[t] \in Cmds /\ req[t] = NoCmd /\ ~idle[t]
       /\ pc[t] \in {"load", "sell"} => buf[t] \in Orders
       /\ pc[t] \in {"log", "assign"} => buf[t] \in Lines \cup {Nothing}
       /\ idle[t] => req[t] = NoCmd

(* Every city has a row, and a pass of the sort stays inside the rows. *)
AllListed == \A l \in Lines : \E k \in Rows : data[k].line = l
InRange   == spc = "for" => toIndex < type_num

(* The mutex, until it is destroyed, is held by the one thread inside. *)
Serving(x) == x \in Conn /\ pc[x] \in {"handle", "load", "sell", "log", "assign",
                                       "unlock"}
Sorting(x) == hpc[x] \in {"sort", "unlock"}
Guarded ==
    ~destroyed => \A x \in Threads : /\ mutex = x <=> (Serving(x) \/ Sorting(x))
                                     /\ ~(Serving(x) /\ Sorting(x))

(* So what a worker has checked, read and put together is still so. *)
Fresh(t) ==
    /\ pc[t] \in {"load", "sell"} => data[buf[t]].stock > 0
    /\ pc[t] = "sell" => count[t] = data[buf[t]].stock
    /\ pc[t] = "assign" => text[t] = Append(writeToResult, buf[t])
Steady == ~destroyed => writeToResult # Torn /\ \A t \in Conn : Fresh(t)

(* Until the first table is printed there is one sort at most, in rows     *)
(* whose stock is the inventory without the sales in the log, less a sale  *)
(* that still waits for its line.                                          *)
Unlogged(l) == IF \E t \in Conn : pc[t] \in {"log", "assign"} /\ buf[t] = l
               THEN 1 ELSE 0
Stocked == \A k \in Rows : data[k].stock
              = inventory[k + 1] - Sold(writeToResult, k + 1) - Unlogged(k + 1)
Early ==
    first = NoTable =>
       /\ ~destroyed /\ \A h \in Threads : hpc[h] \notin {"unlock", "destroy"}
       /\ SortInv /\ Numbered /\ spc # "printed"
       /\ IF spc = "idle" THEN Stocked
          ELSE /\ \E h \in Threads : hpc[h] = "sort"
               /\ \A l \in Lines : total[l] = Replay(writeToResult)[l]

(* The first SIGINT finds nothing saved; a handler past the file saved it. *)
Signalled ==
    /\ before \in Int /\ (~saved => before <= Len(writeToResult))
    /\ before = -1 => /\ ~saved /\ ~quiet /\ first = NoTable
                      /\ \A h \in Threads : hpc[h] = "none"
    /\ before # -1 => (sockfd => hpc[Main] = "close")
    /\ first # NoTable => saved
    /\ \A h \in Threads : hpc[h] \notin {"none", "close", "file"} => saved

(* The log that a worker is about to assign continues what is saved. *)
Continued ==
    saved /\ result # Torn =>
       \A t \in Conn : pc[t] = "assign" /\ text[t] # Torn => IsPrefix(result, text[t])

(* When all commands were done at the first SIGINT, nothing happens after  *)
(* it that could add a line.                                               *)
Frozen ==
    quiet => /\ AllDone
             /\ saved /\ result # Torn => result = writeToResult
             /\ first # NoTable => first.log = writeToResult

ShutdownInv == TypeOK /\ Boxes /\ AllListed /\ InRange /\ Guarded /\ Steady
               /\ NoneOversold /\ Early /\ Signalled /\ Frozen /\ SavedLog
               /\ Continued /\ FirstTable

(* One SIGINT stops the server, whatever the workers are doing.  A second  *)
(* one may hang it: on a worker that holds the mutex, exit_handler waits   *)
(* for the thread it runs on.                                              *)
Ends == (signals = 1) ~> (~running \/ signals > 1)
=============================================================================
