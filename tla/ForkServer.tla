----------------------------- MODULE ForkServer -----------------------------
(***************************************************************************)
(* The server of lab 5 (lab5.cpp): accept a connection, fork, let the      *)
(* child run "sl" with the connection as its output, close the connection  *)
(* in the parent.  Children that end are reaped by a handler of SIGCHLD.   *)
(*                                                                         *)
(* SIGCHLD does not queue: children that end while it is pending, or while *)
(* the handler runs, share one delivery.  A child whose execl fails comes  *)
(* back from childfunc and goes on as a second server: it closes the       *)
(* connection once more and waits in accept, its output still connected.   *)
(***************************************************************************)
EXTENDS Integers, FiniteSets

CONSTANTS Procs,      \* process slots; fork fails when all are taken
          first,      \* the server that was started
          Clients,    \* the connections of the clients
          NoOne,      \* no process, no connection
          ExecFails   \* whether execl may fail on this board: a set of cases

VARIABLES pc,         \* pc[p]: where the process is in its program
          connfd,     \* connfd[p]: the connection p works on
          parent,     \* parent[p]: who is to reap p
          chld,       \* chld[p]: SIGCHLD is pending
          ppc,        \* ppc[p]: the handler runs, or "main"
          open,       \* open[c]: processes that hold the connection
          cli,        \* cli[c]: "off", "queued", "taken", "closed"
          nosl        \* execl may fail in this run

vars == <<pc, connfd, parent, chld, ppc, open, cli, nosl>>

ASSUME ForkAssumption == first \in Procs /\ NoOne \notin Procs \cup Clients
                         /\ IsFiniteSet(Procs) /\ ExecFails \subseteq BOOLEAN

-----------------------------------------------------------------------------
Init ==
    /\ pc = [p \in Procs |-> IF p = first THEN "accept" ELSE "free"]
    /\ connfd = [p \in Procs |-> NoOne]
    /\ parent = [p \in Procs |-> NoOne]
    /\ chld = [p \in Procs |-> FALSE]
    /\ ppc = [p \in Procs |-> "main"]
    /\ open = [c \in Clients |-> {}]
    /\ cli = [c \in Clients |-> "off"]
    /\ nosl \in ExecFails

(* A process at work, with no signal to handle first. *)
At(p, l) == pc[p] = l /\ ppc[p] = "main"

Connect(c) ==
    /\ cli[c] = "off" /\ \E p \in Procs : pc[p] \notin {"free", "zombie"}
    /\ cli' = [cli EXCEPT ![c] = "queued"]
    /\ UNCHANGED <<pc, connfd, parent, chld, ppc, open, nosl>>

(* Mutant: a failing accept is not noticed. *)
Accept_Unchecked(p, c) ==
    /\ At(p, "accept") /\ cli[c] = "queued"
    /\ connfd' = [connfd EXCEPT ![p] = -1]
    /\ pc' = [pc EXCEPT ![p] = "fork"]
    /\ UNCHANGED <<parent, chld, ppc, open, cli, nosl>>

(* accept is restarted when the handler has run (signal sets SA_RESTART). *)
Accept(p, c) ==
    /\ At(p, "accept") /\ cli[c] = "queued"
    /\ cli' = [cli EXCEPT ![c] = "taken"]
    /\ connfd' = [connfd EXCEPT ![p] = c]
    /\ open' = [open EXCEPT ![c] = @ \cup {p}]
    /\ pc' = [pc EXCEPT ![p] = "fork"]
    /\ UNCHANGED <<parent, chld, ppc, nosl>>

Fork(p, q) ==
    /\ At(p, "fork") /\ pc[q] = "free"
    /\ pc' = [pc EXCEPT ![p] = "close", ![q] = "childfunc"]
    /\ parent' = [parent EXCEPT ![q] = p]
    /\ connfd' = [connfd EXCEPT ![q] = connfd[p]]
    /\ open' = [c \in Clients |-> IF p \in open[c] THEN open[c] \cup {q} ELSE open[c]]
    /\ UNCHANGED <<chld, ppc, cli, nosl>>

(* The end of a process: its descriptors are closed, its parent is told,   *)
(* and its own children go to init, which reaps the ones that ended.       *)
Exit(p) ==
    /\ pc' = [q \in Procs |->
                IF q = p THEN (IF parent[p] = NoOne THEN "free" ELSE "zombie")
                ELSE IF parent[q] = p /\ pc[q] = "zombie" THEN "free" ELSE pc[q]]
    /\ parent' = [q \in Procs |-> IF parent[q] = p THEN NoOne ELSE parent[q]]
    /\ chld' = [q \in Procs |-> IF q = p THEN FALSE ELSE chld[q] \/ q = parent[p]]
    /\ ppc' = [ppc EXCEPT ![p] = "main"]
    /\ connfd' = [connfd EXCEPT ![p] = NoOne]
    /\ open' = [c \in Clients |-> open[c] \ {p}]
    /\ UNCHANGED <<cli, nosl>>

(* fork fails: the server exits. *)
ForkFails(p) ==
    /\ At(p, "fork") /\ \A q \in Procs : pc[q] # "free"
    /\ Exit(p)

(* Mutant: the server keeps the connection of a child. *)
Close_Forgotten(p) ==
    /\ At(p, "close")
    /\ connfd' = [connfd EXCEPT ![p] = NoOne]
    /\ pc' = [pc EXCEPT ![p] = "accept"]
    /\ UNCHANGED <<parent, chld, ppc, open, cli, nosl>>

Close(p) ==
    /\ At(p, "close")
    /\ open' = [open EXCEPT ![connfd[p]] = @ \ {p}]
    /\ connfd' = [connfd EXCEPT ![p] = NoOne]
    /\ pc' = [pc EXCEPT ![p] = "accept"]
    /\ UNCHANGED <<parent, chld, ppc, cli, nosl>>

(* childfunc: dup2 makes the connection the output, and takes the place of *)
(* the output the child was forked with.                                   *)
Dup2(q) == open' = [c \in Clients |-> IF c = connfd[q] THEN open[c] ELSE open[c] \ {q}]

Exec(q) ==
    /\ At(q, "childfunc") /\ Dup2(q)
    /\ pc' = [pc EXCEPT ![q] = "sl"]
    /\ UNCHANGED <<connfd, parent, chld, ppc, cli, nosl>>

(* execl returns: the second close of connfd fails and accept is next.     *)
ExecFail(q) ==
    /\ nosl /\ At(q, "childfunc") /\ Dup2(q)
    /\ connfd' = [connfd EXCEPT ![q] = NoOne]
    /\ pc' = [pc EXCEPT ![q] = "accept"]
    /\ UNCHANGED <<parent, chld, ppc, cli, nosl>>

(* sl has run, or was killed. *)
Ends(q) == pc[q] = "sl" /\ Exit(q)

(* The client sees the end of the connection when nobody holds it.         *)
Hangup(c) ==
    /\ cli[c] = "taken" /\ open[c] = {}
    /\ cli' = [cli EXCEPT ![c] = "closed"]
    /\ UNCHANGED <<pc, connfd, parent, chld, ppc, open, nosl>>

-----------------------------------------------------------------------------
(* handler: while (waitpid(-1, NULL, WNOHANG) > 0); *)
Zombies(p) == {q \in Procs : parent[q] = p /\ pc[q] = "zombie"}

(* Mutant: the signal is looked for after a connection, not in accept. *)
Signal_Polled(p) ==
    /\ pc[p] = "close" /\ ppc[p] = "main" /\ chld[p]
    /\ chld' = [chld EXCEPT ![p] = FALSE]
    /\ ppc' = [ppc EXCEPT ![p] = "handler"]
    /\ UNCHANGED <<pc, connfd, parent, open, cli, nosl>>

Signal(p) ==
    /\ pc[p] \in {"accept", "fork", "close", "childfunc"} /\ ppc[p] = "main" /\ chld[p]
    /\ chld' = [chld EXCEPT ![p] = FALSE]
    /\ ppc' = [ppc EXCEPT ![p] = "handler"]
    /\ UNCHANGED <<pc, connfd, parent, open, cli, nosl>>

(* Mutant: one waitpid for one signal. *)
Reap_Once(p, q) ==
    /\ ppc[p] = "handler" /\ q \in Zombies(p)
    /\ pc' = [pc EXCEPT ![q] = "free"]
    /\ parent' = [parent EXCEPT ![q] = NoOne]
    /\ ppc' = [ppc EXCEPT ![p] = "main"]
    /\ UNCHANGED <<connfd, chld, open, cli, nosl>>

Reap(p, q) ==
    /\ ppc[p] = "handler" /\ q \in Zombies(p)
    /\ pc' = [pc EXCEPT ![q] = "free"]
    /\ parent' = [parent EXCEPT ![q] = NoOne]
    /\ UNCHANGED <<connfd, chld, ppc, open, cli, nosl>>

HandlerEnds(p) ==
    /\ ppc[p] = "handler" /\ Zombies(p) = {}
    /\ ppc' = [ppc EXCEPT ![p] = "main"]
    /\ UNCHANGED <<pc, connfd, parent, chld, open, cli, nosl>>

handler(p) == Signal(p) \/ HandlerEnds(p) \/ \E q \in Procs : Reap(p, q)

main(p) == \/ \E c \in Clients : Accept(p, c)
           \/ \E q \in Procs : Fork(p, q)
           \/ ForkFails(p) \/ Close(p) \/ Exec(p) \/ ExecFail(p) \/ Ends(p)

Next == \/ \E p \in Procs : main(p) \/ handler(p)
        \/ \E c \in Clients : Connect(c) \/ Hangup(c)

Spec == Init /\ [][Next]_vars

(* The scheduler runs every process, sl ends, a signal is delivered.       *)
FairSpec == /\ Spec
            /\ \A p \in Procs : WF_vars(main(p)) /\ WF_vars(handler(p))
            /\ \A c \in Clients : WF_vars(Hangup(c))

-----------------------------------------------------------------------------
TypeOK ==
    /\ pc \in [Procs -> {"free", "accept", "fork", "close", "childfunc", "sl", "zombie"}]
    /\ connfd \in [Procs -> Clients \cup {NoOne}]
    /\ parent \in [Procs -> Procs \cup {NoOne}]
    /\ chld \in [Procs -> BOOLEAN]
    /\ ppc \in [Procs -> {"main", "handler"}]
    /\ open \in [Clients -> SUBSET Procs]
    /\ cli \in [Clients -> {"off", "queued", "taken", "closed"}]
    /\ nosl \in BOOLEAN

(* No child that ended is forgotten: its parent has a signal pending or is *)
(* in the loop of the handler, although signals are merged.                *)
NoLostChild == \A q \in Procs : pc[q] = "zombie" =>
                  chld[parent[q]] \/ ppc[parent[q]] = "handler"

(* The inductive invariant behind it: a zombie has a parent, which is      *)
(* another process.                                                        *)
HasParent == \A q \in Procs : /\ parent[q] # q
                              /\ pc[q] = "zombie" => parent[q] \in Procs
ForkInv == TypeOK /\ HasParent /\ NoLostChild

(* Every child that ended is reaped. *)
Reaped == \A q \in Procs : pc[q] = "zombie" ~> pc[q] # "zombie"

(* When execl works, a client that was accepted sees the end of its        *)
(* connection: no server keeps a copy of it.                               *)
Served == \A c \in Clients : cli[c] = "taken" /\ ~nosl ~> cli[c] = "closed"
=============================================================================
