-------------------------------- MODULE Bank --------------------------------
(***************************************************************************)
(* The bank of lab 6 (lab6/server.cpp, lab6/client.cpp): one thread per    *)
(* connection reads lines "deposit n" and "withdraw n" and adjusts one     *)
(* account between P() and V() on a System V semaphore.                    *)
(*                                                                         *)
(* semop is never restarted: when the server is stopped and continued, or  *)
(* a signal handler runs in the thread, a P() that waits returns -1.       *)
(* money() ignores the result of P(), adjusts the account without the      *)
(* semaphore and still calls V().  The semaphore belongs to the kernel: it *)
(* outlives a server that is killed, and main sets it to 1 again.          *)
(***************************************************************************)
EXTENDS Integers, FiniteSets

CONSTANTS Clients,    \* one run of lab6/client each
          amount,     \* amount[c]: what a line of c adds, negative: withdraw
          times,      \* how often a client writes its line
          MaxSignals, \* bound: interrupted P() calls
          MaxCrashes  \* bound: servers killed

VARIABLES account, semval,
          pc,         \* pc[c]: where the thread of c is in money()
          tmp,        \* tmp[c]: the account as "account += amount" loaded it
          lines,      \* lines[c]: lines of c in the socket, not yet read
          owner,      \* history: owner[c], P() succeeded and V() is to come
          signals, crashes,
          balance     \* history: the account if every update were atomic

vars == <<account, semval, pc, tmp, lines, owner, signals, crashes, balance>>

ASSUME ClientsAssumption == IsFiniteSet(Clients)
ASSUME AmountAssumption == amount \in [Clients -> Int]
ASSUME BoundAssumption == times \in Nat /\ MaxSignals \in Nat /\ MaxCrashes \in Nat

-----------------------------------------------------------------------------
(* main: the socket is opened, the semaphore found or created and set. *)
Init ==
    /\ account = 0
    /\ semval = 1
    /\ pc = [c \in Clients |-> "read"]
    /\ tmp = [c \in Clients |-> 0]
    /\ lines = [c \in Clients |-> times]
    /\ owner = [c \in Clients |-> FALSE]
    /\ signals = 0
    /\ crashes = 0
    /\ balance = 0

ReadLine(c) ==
    /\ pc[c] = "read" /\ lines[c] > 0
    /\ lines' = [lines EXCEPT ![c] = @ - 1]
    /\ pc' = [pc EXCEPT ![c] = "P"]
    /\ UNCHANGED <<account, semval, tmp, owner, signals, crashes, balance>>

ReadEOF(c) ==
    /\ pc[c] = "read" /\ lines[c] = 0
    /\ pc' = [pc EXCEPT ![c] = "done"]
    /\ UNCHANGED <<account, semval, tmp, lines, owner, signals, crashes, balance>>

(* Mutant: P() goes on without looking at the semaphore. *)
P_Skips(c) ==
    /\ pc[c] = "P"
    /\ semval' = semval - 1
    /\ owner' = [owner EXCEPT ![c] = TRUE]
    /\ pc' = [pc EXCEPT ![c] = "load"]
    /\ UNCHANGED <<account, tmp, lines, signals, crashes, balance>>

P(c) ==
    /\ pc[c] = "P" /\ semval > 0
    /\ semval' = semval - 1
    /\ owner' = [owner EXCEPT ![c] = TRUE]
    /\ pc' = [pc EXCEPT ![c] = "load"]
    /\ UNCHANGED <<account, tmp, lines, signals, crashes, balance>>

(* A waiting semop fails with EINTR; the thread carries on. *)
P_Interrupted(c) ==
    /\ pc[c] = "P" /\ semval = 0 /\ signals < MaxSignals
    /\ signals' = signals + 1
    /\ pc' = [pc EXCEPT ![c] = "load"]
    /\ UNCHANGED <<account, semval, tmp, lines, owner, crashes, balance>>

(* Mutant: the thread keeps the account in a register from line to line. *)
Load_Cached(c) ==
    /\ pc[c] = "load"
    /\ tmp' = [tmp EXCEPT ![c] = IF lines[c] = times - 1 THEN account ELSE @ + amount[c]]
    /\ pc' = [pc EXCEPT ![c] = "store"]
    /\ UNCHANGED <<account, semval, lines, owner, signals, crashes, balance>>

(* account += amount, two memory accesses. *)
Load(c) ==
    /\ pc[c] = "load"
    /\ tmp' = [tmp EXCEPT ![c] = account]
    /\ pc' = [pc EXCEPT ![c] = "store"]
    /\ UNCHANGED <<account, semval, lines, owner, signals, crashes, balance>>

Store(c) ==
    /\ pc[c] = "store"
    /\ account' = tmp[c] + amount[c]
    /\ balance' = balance + amount[c]
    /\ pc' = [pc EXCEPT ![c] = "V"]
    /\ UNCHANGED <<semval, tmp, lines, owner, signals, crashes>>

(* Mutant: V() is called by the branch of the command and again after it. *)
V_Twice(c) ==
    /\ pc[c] = "V"
    /\ semval' = semval + 2
    /\ owner' = [owner EXCEPT ![c] = FALSE]
    /\ pc' = [pc EXCEPT ![c] = "read"]
    /\ UNCHANGED <<account, tmp, lines, signals, crashes, balance>>

V(c) ==
    /\ pc[c] = "V"
    /\ semval' = semval + 1
    /\ owner' = [owner EXCEPT ![c] = FALSE]
    /\ pc' = [pc EXCEPT ![c] = "read"]
    /\ UNCHANGED <<account, tmp, lines, signals, crashes, balance>>

(* Mutant: the semaphore keeps the value the dead server left. *)
Restart_NoSetval ==
    /\ crashes < MaxCrashes
    /\ crashes' = crashes + 1
    /\ account' = 0
    /\ balance' = 0
    /\ pc' = [c \in Clients |-> "read"]
    /\ tmp' = [c \in Clients |-> 0]
    /\ lines' = [c \in Clients |-> times]
    /\ owner' = [c \in Clients |-> FALSE]
    /\ UNCHANGED <<semval, signals>>

(* The server is killed, perhaps inside P() .. V(), and started again; the *)
(* clients are run again.  main sets the semaphore to 1.                   *)
Restart ==
    /\ crashes < MaxCrashes
    /\ crashes' = crashes + 1
    /\ account' = 0
    /\ balance' = 0
    /\ semval' = 1
    /\ pc' = [c \in Clients |-> "read"]
    /\ tmp' = [c \in Clients |-> 0]
    /\ lines' = [c \in Clients |-> times]
    /\ owner' = [c \in Clients |-> FALSE]
    /\ signals' = 0

money(c) == \/ ReadLine(c) \/ ReadEOF(c) \/ P(c) \/ Load(c) \/ Store(c) \/ V(c)

(* Every connection is closed; the server waits in accept. *)
Quiet == (\A c \in Clients : pc[c] = "done") /\ UNCHANGED vars

Next == (\E c \in Clients : money(c) \/ P_Interrupted(c)) \/ Restart \/ Quiet

Spec == Init /\ [][Next]_vars
FairSpec == Spec /\ \A c \in Clients : WF_vars(money(c))

-----------------------------------------------------------------------------
TypeOK ==
    /\ account \in Int /\ balance \in Int
    /\ semval \in Nat
    /\ pc \in [Clients -> {"read", "P", "load", "store", "V", "done"}]
    /\ tmp \in [Clients -> Int]
    /\ lines \in [Clients -> 0..times]
    /\ owner \in [Clients -> BOOLEAN]
    /\ signals \in 0..MaxSignals /\ crashes \in 0..MaxCrashes

Critical(c) == pc[c] \in {"load", "store", "V"}

(* As long as no P() of this server was interrupted, no update of the      *)
(* account is lost: it is the sum of the updates made, also after a server *)
(* was killed between P() and V() and another one started.                 *)
Conserved == signals = 0 => account = balance

(* The inductive invariant behind it: the semaphore is 1 with nobody       *)
(* inside, or 0 with one thread inside, and what that thread loaded is     *)
(* still the account.                                                      *)
Locked == signals = 0 =>
    /\ semval <= 1
    /\ \A c \in Clients : Critical(c) => semval = 0
    /\ \A c, d \in Clients : Critical(c) /\ Critical(d) => c = d
Loaded == signals = 0 => \A c \in Clients : pc[c] = "store" => tmp[c] = account
BankInv == TypeOK /\ Locked /\ Loaded /\ Conserved

(* The threads inside and the value of the semaphore account for the one   *)
(* ticket of the start and one for every interrupted P().                  *)
Tickets == /\ semval + Cardinality({c \in Clients : Critical(c)}) = 1 + signals
           /\ \A c \in Clients : owner[c] => Critical(c)

(* An interrupted P() does damage for good, but not without limit: each    *)
(* one lets one more thread into the section, at the time or later.        *)
CrowdBounded ==
    /\ semval + Cardinality({c \in Clients : owner[c]}) <= 1 + signals
    /\ Cardinality({c \in Clients : Critical(c)}) <= 1 + signals

(* Every line a client wrote is booked and its thread ends, even when the  *)
(* server before was killed while it held the semaphore.                   *)
AllBooked == <>[](\A c \in Clients : pc[c] = "done")
=============================================================================
