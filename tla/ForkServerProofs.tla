-------------------------- MODULE ForkServerProofs --------------------------
(***************************************************************************)
(* The loop of the SIGCHLD handler forgets no child, for any number of     *)
(* processes and clients and with any child failing in execl.              *)
(***************************************************************************)
EXTENDS ForkServer, TLAPS

(* The first server, before its first connection. *)
LEMMA ForkInit == Init => ForkInv
<1> SUFFICES ASSUME Init PROVE ForkInv
  OBVIOUS
<1> USE ForkAssumption DEF Init
<1>1. TypeOK
  BY DEF TypeOK
<1>2. HasParent /\ NoLostChild
  BY DEF HasParent, NoLostChild
<1> QED
  BY <1>1, <1>2 DEF ForkInv

(* The end of a process makes it a zombie with its signal sent, and takes  *)
(* its own zombies with it.                                                *)
LEMMA ExitKeeps ==
    ASSUME ForkInv, NEW p \in Procs, Exit(p)
    PROVE  ForkInv'
<1> USE ForkAssumption
<1>t. TypeOK /\ HasParent /\ NoLostChild
  BY DEF ForkInv
<1>1. TypeOK'
  BY <1>t DEF TypeOK, Exit
<1>2. ASSUME NEW q \in Procs, pc'[q] = "zombie"
      PROVE  \/ q = p /\ parent[p] # NoOne
             \/ q # p /\ pc[q] = "zombie" /\ parent[q] # p
  BY <1>2, <1>t DEF TypeOK, Exit
<1>p. \A q \in Procs : parent'[q] = IF parent[q] = p THEN NoOne ELSE parent[q]
  BY <1>t DEF TypeOK, Exit
<1>s. \A q \in Procs : q # p => /\ chld'[q] = (chld[q] \/ q = parent[p])
                                /\ ppc'[q] = ppc[q]
  BY <1>t DEF TypeOK, Exit
<1>z. ASSUME NEW q \in Procs, pc'[q] = "zombie"
      PROVE  parent[q] \in Procs /\ parent[q] # p /\ parent'[q] = parent[q]
  <2>1. CASE q = p
    <3>1. parent[p] # NoOne /\ parent[p] # p /\ parent[p] \in Procs \cup {NoOne}
      BY <1>z, <1>2, <2>1, <1>t DEF TypeOK, HasParent
    <3> QED
      BY <1>p, <2>1, <3>1
  <2>2. CASE q # p
    <3>1. pc[q] = "zombie" /\ parent[q] # p
      BY <1>z, <1>2, <2>2
    <3> QED
      BY <1>p, <1>t, <3>1 DEF HasParent
  <2> QED
    BY <2>1, <2>2
<1>3. HasParent'
  <2>1. \A q \in Procs : parent'[q] # q
    BY <1>t, <1>p DEF HasParent
  <2> QED
    BY <1>z, <2>1 DEF HasParent
<1>4. NoLostChild'
  <2> SUFFICES ASSUME NEW q \in Procs, pc'[q] = "zombie"
               PROVE  chld'[parent'[q]] \/ ppc'[parent'[q]] = "handler"
    BY DEF NoLostChild
  <2>1. parent[q] \in Procs /\ parent[q] # p /\ parent'[q] = parent[q]
    BY <1>z
  <2>2. \/ q = p
        \/ chld[parent[q]] \/ ppc[parent[q]] = "handler"
    BY <1>2, <1>t DEF NoLostChild
  <2> QED
    BY <1>s, <2>1, <2>2
<1> QED
  BY <1>1, <1>3, <1>4 DEF ForkInv

(* A step that makes no zombie, moves no parent and loses no signal. *)
LEMMA QuietKeeps ==
    ASSUME ForkInv, TypeOK', parent' = parent, chld' = chld, ppc' = ppc,
           \A q \in Procs : pc'[q] = "zombie" => pc[q] = "zombie"
    PROVE  ForkInv'
BY DEF ForkInv, HasParent, NoLostChild

(* Every step keeps the invariant. *)
LEMMA ForkStep ==
    ASSUME ForkInv, [Next]_vars
    PROVE  ForkInv'
<1> USE ForkAssumption
<1>t. TypeOK /\ HasParent /\ NoLostChild
  BY DEF ForkInv
<1>1. ASSUME NEW p \in Procs, NEW c \in Clients, Accept(p, c) PROVE ForkInv'
  <2>1. TypeOK'
    BY <1>1, <1>t DEF TypeOK, Accept, At
  <2> QED
    BY <1>1, <1>t, <2>1, QuietKeeps DEF TypeOK, Accept, At
<1>2. ASSUME NEW p \in Procs, NEW q \in Procs, Fork(p, q) PROVE ForkInv'
  <2>1. TypeOK'
    BY <1>2, <1>t DEF TypeOK, Fork, At
  <2>2. p # q
    BY <1>2 DEF Fork, At
  <2>3. HasParent' /\ NoLostChild'
    BY <1>2, <1>t, <2>2 DEF TypeOK, HasParent, NoLostChild, Fork, At
  <2> QED
    BY <2>1, <2>3 DEF ForkInv
<1>3. ASSUME NEW p \in Procs, ForkFails(p) PROVE ForkInv'
  BY <1>3, ExitKeeps DEF ForkFails
<1>4. ASSUME NEW p \in Procs, Close(p) PROVE ForkInv'
  <2>1. TypeOK'
    BY <1>4, <1>t DEF TypeOK, Close, At
  <2> QED
    BY <1>4, <1>t, <2>1, QuietKeeps DEF TypeOK, Close, At
<1>5. ASSUME NEW p \in Procs, Exec(p) PROVE ForkInv'
  <2>1. TypeOK'
    BY <1>5, <1>t DEF TypeOK, Exec, At, Dup2
  <2> QED
    BY <1>5, <1>t, <2>1, QuietKeeps DEF TypeOK, Exec, At
<1>6. ASSUME NEW p \in Procs, ExecFail(p) PROVE ForkInv'
  <2>1. TypeOK'
    BY <1>6, <1>t DEF TypeOK, ExecFail, At, Dup2
  <2> QED
    BY <1>6, <1>t, <2>1, QuietKeeps DEF TypeOK, ExecFail, At
<1>7. ASSUME NEW p \in Procs, Ends(p) PROVE ForkInv'
  BY <1>7, ExitKeeps DEF Ends
<1>8. ASSUME NEW p \in Procs, Signal(p) PROVE ForkInv'
  <2>1. TypeOK' /\ HasParent'
    BY <1>8, <1>t DEF TypeOK, HasParent, Signal
  <2>2. NoLostChild'
    BY <1>8, <1>t DEF TypeOK, NoLostChild, HasParent, Signal
  <2> QED
    BY <2>1, <2>2 DEF ForkInv
<1>9. ASSUME NEW p \in Procs, NEW q \in Procs, Reap(p, q) PROVE ForkInv'
  <2>1. TypeOK' /\ HasParent'
    BY <1>9, <1>t DEF TypeOK, HasParent, Reap
  <2>2. NoLostChild'
    BY <1>9, <1>t DEF TypeOK, NoLostChild, HasParent, Reap
  <2> QED
    BY <2>1, <2>2 DEF ForkInv
<1>10. ASSUME NEW p \in Procs, HandlerEnds(p) PROVE ForkInv'
  <2>1. TypeOK' /\ HasParent'
    BY <1>10, <1>t DEF TypeOK, HasParent, HandlerEnds
  <2>2. NoLostChild'
    BY <1>10, <1>t DEF TypeOK, NoLostChild, HasParent, HandlerEnds, Zombies
  <2> QED
    BY <2>1, <2>2 DEF ForkInv
<1>11. ASSUME NEW c \in Clients, Connect(c) \/ Hangup(c) PROVE ForkInv'
  <2>1. TypeOK'
    BY <1>11, <1>t DEF TypeOK, Connect, Hangup
  <2> QED
    BY <1>11, <2>1, QuietKeeps DEF Connect, Hangup
<1>12. CASE UNCHANGED vars
  BY <1>12, <1>t DEF vars, ForkInv, TypeOK, HasParent, NoLostChild
<1> QED
  BY <1>1, <1>2, <1>3, <1>4, <1>5, <1>6, <1>7, <1>8, <1>9, <1>10, <1>11, <1>12
     DEF Next, main, handler

(* lab5.cpp: the tables of processes, connections and signals keep their   *)
(* types in every run, whoever ends and whatever fails.                    *)
THEOREM ForkTyped == Spec => []TypeOK
<1>1. ForkInv /\ [Next]_vars => ForkInv'
  BY ForkStep
<1>2. ForkInv => TypeOK
  BY DEF ForkInv
<1> QED
  BY <1>1, <1>2, ForkInit, PTL DEF Spec

(* lab5.cpp: no child that ended is forgotten by the handler of SIGCHLD.   *)
THEOREM ChildrenRemembered == Spec => []NoLostChild
<1>1. ForkInv /\ [Next]_vars => ForkInv'
  BY ForkStep
<1>2. ForkInv => NoLostChild
  BY DEF ForkInv
<1> QED
  BY <1>1, <1>2, ForkInit, PTL DEF Spec
=============================================================================
