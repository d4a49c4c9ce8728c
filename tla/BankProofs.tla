----------------------------- MODULE BankProofs -----------------------------
(***************************************************************************)
(* Proofs about the bank of lab 6, for any number of clients, any amounts  *)
(* and any number of kills of the server.                                  *)
(***************************************************************************)
EXTENDS Bank, TLAPS, FiniteSetTheorems

USE DEF vars

(* The shape of the state survives every step. *)
LEMMA BankType == TypeOK /\ [Next]_vars => TypeOK'
<1> SUFFICES ASSUME TypeOK, [Next]_vars PROVE TypeOK'
  OBVIOUS
<1> USE DEF TypeOK
<1>1. ASSUME NEW c \in Clients, ReadLine(c) PROVE TypeOK'
  BY <1>1, BoundAssumption DEF ReadLine
<1>2. ASSUME NEW c \in Clients, ReadEOF(c) PROVE TypeOK'
  BY <1>2 DEF ReadEOF
<1>3. ASSUME NEW c \in Clients, P(c) PROVE TypeOK'
  BY <1>3 DEF P
<1>4. ASSUME NEW c \in Clients, P_Interrupted(c) PROVE TypeOK'
  BY <1>4, BoundAssumption DEF P_Interrupted
<1>5. ASSUME NEW c \in Clients, Load(c) PROVE TypeOK'
  BY <1>5 DEF Load
<1>6. ASSUME NEW c \in Clients, Store(c) PROVE TypeOK'
  BY <1>6, AmountAssumption DEF Store
<1>7. ASSUME NEW c \in Clients, V(c) PROVE TypeOK'
  BY <1>7 DEF V
<1>8. CASE Restart
  BY <1>8, BoundAssumption DEF Restart
<1>9. CASE UNCHANGED vars
  BY <1>9
<1>10. QED
  BY <1>1, <1>2, <1>3, <1>4, <1>5, <1>6, <1>7, <1>8, <1>9 DEF Next, money, Quiet

(* While no P() was interrupted the section holds one thread at most, and  *)
(* nobody changes the account between its load and its store.              *)
LEMMA BankStep == BankInv /\ [Next]_vars => Locked' /\ Loaded' /\ Conserved'
<1> SUFFICES ASSUME BankInv, [Next]_vars PROVE Locked' /\ Loaded' /\ Conserved'
  OBVIOUS
<1> USE DEF BankInv, TypeOK, Locked, Loaded, Conserved, Critical
<1>1. ASSUME NEW c \in Clients, ReadLine(c) \/ ReadEOF(c)
      PROVE  Locked' /\ Loaded' /\ Conserved'
  <2>1. /\ UNCHANGED <<account, semval, tmp, signals, balance>>
        /\ pc[c] = "read"
        /\ pc' = [pc EXCEPT ![c] = "P"] \/ pc' = [pc EXCEPT ![c] = "done"]
    BY <1>1 DEF ReadLine, ReadEOF
  <2>2. \A d \in Clients : /\ Critical(d)' => Critical(d)
                           /\ pc'[d] = "store" => pc[d] = "store"
    BY <2>1
  <2>3. QED
    BY <2>1, <2>2
<1>2. ASSUME NEW c \in Clients, P(c)
      PROVE  Locked' /\ Loaded' /\ Conserved'
  <2>1. /\ pc[c] = "P" /\ semval > 0 /\ semval' = semval - 1
        /\ pc' = [pc EXCEPT ![c] = "load"]
        /\ UNCHANGED <<account, tmp, signals, balance>>
    BY <1>2 DEF P
  <2>2. signals = 0 => \A d \in Clients : ~Critical(d)
    BY <2>1
  <2>3. signals = 0 => \A d \in Clients : Critical(d)' => d = c
    BY <2>1, <2>2
  <2>4. signals = 0 => semval' = 0
    BY <2>1
  <2>5. QED
    BY <2>1, <2>2, <2>3, <2>4
<1>3. ASSUME NEW c \in Clients, P_Interrupted(c)
      PROVE  Locked' /\ Loaded' /\ Conserved'
  <2>1. signals' # 0
    BY <1>3 DEF P_Interrupted
  <2>2. QED
    BY <2>1
<1>4. ASSUME NEW c \in Clients, Load(c)
      PROVE  Locked' /\ Loaded' /\ Conserved'
  <2>1. /\ pc[c] = "load" /\ pc' = [pc EXCEPT ![c] = "store"]
        /\ tmp' = [tmp EXCEPT ![c] = account]
        /\ UNCHANGED <<account, semval, signals, balance>>
    BY <1>4 DEF Load
  <2>2. \A d \in Clients : Critical(d)' <=> Critical(d)
    BY <2>1
  <2>3. QED
    BY <2>1, <2>2
<1>5. ASSUME NEW c \in Clients, Store(c)
      PROVE  Locked' /\ Loaded' /\ Conserved'
  <2>1. /\ pc[c] = "store" /\ pc' = [pc EXCEPT ![c] = "V"]
        /\ account' = tmp[c] + amount[c] /\ balance' = balance + amount[c]
        /\ UNCHANGED <<semval, tmp, signals>>
    BY <1>5 DEF Store
  <2>2. \A d \in Clients : Critical(d)' <=> Critical(d)
    BY <2>1
  <2>3. signals = 0 => \A d \in Clients : pc'[d] # "store"
    BY <2>1, <2>2
  <2>4. signals = 0 => account' = balance'
    BY <2>1
  <2>5. QED
    BY <2>1, <2>2, <2>3, <2>4
<1>6. ASSUME NEW c \in Clients, V(c)
      PROVE  Locked' /\ Loaded' /\ Conserved'
  <2>1. /\ pc[c] = "V" /\ pc' = [pc EXCEPT ![c] = "read"]
        /\ semval' = semval + 1
        /\ UNCHANGED <<account, tmp, signals, balance>>
    BY <1>6 DEF V
  <2>2. signals = 0 => semval = 0 /\ \A d \in Clients : ~Critical(d)'
    BY <2>1
  <2>3. QED
    BY <2>1, <2>2
<1>7. CASE Restart
  BY <1>7 DEF Restart
<1>8. CASE UNCHANGED vars
  BY <1>8
<1>9. QED
  BY <1>1, <1>2, <1>3, <1>4, <1>5, <1>6, <1>7, <1>8 DEF Next, money, Quiet

(* No update of the account is lost unless a P() was interrupted, for any  *)
(* number of clients and through any number of kills and restarts.         *)
THEOREM AccountConserved == Spec => []Conserved
<1>1. Init => BankInv
  BY BoundAssumption
  DEF Init, BankInv, TypeOK, Locked, Loaded, Conserved, Critical
<1>2. BankInv /\ [Next]_vars => BankInv'
  BY BankType, BankStep DEF BankInv
<1>3. BankInv => Conserved
  BY DEF BankInv
<1>4. QED
  BY <1>1, <1>2, <1>3, PTL DEF Spec

(* The account, the threads and the semaphore keep their types, for any    *)
(* number of clients, interruptions and kills of the server.               *)
THEOREM BankTyped == Spec => []TypeOK
<1>1. Init => TypeOK
  BY BoundAssumption DEF Init, TypeOK
<1>2. QED
  BY <1>1, BankType, PTL DEF Spec

-----------------------------------------------------------------------------
Inside == {c \in Clients : Critical(c)}

(* The number of threads inside is a number. *)
LEMMA InsideFinite == IsFiniteSet(Inside) /\ Cardinality(Inside) \in Nat
<1>1. Inside \in SUBSET Clients
  BY DEF Inside
<1>2. IsFiniteSet(Inside)
  BY <1>1, FS_Subset, ClientsAssumption
<1> QED
  BY <1>2, FS_CardinalityType

(* No step but P(), V(), an interruption and a restart moves a ticket. *)
LEMMA TicketsSame ==
    ASSUME Tickets, UNCHANGED <<semval, signals, owner>>,
           \A c \in Clients : Critical(c)' <=> Critical(c)
    PROVE  Tickets'
<1>1. {c \in Clients : Critical(c)}' = {c \in Clients : Critical(c)}
  OBVIOUS
<1> QED
  BY <1>1 DEF Tickets

(* A thread that enters the section is one more inside. *)
LEMMA Enters ==
    ASSUME TypeOK, NEW c \in Clients, pc[c] = "P", pc' = [pc EXCEPT ![c] = "load"]
    PROVE  /\ Cardinality(Inside') = Cardinality(Inside) + 1
           /\ \A d \in Clients : Critical(d)' <=> (d = c \/ Critical(d))
<1>1. \A d \in Clients : Critical(d)' <=> (d = c \/ Critical(d))
  BY DEF TypeOK, Critical
<1>2. Inside' = Inside \cup {c} /\ c \notin Inside
  BY <1>1 DEF Inside, Critical
<1> QED
  BY <1>1, <1>2, InsideFinite, FS_AddElement

(* A thread that calls V() is one less. *)
LEMMA Leaves ==
    ASSUME TypeOK, NEW c \in Clients, pc[c] = "V", pc' = [pc EXCEPT ![c] = "read"]
    PROVE  /\ Cardinality(Inside') = Cardinality(Inside) - 1
           /\ \A d \in Clients : Critical(d)' <=> (d # c /\ Critical(d))
<1>1. \A d \in Clients : Critical(d)' <=> (d # c /\ Critical(d))
  BY DEF TypeOK, Critical
<1>2. Inside' = Inside \ {c} /\ c \in Inside
  BY <1>1 DEF Inside, Critical
<1> QED
  BY <1>1, <1>2, InsideFinite, FS_RemoveElement

(* Tickets is kept: P() takes one, V() gives one back whether or not P()   *)
(* took it, and an interruption makes up a new one.                        *)
LEMMA TicketsStep == TypeOK /\ Tickets /\ [Next]_vars => Tickets'
<1> SUFFICES ASSUME TypeOK, Tickets, [Next]_vars PROVE Tickets'
  OBVIOUS
<1>0. semval \in Nat /\ signals \in Nat /\ Cardinality(Inside) \in Nat
  BY InsideFinite, BoundAssumption DEF TypeOK
<1>1. ASSUME NEW c \in Clients, ReadLine(c) \/ ReadEOF(c) \/ Load(c) \/ Store(c)
      PROVE  Tickets'
  <2>1. UNCHANGED <<semval, signals, owner>>
    BY <1>1 DEF ReadLine, ReadEOF, Load, Store
  <2>2. \A d \in Clients : Critical(d)' <=> Critical(d)
    BY <1>1 DEF ReadLine, ReadEOF, Load, Store, Critical, TypeOK
  <2> QED
    BY <2>1, <2>2, TicketsSame
<1>2. ASSUME NEW c \in Clients, P(c)
      PROVE  Tickets'
  <2>1. /\ pc[c] = "P" /\ semval' = semval - 1 /\ signals' = signals
        /\ pc' = [pc EXCEPT ![c] = "load"] /\ owner' = [owner EXCEPT ![c] = TRUE]
    BY <1>2 DEF P
  <2>2. /\ Cardinality(Inside') = Cardinality(Inside) + 1
        /\ \A d \in Clients : Critical(d)' <=> (d = c \/ Critical(d))
    BY <2>1, Enters
  <2>3. semval' + Cardinality(Inside') = 1 + signals'
    BY <1>0, <2>1, <2>2 DEF Tickets, Inside
  <2>4. \A d \in Clients : owner'[d] => Critical(d)'
    BY <2>1, <2>2 DEF Tickets, TypeOK
  <2> QED
    BY <2>3, <2>4 DEF Tickets, Inside
<1>3. ASSUME NEW c \in Clients, P_Interrupted(c)
      PROVE  Tickets'
  <2>1. /\ pc[c] = "P" /\ semval' = semval /\ signals' = signals + 1
        /\ pc' = [pc EXCEPT ![c] = "load"] /\ owner' = owner
    BY <1>3 DEF P_Interrupted
  <2>2. /\ Cardinality(Inside') = Cardinality(Inside) + 1
        /\ \A d \in Clients : Critical(d)' <=> (d = c \/ Critical(d))
    BY <2>1, Enters
  <2>3. semval' + Cardinality(Inside') = 1 + signals'
    BY <1>0, <2>1, <2>2 DEF Tickets, Inside
  <2>4. \A d \in Clients : owner'[d] => Critical(d)'
    BY <2>1, <2>2 DEF Tickets
  <2> QED
    BY <2>3, <2>4 DEF Tickets, Inside
<1>4. ASSUME NEW c \in Clients, V(c)
      PROVE  Tickets'
  <2>1. /\ pc[c] = "V" /\ semval' = semval + 1 /\ signals' = signals
        /\ pc' = [pc EXCEPT ![c] = "read"] /\ owner' = [owner EXCEPT ![c] = FALSE]
    BY <1>4 DEF V
  <2>2. /\ Cardinality(Inside') = Cardinality(Inside) - 1
        /\ \A d \in Clients : Critical(d)' <=> (d # c /\ Critical(d))
    BY <2>1, Leaves
  <2>3. semval' + Cardinality(Inside') = 1 + signals'
    BY <1>0, <2>1, <2>2 DEF Tickets, Inside
  <2>4. \A d \in Clients : owner'[d] => Critical(d)'
    BY <2>1, <2>2 DEF Tickets, TypeOK
  <2> QED
    BY <2>3, <2>4 DEF Tickets, Inside
<1>5. CASE Restart
  <2>1. /\ semval' = 1 /\ signals' = 0
        /\ \A d \in Clients : ~Critical(d)' /\ ~owner'[d]
    BY <1>5 DEF Restart, Critical
  <2>2. {d \in Clients : Critical(d)}' = {}
    BY <2>1
  <2> QED
    BY <2>1, <2>2, FS_EmptySet DEF Tickets
<1>6. CASE UNCHANGED vars
  <2>1. \A d \in Clients : Critical(d)' <=> Critical(d)
    BY <1>6 DEF Critical
  <2> QED
    BY <1>6, <2>1, TicketsSame
<1> QED
  BY <1>1, <1>2, <1>3, <1>4, <1>5, <1>6 DEF Next, money, Quiet

(* However many P() calls were interrupted, at most that many threads more *)
(* than one are between P() and V(), and the semaphore admits no more.     *)
THEOREM CrowdLimited == Spec => []CrowdBounded
<1>1. Init => TypeOK /\ Tickets
  <2> SUFFICES ASSUME Init PROVE TypeOK /\ Tickets
    OBVIOUS
  <2>1. {c \in Clients : Critical(c)} = {}
    BY DEF Init, Critical
  <2> QED
    BY <2>1, FS_EmptySet, BoundAssumption DEF Init, TypeOK, Tickets
<1>2. TypeOK /\ Tickets /\ [Next]_vars => (TypeOK /\ Tickets)'
  BY BankType, TicketsStep
<1>3. TypeOK /\ Tickets => CrowdBounded
  <2> SUFFICES ASSUME TypeOK, Tickets PROVE CrowdBounded
    OBVIOUS
  <2> DEFINE owners == {c \in Clients : owner[c]}
  <2>1. owners \in SUBSET Inside
    BY DEF Tickets, Inside
  <2>2. Cardinality(owners) <= Cardinality(Inside) /\ IsFiniteSet(owners)
    BY <2>1, InsideFinite, FS_Subset
  <2>3. Cardinality(owners) \in Nat
    BY <2>2, FS_CardinalityType
  <2>4. semval \in Nat /\ signals \in Nat /\ Cardinality(Inside) \in Nat
    BY InsideFinite, BoundAssumption DEF TypeOK
  <2>5. semval + Cardinality(Inside) = 1 + signals
    BY DEF Tickets, Inside
  <2> HIDE DEF owners
  <2>6. /\ semval + Cardinality(owners) <= 1 + signals
        /\ Cardinality(Inside) <= 1 + signals
    BY <2>2, <2>3, <2>4, <2>5
  <2> QED
    BY <2>6 DEF owners, CrowdBounded, Inside
<1> QED
  BY <1>1, <1>2, <1>3, PTL DEF Spec
=============================================================================
