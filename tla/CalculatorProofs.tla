-------------------------- MODULE CalculatorProofs --------------------------
(***************************************************************************)
(* Proofs about the calculator of lab 3, for any set of keys and any       *)
(* bound on them that the buffers bear: its answers follow the rules of    *)
(* arithmetic, and the display and the LEDs show them.                     *)
(*                                                                         *)
(* The loops of the code and the reference are recursive functions of the  *)
(* keys, so the module starts with induction and recursion.  Both are      *)
(* stated for sets and functions, not for operators, and rest on the       *)
(* library's theorem that < is well founded on Nat.                        *)
(***************************************************************************)
EXTENDS Calculator, TLAPS, WellFoundedInduction, SequenceTheorems

-----------------------------------------------------------------------------
(* 1. Induction and recursion. *)

(* A set of naturals with an element has a least one. *)
LEMMA LeastElement ==
    ASSUME NEW T \in SUBSET Nat, T # {}
    PROVE  \E m \in T : \A k \in T : m <= k
<1>1. PICK m \in T : \A k \in T : ~(<<k, m>> \in OpToRel(<, Nat))
  BY WFMin, NatLessThanWellFounded
<1>2. ASSUME NEW k \in T, ~(m <= k) PROVE FALSE
  <2>1. <<k, m>> \in Nat \X Nat /\ k < m
    BY <1>2
  <2>2. <<k, m>> \in {p \in Nat \X Nat : p[1] < p[2]}
    BY <2>1
  <2> QED
    BY <1>1, <2>2 DEF OpToRel
<1> QED
  BY <1>2

(* Induction over the naturals, for a set. *)
LEMMA NatSetInduction ==
    ASSUME NEW T \in SUBSET Nat, 0 \in T, \A n \in T : n + 1 \in T
    PROVE  T = Nat
<1> SUFFICES ASSUME Nat \ T # {} PROVE FALSE
  OBVIOUS
<1>1. PICK m \in Nat \ T : \A k \in Nat \ T : m <= k
  BY LeastElement
<1>2. m # 0 /\ m - 1 \in Nat /\ m - 1 \notin Nat \ T
  BY <1>1
<1> QED
  BY <1>2

(* Q leads from every element of R to one of D with a smaller measure. *)
Descends(D, M, R, Q) ==
    /\ M \in [D -> Nat]
    /\ R \subseteq D
    /\ Q \in [R -> D]
    /\ \A s \in R : M[Q[s]] < M[s]

(* T has s as soon as it has Q[s]; outside R, without condition. *)
Inductive(T, D, R, Q) == \A s \in D : (s \in R => Q[s] \in T) => s \in T

(* Induction along a descent: a set that has s whenever it has Q[s] has    *)
(* every element.                                                          *)
LEMMA MeasureInduction ==
    ASSUME NEW D, NEW M, NEW R, NEW Q, NEW T,
           Descends(D, M, R, Q), T \subseteq D, Inductive(T, D, R, Q)
    PROVE  T = D
<1> USE DEF Descends, Inductive
<1> SUFFICES ASSUME NEW s \in D, s \notin T PROVE FALSE
  OBVIOUS
<1> DEFINE N == {n \in Nat : \E u \in D : u \notin T /\ M[u] = n}
<1>1. M[s] \in N
  OBVIOUS
<1>2. PICK n \in N : \A k \in N : n <= k
  BY <1>1, LeastElement
<1>3. PICK u \in D : u \notin T /\ M[u] = n
  OBVIOUS
<1>4. u \in R /\ Q[u] \in D /\ Q[u] \notin T
  BY <1>3
<1>5. M[Q[u]] \in N /\ M[Q[u]] < n /\ M[Q[u]] \in Nat
  BY <1>3, <1>4
<1> QED
  BY <1>2, <1>5

(* g is a function with values in V that solves the equation. *)
Solves(g, D, V, R, Q, B, F) ==
    /\ g \in [D -> V]
    /\ \A s \in D : g[s] = IF s \in R THEN F[<<g[Q[s]], s>>] ELSE B[s]

(* Recursion along a descent: an equation that gives the value at s from   *)
(* the value at Q[s] has a solution with values in V.                      *)
LEMMA RecursionExists ==
    ASSUME NEW D, NEW M, NEW R, NEW Q, Descends(D, M, R, Q),
           NEW V, NEW B \in [D -> V], NEW F \in [V \X D -> V]
    PROVE  \E g : Solves(g, D, V, R, Q, B, F)
<1> USE DEF Descends
<1> DEFINE Eq(g, s) == g[s] = IF s \in R THEN F[<<g[Q[s]], s>>] ELSE B[s]
           UpTo(g, n) == \A s \in D : M[s] <= n => Eq(g, s)
           next(g) == [s \in D |-> IF s \in R THEN F[<<g[Q[s]], s>>] ELSE B[s]]
           T == {n \in Nat : \E g \in [D -> V] : UpTo(g, n)}
<1>0. ASSUME NEW g \in [D -> V] PROVE next(g) \in [D -> V]
  <2>1. ASSUME NEW s \in D, s \in R PROVE F[<<g[Q[s]], s>>] \in V
    BY <2>1
  <2> QED
    BY <2>1
<1>1. 0 \in T
  <2>1. B \in [D -> V] /\ UpTo(B, 0)
    <3>1. ASSUME NEW s \in D, M[s] <= 0 PROVE s \notin R
      BY <3>1
    <3> QED
      BY <3>1
  <2> QED
    BY <2>1
<1>2. ASSUME NEW n \in T PROVE n + 1 \in T
  <2>1. PICK g \in [D -> V] : UpTo(g, n)
    OBVIOUS
  <2>2. ASSUME NEW s \in D, M[s] <= n + 1 PROVE Eq(next(g), s)
    <3>1. CASE s \notin R
      BY <3>1
    <3>2. CASE s \in R
      <4>1. Q[s] \in D /\ M[Q[s]] <= n
        BY <2>2, <3>2
      <4>2. g[Q[s]] = next(g)[Q[s]]
        BY <2>1, <4>1
      <4> QED
        BY <3>2, <4>2
    <3> QED
      BY <3>1, <3>2
  <2>3. UpTo(next(g), n + 1)
    BY <2>2
  <2> HIDE DEF next, UpTo
  <2> QED
    BY <1>0, <2>3
<1>3. T = Nat
  BY <1>1, <1>2, NatSetInduction
<1>4. ASSUME NEW n \in Nat, NEW g \in [D -> V], NEW h \in [D -> V], UpTo(g, n), UpTo(h, n)
      PROVE  \A s \in D : M[s] <= n => g[s] = h[s]
  <2> DEFINE A == {s \in D : M[s] <= n => g[s] = h[s]}
  <2>1. ASSUME NEW s \in D, s \in R => Q[s] \in A PROVE s \in A
    <3> SUFFICES ASSUME M[s] <= n PROVE g[s] = h[s]
      OBVIOUS
    <3>1. Eq(g, s) /\ Eq(h, s)
      BY <1>4
    <3>2. CASE s \in R
      <4>1. M[Q[s]] <= n
        BY <3>2
      <4> QED
        BY <2>1, <3>1, <3>2, <4>1
    <3> QED
      BY <3>1, <3>2
  <2> HIDE DEF A
  <2>2. A = D
    <3>1. A \in SUBSET D
      BY DEF A
    <3>2. Inductive(A, D, R, Q)
      BY <2>1 DEF Inductive
    <3> HIDE DEF Eq, UpTo, next, T, Descends
    <3> QED
      BY <3>1, <3>2, MeasureInduction
  <2> QED
    BY <2>2 DEF A
<1> DEFINE best(n) == CHOOSE g \in [D -> V] : UpTo(g, n)
<1>5. ASSUME NEW n \in Nat PROVE best(n) \in [D -> V] /\ UpTo(best(n), n)
  <2>1. n \in T
    BY <1>3
  <2>2. \E g \in [D -> V] : UpTo(g, n)
    BY <2>1
  <2> HIDE DEF UpTo
  <2> QED
    BY <2>2
<1> DEFINE f == [s \in D |-> best(M[s])[s]]
<1>6. f \in [D -> V]
  <2>1. ASSUME NEW s \in D PROVE best(M[s])[s] \in V
    <3>1. best(M[s]) \in [D -> V]
      BY <1>5
    <3> HIDE DEF best
    <3> QED
      BY <3>1
  <2> HIDE DEF best
  <2> QED
    BY <2>1
<1>7. ASSUME NEW s \in D PROVE Eq(f, s)
  <2> DEFINE g == best(M[s])
  <2>1. g \in [D -> V] /\ UpTo(g, M[s]) /\ f[s] = g[s] /\ M[s] \in Nat
    BY <1>5
  <2> HIDE DEF g
  <2>2. Eq(g, s)
    BY <2>1
  <2>3. CASE s \in R
    <3> DEFINE q == Q[s]
               h == best(M[q])
    <3>1. q \in D /\ M[q] \in Nat /\ M[q] < M[s]
      BY <2>3
    <3>2. h \in [D -> V] /\ UpTo(h, M[q]) /\ f[q] = h[q]
      BY <1>5, <3>1
    <3> HIDE DEF h
    <3>3. UpTo(g, M[q])
      BY <2>1, <3>1
    <3> HIDE DEF UpTo
    <3>4. g[q] = h[q]
      BY <1>4, <2>1, <3>1, <3>2, <3>3
    <3> HIDE DEF f
    <3> QED
      BY <2>1, <2>2, <2>3, <3>2, <3>4
  <2> HIDE DEF f
  <2> QED
    BY <2>1, <2>2, <2>3
<1>8. Solves(f, D, V, R, Q, B, F)
  <2> HIDE DEF f
  <2> QED
    BY <1>6, <1>7 DEF Solves
<1> HIDE DEF f
<1> QED
  BY <1>8

-----------------------------------------------------------------------------
(* 2. Places in a sequence of keys. *)

(* The greatest element of a bounded set of naturals. *)
LEMMA MaxFacts ==
    ASSUME NEW S \in SUBSET Nat, S # {}, NEW b \in Nat, \A x \in S : x <= b
    PROVE  Max(S) \in S /\ \A x \in S : x <= Max(S)
<1> DEFINE U == {n \in Nat : \A x \in S : x <= n}
<1>1. PICK m \in U : \A k \in U : m <= k
  <2>1. b \in U
    OBVIOUS
  <2> QED
    BY <2>1, LeastElement
<1>2. m \in S
  <2>1. CASE m = 0
    <3>1. PICK x \in S : x <= m
      OBVIOUS
    <3>2. x = m
      BY <2>1, <3>1
    <3> QED
      BY <3>2
  <2>2. CASE m # 0 /\ m \notin S
    <3>1. m - 1 \in U
      BY <2>2
    <3> QED
      BY <1>1, <3>1
  <2> QED
    BY <2>1, <2>2
<1>3. \E x \in S : \A y \in S : x >= y
  BY <1>2
<1>4. Max(S) \in S /\ \A y \in S : Max(S) >= y
  BY <1>3 DEF Max
<1> QED
  BY <1>4

(* The least element of a set of naturals. *)
LEMMA MinFacts ==
    ASSUME NEW S \in SUBSET Nat, S # {}
    PROVE  Min(S) \in S /\ \A x \in S : Min(S) <= x
<1>1. \E x \in S : \A y \in S : x <= y
  BY LeastElement
<1> QED
  BY <1>1 DEF Min

(* LastOf is the last place of an operator, 0 if there is none. *)
LEMMA LastOfFacts ==
    ASSUME NEW S, NEW s \in Seq(S), NEW opers
    PROVE  /\ LastOf(s, opers) \in 0..Len(s)
           /\ LastOf(s, opers) # 0 => s[LastOf(s, opers)] \in opers
           /\ \A k \in 1..Len(s) : LastOf(s, opers) < k => s[k] \notin opers
<1> DEFINE W == {0} \cup {i \in 1..Len(s) : s[i] \in opers}
<1>1. Len(s) \in Nat
  OBVIOUS
<1>2. W \in SUBSET Nat /\ W # {} /\ \A x \in W : x <= Len(s)
  BY <1>1
<1>3. Max(W) \in W /\ \A x \in W : x <= Max(W)
  BY <1>1, <1>2, MaxFacts
<1>4. LastOf(s, opers) = Max(W)
  BY DEF LastOf
<1> HIDE DEF W
<1>5. Max(W) \in 0..Len(s) /\ (Max(W) # 0 => s[Max(W)] \in opers)
  BY <1>1, <1>3 DEF W
<1>6. ASSUME NEW k \in 1..Len(s), Max(W) < k PROVE s[k] \notin opers
  <2>1. k \notin W
    BY <1>1, <1>3, <1>5, <1>6
  <2> QED
    BY <2>1 DEF W
<1> QED
  BY <1>4, <1>5, <1>6

(* Only one place is the last one. *)
LEMMA LastOfUnique ==
    ASSUME NEW S, NEW s \in Seq(S), NEW opers, NEW m \in 0..Len(s),
           m # 0 => s[m] \in opers,
           \A k \in 1..Len(s) : m < k => s[k] \notin opers
    PROVE  LastOf(s, opers) = m
<1> DEFINE L == LastOf(s, opers)
<1>1. /\ L \in 0..Len(s)
      /\ L # 0 => s[L] \in opers
      /\ \A k \in 1..Len(s) : L < k => s[k] \notin opers
  BY LastOfFacts
<1> HIDE DEF L
<1>2. ~(m < L) /\ ~(L < m)
  BY <1>1
<1>3. L = m
  BY <1>1, <1>2
<1> QED
  BY <1>3 DEF L

(* The last place after one more character. *)
LEMMA LastOfAppend ==
    ASSUME NEW S, NEW s \in Seq(S), NEW x \in S, NEW opers
    PROVE  LastOf(Append(s, x), opers) =
             IF x \in opers THEN Len(s) + 1 ELSE LastOf(s, opers)
<1> DEFINE a == Append(s, x)
           m == IF x \in opers THEN Len(s) + 1 ELSE LastOf(s, opers)
<1>1. /\ a \in Seq(S) /\ Len(a) = Len(s) + 1 /\ Len(s) \in Nat
      /\ \A k \in 1..Len(s) : a[k] = s[k]
      /\ a[Len(s) + 1] = x
  OBVIOUS
<1>2. /\ LastOf(s, opers) \in 0..Len(s)
      /\ LastOf(s, opers) # 0 => s[LastOf(s, opers)] \in opers
      /\ \A k \in 1..Len(s) : LastOf(s, opers) < k => s[k] \notin opers
  BY LastOfFacts
<1> HIDE DEF a
<1>3. /\ m \in 0..Len(a)
      /\ m # 0 => a[m] \in opers
  BY <1>1, <1>2
<1>4. ASSUME NEW k \in 1..Len(a), m < k PROVE a[k] \notin opers
  BY <1>1, <1>2, <1>4
<1> HIDE DEF m
<1>5. LastOf(a, opers) = m
  BY <1>1, <1>3, <1>4, LastOfUnique
<1> QED
  BY <1>5 DEF a, m

(* Nothing typed has no operator. *)
LEMMA LastOfEmpty ==
    ASSUME NEW opers
    PROVE  LastOf(<<>>, opers) = 0
<1>1. <<>> \in Seq({}) /\ Len(<<>>) = 0
  OBVIOUS
<1>2. LastOf(<<>>, opers) \in 0..Len(<<>>)
  BY <1>1, LastOfFacts
<1>3. \A n \in 0..Len(<<>>) : n = 0
  BY <1>1
<1> QED
  BY <1>2, <1>3

(* The characters before place i. *)
LEMMA BeforeFacts ==
    ASSUME NEW S, NEW s \in Seq(S), NEW i \in 1..(Len(s) + 1)
    PROVE  /\ Before(s, i) \in Seq(S)
           /\ Len(Before(s, i)) = i - 1
           /\ \A k \in 1..(i - 1) : Before(s, i)[k] = s[k]
  BY DEF Before

(* The characters behind place i. *)
LEMMA BehindFacts ==
    ASSUME NEW S, NEW s \in Seq(S), NEW i \in 0..Len(s)
    PROVE  /\ Behind(s, i) \in Seq(S)
           /\ Len(Behind(s, i)) = Len(s) - i
           /\ \A k \in 1..(Len(s) - i) : Behind(s, i)[k] = s[i + k]
  BY DEF Behind

(* One more character changes nothing before a place that was there, or    *)
(* was the next one.                                                       *)
LEMMA BeforeAppend ==
    ASSUME NEW S, NEW s \in Seq(S), NEW x \in S, NEW i \in 1..(Len(s) + 1)
    PROVE  Before(Append(s, x), i) = Before(s, i)
<1> DEFINE a == Append(s, x)
<1>1. /\ a \in Seq(S) /\ Len(a) = Len(s) + 1 /\ Len(s) \in Nat
      /\ \A k \in 1..Len(s) : a[k] = s[k]
  OBVIOUS
<1> HIDE DEF a
<1>2. /\ Before(a, i) \in Seq(S) /\ Len(Before(a, i)) = i - 1
      /\ \A k \in 1..(i - 1) : Before(a, i)[k] = a[k]
  BY <1>1, BeforeFacts
<1>3. /\ Before(s, i) \in Seq(S) /\ Len(Before(s, i)) = i - 1
      /\ \A k \in 1..(i - 1) : Before(s, i)[k] = s[k]
  BY BeforeFacts
<1>4. Before(a, i) = Before(s, i)
  BY <1>1, <1>2, <1>3, SeqEqual
<1> QED
  BY <1>4 DEF a

(* Everything is before the place after the last one. *)
LEMMA BeforeAll ==
    ASSUME NEW S, NEW s \in Seq(S)
    PROVE  Before(s, Len(s) + 1) = s
<1>1. Len(s) \in Nat
  OBVIOUS
<1>2. /\ Before(s, Len(s) + 1) \in Seq(S) /\ Len(Before(s, Len(s) + 1)) = Len(s)
      /\ \A k \in 1..Len(s) : Before(s, Len(s) + 1)[k] = s[k]
  BY <1>1 DEF Before
<1> QED
  BY <1>2, SeqEqual

(* Everything is behind place 0 and nothing behind the last one. *)
LEMMA BehindNone ==
    ASSUME NEW S, NEW s \in Seq(S)
    PROVE  Behind(s, 0) = s /\ Behind(s, Len(s)) = <<>>
<1>1. Len(s) \in Nat /\ 0 \in 0..Len(s)
  OBVIOUS
<1>2. /\ Behind(s, 0) \in Seq(S) /\ Len(Behind(s, 0)) = Len(s)
      /\ \A k \in 1..Len(s) : Behind(s, 0)[k] = s[k]
  BY <1>1, BehindFacts
<1>3. Behind(s, 0) = s
  BY <1>2, SeqEqual
<1>4. Behind(s, Len(s)) \in Seq(S) /\ Len(Behind(s, Len(s))) = 0
  BY <1>1, BehindFacts
<1>5. Behind(s, Len(s)) = <<>>
  BY <1>4, EmptySeq
<1> QED
  BY <1>3, <1>5

(* One more character comes to the end of what is behind a place. *)
LEMMA BehindAppend ==
    ASSUME NEW S, NEW s \in Seq(S), NEW x \in S, NEW i \in 0..Len(s)
    PROVE  Behind(Append(s, x), i) = Append(Behind(s, i), x)
<1> DEFINE a == Append(s, x)
           b == Behind(s, i)
           d == Behind(a, i)
           e == Append(b, x)
<1>1. /\ a \in Seq(S) /\ Len(a) = Len(s) + 1 /\ Len(s) \in Nat
      /\ \A k \in 1..Len(s) : a[k] = s[k]
      /\ a[Len(s) + 1] = x
  OBVIOUS
<1>2. /\ b \in Seq(S) /\ Len(b) = Len(s) - i
      /\ \A k \in 1..(Len(s) - i) : b[k] = s[i + k]
  BY BehindFacts
<1> HIDE DEF a, b
<1>3. /\ d \in Seq(S) /\ Len(d) = Len(s) + 1 - i
      /\ \A k \in 1..(Len(s) + 1 - i) : d[k] = a[i + k]
  BY <1>1 DEF Behind
<1>4. /\ e \in Seq(S) /\ Len(e) = Len(b) + 1
      /\ \A k \in 1..Len(b) : e[k] = b[k]
      /\ e[Len(b) + 1] = x
  BY <1>2
<1> HIDE DEF d, e
<1>5. ASSUME NEW k \in 1..Len(d) PROVE d[k] = e[k]
  <2>1. CASE k <= Len(s) - i
    <3>1. i + k \in 1..Len(s) /\ k \in 1..(Len(s) - i)
      BY <1>1, <2>1
    <3> QED
      BY <1>1, <1>2, <1>3, <1>4, <3>1
  <2>2. CASE k = Len(s) + 1 - i
    BY <1>1, <1>2, <1>3, <1>4, <2>2
  <2> QED
    BY <1>1, <1>3, <2>1, <2>2
<1>6. Len(d) = Len(e)
  BY <1>1, <1>2, <1>3, <1>4
<1>7. d = e
  BY <1>3, <1>4, <1>5, <1>6, SeqEqual
<1> QED
  BY <1>7 DEF a, b, d, e

(* A sequence is over every set that has its elements. *)
LEMMA SeqNarrowed ==
    ASSUME NEW S, NEW s \in Seq(S), NEW U, \A k \in 1..Len(s) : s[k] \in U
    PROVE  s \in Seq(U)
  OBVIOUS

(* Front and Last take an Append apart. *)
LEMMA FrontLast ==
    ASSUME NEW S, NEW s \in Seq(S), NEW x \in S
    PROVE  /\ Append(s, x) \in Seq(S) \ {<<>>}
           /\ Front(Append(s, x)) = s
           /\ Last(Append(s, x)) = x
<1> DEFINE a == Append(s, x)
<1>1. /\ a \in Seq(S) /\ Len(a) = Len(s) + 1 /\ Len(s) \in Nat
      /\ a[Len(s) + 1] = x
  OBVIOUS
<1>2. Front(a) = Before(a, Len(s) + 1) /\ Last(a) = x
  BY <1>1 DEF Front, Last, Before
<1>3. Before(a, Len(s) + 1) = s
  BY <1>1, BeforeAppend, BeforeAll
<1>4. a # <<>>
  BY <1>1
<1> QED
  BY <1>1, <1>2, <1>3, <1>4

(* Front is shorter by one. *)
LEMMA FrontFacts ==
    ASSUME NEW S, NEW s \in Seq(S) \ {<<>>}
    PROVE  Front(s) \in Seq(S) /\ Len(Front(s)) = Len(s) - 1 /\ Last(s) \in S
<1>1. Len(s) \in Nat /\ Len(s) # 0 /\ s \in Seq(S)
  OBVIOUS
<1>2. Before(s, Len(s)) \in Seq(S) /\ Len(Before(s, Len(s))) = Len(s) - 1
  BY <1>1, BeforeFacts
<1> QED
  BY <1>1, <1>2 DEF Front, Last, Before

-----------------------------------------------------------------------------
(* 3. Induction and recursion over the keys typed so far. *)

(* Induction over sequences that grow at the end, for a set. *)
LEMMA SeqInduction ==
    ASSUME NEW S, NEW T, <<>> \in T,
           \A s \in Seq(S) : s \in T => \A x \in S : Append(s, x) \in T
    PROVE  Seq(S) \subseteq T
<1> DEFINE N == {n \in Nat : \A s \in Seq(S) : Len(s) = n => s \in T}
<1>1. 0 \in N
  BY EmptySeq
<1>2. ASSUME NEW n \in N PROVE n + 1 \in N
  <2> SUFFICES ASSUME NEW s \in Seq(S), Len(s) = n + 1 PROVE s \in T
    OBVIOUS
  <2>1. s # <<>>
    OBVIOUS
  <2>2. PICK u \in Seq(S), x \in S : s = Append(u, x)
    BY <2>1, SequenceEmptyOrAppend
  <2>3. Len(u) = n
    BY <2>2, AppendProperties
  <2> QED
    BY <2>2, <2>3
<1>3. N = Nat
  BY <1>1, <1>2, NatSetInduction
<1>4. ASSUME NEW s \in Seq(S) PROVE s \in T
  <2>1. Len(s) \in N
    BY <1>3
  <2> QED
    BY <2>1
<1> QED
  BY <1>4

(* g gives b for the empty sequence and F of the value so far and the next *)
(* element otherwise.                                                      *)
FoldsTo(g, S, V, b, F) ==
    /\ g \in [Seq(S) -> V]
    /\ g[<<>>] = b
    /\ \A s \in Seq(S), x \in S : g[Append(s, x)] = F[<<g[s], x>>]

(* A loop over a sequence, as a function of the sequence, exists. *)
LEMMA SeqRecursion ==
    ASSUME NEW S, NEW V, NEW b \in V, NEW F \in [V \X S -> V]
    PROVE  \E g : FoldsTo(g, S, V, b, F)
<1> DEFINE D == Seq(S)
           M == [s \in D |-> Len(s)]
           R == D \ {<<>>}
           Q == [s \in R |-> Front(s)]
           B == [s \in D |-> b]
           G == [p \in V \X D |-> IF p[2] \in R THEN F[<<p[1], Last(p[2])>>] ELSE b]
<1>1. Descends(D, M, R, Q)
  <2>1. ASSUME NEW s \in R PROVE Front(s) \in D /\ Len(Front(s)) < Len(s)
    <3>1. s \in Seq(S) \ {<<>>} /\ Len(s) \in Nat
      OBVIOUS
    <3>2. Front(s) \in Seq(S) /\ Len(Front(s)) = Len(s) - 1
      BY <3>1, FrontFacts
    <3> QED
      BY <3>1, <3>2
  <2> QED
    BY <2>1 DEF Descends
<1>2. B \in [D -> V]
  OBVIOUS
<1>3. G \in [V \X D -> V]
  <2>1. ASSUME NEW p \in V \X D, p[2] \in R PROVE F[<<p[1], Last(p[2])>>] \in V
    <3>1. <<p[1], Last(p[2])>> \in V \X S
      BY <2>1, FrontFacts
    <3> QED
      BY <3>1
  <2> QED
    BY <2>1
<1> HIDE DEF D, M, R, Q, B, G
<1>4. PICK g : Solves(g, D, V, R, Q, B, G)
  BY <1>1, <1>2, <1>3, RecursionExists
<1>5. g \in [D -> V] /\ \A s \in D : g[s] = IF s \in R THEN G[<<g[Q[s]], s>>] ELSE B[s]
  BY <1>4 DEF Solves
<1>6. g[<<>>] = b
  <2>1. <<>> \in D /\ <<>> \notin R
    BY EmptySeq DEF D, R
  <2> QED
    BY <1>5, <2>1 DEF B
<1>7. ASSUME NEW s \in D, NEW x \in S PROVE g[Append(s, x)] = F[<<g[s], x>>]
  <2> DEFINE a == Append(s, x)
  <2>1. a \in D /\ a \in R /\ Front(a) = s /\ Last(a) = x
    BY FrontLast DEF D, R
  <2> HIDE DEF a
  <2>2. Q[a] = s /\ g[s] \in V
    BY <1>5, <2>1 DEF Q
  <2>3. g[a] = G[<<g[s], a>>]
    BY <1>5, <2>1, <2>2
  <2>4. G[<<g[s], a>>] = F[<<g[s], x>>]
    BY <2>1, <2>2 DEF G
  <2> QED
    BY <2>3, <2>4 DEF a
<1> QED
  BY <1>5, <1>6, <1>7 DEF FoldsTo, D

-----------------------------------------------------------------------------
(* 4. The recursive functions of the model: equations and types. *)

(* c[i] - '0' of a digit is 0 to 9. *)
LEMMA ValueType == value \in [DigitKeys -> 0..9]
<1> DEFINE digits == <<"0", "1", "2", "3", "4", "5", "6", "7", "8", "9">>
<1>1. ASSUME NEW k \in DigitKeys PROVE \E n \in 0..9 : digits[n + 1] = k
  BY DEF DigitKeys
<1>2. ASSUME NEW k \in DigitKeys PROVE (CHOOSE n \in 0..9 : digits[n + 1] = k) \in 0..9
  BY <1>1
<1> QED
  BY <1>2 DEF value

(* The equation and the type of the number that digits spell. *)
LEMMA NumberFacts ==
    /\ Number \in [Seq(DigitKeys) -> Nat]
    /\ Number[<<>>] = 0
    /\ \A s \in Seq(DigitKeys), d \in DigitKeys :
           Number[Append(s, d)] = Number[s] * 10 + value[d]
<1> DEFINE D == Seq(DigitKeys)
           F == [p \in Nat \X DigitKeys |-> p[1] * 10 + value[p[2]]]
<1>1. \A k \in DigitKeys : value[k] \in Nat
  BY ValueType
<1>2. F \in [Nat \X DigitKeys -> Nat]
  BY <1>1
<1>3. PICK h : FoldsTo(h, DigitKeys, Nat, 0, F)
  <2> HIDE DEF F
  <2>1. 0 \in Nat
    OBVIOUS
  <2> QED
    BY <1>2, <2>1, SeqRecursion
<1>4. h \in [D -> Nat] /\ h[<<>>] = 0
  BY <1>3 DEF FoldsTo
<1>5. ASSUME NEW s \in D, NEW d \in DigitKeys
      PROVE  h[Append(s, d)] = h[s] * 10 + value[d]
  <2>1. h[Append(s, d)] = F[<<h[s], d>>] /\ h[s] \in Nat
    BY <1>3 DEF FoldsTo
  <2> QED
    BY <2>1
<1> DEFINE Body(g, s) == IF s = <<>> THEN 0 ELSE g[Front(s)] * 10 + value[Last(s)]
<1> HIDE DEF F, D
<1>6. ASSUME NEW g, NEW s \in D, NEW d \in DigitKeys
      PROVE  Body(g, Append(s, d)) = g[s] * 10 + value[d]
  <2>1. Append(s, d) # <<>> /\ Front(Append(s, d)) = s /\ Last(Append(s, d)) = d
    BY FrontLast DEF D
  <2> QED
    BY <2>1
<1>7. ASSUME NEW s \in D PROVE h[s] = Body(h, s)
  <2>1. CASE s = <<>>
    BY <1>4, <2>1
  <2>2. CASE s # <<>>
    <3>1. PICK u \in D, d \in DigitKeys : s = Append(u, d)
      BY <2>2, SequenceEmptyOrAppend DEF D
    <3> QED
      BY <1>5, <1>6, <3>1
  <2> QED
    BY <2>1, <2>2
<1>8. h = [s \in D |-> Body(h, s)]
  BY <1>4, <1>7
<1>9. Number = [s \in D |-> Body(Number, s)]
  BY <1>8 DEF Number, D
<1>10. Number[<<>>] = 0
  BY <1>9, EmptySeq DEF D
<1>11. ASSUME NEW s \in D, NEW d \in DigitKeys
       PROVE  Number[Append(s, d)] = Number[s] * 10 + value[d]
  <2>1. Append(s, d) \in D
    BY FrontLast DEF D
  <2> HIDE DEF Body
  <2> QED
    BY <1>6, <1>9, <2>1
<1> DEFINE T == {s \in D : Number[s] = h[s]}
<1>12. D \subseteq T
  <2>1. <<>> \in T
    BY <1>4, <1>10, EmptySeq DEF D
  <2>2. ASSUME NEW s \in D, s \in T, NEW d \in DigitKeys PROVE Append(s, d) \in T
    <3>1. Append(s, d) \in D
      BY FrontLast DEF D
    <3> QED
      BY <1>5, <1>11, <2>2, <3>1
  <2> HIDE DEF T
  <2> QED
    BY <2>1, <2>2, SeqInduction DEF D
<1>13. Number \in [D -> Nat]
  <2>1. \A s \in D : Number[s] \in Nat
    BY <1>4, <1>12
  <2> HIDE DEF Body
  <2> QED
    BY <1>9, <2>1
<1> QED
  BY <1>10, <1>11, <1>13 DEF D

(* The elements of c_new, and the states of the two loops. *)
Pairs      == Int \X Operators
Conversion == [tmp : Nat, new : Seq(Pairs)]
Evaluation == [first : Int, first_oper : Operators, second : Int,
               second_oper : Operators, trap : BOOLEAN]

(* A character keeps the state of the conversion in its type. *)
LEMMA TakeType ==
    ASSUME NEW acc \in Conversion, NEW ch \in Chars
    PROVE  take(acc, ch) \in Conversion
<1>1. CASE ch \in Operators
  <2>1. stored(acc.tmp) \in Int
    BY DEF stored, Conversion
  <2>2. <<stored(acc.tmp), ch>> \in Pairs
    BY <1>1, <2>1 DEF Pairs
  <2>3. Append(acc.new, <<stored(acc.tmp), ch>>) \in Seq(Pairs)
    BY <2>2 DEF Conversion
  <2> QED
    BY <1>1, <2>3 DEF take, Conversion
<1>2. CASE ch \notin Operators
  <2>1. ch \in DigitKeys /\ value[ch] \in Nat
    BY <1>2, ValueType DEF Chars
  <2> QED
    BY <1>2, <2>1 DEF take, Conversion
<1> QED
  BY <1>1, <1>2

(* A division by anything but zero has an integer result. *)
LEMMA QuotientType ==
    ASSUME NEW a \in Int, NEW b \in Int, b # 0
    PROVE  Quotient(a, b) \in Int
<1>1. abs(a) \in Nat /\ abs(b) \in Nat /\ abs(b) > 0
  BY DEF abs
<1>2. abs(a) \div abs(b) \in Int
  BY <1>1
<1> QED
  BY <1>2 DEF Quotient

(* A pair keeps the state of the evaluation in its type. *)
LEMMA StepType ==
    ASSUME NEW acc \in Evaluation, NEW pair \in Pairs
    PROVE  step(acc, pair) \in Evaluation
<1>1. CASE acc.trap \/ acc.first_oper = "="
  BY <1>1 DEF step
<1>2. CASE ~(acc.trap \/ acc.first_oper = "=")
  <2>1. CASE acc.second_oper = "/" /\ pair[1] = 0
    BY <1>2, <2>1 DEF step, Evaluation
  <2>2. CASE ~(acc.second_oper = "/" /\ pair[1] = 0)
    <3>1. acc.second \in Int /\ acc.first \in Int /\ pair[1] \in Int /\ pair[2] \in Operators
      BY DEF Evaluation, Pairs
    <3>2. product(acc, pair[1]) \in Int
      BY <2>2, <3>1, QuotientType DEF product
    <3>3. sum(acc, product(acc, pair[1]), pair[2]) \in Int
      BY <3>1, <3>2 DEF sum
    <3>4. "+" \in Operators
      BY DEF Operators
    <3> QED
      BY <1>2, <2>2, <3>1, <3>2, <3>3, <3>4 DEF step, Evaluation
  <2> QED
    BY <2>1, <2>2
<1> QED
  BY <1>1, <1>2

(* The equation and the type of the conversion loop of main. *)
LEMMA ConvertFacts ==
    /\ convert \in [Seq(Chars) -> Conversion]
    /\ convert[<<>>] = [tmp |-> 0, new |-> <<>>]
    /\ \A s \in Seq(Chars), x \in Chars : convert[Append(s, x)] = take(convert[s], x)
<1> DEFINE D == Seq(Chars)
           F == [p \in Conversion \X Chars |-> take(p[1], p[2])]
<1>1. [tmp |-> 0, new |-> <<>>] \in Conversion
  BY EmptySeq DEF Conversion
<1>2. F \in [Conversion \X Chars -> Conversion]
  BY TakeType
<1>3. PICK h : FoldsTo(h, Chars, Conversion, [tmp |-> 0, new |-> <<>>], F)
  <2> HIDE DEF F
  <2> QED
    BY <1>1, <1>2, SeqRecursion
<1>4. h \in [D -> Conversion] /\ h[<<>>] = [tmp |-> 0, new |-> <<>>]
  BY <1>3 DEF FoldsTo
<1>5. ASSUME NEW s \in D, NEW x \in Chars
      PROVE  h[Append(s, x)] = take(h[s], x)
  <2>1. h[Append(s, x)] = F[<<h[s], x>>] /\ h[s] \in Conversion
    BY <1>3 DEF FoldsTo
  <2> QED
    BY <2>1
<1> DEFINE Body(g, s) == IF s = <<>> THEN [tmp |-> 0, new |-> <<>>] ELSE take(g[Front(s)], Last(s))
<1> HIDE DEF F, D
<1>6. ASSUME NEW g, NEW s \in D, NEW x \in Chars
      PROVE  Body(g, Append(s, x)) = take(g[s], x)
  <2>1. Append(s, x) # <<>> /\ Front(Append(s, x)) = s /\ Last(Append(s, x)) = x
    BY FrontLast DEF D
  <2> QED
    BY <2>1
<1>7. ASSUME NEW s \in D PROVE h[s] = Body(h, s)
  <2>1. CASE s = <<>>
    BY <1>4, <2>1
  <2>2. CASE s # <<>>
    <3>1. PICK u \in D, x \in Chars : s = Append(u, x)
      BY <2>2, SequenceEmptyOrAppend DEF D
    <3> HIDE DEF Body
    <3> QED
      BY <1>5, <1>6, <3>1
  <2> QED
    BY <2>1, <2>2
<1>8. h = [s \in D |-> Body(h, s)]
  <2> HIDE DEF Body
  <2> QED
    BY <1>4, <1>7
<1>9. convert = [s \in D |-> Body(convert, s)]
  BY <1>8 DEF convert, D
<1>10. convert[<<>>] = [tmp |-> 0, new |-> <<>>]
  BY <1>9, EmptySeq DEF D
<1>11. ASSUME NEW s \in D, NEW x \in Chars
       PROVE  convert[Append(s, x)] = take(convert[s], x)
  <2>1. Append(s, x) \in D
    BY FrontLast DEF D
  <2> HIDE DEF Body
  <2> QED
    BY <1>6, <1>9, <2>1
<1> DEFINE T == {s \in D : convert[s] = h[s]}
<1>12. D \subseteq T
  <2>1. <<>> \in T
    BY <1>4, <1>10, EmptySeq DEF D
  <2>2. ASSUME NEW s \in D, s \in T, NEW x \in Chars PROVE Append(s, x) \in T
    <3>1. Append(s, x) \in D
      BY FrontLast DEF D
    <3> QED
      BY <1>5, <1>11, <2>2, <3>1
  <2> HIDE DEF T
  <2> QED
    BY <2>1, <2>2, SeqInduction DEF D
<1>13. convert \in [D -> Conversion]
  <2>1. \A s \in D : convert[s] \in Conversion
    BY <1>4, <1>12
  <2> HIDE DEF Body
  <2> QED
    BY <1>9, <2>1
<1> QED
  BY <1>10, <1>11, <1>13 DEF D

(* The state of the evaluation before the first pair. *)
Start == [first |-> 0, first_oper |-> "+", second |-> 0, second_oper |-> "+", trap |-> FALSE]

(* The equation and the type of the loops of calculator. *)
LEMMA CalculatorFacts ==
    /\ calculator \in [Seq(Pairs) -> Evaluation]
    /\ calculator[<<>>] = Start
    /\ \A s \in Seq(Pairs), x \in Pairs : calculator[Append(s, x)] = step(calculator[s], x)
<1> DEFINE D == Seq(Pairs)
           F == [p \in Evaluation \X Pairs |-> step(p[1], p[2])]
<1>1. Start \in Evaluation
  BY DEF Start, Evaluation, Operators
<1>2. F \in [Evaluation \X Pairs -> Evaluation]
  BY StepType
<1>3. PICK h : FoldsTo(h, Pairs, Evaluation, Start, F)
  <2> HIDE DEF F
  <2> QED
    BY <1>1, <1>2, SeqRecursion
<1>4. h \in [D -> Evaluation] /\ h[<<>>] = Start
  BY <1>3 DEF FoldsTo
<1>5. ASSUME NEW s \in D, NEW x \in Pairs
      PROVE  h[Append(s, x)] = step(h[s], x)
  <2>1. h[Append(s, x)] = F[<<h[s], x>>] /\ h[s] \in Evaluation
    BY <1>3 DEF FoldsTo
  <2> QED
    BY <2>1
<1> DEFINE Body(g, s) == IF s = <<>> THEN Start ELSE step(g[Front(s)], Last(s))
<1> HIDE DEF F, D
<1>6. ASSUME NEW g, NEW s \in D, NEW x \in Pairs
      PROVE  Body(g, Append(s, x)) = step(g[s], x)
  <2>1. Append(s, x) # <<>> /\ Front(Append(s, x)) = s /\ Last(Append(s, x)) = x
    BY FrontLast DEF D
  <2> QED
    BY <2>1
<1>7. ASSUME NEW s \in D PROVE h[s] = Body(h, s)
  <2>1. CASE s = <<>>
    BY <1>4, <2>1
  <2>2. CASE s # <<>>
    <3>1. PICK u \in D, x \in Pairs : s = Append(u, x)
      BY <2>2, SequenceEmptyOrAppend DEF D
    <3> HIDE DEF Body
    <3> QED
      BY <1>5, <1>6, <3>1
  <2> QED
    BY <2>1, <2>2
<1>8. h = [s \in D |-> Body(h, s)]
  <2> HIDE DEF Body
  <2> QED
    BY <1>4, <1>7
<1>9. calculator = [s \in D |-> Body(calculator, s)]
  BY <1>8 DEF calculator, D, Pairs, Start
<1>10. calculator[<<>>] = Start
  BY <1>9, EmptySeq DEF D
<1>11. ASSUME NEW s \in D, NEW x \in Pairs
       PROVE  calculator[Append(s, x)] = step(calculator[s], x)
  <2>1. Append(s, x) \in D
    BY FrontLast DEF D
  <2> HIDE DEF Body
  <2> QED
    BY <1>6, <1>9, <2>1
<1> DEFINE T == {s \in D : calculator[s] = h[s]}
<1>12. D \subseteq T
  <2>1. <<>> \in T
    BY <1>4, <1>10, EmptySeq DEF D
  <2>2. ASSUME NEW s \in D, s \in T, NEW x \in Pairs PROVE Append(s, x) \in T
    <3>1. Append(s, x) \in D
      BY FrontLast DEF D
    <3> QED
      BY <1>5, <1>11, <2>2, <3>1
  <2> HIDE DEF T
  <2> QED
    BY <2>1, <2>2, SeqInduction DEF D
<1>13. calculator \in [D -> Evaluation]
  <2>1. \A s \in D : calculator[s] \in Evaluation
    BY <1>4, <1>12
  <2> HIDE DEF Body
  <2> QED
    BY <1>9, <2>1
<1> QED
  BY <1>10, <1>11, <1>13 DEF D

(* Behind the last of some operators there are none of them. *)
LEMMA BehindLast ==
    ASSUME NEW S, NEW s \in Seq(S), NEW opers
    PROVE  Behind(s, LastOf(s, opers)) \in Seq(S \ opers)
<1> DEFINE L == LastOf(s, opers)
           b == Behind(s, L)
<1>1. L \in 0..Len(s) /\ \A k \in 1..Len(s) : L < k => s[k] \notin opers
  BY LastOfFacts
<1> HIDE DEF L
<1>2. /\ b \in Seq(S) /\ Len(b) = Len(s) - L
      /\ \A k \in 1..(Len(s) - L) : b[k] = s[L + k]
  BY <1>1, BehindFacts
<1> HIDE DEF b
<1>3. Len(s) \in Nat /\ \A k \in 1..Len(s) : s[k] \in S
  OBVIOUS
<1>4. ASSUME NEW k \in 1..Len(b) PROVE b[k] \in S \ opers
  <2>1. L + k \in 1..Len(s) /\ L < L + k /\ k \in 1..(Len(s) - L)
    BY <1>1, <1>2, <1>3
  <2> QED
    BY <1>1, <1>2, <1>3, <2>1
<1>5. b \in Seq(S \ opers)
  BY <1>2, <1>4, SeqNarrowed
<1> QED
  BY <1>5 DEF b, L

(* What is before the last operator is shorter. *)
LEMMA BeforeLast ==
    ASSUME NEW S, NEW s \in Seq(S), NEW opers, LastOf(s, opers) # 0
    PROVE  /\ Before(s, LastOf(s, opers)) \in Seq(S)
           /\ Len(Before(s, LastOf(s, opers))) < Len(s)
<1>1. LastOf(s, opers) \in 1..Len(s) /\ Len(s) \in Nat
  BY LastOfFacts
<1>2. LastOf(s, opers) \in 1..(Len(s) + 1)
  BY <1>1
<1>3. /\ Before(s, LastOf(s, opers)) \in Seq(S)
      /\ Len(Before(s, LastOf(s, opers))) = LastOf(s, opers) - 1
  BY <1>2, BeforeFacts
<1> QED
  BY <1>1, <1>3

(* The characters of an operand, a term, an expression and the buffer      *)
(* differ by the operators between them.                                   *)
LEMMA CharSets ==
    /\ TermChars \ {"*", "/"} = DigitKeys
    /\ ExpressionChars \ {"+", "-"} = TermChars
    /\ Chars \ Operators = DigitKeys
    /\ Chars \ {"="} = ExpressionChars
    /\ DigitKeys \cap Operators = {}
  BY DEF TermChars, ExpressionChars, DigitKeys, Chars, Operators

(* What the reference does with the operator it splits at. *)
Multiply(a, oper, n) ==
    IF oper = "*" THEN a * n ELSE IF n = 0 THEN 0 ELSE Quotient(a, n)
AddUp(a, oper, t) == IF oper = "+" THEN a + t ELSE a - t

(* Both give integers. *)
LEMMA JoinTypes ==
    ASSUME NEW a \in Int, NEW oper, NEW n \in Int
    PROVE  Multiply(a, oper, n) \in Int /\ AddUp(a, oper, n) \in Int
<1>1. a * n \in Int /\ a + n \in Int /\ a - n \in Int
  OBVIOUS
<1>2. n # 0 => Quotient(a, n) \in Int
  BY QuotientType
<1> QED
  BY <1>1, <1>2 DEF Multiply, AddUp

(* The equation and the type of the value of a term. *)
LEMMA TermFacts ==
    /\ Term \in [Seq(TermChars) -> Int]
    /\ \A s \in Seq(TermChars) :
           Term[s] = LET j == LastOf(s, {"*", "/"})
                          n == Number[Behind(s, j)]
                      IN  IF j = 0 THEN n ELSE Multiply(Term[Before(s, j)], s[j], n)
<1> DEFINE D == Seq(TermChars)
           M == [s \in D |-> Len(s)]
           j(s) == LastOf(s, {"*", "/"})
           n(s) == Number[Behind(s, j(s))]
           R == {s \in D : j(s) # 0}
           Q == [s \in R |-> Before(s, j(s))]
           B == [s \in D |-> n(s)]
           F == [p \in Int \X D |-> Multiply(p[1], p[2][j(p[2])], n(p[2]))]
           Body(g, s) == IF j(s) = 0 THEN n(s) ELSE Multiply(g[Before(s, j(s))], s[j(s)], n(s))
<1>1. ASSUME NEW s \in D PROVE n(s) \in Int
  <2>1. Behind(s, j(s)) \in Seq(DigitKeys)
    BY BehindLast, CharSets
  <2> QED
    BY <2>1, NumberFacts
<1>2. ASSUME NEW s \in R PROVE Before(s, j(s)) \in D /\ Len(Before(s, j(s))) < Len(s)
  BY BeforeLast
<1> HIDE DEF n, j
<1>3. Descends(D, M, R, Q)
  BY <1>2 DEF Descends
<1>4. B \in [D -> Int]
  BY <1>1
<1>5. F \in [Int \X D -> Int]
  BY <1>1, JoinTypes
<1> HIDE DEF D, M, R, Q, B, F
<1>6. PICK h : Solves(h, D, Int, R, Q, B, F)
  BY <1>3, <1>4, <1>5, RecursionExists
<1>7. h \in [D -> Int]
  BY <1>6 DEF Solves
<1>8. ASSUME NEW s \in D PROVE h[s] = Body(h, s)
  <2>1. h[s] = IF s \in R THEN F[<<h[Q[s]], s>>] ELSE B[s]
    BY <1>6 DEF Solves
  <2>2. CASE s \in R
    <3>1. Q[s] = Before(s, j(s)) /\ Q[s] \in D /\ j(s) # 0
      BY <1>2, <2>2 DEF Q, R
    <3>2. h[Q[s]] \in Int
      BY <1>7, <3>1
    <3>3. F[<<h[Q[s]], s>>] = Multiply(h[Q[s]], s[j(s)], n(s))
      BY <3>2 DEF F
    <3> QED
      BY <2>1, <2>2, <3>1, <3>3
  <2>3. CASE s \notin R
    <3>1. j(s) = 0
      BY <2>3 DEF R
    <3> QED
      BY <2>1, <2>3, <3>1 DEF B
  <2> QED
    BY <2>2, <2>3
<1>9. h = [s \in D |-> Body(h, s)]
  <2> HIDE DEF Body
  <2> QED
    BY <1>7, <1>8
<1>10. Term = [s \in D |-> Body(Term, s)]
  BY <1>9 DEF Term, D, n, j, Multiply
<1> DEFINE T == {s \in D : Term[s] = h[s]}
<1>11. T = D
  <2>1. ASSUME NEW s \in D, s \in R => Q[s] \in T PROVE s \in T
    <3>1. Term[s] = Body(Term, s) /\ h[s] = Body(h, s)
      <4> HIDE DEF Body
      <4> QED
        BY <1>8, <1>10
    <3>2. CASE s \in R
      <4>1. Q[s] = Before(s, j(s)) /\ Term[Q[s]] = h[Q[s]]
        BY <2>1, <3>2 DEF Q
      <4> QED
        BY <3>1, <4>1
    <3>3. CASE s \notin R
      <4>1. j(s) = 0
        BY <3>3 DEF R
      <4> QED
        BY <3>1, <4>1
    <3> QED
      BY <3>2, <3>3
  <2>2. Inductive(T, D, R, Q) /\ T \subseteq D
    BY <2>1 DEF Inductive
  <2> HIDE DEF T, Body
  <2> QED
    BY <1>3, <2>2, MeasureInduction
<1>12. Term \in [D -> Int]
  <2>1. \A s \in D : Term[s] \in Int
    BY <1>7, <1>11
  <2> HIDE DEF Body
  <2> QED
    BY <1>10, <2>1
<1>13. ASSUME NEW s \in D PROVE Term[s] = Body(Term, s)
  <2> HIDE DEF Body
  <2> QED
    BY <1>10
<1> QED
  BY <1>12, <1>13 DEF D, n, j

(* The equation and the type of the value of an expression. *)
LEMMA ValueFacts ==
    /\ Value \in [Seq(ExpressionChars) -> Int]
    /\ \A s \in Seq(ExpressionChars) :
           Value[s] = LET j == LastOf(s, {"+", "-"})
                          n == Term[Behind(s, j)]
                      IN  IF j = 0 THEN n ELSE AddUp(Value[Before(s, j)], s[j], n)
<1> DEFINE D == Seq(ExpressionChars)
           M == [s \in D |-> Len(s)]
           j(s) == LastOf(s, {"+", "-"})
           n(s) == Term[Behind(s, j(s))]
           R == {s \in D : j(s) # 0}
           Q == [s \in R |-> Before(s, j(s))]
           B == [s \in D |-> n(s)]
           F == [p \in Int \X D |-> AddUp(p[1], p[2][j(p[2])], n(p[2]))]
           Body(g, s) == IF j(s) = 0 THEN n(s) ELSE AddUp(g[Before(s, j(s))], s[j(s)], n(s))
<1>1. ASSUME NEW s \in D PROVE n(s) \in Int
  <2>1. Behind(s, j(s)) \in Seq(TermChars)
    BY BehindLast, CharSets
  <2> QED
    BY <2>1, TermFacts
<1>2. ASSUME NEW s \in R PROVE Before(s, j(s)) \in D /\ Len(Before(s, j(s))) < Len(s)
  BY BeforeLast
<1> HIDE DEF n, j
<1>3. Descends(D, M, R, Q)
  BY <1>2 DEF Descends
<1>4. B \in [D -> Int]
  BY <1>1
<1>5. F \in [Int \X D -> Int]
  BY <1>1, JoinTypes
<1> HIDE DEF D, M, R, Q, B, F
<1>6. PICK h : Solves(h, D, Int, R, Q, B, F)
  BY <1>3, <1>4, <1>5, RecursionExists
<1>7. h \in [D -> Int]
  BY <1>6 DEF Solves
<1>8. ASSUME NEW s \in D PROVE h[s] = Body(h, s)
  <2>1. h[s] = IF s \in R THEN F[<<h[Q[s]], s>>] ELSE B[s]
    BY <1>6 DEF Solves
  <2>2. CASE s \in R
    <3>1. Q[s] = Before(s, j(s)) /\ Q[s] \in D /\ j(s) # 0
      BY <1>2, <2>2 DEF Q, R
    <3>2. h[Q[s]] \in Int
      BY <1>7, <3>1
    <3>3. F[<<h[Q[s]], s>>] = AddUp(h[Q[s]], s[j(s)], n(s))
      BY <3>2 DEF F
    <3> QED
      BY <2>1, <2>2, <3>1, <3>3
  <2>3. CASE s \notin R
    <3>1. j(s) = 0
      BY <2>3 DEF R
    <3> QED
      BY <2>1, <2>3, <3>1 DEF B
  <2> QED
    BY <2>2, <2>3
<1>9. h = [s \in D |-> Body(h, s)]
  <2> HIDE DEF Body
  <2> QED
    BY <1>7, <1>8
<1>10. Value = [s \in D |-> Body(Value, s)]
  BY <1>9 DEF Value, D, n, j, AddUp
<1> DEFINE T == {s \in D : Value[s] = h[s]}
<1>11. T = D
  <2>1. ASSUME NEW s \in D, s \in R => Q[s] \in T PROVE s \in T
    <3>1. Value[s] = Body(Value, s) /\ h[s] = Body(h, s)
      <4> HIDE DEF Body
      <4> QED
        BY <1>8, <1>10
    <3>2. CASE s \in R
      <4>1. Q[s] = Before(s, j(s)) /\ Value[Q[s]] = h[Q[s]]
        BY <2>1, <3>2 DEF Q
      <4> QED
        BY <3>1, <4>1
    <3>3. CASE s \notin R
      <4>1. j(s) = 0
        BY <3>3 DEF R
      <4> QED
        BY <3>1, <4>1
    <3> QED
      BY <3>2, <3>3
  <2>2. Inductive(T, D, R, Q) /\ T \subseteq D
    BY <2>1 DEF Inductive
  <2> HIDE DEF T, Body
  <2> QED
    BY <1>3, <2>2, MeasureInduction
<1>12. Value \in [D -> Int]
  <2>1. \A s \in D : Value[s] \in Int
    BY <1>7, <1>11
  <2> HIDE DEF Body
  <2> QED
    BY <1>10, <2>1
<1>13. ASSUME NEW s \in D PROVE Value[s] = Body(Value, s)
  <2> HIDE DEF Body
  <2> QED
    BY <1>10
<1> QED
  BY <1>12, <1>13 DEF D, n, j

-----------------------------------------------------------------------------
(* 5. The one-pass evaluator against the reference. *)

(* An operand below 208 comes back from its char as it was. *)
LEMMA StoredFits ==
    ASSUME NEW tmp \in Nat, tmp < 208
    PROVE  stored(tmp) = tmp
  BY DEF stored

(* The operand being typed, after one more character. *)
LEMMA OperandAppend ==
    ASSUME NEW s \in Seq(Chars), NEW x \in Chars
    PROVE  /\ Behind(s, LastOf(s, Operators)) \in Seq(DigitKeys)
           /\ Operand(s) \in Nat
           /\ x \in Operators => Operand(Append(s, x)) = 0
           /\ x \in DigitKeys => Operand(Append(s, x)) = Operand(s) * 10 + value[x]
<1> DEFINE a == Append(s, x)
           b == Behind(s, LastOf(s, Operators))
<1>1. b \in Seq(DigitKeys)
  BY BehindLast, CharSets
<1>2. Operand(s) = Number[b] /\ Operand(s) \in Nat
  BY <1>1, NumberFacts DEF Operand
<1>3. a \in Seq(Chars) /\ Len(a) = Len(s) + 1
  OBVIOUS
<1>4. ASSUME x \in Operators PROVE Operand(a) = 0
  <2>1. LastOf(a, Operators) = Len(a)
    BY <1>3, <1>4, LastOfAppend
  <2>2. Behind(a, LastOf(a, Operators)) = <<>>
    BY <1>3, <2>1, BehindNone
  <2> QED
    BY <2>2, NumberFacts DEF Operand
<1>5. ASSUME x \in DigitKeys PROVE Operand(a) = Operand(s) * 10 + value[x]
  <2>1. x \notin Operators
    BY <1>5, CharSets
  <2>2. LastOf(a, Operators) = LastOf(s, Operators) /\ LastOf(s, Operators) \in 0..Len(s)
    BY <2>1, LastOfAppend, LastOfFacts
  <2>3. Behind(a, LastOf(a, Operators)) = Append(b, x)
    BY <2>2, BehindAppend
  <2> HIDE DEF a, b
  <2> QED
    BY <1>1, <1>2, <1>5, <2>3, NumberFacts DEF Operand
<1> HIDE DEF a, b
<1> QED
  BY <1>1, <1>2, <1>4, <1>5 DEF a, b

(* tmp of the conversion is the number behind the last operator. *)
LEMMA TmpIsOperand ==
    ASSUME NEW s \in Seq(Chars)
    PROVE  convert[s] \in Conversion /\ convert[s].tmp = Operand(s)
<1> DEFINE T == {u \in Seq(Chars) : convert[u].tmp = Operand(u)}
<1>1. <<>> \in T
  <2>1. convert[<<>>].tmp = 0
    BY ConvertFacts
  <2>2. Behind(<<>>, LastOf(<<>>, Operators)) = <<>>
    BY LastOfEmpty, BehindNone, EmptySeq
  <2> QED
    BY <2>1, <2>2, NumberFacts, EmptySeq DEF Operand
<1>2. ASSUME NEW u \in Seq(Chars), u \in T, NEW x \in Chars PROVE Append(u, x) \in T
  <2> DEFINE a == Append(u, x)
  <2>1. a \in Seq(Chars) /\ convert[a] = take(convert[u], x) /\ convert[u] \in Conversion
    BY ConvertFacts
  <2>2. CASE x \in Operators
    <3>1. convert[a].tmp = 0
      BY <2>1, <2>2 DEF take
    <3> QED
      BY <2>1, <2>2, <3>1, OperandAppend
  <2>3. CASE x \notin Operators
    <3>1. x \in DigitKeys
      BY <2>3 DEF Chars
    <3>2. convert[a].tmp = convert[u].tmp * 10 + value[x]
      BY <2>1, <2>3 DEF take, Conversion
    <3>3. Operand(a) = Operand(u) * 10 + value[x]
      BY <3>1, OperandAppend
    <3> QED
      BY <1>2, <2>1, <3>2, <3>3
  <2> QED
    BY <2>2, <2>3
<1> HIDE DEF T
<1>3. Seq(Chars) \subseteq T
  BY <1>1, <1>2, SeqInduction
<1> QED
  BY <1>3, ConvertFacts DEF T

(* What fits into chars with one more character has fitted before, and an  *)
(* operator ends an operand that fits.                                     *)
LEMMA FitsAppend ==
    ASSUME NEW s \in Seq(Chars), NEW x \in Chars, FitsChar(Append(s, x))
    PROVE  FitsChar(s) /\ (x \in Operators => Operand(s) < 208)
<1> DEFINE a == Append(s, x)
<1>1. /\ Len(a) = Len(s) + 1 /\ Len(s) \in Nat
      /\ \A k \in 1..Len(s) : a[k] = s[k]
      /\ a[Len(s) + 1] = x
  OBVIOUS
<1>2. \A k \in 1..(Len(s) + 1) : Before(a, k) = Before(s, k)
  BY BeforeAppend
<1>3. Before(s, Len(s) + 1) = s
  BY BeforeAll
<1>4. \A i \in 1..Len(a) : a[i] \in Operators => Operand(Before(a, i)) < 208
  BY DEF FitsChar
<1> HIDE DEF a
<1>5. ASSUME NEW i \in 1..Len(s), s[i] \in Operators PROVE Operand(Before(s, i)) < 208
  BY <1>1, <1>2, <1>4, <1>5
<1>6. ASSUME x \in Operators PROVE Operand(s) < 208
  <2>1. Len(s) + 1 \in 1..Len(a) /\ Len(s) + 1 \in 1..(Len(s) + 1)
    BY <1>1
  <2> QED
    BY <1>1, <1>2, <1>3, <1>4, <1>6, <2>1
<1> QED
  BY <1>5, <1>6 DEF FitsChar

(* The running product, with the operand behind the last * or /, is the    *)
(* value of the term.                                                      *)
LEMMA ProductIsTerm ==
    ASSUME NEW r \in Seq(TermChars), NEW acc,
           LET j == LastOf(r, {"*", "/"})
           IN  /\ acc.second_oper = IF j = 0 THEN "+" ELSE r[j]
               /\ j # 0 => acc.second = Term[Before(r, j)],
           NEW n, n = Number[Behind(r, LastOf(r, {"*", "/"}))],
           ~(acc.second_oper = "/" /\ n = 0)
    PROVE  product(acc, n) = Term[r]
<1> DEFINE j == LastOf(r, {"*", "/"})
<1>1. j # 0 => r[j] \in {"*", "/"}
  BY LastOfFacts
<1>2. Term[r] = IF j = 0 THEN n ELSE Multiply(Term[Before(r, j)], r[j], n)
  BY TermFacts
<1>3. /\ acc.second_oper = IF j = 0 THEN "+" ELSE r[j]
      /\ j # 0 => acc.second = Term[Before(r, j)]
  OBVIOUS
<1> HIDE DEF j
<1>4. CASE j = 0
  BY <1>2, <1>3, <1>4 DEF product
<1>5. CASE j # 0 /\ r[j] = "*"
  BY <1>2, <1>3, <1>5 DEF product, Multiply
<1>6. CASE j # 0 /\ r[j] = "/"
  <2>1. n # 0
    BY <1>3, <1>6
  <2> QED
    BY <1>2, <1>3, <1>6, <2>1 DEF product, Multiply
<1> QED
  BY <1>1, <1>4, <1>5, <1>6

(* The running sum, with the term behind the last + or -, is the value of  *)
(* the expression.                                                         *)
LEMMA SumIsValue ==
    ASSUME NEW s \in Seq(ExpressionChars), NEW acc,
           LET i == LastOf(s, {"+", "-"})
           IN  /\ acc.first_oper = IF i = 0 THEN "+" ELSE s[i]
               /\ acc.first = IF i = 0 THEN 0 ELSE Value[Before(s, i)],
           NEW oper
    PROVE  sum(acc, Term[Behind(s, LastOf(s, {"+", "-"}))], oper) = Value[s]
<1> DEFINE i == LastOf(s, {"+", "-"})
           t == Term[Behind(s, i)]
<1>1. i # 0 => s[i] \in {"+", "-"}
  BY LastOfFacts
<1>2. Value[s] = IF i = 0 THEN t ELSE AddUp(Value[Before(s, i)], s[i], t)
  BY ValueFacts
<1>3. /\ acc.first_oper = IF i = 0 THEN "+" ELSE s[i]
      /\ acc.first = IF i = 0 THEN 0 ELSE Value[Before(s, i)]
  OBVIOUS
<1>4. t \in Int
  BY BehindLast, CharSets, TermFacts
<1> HIDE DEF i, t
<1>5. CASE i = 0
  <2>1. sum(acc, t, oper) = 0 + t
    BY <1>3, <1>5 DEF sum
  <2> QED
    BY <1>2, <1>4, <1>5, <2>1 DEF t, i
<1>6. CASE i # 0 /\ s[i] = "+"
  BY <1>2, <1>3, <1>6 DEF sum, AddUp, t, i
<1>7. CASE i # 0 /\ s[i] = "-"
  BY <1>2, <1>3, <1>7 DEF sum, AddUp, t, i
<1> QED
  BY <1>1, <1>5, <1>6, <1>7 DEF t, i

(* The evaluation of the pairs that the keys s have been converted to. *)
Evaluated(s) == calculator[convert[s].new]

(* How far the evaluator is when no '=' has been typed: first holds the    *)
(* value of what is before the last + or -, second the value of what is    *)
(* between it and the last * or /, tmp the operand behind that one.        *)
InStep(s) ==
    LET i == LastOf(s, {"+", "-"})
        r == Behind(s, i)
        j == LastOf(r, {"*", "/"})
        E == Evaluated(s)
    IN  /\ convert[s].tmp = Number[Behind(r, j)]
        /\ FitsChar(s) /\ ~E.trap =>
              /\ E.first_oper = IF i = 0 THEN "+" ELSE s[i]
              /\ E.first = IF i = 0 THEN 0 ELSE Value[Before(s, i)]
              /\ E.second_oper = IF j = 0 THEN "+" ELSE r[j]
              /\ j # 0 => E.second = Term[Before(r, j)]

(* A digit leaves the evaluation as it is. *)
LEMMA EvaluatedDigit ==
    ASSUME NEW s \in Seq(Chars), NEW x \in DigitKeys
    PROVE  Evaluated(Append(s, x)) = Evaluated(s)
<1>1. x \in Chars /\ x \notin Operators
  BY CharSets DEF Chars
<1>2. convert[Append(s, x)] = take(convert[s], x) /\ convert[s] \in Conversion
  BY <1>1, ConvertFacts
<1>3. convert[Append(s, x)].new = convert[s].new
  BY <1>1, <1>2 DEF take, Conversion
<1> QED
  BY <1>3 DEF Evaluated

(* An operator hands the operand before it to the evaluator. *)
LEMMA EvaluatedOperator ==
    ASSUME NEW s \in Seq(Chars), NEW x \in Operators
    PROVE  /\ Evaluated(s) \in Evaluation
           /\ Evaluated(Append(s, x)) = step(Evaluated(s), <<stored(Operand(s)), x>>)
           /\ Evaluated(Append(s, x)) \in Evaluation
<1>1. x \in Chars
  BY DEF Chars
<1>2. convert[Append(s, x)] = take(convert[s], x) /\ convert[s] \in Conversion
  BY <1>1, ConvertFacts
<1>3. convert[s].tmp = Operand(s) /\ convert[s].tmp \in Nat /\ convert[s].new \in Seq(Pairs)
  BY <1>2, TmpIsOperand DEF Conversion
<1>4. convert[Append(s, x)].new = Append(convert[s].new, <<stored(Operand(s)), x>>)
  BY <1>2, <1>3 DEF take
<1>5. <<stored(Operand(s)), x>> \in Pairs
  BY <1>3 DEF stored, Pairs
<1>6. /\ calculator[convert[s].new] \in Evaluation
      /\ calculator[Append(convert[s].new, <<stored(Operand(s)), x>>)]
           = step(calculator[convert[s].new], <<stored(Operand(s)), x>>)
  BY <1>3, <1>5, CalculatorFacts
<1>7. step(calculator[convert[s].new], <<stored(Operand(s)), x>>) \in Evaluation
  BY <1>5, <1>6, StepType
<1> QED
  BY <1>4, <1>6, <1>7 DEF Evaluated

(* Nothing typed: the evaluator is in its first state. *)
LEMMA InStepEmpty == InStep(<<>>)
<1>1. <<>> \in Seq(Chars) /\ <<>> \in Seq(DigitKeys)
  BY EmptySeq
<1>2. LastOf(<<>>, {"+", "-"}) = 0 /\ LastOf(<<>>, {"*", "/"}) = 0
  BY LastOfEmpty
<1>3. Behind(<<>>, 0) = <<>>
  BY <1>1, BehindNone
<1>4. convert[<<>>].tmp = 0 /\ convert[<<>>].new = <<>> /\ Number[<<>>] = 0
  BY ConvertFacts, NumberFacts
<1>5. Evaluated(<<>>) = Start
  BY <1>4, CalculatorFacts DEF Evaluated
<1> QED
  BY <1>2, <1>3, <1>4, <1>5 DEF InStep, Start

(* A digit goes on with the operand. *)
LEMMA InStepDigit ==
    ASSUME NEW s \in Seq(ExpressionChars), InStep(s), NEW x \in DigitKeys
    PROVE  InStep(Append(s, x))
<1> DEFINE a == Append(s, x)
           i == LastOf(s, {"+", "-"})
           r == Behind(s, i)
           j == LastOf(r, {"*", "/"})
           b == Append(r, x)
<1>1. s \in Seq(Chars) /\ x \in Chars /\ x \in ExpressionChars /\ x \in TermChars
  <2>1. ExpressionChars \subseteq Chars
    BY CharSets
  <2> QED
    BY <2>1, SeqMonotonic DEF Chars, ExpressionChars, TermChars
<1>2. x \notin {"+", "-"} /\ x \notin {"*", "/"} /\ x \notin Operators
  BY CharSets DEF Operators
<1>3. i \in 0..Len(s) /\ LastOf(a, {"+", "-"}) = i
  BY <1>1, <1>2, LastOfAppend, LastOfFacts
<1>4. r \in Seq(TermChars)
  BY BehindLast, CharSets
<1>5. Behind(a, i) = b
  BY <1>1, <1>3, BehindAppend
<1> HIDE DEF i, r
<1>6. j \in 0..Len(r) /\ LastOf(b, {"*", "/"}) = j
  BY <1>1, <1>2, <1>4, LastOfAppend, LastOfFacts
<1>7. Behind(r, j) \in Seq(DigitKeys)
  BY <1>4, BehindLast, CharSets
<1>8. Behind(b, j) = Append(Behind(r, j), x)
  BY <1>1, <1>4, <1>6, BehindAppend
<1> HIDE DEF j
<1>9. convert[a].tmp = convert[s].tmp * 10 + value[x]
  BY <1>1, <1>2, ConvertFacts DEF take, Conversion
<1>10. convert[s].tmp = Number[Behind(r, j)]
  BY DEF InStep, i, r, j
<1>11. convert[a].tmp = Number[Behind(b, j)]
  BY <1>7, <1>8, <1>9, <1>10, NumberFacts
<1>12. Evaluated(a) = Evaluated(s)
  BY <1>1, EvaluatedDigit
<1>13. FitsChar(a) => FitsChar(s)
  BY <1>1, FitsAppend
<1>14. i # 0 => a[i] = s[i] /\ Before(a, i) = Before(s, i)
  <2>1. i # 0 => i \in 1..Len(s) /\ i \in 1..(Len(s) + 1)
    BY <1>3
  <2> QED
    BY <1>1, <2>1, BeforeAppend
<1>15. j # 0 => b[j] = r[j] /\ Before(b, j) = Before(r, j)
  <2>1. j # 0 => j \in 1..Len(r) /\ j \in 1..(Len(r) + 1)
    BY <1>4, <1>6
  <2> QED
    BY <1>1, <1>4, <2>1, BeforeAppend
<1>16. FitsChar(s) /\ ~Evaluated(s).trap =>
          /\ Evaluated(s).first_oper = IF i = 0 THEN "+" ELSE s[i]
          /\ Evaluated(s).first = IF i = 0 THEN 0 ELSE Value[Before(s, i)]
          /\ Evaluated(s).second_oper = IF j = 0 THEN "+" ELSE r[j]
          /\ j # 0 => Evaluated(s).second = Term[Before(r, j)]
  BY DEF InStep, i, r, j
<1> HIDE DEF a, b
<1>17. FitsChar(a) /\ ~Evaluated(a).trap =>
          /\ Evaluated(a).first_oper = IF i = 0 THEN "+" ELSE a[i]
          /\ Evaluated(a).first = IF i = 0 THEN 0 ELSE Value[Before(a, i)]
          /\ Evaluated(a).second_oper = IF j = 0 THEN "+" ELSE b[j]
          /\ j # 0 => Evaluated(a).second = Term[Before(b, j)]
  BY <1>12, <1>13, <1>14, <1>15, <1>16
<1>18. InStep(a)
  BY <1>3, <1>5, <1>6, <1>11, <1>17 DEF InStep
<1> QED
  BY <1>18 DEF a

(* What the evaluator has when an operator comes: the operand is stored as *)
(* it was typed, no division by zero is taken, and the running product     *)
(* becomes the value of the term, the running sum that of the expression.  *)
LEMMA AtOperator ==
    ASSUME NEW s \in Seq(ExpressionChars), InStep(s), NEW x \in Operators,
           FitsChar(Append(s, x)), ~Evaluated(Append(s, x)).trap
    PROVE  LET E == Evaluated(s)
               A == Evaluated(Append(s, x))
               t == Term[Behind(s, LastOf(s, {"+", "-"}))]
           IN  /\ FitsChar(s) /\ ~E.trap
               /\ A = IF x \in {"*", "/"}
                      THEN [E EXCEPT !.second = t, !.second_oper = x]
                      ELSE [E EXCEPT !.first = Value[s], !.first_oper = x,
                                     !.second_oper = "+"]
<1> DEFINE a == Append(s, x)
           i == LastOf(s, {"+", "-"})
           r == Behind(s, i)
           j == LastOf(r, {"*", "/"})
           E == Evaluated(s)
           n == Operand(s)
<1>1. s \in Seq(Chars) /\ x \in Chars
  <2>1. ExpressionChars \subseteq Chars
    BY CharSets
  <2> QED
    BY <2>1, SeqMonotonic DEF Chars
<1>2. FitsChar(s) /\ n < 208 /\ n \in Nat
  BY <1>1, FitsAppend, OperandAppend
<1>3. stored(n) = n
  BY <1>2, StoredFits
<1>4. E \in Evaluation /\ Evaluated(a) = step(E, <<n, x>>)
  BY <1>1, <1>3, EvaluatedOperator
<1>5. n = Number[Behind(r, j)]
  BY <1>1, TmpIsOperand DEF InStep
<1>6. r \in Seq(TermChars) /\ i \in 0..Len(s) /\ (i # 0 => s[i] \in {"+", "-"})
  BY BehindLast, CharSets, LastOfFacts
<1>7. ~E.trap
  BY <1>4 DEF step
<1>8. /\ E.first_oper = IF i = 0 THEN "+" ELSE s[i]
      /\ E.first = IF i = 0 THEN 0 ELSE Value[Before(s, i)]
      /\ E.second_oper = IF j = 0 THEN "+" ELSE r[j]
      /\ j # 0 => E.second = Term[Before(r, j)]
  BY <1>2, <1>7 DEF InStep
<1>9. E.first_oper # "="
  BY <1>6, <1>8
<1>10. ~Evaluated(a).trap
  OBVIOUS
<1> HIDE DEF a, E, n, i, r, j
<1>11. ~(E.second_oper = "/" /\ n = 0)
  <2>1. CASE E.second_oper = "/" /\ n = 0
    <3>1. Evaluated(a) = [E EXCEPT !.trap = TRUE]
      BY <1>4, <1>7, <1>9, <2>1 DEF step
    <3>2. Evaluated(a).trap
      BY <1>4, <3>1 DEF Evaluation
    <3> QED
      BY <1>10, <3>2
  <2> QED
    BY <2>1
<1>12. product(E, n) = Term[r]
  BY <1>5, <1>6, <1>8, <1>11, ProductIsTerm DEF j
<1>13. sum(E, Term[r], x) = Value[s]
  BY <1>8, SumIsValue DEF i, r
<1>14. Evaluated(a) = IF x \in {"*", "/"}
                      THEN [E EXCEPT !.second = Term[r], !.second_oper = x]
                      ELSE [E EXCEPT !.first = Value[s], !.first_oper = x,
                                     !.second_oper = "+"]
  BY <1>4, <1>7, <1>9, <1>11, <1>12, <1>13 DEF step
<1> QED
  BY <1>2, <1>7, <1>14 DEF a, E, i, r

(* A * or / completes a factor. *)
LEMMA InStepProduct ==
    ASSUME NEW s \in Seq(ExpressionChars), InStep(s), NEW x \in {"*", "/"}
    PROVE  InStep(Append(s, x))
<1> DEFINE a == Append(s, x)
           i == LastOf(s, {"+", "-"})
           r == Behind(s, i)
           b == Append(r, x)
           m == Len(r) + 1
<1>1. /\ s \in Seq(Chars) /\ x \in Chars /\ x \in Operators
      /\ x \in ExpressionChars /\ x \in TermChars
  <2>1. ExpressionChars \subseteq Chars
    BY CharSets
  <2> QED
    BY <2>1, SeqMonotonic DEF Chars, ExpressionChars, TermChars, Operators
<1>2. i \in 0..Len(s) /\ LastOf(a, {"+", "-"}) = i
  BY <1>1, LastOfAppend, LastOfFacts
<1>3. r \in Seq(TermChars)
  BY BehindLast, CharSets
<1>4. Behind(a, i) = b
  BY <1>1, <1>2, BehindAppend
<1> HIDE DEF i, r
<1>5. b \in Seq(TermChars) /\ Len(b) = m /\ b[m] = x /\ Len(r) \in Nat
  BY <1>1, <1>3
<1>6. LastOf(b, {"*", "/"}) = m
  BY <1>1, <1>3, LastOfAppend
<1>7. Behind(b, m) = <<>>
  BY <1>5, BehindNone
<1>8. Before(b, m) = r
  <2>1. m \in 1..(Len(r) + 1)
    BY <1>5
  <2> QED
    BY <1>1, <1>3, <2>1, BeforeAppend, BeforeAll
<1>9. convert[a].tmp = Number[Behind(b, m)]
  <2>1. convert[a].tmp = 0
    BY <1>1, ConvertFacts DEF take
  <2> QED
    BY <1>7, <2>1, NumberFacts
<1>10. i # 0 => a[i] = s[i] /\ Before(a, i) = Before(s, i)
  <2>1. i # 0 => i \in 1..Len(s) /\ i \in 1..(Len(s) + 1)
    BY <1>2
  <2> QED
    BY <1>1, <2>1, BeforeAppend
<1>11. ASSUME FitsChar(a), ~Evaluated(a).trap
       PROVE  /\ Evaluated(a).first_oper = IF i = 0 THEN "+" ELSE a[i]
              /\ Evaluated(a).first = IF i = 0 THEN 0 ELSE Value[Before(a, i)]
              /\ Evaluated(a).second_oper = x
              /\ Evaluated(a).second = Term[r]
  <2>1. /\ FitsChar(s) /\ ~Evaluated(s).trap
        /\ Evaluated(a) = [Evaluated(s) EXCEPT !.second = Term[r], !.second_oper = x]
    BY <1>1, <1>11, AtOperator DEF i, r
  <2>2. /\ Evaluated(s).first_oper = IF i = 0 THEN "+" ELSE s[i]
        /\ Evaluated(s).first = IF i = 0 THEN 0 ELSE Value[Before(s, i)]
    BY <2>1 DEF InStep, i
  <2>3. Evaluated(s) \in Evaluation
    BY <1>1, EvaluatedOperator
  <2> HIDE DEF a
  <2> QED
    BY <1>10, <2>1, <2>2, <2>3 DEF Evaluation
<1>12. m # 0
  BY <1>5
<1> HIDE DEF a, b, m
<1>13. InStep(a)
  BY <1>2, <1>4, <1>5, <1>6, <1>8, <1>9, <1>11, <1>12 DEF InStep
<1> QED
  BY <1>13 DEF a

(* A + or - completes a term. *)
LEMMA InStepSum ==
    ASSUME NEW s \in Seq(ExpressionChars), InStep(s), NEW x \in {"+", "-"}
    PROVE  InStep(Append(s, x))
<1> DEFINE a == Append(s, x)
           m == Len(s) + 1
<1>1. s \in Seq(Chars) /\ x \in Chars /\ x \in Operators /\ x \in ExpressionChars
  <2>1. ExpressionChars \subseteq Chars
    BY CharSets
  <2> QED
    BY <2>1, SeqMonotonic DEF Chars, ExpressionChars, Operators
<1>2. a \in Seq(ExpressionChars) /\ Len(a) = m /\ a[m] = x /\ Len(s) \in Nat
  BY <1>1
<1>3. LastOf(a, {"+", "-"}) = m
  BY <1>1, LastOfAppend
<1>4. Behind(a, m) = <<>>
  BY <1>2, BehindNone
<1>5. LastOf(<<>>, {"*", "/"}) = 0 /\ Behind(<<>>, 0) = <<>>
  BY LastOfEmpty, BehindNone, EmptySeq
<1>6. Before(a, m) = s
  <2>1. m \in 1..(Len(s) + 1)
    BY <1>2
  <2> QED
    BY <1>1, <2>1, BeforeAppend, BeforeAll
<1>7. convert[a].tmp = Number[<<>>]
  BY <1>1, ConvertFacts, NumberFacts DEF take
<1>8. ASSUME FitsChar(a), ~Evaluated(a).trap
      PROVE  /\ Evaluated(a).first_oper = x
             /\ Evaluated(a).first = Value[s]
             /\ Evaluated(a).second_oper = "+"
  <2>1. Evaluated(a) = [Evaluated(s) EXCEPT !.first = Value[s], !.first_oper = x,
                                            !.second_oper = "+"]
    BY <1>1, <1>8, AtOperator
  <2>2. Evaluated(s) \in Evaluation
    BY <1>1, EvaluatedOperator
  <2> HIDE DEF a
  <2> QED
    BY <2>1, <2>2 DEF Evaluation
<1>9. m # 0
  BY <1>2
<1> HIDE DEF a, m
<1>10. InStep(a)
  BY <1>2, <1>3, <1>4, <1>5, <1>6, <1>7, <1>8, <1>9 DEF InStep
<1> QED
  BY <1>10 DEF a

(* The evaluator is in step with the reference for everything that can be  *)
(* typed before '='.                                                       *)
LEMMA AlwaysInStep ==
    ASSUME NEW s \in Seq(ExpressionChars)
    PROVE  InStep(s)
<1> DEFINE T == {u \in Seq(ExpressionChars) : InStep(u)}
<1>1. <<>> \in T
  BY InStepEmpty, EmptySeq
<1>2. ASSUME NEW u \in Seq(ExpressionChars), u \in T, NEW x \in ExpressionChars
      PROVE  Append(u, x) \in T
  <2>1. Append(u, x) \in Seq(ExpressionChars) /\ InStep(u)
    BY <1>2
  <2>2. x \in DigitKeys \/ x \in {"*", "/"} \/ x \in {"+", "-"}
    BY DEF ExpressionChars, TermChars
  <2> QED
    BY <2>1, <2>2, InStepDigit, InStepProduct, InStepSum
<1> HIDE DEF T
<1>3. Seq(ExpressionChars) \subseteq T
  BY <1>1, <1>2, SeqInduction
<1> QED
  BY <1>3 DEF T

(* The place of the first '='. *)
LEMMA FirstEqualsFacts ==
    ASSUME NEW s \in Seq(Chars), NEW k \in 1..Len(s), s[k] = "="
    PROVE  /\ FirstEquals(s) \in 1..Len(s)
           /\ s[FirstEquals(s)] = "="
           /\ \A i \in 1..Len(s) : s[i] = "=" => FirstEquals(s) <= i
<1> DEFINE W == {i \in 1..Len(s) : s[i] = "="}
<1>1. W \in SUBSET Nat /\ W # {}
  OBVIOUS
<1>2. Min(W) \in W /\ \A i \in W : Min(W) <= i
  BY <1>1, MinFacts
<1> QED
  BY <1>2 DEF FirstEquals

(* Only one place is the first one. *)
LEMMA FirstEqualsUnique ==
    ASSUME NEW s \in Seq(Chars), NEW k \in 1..Len(s), s[k] = "=",
           \A i \in 1..Len(s) : s[i] = "=" => k <= i
    PROVE  FirstEquals(s) = k
<1>1. /\ FirstEquals(s) \in 1..Len(s)
      /\ s[FirstEquals(s)] = "="
      /\ \A i \in 1..Len(s) : s[i] = "=" => FirstEquals(s) <= i
  BY FirstEqualsFacts
<1>2. k <= FirstEquals(s) /\ FirstEquals(s) <= k
  BY <1>1
<1> QED
  BY <1>1, <1>2

(* An '=' has been typed, and the evaluation stands still since the first. *)
HasEquals(s) == \E k \in 1..Len(s) : s[k] = "="
Finished(s) ==
    FitsChar(s) /\ ~Evaluated(s).trap =>
        /\ Evaluated(s).first_oper = "="
        /\ Evaluated(s).first = Value[Before(s, FirstEquals(s))]

(* The first '=' ends the evaluation with the value of the expression      *)
(* before it.                                                              *)
LEMMA FinishedFirst ==
    ASSUME NEW s \in Seq(Chars), ~HasEquals(s)
    PROVE  Finished(Append(s, "="))
<1> DEFINE a == Append(s, "=")
           m == Len(s) + 1
<1>1. "=" \in Operators /\ "=" \in Chars
  BY DEF Operators, Chars
<1>2. s \in Seq(ExpressionChars)
  <2>1. \A k \in 1..Len(s) : s[k] \in Chars \ {"="}
    BY DEF HasEquals
  <2> QED
    BY <2>1, SeqNarrowed, CharSets
<1>3. InStep(s)
  BY <1>2, AlwaysInStep
<1>4. /\ a \in Seq(Chars) /\ Len(a) = m /\ a[m] = "=" /\ Len(s) \in Nat
      /\ \A k \in 1..Len(s) : a[k] = s[k]
  BY <1>1
<1>5. FirstEquals(a) = m
  <2>1. m \in 1..Len(a)
    BY <1>4
  <2>2. ASSUME NEW i \in 1..Len(a), a[i] = "=" PROVE m <= i
    BY <1>4, <2>2 DEF HasEquals
  <2> HIDE DEF a, m
  <2> QED
    BY <1>4, <2>1, <2>2, FirstEqualsUnique
<1>6. Before(a, m) = s
  <2>1. m \in 1..(Len(s) + 1)
    BY <1>4
  <2> QED
    BY <1>1, <2>1, BeforeAppend, BeforeAll
<1>7. ASSUME FitsChar(a), ~Evaluated(a).trap
      PROVE  Evaluated(a).first_oper = "=" /\ Evaluated(a).first = Value[s]
  <2>1. Evaluated(a) = [Evaluated(s) EXCEPT !.first = Value[s], !.first_oper = "=",
                                            !.second_oper = "+"]
    BY <1>1, <1>2, <1>3, <1>7, AtOperator
  <2>2. Evaluated(s) \in Evaluation
    BY <1>1, EvaluatedOperator
  <2> HIDE DEF a
  <2> QED
    BY <2>1, <2>2 DEF Evaluation
<1> HIDE DEF a, m
<1>8. Finished(a)
  BY <1>5, <1>6, <1>7 DEF Finished
<1> QED
  BY <1>8 DEF a

(* Nothing typed after the first '=' changes the result. *)
LEMMA FinishedStays ==
    ASSUME NEW s \in Seq(Chars), HasEquals(s), Finished(s), NEW x \in Chars
    PROVE  Finished(Append(s, x))
<1> DEFINE a == Append(s, x)
           f == FirstEquals(s)
<1>1. /\ f \in 1..Len(s) /\ s[f] = "="
      /\ \A i \in 1..Len(s) : s[i] = "=" => f <= i
  BY FirstEqualsFacts DEF HasEquals
<1>2. /\ a \in Seq(Chars) /\ Len(a) = Len(s) + 1 /\ Len(s) \in Nat
      /\ \A k \in 1..Len(s) : a[k] = s[k]
  OBVIOUS
<1>3. FirstEquals(a) = f
  <2>1. f \in 1..Len(a) /\ a[f] = "="
    BY <1>1, <1>2
  <2>2. ASSUME NEW i \in 1..Len(a), a[i] = "=" PROVE f <= i
    BY <1>1, <1>2, <2>2
  <2> HIDE DEF a, f
  <2> QED
    BY <1>2, <2>1, <2>2, FirstEqualsUnique
<1>4. Before(a, f) = Before(s, f)
  <2>1. f \in 1..(Len(s) + 1)
    BY <1>1, <1>2
  <2> HIDE DEF f
  <2> QED
    BY <2>1, BeforeAppend
<1>5. FitsChar(a) => FitsChar(s)
  BY FitsAppend
<1>6. ASSUME FitsChar(a), ~Evaluated(a).trap PROVE Evaluated(a) = Evaluated(s)
  <2>1. CASE x \in DigitKeys
    BY <2>1, EvaluatedDigit
  <2>2. CASE x \in Operators
    <3>1. Evaluated(a) = step(Evaluated(s), <<stored(Operand(s)), x>>)
      BY <2>2, EvaluatedOperator
    <3>2. ~Evaluated(s).trap
      BY <1>6, <3>1 DEF step
    <3>3. Evaluated(s).first_oper = "="
      BY <1>5, <1>6, <3>2 DEF Finished
    <3> QED
      BY <3>1, <3>3 DEF step
  <2> QED
    BY <2>1, <2>2 DEF Chars
<1> HIDE DEF a, f
<1>7. Finished(a)
  BY <1>3, <1>4, <1>5, <1>6 DEF Finished, f
<1> QED
  BY <1>7 DEF a

(* The one-pass evaluator is right: for every sequence of keys, of any     *)
(* length, with an '=', operands that fit into a char and no division by   *)
(* zero, its result is the value of the expression before the first '='.   *)
THEOREM OnePassRight ==
    ASSUME NEW s \in Seq(Chars), HasEquals(s), FitsChar(s), ~Evaluated(s).trap
    PROVE  Evaluated(s).first = Value[Before(s, FirstEquals(s))]
<1> DEFINE T == {u \in Seq(Chars) : HasEquals(u) => Finished(u)}
<1>1. <<>> \in T
  <2>1. ~HasEquals(<<>>)
    BY DEF HasEquals
  <2> QED
    BY <2>1, EmptySeq
<1>2. ASSUME NEW u \in Seq(Chars), u \in T, NEW x \in Chars PROVE Append(u, x) \in T
  <2>1. Append(u, x) \in Seq(Chars)
    OBVIOUS
  <2>2. CASE HasEquals(u)
    BY <1>2, <2>1, <2>2, FinishedStays
  <2>3. CASE ~HasEquals(u) /\ x = "="
    BY <2>1, <2>3, FinishedFirst
  <2>4. CASE ~HasEquals(u) /\ x # "="
    <3>1. ~HasEquals(Append(u, x))
      BY <2>4 DEF HasEquals
    <3> QED
      BY <2>1, <3>1
  <2> QED
    BY <2>2, <2>3, <2>4
<1> HIDE DEF T
<1>3. Seq(Chars) \subseteq T
  BY <1>1, <1>2, SeqInduction
<1>4. Finished(s)
  BY <1>3 DEF T
<1> QED
  BY <1>4 DEF Finished

-----------------------------------------------------------------------------
(* 6. The LEDs: binary digits in a decimal number. *)

(* The equation and the type of the number print_led puts together. *)
LEMMA BinaryFacts ==
    /\ binaryNumber \in [Nat -> Nat]
    /\ \A n \in Nat : binaryNumber[n] = IF n = 0 THEN 0
                                        ELSE (n % 2) + 10 * binaryNumber[n \div 2]
<1> DEFINE R == Nat \ {0}
           M == [n \in Nat |-> n]
           Q == [n \in R |-> n \div 2]
           B == [n \in Nat |-> 0]
           F == [p \in Nat \X Nat |-> (p[2] % 2) + 10 * p[1]]
           Body(g, n) == IF n = 0 THEN 0 ELSE (n % 2) + 10 * g[n \div 2]
<1>1. ASSUME NEW n \in R PROVE n \div 2 \in Nat /\ n \div 2 < n
  OBVIOUS
<1>2. Descends(Nat, M, R, Q)
  BY <1>1 DEF Descends
<1>3. B \in [Nat -> Nat] /\ F \in [Nat \X Nat -> Nat]
  OBVIOUS
<1> HIDE DEF R, M, Q, B, F
<1>4. PICK h : Solves(h, Nat, Nat, R, Q, B, F)
  BY <1>2, <1>3, RecursionExists
<1>5. h \in [Nat -> Nat]
  BY <1>4 DEF Solves
<1>6. ASSUME NEW n \in Nat PROVE h[n] = Body(h, n)
  <2>1. h[n] = IF n \in R THEN F[<<h[Q[n]], n>>] ELSE B[n]
    BY <1>4 DEF Solves
  <2>2. CASE n = 0
    BY <2>1, <2>2 DEF R, B
  <2>3. CASE n # 0
    <3>1. n \in R /\ Q[n] = n \div 2 /\ h[n \div 2] \in Nat
      BY <1>1, <1>5, <2>3 DEF R, Q
    <3> QED
      BY <2>1, <2>3, <3>1 DEF F
  <2> QED
    BY <2>2, <2>3
<1>7. h = [n \in Nat |-> Body(h, n)]
  <2> HIDE DEF Body
  <2> QED
    BY <1>5, <1>6
<1>8. binaryNumber = [n \in Nat |-> Body(binaryNumber, n)]
  BY <1>7 DEF binaryNumber
<1> DEFINE T == {n \in Nat : binaryNumber[n] = h[n]}
<1>9. T = Nat
  <2>1. ASSUME NEW n \in Nat, n \in R => Q[n] \in T PROVE n \in T
    <3>1. binaryNumber[n] = Body(binaryNumber, n) /\ h[n] = Body(h, n)
      <4> HIDE DEF Body
      <4> QED
        BY <1>6, <1>8
    <3>2. CASE n = 0
      BY <3>1, <3>2
    <3>3. CASE n # 0
      <4>1. binaryNumber[n \div 2] = h[n \div 2]
        BY <2>1, <3>3 DEF Q, R
      <4> QED
        BY <3>1, <4>1
    <3> QED
      BY <3>2, <3>3
  <2>2. Inductive(T, Nat, R, Q) /\ T \subseteq Nat
    BY <2>1 DEF Inductive
  <2> HIDE DEF T, Body
  <2> QED
    BY <1>2, <2>2, MeasureInduction
<1>10. binaryNumber \in [Nat -> Nat]
  <2>1. \A n \in Nat : binaryNumber[n] \in Nat
    BY <1>5, <1>9
  <2> HIDE DEF Body
  <2> QED
    BY <1>8, <2>1
<1>11. ASSUME NEW n \in Nat PROVE binaryNumber[n] = Body(binaryNumber, n)
  <2> HIDE DEF Body
  <2> QED
    BY <1>8
<1> QED
  BY <1>10, <1>11

(* Taking off a decimal digit takes off a binary one. *)
LEMMA BinaryStep ==
    ASSUME NEW n \in Nat
    PROVE  /\ binaryNumber[n] \in Nat
           /\ binaryNumber[n] % 10 = n % 2
           /\ binaryNumber[n] \div 10 = binaryNumber[n \div 2]
<1>1. n \div 2 \in Nat
  OBVIOUS
<1>2. binaryNumber[n] \in Nat /\ binaryNumber[n \div 2] \in Nat
  BY <1>1, BinaryFacts
<1>3. CASE n = 0
  <2>1. binaryNumber[n] = 0 /\ n \div 2 = 0 /\ n % 2 = 0
    BY <1>3, BinaryFacts
  <2> QED
    BY <1>3, <2>1
<1>4. CASE n # 0
  <2>1. binaryNumber[n] = (n % 2) + 10 * binaryNumber[n \div 2]
    BY <1>4, BinaryFacts
  <2>2. n % 2 \in 0..1
    OBVIOUS
  <2> QED
    BY <1>2, <2>1, <2>2
<1> QED
  BY <1>2, <1>3, <1>4

(* The powers that the displays divide by. *)
LEMMA Powers ==
    /\ 10^0 = 1 /\ 10^1 = 10 /\ 10^2 = 100 /\ 10^3 = 1000 /\ 10^4 = 10000
    /\ 10^5 = 100000 /\ 10^6 = 1000000 /\ 10^7 = 10000000
    /\ 2^0 = 1 /\ 2^1 = 2 /\ 2^2 = 4 /\ 2^3 = 8 /\ 2^4 = 16
    /\ 2^5 = 32 /\ 2^6 = 64 /\ 2^7 = 128
  OBVIOUS

(* A division with its remainder. *)
LEMMA DivisionSplit ==
    ASSUME NEW x \in Nat, NEW d \in Nat \ {0}
    PROVE  x \div d \in Nat /\ x % d \in 0..(d - 1) /\ x = d * (x \div d) + (x % d)
  OBVIOUS

(* The quotient is the only number that leaves such a remainder. *)
LEMMA DivisionUnique ==
    ASSUME NEW x \in Nat, NEW d \in Nat \ {0}, NEW u \in Nat, NEW w \in 0..(d - 1),
           x = d * u + w
    PROVE  x \div d = u
  OBVIOUS

(* Dividing twice is dividing by the product. *)
LEMMA DivideTwice ==
    ASSUME NEW x \in Nat, NEW p \in Nat \ {0}, NEW q \in Nat \ {0}
    PROVE  (x \div p) \div q = x \div (p * q)
<1> DEFINE a == x \div p
           r == x % p
           u == a \div q
           v == a % q
           w == p * v + r
<1>1. a \in Nat /\ r \in 0..(p - 1) /\ x = p * a + r
  BY DivisionSplit
<1> HIDE DEF a, r
<1>2. u \in Nat /\ v \in 0..(q - 1) /\ a = q * u + v
  BY <1>1, DivisionSplit
<1> HIDE DEF u, v
<1>3. p * a = p * (q * u) + p * v /\ p * (q * u) = (p * q) * u
  BY <1>2
<1>4. p * v <= p * (q - 1) /\ p * (q - 1) = p * q - p /\ p * v \in Nat
  BY <1>2
<1>5. p * q \in Nat \ {0} /\ w \in 0..(p * q - 1)
  BY <1>1, <1>4
<1>6. x = (p * q) * u + w
  BY <1>1, <1>2, <1>3
<1> HIDE DEF w
<1>7. x \div (p * q) = u
  BY <1>2, <1>5, <1>6, DivisionUnique
<1> QED
  BY <1>7 DEF a, u

(* q decimal digits taken off are p binary ones. *)
Shifted(n, q, p) ==
    /\ q \in Nat \ {0} /\ p \in Nat \ {0}
    /\ binaryNumber[n] \div q = binaryNumber[n \div p]

(* One more digit is taken off on both sides. *)
LEMMA BinaryShift ==
    ASSUME NEW n \in Nat, NEW q, NEW p, Shifted(n, q, p)
    PROVE  Shifted(n, q * 10, p * 2)
<1> USE DEF Shifted
<1>1. binaryNumber[n] \in Nat /\ n \div p \in Nat
  BY BinaryStep, DivisionSplit
<1>2. binaryNumber[n] \div (q * 10) = binaryNumber[n \div p] \div 10
  <2>1. 10 \in Nat \ {0}
    OBVIOUS
  <2> QED
    BY <1>1, <2>1, DivideTwice
<1>3. n \div (p * 2) = (n \div p) \div 2
  <2>1. 2 \in Nat \ {0}
    OBVIOUS
  <2> QED
    BY <2>1, DivideTwice
<1>4. binaryNumber[n] \div (q * 10) = binaryNumber[n \div (p * 2)]
  BY <1>1, <1>2, <1>3, BinaryStep
<1> QED
  BY <1>4

(* The digits in front then are the same. *)
LEMMA ShiftedDigit ==
    ASSUME NEW n \in Nat, NEW q, NEW p, Shifted(n, q, p)
    PROVE  (binaryNumber[n] \div q) % 10 = (n \div p) % 2
<1>1. n \div p \in Nat
  BY DivisionSplit DEF Shifted
<1> QED
  BY <1>1, BinaryStep DEF Shifted

(* The loop of print_led takes the binary digits off again. *)
LEMMA BinaryDigits ==
    ASSUME NEW n \in Nat, NEW k \in 0..7
    PROVE  digit(binaryNumber[n], k) = (n \div 2^k) % 2
<1>0. Shifted(n, 1, 1)
  BY BinaryStep DEF Shifted
<1>1. Shifted(n, 10, 2)
  BY <1>0, BinaryShift
<1>2. Shifted(n, 100, 4)
  BY <1>1, BinaryShift
<1>3. Shifted(n, 1000, 8)
  BY <1>2, BinaryShift
<1>4. Shifted(n, 10000, 16)
  BY <1>3, BinaryShift
<1>5. Shifted(n, 100000, 32)
  BY <1>4, BinaryShift
<1>6. Shifted(n, 1000000, 64)
  BY <1>5, BinaryShift
<1>7. Shifted(n, 10000000, 128)
  BY <1>6, BinaryShift
<1>10. CASE k = 0
  <2>1. 10^k = 1 /\ 2^k = 1
    BY <1>10, Powers
  <2> QED
    BY <1>0, <2>1, ShiftedDigit DEF digit
<1>11. CASE k = 1
  <2>1. 10^k = 10 /\ 2^k = 2
    BY <1>11, Powers
  <2> QED
    BY <1>1, <2>1, ShiftedDigit DEF digit
<1>12. CASE k = 2
  <2>1. 10^k = 100 /\ 2^k = 4
    BY <1>12, Powers
  <2> QED
    BY <1>2, <2>1, ShiftedDigit DEF digit
<1>13. CASE k = 3
  <2>1. 10^k = 1000 /\ 2^k = 8
    BY <1>13, Powers
  <2> QED
    BY <1>3, <2>1, ShiftedDigit DEF digit
<1>14. CASE k = 4
  <2>1. 10^k = 10000 /\ 2^k = 16
    BY <1>14, Powers
  <2> QED
    BY <1>4, <2>1, ShiftedDigit DEF digit
<1>15. CASE k = 5
  <2>1. 10^k = 100000 /\ 2^k = 32
    BY <1>15, Powers
  <2> QED
    BY <1>5, <2>1, ShiftedDigit DEF digit
<1>16. CASE k = 6
  <2>1. 10^k = 1000000 /\ 2^k = 64
    BY <1>16, Powers
  <2> QED
    BY <1>6, <2>1, ShiftedDigit DEF digit
<1>17. CASE k = 7
  <2>1. 10^k = 10000000 /\ 2^k = 128
    BY <1>17, Powers
  <2> QED
    BY <1>7, <2>1, ShiftedDigit DEF digit
<1> QED
  BY <1>10, <1>11, <1>12, <1>13, <1>14, <1>15, <1>16, <1>17

-----------------------------------------------------------------------------
(* 7. The specification: types. *)

(* A decimal digit. *)
LEMMA DigitType ==
    ASSUME NEW n \in Nat, NEW i \in 0..3
    PROVE  digit(n, i) \in 0..9
<1> DEFINE p == 10^i
<1>1. (i = 0 => p = 1) /\ (i = 1 => p = 10) /\ (i = 2 => p = 100) /\ (i = 3 => p = 1000)
  <2>1. ASSUME i = 0 PROVE p = 1
    BY <2>1, Powers, SMT
  <2>2. ASSUME i = 1 PROVE p = 10
    BY <2>2, Powers, SMT
  <2>3. ASSUME i = 2 PROVE p = 100
    BY <2>3, Powers, SMT
  <2>4. ASSUME i = 3 PROVE p = 1000
    BY <2>4, Powers, SMT
  <2> QED
    BY <2>1, <2>2, <2>3, <2>4, SMT
<1>2. i = 0 \/ i = 1 \/ i = 2 \/ i = 3
  BY SMT
<1> HIDE DEF p
<1>3. p \in Nat \ {0}
  BY <1>1, <1>2, SMT
<1>4. n \div p \in Nat
  BY <1>3, DivisionSplit
<1>5. (n \div p) % 10 \in 0..9
  BY <1>4
<1> QED
  BY <1>5, SMT DEF digit, p

(* The display takes four digits. *)
LEMMA PositiveType ==
    ASSUME NEW n \in Nat
    PROVE  print_positive(n) \in [1..4 -> -2..9]
<1>1. ASSUME NEW i \in 1..4 PROVE digit(n, 4 - i) \in -2..9
  <2>1. 4 - i \in 0..3
    OBVIOUS
  <2>2. digit(n, 4 - i) \in 0..9
    BY <2>1, DigitType
  <2> QED
    BY <2>2
<1> QED
  BY <1>1 DEF print_positive

(* A negative answer keeps the display in its type, whatever it showed. *)
LEMMA NegativeType ==
    ASSUME NEW n \in Int, n < 0, seg \in [1..4 -> -2..9]
    PROVE  print_negative(n) \in [1..4 -> -2..9]
<1>1. abs(n) \in Nat
  BY DEF abs
<1>2. ASSUME NEW i \in 1..4 PROVE digit(abs(n), 4 - i) \in -2..9
  <2>1. 4 - i \in 0..3
    OBVIOUS
  <2>2. digit(abs(n), 4 - i) \in 0..9
    BY <1>1, <2>1, DigitType
  <2> QED
    BY <2>2
<1>3. Blank \in -2..9 /\ Minus \in -2..9
  BY DEF Blank, Minus
<1> DEFINE digits == IF abs(n) < 10 THEN 1 ELSE IF abs(n) < 100 THEN 2 ELSE 3
           shown(i) == IF i < 4 - digits THEN Blank
                       ELSE IF i = 4 - digits THEN Minus ELSE digit(abs(n), 4 - i)
<1>4. ASSUME NEW i \in 1..4 PROVE shown(i) \in -2..9
  <2> HIDE DEF digits
  <2> QED
    BY <1>2, <1>3
<1>5. print_negative(n) = IF abs(n) >= 1000 THEN seg ELSE [i \in 1..4 |-> shown(i)]
  BY DEF print_negative
<1> HIDE DEF shown
<1>6. [i \in 1..4 |-> shown(i)] \in [1..4 -> -2..9]
  BY <1>4
<1> QED
  BY <1>5, <1>6

(* Eight LEDs, or what an overflow leaves. *)
LEMMA LedType ==
    ASSUME NEW n \in Nat
    PROVE  print_led(n) = AnyLeds \/ print_led(n) \in [0..7 -> BOOLEAN]
  BY DEF print_led

(* Keys give characters of the buffer, and never '='. *)
LEMMA KeyChars ==
    ASSUME NEW key \in Keys
    PROVE  change_operator(key) \in Chars \ {"="}
<1>1. key \in DigitKeys \cup {"A", "B", "C", "D"}
  BY KeysAssumption
<1> QED
  BY <1>1 DEF change_operator, DigitKeys, Chars, Operators

(* '#' is stored as '='. *)
LEMMA EqualsChar == change_operator("#") = "=" /\ "=" \in Chars /\ "=" \in Operators
  BY DEF change_operator, Chars, Operators

(* Type correctness. *)
LEMMA TypeInit == Init => TypeOK
<1> SUFFICES ASSUME Init PROVE TypeOK
  OBVIOUS
<1>1. c \in Seq(Chars) /\ Len(c) <= MaxKeys
  BY MaxKeysAssumption, EmptySeq DEF Init
<1>2. Zeros \in [1..4 -> -2..9] /\ [i \in 1..4 |-> Blank] \in [1..4 -> -2..9]
  BY DEF Zeros, Blank
<1>3. Off \in [0..7 -> BOOLEAN]
  BY DEF Off
<1> QED
  BY <1>1, <1>2, <1>3 DEF Init, TypeOK

(* What an answer leaves on the devices. *)
Answer(n) ==
    /\ lcd' = <<n>>
    /\ seg' = IF n >= 0 THEN print_positive(n) ELSE print_negative(n)
    /\ leds' = print_led(abs(n))
    /\ UNCHANGED running

(* What '#' does, in terms of the evaluation of the keys. *)
LEMMA EqualsStep ==
    ASSUME TypeOK, Equals
    PROVE  /\ c' \in Seq(Chars) /\ c' = Append(c, "=")
           /\ Evaluated(c') \in Evaluation
           /\ IF Evaluated(c').trap
              THEN running' = FALSE /\ UNCHANGED <<lcd, seg, leds>>
              ELSE Answer(Evaluated(c').first)
<1>1. c \in Seq(Chars) /\ c' = Append(c, "=")
  BY EqualsChar DEF TypeOK, Equals
<1>2. c' \in Seq(Chars) /\ Evaluated(c') \in Evaluation
  <2>1. Append(c, "=") \in Seq(Chars)
    BY <1>1, EqualsChar
  <2>2. Evaluated(Append(c, "=")) \in Evaluation
    BY <1>1, EqualsChar, EvaluatedOperator
  <2> QED
    BY <1>1, <2>1, <2>2, Zenon
<1> QED
  BY <1>1, <1>2 DEF Equals, Evaluated, Answer

(* Every key keeps the types. *)
LEMMA TypeStep == TypeOK /\ [Next]_vars => TypeOK'
<1> SUFFICES ASSUME TypeOK, [Next]_vars PROVE TypeOK'
  OBVIOUS
<1>1. MaxKeys \in Nat
  BY MaxKeysAssumption
<1>2. c \in Seq(Chars) /\ Len(c) \in Nat
  BY DEF TypeOK
<1>3. ASSUME NEW key \in Keys, Press(key) PROVE TypeOK'
  <2>1. c' = Append(c, change_operator(key)) /\ change_operator(key) \in Chars
    BY <1>3, KeyChars DEF Press
  <2>2. c' \in Seq(Chars) /\ Len(c') = Len(c) + 1
    BY <1>2, <2>1
  <2>3. Len(c') <= MaxKeys
    BY <1>1, <1>2, <1>3, <2>2 DEF Press
  <2> QED
    BY <1>3, <2>2, <2>3 DEF Press, TypeOK
<1>4. ASSUME Equals PROVE TypeOK'
  <2>1. /\ c' \in Seq(Chars) /\ c' = Append(c, "=")
        /\ Evaluated(c') \in Evaluation
        /\ IF Evaluated(c').trap
           THEN running' = FALSE /\ UNCHANGED <<lcd, seg, leds>>
           ELSE Answer(Evaluated(c').first)
    BY <1>4, EqualsStep
  <2>2. Len(c') = Len(c) + 1 /\ Len(c') <= MaxKeys
    <3>1. Len(c') = Len(c) + 1
      BY <1>2, <2>1
    <3> QED
      BY <1>1, <1>2, <1>4, <3>1 DEF Equals
  <2>3. CASE Evaluated(c').trap
    BY <2>1, <2>2, <2>3 DEF TypeOK
  <2>4. CASE ~Evaluated(c').trap
    <3> DEFINE n == Evaluated(c').first
    <3>1. n \in Int /\ abs(n) \in Nat
      BY <2>1 DEF Evaluation, abs
    <3>2. Answer(n)
      BY <2>1, <2>4
    <3> HIDE DEF n
    <3>3. Len(lcd') = 1 /\ lcd'[1] \in Int
      BY <3>1, <3>2 DEF Answer
    <3>4. seg' \in [1..4 -> -2..9]
      <4>1. CASE n >= 0
        BY <3>1, <3>2, <4>1, PositiveType DEF Answer
      <4>2. CASE ~(n >= 0)
        <5>1. n < 0 /\ seg \in [1..4 -> -2..9]
          BY <3>1, <4>2 DEF TypeOK
        <5> QED
          BY <3>1, <3>2, <4>2, <5>1, NegativeType DEF Answer
      <4> QED
        BY <4>1, <4>2
    <3>5. leds' = AnyLeds \/ leds' \in [0..7 -> BOOLEAN]
      BY <3>1, <3>2, LedType DEF Answer
    <3> QED
      BY <2>1, <2>2, <3>2, <3>3, <3>4, <3>5 DEF Answer, TypeOK
  <2> QED
    BY <2>3, <2>4
<1>5. ASSUME Clear PROVE TypeOK'
  <2>1. Zeros \in [1..4 -> -2..9] /\ Off \in [0..7 -> BOOLEAN]
    BY DEF Zeros, Off
  <2>2. c' \in Seq(Chars) /\ Len(c') <= MaxKeys
    BY <1>1, <1>5, EmptySeq DEF Clear
  <2> QED
    BY <1>5, <2>1, <2>2 DEF Clear, TypeOK
<1>6. CASE UNCHANGED vars
  BY <1>6 DEF vars, TypeOK
<1> QED
  BY <1>3, <1>4, <1>5, <1>6 DEF Next

(* The buffer holds characters and at most MaxKeys of them, the answer is  *)
(* an integer, every digit shows 0 to 9, the sign or nothing, and the LEDs *)
(* are eight.                                                              *)
THEOREM TypeCorrect == Spec => []TypeOK
  BY TypeInit, TypeStep, PTL DEF Spec

-----------------------------------------------------------------------------
(* 8. The specification: answers. *)

(* After '#', as long as nothing else is typed, the LCD has the result of  *)
(* the evaluation.                                                         *)
AnswerInv ==
    running /\ c # <<>> /\ c[Len(c)] = "=" =>
        ~Evaluated(c).trap /\ lcd = <<Evaluated(c).first>>

(* Nothing has been typed. *)
LEMMA AnswerInit == Init => AnswerInv
  BY DEF Init, AnswerInv

(* '#' shows the evaluation of what is in the buffer, any other key moves  *)
(* its end off the '='.                                                    *)
LEMMA AnswerStep == TypeOK /\ AnswerInv /\ [Next]_vars => AnswerInv'
<1> SUFFICES ASSUME TypeOK, AnswerInv, [Next]_vars PROVE AnswerInv'
  OBVIOUS
<1>1. c \in Seq(Chars)
  BY DEF TypeOK
<1>2. ASSUME NEW key \in Keys, Press(key) PROVE AnswerInv'
  <2>1. c' = Append(c, change_operator(key)) /\ change_operator(key) \in Chars \ {"="}
    BY <1>2, KeyChars DEF Press
  <2>2. c'[Len(c')] # "="
    BY <1>1, <2>1
  <2> QED
    BY <2>2 DEF AnswerInv
<1>3. ASSUME Equals PROVE AnswerInv'
  <2>1. IF Evaluated(c').trap
        THEN running' = FALSE /\ UNCHANGED <<lcd, seg, leds>>
        ELSE Answer(Evaluated(c').first)
    BY <1>3, EqualsStep
  <2>2. (Evaluated(c))' = Evaluated(c')
    BY DEF Evaluated
  <2>3. CASE Evaluated(c').trap
    BY <2>1, <2>3 DEF AnswerInv
  <2>4. CASE ~Evaluated(c').trap
    BY <2>1, <2>2, <2>4 DEF AnswerInv, Answer
  <2> QED
    BY <2>3, <2>4
<1>4. ASSUME Clear PROVE AnswerInv'
  BY <1>4 DEF Clear, AnswerInv
<1>5. CASE UNCHANGED vars
  BY <1>5 DEF vars, AnswerInv, Evaluated
<1> QED
  BY <1>2, <1>3, <1>4, <1>5 DEF Next

(* With the evaluator proved right, the invariant gives the property. *)
LEMMA AnswerImplied == TypeOK /\ AnswerInv => AnswerRight
<1> SUFFICES ASSUME TypeOK, AnswerInv, running, Answered, InChar
             PROVE  lcd[1] = Value[Expression]
  BY DEF AnswerRight
<1>1. c \in Seq(Chars) /\ c # <<>> /\ c[Len(c)] = "="
  BY DEF TypeOK, Answered
<1>2. ~Evaluated(c).trap /\ lcd = <<Evaluated(c).first>>
  BY <1>1 DEF AnswerInv
<1>3. HasEquals(c)
  <2>1. Len(c) \in 1..Len(c)
    BY <1>1
  <2> QED
    BY <1>1, <2>1 DEF HasEquals
<1>4. Evaluated(c).first = Value[Before(c, FirstEquals(c))]
  BY <1>1, <1>2, <1>3, OnePassRight DEF InChar
<1> QED
  BY <1>2, <1>4 DEF Expression

(* The calculator of lab 3 shows the value of the first expression typed   *)
(* since the last clear, by the rules of arithmetic, if every operand fits *)
(* into a char: for any keys, after any number of presses of '=' and of    *)
(* clears.                                                                 *)
THEOREM AnswersRight == Spec => []AnswerRight
<1>1. Init => TypeOK /\ AnswerInv
  BY TypeInit, AnswerInit
<1>2. TypeOK /\ AnswerInv /\ [Next]_vars => TypeOK' /\ AnswerInv'
  BY TypeStep, AnswerStep
<1>3. TypeOK /\ AnswerInv => AnswerRight
  BY AnswerImplied
<1> QED
  BY <1>1, <1>2, <1>3, PTL DEF Spec

-----------------------------------------------------------------------------
(* 9. The specification: display and LEDs. *)

(* The answers with room on the display. *)
Fits(n) == n \in Int /\ -999 <= n /\ n <= 9999

(* The interval of the property. *)
LEMMA FitsRange ==
    ASSUME NEW n, n \in -999..9999
    PROVE  Fits(n)
  BY SMT DEF Fits

(* The four digits of a number without sign. *)
LEMMA PositiveReads ==
    ASSUME NEW n \in Nat, n <= 9999
    PROVE  LET d == print_positive(n)
           IN  /\ d[1] >= 0 /\ d[2] >= 0 /\ d[3] >= 0 /\ d[4] >= 0
               /\ d[1] * 1000 + d[2] * 100 + d[3] * 10 + d[4] = n
<1> DEFINE d == print_positive(n)
<1>1. /\ d[1] = (n \div 1000) % 10 /\ d[2] = (n \div 100) % 10
      /\ d[3] = (n \div 10) % 10 /\ d[4] = n % 10
  <2>1. d[1] = digit(n, 3) /\ d[2] = digit(n, 2) /\ d[3] = digit(n, 1) /\ d[4] = digit(n, 0)
    BY SMT DEF print_positive
  <2>2. n \div 1 = n
    BY SMT
  <2> QED
    BY <2>1, <2>2, Powers, SMT DEF digit
<1> HIDE DEF d
<1>2. d[1] >= 0 /\ d[2] >= 0 /\ d[3] >= 0 /\ d[4] >= 0
  BY <1>1, SMT
<1>3. d[1] * 1000 + d[2] * 100 + d[3] * 10 + d[4] = n
  BY <1>1, SMT
<1> QED
  BY <1>2, <1>3 DEF d

(* One to three digits and the sign in front of them. *)
LEMMA NegativeReads ==
    ASSUME NEW n \in Int, n < 0, -999 <= n
    PROVE  LET d == print_negative(n)
               a == -n
           IN  IF a < 10
               THEN d[1] = Blank /\ d[2] = Blank /\ d[3] = Minus /\ d[4] = a
               ELSE IF a < 100
               THEN d[1] = Blank /\ d[2] = Minus /\ d[3] = a \div 10 /\ d[4] = a % 10
               ELSE d[1] = Minus /\ d[2] = a \div 100 /\ d[3] = (a \div 10) % 10
                                 /\ d[4] = a % 10
<1> DEFINE d == print_negative(n)
           a == -n
           k == IF a < 10 THEN 1 ELSE IF a < 100 THEN 2 ELSE 3
           shown(i) == IF i < 4 - k THEN Blank
                       ELSE IF i = 4 - k THEN Minus ELSE digit(a, 4 - i)
<1>1. abs(n) = a /\ a \in Nat /\ 0 < a /\ a < 1000
  BY SMT DEF abs
<1> HIDE DEF a
<1>2. d = [i \in 1..4 |-> shown(i)]
  BY <1>1, SMT DEF print_negative
<1>3. d[1] = shown(1) /\ d[2] = shown(2) /\ d[3] = shown(3) /\ d[4] = shown(4)
  <2> HIDE DEF shown, d
  <2> QED
    BY <1>2, SMT
<1> HIDE DEF d
<1>4. /\ digit(a, 0) = a % 10 /\ digit(a, 1) = (a \div 10) % 10
      /\ digit(a, 2) = (a \div 100) % 10
  <2>1. a \div 1 = a
    BY <1>1, SMT
  <2> QED
    BY <2>1, Powers, SMT DEF digit
<1>5. CASE a < 10
  <2>1. d[1] = Blank /\ d[2] = Blank /\ d[3] = Minus /\ d[4] = digit(a, 0)
    BY <1>3, <1>5, SMT
  <2> QED
    BY <1>1, <1>4, <1>5, <2>1, SMT DEF d, a
<1>6. CASE ~(a < 10) /\ a < 100
  <2>1. d[1] = Blank /\ d[2] = Minus /\ d[3] = digit(a, 1) /\ d[4] = digit(a, 0)
    BY <1>3, <1>6, SMT
  <2>2. (a \div 10) % 10 = a \div 10
    BY <1>1, <1>6, SMT
  <2> QED
    BY <1>1, <1>4, <1>6, <2>1, <2>2, SMT DEF d, a
<1>7. CASE ~(a < 10) /\ ~(a < 100)
  <2>1. d[1] = Minus /\ d[2] = digit(a, 2) /\ d[3] = digit(a, 1) /\ d[4] = digit(a, 0)
    BY <1>3, <1>7, SMT
  <2>2. (a \div 100) % 10 = a \div 100
    BY <1>1, <1>7, SMT
  <2> QED
    BY <1>1, <1>4, <1>7, <2>1, <2>2, SMT DEF d, a
<1> QED
  BY <1>5, <1>6, <1>7, SMT DEF d, a

(* Four digits shown without a sign. *)
LEMMA UnsignedReading ==
    ASSUME seg'[1] >= 0, seg'[2] >= 0, seg'[3] >= 0, seg'[4] >= 0, seg' \in [1..4 -> -2..9]
    PROVE  /\ WellFormed'
           /\ Reading' = seg'[1] * 1000 + seg'[2] * 100 + seg'[3] * 10 + seg'[4]
<1>1. seg'[1] \in Int /\ seg'[2] \in Int /\ seg'[3] \in Int /\ seg'[4] \in Int
  BY SMT
<1>2. ~Signed'
  BY <1>1, SMT DEF Signed, Minus
<1>3. WellFormed'
  BY <1>1, <1>2, SMT DEF WellFormed, Blank, Minus
<1>4. Magnitude' = seg'[1] * 1000 + seg'[2] * 100 + seg'[3] * 10 + seg'[4]
  BY <1>1, SMT DEF Magnitude, Digit
<1> QED
  BY <1>2, <1>3, <1>4 DEF Reading

(* A sign in front of the digits that follow it. *)
LEMMA SignedReading ==
    ASSUME NEW a \in Nat, 0 < a, a < 1000,
           IF a < 10
           THEN seg'[1] = Blank /\ seg'[2] = Blank /\ seg'[3] = Minus /\ seg'[4] = a
           ELSE IF a < 100
           THEN seg'[1] = Blank /\ seg'[2] = Minus /\ seg'[3] = a \div 10 /\ seg'[4] = a % 10
           ELSE seg'[1] = Minus /\ seg'[2] = a \div 100 /\ seg'[3] = (a \div 10) % 10
                               /\ seg'[4] = a % 10
    PROVE  WellFormed' /\ Reading' = -a
<1> USE DEF Blank, Minus
<1>1. Signed'
  BY SMT DEF Signed
<1>2. WellFormed'
  BY SMT DEF WellFormed, Signed
<1>3. Magnitude' = a
  BY SMT DEF Magnitude, Digit
<1> QED
  BY <1>1, <1>2, <1>3 DEF Reading

(* The display shows the last answer until the next one or a clear. *)
DisplayInv == lcd # NoAnswer /\ Fits(lcd[1]) => WellFormed /\ Reading = lcd[1]

(* Only '#' and '*' change the display, and '#' shows its answer on all    *)
(* four digits.                                                            *)
LEMMA DisplayStep == TypeOK /\ TypeOK' /\ DisplayInv /\ [Next]_vars => DisplayInv'
<1> SUFFICES ASSUME TypeOK, TypeOK', DisplayInv, [Next]_vars PROVE DisplayInv'
  OBVIOUS
<1>1. ASSUME UNCHANGED <<lcd, seg>> PROVE DisplayInv'
  BY <1>1 DEF DisplayInv, WellFormed, Reading, Signed, Magnitude, Digit
<1>2. ASSUME NEW key \in Keys, Press(key) PROVE DisplayInv'
  BY <1>1, <1>2 DEF Press
<1>3. ASSUME Equals PROVE DisplayInv'
  <2> DEFINE n == Evaluated(c').first
  <2>1. /\ Evaluated(c') \in Evaluation
        /\ IF Evaluated(c').trap
           THEN running' = FALSE /\ UNCHANGED <<lcd, seg, leds>>
           ELSE Answer(n)
    BY <1>3, EqualsStep
  <2>2. CASE Evaluated(c').trap
    BY <1>1, <2>1, <2>2
  <2>3. CASE ~Evaluated(c').trap
    <3>1. n \in Int /\ Answer(n)
      BY <2>1, <2>3 DEF Evaluation
    <3> HIDE DEF n
    <3>2. lcd'[1] = n
      BY <3>1 DEF Answer
    <3>3. seg' \in [1..4 -> -2..9]
      BY DEF TypeOK
    <3> SUFFICES ASSUME Fits(n) PROVE WellFormed' /\ Reading' = n
      BY <3>2 DEF DisplayInv, Fits
    <3>4. CASE n >= 0
      <4>1. n \in Nat /\ n <= 9999
        BY <3>4 DEF Fits
      <4>2. seg' = print_positive(n)
        BY <3>1, <3>4 DEF Answer
      <4>3. /\ seg'[1] >= 0 /\ seg'[2] >= 0 /\ seg'[3] >= 0 /\ seg'[4] >= 0
            /\ seg'[1] * 1000 + seg'[2] * 100 + seg'[3] * 10 + seg'[4] = n
        BY <4>1, <4>2, PositiveReads
      <4> QED
        BY <3>3, <4>3, UnsignedReading
    <3>5. CASE ~(n >= 0)
      <4> DEFINE a == -n
      <4>1. n < 0 /\ -999 <= n /\ a \in Nat /\ 0 < a /\ a < 1000
        BY <3>5 DEF Fits
      <4>2. seg' = print_negative(n)
        BY <3>1, <3>5 DEF Answer
      <4>3. IF a < 10
            THEN seg'[1] = Blank /\ seg'[2] = Blank /\ seg'[3] = Minus /\ seg'[4] = a
            ELSE IF a < 100
            THEN /\ seg'[1] = Blank /\ seg'[2] = Minus
                 /\ seg'[3] = a \div 10 /\ seg'[4] = a % 10
            ELSE /\ seg'[1] = Minus /\ seg'[2] = a \div 100
                 /\ seg'[3] = (a \div 10) % 10 /\ seg'[4] = a % 10
        BY <3>1, <4>1, <4>2, NegativeReads
      <4>4. WellFormed' /\ Reading' = -a
        <5> HIDE DEF a
        <5> QED
          BY <4>1, <4>3, SignedReading
      <4>5. -a = n
        BY <3>1, SMT
      <4> QED
        BY <4>4, <4>5
    <3> QED
      BY <3>4, <3>5
  <2> QED
    BY <2>2, <2>3
<1>4. ASSUME Clear PROVE DisplayInv'
  BY <1>4 DEF Clear, DisplayInv
<1>5. CASE UNCHANGED vars
  BY <1>1, <1>5 DEF vars
<1> QED
  BY <1>2, <1>3, <1>4, <1>5 DEF Next

(* The seven-segment display shows every answer from -999 to 9999, with    *)
(* the sign next to its digits, whatever it showed before.                 *)
THEOREM DisplayRight == Spec => []DisplayShows
<1>1. Init => DisplayInv
  BY DEF Init, DisplayInv
<1>2. TypeOK /\ TypeOK' /\ DisplayInv /\ [Next]_vars => DisplayInv'
  BY DisplayStep
<1>3. DisplayInv => DisplayShows
  <2> SUFFICES ASSUME DisplayInv, Answered, lcd[1] \in -999..9999
               PROVE  WellFormed /\ Reading = lcd[1]
    BY DEF DisplayShows
  <2>1. Fits(lcd[1])
    BY FitsRange
  <2> QED
    BY <2>1 DEF DisplayInv, Answered
<1> QED
  BY <1>1, <1>2, <1>3, TypeCorrect, PTL DEF Spec

(* The LEDs show the last answer until the next one or a clear. *)
LedsInv ==
    /\ lcd # NoAnswer /\ abs(lcd[1]) < 1024 =>
          \A i \in 0..7 : leds[i] <=> (abs(lcd[1]) \div 2^(7 - i)) % 2 = 1
    /\ lcd = NoAnswer => leds = Off

(* LED i is on where the magnitude has a one. *)
LEMMA LedsRead ==
    ASSUME NEW n \in Nat, n < 1024, NEW i \in 0..7
    PROVE  print_led(n)[i] <=> (n \div 2^(7 - i)) % 2 = 1
<1> DEFINE k == 7 - i
<1>1. k \in 0..7
  BY SMT
<1>2. print_led(n)[i] <=> digit(binaryNumber[n], k) = 1
  <2> DEFINE on(j) == digit(binaryNumber[n], 7 - j) = 1
  <2>1. ~(n >= 1024)
    BY SMT
  <2>2. print_led(n) = [j \in 0..7 |-> on(j)]
    BY <2>1, SMT DEF print_led
  <2>3. print_led(n)[i] = on(i)
    <3> HIDE DEF on
    <3> QED
      BY <2>2, SMT
  <2> QED
    BY <2>3 DEF on
<1>3. digit(binaryNumber[n], k) = (n \div 2^k) % 2
  <2> HIDE DEF k
  <2> QED
    BY <1>1, BinaryDigits
<1> QED
  BY <1>2, <1>3

(* Only '#' and '*' change the LEDs. *)
LEMMA LedsStep == TypeOK /\ LedsInv /\ [Next]_vars => LedsInv'
<1> SUFFICES ASSUME TypeOK, LedsInv, [Next]_vars PROVE LedsInv'
  OBVIOUS
<1>1. ASSUME UNCHANGED <<lcd, leds>> PROVE LedsInv'
  BY <1>1 DEF LedsInv
<1>2. ASSUME NEW key \in Keys, Press(key) PROVE LedsInv'
  BY <1>1, <1>2 DEF Press
<1>3. ASSUME Equals PROVE LedsInv'
  <2> DEFINE n == Evaluated(c').first
  <2>1. /\ Evaluated(c') \in Evaluation
        /\ IF Evaluated(c').trap
           THEN running' = FALSE /\ UNCHANGED <<lcd, seg, leds>>
           ELSE Answer(n)
    BY <1>3, EqualsStep
  <2>2. CASE Evaluated(c').trap
    BY <1>1, <2>1, <2>2
  <2>3. CASE ~Evaluated(c').trap
    <3>1. n \in Int /\ Answer(n)
      BY <2>1, <2>3 DEF Evaluation
    <3> HIDE DEF n
    <3>2. abs(n) \in Nat
      BY <3>1 DEF abs
    <3>3. lcd' = <<n>> /\ lcd'[1] = n /\ leds' = print_led(abs(n)) /\ lcd' # NoAnswer
      BY <3>1 DEF Answer, NoAnswer
    <3> DEFINE m == abs(n)
    <3>4. ASSUME m < 1024, NEW i \in 0..7
          PROVE  leds'[i] <=> (m \div 2^(7 - i)) % 2 = 1
      <4> HIDE DEF m
      <4> QED
        BY <3>2, <3>3, <3>4, LedsRead DEF m
    <3>5. abs(lcd'[1]) = m
      BY <3>3
    <3> HIDE DEF m
    <3> QED
      BY <3>3, <3>4, <3>5 DEF LedsInv
  <2> QED
    BY <2>2, <2>3
<1>4. ASSUME Clear PROVE LedsInv'
  BY <1>4 DEF Clear, LedsInv
<1>5. CASE UNCHANGED vars
  BY <1>1, <1>5 DEF vars
<1> QED
  BY <1>2, <1>3, <1>4, <1>5 DEF Next

(* The LEDs show the answer's magnitude modulo 256 in binary, though it is *)
(* put together as a decimal number on the way, and nothing after a clear. *)
THEOREM LedsRight == Spec => []LedsShow
<1>1. Init => LedsInv
  BY DEF Init, LedsInv
<1>2. TypeOK /\ LedsInv /\ [Next]_vars => LedsInv'
  BY LedsStep
<1>3. LedsInv => LedsShow
  BY DEF LedsInv, LedsShow, Answered
<1> QED
  BY <1>1, <1>2, <1>3, TypeCorrect, PTL DEF Spec

=============================================================================
