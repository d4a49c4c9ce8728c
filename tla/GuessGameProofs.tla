-------------------------- MODULE GuessGameProofs --------------------------
(***************************************************************************)
(* The bisection of lab 7 for every range and every answer: what holds     *)
(* whatever the timing, and what holds when game answers in time.          *)
(***************************************************************************)
EXTENDS GuessGame, TLAPS

(* The mean of two numbers lies between them. *)
LEMMA Mean ==
    ASSUME NEW a \in Nat, NEW b \in Nat, a <= b
    PROVE  /\ (a + b) \div 2 \in Nat /\ (b + a) \div 2 \in Nat
           /\ a <= (a + b) \div 2 /\ (a + b) \div 2 <= b
           /\ a <= (b + a) \div 2 /\ (b + a) \div 2 <= b
OBVIOUS

(* The first guess lies in the range, which has two numbers or more. *)
LEMMA FirstGuess ==
    ASSUME NEW n \in Nat, n >= 2
    PROVE  n \div 2 \in Nat /\ 1 <= n \div 2 /\ n \div 2 <= n
OBVIOUS

Ranged == TypeOK /\ GuessInRange

(* The game starts with a guess in the range. *)
LEMMA RangedInit == Init => Ranged
<1> SUFFICES ASSUME Init PROVE Ranged
  OBVIOUS
<1>1. ans \in Nat /\ top \in Nat /\ top >= 2 /\ 1 <= ans /\ ans <= top
      /\ timely \in BOOLEAN
  BY UppersAssumption, AnswersAssumption DEF Init
<1>2. top \div 2 \in Nat /\ 1 <= top \div 2 /\ top \div 2 <= top
  BY <1>1, FirstGuess
<1>3. TypeOK
  <2>1. attached \subseteq {"game", "guess"} /\ usr1 \in BOOLEAN
    BY Zenon DEF Init
  <2>2. /\ guess \in Nat /\ lower_bound \in Nat /\ upper_bound \in Nat /\ resu \in 1..4
        /\ tpc = "idle" /\ gpc = "busy"
    BY <1>1, <1>2 DEF Init
  <2> QED
    BY <1>1, <2>1, <2>2 DEF TypeOK
<1>4. GuessInRange
  BY <1>1, <1>2 DEF Init, GuessInRange
<1> QED
  BY <1>3, <1>4 DEF Ranged

(* The two moves of timer_handler keep the guess between the bounds; no    *)
(* other step touches them.                                                *)
LEMMA RangedStep ==
    ASSUME Ranged, [Next]_vars
    PROVE  Ranged'
<1> USE DEF args, bounds
<1>t. TypeOK /\ GuessInRange
  BY DEF Ranged
<1>m. /\ (guess + upper_bound) \div 2 \in Nat
      /\ guess <= (guess + upper_bound) \div 2
      /\ (guess + upper_bound) \div 2 <= upper_bound
      /\ (guess + lower_bound) \div 2 \in Nat
      /\ lower_bound <= (guess + lower_bound) \div 2
      /\ (guess + lower_bound) \div 2 <= guess
  BY <1>t, Mean DEF TypeOK, GuessInRange
<1>1. CASE Tick
  BY <1>1, <1>t DEF Ranged, Tick, TypeOK, GuessInRange
<1>2. CASE Is2
  BY <1>2, <1>t DEF Ranged, Is2, TypeOK, GuessInRange
<1>3. CASE Is3
  BY <1>3, <1>t, <1>m DEF Ranged, Is3, TypeOK, GuessInRange
<1>4. CASE Is1
  BY <1>4, <1>t, <1>m DEF Ranged, Is1, TypeOK, GuessInRange
<1>5. CASE Kill
  BY <1>5, <1>t DEF Ranged, Kill, TypeOK, GuessInRange
<1>6. CASE Enter
  BY <1>6, <1>t DEF Ranged, Enter, TypeOK, GuessInRange
<1>7. CASE IsBingo \/ IsSmaller \/ IsBigger
  BY <1>7, <1>t DEF Ranged, IsBingo, IsSmaller, IsBigger, Compare, TypeOK, GuessInRange
<1>8. CASE Answering
  <2>1. /\ resu' \in 1..4 /\ gpc' = "busy"
        /\ UNCHANGED <<args, attached, bounds, guess, tpc, usr1>>
    BY <1>8 DEF Answering, Answer
  <2> QED
    BY <1>t, <2>1 DEF Ranged, TypeOK, GuessInRange
<1>9. ASSUME NEW p \in {"game", "guess"}, handler_delete(p) PROVE Ranged'
  BY <1>9, <1>t DEF Ranged, handler_delete, TypeOK, GuessInRange
<1>10. CASE UNCHANGED vars
  BY <1>10, <1>t DEF Ranged, vars, TypeOK, GuessInRange
<1> QED
  BY <1>1, <1>2, <1>3, <1>4, <1>5, <1>6, <1>7, <1>8, <1>9, <1>10
     DEF Next, timer_handler, handler, Over

(* guess.cpp: however ticks and answers interleave, the guess and both     *)
(* bounds stay ordered and inside 1 .. <upper_bound>.                      *)
THEOREM AlwaysInRange == Spec => [](TypeOK /\ GuessInRange)
<1>1. Ranged /\ [Next]_vars => Ranged'
  BY RangedStep
<1>2. Ranged => TypeOK /\ GuessInRange
  BY DEF Ranged
<1> QED
  BY <1>1, <1>2, RangedInit, PTL DEF Spec

(* guess.cpp, game.cpp: the shared segment holds a guess that is a number  *)
(* and one of the four results, whoever writes first.                      *)
THEOREM GuessTyped == Spec => []TypeOK
<1>1. TypeOK /\ GuessInRange => TypeOK
  OBVIOUS
<1> QED
  BY <1>1, AlwaysInRange, PTL

-----------------------------------------------------------------------------
(* The start of the game: nothing is answered, everything is possible. *)
LEMMA TurnsInit == Init => Within /\ Turns
<1> SUFFICES ASSUME Init PROVE Within /\ Turns
  OBVIOUS
<1>1. Within
  BY UppersAssumption, AnswersAssumption DEF Init, Within
<1>2. "game" \in attached
  BY Zenon DEF Init
<1>3. Turns
  BY <1>2 DEF Init, Turns, Fits
<1> QED
  BY <1>1, <1>3

(* In a timely game the two handlers take turns. *)
LEMMA TurnsStep ==
    ASSUME timely, TypeOK, Within, Turns, [Next]_vars
    PROVE  Within' /\ Turns'
<1> USE DEF args, bounds
<1>1. CASE Tick
  BY <1>1 DEF Tick, Within, Turns, Fits
<1>2. CASE Is2
  BY <1>2 DEF Is2, TypeOK, Within, Turns, Fits
<1>3. CASE Is3
  BY <1>3 DEF Is3, TypeOK, Within, Turns, Fits
<1>4. CASE Is1
  BY <1>4 DEF Is1, TypeOK, Within, Turns, Fits
<1>5. CASE Kill
  BY <1>5 DEF Kill, Within, Turns, Fits
<1>6. CASE Enter
  BY <1>6 DEF Enter, Within, Turns, Fits
<1>7. CASE IsBingo \/ IsSmaller \/ IsBigger
  <2>1. guess \in Nat /\ ans \in Nat
    BY DEF TypeOK
  <2>2. CASE IsBingo
    BY <2>1, <2>2 DEF IsBingo, Compare, Within, Turns, Fits
  <2>3. CASE IsSmaller
    BY <2>1, <2>3 DEF IsSmaller, Compare, Within, Turns, Fits
  <2>4. CASE IsBigger
    BY <2>1, <2>4 DEF IsBigger, Compare, Within, Turns, Fits
  <2> QED
    BY <1>7, <2>2, <2>3, <2>4
<1>8. CASE Answering
  <2> SUFFICES ASSUME NEW at \in {"set1", "set2", "set3"}, NEW r \in 1..3,
                      <<at, r>> \in {<<"set2", 2>>, <<"set1", 1>>, <<"set3", 3>>},
                      Answer(at, r)
               PROVE  Within' /\ Turns'
    BY <1>8 DEF Answering
  <2> QED
    BY DEF Answer, Within, Turns, Fits
<1>9. ASSUME NEW p \in {"game", "guess"}, handler_delete(p) PROVE Within' /\ Turns'
  BY <1>9 DEF handler_delete, TypeOK, Within, Turns, Fits
<1>10. CASE UNCHANGED vars
  BY <1>10 DEF vars, Within, Turns, Fits
<1> QED
  BY <1>1, <1>2, <1>3, <1>4, <1>5, <1>6, <1>7, <1>8, <1>9, <1>10
     DEF Next, timer_handler, handler, Over

(* guess.cpp, game.cpp: when game answers before the next tick, the answer *)
(* stays between the bounds and timer_handler never applies an answer to   *)
(* another guess than the one it was given for.                            *)
THEOREM NeverExcluded == Spec => []Bracket
<1> DEFINE Inv == timely => Within /\ Turns
<1>1. Init => Inv
  BY TurnsInit
<1>2. TypeOK /\ Inv /\ [Next]_vars => Inv'
  <2> SUFFICES ASSUME TypeOK, Inv, [Next]_vars, timely' PROVE (Within /\ Turns)'
    OBVIOUS
  <2>1. timely' = timely
    BY DEF Next, vars, args, timer_handler, handler, Tick, Is2, Is3, Is1, Kill, Enter,
           IsBingo, IsSmaller, IsBigger, Compare, Answering, Answer, handler_delete, Over
  <2> QED
    BY <2>1, TurnsStep
<1>3. Inv => Bracket
  BY DEF Within, Turns, Bracket, Fits
<1> QED
  BY <1>1, <1>2, <1>3, GuessTyped, PTL DEF Spec
=============================================================================
