----------------------------- MODULE Calculator -----------------------------
(***************************************************************************)
(* The calculator of lab 3 (lab3.c): keys are collected in the buffer c;   *)
(* '#' converts it to pairs of an operand and an operator, evaluates it in *)
(* one pass and shows the answer on the LCD, on the four digits of the     *)
(* seven-segment display and, in binary, on eight LEDs; '*' clears.        *)
(*                                                                         *)
(* The buffer is not emptied by '#'.  An operand is stored in a char,      *)
(* which the compiler of the makefile (ARM) takes as 0 .. 255.             *)
(***************************************************************************)
EXTENDS Integers, Sequences, SequencesExt

CONSTANTS Keys,      \* the keys that are pressed
          MaxKeys    \* bound: keys between two clears

VARIABLES c,         \* c[0 .. index_c - 1]
          lcd,       \* the answer on the LCD, in a sequence
          seg,       \* the digits D5 .. D8
          leds,      \* LED i is on
          running    \* the process has not been killed

vars == <<c, lcd, seg, leds, running>>

DigitKeys == {"0", "1", "2", "3", "4", "5", "6", "7", "8", "9"}
value == [k \in DigitKeys |->   \* c[i] - '0'
             CHOOSE n \in 0..9 :
                 <<"0", "1", "2", "3", "4", "5", "6", "7", "8", "9">>[n + 1] = k]

ASSUME KeysAssumption == Keys \subseteq DigitKeys \cup {"A", "B", "C", "D"}

(* The pairs of ten keys fill c_new[20], and nine digits or products of    *)
(* nine keys fit into an int.                                              *)
ASSUME MaxKeysAssumption == MaxKeys \in 1..10

Blank    == -1       \* a digit of the display that is off
Minus    == -2       \* pattern 0x40, the middle segment
NoAnswer == <<>>
AnyLeds  == <<>>     \* what a signed overflow leaves on the LEDs
Off      == [i \in 0..7 |-> FALSE]
Zeros    == [i \in 1..4 |-> 0]

-----------------------------------------------------------------------------
change_operator(key) ==
    CASE key = "A" -> "+"
      [] key = "B" -> "-"
      [] key = "C" -> "*"
      [] key = "D" -> "/"
      [] key = "#" -> "="
      [] OTHER     -> key

Operators == {"+", "-", "*", "/", "="}
Chars     == DigitKeys \cup Operators

(* c_new[i] = tmp + '0', and ch[i] - '0' when it is read back. *)
stored(tmp) == ((tmp + 48) % 256) - 48

(* One character of c: a digit goes on with the operand, an operator ends  *)
(* it.                                                                     *)
take(acc, ch) ==
    IF ch \in Operators
    THEN [tmp |-> 0, new |-> Append(acc.new, <<stored(acc.tmp), ch>>)]
    ELSE [acc EXCEPT !.tmp = acc.tmp * 10 + value[ch]]

convert[s \in Seq(Chars)] ==
    IF s = <<>> THEN [tmp |-> 0, new |-> <<>>]
    ELSE take(convert[Front(s)], Last(s))

abs(n) == IF n < 0 THEN -n ELSE n

(* Division of C: towards zero. *)
Quotient(a, b) ==
    LET q == abs(a) \div abs(b) IN IF (a < 0) # (b < 0) THEN -q ELSE q

(* The second loop of calculator: the running product takes the operand. *)
product(acc, n) ==
    CASE acc.second_oper = "*" -> acc.second * n
      [] acc.second_oper = "/" -> Quotient(acc.second, n)
      [] OTHER                 -> n

(* Mutant: the sum takes the operator behind the operand. *)
sum_Late(acc, n, oper) == IF oper = "-" THEN acc.first - n ELSE acc.first + n

sum(acc, n, oper) == IF acc.first_oper = "-" THEN acc.first - n ELSE acc.first + n

(* The evaluation, one pair after the other.  It stops at the first '='; a *)
(* division by zero kills the process.                                     *)
step(acc, pair) ==
    IF acc.trap \/ acc.first_oper = "=" THEN acc
    ELSE IF acc.second_oper = "/" /\ pair[1] = 0 THEN [acc EXCEPT !.trap = TRUE]
    ELSE LET second == product(acc, pair[1])
         IN  IF pair[2] \in {"*", "/"}
             THEN [acc EXCEPT !.second = second, !.second_oper = pair[2]]
             ELSE [acc EXCEPT !.first = sum(acc, second, pair[2]),
                              !.first_oper = pair[2], !.second_oper = "+"]

calculator[ch \in Seq(Int \X Operators)] ==
    IF ch = <<>> THEN [first |-> 0, first_oper |-> "+", second |-> 0,
                       second_oper |-> "+", trap |-> FALSE]
    ELSE step(calculator[Front(ch)], Last(ch))

-----------------------------------------------------------------------------
digit(n, i) == (n \div 10^i) % 10

(* Mutant: the higher digits are not taken off. *)
print_positive_Whole(n) == [i \in 1..4 |-> n \div 10^(4 - i)]

(* The decimal digits are read as hexadecimal ones; the display has four. *)
print_positive(n) == [i \in 1..4 |-> digit(n, 4 - i)]

(* Mutant: the digits to the left of the sign are not blanked. *)
print_negative_Stale(n) ==
    LET a      == abs(n)
        digits == IF a < 10 THEN 1 ELSE IF a < 100 THEN 2 ELSE 3
    IN  IF a >= 1000 THEN seg
        ELSE [i \in 1..4 |-> IF i < 4 - digits THEN seg[i]
                             ELSE IF i = 4 - digits THEN Minus
                             ELSE digit(a, 4 - i)]

(* One to three digits with the sign in front; with more, no case of the   *)
(* switch applies and the display stays as it is.                          *)
print_negative(n) ==
    LET a      == abs(n)
        digits == IF a < 10 THEN 1 ELSE IF a < 100 THEN 2 ELSE 3
    IN  IF a >= 1000 THEN seg
        ELSE [i \in 1..4 |-> IF i < 4 - digits THEN Blank
                             ELSE IF i = 4 - digits THEN Minus
                             ELSE digit(a, 4 - i)]

(* The binary digits of n are put together as a decimal number, and the    *)
(* eight lowest are taken off again.  The power of ten is an int, which    *)
(* overflows from the eleventh binary digit on.                            *)
binaryNumber[n \in Nat] ==
    IF n = 0 THEN 0 ELSE (n % 2) + 10 * binaryNumber[n \div 2]

(* Mutant: the array is filled from its front. *)
print_led_Front(n) ==
    IF n >= 1024 THEN AnyLeds ELSE [i \in 0..7 |-> digit(binaryNumber[n], i) = 1]

print_led(n) ==
    IF n >= 1024 THEN AnyLeds ELSE [i \in 0..7 |-> digit(binaryNumber[n], 7 - i) = 1]

-----------------------------------------------------------------------------
(* main clears the devices; the mode of the first display is not set, and  *)
(* 0 may be the pattern or the number.                                     *)
Init ==
    /\ c = <<>>
    /\ lcd = NoAnswer
    /\ seg \in {Zeros, [i \in 1..4 |-> Blank]}
    /\ leds = Off
    /\ running = TRUE

Press(key) ==
    /\ running /\ Len(c) < MaxKeys - 1
    /\ c' = Append(c, change_operator(key))
    /\ UNCHANGED <<lcd, seg, leds, running>>

Equals ==
    /\ running /\ Len(c) < MaxKeys
    /\ c' = Append(c, change_operator("#"))
    /\ LET result == calculator[convert[c'].new]
           ans    == result.first
       IN  IF result.trap
           THEN running' = FALSE /\ UNCHANGED <<lcd, seg, leds>>
           ELSE /\ lcd' = <<ans>>
                /\ seg' = IF ans >= 0 THEN print_positive(ans) ELSE print_negative(ans)
                /\ leds' = print_led(abs(ans))
                /\ UNCHANGED running

Clear ==
    /\ running
    /\ c' = <<>>
    /\ lcd' = NoAnswer
    /\ seg' = Zeros
    /\ leds' = Off
    /\ UNCHANGED running

Next == (\E key \in Keys : Press(key)) \/ Equals \/ Clear

Spec == Init /\ [][Next]_vars

-----------------------------------------------------------------------------
TypeOK ==
    /\ c \in Seq(Chars) /\ Len(c) <= MaxKeys
    /\ lcd = NoAnswer \/ (Len(lcd) = 1 /\ lcd[1] \in Int)
    /\ seg \in [1..4 -> -2..9]
    /\ leds = AnyLeds \/ leds \in [0..7 -> BOOLEAN]
    /\ running \in BOOLEAN

(* The reference: the expression before the first '=' by the rules of      *)
(* arithmetic.  It is split at its last + or -, and what is between them   *)
(* at its last * or /; an operand left out is 0.                           *)
TermChars       == DigitKeys \cup {"*", "/"}
ExpressionChars == TermChars \cup {"+", "-"}

LastOf(s, opers) == Max({0} \cup {i \in 1..Len(s) : s[i] \in opers})
Before(s, i)     == SubSeq(s, 1, i - 1)
Behind(s, i)     == SubSeq(s, i + 1, Len(s))

Number[s \in Seq(DigitKeys)] ==
    IF s = <<>> THEN 0 ELSE Number[Front(s)] * 10 + value[Last(s)]

(* A division by zero has no value; 0 stands for it and is never shown. *)
Term[s \in Seq(TermChars)] ==
    LET j == LastOf(s, {"*", "/"})
        n == Number[Behind(s, j)]
    IN  IF j = 0 THEN n
        ELSE IF s[j] = "*" THEN Term[Before(s, j)] * n
        ELSE IF n = 0 THEN 0
        ELSE Quotient(Term[Before(s, j)], n)

Value[s \in Seq(ExpressionChars)] ==
    LET i == LastOf(s, {"+", "-"})
        t == Term[Behind(s, i)]
    IN  IF i = 0 THEN t
        ELSE IF s[i] = "+" THEN Value[Before(s, i)] + t
        ELSE Value[Before(s, i)] - t

FirstEquals(s) == Min({i \in 1..Len(s) : s[i] = "="})
Expression     == Before(c, FirstEquals(c))
Answered       == lcd # NoAnswer /\ c # <<>> /\ c[Len(c)] = "="

(* Every operand that an operator ends fits into a char. *)
Operand(s)   == Number[Behind(s, LastOf(s, Operators))]
FitsChar(s)  == \A i \in 1..Len(s) : s[i] \in Operators => Operand(Before(s, i)) < 208
InChar       == FitsChar(c)

(* The one-pass evaluator keeps to the rules of arithmetic, * and / before *)
(* + and -, each from left to right, while operands fit into a char.  What *)
(* it evaluates is the first expression after a clear, however many        *)
(* answers and keys have come since.                                       *)
AnswerRight == running /\ Answered /\ InChar => lcd[1] = Value[Expression]

(* What a person reads off the display: blanks, a sign, digits. *)
Digit(i)   == IF seg[i] < 0 THEN 0 ELSE seg[i]
Magnitude  == Digit(1) * 1000 + Digit(2) * 100 + Digit(3) * 10 + Digit(4)
Signed     == \E i \in 1..4 : seg[i] = Minus
WellFormed == \A i \in 2..4 :
                 /\ seg[i] = Blank => seg[i - 1] = Blank
                 /\ seg[i] = Minus => seg[i - 1] = Blank
                 /\ seg[i] >= 0 /\ Signed => seg[i - 1] # Blank
Reading    == IF Signed THEN -Magnitude ELSE Magnitude

(* The display shows the answer, with its sign in front of the digits,     *)
(* whatever was shown before, if the answer has room on it.                *)
DisplayShows == Answered /\ lcd[1] \in -999..9999 => WellFormed /\ Reading = lcd[1]

(* The LEDs, the last one lowest, show the answer's magnitude modulo 256   *)
(* while no power of ten has overflowed, and nothing when there is none.   *)
LedsShow ==
    /\ Answered /\ abs(lcd[1]) < 1024 =>
          \A i \in 0..7 : leds[i] <=> (abs(lcd[1]) \div 2^(7 - i)) % 2 = 1
    /\ lcd = NoAnswer => leds = Off
=============================================================================
