----------------------------- MODULE GuessGame -----------------------------
(***************************************************************************)
(* The number game of lab 7: game.cpp knows the answer, guess.cpp bisects. *)
(* They share a segment with the fields guess and resu.  Once per second   *)
(* of its own CPU time guess runs timer_handler, which reads resu, moves   *)
(* guess and sends SIGUSR1; game's handler reads guess and writes resu.    *)
(* Nothing orders the two: a signal that is sent while one is pending is   *)
(* lost, and a tick that comes before the answer reads the old one.        *)
(*                                                                         *)
(* resu: 1 smaller, 2 bingo, 3 bigger, 4 not answered yet.                 *)
(***************************************************************************)
EXTENDS Integers

CONSTANTS Uppers,     \* values of <upper_bound>
          Answers,    \* values of <guess>, the answer given to game
          Schedules   \* TRUE: game answers before the next tick of guess

VARIABLES ans, top,   \* the answer, and the <upper_bound> of this run
          timely,     \* how the two programs are scheduled in this run
          guess, resu,            \* the shared segment
          attached,               \* processes attached to the segment
          tpc,                    \* guess.cpp: where timer_handler is
          lower_bound, upper_bound,
          gpc,                    \* game.cpp: where handler is
          usr1                    \* SIGUSR1 is pending for game

args   == <<ans, top, timely>>
bounds == <<lower_bound, upper_bound>>
vars   == <<args, attached, bounds, guess, resu, tpc, gpc, usr1>>

ASSUME UppersAssumption == Uppers \subseteq {n \in Nat : n >= 2}
ASSUME AnswersAssumption == Answers \subseteq Nat /\ Schedules \subseteq BOOLEAN

-----------------------------------------------------------------------------
(* Both programs have set up their handlers and attached the segment, and  *)
(* guess has written its first guess.                                      *)
Init ==
    /\ ans \in Answers
    /\ top \in {u \in Uppers : 1 <= ans /\ ans <= u}
    /\ timely \in Schedules
    /\ guess = top \div 2
    /\ resu = 4
    /\ attached = {"game", "guess"}
    /\ tpc = "idle"
    /\ lower_bound = 1 /\ upper_bound = top
    /\ gpc = "busy"
    /\ usr1 = FALSE

(* timer_handler: three reads of resu, a move, a signal. *)
Tick ==
    /\ tpc = "idle"
    /\ timely => ~usr1 /\ gpc = "busy"
    /\ tpc' = "is2"
    /\ UNCHANGED <<args, attached, bounds, guess, resu, gpc, usr1>>

(* kill(getpid(), SIGINT) is delivered at once: handler_delete detaches    *)
(* the segment and exits.                                                  *)
Is2 ==
    /\ tpc = "is2"
    /\ IF resu = 2
       THEN tpc' = "exited" /\ attached' = attached \ {"guess"}
       ELSE tpc' = "is3" /\ UNCHANGED attached
    /\ UNCHANGED <<args, bounds, guess, resu, gpc, usr1>>

(* Mutants: the bound does not move; the bound moves past the guess. *)
Is3_KeepsBound ==
    /\ tpc = "is3"
    /\ IF resu = 3
       THEN /\ guess' = (guess + lower_bound) \div 2
            /\ tpc' = "kill"
       ELSE tpc' = "is1" /\ UNCHANGED guess
    /\ UNCHANGED <<args, attached, bounds, resu, gpc, usr1>>

Is3_TooFar ==
    /\ tpc = "is3"
    /\ IF resu = 3
       THEN /\ lower_bound' = guess + 2
            /\ guess' = (guess + upper_bound) \div 2
            /\ tpc' = "kill"
       ELSE tpc' = "is1" /\ UNCHANGED <<lower_bound, guess>>
    /\ UNCHANGED <<args, attached, upper_bound, resu, gpc, usr1>>

Is3 ==
    /\ tpc = "is3"
    /\ IF resu = 3
       THEN /\ lower_bound' = guess
            /\ guess' = (guess + upper_bound) \div 2
            /\ tpc' = "kill"
       ELSE tpc' = "is1" /\ UNCHANGED <<lower_bound, guess>>
    /\ UNCHANGED <<args, attached, upper_bound, resu, gpc, usr1>>

Is1 ==
    /\ tpc = "is1"
    /\ IF resu = 1
       THEN /\ upper_bound' = guess
            /\ guess' = (guess + lower_bound) \div 2
       ELSE UNCHANGED <<upper_bound, guess>>
    /\ tpc' = "kill"
    /\ UNCHANGED <<args, attached, lower_bound, resu, gpc, usr1>>

Kill ==
    /\ tpc = "kill"
    /\ usr1' = ("game" \in attached)
    /\ tpc' = "idle"
    /\ UNCHANGED <<args, attached, bounds, guess, resu, gpc>>

timer_handler == Tick \/ Is2 \/ Is3 \/ Is1 \/ Kill

-----------------------------------------------------------------------------
(* game's handler: up to three reads of guess, then a write of resu. *)
Enter ==
    /\ gpc = "busy" /\ usr1
    /\ usr1' = FALSE
    /\ gpc' = "eq"
    /\ UNCHANGED <<args, attached, bounds, guess, resu, tpc>>

Compare(at, holds, set, else) ==
    /\ gpc = at
    /\ gpc' = IF holds THEN set ELSE else
    /\ UNCHANGED <<args, attached, bounds, guess, resu, tpc, usr1>>

(* Mutant: the comparison is the wrong way round. *)
IsSmaller_Swapped == Compare("gt", guess < ans, "set1", "lt")

IsBingo   == Compare("eq", guess = ans, "set2", "gt")
IsSmaller == Compare("gt", guess > ans, "set1", "lt")
IsBigger  == Compare("lt", guess < ans, "set3", "busy")

Answer(at, r) ==
    /\ gpc = at
    /\ resu' = r
    /\ gpc' = "busy"
    /\ UNCHANGED <<args, attached, bounds, guess, tpc, usr1>>

(* Mutant: a guess that is too large is answered with 0. *)
Answering_Zero == Answer("set2", 2) \/ Answer("set1", 0) \/ Answer("set3", 3)

Answering == Answer("set2", 2) \/ Answer("set1", 1) \/ Answer("set3", 3)

handler == Enter \/ IsBingo \/ IsSmaller \/ IsBigger \/ Answering

-----------------------------------------------------------------------------
(* Ctrl-C: handler_delete of either program. *)
handler_delete(p) ==
    /\ p \in attached
    /\ attached' = attached \ {p}
    /\ tpc' = IF p = "guess" THEN "exited" ELSE tpc
    /\ gpc' = IF p = "game" THEN "exited" ELSE gpc
    /\ usr1' = (usr1 /\ p = "guess")
    /\ UNCHANGED <<args, bounds, guess, resu>>

(* The guesser is gone; nothing is left to do but Ctrl-C in game. *)
Over == attached = {} /\ UNCHANGED vars

Next == timer_handler \/ handler \/ Over
        \/ \E p \in {"game", "guess"} : handler_delete(p)

Spec == Init /\ [][Next]_vars

(* The timer keeps ticking and both handlers run; nobody has to press     *)
(* Ctrl-C.                                                                 *)
FairSpec == Spec /\ WF_vars(timer_handler) /\ WF_vars(handler)

-----------------------------------------------------------------------------
TypeOK ==
    /\ ans \in Nat /\ top \in Nat /\ 1 <= ans /\ ans <= top
    /\ timely \in BOOLEAN
    /\ guess \in Nat /\ lower_bound \in Nat /\ upper_bound \in Nat
    /\ resu \in 1..4
    /\ attached \subseteq {"game", "guess"}
    /\ tpc \in {"idle", "is2", "is3", "is1", "kill", "exited"}
    /\ gpc \in {"busy", "eq", "gt", "lt", "set1", "set2", "set3", "exited"}
    /\ usr1 \in BOOLEAN

(* Whatever the order of ticks and answers, late and lost ones included,   *)
(* the guess stays between the bounds and the bounds in the range of the   *)
(* game.                                                                   *)
GuessInRange ==
    1 <= lower_bound /\ lower_bound <= guess /\ guess <= upper_bound
    /\ upper_bound <= top

(* When game answers before the next tick, bisection never excludes the    *)
(* answer, and what timer_handler reads is the answer to the guess it made.*)
Bracket ==
    timely =>
      /\ lower_bound <= ans /\ ans <= upper_bound
      /\ gpc = "busy" /\ ~usr1 /\ tpc \in {"is2", "is3"} =>
           /\ resu = 1 => guess > ans
           /\ resu = 2 => guess = ans
           /\ resu = 3 => guess < ans

(* The invariants behind it: while timer_handler runs, game is idle and    *)
(* resu is the answer to guess; while game's handler runs, guess          *)
(* does not move and each comparison that failed still fails.              *)
Fits == (resu = 1 => guess > ans) /\ (resu = 2 => guess = ans) /\ (resu = 3 => guess < ans)
Turns ==
    /\ tpc \in {"is2", "is3", "is1", "kill"} => ~usr1 /\ gpc \in {"busy", "exited"}
    /\ tpc \in {"is2", "is3", "is1"} => Fits
    /\ tpc = "idle" /\ gpc = "busy" /\ ~usr1 => Fits
    /\ gpc # "exited" => "game" \in attached
    /\ gpc = "gt" => guess # ans
    /\ gpc = "lt" => guess < ans
    /\ gpc = "set1" => guess > ans
    /\ gpc = "set2" => guess = ans
    /\ gpc = "set3" => guess < ans
Within == lower_bound <= ans /\ ans <= upper_bound

(* A timely game in which the answer is below the upper bound ends with    *)
(* the guesser's exit: the programs do not wait for each other, unless one *)
(* of them is stopped, game at all or guess on another number.             *)
Found == timely /\ ans < top /\ [](gpc # "exited" /\ (tpc = "exited" => guess = ans))
            => <>(tpc = "exited")
=============================================================================
