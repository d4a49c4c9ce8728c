----------------------------- MODULE SegDriver -----------------------------
(***************************************************************************)
(* The seven-segment pipeline of lab 4.  writer.cpp counts down into the   *)
(* device, one digit per second; the driver mydev.c keeps the last one in  *)
(* kbuf and turns it into a pattern of seven bytes when it is read;        *)
(* reader.cpp reads a pattern per second and sends it over TCP; seg.py     *)
(* polls the socket and lights the segments.                               *)
(*                                                                         *)
(* Nothing keeps writer and reader in step, and recv may return a part of  *)
(* a pattern: TCP keeps no boundaries.  Ctrl-C closes the files of the     *)
(* reader under it.                                                        *)
(***************************************************************************)
EXTENDS Integers, Sequences

CONSTANTS top,        \* the first digit of wbuf: 9
          Reads       \* patterns the reader sends: 10

VARIABLES kbuf, i,            \* the driver's digit; digits written
          rpc, buf, jj,       \* the reader: where it is, its pattern, its j
          closed,             \* its files are closed
          sent,               \* the patterns on the stream, by digit
          got, n,             \* seg.py: bytes received, by the last recv
          segs                \* the segments that are lit

reader  == <<rpc, buf, jj>>
display == <<got, n, segs>>
vars    == <<kbuf, i, reader, closed, sent, display>>

ASSUME SizeAssumption == top \in 0..9 /\ Reads \in Nat \ {0}

NoDigit == -1         \* kbuf before the first write: not a digit
Digits  == 0..9

(* rbuf_0 .. rbuf_9: top, upper right, lower right, bottom, lower left,    *)
(* upper left, middle.                                                     *)
rbuf == [d \in Digits |->
    CASE d = 0 -> <<1, 1, 1, 1, 1, 1, 0>>
      [] d = 1 -> <<0, 1, 1, 0, 0, 0, 0>>
      [] d = 2 -> <<1, 1, 0, 1, 1, 0, 1>>
      [] d = 3 -> <<1, 1, 1, 1, 0, 0, 1>>
      [] d = 4 -> <<0, 1, 1, 0, 0, 1, 1>>
      [] d = 5 -> <<1, 0, 1, 1, 0, 1, 1>>
      [] d = 6 -> <<1, 0, 1, 1, 1, 1, 1>>
      [] d = 7 -> <<1, 1, 1, 0, 0, 0, 0>>
      [] d = 8 -> <<1, 1, 1, 1, 1, 1, 1>>
      [] d = 9 -> <<1, 1, 1, 1, 0, 1, 1>>]

AllOff == <<0, 0, 0, 0, 0, 0, 0>>

(* my_read: the switch has no default. *)
pattern(d) == IF d \in Digits THEN rbuf[d] ELSE AllOff

-----------------------------------------------------------------------------
Init ==
    /\ kbuf = NoDigit /\ i = 0
    /\ rpc = "read" /\ buf = NoDigit /\ jj = 0
    /\ closed = FALSE
    /\ sent = <<>>
    /\ got = 0 /\ n = 0 /\ segs = AllOff

(* The digit the loop of writer.cpp writes in its turn k. *)
wbuf(k) == top - k

(* my_write, called by that loop. *)
my_write ==
    /\ i <= top
    /\ kbuf' = wbuf(i)
    /\ i' = i + 1
    /\ UNCHANGED <<reader, closed, sent, display>>

(* my_read, called by the loop of reader.cpp.  A closed file is an error. *)
my_read ==
    /\ rpc = "read"
    /\ jj' = jj + 1
    /\ IF closed THEN rpc' = "exited" /\ UNCHANGED buf
                 ELSE rpc' = "write" /\ buf' = kbuf
    /\ UNCHANGED <<kbuf, i, closed, sent, display>>

(* Mutant: one more pattern is sent. *)
Send_Past ==
    /\ rpc = "write"
    /\ IF closed THEN rpc' = "exited" /\ UNCHANGED sent
       ELSE /\ sent' = Append(sent, buf)
            /\ rpc' = IF jj = Reads + 1 THEN "exited" ELSE "sleep"
    /\ UNCHANGED <<kbuf, i, buf, jj, closed, display>>

Send ==
    /\ rpc = "write"
    /\ IF closed THEN rpc' = "exited" /\ UNCHANGED sent
       ELSE /\ sent' = Append(sent, buf)
            /\ rpc' = IF jj = Reads THEN "exited" ELSE "sleep"
    /\ UNCHANGED <<kbuf, i, buf, jj, closed, display>>

Sleep ==
    /\ rpc = "sleep"
    /\ rpc' = "read"
    /\ UNCHANGED <<kbuf, i, buf, jj, closed, sent, display>>

sigint_handler ==
    /\ rpc # "exited" /\ ~closed
    /\ closed' = TRUE
    /\ UNCHANGED <<kbuf, i, reader, sent, display>>

-----------------------------------------------------------------------------
(* Mutant: the reader sends its whole buffer. *)
Width_Buf == 8

(* write(connfd, buf, 7). *)
Width == 7

(* The bytes of the stream. *)
byte(k) == LET p == pattern(sent[((k - 1) \div Width) + 1])
               m == ((k - 1) % Width) + 1
           IN  IF m <= 7 THEN p[m] ELSE 0
InFlight == Len(sent) * Width - got

(* Mutant: the display stops with the reader. *)
update_WhileOpen ==
    /\ rpc # "exited"
    /\ \E m \in 1..7 :
          /\ m <= InFlight
          /\ segs' = [s \in 1..7 |-> IF s <= m THEN byte(got + s) ELSE segs[s]]
          /\ got' = got + m
          /\ n' = m
    /\ UNCHANGED <<kbuf, i, reader, closed, sent>>

(* recv(7) returns what has come, at most seven bytes; show lights as many *)
(* segments as it was given.                                               *)
update ==
    /\ \E m \in 1..7 :
          /\ m <= InFlight
          /\ segs' = [s \in 1..7 |-> IF s <= m THEN byte(got + s) ELSE segs[s]]
          /\ got' = got + m
          /\ n' = m
    /\ UNCHANGED <<kbuf, i, reader, closed, sent>>

Next == my_write \/ my_read \/ Send \/ Sleep \/ sigint_handler \/ update

Spec == Init /\ [][Next]_vars

(* The reader runs and seg.py polls; the writer need not. *)
FairSpec == Spec /\ WF_vars(my_read \/ Send \/ Sleep) /\ WF_vars(update)

-----------------------------------------------------------------------------
TypeOK ==
    /\ kbuf \in -1..9 /\ i \in 0..(top + 1)
    /\ rpc \in {"read", "write", "sleep", "exited"}
    /\ buf \in -1..9 /\ jj \in 0..Reads
    /\ closed \in BOOLEAN
    /\ sent \in Seq(-1..9) /\ Len(sent) <= jj
    /\ got \in Nat /\ n \in 0..7
    /\ segs \in [1..7 -> {0, 1}]

(* The last recv returned one whole pattern. *)
InFrame == n = 7 /\ got % 7 = 0

(* The digits a person can tell from the lit segments. *)
Legible == {d \in Digits : rbuf[d] = segs}

(* What comes through the pipeline is a countdown: digits may be skipped   *)
(* or repeated, never come back, and none is shown before it is written.   *)
(* Partial reads garble the display, but one whole pattern puts it right,  *)
(* with the digit that was sent and no other.                              *)
Order(d)  == IF d = NoDigit THEN top + 1 ELSE d
Countdown ==
    /\ \A k, m \in 1..Len(sent) : k < m => Order(sent[k]) >= Order(sent[m])
    /\ \A k \in 1..Len(sent) : Order(sent[k]) >= Order(kbuf)
    /\ InFrame => LET d == sent[got \div 7]
                  IN  Legible = IF d = NoDigit THEN {} ELSE {d}

(* The inductive invariant behind it.  The reader counts its turns and     *)
(* sends once in each, seg.py gets nothing that was not sent, digits wait  *)
(* in the order of the countdown, and a whole pattern is on the display as *)
(* it was sent.                                                            *)
Turns ==
    /\ rpc \in {"read", "sleep"} => jj < Reads
    /\ rpc = "write" => Len(sent) < jj
    /\ n <= got /\ got <= 7 * Len(sent)
Ordered ==
    /\ Order(kbuf) = top + 1 - i
    /\ Order(buf) >= Order(kbuf)
    /\ \A k \in 1..Len(sent) : Order(sent[k]) >= Order(buf)
    /\ \A k, m \in 1..Len(sent) : k < m => Order(sent[k]) >= Order(sent[m])
Shown   == InFrame => segs = pattern(sent[got \div 7])
SegInv  == TypeOK /\ Turns /\ Ordered /\ Shown

(* The reader stops by itself or on Ctrl-C, and every byte it sent reaches *)
(* the display.                                                            *)
Drained == <>(rpc = "exited" /\ got = Width * Len(sent))
=============================================================================
