-------------------------- MODULE SegDriverProofs --------------------------
(***************************************************************************)
(* The seven-segment pipeline of lab 4 shows a countdown, wherever it      *)
(* starts, however many patterns the reader sends and however TCP cuts     *)
(* them.                                                                   *)
(***************************************************************************)
EXTENDS SegDriver, TLAPS, SequenceTheorems

USE DEF reader, display

-----------------------------------------------------------------------------
(* The patterns of mydev.c, segment by segment. *)
LEMMA Patterns ==
    /\ rbuf[0] = <<1, 1, 1, 1, 1, 1, 0>> /\ rbuf[1] = <<0, 1, 1, 0, 0, 0, 0>>
    /\ rbuf[2] = <<1, 1, 0, 1, 1, 0, 1>> /\ rbuf[3] = <<1, 1, 1, 1, 0, 0, 1>>
    /\ rbuf[4] = <<0, 1, 1, 0, 0, 1, 1>> /\ rbuf[5] = <<1, 0, 1, 1, 0, 1, 1>>
    /\ rbuf[6] = <<1, 0, 1, 1, 1, 1, 1>> /\ rbuf[7] = <<1, 1, 1, 0, 0, 0, 0>>
    /\ rbuf[8] = <<1, 1, 1, 1, 1, 1, 1>> /\ rbuf[9] = <<1, 1, 1, 1, 0, 1, 1>>
<1>1. \A d \in Digits : rbuf[d] =
         CASE d = 0 -> <<1, 1, 1, 1, 1, 1, 0>>
           [] d = 1 -> <<0, 1, 1, 0, 0, 0, 0>>
           [] d = 2 -> <<1, 1, 0, 1, 1, 0, 1>>
           [] d = 3 -> <<1, 1, 1, 1, 0, 0, 1>>
           [] d = 4 -> <<0, 1, 1, 0, 0, 1, 1>>
           [] d = 5 -> <<1, 0, 1, 1, 0, 1, 1>>
           [] d = 6 -> <<1, 0, 1, 1, 1, 1, 1>>
           [] d = 7 -> <<1, 1, 1, 0, 0, 0, 0>>
           [] d = 8 -> <<1, 1, 1, 1, 1, 1, 1>>
           [] d = 9 -> <<1, 1, 1, 1, 0, 1, 1>>
  BY DEF rbuf
<1> QED
  BY <1>1 DEF Digits

(* A pattern lights or leaves dark each of seven segments. *)
LEMMA PatternType ==
    ASSUME NEW d \in -1..9
    PROVE  pattern(d) \in [1..7 -> {0, 1}]
BY Patterns DEF pattern, AllOff, Digits

(* No two digits have the same pattern, and none is dark. *)
LEMMA PatternsDiffer ==
    ASSUME NEW d \in -1..9
    PROVE  {e \in Digits : rbuf[e] = pattern(d)} = IF d = NoDigit THEN {} ELSE {d}
<1>1. \A a, b \in Digits : rbuf[a] = rbuf[b] => a = b
  BY Patterns DEF Digits
<1>2. \A a \in Digits : rbuf[a] # AllOff
  BY Patterns DEF Digits, AllOff
<1>3. d = NoDigit \/ d \in Digits
  BY DEF NoDigit, Digits
<1>4. NoDigit \notin Digits
  BY DEF NoDigit, Digits
<1> QED
  BY <1>1, <1>2, <1>3, <1>4 DEF pattern

-----------------------------------------------------------------------------
(* Where a byte of the stream comes from, when got is at a boundary. *)
LEMMA FrameNumbers ==
    ASSUME NEW q \in Nat, NEW s \in 1..7
    PROVE  /\ ((7 * q + s) - 1) \div 7 = q /\ (((7 * q + s) - 1) % 7) + 1 = s
           /\ (7 * q + 7) \div 7 = q + 1 /\ (7 * q + 7) % 7 = 0
OBVIOUS

(* A number of bytes is a number of whole patterns and a rest. *)
LEMMA FrameCount ==
    ASSUME NEW g \in Nat
    PROVE  /\ g \div 7 \in Nat /\ g % 7 \in 0..6 /\ g = (7 * (g \div 7)) + (g % 7)
           /\ g % 7 # 0 => (g + 7) % 7 # 0
OBVIOUS
(* The display got a whole pattern: it is the one that was sent. *)
LEMMA WholePattern ==
    ASSUME SegInv, got % 7 = 0, 7 <= InFlight,
           segs' = [s \in 1..7 |-> IF s <= 7 THEN byte(got + s) ELSE segs[s]]
    PROVE  /\ (got + 7) \div 7 \in 1..Len(sent)
           /\ segs' = pattern(sent[(got + 7) \div 7])
<1> DEFINE q == got \div 7
<1>1. got \in Nat /\ Len(sent) \in Nat /\ sent \in Seq(-1..9)
  BY LenProperties DEF SegInv, TypeOK
<1>2. q \in Nat /\ got = 7 * q
  BY <1>1, FrameCount
<1> HIDE DEF q
<1>3. (got + 7) \div 7 = q + 1
  BY <1>2, FrameNumbers
<1>4. q + 1 \in 1..Len(sent)
  BY <1>1, <1>2 DEF InFlight, Width
<1>5. sent[q + 1] \in -1..9
  BY <1>1, <1>4, ElementOfSeq
<1>6. pattern(sent[q + 1]) \in [1..7 -> {0, 1}]
  BY <1>5, PatternType
<1>7. ASSUME NEW s \in 1..7 PROVE byte(got + s) = pattern(sent[q + 1])[s]
  <2>1. ((got + s) - 1) \div 7 = q /\ (((got + s) - 1) % 7) + 1 = s /\ s <= 7
    BY <1>2, FrameNumbers
  <2> QED
    BY <2>1 DEF byte, Width
<1>8. segs' = [s \in 1..7 |-> pattern(sent[q + 1])[s]]
  BY <1>7
<1> QED
  BY <1>3, <1>4, <1>6, <1>8

(* A byte of the stream that was sent is 0 or 1. *)
LEMMA ByteType ==
    ASSUME SegInv, NEW k \in Nat, 1 <= k, k <= 7 * Len(sent)
    PROVE  byte(k) \in {0, 1}
<1> DEFINE g == k - 1
<1>1. g \in Nat /\ Len(sent) \in Nat /\ sent \in Seq(-1..9)
  BY LenProperties DEF SegInv, TypeOK
<1>2. g \div 7 \in Nat /\ g % 7 \in 0..6 /\ g = (7 * (g \div 7)) + (g % 7)
  BY <1>1, FrameCount
<1>3. (g \div 7) + 1 \in 1..Len(sent)
  BY <1>1, <1>2
<1>4. sent[(g \div 7) + 1] \in -1..9
  BY <1>1, <1>3, ElementOfSeq
<1>5. pattern(sent[(g \div 7) + 1]) \in [1..7 -> {0, 1}]
  BY <1>4, PatternType
<1>6. (g % 7) + 1 \in 1..7
  BY <1>2
<1> QED
  BY <1>5, <1>6 DEF byte, Width

-----------------------------------------------------------------------------
(* The step of writer.cpp: the digits in the pipeline are all behind the   *)
(* one that is written.                                                    *)
LEMMA WriteKeeps == ASSUME SegInv, my_write PROVE SegInv'
<1>1. /\ i <= top /\ kbuf' = top - i /\ i' = i + 1
      /\ UNCHANGED <<rpc, buf, jj, closed, sent, got, n, segs>>
  BY DEF my_write, wbuf
<1>2. top \in 0..9 /\ i \in 0..(top + 1) /\ kbuf \in -1..9 /\ buf \in -1..9
  BY SizeAssumption DEF SegInv, TypeOK
<1>3. kbuf' \in -1..9 /\ i' \in 0..(top + 1) /\ kbuf' # NoDigit
  BY <1>1, <1>2 DEF NoDigit
<1>4. TypeOK'
  BY <1>1, <1>3 DEF SegInv, TypeOK
<1>5. Order(kbuf)' = top + 1 - i' /\ Order(kbuf) = top + 1 - i /\ Order(buf) >= Order(kbuf)
  BY <1>1, <1>2, <1>3 DEF SegInv, Ordered, Order
<1>6. Order(buf) >= Order(kbuf)'
  BY <1>1, <1>2, <1>5 DEF Order, NoDigit
<1>7. Ordered'
  BY <1>1, <1>5, <1>6 DEF SegInv, Ordered, Order
<1>8. Turns' /\ Shown'
  BY <1>1 DEF SegInv, Turns, Shown, InFrame
<1> QED
  BY <1>4, <1>7, <1>8 DEF SegInv

(* The steps of reader.cpp and of its signal handler, Send aside. *)
LEMMA ReadKeeps ==
    ASSUME SegInv, my_read \/ Sleep \/ sigint_handler
    PROVE  SegInv'
<1>t. TypeOK /\ Turns /\ Ordered /\ Shown /\ Reads \in Nat
  BY SizeAssumption DEF SegInv
<1>o. \A k \in 1..Len(sent) : sent[k] \in -1..9
  BY <1>t, ElementOfSeq DEF TypeOK
<1>1. UNCHANGED <<kbuf, i, sent, got, n, segs>>
  BY DEF my_read, Sleep, sigint_handler
<1>2. Shown'
  BY <1>t, <1>1 DEF Shown, InFrame
<1>3. CASE my_read
  <2>1. /\ rpc = "read" /\ jj' = jj + 1 /\ closed' = closed
        /\ (rpc' = "exited" /\ buf' = buf) \/ (rpc' = "write" /\ buf' = kbuf)
    BY <1>3 DEF my_read
  <2>2. jj \in Nat /\ jj < Reads /\ Len(sent) \in Nat /\ Len(sent) <= jj
    BY <1>t, <2>1, LenProperties DEF TypeOK, Turns
  <2>3. jj' \in 0..Reads /\ Len(sent) < jj'
    BY <1>t, <2>1, <2>2
  <2>4. TypeOK'
    BY <1>t, <1>1, <2>1, <2>2, <2>3 DEF TypeOK
  <2>5. Turns'
    BY <1>t, <1>1, <2>1, <2>3 DEF Turns
  <2>6. Ordered'
    <3>1. CASE buf' = buf
      BY <1>t, <1>1, <3>1 DEF Ordered, Order
    <3>2. CASE buf' = kbuf
      <4>1. \A k \in 1..Len(sent) : Order(sent[k]) >= Order(kbuf)
        BY <1>t, <1>o, SizeAssumption DEF TypeOK, Ordered, Order, NoDigit
      <4>2. Order(kbuf) >= Order(kbuf)
        BY <1>t, SizeAssumption DEF TypeOK, Order, NoDigit
      <4> QED
        BY <1>t, <1>1, <3>2, <4>1, <4>2 DEF Ordered, Order
    <3> QED
      BY <2>1, <3>1, <3>2
  <2> QED
    BY <1>2, <2>4, <2>5, <2>6 DEF SegInv
<1>4. CASE Sleep
  BY <1>t, <1>1, <1>2, <1>4 DEF Sleep, SegInv, TypeOK, Turns, Ordered, Order
<1>5. CASE sigint_handler
  BY <1>t, <1>1, <1>2, <1>5 DEF sigint_handler, SegInv, TypeOK, Turns, Ordered, Order
<1> QED
  BY <1>3, <1>4, <1>5
(* A pattern is put on the stream behind the others: its digit is no       *)
(* larger than theirs.                                                     *)
LEMMA SendKeeps == ASSUME SegInv, Send PROVE SegInv'
<1>t. TypeOK /\ Turns /\ Ordered /\ Shown
  BY DEF SegInv
<1>1. UNCHANGED <<kbuf, i, buf, jj, closed, got, n, segs>> /\ rpc = "write"
  BY DEF Send
<1>o. /\ sent \in Seq(-1..9) /\ Len(sent) \in Nat /\ buf \in -1..9 /\ top \in 0..9
      /\ jj \in 0..Reads /\ Reads \in Nat /\ got \in Nat
      /\ \A k \in 1..Len(sent) : sent[k] \in -1..9
  BY <1>t, SizeAssumption, LenProperties, ElementOfSeq DEF TypeOK
<1>2. CASE closed
  <2>1. rpc' = "exited" /\ sent' = sent
    BY <1>2 DEF Send
  <2> QED
    BY <1>t, <1>1, <2>1 DEF SegInv, TypeOK, Turns, Ordered, Order, Shown, InFrame
<1>3. CASE ~closed
  <2>1. /\ sent' = Append(sent, buf) /\ Len(sent) < jj
        /\ rpc' = IF jj = Reads THEN "exited" ELSE "sleep"
    BY <1>t, <1>1, <1>3 DEF Send, Turns
  <2>2. /\ sent' \in Seq(-1..9) /\ Len(sent') = Len(sent) + 1
        /\ \A k \in 1..Len(sent) : sent'[k] = sent[k]
        /\ sent'[Len(sent) + 1] = buf
    BY <1>o, <2>1, AppendProperties
  <2>3. TypeOK'
    BY <1>t, <1>1, <1>o, <2>1, <2>2 DEF TypeOK
  <2>4. Turns'
    BY <1>t, <1>1, <1>o, <2>1, <2>2 DEF Turns
  <2>5. \A k \in 1..Len(sent') : k \in 1..Len(sent) \/ k = Len(sent) + 1
    BY <1>o, <2>2
  <2>6. \A k \in 1..Len(sent') : Order(sent'[k]) >= Order(buf)
    <3>1. Order(buf) >= Order(buf)
      BY <1>o DEF Order, NoDigit
    <3>2. \A k \in 1..Len(sent) : Order(sent'[k]) >= Order(buf)
      BY <1>t, <2>2 DEF Ordered, Order
    <3>3. Order(sent'[Len(sent) + 1]) >= Order(buf)
      BY <2>2, <3>1
    <3> QED
      BY <2>5, <3>2, <3>3
  <2>7. ASSUME NEW k \in 1..Len(sent'), NEW m \in 1..Len(sent'), k < m
        PROVE  Order(sent'[k]) >= Order(sent'[m])
    <3>1. CASE m = Len(sent) + 1
      BY <2>2, <2>6, <3>1
    <3>2. CASE m # Len(sent) + 1
      <4>1. m \in 1..Len(sent) /\ k \in 1..Len(sent)
        BY <1>o, <2>5, <2>7, <3>2
      <4>2. Order(sent[k]) >= Order(sent[m])
        BY <1>t, <2>7, <4>1 DEF Ordered
      <4> QED
        BY <2>2, <4>1, <4>2
    <3> QED
      BY <3>1, <3>2
  <2>8. Ordered'
    BY <1>t, <1>1, <2>6, <2>7 DEF Ordered, Order
  <2>9. Shown'
    <3> SUFFICES ASSUME InFrame' PROVE segs' = pattern(sent'[got' \div 7])
      BY DEF Shown
    <3>1. InFrame /\ got % 7 = 0
      BY <1>1 DEF InFrame
    <3>2. segs = pattern(sent[got \div 7])
      BY <1>t, <3>1 DEF Shown
    <3>3. got \div 7 \in 1..Len(sent)
      <4>1. got = 7 * (got \div 7) /\ got \div 7 \in Nat
        BY <1>o, <3>1, FrameCount
      <4>2. 7 <= got /\ got <= 7 * Len(sent)
        BY <1>t, <3>1 DEF Turns, InFrame
      <4> QED
        BY <1>o, <4>1, <4>2
    <3>4. sent'[got \div 7] = sent[got \div 7]
      BY <2>2, <3>3
    <3> QED
      BY <1>1, <3>2, <3>4
  <2> QED
    BY <2>3, <2>4, <2>8, <2>9 DEF SegInv
<1> QED
  BY <1>2, <1>3
(* seg.py takes some bytes.  Unless they are one whole pattern nothing is  *)
(* claimed of the display.                                                 *)
LEMMA UpdateKeeps == ASSUME SegInv, update PROVE SegInv'
<1>t. TypeOK /\ Turns /\ Ordered /\ Shown
  BY DEF SegInv
<1>1. UNCHANGED <<kbuf, i, rpc, buf, jj, closed, sent>>
  BY DEF update
<1>2. PICK m \in 1..7 :
         /\ m <= InFlight /\ got' = got + m /\ n' = m
         /\ segs' = [s \in 1..7 |-> IF s <= m THEN byte(got + s) ELSE segs[s]]
  BY DEF update
<1>o. got \in Nat /\ Len(sent) \in Nat /\ got + m <= 7 * Len(sent)
  BY <1>t, <1>2, LenProperties DEF TypeOK, InFlight, Width
<1>3. segs' \in [1..7 -> {0, 1}]
  <2>1. ASSUME NEW s \in 1..7, s <= m PROVE byte(got + s) \in {0, 1}
    <3>1. got + s \in Nat /\ 1 <= got + s /\ got + s <= 7 * Len(sent)
      BY <1>o, <2>1
    <3> QED
      BY <3>1, ByteType
  <2>2. \A s \in 1..7 : segs[s] \in {0, 1}
    BY <1>t DEF TypeOK
  <2>3. \A s \in 1..7 : (IF s <= m THEN byte(got + s) ELSE segs[s]) \in {0, 1}
    BY <2>1, <2>2
  <2> QED
    BY <1>2, <2>3
<1>4. TypeOK'
  BY <1>t, <1>1, <1>2, <1>3, <1>o DEF TypeOK
<1>5. Turns'
  BY <1>t, <1>1, <1>2, <1>o DEF Turns
<1>6. Ordered'
  BY <1>t, <1>1 DEF Ordered, Order
<1>7. Shown'
  <2> SUFFICES ASSUME InFrame' PROVE segs' = pattern(sent[got' \div 7])
    BY <1>1 DEF Shown
  <2>1. m = 7 /\ got' = got + 7 /\ (got + 7) % 7 = 0
    BY <1>2 DEF InFrame
  <2>2. got % 7 = 0
    BY <1>o, <2>1, FrameCount
  <2>3. 7 <= InFlight /\ segs' = [s \in 1..7 |-> IF s <= 7 THEN byte(got + s) ELSE segs[s]]
    BY <1>2, <2>1
  <2> QED
    BY <2>1, <2>2, <2>3, WholePattern
<1> QED
  BY <1>4, <1>5, <1>6, <1>7 DEF SegInv

(* The pipeline starts empty. *)
LEMMA SegStart == ASSUME Init PROVE SegInv
<1>1. top \in 0..9 /\ Reads \in Nat /\ 0 < Reads
  BY SizeAssumption
<1>2. sent = <<>> /\ Len(sent) = 0 /\ sent \in Seq(-1..9)
  BY EmptySeq DEF Init
<1>3. segs \in [1..7 -> {0, 1}]
  BY DEF Init, AllOff
<1>4. TypeOK
  <2>1. /\ kbuf \in -1..9 /\ buf \in -1..9 /\ i \in 0..(top + 1) /\ jj \in 0..Reads
        /\ Len(sent) <= jj /\ got \in Nat /\ n \in 0..7
    BY <1>1, <1>2 DEF Init, NoDigit
  <2>2. rpc \in {"read", "write", "sleep", "exited"} /\ closed \in BOOLEAN
    BY DEF Init
  <2> QED
    BY <1>2, <1>3, <2>1, <2>2 DEF TypeOK
<1>5. Turns
  BY <1>1, <1>2 DEF Init, Turns
<1>6. Ordered
  BY <1>1, <1>2 DEF Init, Ordered, Order
<1>7. Shown
  BY DEF Init, Shown, InFrame
<1> QED
  BY <1>4, <1>5, <1>6, <1>7 DEF SegInv

(* What the invariant says of the display. *)
LEMMA CountdownHolds == ASSUME SegInv PROVE Countdown
<1>t. TypeOK /\ Turns /\ Ordered /\ Shown
  BY DEF SegInv
<1>o. /\ Len(sent) \in Nat /\ kbuf \in -1..9 /\ buf \in -1..9 /\ top \in 0..9
      /\ got \in Nat /\ \A k \in 1..Len(sent) : sent[k] \in -1..9
  BY <1>t, SizeAssumption, LenProperties, ElementOfSeq DEF TypeOK
<1>1. \A k, m \in 1..Len(sent) : k < m => Order(sent[k]) >= Order(sent[m])
  BY <1>t DEF Ordered
<1>2. \A k \in 1..Len(sent) : Order(sent[k]) >= Order(kbuf)
  BY <1>t, <1>o DEF Ordered, Order, NoDigit
<1>3. ASSUME InFrame
      PROVE  Legible = IF sent[got \div 7] = NoDigit THEN {} ELSE {sent[got \div 7]}
  <2>1. got % 7 = 0 /\ 7 <= got /\ got <= 7 * Len(sent)
    BY <1>t, <1>3 DEF InFrame, Turns
  <2>2. got \div 7 \in Nat /\ got = 7 * (got \div 7)
    BY <1>o, <2>1, FrameCount
  <2>3. got \div 7 \in 1..Len(sent)
    BY <1>o, <2>1, <2>2
  <2>4. segs = pattern(sent[got \div 7]) /\ sent[got \div 7] \in -1..9
    BY <1>t, <1>o, <1>3, <2>3 DEF Shown
  <2> QED
    BY <2>4, PatternsDiffer DEF Legible
<1> QED
  BY <1>1, <1>2, <1>3 DEF Countdown

(* The invariant holds in every reachable state. *)
LEMMA Pipeline == Spec => []SegInv
<1>1. Init => SegInv
  BY SegStart
<1>2. SegInv /\ [Next]_vars => SegInv'
  <2> SUFFICES ASSUME SegInv, [Next]_vars PROVE SegInv'
    OBVIOUS
  <2>1. CASE UNCHANGED vars
    BY <2>1 DEF vars, SegInv, TypeOK, Turns, Ordered, Order, Shown, InFrame
  <2> QED
    BY <2>1, WriteKeeps, ReadKeeps, SendKeeps, UpdateKeeps DEF Next
<1> QED
  BY <1>1, <1>2, PTL DEF Spec

(* The driver, the reader and the display keep their types: the reader     *)
(* sends at most Reads patterns, one in each turn of its loop.             *)
THEOREM SegTyped == Spec => []TypeOK
<1>1. SegInv => TypeOK
  BY DEF SegInv
<1> QED
  BY <1>1, Pipeline, PTL

(* What comes out of my_read and is sent counts down, no digit is sent     *)
(* before my_write got it, and a whole pattern lights the segments of the  *)
(* digit that was sent and of no other, whatever recv returned before.     *)
THEOREM CountsDown == Spec => []Countdown
<1>1. SegInv => Countdown
  BY CountdownHolds
<1> QED
  BY <1>1, Pipeline, PTL
=============================================================================
