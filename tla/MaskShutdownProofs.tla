------------------------- MODULE MaskShutdownProofs -------------------------
(***************************************************************************)
(* Stopping the mask server of homework 3, for any number of workers,      *)
(* cities, commands and SIGINTs.  First server_sort by itself: it prints   *)
(* the right table for a store of any size and any stock.  Then            *)
(* exit_handler among the workers: what it saves and what it prints first  *)
(* agree with what was sold.                                               *)
(***************************************************************************)
EXTENDS MaskShutdown, TLAPS, FiniteSetTheorems, SequenceTheorems

(* The invariant of server_sort is the usual one of a bubble sort, with    *)
(* the city that each sum belongs to carried along.                        *)
Body == spc \in {"while", "for", "print", "printed"}

(* The invariants that talk about the rows alone, for rows d. *)
Typed(d)     == d \in [Rows -> [line : Lines, stock : Int, sum : Int]]
Distinct(d)  == \A p, q \in Rows : d[p].line = d[q].line => p = q
Matches(d)   == \A k \in Rows : d[k].sum = total[d[k].line]
Orderly(d)   == \A p, q \in Rows : p < q /\ d[p].sum = d[q].sum => d[p].line < d[q].line
Settled(d, n) == \A p, q \in Rows : p < q /\ n <= q => d[p].sum >= d[q].sum
Least(d, k)  == \A p \in Rows : p < k => d[p].sum >= d[k].sum

(* What an exchange of two neighbours leaves in the rows. *)
LEMMA SwappedRows ==
    ASSUME Typed(data), NEW k \in Nat, k + 1 < type_num
    PROVE  /\ Typed(Swapped(k))
           /\ Swapped(k)[k].line = data[k + 1].line
           /\ Swapped(k)[k].sum = data[k + 1].sum
           /\ Swapped(k)[k + 1].line = data[k].line
           /\ Swapped(k)[k + 1].sum = data[k].sum
           /\ Swapped(k)[k].stock = data[k].stock /\ Swapped(k)[k + 1].stock = 0
           /\ \A p \in Rows : p # k /\ p # k + 1 => Swapped(k)[p] = data[p]
<1>1. k \in Rows /\ k + 1 \in Rows /\ k # k + 1
  BY SizeAssumption DEF Rows
<1>2. data[k] \in [line : Lines, stock : Int, sum : Int]
      /\ data[k + 1] \in [line : Lines, stock : Int, sum : Int]
  BY <1>1 DEF Typed
<1> DEFINE a == [data[k] EXCEPT !.line = data[k + 1].line, !.sum = data[k + 1].sum]
           b == [line |-> data[k].line, stock |-> 0, sum |-> data[k].sum]
<1>3. a \in [line : Lines, stock : Int, sum : Int]
      /\ a.line = data[k + 1].line /\ a.sum = data[k + 1].sum /\ a.stock = data[k].stock
  BY <1>2
<1>4. b \in [line : Lines, stock : Int, sum : Int]
      /\ b.line = data[k].line /\ b.sum = data[k].sum /\ b.stock = 0
  BY <1>2
<1>5. Swapped(k) = [data EXCEPT ![k] = a, ![k + 1] = b]
  BY <1>1 DEF Swapped, Typed
<1> HIDE DEF a, b
<1>6. Typed([data EXCEPT ![k] = a, ![k + 1] = b])
  BY <1>1, <1>3, <1>4 DEF Typed
<1>7. /\ [data EXCEPT ![k] = a, ![k + 1] = b][k] = a
      /\ [data EXCEPT ![k] = a, ![k + 1] = b][k + 1] = b
      /\ \A p \in Rows : p # k /\ p # k + 1
            => [data EXCEPT ![k] = a, ![k + 1] = b][p] = data[p]
  BY <1>1 DEF Typed
<1> QED
  BY <1>3, <1>4, <1>5, <1>6, <1>7

(* An exchange of a smaller sum with the larger one behind it keeps every  *)
(* city in one row, its sum beside it and equal cities in order, does not  *)
(* disturb the rows that are settled and moves the least sum on.           *)
LEMMA SwappedKeeps ==
    ASSUME SortTypeOK, NEW k \in Nat, NEW n \in Nat, k < n, n < type_num,
           data[k].sum < data[k + 1].sum,
           Distinct(data), Matches(data), Orderly(data), Settled(data, n + 1),
           Least(data, k)
    PROVE  /\ Distinct(Swapped(k)) /\ Matches(Swapped(k)) /\ Orderly(Swapped(k))
           /\ Settled(Swapped(k), n + 1) /\ Least(Swapped(k), k + 1)
<1> DEFINE d == Swapped(k)
<1>t. Typed(data)
  BY DEF SortTypeOK, Typed
<1>r. k \in Rows /\ k + 1 \in Rows /\ type_num \in Nat /\ k + 1 < type_num
  BY SizeAssumption DEF Rows
<1>s. /\ Typed(d)
      /\ d[k].line = data[k + 1].line /\ d[k].sum = data[k + 1].sum
      /\ d[k + 1].line = data[k].line /\ d[k + 1].sum = data[k].sum
      /\ \A p \in Rows : p # k /\ p # k + 1 => d[p] = data[p]
  BY <1>t, <1>r, SwappedRows
<1>n. \A p \in Rows : p \in Int /\ data[p].sum \in Int /\ data[p].line \in Nat
                      /\ d[p].sum \in Int /\ d[p].line \in Nat
  BY <1>t, <1>s DEF Typed, Lines, Rows
<1> HIDE DEF d
<1>1. Distinct(d)
  <2> SUFFICES ASSUME NEW p \in Rows, NEW q \in Rows, d[p].line = d[q].line
               PROVE  p = q
    BY DEF Distinct
  <2>1. CASE p = k
    BY <1>r, <1>s, <1>n, <2>1 DEF Distinct
  <2>2. CASE p = k + 1
    BY <1>r, <1>s, <1>n, <2>2 DEF Distinct
  <2>3. CASE p # k /\ p # k + 1
    BY <1>r, <1>s, <1>n, <2>3 DEF Distinct
  <2> QED
    BY <2>1, <2>2, <2>3
<1>2. Matches(d)
  BY <1>r, <1>s DEF Matches
<1>3. Orderly(d)
  <2> SUFFICES ASSUME NEW p \in Rows, NEW q \in Rows, p < q, d[p].sum = d[q].sum
               PROVE  d[p].line < d[q].line
    BY DEF Orderly
  <2>1. CASE p = k
    BY <1>r, <1>s, <1>n, <2>1 DEF Orderly
  <2>2. CASE p = k + 1
    BY <1>r, <1>s, <1>n, <2>2 DEF Orderly
  <2>3. CASE p # k /\ p # k + 1
    BY <1>r, <1>s, <1>n, <2>3 DEF Orderly
  <2> QED
    BY <2>1, <2>2, <2>3
<1>4. Settled(d, n + 1)
  <2> SUFFICES ASSUME NEW p \in Rows, NEW q \in Rows, p < q, n + 1 <= q
               PROVE  d[p].sum >= d[q].sum
    BY DEF Settled
  <2>1. q \in Int /\ q # k /\ q # k + 1 /\ k < q /\ k + 1 < q
    BY <1>n
  <2>2. d[q] = data[q]
    BY <1>s, <2>1
  <2> QED
    BY <1>r, <1>s, <1>n, <2>1, <2>2 DEF Settled
<1>5. Least(d, k + 1)
  BY <1>r, <1>s, <1>n DEF Least
<1> QED
  BY <1>1, <1>2, <1>3, <1>4, <1>5 DEF d

(* The invariant in terms of the definitions above. *)
LEMMA Restated ==
    SortInv <=> /\ SortTypeOK /\ Distinct(data) /\ Passes /\ Printed
                /\ Body => Matches(data) /\ Orderly(data)
BY DEF SortInv, OneRowEach, SumsMatch, Stable, Body, Distinct, Matches, Orderly

(* server_sort starts from rows in the order of their numbers. *)
LEMMA SortStarts == ASSUME SortInit
                    PROVE  /\ SortTypeOK /\ Distinct(data) /\ spc = "idle"
                           /\ \A k \in Rows : data[k].line = k + 1 /\ data[k].stock \in Nat
<1>1. PICK stock \in [1..type_num -> Nat] : data = FirstRows(stock)
  BY StocksAssumption DEF SortInit
<1>2. \A k \in Rows : k \in Int /\ k + 1 \in Lines /\ stock[k + 1] \in Nat
  BY <1>1, SizeAssumption DEF Rows, Lines
<1>3. /\ data \in [Rows -> [line : Lines, stock : Int, sum : Int]]
      /\ \A k \in Rows : data[k].line = k + 1 /\ data[k].stock \in Nat
  BY <1>1, <1>2 DEF FirstRows
<1>4. Distinct(data)
  BY <1>2, <1>3 DEF Distinct
<1>5. table \in [Rows -> Lines \X Int] /\ total \in [Lines -> Int]
  BY <1>2 DEF SortInit
<1>6. toIndex \in 0..type_num /\ j \in 0..type_num /\ spc = "idle"
  BY SizeAssumption DEF SortInit
<1> QED
  BY <1>3, <1>4, <1>5, <1>6 DEF SortTypeOK

(* The row of a city is the one that holds its number. *)
LEMMA RowFound ==
    ASSUME Distinct(data), NEW k \in Rows
    PROVE  RowOf(data[k].line) = k
<1>1. \E r \in Rows : data[r].line = data[k].line
  OBVIOUS
<1>2. RowOf(data[k].line) \in Rows /\ data[RowOf(data[k].line)].line = data[k].line
  BY <1>1 DEF RowOf
<1> QED
  BY <1>2 DEF Distinct

(* The sums are taken: every row has the sum of its city, the rows are in  *)
(* the order of their numbers and none is settled yet.                     *)
LEMMA SumKeeps ==
    ASSUME SortInv, Numbered, SumRows
    PROVE  SortInv' /\ Numbered'
<1>1. SortTypeOK /\ Distinct(data) /\ \A k \in Rows : data[k].line = k + 1
  BY Restated DEF Numbered, SumRows
<1>2. \A k \in Rows : /\ data[k] \in [line : Lines, stock : Int, sum : Int]
                      /\ k \in Int /\ 0 <= k /\ k < type_num
  BY <1>1, SizeAssumption DEF SortTypeOK, Rows
<1>3. \A k \in Rows : data'[k] = [data[k] EXCEPT !.sum = data[k].stock]
  BY DEF SumRows
<1>4. \A k \in Rows : /\ data'[k] \in [line : Lines, stock : Int, sum : Int]
                      /\ data'[k].line = data[k].line /\ data'[k].sum = data[k].stock
  BY <1>2, <1>3
<1>5. data' \in [Rows -> [line : Lines, stock : Int, sum : Int]]
  BY <1>4 DEF SumRows
<1>6. \A l \in Lines : l - 1 \in Rows /\ data[l - 1].line = l
  BY <1>1, SizeAssumption DEF Lines, Rows
<1>7. \A l \in Lines : RowOf(l) \in Rows
  BY <1>1, <1>6, RowFound
<1>8. total' \in [Lines -> Int]
  BY <1>2, <1>7 DEF SumRows
<1>9. SortTypeOK'
  <2>1. toIndex' \in 0..type_num /\ spc' = "while" /\ j' = j /\ table' = table
    BY SizeAssumption DEF SumRows
  <2> QED
    BY <1>1, <1>5, <1>8, <2>1 DEF SortTypeOK
<1>10. Distinct(data')
  BY <1>1, <1>4 DEF Distinct
<1>11. \A k \in Rows : data'[k].sum = total'[data'[k].line]
  <2> TAKE k \in Rows
  <2>1. data[k].line \in Lines /\ RowOf(data[k].line) = k
    BY <1>1, <1>2, RowFound
  <2> QED
    BY <1>4, <2>1 DEF SumRows
<1>12. Orderly(data')
  BY <1>1, <1>2, <1>4 DEF Orderly
<1>13. Settled(data', type_num) /\ toIndex' = type_num /\ spc' = "while"
  BY <1>2, SizeAssumption DEF Settled, SumRows
<1> QED
  BY <1>9, <1>10, <1>11, <1>12, <1>13
     DEF SortInv, OneRowEach, SumsMatch, Stable, Passes, Printed, InPlace, Settled,
         Distinct, Orderly, Numbered

(* A new pass begins with its first row, of which nothing is claimed; when *)
(* no pass is left the rows from 1 on, and with them all, are settled.     *)
LEMMA WhileKeeps ==
    ASSUME SortInv, Numbered, While
    PROVE  SortInv' /\ Numbered'
<1>1. /\ SortTypeOK /\ Distinct(data) /\ Matches(data) /\ Orderly(data)
      /\ Settled(data, toIndex)
  BY Restated DEF Body, While, SortInv, Passes, InPlace, Settled
<1>2. data' = data /\ table' = table /\ total' = total
  BY DEF While
<1>3. /\ \A k \in Rows : k \in Int /\ 0 <= k /\ data[k].sum \in Int
      /\ toIndex \in 0..type_num /\ type_num \in Nat
  BY <1>1, SizeAssumption DEF SortTypeOK, Rows
<1>4. CASE toIndex > 1
  <2>1. toIndex' = toIndex - 1 /\ j' = 0 /\ spc' = "for"
    BY <1>4 DEF While
  <2>2. SortTypeOK'
    BY <1>1, <1>2, <1>3, <1>4, <2>1 DEF SortTypeOK
  <2>3. /\ 0 < toIndex' /\ toIndex' < type_num /\ j' <= toIndex'
        /\ Settled(data', toIndex' + 1) /\ Least(data', j')
    BY <1>1, <1>2, <1>3, <1>4, <2>1 DEF Settled, Least
  <2> QED
    BY <1>1, <1>2, <2>1, <2>2, <2>3
       DEF SortInv, OneRowEach, SumsMatch, Stable, Passes, Printed, InPlace, Smallest,
           Settled, Least, Distinct, Matches, Orderly, Numbered
<1>5. CASE ~(toIndex > 1)
  <2>1. toIndex' = toIndex /\ j' = j /\ spc' = "print"
    BY <1>5 DEF While
  <2>2. SortTypeOK'
    BY <1>1, <1>2, <2>1 DEF SortTypeOK
  <2>3. Settled(data', 1)
    BY <1>1, <1>2, <1>3, <1>5 DEF Settled
  <2> QED
    BY <1>1, <1>2, <2>1, <2>2, <2>3
       DEF SortInv, OneRowEach, SumsMatch, Stable, Passes, Printed, InPlace,
           Settled, Distinct, Matches, Orderly, Numbered
<1> QED
  BY <1>4, <1>5

(* A step of a pass, with or without an exchange, leaves the least sum so  *)
(* far in the row it has come to; at the end of the pass that row is       *)
(* settled too.                                                            *)
LEMMA ForKeeps ==
    ASSUME SortInv, Numbered, For
    PROVE  SortInv' /\ Numbered'
<1>1. /\ SortTypeOK /\ Distinct(data) /\ Matches(data) /\ Orderly(data)
      /\ Settled(data, toIndex + 1) /\ Least(data, j)
      /\ 0 < toIndex /\ toIndex < type_num /\ j <= toIndex
  BY Restated DEF Body, For, SortInv, Passes, InPlace, Smallest, Settled, Least
<1>2. toIndex' = toIndex /\ table' = table /\ total' = total
  BY DEF For
<1>3. /\ \A k \in Rows : k \in Int /\ 0 <= k /\ k < type_num /\ data[k].sum \in Int
      /\ toIndex \in Nat /\ j \in Nat /\ type_num \in Nat
      /\ Typed(data)
  BY <1>1, SizeAssumption DEF SortTypeOK, Rows, Typed
<1>4. CASE j < toIndex
  <2>1. j' = j + 1 /\ spc' = "for" /\ j + 1 < type_num /\ j \in Rows /\ j + 1 \in Rows
    BY <1>1, <1>3, <1>4 DEF For, Rows
  <2>2. /\ Typed(data') /\ Distinct(data') /\ Orderly(data')
        /\ \A k \in Rows : data'[k].sum = total[data'[k].line]
        /\ Settled(data', toIndex + 1) /\ Least(data', j + 1)
    <3>1. CASE data[j].sum < data[j + 1].sum
      <4>1. data' = Swapped(j)
        BY <1>4, <3>1 DEF For
      <4>2. Typed(Swapped(j))
        BY <1>3, <2>1, SwappedRows
      <4>3. /\ Distinct(Swapped(j)) /\ Matches(Swapped(j)) /\ Orderly(Swapped(j))
            /\ Settled(Swapped(j), toIndex + 1) /\ Least(Swapped(j), j + 1)
        BY <1>1, <1>3, <1>4, <3>1, SwappedKeeps
      <4> QED
        BY <4>1, <4>2, <4>3 DEF Matches
    <3>2. CASE ~(data[j].sum < data[j + 1].sum)
      <4>1. data' = data
        BY <1>4, <3>2 DEF For
      <4>2. Least(data, j + 1)
        <5> SUFFICES ASSUME NEW p \in Rows, p < j + 1
                     PROVE  data[p].sum >= data[j + 1].sum
          BY DEF Least
        <5>1. data[j].sum >= data[j + 1].sum
          BY <1>3, <2>1, <3>2
        <5>2. CASE p = j
          BY <5>1, <5>2
        <5>3. CASE p # j
          <6>1. p < j
            BY <1>3, <5>3
          <6>2. data[p].sum >= data[j].sum
            BY <1>1, <6>1 DEF Least
          <6> QED
            BY <1>3, <2>1, <5>1, <6>2
        <5> QED
          BY <5>2, <5>3
      <4> QED
        BY <1>1, <1>3, <4>1, <4>2 DEF Matches
    <3> QED
      BY <3>1, <3>2
  <2>3. SortTypeOK'
    <3>1. j' \in 0..type_num
      BY <1>3, <2>1
    <3> QED
      BY <1>1, <1>2, <2>1, <2>2, <3>1 DEF SortTypeOK, Typed
  <2>4. j' <= toIndex'
    BY <1>2, <1>3, <1>4, <2>1
  <2> QED
    BY <1>1, <1>2, <2>1, <2>2, <2>3, <2>4
       DEF SortInv, OneRowEach, SumsMatch, Stable, Passes, Printed, InPlace, Smallest,
           Settled, Least, Distinct, Orderly, Numbered
<1>5. CASE ~(j < toIndex)
  <2>1. data' = data /\ j' = j /\ spc' = "while" /\ j = toIndex
    BY <1>1, <1>3, <1>5 DEF For
  <2>2. SortTypeOK'
    BY <1>1, <1>2, <2>1 DEF SortTypeOK
  <2>3. Settled(data, toIndex)
    <3> SUFFICES ASSUME NEW p \in Rows, NEW q \in Rows, p < q, toIndex <= q
                 PROVE  data[p].sum >= data[q].sum
      BY DEF Settled
    <3>1. CASE q = toIndex
      BY <1>1, <2>1, <3>1 DEF Least
    <3>2. CASE q # toIndex
      <4>1. toIndex + 1 <= q
        BY <1>3, <3>2
      <4> QED
        BY <1>1, <4>1 DEF Settled
    <3> QED
      BY <3>1, <3>2
  <2> QED
    BY <1>1, <1>2, <2>1, <2>2, <2>3
       DEF SortInv, OneRowEach, SumsMatch, Stable, Passes, Printed, InPlace,
           Settled, Distinct, Matches, Orderly, Numbered
<1> QED
  BY <1>4, <1>5

(* The table shows the rows as they stand. *)
LEMMA PrintRowsKeeps ==
    ASSUME SortInv, Numbered, PrintRows
    PROVE  SortInv' /\ Numbered'
<1>1. /\ data' = data /\ toIndex' = toIndex /\ j' = j /\ total' = total
      /\ spc = "print" /\ spc' = "printed"
      /\ table' = [k \in Rows |-> <<data[k].line, data[k].sum>>]
  BY DEF PrintRows
<1>2. table' \in [Rows -> Lines \X Int]
  BY <1>1 DEF SortInv, SortTypeOK
<1>3. SortTypeOK'
  BY <1>1, <1>2 DEF SortInv, SortTypeOK
<1>4. Printed'
  BY <1>1 DEF Printed
<1>5. OneRowEach' /\ SumsMatch' /\ Stable' /\ Passes'
  BY <1>1 DEF SortInv, OneRowEach, SumsMatch, Stable, Passes, InPlace
<1> QED
  BY <1>1, <1>3, <1>4, <1>5 DEF SortInv, Numbered

(* What the invariant says of the printed table. *)
LEMMA TableRanked == SortInv => Ranked
<1> SUFFICES ASSUME SortInv, spc = "printed" PROVE Ranked
  BY DEF Ranked
<1>1. \A k \in Rows : table[k] = <<data[k].line, data[k].sum>>
  BY DEF SortInv, Printed
<1>2. \A k \in Rows : table[k][1] = data[k].line /\ table[k][2] = data[k].sum
  BY <1>1
<1>3. \A k \in Rows : k \in Int /\ 0 <= k
  BY DEF Rows
<1>4. \A p, q \in Rows : p < q => data[p].sum >= data[q].sum
  <2> SUFFICES ASSUME NEW p \in Rows, NEW q \in Rows, p < q
               PROVE  data[p].sum >= data[q].sum
    OBVIOUS
  <2>1. 1 <= q
    BY <1>3
  <2> QED
    BY <2>1 DEF SortInv, Passes, InPlace
<1> QED
  BY <1>2, <1>4 DEF SortInv, OneRowEach, SumsMatch, Ranked

(* The table that server_sort prints names every city once with the masks  *)
(* of its row, in descending order, and cities with equally many masks     *)
(* stay in the order of inventory.txt: for every number of cities and      *)
(* every inventory.                                                        *)
THEOREM SortRight == SortSpec => [](Ranked /\ Stable)
<1>1. SortInit => SortInv /\ Numbered
  <2> SUFFICES ASSUME SortInit PROVE SortInv /\ Numbered
    OBVIOUS
  <2>1. SortTypeOK /\ Distinct(data) /\ spc = "idle"
        /\ \A k \in Rows : data[k].line = k + 1
    BY SortStarts
  <2> QED
    BY <2>1, Restated DEF Body, Passes, Printed, Numbered
<1>2. SortInv /\ Numbered /\ [SortNext]_<<data, sort>> => SortInv' /\ Numbered'
  <2> SUFFICES ASSUME SortInv, Numbered, [SortNext]_<<data, sort>>
               PROVE  SortInv' /\ Numbered'
    OBVIOUS
  <2>1. CASE SumRows
    BY <2>1, SumKeeps
  <2>2. CASE While
    BY <2>2, WhileKeeps
  <2>3. CASE For
    BY <2>3, ForKeeps
  <2>4. CASE PrintRows
    BY <2>4, PrintRowsKeeps
  <2>5. CASE UNCHANGED <<data, sort>>
    BY <2>5 DEF sort, SortInv, SortTypeOK, OneRowEach, SumsMatch, Stable, Passes,
                InPlace, Smallest, Printed, Numbered
  <2> QED
    BY <2>1, <2>2, <2>3, <2>4, <2>5 DEF SortNext
<1>3. SortInv => Ranked /\ Stable
  BY TableRanked DEF SortInv
<1> QED
  BY <1>1, <1>2, <1>3, PTL DEF SortSpec
-----------------------------------------------------------------------------
USE DEF worker, client, files, lock, signal, history, sort

(* What a step of a worker or its client leaves alone. *)
LEMMA WorkerFrame ==
    ASSUME NEW t \in Conn,
           Accept(t) \/ mask_server(t) \/ \E c \in Cmds : Send(t, c)
    PROVE  UNCHANGED <<spc, toIndex, j, table, total, result, saved, destroyed, sockfd,
                       hpc, inventory, before, quiet, first>>
BY DEF Accept, mask_server, Send, Read, Lock, Handle, Load, Sell, Log, Assign, Unlock

(* What a step of a handler leaves alone. *)
LEMMA HandlerFrame ==
    ASSUME NEW h \in Threads, Deliver(h) \/ exit_handler(h)
    PROVE  UNCHANGED <<pc, buf, count, text, req, left, idle, writeToResult, inventory>>
<1>1. CASE HandlerLock(h)
  BY <1>1 DEF HandlerLock, Acquire, InHandler
<1> QED
  BY <1>1 DEF Deliver, exit_handler, CloseSocket, WriteFile, SortStep, PrintTable,
              HandlerUnlock, Destroy, InHandler

(* What a SIGINT, the end of main and a stuttering step leave alone. *)
LEMMA OutsideFrame ==
    ASSUME Interrupt \/ AcceptFails \/ UNCHANGED vars
    PROVE  /\ UNCHANGED <<data, spc, toIndex, j, table, total, pc, buf, count, text, req, left, idle,
                          writeToResult, result, saved, mutex, destroyed, sockfd, hpc,
                          inventory, before, quiet, first>>
           /\ running' = running \/ running' = FALSE
BY DEF Interrupt, AcceptFails, vars

(* The rows and the local variables of the sort keep their shape, whoever  *)
(* sorts and however often.                                                *)
LEMMA SortShape ==
    ASSUME SortTypeOK, AllListed, InRange, SumRows \/ While \/ For \/ PrintRows
    PROVE  SortTypeOK' /\ AllListed' /\ InRange'
<1>t. /\ Typed(data) /\ spc \in {"idle", "while", "for", "print", "printed"}
      /\ toIndex \in 0..type_num /\ j \in 0..type_num /\ type_num \in Nat
      /\ table \in [Rows -> Lines \X Int] /\ total \in [Lines -> Int]
  BY SizeAssumption DEF SortTypeOK, Typed
<1>r. \A k \in Rows : data[k] \in [line : Lines, stock : Int, sum : Int]
  BY <1>t DEF Typed
<1>1. CASE SumRows
  <2>1. /\ data' = [k \in Rows |-> [data[k] EXCEPT !.sum = data[k].stock]]
        /\ total' = [l \in Lines |-> data[RowOf(l)].stock]
        /\ toIndex' = type_num /\ spc' = "while" /\ j' = j /\ table' = table
    BY <1>1 DEF SumRows
  <2>2. \A k \in Rows : /\ data'[k] \in [line : Lines, stock : Int, sum : Int]
                        /\ data'[k].line = data[k].line
    <3> TAKE k \in Rows
    <3>1. data'[k] = [data[k] EXCEPT !.sum = data[k].stock]
      BY <2>1
    <3> QED
      BY <1>r, <3>1
  <2>3. data' \in [Rows -> [line : Lines, stock : Int, sum : Int]]
    BY <2>1, <2>2
  <2>4. \A l \in Lines : RowOf(l) \in Rows
    BY DEF RowOf, AllListed
  <2>5. total' \in [Lines -> Int]
    BY <1>r, <2>1, <2>4
  <2>6. AllListed'
    BY <2>2 DEF AllListed
  <2>7. toIndex' \in 0..type_num /\ InRange'
    BY <1>t, <2>1 DEF InRange
  <2> QED
    BY <1>t, <2>1, <2>3, <2>5, <2>6, <2>7 DEF SortTypeOK
<1>2. CASE While
  <2>1. data' = data /\ table' = table /\ total' = total
    BY <1>2 DEF While
  <2>2. \/ toIndex > 1 /\ toIndex' = toIndex - 1 /\ j' = 0 /\ spc' = "for"
        \/ toIndex' = toIndex /\ j' = j /\ spc' = "print"
    BY <1>2 DEF While
  <2>3. toIndex' \in 0..type_num /\ j' \in 0..type_num /\ InRange'
    BY <1>t, <2>2 DEF InRange
  <2> QED
    BY <1>t, <2>1, <2>2, <2>3 DEF SortTypeOK, AllListed, Typed
<1>3. CASE For
  <2>1. spc = "for" /\ toIndex < type_num
        /\ toIndex' = toIndex /\ table' = table /\ total' = total
    BY <1>3 DEF For, InRange
  <2>2. CASE j < toIndex /\ data[j].sum < data[j + 1].sum
    <3>1. j \in Nat /\ j + 1 < type_num /\ j \in Rows /\ j + 1 \in Rows
      BY <1>t, <2>1, <2>2 DEF Rows
    <3>2. data' = Swapped(j) /\ j' = j + 1 /\ spc' = "for"
      BY <1>3, <2>1, <2>2 DEF For
    <3>3. /\ Typed(data')
          /\ data'[j].line = data[j + 1].line /\ data'[j + 1].line = data[j].line
          /\ \A p \in Rows : p # j /\ p # j + 1 => data'[p] = data[p]
      BY <1>t, <3>1, <3>2, SwappedRows
    <3>4. AllListed'
      BY <3>1, <3>3 DEF AllListed
    <3>5. j' \in 0..type_num
      BY <1>t, <2>1, <3>1, <3>2
    <3> QED
      BY <1>t, <2>1, <3>2, <3>3, <3>4, <3>5 DEF SortTypeOK, Typed, InRange
  <2>3. CASE ~(j < toIndex /\ data[j].sum < data[j + 1].sum)
    <3>1. data' = data /\ ((j' = j + 1 /\ j < toIndex) \/ j' = j) /\ spc' \in {"for", "while"}
      BY <1>3, <2>1, <2>3 DEF For
    <3>2. j' \in 0..type_num
      BY <1>t, <2>1, <3>1
    <3> QED
      BY <1>t, <2>1, <3>1, <3>2 DEF SortTypeOK, AllListed, Typed, InRange
  <2> QED
    BY <2>2, <2>3
<1>4. CASE PrintRows
  <2>1. /\ data' = data /\ toIndex' = toIndex /\ j' = j /\ total' = total
        /\ spc' = "printed" /\ table' = [k \in Rows |-> <<data[k].line, data[k].sum>>]
    BY <1>4 DEF PrintRows
  <2>2. table' \in [Rows -> Lines \X Int]
    BY <1>r, <2>1
  <2> QED
    BY <1>t, <2>1, <2>2 DEF SortTypeOK, AllListed, Typed, InRange
<1> QED
  BY <1>1, <1>2, <1>3, <1>4

-----------------------------------------------------------------------------
Shaped == TypeOK /\ Boxes /\ AllListed /\ InRange

(* A command in a box names a row or nothing, a sold city is a line. *)
LEMMA RowNumbers ==
    /\ Cmds \subseteq Int /\ NoCmd \notin Cmds /\ Other \notin Orders
    /\ \A k \in Orders : k \in Rows /\ k + 1 \in Lines
    /\ \A k \in Rows : k \in Int /\ 0 <= k /\ k < type_num /\ k + 1 \in Lines
BY OrdersAssumption, SizeAssumption DEF Cmds, Other, NoCmd, Rows, Lines

(* A sale stores a new count in one row. *)
LEMMA SaleShape ==
    ASSUME SortTypeOK, NEW k \in Rows, NEW n \in Int
    PROVE  LET d == [data EXCEPT ![k].stock = n]
           IN  /\ d \in [Rows -> [line : Lines, stock : Int, sum : Int]]
               /\ \A q \in Rows : /\ d[q].line = data[q].line
                                  /\ d[q].sum = data[q].sum
                                  /\ d[q].stock = IF q = k THEN n ELSE data[q].stock
<1> DEFINE d == [data EXCEPT ![k].stock = n]
<1>1. data \in [Rows -> [line : Lines, stock : Int, sum : Int]]
  BY DEF SortTypeOK
<1>2. data[k] \in [line : Lines, stock : Int, sum : Int]
  BY <1>1
<1>3. [data[k] EXCEPT !.stock = n] \in [line : Lines, stock : Int, sum : Int]
  BY <1>2
<1>4. /\ d[k] = [data[k] EXCEPT !.stock = n]
      /\ \A q \in Rows : q # k => d[q] = data[q]
  BY <1>1
<1>5. d \in [Rows -> [line : Lines, stock : Int, sum : Int]]
  BY <1>1, <1>3
<1>6. ASSUME NEW q \in Rows
      PROVE  /\ d[q].line = data[q].line /\ d[q].sum = data[q].sum
             /\ d[q].stock = IF q = k THEN n ELSE data[q].stock
  <2>1. CASE q = k
    BY <1>2, <1>4, <2>1
  <2>2. CASE q # k
    BY <1>1, <1>4, <2>2
  <2> QED
    BY <2>1, <2>2
<1> QED
  BY <1>5, <1>6

(* What a sale does to the rows. *)
LEMMA SellRows ==
    ASSUME Shaped, NEW t \in Conn, Sell(t)
    PROVE  /\ SortTypeOK' /\ AllListed' /\ InRange'
           /\ buf[t] \in Rows /\ buf'[t] = buf[t] + 1 /\ buf'[t] \in Lines
           /\ \A q \in Rows : /\ data'[q].line = data[q].line
                              /\ data'[q].sum = data[q].sum
                              /\ data'[q].stock = IF q = buf[t] THEN count[t] - 1
                                                                ELSE data[q].stock
<1>t. /\ SortTypeOK /\ AllListed /\ InRange /\ buf[t] \in Orders /\ count[t] \in Int
      /\ buf \in [Conn -> Cmds \cup {NoCmd} \cup Lines \cup {Nothing}]
  BY DEF Shaped, TypeOK, Boxes, Sell
<1>u. UNCHANGED <<spc, toIndex, j, table, total>>
  BY DEF Sell
<1>1. buf[t] \in Rows /\ buf[t] + 1 \in Lines
  BY <1>t, RowNumbers
<1>2. data' = [data EXCEPT ![buf[t]].stock = count[t] - 1] /\ buf'[t] = buf[t] + 1
  BY <1>t DEF Sell
<1>3. /\ data' \in [Rows -> [line : Lines, stock : Int, sum : Int]]
      /\ \A q \in Rows : /\ data'[q].line = data[q].line
                         /\ data'[q].sum = data[q].sum
                         /\ data'[q].stock = IF q = buf[t] THEN count[t] - 1
                                                           ELSE data[q].stock
  <2>1. count[t] - 1 \in Int
    BY <1>t
  <2> QED
    BY <1>t, <1>1, <1>2, <2>1, SaleShape
<1>4. SortTypeOK' /\ AllListed' /\ InRange'
  BY <1>t, <1>u, <1>3 DEF SortTypeOK, AllListed, InRange
<1> QED
  BY <1>1, <1>2, <1>3, <1>4

(* The rows do not change in a step that leaves data and the sort alone. *)
LEMMA SameRows ==
    ASSUME Shaped, UNCHANGED <<data, spc, toIndex, j, table, total>>
    PROVE  SortTypeOK' /\ AllListed' /\ InRange'
BY DEF Shaped, TypeOK, SortTypeOK, AllListed, InRange

(* A worker and its client keep the types and the boxes. *)
LEMMA WorkerShape ==
    ASSUME Shaped, NEW t \in Conn,
           Accept(t) \/ mask_server(t) \/ \E c \in Cmds : Send(t, c)
    PROVE  Shaped'
<1>f. UNCHANGED <<spc, toIndex, j, table, total, result, saved, destroyed, sockfd,
                  hpc, inventory, before, quiet, first>>
  BY WorkerFrame
<1>t. TypeOK /\ Boxes
  BY DEF Shaped
<1>1. CASE Accept(t)
  <2>1. SortTypeOK' /\ AllListed' /\ InRange'
    BY <1>1, <1>f, SameRows DEF Accept
  <2>2. TypeOK'
    BY <1>1, <1>f, <1>t, <2>1 DEF TypeOK, Accept
  <2>3. Boxes'
    BY <1>1, <1>t DEF TypeOK, Boxes, Holding, Accept
  <2> QED
    BY <2>1, <2>2, <2>3 DEF Shaped
<1>2. ASSUME NEW c \in Cmds, Send(t, c) PROVE Shaped'
  <2>1. SortTypeOK' /\ AllListed' /\ InRange'
    BY <1>2, <1>f, SameRows DEF Send
  <2>2. /\ req' = [req EXCEPT ![t] = c] /\ left' = [left EXCEPT ![t] = @ - 1]
        /\ idle' = [idle EXCEPT ![t] = FALSE] /\ left[t] > 0 /\ idle[t]
        /\ UNCHANGED <<pc, buf, count, text, writeToResult, mutex, running>>
    BY <1>2 DEF Send
  <2>3. left' \in [Conn -> 0..work_num]
    BY <1>t, <2>2, WorkAssumption DEF TypeOK
  <2>4. TypeOK'
    BY <1>f, <1>t, <2>1, <2>2, <2>3 DEF TypeOK
  <2>5. Boxes'
    BY <1>t, <2>2 DEF TypeOK, Boxes, Holding
  <2> QED
    BY <2>1, <2>4, <2>5 DEF Shaped
<1>3. CASE Read(t)
  <2>1. SortTypeOK' /\ AllListed' /\ InRange'
    BY <1>3, <1>f, SameRows DEF Read
  <2>2. /\ buf' = [buf EXCEPT ![t] = req[t]] /\ req' = [req EXCEPT ![t] = NoCmd]
        /\ pc' = [pc EXCEPT ![t] = "lock"] /\ req[t] # NoCmd
        /\ UNCHANGED <<count, text, left, idle, writeToResult, mutex, running>>
    BY <1>3 DEF Read
  <2>3. req[t] \in Cmds /\ ~idle[t]
    BY <1>t, <2>2 DEF TypeOK, Boxes
  <2>4. TypeOK'
    BY <1>f, <1>t, <2>1, <2>2, <2>3 DEF TypeOK
  <2>5. Boxes'
    BY <1>t, <2>2, <2>3 DEF TypeOK, Boxes, Holding
  <2> QED
    BY <2>1, <2>4, <2>5 DEF Shaped
<1>4. CASE Lock(t)
  <2>1. SortTypeOK' /\ AllListed' /\ InRange'
    BY <1>4, <1>f, SameRows DEF Lock
  <2>2. /\ pc[t] \in {"lock", "wait"} /\ mutex' \in {mutex, t}
        /\ pc' = [pc EXCEPT ![t] = "wait"] \/ pc' = [pc EXCEPT ![t] = "handle"]
        /\ UNCHANGED <<buf, count, text, req, left, idle, writeToResult, running>>
    BY <1>4 DEF Lock, Acquire
  <2>3. TypeOK'
    BY <1>f, <1>t, <2>1, <2>2 DEF TypeOK, Threads
  <2>4. Boxes'
    BY <1>t, <2>2 DEF TypeOK, Boxes, Holding
  <2> QED
    BY <2>1, <2>3, <2>4 DEF Shaped
<1>5. CASE Handle(t)
  <2>1. SortTypeOK' /\ AllListed' /\ InRange'
    BY <1>5, <1>f, SameRows DEF Handle
  <2>2. /\ pc[t] = "handle"
        /\ UNCHANGED <<count, text, req, left, writeToResult, mutex, running>>
    BY <1>5 DEF Handle
  <2>3. req[t] = NoCmd /\ ~idle[t] /\ buf[t] \in Cmds
    BY <1>t, <2>2 DEF Boxes, Holding
  <2>4. CASE Sells(t)
    <3>1. buf[t] \in Orders /\ buf' = buf /\ idle' = idle
          /\ pc' = [pc EXCEPT ![t] = "load"]
      BY <1>5, <2>3, <2>4 DEF Handle, Sells, Cmds
    <3>2. TypeOK'
      BY <1>f, <1>t, <2>1, <2>2, <3>1 DEF TypeOK
    <3>3. Boxes'
      BY <1>t, <2>2, <2>3, <3>1 DEF TypeOK, Boxes, Holding
    <3> QED
      BY <2>1, <3>2, <3>3 DEF Shaped
  <2>5. CASE ~Sells(t)
    <3>1. /\ buf' = [buf EXCEPT ![t] = Nothing] /\ idle' = [idle EXCEPT ![t] = TRUE]
          /\ pc' = [pc EXCEPT ![t] = "log"]
      BY <1>5, <2>5 DEF Handle
    <3>2. TypeOK'
      BY <1>f, <1>t, <2>1, <2>2, <3>1 DEF TypeOK
    <3>3. Boxes'
      BY <1>t, <2>2, <2>3, <3>1 DEF TypeOK, Boxes, Holding
    <3> QED
      BY <2>1, <3>2, <3>3 DEF Shaped
  <2> QED
    BY <2>4, <2>5
<1>6. CASE Load(t)
  <2>1. SortTypeOK' /\ AllListed' /\ InRange'
    BY <1>6, <1>f, SameRows DEF Load
  <2>2. /\ pc[t] = "load" /\ pc' = [pc EXCEPT ![t] = "sell"]
        /\ count' = [count EXCEPT ![t] = data[buf[t]].stock]
        /\ UNCHANGED <<buf, text, req, left, idle, writeToResult, mutex, running>>
    BY <1>6 DEF Load
  <2>3. data[buf[t]].stock \in Int
    <3>1. buf[t] \in Rows
      BY <1>t, <2>2, RowNumbers DEF Boxes
    <3> QED
      BY <1>t, <3>1 DEF TypeOK, SortTypeOK
  <2>4. TypeOK'
    BY <1>f, <1>t, <2>1, <2>2, <2>3 DEF TypeOK
  <2>5. Boxes'
    BY <1>t, <2>2 DEF TypeOK, Boxes, Holding
  <2> QED
    BY <2>1, <2>4, <2>5 DEF Shaped
<1>7. CASE Sell(t)
  <2>1. SortTypeOK' /\ AllListed' /\ InRange' /\ buf'[t] \in Lines
    BY <1>7, SellRows
  <2>2. /\ pc' = [pc EXCEPT ![t] = "log"] /\ idle' = [idle EXCEPT ![t] = TRUE]
        /\ count' = [count EXCEPT ![t] = 0] /\ pc[t] = "sell"
        /\ UNCHANGED <<text, req, left, writeToResult, mutex, running>>
    BY <1>7 DEF Sell
  <2>3. buf' = [buf EXCEPT ![t] = buf'[t]]
    BY <1>7, <1>t DEF Sell, TypeOK
  <2>4. TypeOK'
    BY <1>f, <1>t, <2>1, <2>2, <2>3 DEF TypeOK
  <2>5. req[t] = NoCmd
    BY <1>t, <2>2 DEF Boxes, Holding
  <2>6. Boxes'
    BY <1>t, <2>1, <2>2, <2>3, <2>5 DEF TypeOK, Boxes, Holding
  <2> QED
    BY <2>1, <2>4, <2>6 DEF Shaped
<1>8. CASE Log(t)
  <2>1. SortTypeOK' /\ AllListed' /\ InRange'
    BY <1>8, <1>f, SameRows DEF Log
  <2>2. /\ pc' = [pc EXCEPT ![t] = "assign"] /\ pc[t] = "log"
        /\ text' = [text EXCEPT ![t] = IF writeToResult = Torn THEN Torn
                                       ELSE Append(writeToResult, buf[t])]
        /\ UNCHANGED <<buf, count, req, left, idle, writeToResult, mutex, running>>
    BY <1>8 DEF Log
  <2>3. buf[t] \in Lines \cup {Nothing} /\ writeToResult \in Logs
    BY <1>t, <2>2 DEF Boxes, TypeOK
  <2>4. (IF writeToResult = Torn THEN Torn ELSE Append(writeToResult, buf[t])) \in Logs
    BY <2>3, AppendProperties DEF Logs
  <2>5. text' \in [Conn -> Logs]
    BY <1>t, <2>2, <2>4 DEF TypeOK
  <2>6. TypeOK'
    BY <1>f, <1>t, <2>1, <2>2, <2>5 DEF TypeOK
  <2>7. Boxes'
    BY <1>t, <2>2 DEF TypeOK, Boxes, Holding
  <2> QED
    BY <2>1, <2>6, <2>7 DEF Shaped
<1>9. CASE Assign(t)
  <2>1. SortTypeOK' /\ AllListed' /\ InRange'
    BY <1>9, <1>f, SameRows DEF Assign
  <2>2. /\ pc' = [pc EXCEPT ![t] = "unlock"] /\ pc[t] = "assign"
        /\ text' = [text EXCEPT ![t] = <<>>]
        /\ writeToResult' \in {text[t], Torn}
        /\ running' = running \/ running' \in BOOLEAN
        /\ UNCHANGED <<buf, count, req, left, idle, mutex>>
    BY <1>9 DEF Assign
  <2>3. writeToResult' \in Logs /\ <<>> \in Logs
    BY <1>t, <2>2, EmptySeq DEF TypeOK, Logs
  <2>4. running' \in BOOLEAN /\ text' \in [Conn -> Logs]
    BY <1>t, <2>2, <2>3 DEF TypeOK
  <2>5. TypeOK'
    BY <1>f, <1>t, <2>1, <2>2, <2>3, <2>4 DEF TypeOK
  <2>6. Boxes'
    BY <1>t, <2>2 DEF TypeOK, Boxes, Holding
  <2> QED
    BY <2>1, <2>5, <2>6 DEF Shaped
<1>10. CASE Unlock(t)
  <2>1. SortTypeOK' /\ AllListed' /\ InRange'
    BY <1>10, <1>f, SameRows DEF Unlock
  <2>2. /\ pc' = [pc EXCEPT ![t] = "read"] /\ buf' = [buf EXCEPT ![t] = NoCmd]
        /\ mutex' = mutex \/ mutex' = Free
        /\ UNCHANGED <<count, text, req, left, idle, writeToResult, running>>
    BY <1>10 DEF Unlock, Released
  <2>3. TypeOK'
    BY <1>f, <1>t, <2>1, <2>2 DEF TypeOK
  <2>4. Boxes'
    BY <1>t, <2>2 DEF TypeOK, Boxes, Holding
  <2> QED
    BY <2>1, <2>3, <2>4 DEF Shaped
<1> QED
  BY <1>1, <1>2, <1>3, <1>4, <1>5, <1>6, <1>7, <1>8, <1>9, <1>10 DEF mask_server

(* exit_handler and the signals keep them as well. *)
LEMMA HandlerShape ==
    ASSUME Shaped, NEW h \in Threads, Deliver(h) \/ exit_handler(h)
    PROVE  Shaped'
<1>f. UNCHANGED <<pc, buf, count, text, req, left, idle, writeToResult, inventory>>
  BY HandlerFrame
<1>t. TypeOK /\ Boxes /\ SortTypeOK /\ AllListed /\ InRange
  BY DEF Shaped, TypeOK
<1>b. Boxes'
  BY <1>f, <1>t DEF Boxes, Holding
<1> DEFINE Places == {"none", "close", "file", "lock", "wait", "sort", "unlock", "destroy"}
<1>h. \E at \in Places : hpc' = [hpc EXCEPT ![h] = at]
  <2>1. CASE HandlerLock(h)
    BY <2>1, Zenon DEF HandlerLock, Acquire, InHandler
  <2>2. CASE Deliver(h)
    BY <2>2, Zenon DEF Deliver
  <2> QED
    BY <2>1, <2>2 DEF exit_handler, CloseSocket, WriteFile, SortStep, PrintTable,
                      HandlerUnlock, Destroy, InHandler
<1>p. hpc' \in [Threads -> Places]
  BY <1>h, <1>t DEF TypeOK
<1>s. SortTypeOK' /\ AllListed' /\ InRange'
  <2>1. CASE SortStep(h)
    BY <1>t, <2>1, SortShape DEF SortStep
  <2>2. CASE PrintTable(h)
    BY <1>t, <2>2, SortShape DEF PrintTable
  <2>3. CASE HandlerUnlock(h)
    <3>1. spc' = "idle" /\ UNCHANGED <<data, toIndex, j, table, total>>
      BY <2>3 DEF HandlerUnlock
    <3> QED
      BY <1>t, <3>1 DEF SortTypeOK, AllListed, InRange
  <2>4. CASE Deliver(h) \/ CloseSocket(h) \/ WriteFile(h) \/ HandlerLock(h) \/ Destroy(h)
    <3>1. UNCHANGED <<data, spc, toIndex, j, table, total>>
      BY <2>4 DEF Deliver, CloseSocket, WriteFile, HandlerLock, Destroy
    <3> QED
      BY <3>1, SameRows
  <2> QED
    BY <2>1, <2>2, <2>3, <2>4 DEF exit_handler
<1>m. mutex' \in Threads \cup {Free}
  <2>1. mutex' = mutex \/ mutex' = h \/ mutex' = Free
    BY DEF Deliver, exit_handler, CloseSocket, WriteFile, HandlerLock, Acquire, SortStep,
           PrintTable, HandlerUnlock, Destroy, Released
  <2> QED
    BY <1>t, <2>1 DEF TypeOK
<1>1. (saved \in BOOLEAN /\ destroyed \in BOOLEAN /\ sockfd \in BOOLEAN)'
  <2>1. /\ saved' = saved \/ saved' = TRUE
        /\ sockfd' = sockfd \/ sockfd' = FALSE
        /\ destroyed' = destroyed \/ destroyed' = (destroyed \/ mutex = Free)
    BY DEF Deliver, exit_handler, CloseSocket, WriteFile, HandlerLock, SortStep,
           PrintTable, HandlerUnlock, Destroy
  <2> QED
    BY <1>t, <2>1 DEF TypeOK
<1>2. (running \in BOOLEAN /\ quiet \in BOOLEAN)'
  <2>1. /\ running' = running \/ running' \in BOOLEAN
        /\ quiet' = quiet \/ quiet' = AllDone
    BY DEF Deliver, exit_handler, CloseSocket, WriteFile, HandlerLock, SortStep,
           PrintTable, HandlerUnlock, Destroy
  <2>2. AllDone \in BOOLEAN
    BY DEF AllDone
  <2> QED
    BY <1>t, <2>1, <2>2 DEF TypeOK
<1>3. result' \in Logs
  <2>1. result' = result \/ result' = writeToResult \/ result' = Torn
    BY DEF Deliver, exit_handler, CloseSocket, WriteFile, HandlerLock, SortStep,
           PrintTable, HandlerUnlock, Destroy
  <2> QED
    BY <1>t, <2>1 DEF TypeOK, Logs
<1>4. TypeOK'
  BY <1>f, <1>t, <1>p, <1>s, <1>m, <1>1, <1>2, <1>3 DEF TypeOK
<1> QED
  BY <1>b, <1>s, <1>4 DEF Shaped

(* Every step keeps the types, the boxes and the rows. *)
LEMMA ShapedStep ==
    ASSUME Shaped, [Next]_vars
    PROVE  Shaped'
<1>1. CASE Interrupt \/ AcceptFails \/ UNCHANGED vars
  <2>1. /\ UNCHANGED <<data, spc, toIndex, j, table, total, pc, buf, count, text, req, left, idle,
                       writeToResult, result, saved, mutex, destroyed, sockfd, hpc,
                       inventory, before, quiet, first>>
        /\ running' = running \/ running' = FALSE
    BY <1>1, OutsideFrame
  <2>2. SortTypeOK' /\ AllListed' /\ InRange'
    BY <2>1, SameRows
  <2>3. running' \in BOOLEAN
    BY <2>1 DEF Shaped, TypeOK
  <2>4. TypeOK'
    BY <2>1, <2>2, <2>3 DEF Shaped, TypeOK
  <2>5. Boxes'
    BY <2>1 DEF Shaped, Boxes, Holding
  <2> QED
    BY <2>2, <2>4, <2>5 DEF Shaped
<1> QED
  BY <1>1, WorkerShape, HandlerShape DEF Next

(* The server starts in such a state. *)
LEMMA ShapedStart == ASSUME Init PROVE Shaped
<1>1. /\ SortTypeOK /\ spc = "idle"
      /\ \A k \in Rows : data[k].line = k + 1 /\ data[k].stock \in Nat
  BY SortStarts DEF Init
<1>2. \A l \in Lines : l - 1 \in Rows /\ (l - 1) + 1 = l
  BY SizeAssumption DEF Lines, Rows
<1>3. AllListed /\ InRange
  BY <1>1, <1>2 DEF AllListed, InRange
<1>4. writeToResult \in Logs /\ result \in Logs /\ text \in [Conn -> Logs]
  BY EmptySeq DEF Init, Logs
<1>5. left \in [Conn -> 0..work_num]
  BY WorkAssumption DEF Init
<1>6. inventory \in [Lines -> Nat] /\ count \in [Conn -> Int]
  BY <1>1, <1>2 DEF Init
<1>7. TypeOK
  BY <1>1, <1>4, <1>5, <1>6 DEF Init, TypeOK
<1>8. Boxes
  BY DEF Init, Boxes, Holding
<1> QED
  BY <1>3, <1>7, <1>8 DEF Shaped

(* The threads, the mutex and the files of the server keep their types,    *)
(* however many SIGINTs come and at whatever moment: every row keeps the   *)
(* number of a city, a pass of the sort stays inside the rows, and a log   *)
(* that no race has torn names a city or nothing in every line, also when  *)
(* workers run on without the mutex.                                       *)
THEOREM ShutdownTyped == Spec => []TypeOK
<1>1. Init => Shaped
  BY ShapedStart
<1>2. Shaped /\ [Next]_vars => Shaped'
  BY ShapedStep
<1>3. Shaped => TypeOK
  BY DEF Shaped
<1> QED
  BY <1>1, <1>2, <1>3, PTL DEF Spec
-----------------------------------------------------------------------------
(* A step that takes the mutex brings one thread in, one that gives it     *)
(* back takes it out; in every other step who is inside stays.             *)
LEMMA WorkerMutex ==
    ASSUME Shaped, Guarded, NEW t \in Conn,
           Accept(t) \/ mask_server(t) \/ \E c \in Cmds : Send(t, c)
    PROVE  Guarded'
<1>f. UNCHANGED <<destroyed, hpc>>
  BY WorkerFrame
<1>s. \A x \in Threads : Sorting(x)' <=> Sorting(x)
  BY <1>f DEF Sorting
<1>o. pc \in [Conn -> {"none", "read", "lock", "wait", "handle", "load", "sell", "log",
                     "assign", "unlock"}]
      /\ t \in Threads
  BY DEF Shaped, TypeOK, Threads
<1>1. CASE \/ Accept(t) \/ (\E c \in Cmds : Send(t, c)) \/ Read(t) \/ Handle(t)
           \/ Load(t) \/ Sell(t) \/ Log(t) \/ Assign(t)
  <2>1. mutex' = mutex
    BY <1>1 DEF Accept, Send, Read, Handle, Load, Sell, Log, Assign
  <2>2. \A x \in Threads : Serving(x)' <=> Serving(x)
    <3>1. \/ pc' = pc
          \/ \E from, to \in {"none", "read", "lock"} :
                pc[t] = from /\ pc' = [pc EXCEPT ![t] = to]
          \/ \E from, to \in {"handle", "load", "sell", "log", "assign", "unlock"} :
                pc[t] = from /\ pc' = [pc EXCEPT ![t] = to]
      BY <1>1 DEF Accept, Send, Read, Handle, Load, Sell, Log, Assign
    <3> QED
      BY <1>o, <3>1 DEF Serving
  <2> QED
    BY <1>f, <1>s, <2>1, <2>2 DEF Guarded
<1>2. CASE Lock(t)
  <2> SUFFICES ASSUME ~destroyed PROVE Guarded'
    BY <1>f DEF Guarded
  <2>1. pc[t] \in {"lock", "wait"} /\ hpc[t] = "none"
    BY <1>2 DEF Lock, Runs
  <2>2. CASE mutex = Free /\ mutex' = t /\ pc' = [pc EXCEPT ![t] = "handle"]
    <3>1. \A x \in Threads : ~Serving(x) /\ ~Sorting(x)
      BY <2>2, ThreadAssumption DEF Guarded, Threads
    <3>2. \A x \in Threads : Serving(x)' <=> x = t
      BY <1>o, <2>2, <3>1 DEF Serving
    <3> QED
      BY <1>s, <2>2, <3>1, <3>2 DEF Guarded
  <2>3. CASE mutex' = mutex /\ pc' = [pc EXCEPT ![t] = "wait"]
    <3>1. \A x \in Threads : Serving(x)' <=> Serving(x)
      BY <1>o, <2>1, <2>3 DEF Serving
    <3> QED
      BY <1>f, <1>s, <2>3, <3>1 DEF Guarded
  <2> QED
    BY <1>2, <2>2, <2>3 DEF Lock, Acquire
<1>3. CASE Unlock(t)
  <2> SUFFICES ASSUME ~destroyed PROVE Guarded'
    BY <1>f DEF Guarded
  <2>1. pc[t] = "unlock" /\ pc' = [pc EXCEPT ![t] = "read"] /\ mutex' = Released(t)
    BY <1>3 DEF Unlock
  <2>2. mutex = t
    BY <1>o, <2>1 DEF Guarded, Serving
  <2>3. mutex' = Free /\ \A x \in Threads : x # Free
    BY <2>1, <2>2, ThreadAssumption DEF Released, Threads
  <2>4. \A x \in Threads : ~Serving(x)' /\ ~Sorting(x)
    BY <1>o, <2>1, <2>2 DEF Guarded, Serving
  <2> QED
    BY <1>s, <2>3, <2>4 DEF Guarded
<1> QED
  BY <1>1, <1>2, <1>3 DEF mask_server

(* The same for a thread in exit_handler; the mutex is destroyed only when *)
(* nobody holds it, and stays destroyed.                                   *)
LEMMA HandlerMutex ==
    ASSUME Shaped, Guarded, NEW h \in Threads, Deliver(h) \/ exit_handler(h)
    PROVE  Guarded'
<1>f. UNCHANGED pc
  BY HandlerFrame
<1>s. \A x \in Threads : Serving(x)' <=> Serving(x)
  BY <1>f DEF Serving
<1>o. hpc \in [Threads -> {"none", "close", "file", "lock", "wait", "sort", "unlock",
                           "destroy"}] /\ destroyed \in BOOLEAN
  BY DEF Shaped, TypeOK
<1>1. CASE Deliver(h) \/ CloseSocket(h) \/ WriteFile(h) \/ SortStep(h) \/ PrintTable(h)
           \/ Destroy(h)
  <2>1. mutex' = mutex /\ (~destroyed' => ~destroyed)
    BY <1>1, <1>o DEF Deliver, CloseSocket, WriteFile, SortStep, PrintTable, Destroy
  <2>2. \A x \in Threads : Sorting(x)' <=> Sorting(x)
    <3>1. \/ \E from, to \in {"none", "close", "file", "lock", "destroy"} :
                hpc[h] = from /\ hpc' = [hpc EXCEPT ![h] = to]
          \/ \E from, to \in {"sort", "unlock"} :
                hpc[h] = from /\ hpc' = [hpc EXCEPT ![h] = to]
      BY <1>1 DEF Deliver, CloseSocket, WriteFile, SortStep, PrintTable, Destroy,
                  InHandler, Runs
    <3> QED
      BY <1>o, <3>1 DEF Sorting
  <2> QED
    BY <1>s, <2>1, <2>2 DEF Guarded
<1>2. CASE HandlerLock(h)
  <2>f. destroyed' = destroyed
    BY <1>2 DEF HandlerLock
  <2> SUFFICES ASSUME ~destroyed PROVE Guarded'
    BY <2>f DEF Guarded
  <2>1. hpc[h] \in {"lock", "wait"}
    BY <1>2 DEF HandlerLock
  <2>2. CASE mutex = Free /\ mutex' = h /\ hpc' = [hpc EXCEPT ![h] = "sort"]
    <3>1. \A x \in Threads : ~Serving(x) /\ ~Sorting(x)
      BY <2>2, ThreadAssumption DEF Guarded, Threads
    <3>2. \A x \in Threads : Sorting(x)' <=> x = h
      BY <1>o, <2>2, <3>1 DEF Sorting
    <3> QED
      BY <1>s, <2>2, <3>1, <3>2 DEF Guarded
  <2>3. CASE mutex' = mutex /\ hpc' = [hpc EXCEPT ![h] = "wait"]
    <3>1. \A x \in Threads : Sorting(x)' <=> Sorting(x)
      BY <1>o, <2>1, <2>3 DEF Sorting
    <3> QED
      BY <1>s, <2>f, <2>3, <3>1 DEF Guarded
  <2> QED
    BY <1>2, <2>2, <2>3 DEF HandlerLock, Acquire, InHandler
<1>3. CASE HandlerUnlock(h)
  <2>f. destroyed' = destroyed
    BY <1>3 DEF HandlerUnlock
  <2> SUFFICES ASSUME ~destroyed PROVE Guarded'
    BY <2>f DEF Guarded
  <2>1. hpc[h] = "unlock" /\ hpc' = [hpc EXCEPT ![h] = "destroy"] /\ mutex' = Released(h)
    BY <1>3 DEF HandlerUnlock, InHandler
  <2>2. mutex = h
    BY <2>1 DEF Guarded, Sorting
  <2>3. mutex' = Free /\ \A x \in Threads : x # Free
    BY <2>1, <2>2, ThreadAssumption DEF Released, Threads
  <2>4. \A x \in Threads : ~Serving(x) /\ ~Sorting(x)'
    BY <1>o, <2>1, <2>2 DEF Guarded, Sorting
  <2> QED
    BY <1>s, <2>3, <2>4 DEF Guarded
<1> QED
  BY <1>1, <1>2, <1>3 DEF exit_handler

(* Until it is destroyed the mutex is held by the one thread inside. *)
LEMMA GuardedStep ==
    ASSUME Shaped, Guarded, [Next]_vars
    PROVE  Guarded'
<1>1. CASE Interrupt \/ AcceptFails \/ UNCHANGED vars
  <2>1. UNCHANGED <<pc, mutex, destroyed, hpc>>
    BY <1>1, OutsideFrame
  <2> QED
    BY <2>1 DEF Guarded, Serving, Sorting
<1> QED
  BY <1>1, WorkerMutex, HandlerMutex DEF Next
-----------------------------------------------------------------------------
(* A line more in the log is a mask more sold in its city. *)
LEMMA SoldAppend ==
    ASSUME NEW S, NEW log \in Seq(S), NEW b \in S, NEW l
    PROVE  /\ Sold(log, l) \in Nat
           /\ Sold(Append(log, b), l) = Sold(log, l) + (IF b = l THEN 1 ELSE 0)
<1> DEFINE A == {i \in 1..Len(log) : log[i] = l}
           B == {i \in 1..Len(Append(log, b)) : Append(log, b)[i] = l}
<1>1. Len(log) \in Nat
  BY LenProperties
<1>2. IsFiniteSet(A)
  <2>1. IsFiniteSet(1..Len(log))
    BY <1>1, FS_Interval
  <2> QED
    BY <2>1, FS_Subset
<1>3. Cardinality(A) \in Nat
  BY <1>2, FS_CardinalityType
<1>4. /\ Len(Append(log, b)) = Len(log) + 1
      /\ \A i \in 1..Len(log) : Append(log, b)[i] = log[i]
      /\ Append(log, b)[Len(log) + 1] = b
  BY AppendProperties
<1>5. B = IF b = l THEN A \cup {Len(log) + 1} ELSE A
  <2>1. \A i : i \in 1..(Len(log) + 1) <=> i \in 1..Len(log) \/ i = Len(log) + 1
    BY <1>1
  <2> HIDE DEF A, B
  <2>2. \A i : i \in B <=> (i \in A \/ (b = l /\ i = Len(log) + 1))
    BY <1>4, <2>1 DEF A, B
  <2> QED
    BY <2>2
<1>6. Len(log) + 1 \notin A
  BY <1>1
<1>7. Cardinality(B) = Cardinality(A) + (IF b = l THEN 1 ELSE 0)
  <2> HIDE DEF A, B
  <2>1. CASE b = l
    BY <1>2, <1>5, <1>6, <2>1, FS_AddElement
  <2>2. CASE b # l
    BY <1>3, <1>5, <2>2
  <2> QED
    BY <2>1, <2>2
<1> QED
  BY <1>3, <1>7 DEF Sold

(* A worker that serves holds the mutex until it is destroyed: nobody      *)
(* sorts, and no other worker is inside.                                   *)
LEMMA ServingAlone ==
    ASSUME Guarded, ~destroyed, NEW t \in Conn, Serving(t)
    PROVE  /\ \A h \in Threads : ~Sorting(h)
           /\ \A x \in Conn : Serving(x) => x = t
BY DEF Guarded, Threads

(* The same for a handler that sorts: nobody serves. *)
LEMMA SortingAlone ==
    ASSUME Guarded, ~destroyed, NEW h \in Threads, Sorting(h)
    PROVE  \A x \in Conn : ~Serving(x)
BY DEF Guarded, Threads

(* A line names a city or nothing, so a line more does not tear the log. *)
LEMMA AppendWhole ==
    ASSUME NEW log \in Seq(Lines \cup {Nothing}), NEW b \in Lines \cup {Nothing}
    PROVE  Append(log, b) # Torn /\ log # Torn
<1>1. ASSUME NEW s \in Seq(Lines \cup {Nothing}), s = Torn PROVE FALSE
  <2>1. Len(s) = 1 /\ s[1] = -1 /\ 1 \in 1..Len(s)
    BY <1>1 DEF Torn
  <2>2. s[1] \in Lines \cup {Nothing}
    BY <2>1, ElementOfSeq
  <2> QED
    BY <2>1, <2>2, SizeAssumption DEF Lines, Nothing
<1>2. Append(log, b) \in Seq(Lines \cup {Nothing})
  BY AppendProperties
<1> QED
  BY <1>1, <1>2

(* Under the mutex a worker's step finds what it checked, read and put     *)
(* together unchanged: a purchase takes a mask that is there.              *)
LEMMA WorkerSteady ==
    ASSUME Shaped, Guarded, Steady, NoneOversold, ~destroyed, NEW t \in Conn,
           Accept(t) \/ mask_server(t) \/ \E c \in Cmds : Send(t, c)
    PROVE  Steady' /\ NoneOversold'
<1>o. /\ pc \in [Conn -> {"none", "read", "lock", "wait", "handle", "load", "sell", "log",
                          "assign", "unlock"}]
      /\ buf \in [Conn -> Cmds \cup {NoCmd} \cup Lines \cup {Nothing}]
      /\ count \in [Conn -> Int] /\ text \in [Conn -> Logs] /\ writeToResult \in Logs
      /\ \A k \in Rows : data[k].stock \in Int
  BY DEF Shaped, TypeOK, SortTypeOK
<1>s. writeToResult # Torn /\ \A x \in Conn : Fresh(x)
  BY DEF Steady
<1>n. \A k \in Rows : data[k].stock >= 0
  BY DEF NoneOversold
<1> SUFFICES /\ writeToResult' # Torn /\ \A x \in Conn : Fresh(x)'
             /\ \A k \in Rows : data'[k].stock >= 0
  BY DEF Steady, NoneOversold
<1>a. ASSUME Serving(t) PROVE \A x \in Conn \ {t} : ~Serving(x)
  BY <1>a, ServingAlone
<1>1. CASE Accept(t) \/ (\E c \in Cmds : Send(t, c)) \/ Read(t) \/ Lock(t) \/ Unlock(t)
  <2>1. UNCHANGED <<data, count, text, writeToResult>>
    BY <1>1 DEF Accept, Send, Read, Lock, Unlock
  <2>2. \A x \in Conn : pc'[x] \in {"load", "sell", "assign"}
                           => pc'[x] = pc[x] /\ buf'[x] = buf[x]
    BY <1>1, <1>o DEF Accept, Send, Read, Lock, Acquire, Unlock
  <2> QED
    BY <1>s, <1>n, <2>1, <2>2 DEF Fresh
<1>2. CASE Handle(t)
  <2>1. UNCHANGED <<data, count, text, writeToResult>>
    BY <1>2 DEF Handle
  <2>2. \A x \in Conn : pc'[x] \in {"load", "sell", "assign"}
                           => buf'[x] = buf[x] /\ (pc'[x] = pc[x] \/ (x = t /\ pc'[x] = "load"))
    BY <1>2, <1>o DEF Handle
  <2>3. pc'[t] = "load" => data[buf[t]].stock > 0
    BY <1>2, <1>o DEF Handle, Sells
  <2> QED
    BY <1>s, <1>n, <2>1, <2>2, <2>3 DEF Fresh
<1>3. CASE Load(t)
  <2>1. UNCHANGED <<data, buf, text, writeToResult>> /\ pc[t] = "load"
        /\ pc' = [pc EXCEPT ![t] = "sell"]
        /\ count' = [count EXCEPT ![t] = data[buf[t]].stock]
    BY <1>3 DEF Load
  <2>2. Fresh(t)'
    BY <1>o, <1>s, <2>1 DEF Fresh
  <2>3. \A x \in Conn \ {t} : Fresh(x)'
    BY <1>o, <1>s, <2>1 DEF Fresh
  <2> QED
    BY <1>s, <1>n, <2>1, <2>2, <2>3
<1>4. CASE Sell(t)
  <2>1. pc[t] = "sell" /\ pc' = [pc EXCEPT ![t] = "log"] /\ writeToResult' = writeToResult
    BY <1>4 DEF Sell
  <2>2. \A x \in Conn : pc'[x] \notin {"load", "sell", "assign"}
    BY <1>a, <1>o, <2>1 DEF Serving
  <2>3. buf[t] \in Rows /\ \A q \in Rows : data'[q].stock = IF q = buf[t] THEN count[t] - 1
                                                           ELSE data[q].stock
    BY <1>4, SellRows
  <2>4. count[t] = data[buf[t]].stock /\ count[t] > 0
    BY <1>s, <2>1 DEF Fresh
  <2>5. \A k \in Rows : data'[k].stock >= 0
    BY <1>o, <1>n, <2>3, <2>4
  <2> QED
    BY <1>s, <2>1, <2>2, <2>5 DEF Fresh
<1>5. CASE Log(t)
  <2>1. UNCHANGED <<data, buf, count, writeToResult>> /\ pc[t] = "log"
        /\ pc' = [pc EXCEPT ![t] = "assign"]
        /\ text' = [text EXCEPT ![t] = Append(writeToResult, buf[t])]
    BY <1>5, <1>s DEF Log
  <2>2. Fresh(t)'
    BY <1>o, <2>1 DEF Fresh
  <2>3. \A x \in Conn \ {t} : Fresh(x)'
    BY <1>o, <1>s, <2>1 DEF Fresh
  <2> QED
    BY <1>s, <1>n, <2>1, <2>2, <2>3
<1>6. CASE Assign(t)
  <2>1. data' = data /\ pc[t] = "assign" /\ pc' = [pc EXCEPT ![t] = "unlock"]
    BY <1>6 DEF Assign
  <2>2. \A x \in Conn \ {t} : pc[x] \notin {"load", "sell", "log", "assign"}
    BY <1>a, <2>1 DEF Serving
  <2>3. writeToResult' = Append(writeToResult, buf[t])
    BY <1>6, <1>s, <2>1, <2>2 DEF Assign, Clashes, Fresh
  <2>4. writeToResult' # Torn
    BY <1>o, <1>s, <2>1, <2>3, AppendWhole DEF Shaped, Boxes, Logs
  <2>5. \A x \in Conn : pc'[x] \notin {"load", "sell", "assign"}
    BY <1>o, <2>1, <2>2
  <2> QED
    BY <1>n, <2>1, <2>4, <2>5 DEF Fresh
<1> QED
  BY <1>1, <1>2, <1>3, <1>4, <1>5, <1>6 DEF mask_server

(* A handler touches the rows only when nobody serves, and the exchange of *)
(* its sort leaves no row with less than nothing.                          *)
LEMMA HandlerSteady ==
    ASSUME Shaped, Guarded, Steady, NoneOversold, ~destroyed, NEW h \in Threads,
           Deliver(h) \/ exit_handler(h)
    PROVE  Steady' /\ NoneOversold'
<1>f. UNCHANGED <<pc, buf, count, text, writeToResult>>
  BY HandlerFrame
<1>s. writeToResult # Torn /\ \A x \in Conn : Fresh(x)
  BY DEF Steady
<1>n. \A k \in Rows : data[k].stock >= 0
  BY DEF NoneOversold
<1>1. CASE data' = data
  BY <1>f, <1>s, <1>n, <1>1 DEF Steady, NoneOversold, Fresh
<1>2. CASE SortStep(h)
  <2>1. \A x \in Conn : ~Serving(x)
    BY <1>2, SortingAlone DEF SortStep, InHandler, Sorting
  <2>2. Steady'
    BY <1>f, <1>s, <2>1 DEF Steady, Fresh, Serving
  <2>3. ASSUME NEW k \in Rows PROVE data'[k].stock >= 0
    <3>t. Typed(data) /\ j \in 0..type_num /\ toIndex \in 0..type_num /\ type_num \in Nat
          /\ data[k] \in [line : Lines, stock : Int, sum : Int]
      BY SizeAssumption DEF Shaped, TypeOK, SortTypeOK, Typed
    <3>1. CASE SumRows
      <4>1. data'[k] = [data[k] EXCEPT !.sum = data[k].stock]
        BY <3>1 DEF SumRows
      <4> QED
        BY <1>n, <3>t, <4>1
    <3>2. CASE While
      BY <1>n, <3>2 DEF While
    <3>3. CASE For /\ data' # data
      <4>1. j < toIndex /\ data' = Swapped(j) /\ toIndex < type_num
        BY <3>3 DEF For, Shaped, InRange
      <4>2. j \in Nat /\ j + 1 < type_num /\ j \in Rows /\ j + 1 \in Rows
        BY <3>t, <4>1 DEF Rows
      <4>3. /\ Swapped(j)[j].stock = data[j].stock /\ Swapped(j)[j + 1].stock = 0
            /\ \A p \in Rows : p # j /\ p # j + 1 => Swapped(j)[p] = data[p]
        BY <3>t, <4>2, SwappedRows
      <4> QED
        BY <1>n, <4>1, <4>2, <4>3
    <3> QED
      BY <1>2, <1>n, <3>1, <3>2, <3>3 DEF SortStep
  <2> QED
    BY <2>2, <2>3 DEF NoneOversold
<1> QED
  BY <1>1, <1>2 DEF Deliver, exit_handler, CloseSocket, WriteFile, HandlerLock, PrintTable,
                    PrintRows, HandlerUnlock, Destroy

(* Until the mutex is destroyed every purchase is sound. *)
LEMMA SteadyStep ==
    ASSUME Shaped, Guarded, Steady, NoneOversold, [Next]_vars
    PROVE  Steady' /\ NoneOversold'
<1>o. destroyed \in BOOLEAN
  BY DEF Shaped, TypeOK
<1>1. CASE Interrupt \/ AcceptFails \/ UNCHANGED vars
  <2>1. UNCHANGED <<data, pc, buf, count, text, writeToResult, destroyed>>
    BY <1>1, OutsideFrame
  <2> QED
    BY <2>1 DEF Steady, NoneOversold, Fresh
<1>2. ASSUME NEW t \in Conn, Accept(t) \/ mask_server(t) \/ \E c \in Cmds : Send(t, c)
      PROVE  Steady' /\ NoneOversold'
  <2>1. destroyed' = destroyed
    BY <1>2, WorkerFrame
  <2>2. CASE destroyed
    BY <2>1, <2>2 DEF Steady, NoneOversold
  <2> QED
    BY <1>2, <2>2, WorkerSteady
<1>3. ASSUME NEW h \in Threads, Deliver(h) \/ exit_handler(h)
      PROVE  Steady' /\ NoneOversold'
  <2>1. destroyed => destroyed'
    BY <1>3, <1>o DEF Deliver, exit_handler, CloseSocket, WriteFile, HandlerLock, SortStep,
                      PrintTable, HandlerUnlock, Destroy
  <2>2. CASE destroyed
    BY <2>1, <2>2 DEF Steady, NoneOversold
  <2> QED
    BY <1>3, <2>2, HandlerSteady
<1> QED
  BY <1>1, <1>2, <1>3 DEF Next

(* A table that was printed is told from none by the log beside it. *)
LEMMA TablePrinted ==
    ASSUME Shaped, NEW h \in Threads, PrintTable(h), first = NoTable
    PROVE  first' # NoTable
<1>1. first' = [rows |-> table', log |-> writeToResult]
  BY DEF PrintTable
<1>2. first'.log = writeToResult /\ NoTable.log = <<NoCmd>>
  BY <1>1 DEF NoTable
<1>3. writeToResult # <<NoCmd>>
  <2>1. SUFFICES ASSUME writeToResult = <<NoCmd>> PROVE FALSE
    OBVIOUS
  <2>2. Len(writeToResult) = 1 /\ writeToResult[1] = -2
    BY <2>1 DEF NoCmd
  <2>3. writeToResult # Torn
    BY <2>2 DEF Torn
  <2>4. writeToResult \in Seq(Lines \cup {Nothing})
    BY <2>3 DEF Shaped, TypeOK, Logs
  <2>5. writeToResult[1] \in Lines \cup {Nothing}
    BY <2>2, <2>4, ElementOfSeq
  <2> QED
    BY <2>2, <2>5, SizeAssumption DEF Lines, Nothing
<1> QED
  BY <1>2, <1>3

(* Once printed, the first table stays. *)
LEMMA FirstStays ==
    ASSUME Shaped, [Next]_vars
    PROVE  first' = first \/ (first = NoTable /\ first' # NoTable
                                /\ \E h \in Threads : PrintTable(h))
<1>1. CASE Interrupt \/ AcceptFails \/ UNCHANGED vars
  BY <1>1, OutsideFrame
<1>2. ASSUME NEW t \in Conn, Accept(t) \/ mask_server(t) \/ \E c \in Cmds : Send(t, c)
      PROVE  first' = first
  BY <1>2, WorkerFrame
<1>3. ASSUME NEW h \in Threads, Deliver(h) \/ exit_handler(h), ~PrintTable(h)
      PROVE  first' = first
  BY <1>3 DEF Deliver, exit_handler, CloseSocket, WriteFile, HandlerLock, SortStep,
              HandlerUnlock, Destroy
<1>4. ASSUME NEW h \in Threads, PrintTable(h), first # NoTable
      PROVE  first' = first
  BY <1>4 DEF PrintTable
<1> QED
  BY <1>1, <1>2, <1>3, <1>4, TablePrinted DEF Next
(* The stock, the log and a line on its way are numbers. *)
LEMMA StockTypes ==
    ASSUME Shaped, Steady, ~destroyed, NEW k \in Rows
    PROVE  /\ data[k].stock \in Int /\ inventory[k + 1] \in Nat
           /\ Sold(writeToResult, k + 1) \in Nat /\ Unlogged(k + 1) \in {0, 1}
<1>1. data[k].stock \in Int /\ inventory[k + 1] \in Nat
  BY RowNumbers DEF Shaped, TypeOK, SortTypeOK
<1>2. writeToResult \in Seq(Lines \cup {Nothing}) /\ Nothing \in Lines \cup {Nothing}
  BY DEF Shaped, TypeOK, Logs, Steady
<1>3. Sold(writeToResult, k + 1) \in Nat
  BY <1>2, SoldAppend
<1> QED
  BY <1>1, <1>3 DEF Unlogged

(* What Early says of the rows and of the sort. *)
Begun ==
    /\ SortInv /\ Numbered /\ spc # "printed"
    /\ IF spc = "idle" THEN Stocked
       ELSE /\ \E h \in Threads : hpc[h] = "sort"
            /\ \A l \in Lines : total[l] = Replay(writeToResult)[l]

(* A worker's step: a sale and its line move a mask from the row into the  *)
(* log, and neither happens during a sort.                                 *)
LEMMA WorkerEarly ==
    ASSUME Shaped, Guarded, Steady, ~destroyed, Begun, NEW t \in Conn,
           Accept(t) \/ mask_server(t) \/ \E c \in Cmds : Send(t, c)
    PROVE  Begun'
<1>f. UNCHANGED <<spc, toIndex, j, table, total, hpc, inventory>>
  BY WorkerFrame
<1>o. /\ pc \in [Conn -> {"none", "read", "lock", "wait", "handle", "load", "sell", "log",
                          "assign", "unlock"}]
      /\ buf \in [Conn -> Cmds \cup {NoCmd} \cup Lines \cup {Nothing}]
  BY DEF Shaped, TypeOK
<1>1. CASE Sell(t)
  <2>1. Serving(t) /\ pc[t] = "sell"
    BY <1>1 DEF Serving, Sell
  <2>2. spc = "idle" /\ \A x \in Conn : pc[x] \notin {"log", "assign"}
    BY <2>1, ServingAlone DEF Begun, Serving, Sorting
  <2>3. /\ SortTypeOK' /\ buf[t] \in Rows /\ buf'[t] = buf[t] + 1
        /\ \A q \in Rows : /\ data'[q].line = data[q].line
                           /\ data'[q].sum = data[q].sum
                           /\ data'[q].stock = IF q = buf[t] THEN count[t] - 1
                                                             ELSE data[q].stock
    BY <1>1, SellRows
  <2>4. SortInv' /\ Numbered'
    BY <1>f, <2>2, <2>3 DEF Begun, SortInv, Numbered, OneRowEach, SumsMatch, Stable,
                            Passes, Printed
  <2>5. pc' = [pc EXCEPT ![t] = "log"] /\ writeToResult' = writeToResult
    BY <1>1 DEF Sell
  <2>6. \A l \in Lines : /\ Unlogged(l) = 0
                         /\ Unlogged(l)' = (IF buf'[t] = l THEN 1 ELSE 0)
    BY <1>o, <2>2, <2>5 DEF Unlogged
  <2>7. count[t] = data[buf[t]].stock
    BY <2>1 DEF Steady, Fresh
  <2>8. Stocked'
    <3> SUFFICES ASSUME NEW k \in Rows
                 PROVE  data'[k].stock = inventory[k + 1]
                           - Sold(writeToResult, k + 1) - Unlogged(k + 1)'
      BY <1>f, <2>5 DEF Stocked
    <3>1. data[k].stock
             = inventory[k + 1] - Sold(writeToResult, k + 1) - Unlogged(k + 1)
      BY <2>2 DEF Begun, Stocked
    <3>2. k + 1 \in Lines /\ k \in Int /\ buf[t] \in Int
      BY <2>3, RowNumbers
    <3>3. (buf'[t] = k + 1) <=> (k = buf[t])
      BY <2>3, <3>2
    <3> QED
      BY <2>3, <2>6, <2>7, <3>1, <3>2, <3>3, StockTypes
  <2> QED
    BY <1>f, <2>2, <2>4, <2>8 DEF Begun
<1>2. CASE Assign(t)
  <2>1. Serving(t) /\ pc[t] = "assign"
    BY <1>2 DEF Serving, Assign
  <2>2. spc = "idle" /\ \A x \in Conn : pc[x] \in {"log", "assign"} => x = t
    BY <2>1, ServingAlone DEF Begun, Serving, Sorting
  <2>3. /\ data' = data /\ buf' = buf /\ pc' = [pc EXCEPT ![t] = "unlock"]
        /\ writeToResult' = Append(writeToResult, buf[t])
    BY <1>2, <2>1, <2>2 DEF Assign, Clashes, Steady, Fresh
  <2>4. SortInv' /\ Numbered'
    BY <1>f, <2>2, <2>3 DEF Begun, SortInv, SortTypeOK, Numbered, OneRowEach, SumsMatch,
                            Stable, Passes, Printed
  <2>5. \A l \in Lines : /\ Unlogged(l) = (IF buf[t] = l THEN 1 ELSE 0)
                         /\ Unlogged(l)' = 0
    BY <1>o, <2>1, <2>2, <2>3 DEF Unlogged
  <2>6. /\ writeToResult \in Seq(Lines \cup {Nothing})
        /\ buf[t] \in Lines \cup {Nothing}
    BY <2>1 DEF Shaped, TypeOK, Boxes, Logs, Steady
  <2>7. \A l \in Lines : Sold(writeToResult', l)
                            = Sold(writeToResult, l) + (IF buf[t] = l THEN 1 ELSE 0)
    BY <2>3, <2>6, SoldAppend
  <2>8. Stocked'
    <3> SUFFICES ASSUME NEW k \in Rows
                 PROVE  data[k].stock = inventory[k + 1]
                           - Sold(writeToResult', k + 1) - Unlogged(k + 1)'
      BY <1>f, <2>3 DEF Stocked, Sold
    <3>1. data[k].stock
             = inventory[k + 1] - Sold(writeToResult, k + 1) - Unlogged(k + 1)
      BY <2>2 DEF Begun, Stocked
    <3>2. k + 1 \in Lines
      BY RowNumbers
    <3> QED
      BY <2>5, <2>7, <3>1, <3>2, StockTypes
  <2> QED
    BY <1>f, <2>2, <2>4, <2>8 DEF Begun
<1>3. CASE \/ Accept(t) \/ Read(t) \/ Lock(t) \/ Handle(t) \/ Load(t) \/ Log(t) \/ Unlock(t)
           \/ \E c \in Cmds : Send(t, c)
  <2>1. data' = data /\ writeToResult' = writeToResult
    BY <1>3 DEF Accept, Read, Lock, Handle, Load, Log, Unlock, Send
  <2>2. \A l \in Lines : \A x \in Conn :
           (pc'[x] \in {"log", "assign"} /\ buf'[x] = l)
              <=> (pc[x] \in {"log", "assign"} /\ buf[x] = l)
    <3>1. CASE Handle(t)
      <4>1. \A l \in Lines : l # Nothing
        BY SizeAssumption DEF Lines, Nothing
      <4>2. pc[t] = "handle" /\ \/ pc' = [pc EXCEPT ![t] = "load"] /\ buf' = buf
                                \/ /\ pc' = [pc EXCEPT ![t] = "log"]
                                   /\ buf' = [buf EXCEPT ![t] = Nothing]
        BY <3>1 DEF Handle
      <4> QED
        BY <1>o, <4>1, <4>2
    <3>2. CASE \/ Accept(t) \/ Read(t) \/ Lock(t) \/ Load(t) \/ Log(t) \/ Unlock(t)
               \/ \E c \in Cmds : Send(t, c)
      <4>1. \A x \in Conn : pc[x] \in {"log", "assign"} => buf'[x] = buf[x]
        BY <3>2, <1>o DEF Accept, Read, Lock, Load, Log, Unlock, Send
      <4>2. \A x \in Conn : pc'[x] \in {"log", "assign"} <=> pc[x] \in {"log", "assign"}
        BY <3>2, <1>o DEF Accept, Read, Lock, Acquire, Load, Log, Unlock, Send
      <4> QED
        BY <4>1, <4>2
    <3> QED
      BY <1>3, <3>1, <3>2
  <2>4. \A l \in Lines : Unlogged(l)' = Unlogged(l)
    BY <2>2 DEF Unlogged
  <2>5. Stocked => Stocked'
    <3>1. \A k \in Rows : k + 1 \in Lines
      BY RowNumbers
    <3> QED
      BY <1>f, <2>1, <2>4, <3>1 DEF Stocked, Sold
  <2>6. SortInv' /\ Numbered'
    BY <1>f, <2>1 DEF Begun, SortInv, SortTypeOK, Numbered, OneRowEach, SumsMatch,
                      Stable, Passes, InPlace, Smallest, Printed
  <2>7. Replay(writeToResult)' = Replay(writeToResult)
    BY <1>f, <2>1 DEF Replay, Sold
  <2> QED
    BY <1>f, <2>5, <2>6, <2>7 DEF Begun
<1> QED
  BY <1>1, <1>2, <1>3 DEF mask_server
(* A handler's step before the first table: the sort begins when no sale   *)
(* waits for its line, so its totals are what a replay of the log leaves.  *)
LEMMA HandlerEarly ==
    ASSUME Shaped, Guarded, Steady, ~destroyed, Begun, NEW h \in Threads,
           Deliver(h) \/ CloseSocket(h) \/ WriteFile(h) \/ HandlerLock(h) \/ SortStep(h)
    PROVE  Begun'
<1>f. UNCHANGED <<pc, buf, writeToResult, inventory>>
  BY HandlerFrame DEF exit_handler
<1>u. /\ \A l : Unlogged(l)' = Unlogged(l)
      /\ Replay(writeToResult)' = Replay(writeToResult)
  BY <1>f DEF Unlogged, Replay, Sold
<1>o. hpc \in [Threads -> {"none", "close", "file", "lock", "wait", "sort", "unlock",
                           "destroy"}]
  BY DEF Shaped, TypeOK
<1>1. CASE Deliver(h) \/ CloseSocket(h) \/ WriteFile(h) \/ HandlerLock(h)
  <2>1. UNCHANGED <<data, spc, toIndex, j, table, total>>
    BY <1>1 DEF Deliver, CloseSocket, WriteFile, HandlerLock
  <2>2. hpc[h] # "sort" /\ \A g \in Threads \ {h} : hpc'[g] = hpc[g]
    <3>1. CASE HandlerLock(h)
      BY <1>o, <3>1 DEF HandlerLock, Acquire, InHandler
    <3> QED
      BY <1>1, <1>o, <3>1 DEF Deliver, CloseSocket, WriteFile, InHandler, Runs
  <2>3. (\E g \in Threads : hpc[g] = "sort") => \E g \in Threads : hpc'[g] = "sort"
    BY <2>2
  <2>4. SortInv' /\ Numbered'
    BY <2>1 DEF Begun, SortInv, SortTypeOK, Numbered, OneRowEach, SumsMatch, Stable,
                Passes, InPlace, Smallest, Printed
  <2>5. Stocked => Stocked'
    BY <1>f, <1>u, <2>1 DEF Stocked, Sold
  <2> QED
    BY <1>u, <2>1, <2>3, <2>4, <2>5 DEF Begun
<1>2. CASE SortStep(h)
  <2>1. hpc[h] = "sort" /\ hpc' = [hpc EXCEPT ![h] = "sort"]
    BY <1>2 DEF SortStep, InHandler
  <2>2. \E g \in Threads : hpc'[g] = "sort"
    BY <1>o, <2>1
  <2>3. CASE SumRows
    <3>1. spc = "idle" /\ spc' = "while"
          /\ total' = [l \in Lines |-> data[RowOf(l)].stock]
      BY <2>3 DEF SumRows
    <3>2. SortInv' /\ Numbered'
      BY <2>3, SumKeeps DEF Begun
    <3>3. \A l \in Lines : Unlogged(l) = 0
      BY <2>1, SortingAlone DEF Sorting, Serving, Unlogged
    <3>4. ASSUME NEW l \in Lines PROVE total'[l] = Replay(writeToResult)[l]
      <4>1. l - 1 \in Rows /\ (l - 1) + 1 = l
        BY SizeAssumption DEF Lines, Rows
      <4>2. data[l - 1].line = l
        BY <3>1, <4>1 DEF Begun, Numbered
      <4>3. RowOf(l) = l - 1
        BY <4>1, <4>2, RowFound DEF Begun, SortInv, OneRowEach, Distinct
      <4>4. data[l - 1].stock = inventory[l] - Sold(writeToResult, l) - Unlogged(l)
        BY <3>1, <4>1 DEF Begun, Stocked
      <4>5. inventory[l] \in Nat /\ Sold(writeToResult, l) \in Nat
        BY <4>1, StockTypes
      <4>6. total'[l] = inventory[l] - Sold(writeToResult, l)
        BY <3>1, <3>3, <4>3, <4>4, <4>5
      <4> QED
        BY <4>6 DEF Replay
    <3> QED
      BY <1>u, <2>2, <3>1, <3>2, <3>4 DEF Begun
  <2>4. CASE While \/ For
    <3>1. spc # "idle" /\ spc' \in {"for", "while", "print"} /\ total' = total
      BY <2>4 DEF While, For
    <3>2. SortInv' /\ Numbered'
      BY <2>4, WhileKeeps, ForKeeps DEF Begun
    <3> QED
      BY <1>u, <2>2, <3>1, <3>2 DEF Begun
  <2> QED
    BY <1>2, <2>3, <2>4 DEF SortStep
<1> QED
  BY <1>1, <1>2

(* Until a table is printed, Early holds. *)
LEMMA EarlyStep ==
    ASSUME Shaped, Guarded, Steady, Early, [Next]_vars
    PROVE  Early'
<1> SUFFICES ASSUME first' = NoTable
             PROVE  /\ ~destroyed' /\ Begun'
                    /\ \A h \in Threads : hpc'[h] \notin {"unlock", "destroy"}
  BY DEF Early, Begun
<1>1. first = NoTable /\ ~\E h \in Threads : PrintTable(h)
  BY FirstStays, TablePrinted
<1>2. /\ ~destroyed /\ Begun
      /\ \A h \in Threads : hpc[h] \notin {"unlock", "destroy"}
  BY <1>1 DEF Early, Begun
<1>3. CASE Interrupt \/ AcceptFails \/ UNCHANGED vars
  <2>1. UNCHANGED <<data, spc, toIndex, j, table, total, pc, buf, writeToResult,
                    destroyed, hpc, inventory>>
    BY <1>3, OutsideFrame
  <2>2. SortInv' /\ Numbered'
    BY <1>2, <2>1 DEF Begun, SortInv, SortTypeOK, Numbered, OneRowEach, SumsMatch,
                      Stable, Passes, InPlace, Smallest, Printed
  <2>3. /\ \A l : Unlogged(l)' = Unlogged(l)
        /\ Replay(writeToResult)' = Replay(writeToResult)
    BY <2>1 DEF Unlogged, Replay, Sold
  <2>4. Stocked => Stocked'
    BY <2>1, <2>3 DEF Stocked, Sold
  <2> QED
    BY <1>2, <2>1, <2>2, <2>3, <2>4 DEF Begun
<1>4. ASSUME NEW t \in Conn, Accept(t) \/ mask_server(t) \/ \E c \in Cmds : Send(t, c)
      PROVE  /\ ~destroyed' /\ Begun'
             /\ \A h \in Threads : hpc'[h] \notin {"unlock", "destroy"}
  BY <1>2, <1>4, WorkerFrame, WorkerEarly
<1>5. ASSUME NEW h \in Threads, Deliver(h) \/ exit_handler(h)
      PROVE  /\ ~destroyed' /\ Begun'
             /\ \A g \in Threads : hpc'[g] \notin {"unlock", "destroy"}
  <2>0. ~HandlerUnlock(h) /\ ~Destroy(h)
    BY <1>2 DEF HandlerUnlock, Destroy, InHandler
  <2>1. Deliver(h) \/ CloseSocket(h) \/ WriteFile(h) \/ HandlerLock(h) \/ SortStep(h)
    BY <1>1, <1>5, <2>0 DEF exit_handler
  <2>2. Begun'
    BY <1>2, <2>1, HandlerEarly
  <2>3. destroyed' = destroyed
    BY <2>1 DEF Deliver, CloseSocket, WriteFile, HandlerLock, SortStep
  <2>4. \E at \in {"close", "file", "lock", "wait", "sort"} :
           hpc' = [hpc EXCEPT ![h] = at]
    <3>1. CASE HandlerLock(h)
      BY <3>1, Zenon DEF HandlerLock, Acquire, InHandler
    <3> QED
      BY <2>1, <3>1 DEF Deliver, CloseSocket, WriteFile, SortStep, InHandler
  <2>5. hpc \in [Threads -> {"none", "close", "file", "lock", "wait", "sort", "unlock",
                             "destroy"}]
    BY DEF Shaped, TypeOK
  <2>6. \A g \in Threads : hpc'[g] \notin {"unlock", "destroy"}
    BY <1>2, <2>4, <2>5
  <2> QED
    BY <1>2, <2>2, <2>3, <2>6
<1> QED
  BY <1>3, <1>4, <1>5 DEF Next
-----------------------------------------------------------------------------
(* Under the mutex a worker adds at most a line to the log. *)
LEMMA LogGrows ==
    ASSUME Shaped, Guarded, Steady, ~destroyed, NEW t \in Conn,
           Accept(t) \/ mask_server(t) \/ \E c \in Cmds : Send(t, c)
    PROVE  \/ writeToResult' = writeToResult
           \/ \E b \in Lines \cup {Nothing} : writeToResult' = Append(writeToResult, b)
<1>1. CASE Assign(t)
  <2>1. pc[t] = "assign" /\ Serving(t)
    BY <1>1 DEF Assign, Serving
  <2>2. ~Clashes(t)
    BY <2>1, ServingAlone DEF Clashes, Serving
  <2>3. writeToResult' = Append(writeToResult, buf[t])
    BY <1>1, <2>1, <2>2 DEF Assign, Steady, Fresh
  <2>4. buf[t] \in Lines \cup {Nothing}
    BY <2>1 DEF Shaped, Boxes
  <2> QED
    BY <2>3, <2>4
<1> QED
  BY <1>1 DEF Accept, mask_server, Send, Read, Lock, Handle, Load, Sell, Log, Unlock

(* The mutex is destroyed after the first table, and that is printed after *)
(* the file is saved.                                                      *)
LEMMA SavedFirst ==
    ASSUME Shaped, Early, Signalled, Steady, ~saved
    PROVE  ~destroyed /\ writeToResult \in Seq(Lines \cup {Nothing})
BY DEF Early, Signalled, Steady, Shaped, TypeOK, Logs

(* The first SIGINT finds nothing saved, and goes to main, which closes    *)
(* the socket first of all.                                                *)
LEMMA SignalledStep ==
    ASSUME Shaped, Guarded, Steady, Early, Signalled, [Next]_vars
    PROVE  Signalled'
<1>o. /\ hpc \in [Threads -> {"none", "close", "file", "lock", "wait", "sort", "unlock",
                              "destroy"}]
      /\ saved \in BOOLEAN /\ Main \in Threads
  BY DEF Shaped, TypeOK, Threads
<1>l. Len(writeToResult) \in Nat
  BY LenProperties DEF Shaped, TypeOK, Logs, Torn
<1>1. CASE Interrupt \/ AcceptFails \/ UNCHANGED vars
  <2>1. UNCHANGED <<writeToResult, saved, sockfd, hpc, before, quiet, first>>
    BY <1>1, OutsideFrame
  <2> QED
    BY <2>1 DEF Signalled
<1>2. ASSUME NEW t \in Conn, Accept(t) \/ mask_server(t) \/ \E c \in Cmds : Send(t, c)
      PROVE  Signalled'
  <2>1. UNCHANGED <<saved, sockfd, hpc, before, quiet, first>>
    BY <1>2, WorkerFrame
  <2>2. ~saved => /\ Len(writeToResult') \in Nat
                  /\ Len(writeToResult) <= Len(writeToResult')
    BY <1>2, <1>l, SavedFirst, LogGrows, AppendProperties
  <2>3. before' \in Int /\ (~saved' => before' <= Len(writeToResult'))
    BY <1>l, <2>1, <2>2 DEF Signalled
  <2> QED
    BY <2>1, <2>3 DEF Signalled
<1>3. ASSUME NEW h \in Threads, Deliver(h) PROVE Signalled'
  <2>1. /\ UNCHANGED <<writeToResult, saved, sockfd, first>>
        /\ hpc' = [hpc EXCEPT ![h] = "close"] /\ hpc[h] = "none"
        /\ h = Main \/ hpc[Main] # "none"
        /\ IF before = -1 THEN before' = Len(writeToResult)
                          ELSE UNCHANGED <<before, quiet>>
    BY <1>3 DEF Deliver, Runs
  <2>2. /\ before' \in Int /\ before' # -1
        /\ ~saved' => before' <= Len(writeToResult')
    BY <1>l, <2>1 DEF Signalled
  <2>3. sockfd' => hpc'[Main] = "close"
    BY <1>o, <2>1 DEF Signalled
  <2>4. first' # NoTable => saved'
    BY <2>1 DEF Signalled
  <2>5. \A g \in Threads : hpc'[g] \notin {"none", "close", "file"} => saved'
    BY <1>o, <2>1 DEF Signalled
  <2> QED
    BY <2>2, <2>3, <2>4, <2>5 DEF Signalled
<1>4. ASSUME NEW h \in Threads, exit_handler(h) PROVE Signalled'
  <2>1. UNCHANGED <<writeToResult, before, quiet>> /\ hpc[h] # "none"
    <3>1. CASE HandlerLock(h)
      BY <3>1 DEF HandlerLock, Acquire, InHandler
    <3> QED
      BY <1>4, <3>1 DEF exit_handler, CloseSocket, WriteFile, SortStep, PrintTable,
                        HandlerUnlock, Destroy, InHandler
  <2>2. before # -1
    BY <2>1 DEF Signalled
  <2>3. /\ sockfd' => sockfd /\ hpc[h] # "close"
        /\ \A g \in Threads \ {h} : hpc'[g] = hpc[g]
    <3>1. CASE HandlerLock(h)
      BY <1>o, <3>1 DEF HandlerLock, Acquire, InHandler
    <3> QED
      BY <1>4, <1>o, <3>1 DEF exit_handler, CloseSocket, WriteFile, SortStep, PrintTable,
                              HandlerUnlock, Destroy, InHandler
  <2>4. sockfd' => hpc'[Main] = "close"
    BY <1>o, <2>2, <2>3 DEF Signalled
  <2>5. saved' = saved \/ saved' = TRUE
    BY <1>4 DEF exit_handler, CloseSocket, WriteFile, HandlerLock, SortStep, PrintTable,
                HandlerUnlock, Destroy
  <2>6. /\ hpc'[h] \notin {"none", "close", "file"} => saved'
        /\ first' # first => saved'
    <3>1. CASE CloseSocket(h) \/ WriteFile(h) \/ Destroy(h)
      BY <1>o, <3>1 DEF CloseSocket, WriteFile, Destroy, InHandler
    <3>2. CASE HandlerLock(h) \/ SortStep(h) \/ PrintTable(h) \/ HandlerUnlock(h)
      <4>1. hpc[h] \notin {"none", "close", "file"} /\ saved' = saved
        BY <3>2 DEF HandlerLock, SortStep, PrintTable, HandlerUnlock, InHandler
      <4> QED
        BY <4>1 DEF Signalled
    <3> QED
      BY <1>4, <3>1, <3>2 DEF exit_handler
  <2>7. \A g \in Threads : hpc'[g] \notin {"none", "close", "file"} => saved'
    BY <2>3, <2>5, <2>6 DEF Signalled
  <2>8. first' # NoTable => saved'
    BY <2>5, <2>6 DEF Signalled
  <2>9. before' \in Int /\ (~saved' => before' <= Len(writeToResult'))
    BY <2>1, <2>5 DEF Signalled
  <2> QED
    BY <2>1, <2>2, <2>4, <2>7, <2>8, <2>9 DEF Signalled
<1> QED
  BY <1>1, <1>2, <1>3, <1>4 DEF Next

(* A prefix of the log stays one when the log grows. *)
LEMMA PrefixGrows ==
    ASSUME NEW S, NEW s \in Seq(S), NEW log \in Seq(S), NEW b \in S, IsPrefix(s, log)
    PROVE  IsPrefix(s, Append(log, b))
<1>1. Len(s) \in Nat /\ Len(log) \in Nat /\ Len(s) <= Len(log)
  BY LenProperties DEF IsPrefix
<1>2. /\ Append(log, b) \in Seq(S) /\ Len(Append(log, b)) = Len(log) + 1
      /\ \A i \in 1..Len(log) : Append(log, b)[i] = log[i]
  BY AppendProperties
<1>3. SubSeq(log, 1, Len(s)) = [i \in 1..Len(s) |-> log[i]]
  BY <1>1, SubSeqRestrict
<1>4. SubSeq(Append(log, b), 1, Len(s)) = [i \in 1..Len(s) |-> Append(log, b)[i]]
  BY <1>1, <1>2, SubSeqRestrict
<1>5. SubSeq(Append(log, b), 1, Len(s)) = SubSeq(log, 1, Len(s))
  BY <1>1, <1>2, <1>3, <1>4
<1> QED
  BY <1>1, <1>2, <1>5 DEF IsPrefix

(* What is in result.txt stays a prefix of the log, of at least the lines  *)
(* that were there at the first SIGINT: the string is written once, after  *)
(* that SIGINT and while the mutex still keeps the workers apart, and      *)
(* every later log, lost lines or not, was put together from one that      *)
(* continues it.                                                           *)
LEMMA SavedStep ==
    ASSUME Shaped, Guarded, Steady, Early, Signalled, SavedLog, Continued, [Next]_vars
    PROVE  SavedLog' /\ Continued'
<1>o. /\ writeToResult \in Logs /\ result \in Logs /\ text \in [Conn -> Logs]
      /\ pc \in [Conn -> {"none", "read", "lock", "wait", "handle", "load", "sell", "log",
                          "assign", "unlock"}]
  BY DEF Shaped, TypeOK
<1>1. CASE Interrupt \/ AcceptFails \/ UNCHANGED vars
  <2>1. UNCHANGED <<writeToResult, saved, result, before, pc, text>>
    BY <1>1, OutsideFrame
  <2> QED
    BY <2>1 DEF SavedLog, Continued, IsPrefix
<1>2. ASSUME NEW t \in Conn, Accept(t) \/ mask_server(t) \/ \E c \in Cmds : Send(t, c)
      PROVE  SavedLog' /\ Continued'
  <2>1. UNCHANGED <<saved, result, before>>
    BY <1>2, WorkerFrame
  <2> SUFFICES ASSUME saved, result # Torn
               PROVE  /\ writeToResult' # Torn => IsPrefix(result, writeToResult')
                      /\ \A x \in Conn : pc'[x] = "assign" /\ text'[x] # Torn
                                            => IsPrefix(result, text'[x])
    BY <2>1 DEF SavedLog, Continued, IsPrefix
  <2>2. /\ writeToResult # Torn => IsPrefix(result, writeToResult)
        /\ \A x \in Conn : pc[x] = "assign" /\ text[x] # Torn => IsPrefix(result, text[x])
    BY DEF SavedLog, Continued
  <2>3. CASE Log(t)
    <3>1. /\ pc[t] = "log" /\ pc' = [pc EXCEPT ![t] = "assign"]
          /\ text' = [text EXCEPT ![t] = IF writeToResult = Torn THEN Torn
                                         ELSE Append(writeToResult, buf[t])]
          /\ writeToResult' = writeToResult
      BY <2>3 DEF Log
    <3>2. buf[t] \in Lines \cup {Nothing}
      BY <3>1 DEF Shaped, Boxes
    <3>3. text'[t] # Torn => IsPrefix(result, text'[t])
      <4> SUFFICES ASSUME text'[t] # Torn PROVE IsPrefix(result, text'[t])
        OBVIOUS
      <4>1. writeToResult # Torn /\ text'[t] = Append(writeToResult, buf[t])
        BY <1>o, <3>1
      <4>2. result \in Seq(Lines \cup {Nothing}) /\ writeToResult \in Seq(Lines \cup {Nothing})
        BY <1>o, <4>1 DEF Logs
      <4>3. IsPrefix(result, writeToResult)
        BY <2>2, <4>1
      <4> QED
        BY <3>2, <4>1, <4>2, <4>3, PrefixGrows
    <3>4. \A x \in Conn \ {t} : pc'[x] = pc[x] /\ text'[x] = text[x]
      BY <1>o, <3>1
    <3> QED
      BY <2>2, <3>1, <3>3, <3>4
  <2>4. CASE Assign(t)
    <3>1. /\ pc[t] = "assign" /\ pc' = [pc EXCEPT ![t] = "unlock"]
          /\ text' = [text EXCEPT ![t] = <<>>]
          /\ writeToResult' \in {text[t], Torn}
      BY <2>4 DEF Assign
    <3>2. pc'[t] # "assign" /\ \A x \in Conn \ {t} : pc'[x] = pc[x] /\ text'[x] = text[x]
      BY <1>o, <3>1
    <3> QED
      BY <2>2, <3>1, <3>2
  <2>5. CASE ~Log(t) /\ ~Assign(t)
    <3>1. /\ UNCHANGED <<writeToResult, text>>
          /\ \A x \in Conn : pc'[x] = "assign" => pc[x] = "assign"
      BY <1>2, <1>o, <2>5 DEF Accept, mask_server, Send, Read, Lock, Acquire, Handle, Load,
                              Sell, Unlock
    <3> QED
      BY <2>2, <3>1
  <2> QED
    BY <2>3, <2>4, <2>5
<1>3. ASSUME NEW h \in Threads, WriteFile(h), ~saved PROVE SavedLog' /\ Continued'
  <2>1. /\ UNCHANGED <<writeToResult, before, pc, text>>
        /\ result' = writeToResult \/ result' = Torn
    BY <1>3 DEF WriteFile, InHandler
  <2> SUFFICES ASSUME result' = writeToResult, writeToResult # Torn
               PROVE  /\ IsPrefix(result', writeToResult) /\ Len(result') >= before
                      /\ \A x \in Conn : pc[x] = "assign" => IsPrefix(result', text[x])
    BY <1>3, <2>1, SavedFirst DEF SavedLog, Continued, IsPrefix, Steady
  <2>2. ~destroyed /\ writeToResult \in Seq(Lines \cup {Nothing})
    BY <1>3, SavedFirst
  <2>3. Len(writeToResult) \in Nat /\ before \in Int /\ before <= Len(writeToResult)
    BY <1>3, <2>2, LenProperties DEF Signalled
  <2>4. IsPrefix(writeToResult, writeToResult)
    BY <2>3 DEF IsPrefix
  <2>5. ASSUME NEW x \in Conn, pc[x] = "assign" PROVE IsPrefix(writeToResult, text[x])
    <3>1. text[x] = Append(writeToResult, buf[x]) /\ buf[x] \in Lines \cup {Nothing}
      BY <2>2, <2>5 DEF Steady, Fresh, Shaped, Boxes
    <3> QED
      BY <2>2, <2>4, <3>1, PrefixGrows
  <2> QED
    BY <2>3, <2>4, <2>5
<1>4. ASSUME NEW h \in Threads, Deliver(h) \/ exit_handler(h), ~WriteFile(h) \/ saved
      PROVE  SavedLog' /\ Continued'
  <2>1. UNCHANGED <<writeToResult, pc, text, saved, result>>
    <3>1. CASE WriteFile(h)
      BY <1>4, <3>1 DEF WriteFile, InHandler, Shaped, TypeOK
    <3> QED
      BY <1>4, <3>1, HandlerFrame
         DEF Deliver, exit_handler, CloseSocket, HandlerLock, SortStep, PrintTable,
             HandlerUnlock, Destroy
  <2>2. saved => before' = before
    BY <1>4 DEF Signalled, Deliver, exit_handler, CloseSocket, WriteFile, HandlerLock,
                SortStep, PrintTable, HandlerUnlock, Destroy
  <2> QED
    BY <2>1, <2>2 DEF SavedLog, Continued, IsPrefix
<1> QED
  BY <1>1, <1>2, <1>3, <1>4 DEF Next, exit_handler

(* Once the commands are all done at the first SIGINT, no worker can take  *)
(* a step: main accepts nobody, and nobody sends.                          *)
LEMMA NobodyWorks ==
    ASSUME Shaped, Signalled, quiet, AllDone, NEW t \in Conn
    PROVE  ~(Accept(t) \/ mask_server(t) \/ \E c \in Cmds : Send(t, c))
<1>1. sockfd => hpc[Main] = "close"
  BY DEF Signalled
<1>2. pc[t] = "none" \/ (pc[t] = "read" /\ left[t] = 0 /\ idle[t] /\ req[t] = NoCmd)
  BY DEF AllDone, Shaped, Boxes
<1>3. ~Accept(t)
  BY <1>1 DEF Accept, Runs
<1>4. ~mask_server(t)
  BY <1>2 DEF mask_server, Read, Lock, Handle, Load, Sell, Log, Assign, Unlock
<1>5. ASSUME NEW c \in Cmds, Send(t, c) PROVE FALSE
  <2>1. pc[t] # "none" /\ left[t] > 0
    BY <1>5 DEF Send
  <2>2. left[t] = 0
    BY <1>2, <2>1
  <2> QED
    BY <2>1, <2>2
<1> QED
  BY <1>3, <1>4, <1>5

(* So the log that is saved and the one beside the table are the same. *)
LEMMA FrozenStep ==
    ASSUME Shaped, Signalled, Frozen, [Next]_vars
    PROVE  Frozen'
<1> SUFFICES ASSUME quiet'
             PROVE  /\ AllDone'
                    /\ saved' /\ result' # Torn => result' = writeToResult'
                    /\ first' # NoTable => first'.log = writeToResult'
  BY DEF Frozen
<1>1. CASE Interrupt \/ AcceptFails \/ UNCHANGED vars
  <2>1. UNCHANGED <<pc, left, idle, writeToResult, saved, result, quiet, first>>
    BY <1>1, OutsideFrame
  <2> QED
    BY <2>1 DEF Frozen, AllDone
<1>2. ASSUME NEW t \in Conn, Accept(t) \/ mask_server(t) \/ \E c \in Cmds : Send(t, c)
      PROVE  FALSE
  <2>1. quiet' = quiet
    BY <1>2, WorkerFrame
  <2> QED
    BY <1>2, <2>1, NobodyWorks DEF Frozen
<1>3. ASSUME NEW h \in Threads, Deliver(h) \/ exit_handler(h)
      PROVE  /\ AllDone'
             /\ saved' /\ result' # Torn => result' = writeToResult'
             /\ first' # NoTable => first'.log = writeToResult'
  <2>f. UNCHANGED <<pc, left, idle, writeToResult>>
    BY <1>3, HandlerFrame
  <2>a. AllDone' <=> AllDone
    BY <2>f DEF AllDone
  <2>1. CASE Deliver(h)
    <3>1. UNCHANGED <<saved, result, first>>
      BY <2>1 DEF Deliver
    <3>2. CASE before = -1
      <4>1. quiet' = AllDone
        BY <2>1, <3>2 DEF Deliver
      <4>2. ~saved /\ first = NoTable
        BY <3>2 DEF Signalled
      <4> QED
        BY <2>a, <3>1, <4>1, <4>2
    <3>3. CASE before # -1
      <4>1. quiet' = quiet
        BY <2>1, <3>3 DEF Deliver
      <4> QED
        BY <2>a, <2>f, <3>1, <4>1 DEF Frozen
    <3> QED
      BY <3>2, <3>3
  <2>2. CASE exit_handler(h)
    <3>1. quiet' = quiet
      BY <2>2 DEF exit_handler, CloseSocket, WriteFile, HandlerLock, SortStep,
                  PrintTable, HandlerUnlock, Destroy
    <3>2. saved' /\ result' # Torn => result' = writeToResult'
      <4>1. CASE WriteFile(h)
        BY <2>f, <3>1, <4>1 DEF WriteFile, Frozen
      <4>2. CASE ~WriteFile(h)
        <5>1. saved' = saved /\ result' = result
          BY <2>2, <4>2 DEF exit_handler, CloseSocket, HandlerLock, SortStep, PrintTable,
                            HandlerUnlock, Destroy
        <5> QED
          BY <2>f, <3>1, <5>1 DEF Frozen
      <4> QED
        BY <4>1, <4>2
    <3>3. first' # NoTable => first'.log = writeToResult'
      <4>1. CASE PrintTable(h)
        BY <2>f, <3>1, <4>1 DEF PrintTable, Frozen
      <4>2. CASE ~PrintTable(h)
        <5>1. first' = first
          BY <2>2, <4>2 DEF exit_handler, CloseSocket, WriteFile, HandlerLock, SortStep,
                            HandlerUnlock, Destroy
        <5> QED
          BY <2>f, <3>1, <5>1 DEF Frozen
      <4> QED
        BY <4>1, <4>2
    <3> QED
      BY <2>a, <3>1, <3>2, <3>3 DEF Frozen
  <2> QED
    BY <1>3, <2>1, <2>2
<1> QED
  BY <1>1, <1>2, <1>3 DEF Next
(* The first table ranks the cities by what a replay of the log leaves. *)
LEMMA FirstStep ==
    ASSUME Shaped, Early, FirstTable, [Next]_vars
    PROVE  FirstTable'
<1>i. inventory' = inventory
  BY WorkerFrame, HandlerFrame, OutsideFrame DEF Next
<1>1. CASE first' = first
  BY <1>i, <1>1 DEF FirstTable, city_sort, city_compare, Replay, Sold
<1>2. ASSUME NEW h \in Threads, PrintTable(h), first = NoTable PROVE FirstTable'
  <2>1. /\ first' = [rows |-> table', log |-> writeToResult]
        /\ PrintRows /\ spc = "print" /\ spc' = "printed" /\ total' = total
    BY <1>2 DEF PrintTable, PrintRows
  <2>2. SortInv /\ Numbered /\ \A l \in Lines : total[l] = Replay(writeToResult)[l]
    BY <1>2, <2>1 DEF Early
  <2>3. SortInv'
    BY <2>1, <2>2, PrintRowsKeeps
  <2>4. SortInv' => Ranked'
    BY TableRanked, PTL
  <2>5. /\ \A k \in Rows : table'[k][2] = total[table'[k][1]]
        /\ \A p, q \in Rows : p < q => table'[p][2] >= table'[q][2]
    BY <2>1, <2>3, <2>4 DEF Ranked
  <2>6. table' \in [Rows -> Lines \X Int] /\ table' = [k \in Rows |-> <<data[k].line, data[k].sum>>]
    BY <2>1, <2>3 DEF SortInv, SortTypeOK, PrintRows
  <2>7. \A k \in Rows : table'[k][1] = data[k].line /\ table'[k][1] \in Lines
                        /\ table'[k][2] \in Int
    BY <2>6
  <2>8. {table'[k][1] : k \in Rows} = Lines
    BY <2>7 DEF Shaped, AllListed
  <2>9. \A k \in Rows : table'[k][2] = Replay(writeToResult)[table'[k][1]]
    BY <2>2, <2>5, <2>7
  <2>10. \A p, q \in Rows : p < q => ~city_compare(table'[q], table'[p])
    BY <2>5, <2>7 DEF city_compare
  <2>11. city_sort(table', Replay(writeToResult))
    BY <2>8, <2>9, <2>10 DEF city_sort
  <2>12. Replay(first.log)' = Replay(writeToResult) /\ first'.rows = table'
    BY <1>i, <2>1 DEF Replay, Sold
  <2> QED
    BY <2>11, <2>12 DEF FirstTable, city_sort, city_compare
<1> QED
  BY <1>1, <1>2, FirstStays

(* The server starts with every mask on its row and nothing sold. *)
LEMMA StoppingStart == ASSUME Init PROVE ShutdownInv
<1>1. Shaped
  BY ShapedStart
<1>2. /\ SortTypeOK /\ Distinct(data) /\ spc = "idle"
      /\ \A k \in Rows : data[k].line = k + 1 /\ data[k].stock \in Nat
  BY SortStarts DEF Init
<1>3. SortInv /\ Numbered
  BY <1>2, Restated DEF Body, Passes, Printed, Numbered
<1>4. Guarded
  BY ThreadAssumption DEF Init, Guarded, Serving, Sorting, Threads
<1>5. Stocked
  <2> SUFFICES ASSUME NEW k \in Rows
               PROVE  data[k].stock = inventory[k + 1] - Sold(writeToResult, k + 1)
                                         - Unlogged(k + 1)
    BY DEF Stocked
  <2>1. k \in Int /\ k + 1 \in Lines /\ (k + 1) - 1 = k
    BY RowNumbers
  <2>2. inventory[k + 1] = data[k].stock /\ data[k].stock \in Nat
    BY <1>2, <2>1 DEF Init, SortTypeOK
  <2>3. Unlogged(k + 1) = 0
    BY DEF Init, Unlogged
  <2>4. Sold(writeToResult, k + 1) = 0
    <3>1. writeToResult = <<>> /\ Len(writeToResult) = 0
      BY DEF Init
    <3>2. {i \in 1..Len(writeToResult) : writeToResult[i] = k + 1} = {}
      BY <3>1
    <3> QED
      BY <3>2, FS_EmptySet DEF Sold
  <2> QED
    BY <2>2, <2>3, <2>4
<1>6. Early
  BY <1>2, <1>3, <1>5 DEF Init, Early
<1>7. Signalled /\ Frozen /\ SavedLog /\ Continued /\ FirstTable
  BY DEF Init, Signalled, Frozen, SavedLog, Continued, FirstTable
<1>8. Steady /\ NoneOversold
  <2>1. writeToResult # Torn
    <3>1. Len(writeToResult) = 0 /\ Len(Torn) = 1
      BY DEF Init, Torn
    <3> QED
      BY <3>1
  <2> QED
    BY <1>2, <2>1 DEF Init, Steady, Fresh, NoneOversold
<1> QED
  BY <1>1, <1>4, <1>6, <1>7, <1>8 DEF Shaped, ShutdownInv

(* Every step of the server, of its clients and of the user keeps the      *)
(* invariant.                                                              *)
LEMMA StoppingStep ==
    ASSUME ShutdownInv, [Next]_vars
    PROVE  ShutdownInv'
<1>1. Shaped /\ Guarded /\ Steady /\ NoneOversold /\ Early /\ Signalled /\ Frozen
      /\ SavedLog /\ Continued /\ FirstTable
  BY DEF ShutdownInv, Shaped
<1>2. Shaped'
  BY <1>1, ShapedStep
<1>3. Guarded'
  BY <1>1, GuardedStep
<1>4. Early'
  BY <1>1, EarlyStep
<1>5. Signalled'
  BY <1>1, SignalledStep
<1>6. Frozen'
  BY <1>1, FrozenStep
<1>7. SavedLog' /\ Continued'
  BY <1>1, SavedStep
<1>8. FirstTable'
  BY <1>1, FirstStep
<1>9. Steady' /\ NoneOversold'
  BY <1>1, SteadyStep
<1> QED
  BY <1>2, <1>3, <1>4, <1>5, <1>6, <1>7, <1>8, <1>9 DEF ShutdownInv, Shaped

(* The invariant holds in every reachable state, for any number of SIGINTs *)
(* and wherever they find the workers.                                     *)
LEMMA Stopping == Spec => []ShutdownInv
<1>1. Init => ShutdownInv
  BY StoppingStart
<1>2. ShutdownInv /\ [Next]_vars => ShutdownInv'
  BY StoppingStep
<1> QED
  BY <1>1, <1>2, PTL DEF Spec

(* Until the mutex is destroyed no purchase takes a mask that is not       *)
(* there: check, load and store of the count happen under the mutex, which *)
(* also keeps the exchanges of the sort away.                              *)
THEOREM SoldInStock == Spec => []NoneOversold
<1>1. ShutdownInv => NoneOversold
  BY DEF ShutdownInv
<1> QED
  BY <1>1, Stopping, PTL

(* The first table exit_handler prints ranks the cities by the inventory   *)
(* less exactly the sales in the log at that moment: server_sort runs      *)
(* under the mutex, so no sale is on its way into the log.                 *)
THEOREM FirstTableRight == Spec => []FirstTable
<1>1. ShutdownInv => FirstTable
  BY DEF ShutdownInv
<1> QED
  BY <1>1, Stopping, PTL

(* result.txt, unless its one write raced with a worker, holds the log up  *)
(* to some line and misses none that was in it when SIGINT came.           *)
THEOREM LogSaved == Spec => []SavedLog
<1>1. ShutdownInv => SavedLog
  BY DEF ShutdownInv
<1> QED
  BY <1>1, Stopping, PTL

(* Stopped as checker.cpp asks, the server leaves a result.txt whose       *)
(* replay gives the table the server printed first.                        *)
THEOREM CheckerSatisfied == Spec => []CheckerAgrees
<1>1. ShutdownInv => CheckerAgrees
  <2> SUFFICES ASSUME ShutdownInv, quiet, first # NoTable, result # Torn
               PROVE  /\ result = writeToResult
                      /\ city_sort(first.rows, Replay(result))
    BY DEF CheckerAgrees
  <2>1. saved
    BY DEF ShutdownInv, Signalled
  <2>2. result = writeToResult /\ first.log = writeToResult
    BY <2>1 DEF ShutdownInv, Frozen
  <2>3. city_sort(first.rows, Replay(first.log))
    BY DEF ShutdownInv, FirstTable
  <2> QED
    BY <2>2, <2>3
<1> QED
  BY <1>1, Stopping, PTL
=============================================================================
