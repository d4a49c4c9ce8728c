--------------------------- MODULE InventorySort ---------------------------
(***************************************************************************)
(* server_sort of hw3.cpp: the rows of a store, one per city, are bubbled  *)
(* into descending order of what is left of their masks, and printed.  One *)
(* store is modelled: the loop over the stores treats each by itself.      *)
(*                                                                         *)
(* A row is [line, stock, sum]: the number of the city (its name moves     *)
(* with it), the masks left (a + b + c) and the sum the sort computes.     *)
(***************************************************************************)
EXTENDS Integers, Sequences, FiniteSets

CONSTANTS type_num,   \* cities of the store
          Stocks      \* inventories: masks left, by city

VARIABLES data,           \* the rows, shared with the workers
          spc,            \* where server_sort is
          toIndex, j,     \* its local variables
          table,          \* the lines it printed last
          total           \* history: the masks of each city when it began

sort == <<spc, toIndex, j, table, total>>

ASSUME SizeAssumption == type_num \in Nat
ASSUME StocksAssumption == Stocks \subseteq [1..type_num -> Nat]

Rows  == 0..(type_num - 1)
Lines == 1..type_num

(* inventory.txt lists the cities in the order of their numbers. *)
FirstRows(stock) == [k \in Rows |-> [line |-> k + 1, stock |-> stock[k + 1], sum |-> 0]]

RowOf(l) == CHOOSE k \in Rows : data[k].line = l

-----------------------------------------------------------------------------
SortInit ==
    /\ data \in {FirstRows(stock) : stock \in Stocks}
    /\ spc = "idle"
    /\ toIndex = 0 /\ j = 0
    /\ table = [k \in Rows |-> <<k + 1, 0>>]
    /\ total = [l \in Lines |-> 0]

SumRows ==
    /\ spc = "idle"
    /\ data' = [k \in Rows |-> [data[k] EXCEPT !.sum = data[k].stock]]
    /\ total' = [l \in Lines |-> data[RowOf(l)].stock]
    /\ toIndex' = type_num
    /\ spc' = "while"
    /\ UNCHANGED <<j, table>>

(* Mutant: the last pair of a pass is not compared. *)
While_Short ==
    /\ spc = "while"
    /\ IF toIndex > 2
       THEN toIndex' = toIndex - 1 /\ j' = 0 /\ spc' = "for"
       ELSE spc' = "print" /\ UNCHANGED <<toIndex, j>>
    /\ UNCHANGED <<data, table, total>>

While ==
    /\ spc = "while"
    /\ IF toIndex > 1
       THEN toIndex' = toIndex - 1 /\ j' = 0 /\ spc' = "for"
       ELSE spc' = "print" /\ UNCHANGED <<toIndex, j>>
    /\ UNCHANGED <<data, table, total>>

(* The exchange goes through bubble_tmp, of which line, city and sum are   *)
(* set.  The upper row gets those of the lower and keeps its counts; the   *)
(* lower becomes a copy of bubble_tmp, whose counts are 0 for good.        *)
Swapped(k) ==
    [data EXCEPT ![k]     = [@ EXCEPT !.line = data[k + 1].line,
                                      !.sum  = data[k + 1].sum],
                 ![k + 1] = [line |-> data[k].line, stock |-> 0,
                             sum |-> data[k].sum]]

For ==
    /\ spc = "for"
    /\ IF j < toIndex
       THEN /\ data' = IF data[j].sum < data[j + 1].sum THEN Swapped(j) ELSE data
            /\ j' = j + 1
            /\ UNCHANGED spc
       ELSE spc' = "while" /\ UNCHANGED <<data, j>>
    /\ UNCHANGED <<toIndex, table, total>>

PrintRows ==
    /\ spc = "print"
    /\ table' = [k \in Rows |-> <<data[k].line, data[k].sum>>]
    /\ spc' = "printed"
    /\ UNCHANGED <<data, toIndex, j, total>>

SortNext == SumRows \/ While \/ For \/ PrintRows

SortSpec == SortInit /\ [][SortNext]_<<data, sort>>

-----------------------------------------------------------------------------
SortTypeOK ==
    /\ data \in [Rows -> [line : Lines, stock : Int, sum : Int]]
    /\ spc \in {"idle", "while", "for", "print", "printed"}
    /\ toIndex \in 0..type_num /\ j \in 0..type_num
    /\ table \in [Rows -> Lines \X Int]
    /\ total \in [Lines -> Int]

(* Every city has one row, and the sum in it is the city's. *)
OneRowEach == \A p, q \in Rows : data[p].line = data[q].line => p = q
SumsMatch  == spc \in {"while", "for", "print", "printed"}
                 => \A k \in Rows : data[k].sum = total[data[k].line]

(* Cities that are equal keep their order: the first sort, which finds    *)
(* the rows in the order of their numbers, leaves such cities in it.       *)
Stable == spc \in {"while", "for", "print", "printed"}
             => \A p, q \in Rows : p < q /\ data[p].sum = data[q].sum
                                     => data[p].line < data[q].line

(* The rows from toIndex on are in place; during a pass, the rows after    *)
(* toIndex are, and the row at j is the smallest so far.                   *)
InPlace(n) == \A p, q \in Rows : p < q /\ n <= q => data[p].sum >= data[q].sum
Smallest   == \A p \in Rows : p < j => data[p].sum >= data[j].sum
Passes     ==
    /\ spc = "while" => InPlace(toIndex)
    /\ spc = "for"   => /\ 0 < toIndex /\ toIndex < type_num /\ j <= toIndex
                        /\ InPlace(toIndex + 1) /\ Smallest
    /\ spc \in {"print", "printed"} => InPlace(1)

Printed == spc = "printed"
              => \A k \in Rows : table[k] = <<data[k].line, data[k].sum>>

(* The table server_sort prints names every city once, with the masks its  *)
(* row held when the sort began, in descending order.                      *)
Ranked ==
    spc = "printed" =>
       /\ \A p, q \in Rows : table[p][1] = table[q][1] => p = q
       /\ \A k \in Rows : table[k][2] = total[table[k][1]]
       /\ \A p, q \in Rows : p < q => table[p][2] >= table[q][2]

(* Before the first sort the rows are in the order of inventory.txt. *)
Numbered == spc = "idle" => \A k \in Rows : data[k].line = k + 1

SortInv == SortTypeOK /\ OneRowEach /\ SumsMatch /\ Stable /\ Passes /\ Printed
=============================================================================
