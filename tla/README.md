# TLA+ models of the embedded-operating-systems course work

The repository holds one student's programs for a course on embedded operating
systems: three homeworks around a shop that sells masks (`0851084_eos_hw1` to
`hw3`) and five labs (`lab3` to `lab7`) about a keypad board, a character
driver, processes, semaphores, signals, timers and shared memory.  This
directory models the programs whose correctness depends on what several
threads, processes or signals do in which order, and the two keypad programs
whose correctness depends on long sequences of keys.

## 1. Inventory

| Part | Source | State | Operations | What is hard |
|---|---|---|---|---|
| Mask server | `hw3/hw3.cpp` | day, alcohol, stock (`data`), list of buyers (`buied_ID`), log (`writeToResult`), mutex; per thread: session, buffer | show, login, logout, buy, statics, unknown word; accept loop; shutdown on SIGINT | one thread per connection on the same globals, the same identity number on several connections, the turn of the week, clients that die with a reply unread |
| Checker | `hw3/checker.cpp` | a replica of the database | a client loop of its own, replay of `result.txt` line by line, the sorted final inventory | it is the definition of a correct log and of the table a stopped server prints |
| Clients | `hw2/client.cpp` | one socket per thread | the six commands, close after `work_num` | death at any moment |
| Mask server, first version | `hw2/server.cpp` | as hw3 | as hw3 | as hw3 |
| Bank | `lab6/server.cpp`, `client.cpp` | account, System V semaphore | deposit, withdraw between P() and V() | interrupted `semop`, a semaphore that outlives its process |
| Number game | `lab7/game.cpp`, `guess.cpp` | shared segment, bounds | timer tick, SIGUSR1 handler, Ctrl-C | two processes and a segment with no synchronisation |
| Kiosk | `hw1/hw1.c` | session flags, table of ten logins, stock, `inventory.txt`, alcohol, display | show, login, logout, buy, statistics, leave | long key sequences, wrap-around of the table, power loss while the file is written |
| Fork server | `lab5/lab5.cpp` | processes, descriptors, SIGCHLD | accept, fork, exec, close, reap | signals that merge, a child that survives a failing `execl` |
| Calculator | `lab3/lab3.c` | key buffer, LCD, display, LEDs | enter, evaluate, clear | precedence in one pass, operands kept in `char`, a buffer and displays that keep old contents |
| Seven-segment driver | `lab4/mydev.c`, `writer.cpp`, `reader.cpp`, `seg.py` | one kernel buffer, a stream, seven segments | write a digit, read its pattern, send it, show it | producer and consumer without a lock, partial `recv`, Ctrl-C in the reader |
| Demos, sockets, course material | `lab7/shm_*.cpp`, `sig_catch.cpp`, `timer.cpp`, `sockop.c`, boot loader, kernel tree | none of their own | | |

Interactions: hw2's client (and the checker, which has a client loop of its
own) talks to hw3's server over TCP; the server writes the log the checker
reads.  The lab 7 programs share a segment and a signal; the lab 6 threads share
a variable and a semaphore; the lab 5 processes share descriptors, the process
table and SIGCHLD; the lab 4 programs share the driver's buffer and a TCP
stream.  The homeworks and labs do not otherwise interact, so the models are
separate except where `MaskServer` implements `MaskChecker` and `MaskShutdown`
is composed of the server's threads and `InventorySort`.

`PROJECT.json` lists under `hazards` the lines where these behaviours bite, and
which property watches each of them.

## 2. Modules

| Module | Models | Used by |
|---|---|---|
| `MaskChecker` | what the checker demands of a log, one line per step: the abstract specification | `MaskServer` (INSTANCE) |
| `MaskServer` | hw3's server and its clients | `MCMaskServer`, `MaskServerProofs` |
| `MaskServerProofs` | type correctness, exclusion, one purchase a week, stock, rows of the list of buyers; `MaskServer` implements `MaskChecker` | |
| `InventorySort` | `server_sort` of hw3, step by step | `MaskShutdown` (EXTENDS) |
| `MaskShutdown`, `MaskShutdownProofs` | SIGINT and `exit_handler` of hw3, with workers, clients and the checker's final comparison; the proofs cover the sort too | `MCMaskShutdown` |
| `Calculator`, `CalculatorProofs` | lab 3 | |
| `SegDriver`, `SegDriverProofs` | lab 4 | |
| `Bank`, `BankProofs` | lab 6 | `MCBank` |
| `GuessGame`, `GuessGameProofs` | lab 7 | |
| `MaskKiosk`, `MaskKioskProofs` | hw1 | `MCMaskKiosk` |
| `ForkServer`, `ForkServerProofs` | lab 5 | |

Operators whose names end in `_Something` and whose comment begins with
*Mutant* are deliberately wrong variants of the definition that follows them.
No specification uses them; `PROJECT.json` pairs each with the property that
must fail when the variant takes the definition's place.

### MaskServer and MaskChecker

A worker goes `read`, `lock`, `decide`, `commit`, `log`, `unlock`.  The split
of a handler in three is what makes the mutex matter: `Decide` computes the
result from the database as the chain of conditions in the handler does,
`server_buy` and the other commits change database and session and write the
reply, `Log` appends the line and counts `result_index`.  `writeToResult` keeps
the last line only; that the lines before it were right is what the refinement
says step by step.  A reply is one flag, since the client's only use of it is
to wait for it.

Clients send one command at a time.  A client may die with a reply unread; the
kernel then resets the connection, the server's next `read` returns -1, and the
loop `while (read(...))` handles the zeroed buffer as an unknown word
(`ReadError`).  `main` ignores SIGPIPE, so the write to such a connection fails
and changes nothing.

An identity number is ten numbers, so `check_ID` computes the real check digit.
`letter_y` (server) and `LetterNumber` (checker) are translated separately
because the two programs compute the letter's value differently.  `city_num`
keeps the first decimal digit only, as `city[0] - '0'` does.  A store that is
not found leaves the loop of `server_buy` with neither reply nor result
(`Silent`).

`MaskChecker` is the strict reading of `check_1` and `check_2`: the checker
tolerates a stale `show` or `statics` in a window between two lines of a
client, the module does not.  Under the refinement mapping a line counts when
its handler commits (`Judged`).

Assumed: at most thirty connections (the array `thread`), cities numbered from
1 to 9 in the inventory, a week day from 1 to 7 on the command line.

### MaskShutdown and InventorySort

`exit_handler` closes the listening socket, writes `writeToResult` to
`result.txt` and closes the stream, takes the mutex, sorts and prints the
inventory, releases and destroys the mutex, and *returns*; the process ends
because `accept` then fails in `main`.  Each of these is a step, and the sort is
one step per comparison (`InventorySort`), with workers between the steps.

Linux prefers the main thread for a signal sent to the process, unless `main` is
in the handler, in which SIGINT is blocked for that thread only (POSIX would
allow any thread, and then already the first SIGINT could find a worker that
holds the mutex); a second Ctrl-C then interrupts a
worker wherever it is (`Deliver`), and that worker does not go on until its
handler returns.  `Acquire` is `pthread_mutex_lock` as glibc has it for a default
mutex: no error and no way out for the owner who locks again, `EINVAL`, which
the code ignores, once the mutex is destroyed.

From then on a worker that still runs handles its command without exclusion, so
what the mutex made one step is taken apart: a purchase checks the stock
(`Handle`), loads the count (`Load`) and stores it one lower (`Sell`); the line of
log is first put together in a string of its own (`Log`) and then moved to
`writeToResult` (`Assign`).  Two workers without the mutex can take the same
mask, the sort of a second handler can zero a row between check and sale, and a
line can get lost: all of this is reachable in the model.  While two workers are
at the string at once the build may also free it twice (`Clashes`): the log is
then `Torn`, or the process killed.  The handler reads the string without the
mutex too: if a worker is assigning to it, or another handler writes the same
stream, the write may produce anything or kill the process (`Races`).

A row of `InventorySort` is the city's number, its masks (a + b + c in one
number) and the sum.  `Swapped` follows the code: `bubble_tmp` never had the
three counts, so the upper row keeps its counts, and the lower row gets zeros,
while numbers, names and sums are exchanged.  The table printed is still right
for a first sort, because it shows sums; the rows are scrambled for
everything after it.  A command is a purchase of one mask, which names a row as
`server_buy` does, or a command that sells nothing: what the commands do in full
is in `MaskServer`.

`city_sort` is the checker's: it prints the cities after its replay by
descending sum with `std::sort`, which promises no order of equal cities, so it
is a predicate on tables.

### Calculator

`c` is the buffer of keys, which `=` does not empty.  `convert` makes pairs of
operand and operator, the operand through a `char` (`stored`; the makefile's
compiler is for ARM, where `char` is unsigned, so operands up to 207 survive).
`step` is one turn of the two nested loops of `calculator`: the running product
takes the operand; unless another `*` or `/` follows, the sum takes the product.
The display is four digits that may be blank or a minus sign; `print_positive`
reads decimal digits as hexadecimal, `print_negative` sets digit by digit and
does nothing from -1000 down.  `print_led` builds the binary digits as a decimal
number with an `int` power of ten.  A division by zero ends the process.

The loops over the buffer are recursive functions of the keys so far: `convert`
takes one character (`take`), `calculator` one pair (`step`), `binaryNumber` one
bit.  The reference goes the other way and follows the grammar: `Value` splits an
expression at its last `+` or `-`, `Term` what is between them at its last `*` or
`/`, and `Number` is the decimal number.  `MaxKeys` is at most 10: the pairs of
ten keys fill `c_new[20]`, and no number that nine keys can spell or multiply
leaves an `int`, so the unbounded integers of the module are those of the code.

### SegDriver

`my_write` and `my_read` are the driver's calls as `writer.cpp` and `reader.cpp` make
them.  The stream is the sequence of digits sent, seven bytes each; `update`
receives any number of bytes up to seven and lights that many segments from the
first on.  `sigint_handler` closes device and socket at any moment and returns;
the loop then fails on its next call.

### Bank

`account += amount` is a load and a store.  `P_Interrupted` is a waiting `semop`
that returns -1: on Linux it is never restarted, neither after a handler (the
SIGINT handler of this server does not exit) nor after stop and continue.
`money` ignores the result and later calls `V` all the same.  `Restart` is
`kill -9` and a new start: the semaphore stays in the kernel with its value
until `main` calls `semctl(SETVAL)`.  The accept loop is not modelled: all clients
are connected when the server starts, and again after a restart.  `owner` and `balance` are history
variables.

### GuessGame

Every access to the segment is a step.  `timer_handler` reads `resu` up to
three times (`Is2`, `Is3`, `Is1`), moves `guess` and sends SIGUSR1; `handler`
reads `guess` up to three times and writes `resu`.  A second SIGUSR1 merges with
a pending one.  Each behaviour is a `timely` one, in which the tick waits until
game has answered, which is what one second of CPU time normally gives, or one
in which the two run freely (`Schedules`).
`Uppers` starts at 2: with an upper bound of 1 the first guess would be 0.
The model starts once both programs have attached the segment and does not
model that neither of them ever removes it (`shmdt` only).

### MaskKiosk

One action per key of the menu; what is keyed in before `#` is one choice.  The
keypad has the digits, A to D and `*`, and the program takes each of them for
every place of a number or a count: it computes with `key - '0'`, which is 17 to
20 for the letters and -6 for `*`.  A number is therefore ten keys of any kind
(`Keys`), `letter` is 0 for a first key that is no letter, and `Rem` is C's `%`, whose
sign is that of the dividend.  `print_7seg` goes through a decimal number as the
code does: for four digits that gives one on each place, but A00000D009, which
is accepted on odd days, gives 0x20009.  A count of `*` gives masks to the shop.
A purchase has two steps, because `fopen(..., "w")` empties `inventory.txt` before
the counts are written and the board can be switched off in between.
`ifboughtfn` looks at `login_n - 1` rows of a table of `Rows` (10) rows that
wraps around; once that is more than the table holds, the bytes behind it may
look like any number, so the result is a choice.  `paid` and `earlier` are
history variables.  Left out: the statistics key (it prints), the LCD, shops whose
keys index outside the table (a number 0 or a letter that is none), entries
longer than the buffers.

### ForkServer

Process slots run `main`, `childfunc` or `sl`.  `open[c]` is the set of processes
that hold a descriptor of a connection; the client sees the end when it is
empty.  SIGCHLD is one bit per process; the handler's `waitpid` loop is one
step per child, with children ending in between.  A child whose `execl` fails
returns into the accept loop with its output still connected.  When all slots
are taken `fork` fails and the server exits; its children go to init.  `nosl`
says whether `execl` may fail in this run at all.

## 3. Runs

| Run | Shows | Bounds, and why they suffice |
|---|---|---|
| `sessions` | `TypeOK`, `OncePerWeek`, `NoOversell`, `CheckerAccepts` | two connections, two numbers (even and odd), three commands each, start on day 6 or 7: both may be logged in with one number, two purchases cross the turn of the week, and the shop holds masks for one purchase of the order only |
| `commands` | `BuyListPaid`, `CheckerAccepts` | two connections, two commands each out of ten: two numbers, five orders (one good, four refused for different reasons), show, statics, logout |
| `answers` | `Answered`, `WorkerEnds` (liveness) | two connections, two commands each, clients may die with or without a reply pending |
| `tenth_city` | violation of `CheckerAccepts` | one connection, a store with nine cities |
| `bank` | `TypeOK`, `Conserved`, `CrowdBounded`, `AllBooked` (liveness) | the three clients of `demo.sh`, two lines each, two interrupted P() calls, one killed server |
| `shutdown` | `TypeOK`, `NoneOversold`, `Ranked`, `CheckerAgrees`, `FirstTable`, `SavedLog`, `Ends` (liveness) | two workers with one command each, out of two cities and a command that sells nothing; three cities, in an inventory that must be exchanged completely and one with equal cities; two SIGINTs: one worker can hold the mutex while the other waits, both a worker and `main` can be in the handler, and both workers can run on without the mutex, to negative counts and a torn log |
| `guess` | `TypeOK`, `Bracket`, `GuessInRange`, `Found` (liveness) | sizes of the range up to 12, odd, even and powers of two, every answer in them, timely and free, Ctrl-C at any moment |
| `kiosk` | `TypeOK`, `OneVisit`, `SegShowsVisitor`, `Synced` | a table of two rows, so that four logins wrap it and read behind it; six purchases, one more than the alcohol lasts; days 2 and 7, so that an odd number is refused for the day or accepted, one with a letter among its digits; a number with a wrong check digit; orders that fit, that empty a shop, for a shop that is not listed, for too many masks and with `*` for a count; one restart at any moment |
| `kiosk_twice` | violation of `BoughtOnce` | |
| `calculator` | `TypeOK`, `AnswerRight`, `DisplayShows`, `LedsShow` | digits 0, 3 and 8 and the four operators, six keys between two clears: three operands with two operators, operands of up to five digits (past a `char`), products beyond 1024, and answers that follow other answers on the display; longer expressions repeat the same turn of the loop |
| `segdriver` | `TypeOK`, `Countdown`, `Drained` (liveness) | countdown from 4, three patterns (21 bytes) in parts of any size, Ctrl-C at any moment: digits are skipped, repeated and cut, and the framing is lost and found |
| `fork` | `TypeOK`, `NoLostChild`, `Reaped`, `Served` (liveness) | three processes and three clients: two children can end while the handler runs, the table can be full, and a child whose `execl` failed serves a client itself |

`sessions` and `commands` use the symmetry of connections; they check safety
only.  The connections are compared and never ordered by the model.

Deadlock is not checked where the system may stop: the kiosk is left with `#`,
the fork server waits in `accept` when no client is left, a stopped server is gone (and one with a second SIGINT
may hang), the calculator reaches its bound of keys or divides by zero, the
reader of lab 4 returns.  In all other runs the end of the work is the explicit
stuttering step `Quiet` or `Over`, so a deadlock would be reported.

What some of the properties say:

* `CheckerAccepts` is a refinement: whatever the interleaving, commands take
  effect one at a time and in the order of their lines, and each line holds the
  result that the checker's database gives.
* `BuyListPaid`: `buied_ID` has 100000 rows and no bounds check.  A row costs two
  lines of log (a login, then a logout or a purchase), so the array can only
  overflow after 200000 commands in a week, and not before.
* `CrowdBounded`: a failed P() leaves the semaphore one too large for good, and
  after *k* failures at most *k* + 1 threads are in the section.
* `GuessInRange` holds without any assumption on timing: late or lost answers
  make the game wrong but never send `guess` out of the range.
* `FirstTable`: the handler prints under the mutex, so no worker is between a
  sale and its line; replaying the log at that moment gives the table.
  `CheckerAgrees` relates the table to the *file*, and holds only for a server
  that is stopped after its clients are done, as `checker.cpp` asks its user to
  ("Please stop the server, and press enter."): otherwise lines can be logged
  between the write of the file and the sort.
* `NoneOversold`: until `exit_handler` destroys the mutex no count is negative.
  It takes the mutex around check, load and store, in the workers and around the
  sort of the first handler; after the destruction it is false, and says nothing.
* `SavedLog`: what workers do to the log without the mutex comes after the file is
  written, and after the lines that are in it.
* `Ends`: one SIGINT ends the server whatever the workers do, including those
  that wait for the mutex as it is destroyed.  It says nothing of a second
  SIGINT, and could not: delivered to a worker that holds the mutex, the handler
  waits for its own thread and the process hangs once `main` waits for it too.
* `AnswerRight` compares the one-pass evaluator with a recursive definition of
  ordinary precedence (`Value`), for the *first* expression since the last clear: `=` does
  not reset the buffer, so later keys do not change the answer.
* `Countdown`: without a lock digits may be skipped or repeated, never come back,
  and whenever `recv` returns one whole pattern the display shows exactly the
  digit sent.
* `SegShowsVisitor`: the display is dark unless an accepted visitor is logged in,
  and then shows what `print_7seg` makes of his number; if the last four keys are
  digits, these digits.
* `Synced` is about the time after the first show.  A purchase before it, or the
  switch between emptying and writing the file, loses the inventory, to the
  program as to the file.
* `OneVisit`: an accepted number that bought never buys in a later visit,
  though the table forgets its row after ten logins; it holds because from then
  on the visitor's own row is among those searched, and everybody is refused.

### Fairness

* `MaskServer!FairSpec`: weak fairness of every worker and of a client's receive.
  Threads of one process are scheduled fairly, and the mutex is released after
  a bounded number of steps; weak fairness of `mask_server(t)` is enough in the
  run because every client sends a bounded number of commands, so nobody can
  take the mutex for ever.  Sending, closing and dying are not fair.
* `Bank!FairSpec`: weak fairness of every thread.  Interruptions and crashes are
  never required to happen.
* `GuessGame!FairSpec`: the interval timer keeps expiring, since the guesser
  spins in `while (1)`, a sent signal is delivered, and nobody presses Ctrl-C.
* `MaskShutdown!FairSpec`: every thread is scheduled, in its handler or not, the
  kernel delivers a pending signal and `accept` returns.  The clients send a
  bounded number of commands, so a handler that waits for the mutex gets it.
* `SegDriver!FairSpec`: the reader's loop runs and `seg.py` polls every 100 ms.
  The writer need not run.
* `ForkServer!FairSpec`: every process is scheduled, `sl` ends, a pending signal
  is delivered, and the kernel reports the end of a connection.

### Findings

* `tenth_city`: the server reads the tenth city of a store as city 1 and sells;
  the checker expects `Buy failed.`  hw2's client asks for the city after the
  last one on purpose, so a store with nine cities is enough.
* `kiosk_twice`: refusing the second purchase of a visit resets `buy_n`, so the
  third try succeeds.

Some more behaviours of the models are worth knowing, though no run is about
them.  An order for a store that is neither in the inventory nor `XXX` leaves
`server_buy` without a reply and its line of log without result or newline
(`Silent`); the clients in the repository use `XXX`.  At the kiosk `inOut` is set
before the number is checked and never taken back, so a refused visitor who
presses 3 can buy; `OneVisit` and `SegShowsVisitor` are about accepted numbers.
And the shutdown of hw3 is orderly only up to its end: workers that still run
after the mutex is destroyed may sell masks that are gone and lose lines of the
log, and a second SIGINT may hang the server or print a second table from
scrambled counts.

## 4. Proofs

All theorems hold for every value of the constants that satisfies the named
ASSUMEs of the modules.  Every inductive invariant was checked by TLC on the
run's instance before it was proved.

* **`MaskServerProofs`.**  `TypeCorrect`, `MutualExclusion`, `BuyersOncePerWeek`,
  `StockSuffices`.  None of the properties is inductive alone: that a purchase
  is the first of its number needs to know that what a worker decided is still
  true when it commits.  `IInv` adds
  `Exclusion` (the mutex owner and nobody else is inside), `Decided` (between
  decide and commit the line is the one that would be decided now; preserved
  by the steps of others because, by `Exclusion`, they are outside), `Listed`
  (numbers that bought are on the list) and `Sessions`.  One lemma per group of
  actions shows that `IInv` is preserved.
  `RowsPaid` counts: a login opens a session and costs a line, a row of
  `buied_ID` closes a session and costs another, so twice the rows plus the open
  sessions never exceed the lines written or about to be (`PaidStep`).  That a
  decided row belongs to an open session is `SessionDecided`, from `Decided`;
  the cardinalities move by one in a step (`CountConn`).
* **`MaskServerProofs`**, the refinement.  `LogAccepted`: under `KnownOrders` (the stores are
  known or `XXX`, the city has one digit; `tenth_city` and the silent end of
  `server_buy` show that neither can be dropped) every step of the server is a step of the checker or a stutter:
  a commit maps to the checker's line, everything else stutters.  It rests on
  `IInv`, on `Numbered`, and on `CheckDigitsAgree`: the server's and the
  checker's check of an identity number agree on all letters.
* **`MaskShutdownProofs`**, the sort.  `SortRight`: the table is sorted, complete,
  and stable
  (cities with equally many masks stay in the order of the file), for any number
  of cities and any inventory.  `SortInv` is the invariant of a bubble sort, rows
  from `toIndex` on settled and the row at `j` the least so far (`Passes`), plus
  that every city has one row with its own sum (`OneRowEach`, `SumsMatch`); the
  lemma `SwappedKeeps` shows that the exchange, though it loses the counts, keeps
  all of it.  `Numbered` adds that the rows start in the order of their numbers,
  which stability needs.  `SortSpec` is one call of `server_sort` under the mutex,
  which is how the first handler runs it.
* **`MaskShutdownProofs`**, the shutdown.  `ShutdownTyped`, `SoldInStock`,
  `FirstTableRight`, `LogSaved` and `CheckerSatisfied`, for any number of workers, cities, commands
  and SIGINTs.  They follow from one inductive invariant, `ShutdownInv`:
  - `Boxes`, `AllListed` and `InRange` are what the types need: what a worker has
    in its buffer at each place, a row for every city, and a sort that stays
    inside the rows, for every sort and not only the first (`ShapedStep`).
  - `Guarded`: until the mutex is destroyed its owner is the one thread inside,
    a worker between lock and unlock or a handler that sorts, and no thread is
    both, although a handler may run on a worker's thread (`GuardedStep`).
  - `Steady`: until then, what a worker has checked, loaded and put together is
    still so when it uses it (`Fresh`): the row it sells from has stock, the count
    it loaded is the row's, and the string it moves is the log with its line.
    `NoneOversold` follows in the step of `Sell`; it cannot be proved without
    `Guarded`, which keeps the others away in between.
  - `Early`: until a table is printed the mutex is not destroyed, and a row's stock
    is the inventory less the lines in the log and less a sale on its way there
    (`Stocked`).  When the sort begins nobody is on the way, by `Guarded`, so its
    totals are the replay of the log, and stay so because no worker is inside
    until the table is printed (`WorkerEarly`, `HandlerEarly`).  The proof of
    the sort above then gives the order of the table (`FirstStep`).
  - `Signalled`: the first SIGINT goes to `main` before anything is saved, and
    from then on the socket is closed or about to be.  With it the file is
    written once, from a log that had all earlier lines (`SavedStep`).  `Continued` says the same of
    a log that a worker is about to assign: it begins with what is saved, also
    when workers overwrite each other's lines.
  - `Frozen`: if all commands were done at the first SIGINT no worker can take
    another step (`NobodyWorks`), so the log that was saved and the log beside the
    table are the same.
  `Ranked` for *every* table of the shutdown is model-checked only, with two
  SIGINTs: from the third on, two handlers may sort at once after the mutex is
  destroyed, each with local variables of its own, and the model has one set.
  The theorems about the first table do not depend on that: it is printed under
  the mutex.
* **`SegDriverProofs`.**  `SegTyped` and `CountsDown`, for every first digit and
  number of patterns.  `SegInv` has the reader's turns (`Turns`), the digits in
  kernel buffer, reader and stream in the order of the countdown (`Ordered`), and
  `Shown`: after a `recv` of seven bytes that ends at a multiple of seven the
  segments are the pattern sent last in full.  The rest is arithmetic of frames
  (`FrameNumbers`, `WholePattern`) and that no two of the ten patterns are alike
  and none is dark (`PatternsDiffer`).
* **`BankProofs`.**  `BankTyped`; `AccountConserved`.  `BankInv` adds `Locked` (semaphore 1 and
  nobody inside, or 0 and one) and `Loaded` (what the thread inside loaded is
  still the account), both for the time in which no P() has failed.
  `CrowdLimited` needs an equation where `CrowdBounded` is an inequality:
  `Tickets`, value of the semaphore plus threads inside is one plus the
  interrupted calls.
* **`GuessGameProofs`.**  `GuessTyped` and `AlwaysInRange` without timing assumptions;
  `NeverExcluded` for timely games, with `Turns`: while one program works the
  other is idle, and the comparisons `handler` has made are still true.
* **`MaskKioskProofs`.**  `OneVisitOnly`, for any number of rows.  `KioskInv`
  follows the table: while it has not wrapped, the row of a number that bought
  lies below the visitor's (`Kept`, `Filling`); afterwards the visitor's own row
  is searched (`Visitor`).  `KioskTyped`, `DisplayRight` and `FileSynced` go
  together in `DeskInv`, which adds that the file holds counts (`Stored`) also
  while it is written: what a restart reads is then again a well-formed stock.
  They hold for whatever keys the numbers and orders are made of; that the
  decimal detour of `print_7seg` gives back four digits is arithmetic (`FourDigits`).
* **`ForkServerProofs`.**  `ForkTyped`; `ChildrenRemembered`; `HasParent` says that a zombie
  has a parent other than itself, which is alive as long as it is the parent.

* **`CalculatorProofs`.**  `OnePassRight`, `TypeCorrect`, `AnswersRight`,
  `DisplayRight` and `LedsRight`.  What they need that no other module does is
  induction over data.  The library's induction and recursion theorems take an
  operator as a parameter, which the provers cannot instantiate, so the module
  states its own for *sets* and *functions*, from the library's theorems that `<`
  is well founded on the naturals and that a well-founded set has minimal
  elements:
  - Toolkit: a set closed under the step is everything (`NatSetInduction`, by a
    measure `MeasureInduction`, by keys `SeqInduction`), and an equation whose
    right side looks at smaller arguments only has a solution
    (`RecursionExists`, `SeqRecursion`).  With it each of `convert`, `calculator`,
    `binaryNumber`, `Number`, `Term` and `Value` satisfies its equation and has
    its type.
  - `OnePassRight`, for key sequences of *any* length.  The evaluator works from
    the front, the reference splits at the back; `InStep` connects them after
    every key before the first `=`: the register `first` is the value before the
    last `+` or `-`, `second` the value of the term since then up to its last `*`
    or `/`, the two operators are the ones found there, and `tmp` is the number
    since the last operator.  `Finished` takes over at the first `=` and says
    that nothing typed later changes the answer.
  - `AnswersRight` adds `AnswerInv`: behind an `=` the LCD has the evaluation of
    the whole buffer, and it did not trap.
  - `DisplayRight` (`DisplayInv`) and `LedsRight` (`LedsInv`) are about the answer
    whatever it is: four decimal digits give the number back, each of the three
    cases of a negative one sets all four digits, and the decimal digits of
    `binaryNumber` are the binary ones of its argument.
  `TypeOK`, `AnswerRight`, `DisplayShows` and `LedsShow` are proved for every set of
  keys and every `MaxKeys` that `MaxKeysAssumption` allows.

Only model-checked: all liveness (`Answered`, `WorkerEnds`, `Ends`, `AllBooked`,
`Found`, `Reaped`, `Served`, `Drained`), which is out of reach of the prover, and
`Ranked` for every table of a shutdown, for the reason given above.

## 5. Not modelled

* `hw2/server.cpp` as a program of its own: its handlers are those of hw3 line for
  line with `Capacity` = 50, and `MaskServer` is translated from hw3.  Its
  `exit_handler` destroys the mutex without taking it and does not sort.
* The calculator's arrays: eleven operator keys between two clears write past
  `c_new`, twenty keys past `c`.  The echo of keys on the LCD is left out.
* The byte stream between client and server.  A purchase is answered with three
  writes and the client reads fixed lengths; a short read would shift the
  replies.  The model sends whole messages.
* The checker's tolerance window and its printing of errors.
* The lab 7 demos show one system call each;
  `sockop.c` opens sockets; boot loader, kernel tree, driver archives and slides
  are third-party.

## 6. Plan

Done, in this order: mask server and checker with refinement and proofs, bank,
number game, kiosk, fork server; sort and shutdown of the mask server,
calculator, seven-segment driver.

Proved since: the types of every module, `BuyListPaid`, `CrowdBounded`,
`SegShowsVisitor`, `Synced`, `NoneOversold`, `FirstTable`, `SavedLog`, `CheckerAgrees`, `Countdown`,
and the calculator's `AnswerRight`, `DisplayShows` and `LedsShow`.  With these every
invariant that a run checks is stated by a theorem, `Ranked` for one call of the
sort.

Worth doing next: local variables of its own for each handler that sorts, so that
more than two SIGINTs can be studied, and action properties of the shutdown (the
first table and a saved file never change).
