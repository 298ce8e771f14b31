# A verification of the aesd character device and socket server

The repository holds the assignments of a course on embedded Linux. Two of its
programs carry most of the logic that is hard to get right: the kernel module
`src/aesd-char-driver`, a character device that remembers the last ten lines
written to it, and the server `src/server/aesdsocket.c`, which writes what its
clients send to that device, or in another build to a regular file, and sends
the contents back. The earlier assignments are smaller: threads on a mutex,
`fork` and `exec`, and a test that writes and counts files. This directory
models them all, checks the models with TLC, and proves the invariants the rest
depends on with TLAPS.

## 1. Inventory

| Part | State | Operations | Status |
|---|---|---|---|
| circular buffer (`aesd-circular-buffer.c/.h`) | 10 slots of pointer and size, `in_offs`, `out_offs`, `full` | `init`, `add_entry`, `find_entry_offset_for_fpos` | modelled, proved |
| driver (`aesd-char-driver/main.c`) | the buffer, `partial_write_buff`, `bytes_stored`, `buff_lock`, `f_pos` of each file, kernel memory | load, unload, `open`, `release`, `read`, `write`, `llseek`, `ioctl` | modelled, safety proved |
| server (`server/aesdsocket.c`) | the list of threads, `is_done`, `g_exit_flag`, `g_write_mutex`, the descriptors of the process, a packet buffer per thread | accept loop, connection thread, signal handler, shutdown | modelled, safety proved |
| timestamp timer and data file (same file, without `USE_AESD_CHAR_DEVICE`) | `/var/tmp/aesdsocketdata`, a POSIX timer | `timer_init`, `insert_timestamp`, `cleanup` | modelled, safety proved |
| threading example (`examples/threading`) | a mutex of the caller, the data of each thread | start, wait, obtain, wait, release | modelled, safety proved |
| system call examples (`examples/systemcalls`) | processes, descriptors, stdio's buffer | `do_system`, `do_exec`, `do_exec_redirect` | modelled, proved |
| finder application (`finder-app`) | the files of a directory | `writer.c`, `finder.sh`, `finder-test.sh` | modelled except `writer.sh`, proved |
| `server/queue.h` | a linked list | BSD list macros | partly: those the server uses (`SLIST_INSERT_HEAD`, `SLIST_REMOVE`, `SLIST_FOREACH_SAFE`) are sequence operations in `AesdSocket` |
| load, start, build and test scripts; `autotest-validate` | | | no logic of their own |

**How they interact.** A thread of the server per connection calls `open`,
`write`, `read` and `ioctl` on `/dev/aesdchar`. The driver serialises `read`,
`write`, `ioctl` and the size computation of `llseek` with `buff_lock`; VFS
hands `read` and `write` a copy of `f_pos` and stores it back. The driver calls
the circular buffer under that lock and owns the memory its entries point to:
`add_entry` hands back the memory of the entry it pushes out, which the driver
frees. In the server the main thread shares with the
connection threads the list entries (a thread writes `is_done`, main reads it
and frees), and all share one table of descriptors, from which the kernel always
gives out the lowest number that is free.

**What is hard.**

* *Boundaries.* `in_offs = out_offs` both when the buffer is empty and when it
  is full; the search stops at the slot where, in a full buffer, it started.
* *Failure half-way.* `aesd_write` may have stored some commands of a packet
  when memory runs out; it has several early returns, each of which must release
  the mutex; the partial buffer grows before the copy that may fail.
* *Positions that move.* A position counts from the oldest command; each
  overwrite shifts it for every reader.
* *Descriptor numbers.* `my_file_read` is closed twice and a client's socket is
  closed again by main, while other threads open files.
* *The end.* The signal handler shuts the listening socket down and sets a flag,
  in this order, on whatever thread; `pthread_join` waits for threads that wait
  for clients.
* *Announced too early.* `is_done` is set before the entry is used for the last
  time.
* *Signals.* SIGALRM runs the timestamp handler, which locks a mutex, on any
  thread, also on the one that holds it.
* *Packets in pieces.* The packet buffer is extended before it is known how much
  comes next.
* *A thread or a child that fails half-way* takes a mutex with it, leaves a
  descriptor open, or writes out bytes it has inherited.

`PROJECT.json` lists each of these hazards at its line, with the property that
is aimed at it, or with the reason why none is: mostly that what could be asked for
is false, and is reached by the model.

**What makes each part correct.**

* The circular buffer is a queue of the N most recent entries; its indices and
  flag agree with what the slots hold; the search finds what a concatenation of
  the entries would have at that position.
* The driver is a *line device*: writes are atomic, bytes are cut into commands
  at newlines, the N most recent can be read back, a failed write loses or
  repeats nothing. Its memory is exact. Every call returns.
* The server's list entries outlive their threads; a client is answered with the
  contents of the device, with the client's own line; a long packet fits its buffer
  in whatever pieces it comes; after a signal the process ends.
* On a regular file a timestamp spoils no answer, its handler returns, and when
  main has returned no byte of a client is left.
* A thread of the threading example returns, with the mutex released, or says that
  it failed; its data is allocated from its start to its join and no longer, and a
  start that fails leaves none.
* `do_exec` and its relatives return true exactly for a command that exited with 0.
* The finder test's verdict is about the files its run wrote.

## 2. Modules

```
RecentEntries <--implements-- CircularBuffer --extends--> AesdCircularBuffer
                                                               ^
LineDevice    <--implements-- AesdChar -------extends----------/
    ^                            ^
    | instance                   MCAesdChar
AesdSocket <-- MCAesdSocket

DataFile <-- MCDataFile        Threading        SystemCalls        FinderTest
```

Each of these but the abstract ones and the MC modules has its theorems in a module
`<name>_proofs` that extends it; `CircularBuffer_proofs` and `AesdChar_proofs` also
extend `AesdCircularBuffer_proofs`, the lemmas about the operators they share.

* **AesdCircularBuffer**: `struct aesd_circular_buffer` as a record, its
  functions as operators. `FindEntryOffsetForFpos` states what the search loop
  returns; the sum `current_offset` of the loop is the function `CurrentOffset`,
  the exit condition is in `Reached`.
* **CircularBuffer**: the buffer under arbitrary additions, each with the
  memory it hands back (`overwritten`). Its abstract specification is
  **RecentEntries**, a bounded queue.
* **AesdChar**: the driver. A system call of a thread is a sequence of steps
  (`pc`). `BeginWrite` is the call, `MutexLock` the wait for `buff_lock`,
  `AllocFails`/`StoreBytes` the part of `aesd_write` up to `bytes_stored +=
  count`, `ExtractCommand`/`ExtractFails` one turn of its loop over newlines,
  `FinishWrite` its end with the unlock, `Return` what VFS does with `f_pos`.
  The loop of `aesd_write` takes several steps, so that whatever does not need
  the mutex may come in between. `aesd_read` and the ioctl run from lock to
  unlock in one step, since all they touch is under the mutex. `aesd_llseek`
  takes two: the size under the mutex, the position after it. Kernel memory is
  the function `mem` from blocks to bytes: `kmalloc`, `krealloc` and `kfree`
  take and free blocks, `krealloc` may move or not, each may fail. Bytes that
  nobody has written are `UNINIT`.
* **LineDevice**: what `/dev/aesdchar` promises. `AesdChar` implements it with
  the mapping `lines`, `tail`, `ok` to the history variable `view`, which a write
  updates when it unlocks; `WritesAreAtomic` says that `view` is what the
  data structures hold whenever a thread gets the mutex.
* **AesdSocket**: the server, on an instance of `LineDevice` in the place of the
  driver. Main goes through `start`, `top` (malloc of an entry), `accept`,
  `create`, `reap` (one turn of `SLIST_FOREACH_SAFE` per step), `exit`, `join`,
  `done`; a connection thread through `open`, `loop`, `recv`, `lock`, `write`,
  `openr`, `readback`, `close`, `finish`, `wrap`, `closec`, `dead`, or by `ioctl`
  and `seekread` for a seek command, and by `extend` after a piece without newline. `fds` says what each descriptor refers to:
  `Descriptor` takes the lowest free one, `Close` closes what a number refers to *now*, whoever
  opened it. `Unlink` is `SLIST_REMOVE`. The handler takes two steps, `SignalShutdown` and
  `SignalFlag`. `Faults` is the set of calls that may fail for outside reasons.
  `packet` is what has been received and `capacity` the size of the block that
  holds it: `Loop` allocates `BufferSize`, `RecvFrom` stores what has come whether
  there is room or not, `Extend` is the `realloc`, a step of its own behind it. A packet
  may outgrow its block; then the next call of the allocator (the `realloc`, the
  report of a malformed seek, the `free`) may end the process (`HeapAbort`) or not.
  `Malformed` is a complete seek without arguments, with which the loop goes on as it
  is. `Sigpipe` ends the process at a `send`, and at a `write` whose number has become
  a socket. `Parsed` is what `sscanf` may read: after a malformed
  seek, anything, since no null byte ends the packet.
* **DataFile**: the build on a regular file. `handler[t]` is where
  `insert_timestamp` is on the thread `t`; a thread steps only while no handler
  has interrupted it (`At`), and the handler locks the mutex as the thread it
  runs on. `Alarm` may hit any thread that is alive and not in the handler. The
  file is a sequence of bytes: `Overwritten` is a write at position 0 without
  `O_APPEND` or `O_TRUNC`, `Stamped` one with `O_APPEND`. `RemoveFile` and
  `DeleteTimer` are `cleanup`; `Sigpipe` ends the process at a `send`, wherever the
  other threads are and without `cleanup`. `Leftovers` is what such a process may have
  left for this one to find. What does not differ from the other build
  (descriptors, the thread list, pieces of packets) is left to `AesdSocket`.
  The server's Makefile passes `-DUSE_AESD_CHAR_DEVICE=0` when asked for this
  build, which `#ifdef` takes for the other one; it is the build of a compiler
  called without the macro.
* **Threading**: one action per return or step of `threadfunc`, and one per call in
  `start_thread_obtaining_mutex`: `Malloc`, `Create`, then `ReturnTrue` or, when no
  thread was created, `FreeAndReturnFalse`. `starting` is the thread whose start is
  under way, which may have returned before its start does. `pass_data[t]` is the
  block it was given, a pointer that no `free` clears, and `mem` the flag in each
  block; `malloc` takes any free one. `mutex` is the thread that holds
  `*thread_mutex`. `Join` is the caller's, as `threading.h:6-8` asks of it.
* **SystemCalls**: one parent that makes calls one after the other (`at` is where
  it is in the call under way) and a child per call. `inherited` are the children
  with a copy of bytes the parent's stdio had not written at the `fork`.
* **FinderTest**: the script as a loop over files, with `writer.c` as `Writer`,
  `finder.sh` as `Finder` and the comparison as `Matches`. A run may end early
  and another begin.
* **MCAesdChar**, **MCAesdSocket**, **MCDataFile**: small values of the constants for TLC.
* **AesdCircularBuffer_proofs**, **CircularBuffer_proofs**, **AesdChar_proofs**,
  **AesdSocket_proofs**, **DataFile_proofs**, **Threading_proofs**,
  **SystemCalls_proofs**, **FinderTest_proofs**: the invariants, lemmas and theorems
  (section 5).

The definitions named "Mutant of X" are variants of X with a plausible mistake
in them. No specification uses them; each shows that a property would notice.

### Abstractions

* Bytes are two symbols and a newline; the prefix `AESDCHAR_IOCSEEKTO:` is one
  symbol and what `sscanf` reads from `X,Y` is one symbol, a pair.
* A block of size 0 (`krealloc` with a count of 0 on an empty buffer) is a block
  with no bytes.
* One turn of the read-back loop, a `read` of the device and a `send`, is one
  step: between the two the thread shares nothing with the others.
* Linux reserves the descriptor of an `accept` before it waits, which matters for
  which numbers the other threads get; the model does so too.
* A client connects at most once, sends at most `MaxChunks` pieces and may close
  at any time (`RecvEnds`).
* Debug output, log messages, device numbers and addresses are left out.
* The history variables (`stream`, `view`, `leaked` in the driver; `resp`,
  `from`, `answered`, `overrun`, `stray` in the server; `resp`,
  `answered`, `overwritten`, `late` in the data file; `written` in the finder
  test) are read by no guard.
* When a packet has outgrown its block the bytes stored are taken to be intact
  unless the process ends; a neighbour's data is not modelled.
* The locks inside `localtime`, `strftime` and `syslog` are glibc's and left out:
  the handler calls the first two, and main the last.

## 3. Runs

| Run | Instance | What it shows |
|---|---|---|
| `circular_buffer` | 3 slots, 3 pointers, sizes 0 to 2 | `IndicesAgree`, `FindIsConcatenation`, implements `RecentEntries` |
| `driver_contents` | 2 threads, 1 file they share, 2 slots, 4 blocks, 2 writes of packets of every kind, reads of 2 bytes, llseeks and seeks inside and outside, 2 loads, every failure | `HeapExact`, `Framing`, `StreamConserved`, `LockDiscipline`, `WritesAreAtomic`, `ReadReturnsContents`, `SeekLands`, `LlseekSizeIsContents`, implements `LineDevice` |
| `driver_calls_return` | 2 threads, every call, 1 slot, fairness | `CallsReturn` |
| `server_requests` | 2 clients, 2 slots, up to 2 pieces of a client: a line, two lines at once, seeks in pieces and malformed; every fault, 7 descriptors | `EntriesOutliveThreads`, `AllJoined`, `LongPacketsFit`, `AnswerIsContents` |
| `server_reuse` | 3 clients, 1 slot, 6 descriptors, failing `pthread_create`, `send` and SIGPIPE | `EntriesOutliveThreads` with a list of three, while descriptor numbers are reused |
| `server_shutdown_cooperative` | 2 clients, one signal, 5 descriptors, writes and `pthread_create` that fail, fairness | `AllJoined`, and `ShutdownCompletes` when clients send or close |
| `data_file` | 2 clients with lines of different length, no file or one left behind, 2 expirations on any of 3 threads, a signal, every fault, fairness | `HandlersReturn`, `AnswerIsFile`, `FileRemoved` |
| `threading` | 3 threads, 3 blocks, every fault, fairness | `HolderAccountable`, `DataExact`, `StartedThreadsReturn` |
| `system_calls` | 3 calls of any function, every fault | `TrueIffExecuted`, `OutputIsCommands` |
| `finder_test` | runs of up to 4 files, every fault and interrupts | `SuccessMeansWritten`, `FailureMeansMissing` |
| `server_line_unanswered` | 2 clients, one line each | *violated*: a second `close` hits another connection |
| `server_exits` | 2 clients, 5 descriptors | *violated*: main leaves its loop without a signal |

**The bounds.** Ten slots are two or three: the code treats the number as a
parameter, and with three slots there is a first, a middle and a last one, full
and not full, wrapped and not. Two writes of up to two commands each fill two slots, overwrite
one or both and leave a read or a seek the slot behind the wrap; packets hold none,
one or two newlines and bytes after the last or none at all, so that a command is
split over writes and a write holds several. Four blocks are enough for two stored
commands, a partial buffer and an allocation in progress, and when they run out,
as they do after a leak of the first load, allocation fails; it may also fail at any
time. Two loads show what unloading leaves to the next. Two threads are every ordering of a pair on a mutex that
treats all alike. A block of the packet buffer of two bytes, and pieces of one
or two, make a packet grow in full pieces, which always fit, and in smaller ones, with
which it outgrows its block with and without a newline in it. In the server two
clients compete for the mutex, the device and the list. In `server_requests` a packet
of two lines fills both slots, so that one client's write, between the unlock of the
other and its last read, may add a line to the answer or push one out of it, which
sets `overrun`. The third client in
`server_reuse` is what it takes to unlink from the middle of the list, and the one whose
descriptor is closed while the second reads. Of two connections at a time eight
descriptors are in use at most: with five to seven `open` and `accept` fail at some
point for want of one, with eight they never do. Signals come in `server_shutdown_cooperative`,
at any moment of two connections; the other runs of the server leave its loop by faults and
descriptors.
On the data file the timer expires twice, so that one handler can wait for another
or for a connection while a third thread goes on; two lines of different length
leave a piece of the longer under the shorter, and the shorter a piece of a file left
behind. Three threads on the mutex of the
threading example are one that holds, one that waits, and one that has failed; three
blocks let all of them run, and a block that has been freed go to a later start.
Calls of the system call example share nothing but the parent's descriptors and
stdio, so that three of them show what one leaves to the next. Four files make
every mixture of whole, partial and missing ones, next to those of a longer run
before.
A second signal repeats assignments, so that `MaxSignals` is at most one.
`CHECK_DEADLOCK FALSE` is set where the system may stop: when the module is
unloaded for good, the bounds are used up, or the program has ended.
Symmetry is used in safety runs only, over threads, blocks and clients.

**Fairness.** `FairSpec` of the driver: a thread in a system call goes on (weak
fairness of `Step`), and kernel mutexes are handed to their waiters (strong
fairness of `MutexLock`). Nobody has to make a call. `FairSpec` of the server:
main, the connection threads and a handler that has begun go on, and a thread
that waits for a mutex released again and again gets it. Nothing is assumed of clients:
`Accept` and `Recv` are not fair. `CooperativeSpec` adds that every client that is
connected sends or closes in the end. It is the assumption under which shutdown
completes: without it a client that stays connected and silent keeps main in
`pthread_join` (:469). `FairSpec` of the data file has the same ground, thread by
thread (`SF` of a thread's steps, since a handler may keep interrupting it and a
mutex be taken again and again), with clients that send or close; nobody has to
connect, and the timer need not expire. `FairSpec` of the threading example: a
thread that has started goes on, and one that waits for a mutex that is released
again and again gets it; the caller need neither start nor join.

## 4. What the code does not do

Two runs state what a comment of the source says and find it violated. Each is
quoted with its line in `PROJECT.json`.

1. *A line may stay unanswered* (`aesdsocket.c:187`): after `close(my_file_read)`
   the variable keeps the number and :216 closes it again. If another thread has
   it by then, that thread reads from or writes to nothing, or to a stranger.
2. *The server stops by itself* (`aesdsocket.c:423`): the file opened at :93 is
   stored in a parameter that hides the global and is never closed; when
   descriptors run out `accept` fails and any failure of it ends the loop.

Other places where the code does less than one might expect show as exceptions in
properties that hold, and no property may be read without its exception:

* *Unloading leaks* `partial_write_buff` (`main.c:367`): `aesd_write` leaves it
  allocated for the next write and `aesd_cleanup_module` frees commands only.
  `HeapExact` accounts for it as `leaked`.
* *The answer may be a mixture* (`aesdsocket.c:168`): the mutex is released
  before the read-back is opened, and an overwrite takes from what is still to be
  read, the client's own line perhaps. `AnswerIsContents` excludes the threads an
  overwrite has met between their unlock and their last read (`overrun`).
* *A silent client blocks the shutdown* (`aesdsocket.c:469`): `ShutdownCompletes`
  needs `CooperativeSpec`.
* *The packet buffer may be too small* (`aesdsocket.c:201`): twice the length is
  enough for the next `recv` only from `INITIAL_BUFFER_SIZE` bytes on. A packet that
  comes in smaller pieces is stored beyond its block as long as it is shorter than
  twice that size, and so may be what comes behind a seek that does not parse (:127),
  with which the loop goes on with the block as it is. The model reaches both
  overruns. `LongPacketsFit` is about packets of twice that size and more, and excludes
  those that begin with a malformed seek.
* *SIGPIPE ends the process* (`aesdsocket.c:142`, `:179`) when a client has gone
  before its answer. In the build on a regular file there is no `cleanup` then, and the
  data file stays. `FileRemoved` is about a main that has returned; the runs of
  `data_file` begin with such a file as well as without.
* *The timestamp handler may wait for its own thread* (`aesdsocket.c:240`):
  `HandlersReturn` excludes `SelfDeadlock`, which the model reaches.
* *Packets overwrite each other* in the data file (`aesdsocket.c:93`, no
  `O_APPEND`): `AnswerIsFile` excludes the connections to which this happens
  while they answer. A timestamp between `remove` and `timer_delete` (:68, :70)
  leaves a file behind, in which `FileRemoved` allows timestamps only (`late`).
* *A thread that fails late keeps the mutex* (`threading.c:52`): `FailedHolder`.
* *A failed `fork` leaves the output file open* (`systemcalls.c:94`), although :69
  says that the file "will be closed at completion of the function call". `Fork` models
  it; no property says that the file is closed, since that is false for this case.
* *A seek may be lost, a size may be old* (`main.c:128`, `:56`): `aesd_read` stores its
  position back after an ioctl of another thread on the same file has moved it, and
  `aesd_llseek` uses its size after the unlock. Both interleavings are in the model;
  `SeekLands` and `LlseekSizeIsContents` are about the moment of the ioctl and of the sum.

## 5. Proofs

Every safety invariant and every safety action property that a passing run checks
is also a theorem, for every value of the constants, and so are both refinements.

**The circular buffer** (`AesdCircularBuffer_proofs` about the operators,
`CircularBuffer_proofs` about the machine), for every capacity N that the offsets,
which are `uint8_t`, can count (`1 .. 256`), every set of pointers and bound on sizes:

* `TypeCorrect`, `IndicesAlwaysAgree`: the slots in use are exactly those from
  `out_offs` up to `in_offs`, all of them when `full`. `Consistent` is this fact
  about one buffer; `AddEntryConsistent` keeps it. The arithmetic of `(i + 1) % N` is
  in lemmas of its own.
* `FindAlwaysConcatenates`: the search returns the slot and the byte that the
  entries laid end to end have at a position, and nothing behind the last. The search
  walks the slots, the definition it is compared with concatenates them; `FindCovers`
  says that the first slot whose sum of sizes exceeds the position is the only one
  that covers it.
* `Refinement`: `Spec => ImplementsRecentEntries`. A step appends to the window
  of used slots, or drops its first element and appends, which needs that the
  slot overwritten is the first of the window.

`CurrentOffset` and the folds behind `FlattenSeq` and `MapThenSumSet` are recursive
functions. That such a function exists, and what it yields at `n + 1`, is proved by
induction in the form of sets (`NatInduct`: a subset of `Nat` with 0 and all
successors is `Nat`), which needs no operator as a parameter.

**The driver** (`AesdChar_proofs`), for every number of threads, files, slots and
blocks, any packets and any failures:

* `LockDisciplineHolds`: `buff_lock` is held exactly by the thread between its lock
  and its unlock. `LockInv` adds the types of `pc`, `call` and `buff_lock`, and that
  a thread in a call has its file open, which is why the module cannot be unloaded
  and `buff_lock` reset under it.
* `WritesAtomicHolds`: `AtomicInv` adds `Committed`: while no thread is in the loop
  of `aesd_write`, `view` is what the data structures hold. A step that leaves
  buffer, partial buffer and memory alone leaves the device alone (`QuietStep`), and
  one that unlocks commits (`LeaveStep`).
* `HeapAlwaysExact`: `HeapExact` alone is not inductive. `MemInv` adds that the buffer
  is consistent (`add_entry` hands back what `out_offs` points to and overwrites
  what is at `in_offs`, which is right only because they agree when `full`), that
  every allocated block has exactly one owner (`Ownership`), that noted lengths are
  those of the blocks (`Sizes`), and that a write in its loop has a partial buffer
  (`Progress`).
* `CommandsAlwaysFramed` and `StreamAlwaysConserved`, from `MemInv`: one turn of the
  loop moves the bytes up to the first newline from the front of the partial buffer
  to the end of the window, so what the device holds end to end is still the end of
  the stream. `StreamInv` says which bytes are gone, and that none are before the
  buffer is full.
* `TypeAlwaysOK`: positions and what is copied to users keep their types; it needs
  `MemInv`, because what `aesd_read` copies is of a block that is still allocated.
* `ReadAlwaysReturnsContents`, `SeekAlwaysLands`, `LlseekAlwaysSizes`, action
  properties from `ReadInv` (`MemInv`, `AtomicInv` and the types): a search in the
  buffer agrees with the contents of the line device, the offset of a command is the
  sum of those before it, and the sum `aesd_llseek` takes slot by slot, in the order
  of the array, is the length of the contents, laid out in the order of the window.
* `DriverIsLineDevice`: `Spec => ImplementsLineDevice`. `RefineInv` adds `LoopInv` to
  `ReadInv`: while a write is in its loop, for some k the buffer holds the first k
  commands of the bytes waiting and written, the partial buffer what is behind them,
  and `view` still what the last write left. Loading the module maps to `Reset`,
  `FinishWrite` to `Write`, a write that leaves on an error to `FailedWrite`,
  everything else to a stutter. The abstract device cuts at the newlines by their
  ranks, the code finds one at a time: `CutNext` says that the next `memchr` finds
  the newline of rank k + 1.

**The server** (`AesdSocket_proofs`), for every set of clients, every block size,
descriptor limit and set of faults:

* `EntriesAlwaysOutlive`, `AlwaysAllJoined`, from `EntriesInv`: besides the types,
  that an entry without a thread is the first of the list and only there while main
  is about to create its thread, that a loop over the list visits no entry twice, and
  that the last one visits all.
* `LongPacketsAlwaysFit`: the invariant ties the capacity of a thread at its next
  `recv` to the length of its packet (`BlocksDoubled`): behind a `realloc` the block has
  twice as many bytes as the packet, and one `recv` adds at most `BufferSize`. So a packet that has reached twice `BufferSize` had at least
  `BufferSize` before its last piece, and the doubled block has room for it.
* `AnswerAlwaysContents`: `Spec => AnswerIsContents`. `AnswerInv` says, as long as no
  close has gone astray, that a thread's numbers lead to its own files
  (`Answering`), that `my_file_read` is never the number of its data file, and that
  what it has sent is the contents from where it began up to its position (`Sent`),
  unless an overwrite has met it. The closes are what makes this delicate:
  `CloseTakes` says that one on behalf of a client touches no file of another unless
  it counts as `stray`, `OwnClose` that a thread keeps its data file. A write keeps
  `Sent` because the contents of a longer list of lines begin with those of the
  shorter (`FlattenGrows`), a read because it returns what comes next, and nothing
  only at the end (`ReadAtShape`). That the client's own line is in the answer is
  `OwnInv`: from its write to its last read a thread's last line lies in the contents
  unless an overwrite has met the thread. The write puts it there, since
  the last of the commands a packet is cut into comes last and is never the one pushed
  out (`OwnLineStored`, with `ElementsWithin`); a write that only adds lines leaves it
  there (`WithinGrows`), and the contents are the answer.

**The data file** (`DataFile_proofs`), for every number of clients, lines, faults and
expirations:

* `FileAlwaysRemoved`. The invariant says that a handler runs on live threads only
  (`OnLive`), that main at its start and behind its joins is alone (`Lonely`), and
  that from `remove` on there is no file and no handler unless the timer has expired
  since, and then a file of timestamps only (`Gone`). Without `OnLive` and `Lonely` a
  handler on a connection's thread, or the connection, could create the file again,
  with a packet in it. The step in which SIGPIPE ends every thread is part of the proof.
* `AnswerAlwaysFile`. `AnswerInv` adds that the mutex is held where the code is
  between lock and unlock, that the file exists while a connection answers, that a
  connection's line is the beginning of the file from its write until another's
  (`LineFirst`), and that what it has sent is the beginning of the file as long as
  its position (`ReadSoFar`). A timestamp keeps both, since it appends; another
  packet breaks both, and puts the connection into `overwritten`.

**The examples**:

* `Threading_proofs`: `HolderAlwaysAccountable`, `DataAlwaysExact`. The invariant
  adds the types and that what the caller knows of a thread and where the thread is go
  together (`Known`): a thread cannot start anew and lose the report of the mutex it
  took. `HolderAlwaysAccountable` needs `DataExact`: the flag in which a thread has left
  its failure stays only because no other thread works on the same block (`OwnBlock`).
* `SystemCalls_proofs`: `TrueOnlyIfExecuted`, `OutputIsOnlyTheCommands`. The invariant
  relates the parent's place in a call to the state of its child (`CallUnderWay`,
  `ReapedEnded`), says what a result tells of the child (`ResultsTell`) and what a
  child's end put into the file (`FileFollowsChild`).
* `FinderTest_proofs`: `SuccessAlwaysWritten`, `FailureAlwaysMissing`. While the
  script writes, the files that exist are those before `next` (`WriteCovers`), also
  when an earlier run left more; `MatchesMeansAll` says that the pattern of the
  comparison accepts no count but the right one.

The theorems rest on the assumptions on constants and on nothing else. `NAssumption`:
the offsets can count the slots. `PtrsAssumption`, `MaxSizeAssumption`,
`CharAssumption`, `DataFileAssumption`, `SocketAssumption`, the two `NullAssumption`s
and `FinderAssumption` say that `NULL` is none of the values it stands beside, that
packets are sequences of bytes, arguments of a seek pairs of unsigned numbers and
bounds numbers, that the prefix of a seek (`SEEK`) is no newline and a timestamp
(`STAMP`) none of a client's bytes, that no chunk is longer than the `BufferSize` given
to `recv`, and that a run of the finder test writes at most 99 files.

**Model-checked only.** All liveness (`CallsReturn`, `ShutdownCompletes`,
`HandlersReturn`, `StartedThreadsReturn`): the fairness it needs, and `ENABLED` in it,
are out of the prover's reach.

## 6. What the plan has left

No safety property is left without a proof. The proofs treat the driver and the
server apart, joined by `LineDevice`; that `resp` of the server is also what the
driver copies out (`ReadReturnsContents` against `ReadAt`) is the next step, and
needs both in one module.

**Not modelled.** Of `server/queue.h`, which is vendored, the models have the
operations the server uses, as sequence operations in `AesdSocket`. The scripts that
load the driver, start the server, build images and run tests have no state of their
own: their effects are the load, unload, start and signal steps of the models.
`writer.sh` was replaced by `writer.c`. `autotest-validate` returns a constant.
