------------------------------- MODULE AesdChar -------------------------------
(***************************************************************************)
(* The character device driver aesd-char-driver/main.c: threads that call  *)
(* read, write, llseek and ioctl on open files of one device, the mutex    *)
(* buff_lock, the circular buffer of commands, the partial write buffer,   *)
(* and the kernel memory they own.                                         *)
(*                                                                         *)
(* A system call is a sequence of steps of its thread t, named in pc[t]:   *)
(*                                                                         *)
(*   idle -> lock -> held (-> loop)* -> exit | fail -> idle                *)
(*                   held -> setpos (llseek, outside the mutex) -> idle    *)
(*                                                                         *)
(* VFS (outside the repository) hands read and write a copy of f_pos and   *)
(* stores it back when they succeed; llseek and ioctl work on the file's   *)
(* own f_pos.  A character device has no lock around that.                 *)
(***************************************************************************)
EXTENDS AesdCircularBuffer, SequencesExt

CONSTANTS
  Threads, Files,
  Blocks,       \* addresses kmalloc can return
  Bytes, NL,    \* bytes other than newline, and the newline
  UNINIT,       \* the value of a byte nobody has written
  Packets,      \* what a write may be called with
  Counts,       \* the buffer sizes of read
  SeekArgs,     \* the pairs <<write_cmd, write_cmd_offset>> of the ioctl
  Offsets,      \* the offsets of llseek
  MaxWrites,    \* bound on the calls of write
  MaxLoads      \* bound on how often the module is loaded

ASSUME CharAssumption ==
  /\ NULL \notin Threads \cup Blocks \cup Slots
  /\ NL \notin Bytes
  /\ UNINIT \notin Bytes \cup {NL}
  /\ NULL \notin Seq(Bytes \cup {NL, UNINIT})
  /\ Packets \subseteq Seq(Bytes \cup {NL})
  /\ Counts \subseteq Nat
  /\ SeekArgs \subseteq Nat \X Nat
  /\ Offsets \subseteq Int
  /\ MaxWrites \in Nat /\ MaxLoads \in Nat

VARIABLES
  modstate,             \* "unloaded", "initialised" or "live" (cdev added)
  buff,                 \* aesd_dev.buff
  partial_write_buff,   \* aesd_dev.partial_write_buff
  bytes_stored,         \* aesd_dev.bytes_stored
  buff_lock,            \* aesd_dev.buff_lock: the thread that holds it, or NULL
  mem,                  \* the bytes of each allocated block, NULL for a free one
  f_pos,                \* of each open file
  pc,                   \* where each thread is
  call,                 \* the arguments and locals of its system call
  user_buf,             \* the bytes read copied to the user
  writes, loads,        \* counters, for the bounds
  stream,               \* history: every byte accepted since the module was loaded
  view,                 \* history: the device as the last write left it, and its result
  leaked                \* history: blocks no pointer led to when the module was loaded again

device == <<buff, partial_write_buff, bytes_stored, mem>>
history == <<stream, view, leaked>>
vars == <<modstate, device, buff_lock, f_pos, pc, call, user_buf, writes, loads, history>>

Byte == Bytes \cup {NL, UNINIT}

NoCall == [op |-> "none"]

-----------------------------------------------------------------------------
(* Kernel memory.                                                          *)

Free == {b \in Blocks : mem[b] = NULL}

(* The bytes of the partial write buffer, and the device as its users see it. *)
Partial == IF partial_write_buff = NULL THEN << >>
           ELSE SubSeq(mem[partial_write_buff], 1, bytes_stored)

Command(e) == SubSeq(mem[e.buffptr], 1, e.size)

Device == [lines |-> [k \in 1 .. EntryCount(buff) |-> Command(Window(buff)[k])],
           tail  |-> Partial]

EmptyDevice == [lines |-> << >>, tail |-> << >>, ok |-> TRUE]

Init ==
  /\ modstate = "unloaded"
  /\ buff = EmptyBuffer /\ partial_write_buff = NULL /\ bytes_stored = 0
  /\ buff_lock = NULL
  /\ mem = [b \in Blocks |-> NULL]
  /\ f_pos = << >>                \* no file is open
  /\ pc = [t \in Threads |-> "idle"]
  /\ call = [t \in Threads |-> NoCall]
  /\ user_buf = [t \in Threads |-> << >>]
  /\ writes = 0 /\ loads = 0
  /\ stream = << >> /\ view = EmptyDevice /\ leaked = {}

-----------------------------------------------------------------------------
(* Loading and unloading.                                                  *)

(* aesd_init_module up to mutex_init: the device is reset before it is live. *)
InitModule ==
  /\ modstate = "unloaded" /\ loads < MaxLoads
  /\ modstate' = "initialised"
  /\ buff' = EmptyBuffer /\ partial_write_buff' = NULL /\ bytes_stored' = 0
  /\ buff_lock' = NULL
  /\ loads' = loads + 1
  /\ stream' = << >> /\ view' = EmptyDevice
  /\ leaked' = leaked \cup ({partial_write_buff} \ {NULL})
  /\ UNCHANGED <<mem, f_pos, pc, call, user_buf, writes>>

(* aesd_setup_cdev: cdev_add makes the device live, or fails and the load with it. *)
SetupCdev ==
  /\ modstate = "initialised"
  /\ modstate' \in {"live", "unloaded"}
  /\ UNCHANGED <<device, buff_lock, f_pos, pc, call, user_buf, writes, loads, history>>

(* aesd_cleanup_module.  The module's use count (.owner = THIS_MODULE) keeps *)
(* it from being unloaded while a file is open.                              *)
CleanupModule ==
  /\ modstate = "live"
  /\ DOMAIN f_pos = {}
  /\ modstate' = "unloaded"
  /\ mem' = [b \in Blocks |-> IF \E i \in Slots : buff.entry[i].buffptr = b THEN NULL ELSE mem[b]]
  /\ UNCHANGED <<buff, partial_write_buff, bytes_stored, buff_lock, f_pos, pc, call,
                 user_buf, writes, loads, history>>

(* aesd_open, aesd_release. *)
Open(f) ==
  /\ modstate = "live" /\ f \notin DOMAIN f_pos
  /\ f_pos' = [g \in DOMAIN f_pos \cup {f} |-> IF g = f THEN 0 ELSE f_pos[g]]
  /\ UNCHANGED <<modstate, device, buff_lock, pc, call, user_buf, writes, loads, history>>

Release(f) ==
  /\ \A t \in Threads : pc[t] # "idle" => call[t].file # f
  /\ f_pos' = [g \in DOMAIN f_pos \ {f} |-> f_pos[g]]
  /\ UNCHANGED <<modstate, device, buff_lock, pc, call, user_buf, writes, loads, history>>

-----------------------------------------------------------------------------
(* Entry to and return from a system call, and the mutex.                  *)

Begin(t, c) ==
  /\ pc[t] = "idle"
  /\ pc' = [pc EXCEPT ![t] = "lock"]
  /\ call' = [call EXCEPT ![t] = c]
  /\ UNCHANGED <<modstate, device, buff_lock, f_pos, user_buf, loads, history>>

BeginRead(t, f, count) ==
  /\ Begin(t, [op |-> "read", file |-> f, count |-> count, pos |-> f_pos[f]])
  /\ UNCHANGED writes

BeginWrite(t, f, data) ==
  /\ writes < MaxWrites /\ writes' = writes + 1
  /\ Begin(t, [op |-> "write", file |-> f, data |-> data, pos |-> f_pos[f]])

BeginLlseek(t, f, offset, whence) ==
  /\ Begin(t, [op |-> "llseek", file |-> f, offset |-> offset, whence |-> whence,
               total_size |-> 0])
  /\ UNCHANGED writes

BeginIoctl(t, f, seekto) ==
  /\ Begin(t, [op |-> "ioctl", file |-> f, write_cmd |-> seekto[1],
               write_cmd_offset |-> seekto[2]])
  /\ UNCHANGED writes

(* Mutant of MutexLock: it does not wait. *)
MutexLockBarges(t) ==
  /\ pc[t] = "lock"
  /\ buff_lock' = t
  /\ pc' = [pc EXCEPT ![t] = "held"]
  /\ UNCHANGED <<modstate, device, f_pos, call, user_buf, writes, loads, history>>

(* mutex_lock(&my_dev->buff_lock) *)
MutexLock(t) ==
  /\ pc[t] = "lock" /\ buff_lock = NULL
  /\ buff_lock' = t
  /\ pc' = [pc EXCEPT ![t] = "held"]
  /\ UNCHANGED <<modstate, device, f_pos, call, user_buf, writes, loads, history>>

(* mutex_unlock, on the way to the place next of the thread. *)
Unlock(t, next) ==
  /\ buff_lock' = NULL
  /\ pc' = [pc EXCEPT ![t] = next]

(* VFS stores the position back after a read or write that did not fail. *)
Return(t) ==
  /\ pc[t] \in {"exit", "fail"}
  /\ pc' = [pc EXCEPT ![t] = "idle"]
  /\ call' = [call EXCEPT ![t] = NoCall]
  /\ user_buf' = [user_buf EXCEPT ![t] = << >>]
  /\ f_pos' = IF pc[t] = "exit" /\ call[t].op \in {"read", "write"}
              THEN [f_pos EXCEPT ![call[t].file] = call[t].pos] ELSE f_pos
  /\ UNCHANGED <<modstate, device, buff_lock, writes, loads, history>>

-----------------------------------------------------------------------------
(* aesd_read *)

(* The copy of copy_bytes bytes from offset from of the entry e. *)
CopyToUser(t, e, from, copy_bytes) ==
  \/ /\ user_buf' = [user_buf EXCEPT ![t] = SubSeq(mem[e.buffptr], from + 1, from + copy_bytes)]
     /\ call' = [call EXCEPT ![t].pos = @ + copy_bytes]
     /\ Unlock(t, "exit")
  \/ /\ Unlock(t, "fail")                 \* copy_to_user fails
     /\ UNCHANGED <<user_buf, call>>

(* Mutant of Read: it copies from the start of the entry. *)
ReadFromStart(t) ==
  /\ pc[t] = "held" /\ call[t].op = "read"
  /\ LET hit == FindEntryOffsetForFpos(buff, call[t].pos)
         e   == buff.entry[hit.slot]
     IN  \/ hit = NoEntry /\ Unlock(t, "exit") /\ UNCHANGED <<user_buf, call>>
         \/ hit # NoEntry /\ CopyToUser(t, e, 0, Min({call[t].count, e.size - hit.entry_offset}))
  /\ UNCHANGED <<modstate, device, f_pos, writes, loads, history>>

Read(t) ==
  /\ pc[t] = "held" /\ call[t].op = "read"
  /\ LET hit == FindEntryOffsetForFpos(buff, call[t].pos)
         e   == buff.entry[hit.slot]
         total_bytes == e.size - hit.entry_offset
     IN  \/ hit = NoEntry /\ Unlock(t, "exit") /\ UNCHANGED <<user_buf, call>>
         \/ hit # NoEntry /\ CopyToUser(t, e, hit.entry_offset, Min({call[t].count, total_bytes}))
  /\ UNCHANGED <<modstate, device, f_pos, writes, loads, history>>

-----------------------------------------------------------------------------
(* aesd_write, in three steps under the mutex.                             *)

(* A write that leaves: what it has done to the device becomes visible. *)
LeaveWrite(t, next) ==
  /\ Unlock(t, next)
  /\ view' = [lines |-> Device'.lines, tail |-> Device'.tail, ok |-> next = "exit"]

(* Mutant of AllocFails: it returns with the mutex held. *)
AllocFailsLocked(t) ==
  /\ pc[t] = "held" /\ call[t].op = "write"
  /\ pc' = [pc EXCEPT ![t] = "fail"]
  /\ UNCHANGED <<modstate, device, buff_lock, f_pos, call, user_buf, writes, loads, history>>

(* The allocation fails: nothing has changed. *)
AllocFails(t) ==
  /\ pc[t] = "held" /\ call[t].op = "write"
  /\ UNCHANGED <<modstate, device, f_pos, call, user_buf, writes, loads, stream, leaked>>
  /\ LeaveWrite(t, "fail")

(* kmalloc of a first partial buffer, or krealloc of the one there is, which *)
(* may move it; then copy_from_user behind the bytes already stored.         *)
StoreBytes(t) ==
  LET data == call[t].data
      old  == partial_write_buff
      head == Partial
      Realloc(b, bytes) == [c \in Blocks |-> IF c = b THEN bytes
                                             ELSE IF c = old THEN NULL ELSE mem[c]]
  IN
  /\ pc[t] = "held" /\ call[t].op = "write"
  /\ \E b \in Free \cup ({old} \ {NULL}) :
       /\ partial_write_buff' = b
       /\ \/ /\ mem' = Realloc(b, head \o data)
             /\ bytes_stored' = Len(head) + Len(data)
             /\ stream' = stream \o data
             /\ pc' = [pc EXCEPT ![t] = "loop"]
             /\ UNCHANGED <<buff, buff_lock, view>>
          \/ /\ mem' = Realloc(b, head \o [i \in 1 .. Len(data) |-> UNINIT])
             /\ bytes_stored' = Len(head)                   \* copy_from_user fails
             /\ UNCHANGED <<buff, stream>>
             /\ LeaveWrite(t, "fail")
  /\ UNCHANGED <<modstate, f_pos, call, user_buf, writes, loads, leaked>>

(* memchr(partial_write_buff, '\n', bytes_stored) *)
Newlines == {i \in 1 .. bytes_stored : mem[partial_write_buff][i] = NL}

(* The first command_length bytes move to a buffer of their own and into the *)
(* circular buffer, the memory at freed is freed, and the bytes from shift   *)
(* on move to the front of the partial buffer (memmove).                     *)
MoveCommand(command_length, freed, shift) ==
  LET p == partial_write_buff
      remaining == bytes_stored - command_length
  IN
  /\ \E b \in Free :
       /\ buff' = AddEntry(buff, [buffptr |-> b, size |-> command_length])
       /\ mem' = [c \in Blocks |->
                    IF c = b THEN SubSeq(mem[p], 1, command_length)
                    ELSE IF c = freed THEN NULL
                    ELSE IF c = p THEN [i \in 1 .. Len(mem[p]) |->
                           mem[p][IF i <= remaining THEN i + shift ELSE i]]
                    ELSE mem[c]]
  /\ bytes_stored' = remaining
  /\ UNCHANGED <<modstate, partial_write_buff, buff_lock, f_pos, pc, call, user_buf, writes,
                 loads, history>>

(* Mutants of ExtractCommand: the command overwritten is not freed; the      *)
(* command loses its newline; the bytes behind it stay where they are.       *)
ExtractLeaks(t) ==
  pc[t] = "loop" /\ Newlines # {} /\ MoveCommand(Min(Newlines), NULL, Min(Newlines))

ExtractDropsNewline(t) ==
  /\ pc[t] = "loop" /\ Newlines # {}
  /\ MoveCommand(Min(Newlines) - 1, OverwrittenEntry(buff), Min(Newlines) - 1)

ExtractWithoutMove(t) ==
  pc[t] = "loop" /\ Newlines # {} /\ MoveCommand(Min(Newlines), OverwrittenEntry(buff), 0)

(* One turn of the loop: the first command leaves the partial buffer for the *)
(* circular buffer, and the buffer that pushes out is freed.                 *)
ExtractCommand(t) ==
  /\ pc[t] = "loop" /\ Newlines # {}
  /\ LET command_length == Min(Newlines)
     IN  MoveCommand(command_length, OverwrittenEntry(buff), command_length)

(* Mutant of ExtractFails: it returns with the mutex held. *)
ExtractFailsLocked(t) ==
  /\ pc[t] = "loop" /\ Newlines # {}
  /\ pc' = [pc EXCEPT ![t] = "fail"]
  /\ UNCHANGED <<modstate, device, buff_lock, f_pos, call, user_buf, writes, loads, history>>

(* The allocation of a command's buffer fails: the rest of the bytes, that *)
(* command's newline included, stay in the partial buffer.                 *)
ExtractFails(t) ==
  /\ pc[t] = "loop" /\ Newlines # {}
  /\ UNCHANGED <<modstate, device, f_pos, call, user_buf, writes, loads, stream, leaked>>
  /\ LeaveWrite(t, "fail")

(* Mutant of FinishWrite: an if in place of the while. *)
FinishWriteEarly(t) ==
  /\ pc[t] = "loop"
  /\ call' = [call EXCEPT ![t].pos = @ + Len(call[t].data)]
  /\ UNCHANGED <<modstate, device, f_pos, user_buf, writes, loads, stream, leaked>>
  /\ LeaveWrite(t, "exit")

FinishWrite(t) ==
  /\ pc[t] = "loop" /\ Newlines = {}
  /\ call' = [call EXCEPT ![t].pos = @ + Len(call[t].data)]
  /\ UNCHANGED <<modstate, device, f_pos, user_buf, writes, loads, stream, leaked>>
  /\ LeaveWrite(t, "exit")

-----------------------------------------------------------------------------
(* aesd_llseek: the total size is taken under the mutex and used without it. *)

(* Mutant of TotalSize: it counts the slots in front of in_offs only. *)
TotalSizeToIn == MapThenSumSet(LAMBDA i : buff.entry[i].size,
                               {i \in Slots : i < buff.in_offs})

TotalSize == MapThenSumSet(LAMBDA i : buff.entry[i].size,
                           {i \in Slots : buff.entry[i].buffptr # NULL})

LlseekSize(t) ==
  /\ pc[t] = "held" /\ call[t].op = "llseek"
  /\ call' = [call EXCEPT ![t].total_size = TotalSize]
  /\ Unlock(t, "setpos")
  /\ UNCHANGED <<modstate, device, f_pos, user_buf, writes, loads, history>>

(* fixed_size_llseek(filp, offset, whence, total_size), of the kernel. *)
FixedSizeLlseek(t) ==
  LET c == call[t]
      base == IF c.whence = "SEEK_SET" THEN 0
              ELSE IF c.whence = "SEEK_CUR" THEN f_pos[c.file] ELSE c.total_size
      target == base + c.offset
      unchecked == c.whence = "SEEK_CUR" /\ c.offset = 0
  IN
  /\ pc[t] = "setpos"
  /\ pc' = [pc EXCEPT ![t] = "idle"]
  /\ call' = [call EXCEPT ![t] = NoCall]
  /\ f_pos' = IF unchecked \/ target \notin 0 .. c.total_size THEN f_pos
              ELSE [f_pos EXCEPT ![c.file] = target]
  /\ UNCHANGED <<modstate, device, buff_lock, user_buf, writes, loads, history>>

-----------------------------------------------------------------------------
(* aesd_ioctl *)

(* Another command than AESDCHAR_IOCSEEKTO, or a copy_from_user that fails: *)
(* it returns before it takes the mutex.                                    *)
IoctlRefused(t) ==
  /\ pc[t] = "lock" /\ call[t].op = "ioctl"
  /\ pc' = [pc EXCEPT ![t] = "fail"]
  /\ UNCHANGED <<modstate, device, buff_lock, f_pos, call, user_buf, writes, loads, history>>

(* The seek to byte write_cmd_offset of the command write_cmd, in the slot  *)
(* starting_index, when preceding bytes lie in front of that command.       *)
SeekTo(t, starting_index, preceding) ==
  LET c == call[t]
      entry_count == Cardinality({i \in Slots : buff.entry[i].buffptr # NULL})
      valid == /\ c.write_cmd < entry_count
               /\ c.write_cmd_offset < buff.entry[starting_index].size
  IN
  /\ pc[t] = "held" /\ c.op = "ioctl"
  /\ \/ /\ valid
        /\ f_pos' = [f_pos EXCEPT ![c.file] = preceding + c.write_cmd_offset]
        /\ Unlock(t, "exit")
     \/ ~valid /\ f_pos' = f_pos /\ Unlock(t, "fail")
  /\ UNCHANGED <<modstate, device, call, user_buf, writes, loads, history>>

(* Mutant of IoctlSeek: commands are counted from slot 0, not from out_offs. *)
IoctlSeekFromSlot0(t) ==
  SeekTo(t, call[t].write_cmd % N,
         MapThenSumSet(LAMBDA i : buff.entry[i].size, Slots \cap 0 .. call[t].write_cmd - 1))

IoctlSeek(t) ==
  SeekTo(t, SlotAt(buff, call[t].write_cmd), CurrentOffset(buff)[call[t].write_cmd])

-----------------------------------------------------------------------------
(* The steps a thread takes by itself once it has made its call. *)
Step(t) ==
  \/ Read(t)
  \/ AllocFails(t) \/ StoreBytes(t) \/ ExtractCommand(t) \/ ExtractFails(t) \/ FinishWrite(t)
  \/ LlseekSize(t) \/ FixedSizeLlseek(t)
  \/ IoctlRefused(t) \/ IoctlSeek(t)
  \/ Return(t)

Whences == {"SEEK_SET", "SEEK_CUR", "SEEK_END"}

Next ==
  \/ InitModule \/ SetupCdev \/ CleanupModule
  \/ \E f \in Files : Open(f)
  \/ \E f \in DOMAIN f_pos : Release(f)
  \/ \E t \in Threads, f \in DOMAIN f_pos :
       \/ \E count \in Counts : BeginRead(t, f, count)
       \/ \E data \in Packets : BeginWrite(t, f, data)
       \/ \E offset \in Offsets, whence \in Whences : BeginLlseek(t, f, offset, whence)
       \/ \E seekto \in SeekArgs : BeginIoctl(t, f, seekto)
  \/ \E t \in Threads : MutexLock(t) \/ Step(t)

Spec == Init /\ [][Next]_vars

(* The kernel schedules every thread that can run, and its mutexes hand over *)
(* to waiters, so nobody waits for ever while others take turns.             *)
FairSpec ==
  Spec /\ \A t \in Threads : WF_vars(Step(t)) /\ SF_vars(MutexLock(t))

-----------------------------------------------------------------------------
TypeOK ==
  /\ modstate \in {"unloaded", "initialised", "live"}
  /\ buff \in BufferOf(Blocks)
  /\ partial_write_buff \in Blocks \cup {NULL}
  /\ bytes_stored \in Nat
  /\ buff_lock \in Threads \cup {NULL}
  /\ \A b \in Blocks : mem[b] = NULL \/ mem[b] \in Seq(Byte)
  /\ DOMAIN f_pos \subseteq Files /\ \A f \in DOMAIN f_pos : f_pos[f] \in Nat
  /\ pc \in [Threads -> {"idle", "lock", "held", "loop", "setpos", "exit", "fail"}]
  /\ user_buf \in [Threads -> Seq(Byte)]

(* Every path through the four operations, the early returns included,     *)
(* gives buff_lock back: the thread that holds it is exactly the one that  *)
(* is between its mutex_lock and its mutex_unlock.                         *)
LockDiscipline == \A t \in Threads : buff_lock = t <=> pc[t] \in {"held", "loop"}

InUse == {i \in Slots : buff.entry[i].buffptr # NULL}

(* The driver's memory is exact at every step: each pointer of the device  *)
(* leads to a block that is allocated and that nothing else points to, of  *)
(* the length the device has noted, and no block is lost while the module  *)
(* is loaded (aesd_write: "We are responsible for freeing any overwritten  *)
(* entries").                                                              *)
HeapExact ==
  LET commands == {buff.entry[i].buffptr : i \in InUse}
      partial  == {partial_write_buff} \ {NULL}
  IN  modstate # "unloaded" =>
        /\ Blocks \ Free = commands \cup partial \cup leaked
        /\ Cardinality(Blocks \ Free) =
             Cardinality(InUse) + Cardinality(partial) + Cardinality(leaked)
        /\ \A i \in InUse : Len(mem[buff.entry[i].buffptr]) = buff.entry[i].size
        /\ bytes_stored <= IF partial = {} THEN 0 ELSE Len(mem[partial_write_buff])

(* A command in the circular buffer ends at its newline and has no other,  *)
(* however the bytes were split over writes, failed ones among them.       *)
Framing ==
  modstate # "unloaded" =>
    \A i \in InUse : \A j \in 1 .. buff.entry[i].size :
      mem[buff.entry[i].buffptr][j] = NL <=> j = buff.entry[i].size

(* Whatever allocations and copies fail, no byte that a write accepted is  *)
(* lost, repeated, reordered or made up: the commands and the partial      *)
(* buffer, end to end, are the end of the stream of accepted bytes, all of *)
(* it as long as the buffer is not full.                                   *)
StreamConserved ==
  LET kept == FlattenSeq(Device.lines) \o Device.tail
  IN  modstate # "unloaded" => IF buff.full THEN IsSuffix(kept, stream) ELSE kept = stream

(* Writes are atomic: a thread that gets the mutex finds the device as the *)
(* last write left it, never in the middle of the loop of aesd_write.      *)
WritesAreAtomic ==
  \A t \in Threads : pc[t] = "held" => view.lines = Device.lines /\ view.tail = Device.tail

(* The driver implements the line device, each write taking effect when it *)
(* unlocks: a write that returns its count has stored every command it     *)
(* completes, and one that fails has stored a prefix of them.              *)
Lines == INSTANCE LineDevice WITH lines <- view.lines, tail <- view.tail, ok <- view.ok

ImplementsLineDevice == Lines!Spec

-----------------------------------------------------------------------------
(* A read returns what the line device has at its position: bytes up to    *)
(* the end of the command there, at most as many as it asks for, and       *)
(* nothing only behind the last command (aesd_read, with the search for    *)
(* the entry at f_pos); and it moves its position by what it returns.      *)
ReadReturnsContents ==
  [][\A t \in Threads :
       (pc[t] = "held" /\ call[t].op = "read" /\ pc'[t] = "exit") =>
         /\ user_buf'[t] = Lines!ReadAt(call[t].pos, call[t].count)
         /\ call'[t].pos = call[t].pos + Len(user_buf'[t])]_vars

(* AESDCHAR_IOCSEEKTO succeeds exactly when the command and the byte exist *)
(* ("First value = command to seek to in circular buffer, Second value =   *)
(* zero referenced offset within this command", main.c:65), and the file   *)
(* is then at that byte of that command, counted from the oldest.          *)
SeekLands ==
  [][\A t \in Threads :
       (pc[t] = "held" /\ call[t].op = "ioctl" /\ pc'[t] # "held") =>
         LET exists == Lines!HasByte(call[t].write_cmd, call[t].write_cmd_offset)
             target == Lines!Position(call[t].write_cmd, call[t].write_cmd_offset)
         IN  /\ exists <=> pc'[t] = "exit"
             /\ f_pos'[call[t].file] = IF exists THEN target ELSE f_pos[call[t].file]]_vars

(* The size aesd_llseek seeks within is that of the contents at one moment *)
(* while it held the mutex, wherever the buffer has wrapped to.  When      *)
(* fixed_size_llseek uses it the contents may already be others.           *)
LlseekSizeIsContents ==
  [][\A t \in Threads : (pc[t] = "held" /\ pc'[t] = "setpos") =>
       call'[t].total_size = Len(Lines!Contents)]_vars

(* Every system call returns: no thread waits for ever for the mutex or in *)
(* the loop of aesd_write.                                                 *)
CallsReturn == \A t \in Threads : pc[t] # "idle" ~> pc[t] = "idle"
================================================================================
