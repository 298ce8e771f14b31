--------------------------- MODULE AesdChar_proofs ---------------------------
(***************************************************************************)
(* Proofs about the driver for every number of threads, files and slots,   *)
(* every set of packets and every bound.                                   *)
(***************************************************************************)
EXTENDS AesdChar, AesdCircularBuffer_proofs, FiniteSetTheorems

Places == {"idle", "lock", "held", "loop", "setpos", "exit", "fail"}

LockTypeOK ==
  /\ pc \in [Threads -> Places]
  /\ buff_lock \in Threads \cup {NULL}
  /\ DOMAIN call = Threads

(* LockDiscipline is inductive together with the types and the fact that a *)
(* thread is in a call only while the module is live and its file is open: *)
(* that is what keeps the mutex_init of aesd_init_module from resetting a  *)
(* mutex somebody holds.  Files are open only while the module is live.    *)
InCall(t) == "file" \in DOMAIN call[t] /\ call[t].file \in DOMAIN f_pos

CallsNeedFiles ==
  /\ \A t \in Threads : pc[t] # "idle" => InCall(t)
  /\ DOMAIN f_pos # {} => modstate = "live"

LockInv == LockTypeOK /\ LockDiscipline /\ CallsNeedFiles

-----------------------------------------------------------------------------
(* The initial state: nobody holds the mutex and nobody is in a call. *)
LEMMA LockInit == Init => LockInv
BY CharAssumption
   DEF Init, LockInv, LockTypeOK, LockDiscipline, CallsNeedFiles, InCall, Places

(* Loading, unloading, open and release: no thread moves. *)
LEMMA LockModule ==
  ASSUME LockInv, InitModule \/ SetupCdev \/ CleanupModule
  PROVE  LockInv'
<1>1. CASE InitModule
  BY <1>1, CharAssumption DEF LockInv, LockTypeOK, LockDiscipline, CallsNeedFiles, InCall, InitModule
<1>2. CASE SetupCdev
  BY <1>2 DEF LockInv, LockTypeOK, LockDiscipline, CallsNeedFiles, InCall, SetupCdev
<1>3. CASE CleanupModule
  BY <1>3 DEF LockInv, LockTypeOK, LockDiscipline, CallsNeedFiles, InCall, CleanupModule
<1>4. QED
  BY <1>1, <1>2, <1>3

(* A file that opens or closes holds no mutex: Release waits for its calls. *)
LEMMA LockFiles ==
  ASSUME LockInv, NEW f, Open(f) \/ Release(f)
  PROVE  LockInv'
<1>1. CASE Open(f)
  BY <1>1 DEF LockInv, LockTypeOK, LockDiscipline, CallsNeedFiles, InCall, Open
<1>2. CASE Release(f)
  BY <1>2 DEF LockInv, LockTypeOK, LockDiscipline, CallsNeedFiles, InCall, Release
<1>3. QED
  BY <1>1, <1>2

-----------------------------------------------------------------------------
(* Where a thread holds the mutex. *)
Critical == {"held", "loop"}

(* What a step of thread t does to the mutex protocol: it goes to the place  *)
(* next, keeps its file or ends its call, and the mutex changes hands only   *)
(* as mutex_lock and mutex_unlock allow.                                     *)
Moves(t, next) ==
  /\ pc' = [pc EXCEPT ![t] = next]
  /\ DOMAIN call' = DOMAIN call
  /\ \A u \in Threads \ {t} : call'[u] = call[u]
  /\ next # "idle" => InCall(t)'
  /\ modstate' = modstate /\ DOMAIN f_pos' = DOMAIN f_pos
  /\ \/ buff_lock' = buff_lock /\ (pc[t] \in Critical <=> next \in Critical)
     \/ buff_lock = NULL /\ buff_lock' = t /\ next \in Critical
     \/ pc[t] \in Critical /\ buff_lock' = NULL /\ next \notin Critical

(* Every such step keeps the mutex with the thread between lock and unlock. *)
LEMMA LockMoves ==
  ASSUME LockInv, NEW t \in Threads, NEW next \in Places, Moves(t, next)
  PROVE  LockInv'
<1>1. LockTypeOK'
  BY CharAssumption DEF LockInv, LockTypeOK, Moves
<1>2. LockDiscipline'
  <2>1. \A u \in Threads : pc'[u] = IF u = t THEN next ELSE pc[u]
    BY DEF LockInv, LockTypeOK, Moves
  <2>2. QED
    BY <2>1, CharAssumption DEF LockInv, LockDiscipline, Moves, Critical
<1>3. CallsNeedFiles'
  <2>1. \A u \in Threads \ {t} : pc'[u] = pc[u] /\ call'[u] = call[u]
    BY DEF LockInv, LockTypeOK, Moves
  <2>2. pc'[t] = next
    BY DEF LockInv, LockTypeOK, Moves
  <2>3. QED
    BY <2>1, <2>2 DEF LockInv, CallsNeedFiles, InCall, Moves
<1>4. QED
  BY <1>1, <1>2, <1>3 DEF LockInv

(* A system call begins: its thread goes to "lock" on a file that is open. *)
LEMMA LockBegin ==
  ASSUME LockInv, NEW t \in Threads, NEW c, Begin(t, c),
         "file" \in DOMAIN c, c.file \in DOMAIN f_pos
  PROVE  LockInv'
<1>1. Moves(t, "lock")
  BY DEF LockInv, LockTypeOK, Begin, Moves, InCall, Critical
<1>2. QED
  BY <1>1, LockMoves DEF Places

(* A call begins on an open file, without the mutex. *)
LEMMA LockBegins ==
  ASSUME LockInv, NEW t \in Threads, NEW f \in DOMAIN f_pos,
         \/ \E count \in Counts : BeginRead(t, f, count)
         \/ \E data \in Packets : BeginWrite(t, f, data)
         \/ \E offset \in Offsets, whence \in Whences : BeginLlseek(t, f, offset, whence)
         \/ \E seekto \in SeekArgs : BeginIoctl(t, f, seekto)
  PROVE  LockInv'
<1>1. ASSUME NEW count \in Counts, BeginRead(t, f, count) PROVE LockInv'
  BY <1>1, LockBegin DEF BeginRead
<1>2. ASSUME NEW data \in Packets, BeginWrite(t, f, data) PROVE LockInv'
  BY <1>2, LockBegin DEF BeginWrite
<1>3. ASSUME NEW offset \in Offsets, NEW whence \in Whences, BeginLlseek(t, f, offset, whence)
      PROVE  LockInv'
  BY <1>3, LockBegin DEF BeginLlseek
<1>4. ASSUME NEW seekto \in SeekArgs, BeginIoctl(t, f, seekto) PROVE LockInv'
  BY <1>4, LockBegin DEF BeginIoctl
<1>5. QED
  BY <1>1, <1>2, <1>3, <1>4

(* Every step inside a system call moves its thread as the protocol allows. *)
LEMMA StepMoves ==
  ASSUME LockInv, NEW t \in Threads, MutexLock(t) \/ Step(t)
  PROVE  \E next \in Places : Moves(t, next)
<1> USE DEF LockInv, LockTypeOK, Moves, InCall, Critical, Places, Unlock
<1>a. pc[t] # "idle" => InCall(t)
  BY DEF CallsNeedFiles
<1>1. CASE MutexLock(t)
  BY <1>1, <1>a DEF MutexLock
<1>2. CASE Read(t)
  <2>1. /\ pc[t] = "held" /\ buff_lock' = NULL /\ modstate' = modstate /\ f_pos' = f_pos
        /\ \E next \in {"exit", "fail"} : pc' = [pc EXCEPT ![t] = next]
        /\ call' = call \/ \E n : call' = [call EXCEPT ![t].pos = @ + n]
    BY <1>2 DEF Read, CopyToUser
  <2>2. DOMAIN call' = DOMAIN call /\ (\A u \in Threads \ {t} : call'[u] = call[u]) /\ InCall(t)'
    BY <2>1, <1>a
  <2>3. QED
    BY <2>1, <2>2
<1>3. CASE AllocFails(t)
  BY <1>3, <1>a DEF AllocFails, LeaveWrite
<1>4. CASE StoreBytes(t)
  BY <1>4, <1>a DEF StoreBytes, LeaveWrite
<1>5. CASE ExtractCommand(t)
  <2>1. pc' = [pc EXCEPT ![t] = "loop"]
    BY <1>5 DEF ExtractCommand, MoveCommand
  <2>2. QED
    BY <1>5, <1>a, <2>1 DEF ExtractCommand, MoveCommand
<1>6. CASE ExtractFails(t)
  BY <1>6, <1>a DEF ExtractFails, LeaveWrite
<1>7. CASE FinishWrite(t)
  BY <1>7, <1>a DEF FinishWrite, LeaveWrite
<1>8. CASE LlseekSize(t)
  BY <1>8, <1>a DEF LlseekSize
<1>9. CASE FixedSizeLlseek(t)
  BY <1>9, <1>a DEF FixedSizeLlseek
<1>10. CASE IoctlRefused(t)
  BY <1>10, <1>a DEF IoctlRefused
<1>11. CASE IoctlSeek(t)
  BY <1>11, <1>a DEF IoctlSeek, SeekTo
<1>12. CASE Return(t)
  BY <1>12, <1>a DEF Return
<1>13. QED
  BY <1>1, <1>2, <1>3, <1>4, <1>5, <1>6, <1>7, <1>8, <1>9, <1>10, <1>11, <1>12 DEF Step

(* LockInv is inductive. *)
LEMMA LockStep == LockInv /\ [Next]_vars => LockInv'
<1> SUFFICES ASSUME LockInv, [Next]_vars PROVE LockInv'
  OBVIOUS
<1>1. CASE InitModule \/ SetupCdev \/ CleanupModule
  BY <1>1, LockModule
<1>2. ASSUME NEW f, Open(f) \/ Release(f) PROVE LockInv'
  BY <1>2, LockFiles
<1>3. ASSUME NEW t \in Threads, NEW f \in DOMAIN f_pos,
         \/ \E count \in Counts : BeginRead(t, f, count)
         \/ \E data \in Packets : BeginWrite(t, f, data)
         \/ \E offset \in Offsets, whence \in Whences : BeginLlseek(t, f, offset, whence)
         \/ \E seekto \in SeekArgs : BeginIoctl(t, f, seekto)
      PROVE LockInv'
  BY <1>3, LockBegins
<1>4. ASSUME NEW t \in Threads, MutexLock(t) \/ Step(t) PROVE LockInv'
  BY <1>4, StepMoves, LockMoves
<1>5. CASE UNCHANGED vars
  BY <1>5 DEF vars, LockInv, LockTypeOK, LockDiscipline, CallsNeedFiles, InCall
<1>6. QED
  BY <1>1, <1>2, <1>3, <1>4, <1>5 DEF Next

(* In every execution, with any number of threads and wherever allocations *)
(* and copies fail, buff_lock is held by exactly the thread that is between *)
(* its mutex_lock and its mutex_unlock: no path of aesd_read, aesd_write,  *)
(* aesd_llseek or aesd_ioctl leaks the mutex or runs without it.           *)
THEOREM LockDisciplineHolds == Spec => []LockDiscipline
<1>1. LockInv => LockDiscipline
  BY DEF LockInv
<1>2. QED
  BY LockInit, LockStep, <1>1, PTL DEF Spec

-----------------------------------------------------------------------------
(* WritesAreAtomic holds because the device and the record of what the last *)
(* write left differ only while some thread is in the loop of aesd_write,    *)
(* and by LockDiscipline no other thread is then in the mutex.               *)
Same == view.lines = Device.lines /\ view.tail = Device.tail

Committed == modstate # "unloaded" /\ (\A t \in Threads : pc[t] # "loop") => Same

AtomicInv == LockInv /\ Committed

(* Nothing has been stored before the module is loaded. *)
LEMMA AtomicInit == Init => AtomicInv
BY LockInit DEF Init, AtomicInv, Committed

(* The device after aesd_init_module is empty. *)
LEMMA FreshDevice ==
  ASSUME InitModule
  PROVE  Same'
<1>1. Device'.lines = << >>
  <2>1. EntryCount(buff)' = 0
    BY NAssumption DEF InitModule, EmptyBuffer, EntryCount
  <2>2. QED
    BY <2>1 DEF Device
<1>2. Device'.tail = << >>
  BY DEF InitModule, Device, Partial
<1>3. QED
  BY <1>1, <1>2 DEF Same, InitModule, EmptyDevice

(* A step that leaves the device, its record and the loop alone. *)
LEMMA QuietStep ==
  ASSUME AtomicInv, UNCHANGED <<device, view>>,
         modstate' # "unloaded" => modstate # "unloaded",
         (\A t \in Threads : pc'[t] # "loop") => (\A t \in Threads : pc[t] # "loop")
  PROVE  Committed'
<1>1. Device' = Device
  BY DEF device, Device, Partial, Command
<1>2. QED
  BY <1>1 DEF AtomicInv, Committed, Same

(* A write that leaves records the device as it leaves it. *)
LEMMA LeaveStep ==
  ASSUME NEW t \in Threads, NEW next, LeaveWrite(t, next)
  PROVE  Committed'
BY DEF LeaveWrite, Committed, Same

(* Inside a call a step is quiet, leaves the write, or ends in the loop. *)
LEMMA AtomicCall ==
  ASSUME AtomicInv, NEW t \in Threads, MutexLock(t) \/ Step(t)
  PROVE  Committed'
<1> USE DEF AtomicInv, LockInv, LockTypeOK
<1>q. ASSUME NEW next \in Places \ {"loop"}, pc[t] # "loop", pc' = [pc EXCEPT ![t] = next],
             UNCHANGED <<device, view>>, modstate' = modstate
      PROVE  Committed'
  <2>1. (\A u \in Threads : pc'[u] # "loop") => (\A u \in Threads : pc[u] # "loop")
    BY <1>q
  <2>2. QED
    BY <1>q, <2>1, QuietStep
<1>l. ASSUME pc'[t] = "loop" PROVE Committed'
  BY <1>l DEF Committed
<1>1. CASE MutexLock(t)
  BY <1>1, <1>q DEF MutexLock, history, Places
<1>2. CASE Read(t)
  <2>1. \E next \in {"exit", "fail"} : pc' = [pc EXCEPT ![t] = next]
    BY <1>2 DEF Read, CopyToUser, Unlock
  <2>2. QED
    BY <1>2, <1>q, <2>1 DEF Read, history, Places
<1>3. CASE AllocFails(t)
  BY <1>3, LeaveStep DEF AllocFails
<1>4. CASE StoreBytes(t)
  <2>1. pc'[t] = "loop" \/ LeaveWrite(t, "fail")
    BY <1>4 DEF StoreBytes
  <2>2. QED
    BY <2>1, <1>l, LeaveStep
<1>5. CASE ExtractCommand(t)
  BY <1>5, <1>l DEF ExtractCommand, MoveCommand
<1>6. CASE ExtractFails(t)
  BY <1>6, LeaveStep DEF ExtractFails
<1>7. CASE FinishWrite(t)
  BY <1>7, LeaveStep DEF FinishWrite
<1>8. CASE LlseekSize(t)
  BY <1>8, <1>q DEF LlseekSize, Unlock, history, Places
<1>9. CASE FixedSizeLlseek(t)
  BY <1>9, <1>q DEF FixedSizeLlseek, history, Places
<1>10. CASE IoctlRefused(t)
  BY <1>10, <1>q DEF IoctlRefused, history, Places
<1>11. CASE IoctlSeek(t)
  <2>1. \E next \in {"exit", "fail"} : pc' = [pc EXCEPT ![t] = next]
    BY <1>11 DEF IoctlSeek, SeekTo, Unlock
  <2>2. QED
    BY <1>11, <1>q, <2>1 DEF IoctlSeek, SeekTo, history, Places
<1>12. CASE Return(t)
  BY <1>12, <1>q DEF Return, history, Places
<1>13. QED
  BY <1>1, <1>2, <1>3, <1>4, <1>5, <1>6, <1>7, <1>8, <1>9, <1>10, <1>11, <1>12 DEF Step

(* AtomicInv is inductive: only the writer in its loop leaves the last view. *)
LEMMA AtomicStep == AtomicInv /\ [Next]_vars => AtomicInv'
<1> SUFFICES ASSUME AtomicInv, [Next]_vars PROVE AtomicInv'
  OBVIOUS
<1>0. LockInv'
  BY LockStep DEF AtomicInv
<1>1. CASE InitModule
  BY <1>1, <1>0, FreshDevice DEF AtomicInv, Committed
<1>2. CASE SetupCdev
  BY <1>2, <1>0, QuietStep DEF AtomicInv, SetupCdev, history
<1>3. CASE CleanupModule
  BY <1>3, <1>0 DEF AtomicInv, Committed, CleanupModule
<1>4. ASSUME NEW f, Open(f) \/ Release(f) PROVE AtomicInv'
  BY <1>4, <1>0, QuietStep DEF AtomicInv, Open, Release, history
<1>5. ASSUME NEW t \in Threads, NEW c, Begin(t, c) PROVE AtomicInv'
  <2>1. (\A u \in Threads : pc'[u] # "loop") => (\A u \in Threads : pc[u] # "loop")
    BY <1>5 DEF Begin, AtomicInv, LockInv, LockTypeOK
  <2>2. QED
    BY <1>5, <2>1, <1>0, QuietStep DEF AtomicInv, Begin, history
<1>6. ASSUME NEW t \in Threads, MutexLock(t) \/ Step(t) PROVE AtomicInv'
  BY <1>6, <1>0, AtomicCall DEF AtomicInv
<1>7. CASE UNCHANGED vars
  BY <1>7, <1>0, QuietStep DEF AtomicInv, vars, history
<1>8. QED
  BY <1>1, <1>2, <1>3, <1>4, <1>5, <1>6, <1>7
     DEF Next, BeginRead, BeginWrite, BeginLlseek, BeginIoctl

(* With any number of threads, a thread that gets buff_lock finds the       *)
(* circular buffer and the partial buffer as the last aesd_write left them, *)
(* never half-way through the commands of another write.                    *)
THEOREM WritesAtomicHolds == Spec => []WritesAreAtomic
<1>1. AtomicInv => WritesAreAtomic
  <2> SUFFICES ASSUME AtomicInv, NEW t \in Threads, pc[t] = "held" PROVE Same
    BY DEF WritesAreAtomic, Same
  <2>1. modstate # "unloaded"
    BY DEF AtomicInv, LockInv, CallsNeedFiles, InCall
  <2>2. \A u \in Threads : pc[u] # "loop"
    BY CharAssumption DEF AtomicInv, LockInv, LockDiscipline
  <2>3. QED
    BY <2>1, <2>2 DEF AtomicInv, Committed
<1>2. QED
  BY AtomicInit, AtomicStep, <1>1, PTL DEF Spec

-----------------------------------------------------------------------------
(* The memory the driver owns.  HeapExact is not inductive: it needs the    *)
(* types, the agreement of the index fields (add_entry hands back the       *)
(* buffer of the slot it overwrites only because full implies that in_offs  *)
(* has caught up with out_offs), which block each pointer of the device     *)
(* leads to, and that no two lead to the same one.                          *)
Loaded == modstate # "unloaded"

Ptr(i) == buff.entry[i].buffptr

MemTypeOK ==
  /\ modstate \in {"unloaded", "initialised", "live"}
  /\ buff \in BufferOf(Blocks) /\ Consistent(buff)
  /\ partial_write_buff \in Blocks \cup {NULL}
  /\ bytes_stored \in Nat
  /\ mem \in [Blocks -> Seq(Byte) \cup {NULL}]
  /\ leaked \subseteq Blocks /\ IsFiniteSet(leaked)

(* Each allocated block has exactly one owner. *)
Ownership ==
  /\ \A c \in Blocks : mem[c] # NULL <=>
       \/ c \in leaked \/ c = partial_write_buff
       \/ Loaded /\ \E i \in Slots : Ptr(i) = c
  /\ partial_write_buff \notin leaked
  /\ Loaded => \A i \in InUse : Ptr(i) \notin leaked /\ Ptr(i) # partial_write_buff
  /\ Loaded => \A i, j \in InUse : Ptr(i) = Ptr(j) => i = j

(* Each length the device has noted is that of the block. *)
Sizes ==
  /\ Loaded => \A i \in InUse : Len(mem[Ptr(i)]) = buff.entry[i].size
  /\ partial_write_buff = NULL => bytes_stored = 0
  /\ partial_write_buff # NULL => bytes_stored <= Len(mem[partial_write_buff])

(* Until cdev_add nobody has written, and a write in its loop has stored bytes. *)
Progress ==
  /\ modstate = "initialised" => InUse = {}
  /\ \A t \in Threads : pc[t] = "loop" => partial_write_buff # NULL

CallsCarryPackets ==
  \A t \in Threads : call[t].op = "write" => call[t].data \in Packets

MemInv ==
  LockInv /\ MemTypeOK /\ Ownership /\ Sizes /\ Progress /\ CallsCarryPackets

(* Before the module is loaded every block is free. *)
LEMMA MemInit == Init => MemInv
<1> SUFFICES ASSUME Init PROVE MemInv
  OBVIOUS
<1>1. LockInv
  BY LockInit
<1>2. MemTypeOK
  BY EmptyConsistent, FS_EmptySet DEF Init, MemTypeOK
<1>3. \A i \in Slots : Ptr(i) = NULL
  BY EmptyConsistent DEF Init, Ptr
<1>4. Ownership /\ Sizes
  BY <1>3, CharAssumption DEF Init, Ownership, Sizes, InUse, Ptr, Loaded
<1>5. Progress /\ CallsCarryPackets
  BY DEF Init, Progress, CallsCarryPackets, NoCall
<1> QED BY <1>1, <1>2, <1>4, <1>5 DEF MemInv

-----------------------------------------------------------------------------
(* Steps that leave the device alone. *)
Quiet ==
  /\ UNCHANGED <<modstate, device, leaked, stream>>
  /\ \A t \in Threads : pc'[t] = "loop" => pc[t] = "loop"

(* Only these steps change what the device holds. *)
LEMMA DeviceSteps ==
  ASSUME LockTypeOK, [Next]_vars
  PROVE  \/ InitModule \/ SetupCdev \/ CleanupModule
         \/ \E t \in Threads : StoreBytes(t) \/ ExtractCommand(t)
         \/ Quiet
<1> USE DEF LockTypeOK, Quiet, device, history
<1>1. ASSUME NEW f, Open(f) \/ Release(f) PROVE Quiet
  BY <1>1 DEF Open, Release
<1>2. ASSUME NEW t \in Threads, NEW c, Begin(t, c) PROVE Quiet
  BY <1>2 DEF Begin
<1>3. ASSUME NEW t \in Threads, MutexLock(t) PROVE Quiet
  BY <1>3 DEF MutexLock
<1>4. ASSUME NEW t \in Threads, Step(t), ~StoreBytes(t), ~ExtractCommand(t) PROVE Quiet
  <2>1. CASE Read(t)
    BY <2>1 DEF Read, CopyToUser, Unlock
  <2>2. CASE AllocFails(t) \/ ExtractFails(t) \/ FinishWrite(t)
    BY <2>2 DEF AllocFails, ExtractFails, FinishWrite, LeaveWrite, Unlock
  <2>3. CASE LlseekSize(t) \/ FixedSizeLlseek(t)
    BY <2>3 DEF LlseekSize, FixedSizeLlseek, Unlock
  <2>4. CASE IoctlRefused(t)
    BY <2>4 DEF IoctlRefused
  <2>5. CASE IoctlSeek(t)
    BY <2>5 DEF IoctlSeek, SeekTo, Unlock
  <2>6. CASE Return(t)
    BY <2>6 DEF Return
  <2> QED BY <1>4, <2>1, <2>2, <2>3, <2>4, <2>5, <2>6 DEF Step
<1>5. CASE UNCHANGED vars
  BY <1>5 DEF vars
<1> QED BY <1>1, <1>2, <1>3, <1>4, <1>5
           DEF Next, BeginRead, BeginWrite, BeginLlseek, BeginIoctl

(* What a call carries stays in it. *)
LEMMA PacketsKept ==
  ASSUME LockTypeOK, CallsCarryPackets, [Next]_vars
  PROVE  CallsCarryPackets'
<1> USE DEF LockTypeOK, CallsCarryPackets
<1>1. ASSUME UNCHANGED call PROVE CallsCarryPackets'
  BY <1>1
<1>2. ASSUME NEW t \in Threads, NEW c, call' = [call EXCEPT ![t] = c],
             c.op = "write" => c.data \in Packets
      PROVE  CallsCarryPackets'
  BY <1>2
<1>3. ASSUME NEW t \in Threads, NEW n, call' = [call EXCEPT ![t].pos = n] PROVE CallsCarryPackets'
  BY <1>3
<1>4. ASSUME NEW f, Open(f) \/ Release(f) PROVE UNCHANGED call
  BY <1>4 DEF Open, Release
<1>5. ASSUME NEW t \in Threads, NEW f \in DOMAIN f_pos,
         \/ \E count \in Counts : BeginRead(t, f, count)
         \/ \E data \in Packets : BeginWrite(t, f, data)
         \/ \E offset \in Offsets, whence \in Whences : BeginLlseek(t, f, offset, whence)
         \/ \E seekto \in SeekArgs : BeginIoctl(t, f, seekto)
      PROVE CallsCarryPackets'
  <2>1. \E c : call' = [call EXCEPT ![t] = c] /\ (c.op = "write" => c.data \in Packets)
    BY <1>5 DEF BeginRead, BeginWrite, BeginLlseek, BeginIoctl, Begin
  <2> QED BY <2>1, <1>2
<1>6. ASSUME NEW t \in Threads, MutexLock(t) \/ Step(t) PROVE CallsCarryPackets'
  <2>1. CASE Read(t)
    BY <2>1, <1>1, <1>3 DEF Read, CopyToUser
  <2>2. CASE AllocFails(t) \/ ExtractFails(t) \/ StoreBytes(t) \/ ExtractCommand(t)
    BY <2>2, <1>1 DEF AllocFails, ExtractFails, StoreBytes, ExtractCommand, MoveCommand
  <2>3. CASE FinishWrite(t)
    BY <2>3, <1>3 DEF FinishWrite
  <2>4. CASE LlseekSize(t)
    <3>1. call' = [call EXCEPT ![t].total_size = TotalSize]
      BY <2>4 DEF LlseekSize
    <3> QED BY <3>1
  <2>5. CASE FixedSizeLlseek(t) \/ Return(t)
    BY <2>5, <1>2 DEF FixedSizeLlseek, Return, NoCall
  <2>6. CASE MutexLock(t) \/ IoctlRefused(t) \/ IoctlSeek(t)
    BY <2>6, <1>1 DEF MutexLock, IoctlRefused, IoctlSeek, SeekTo
  <2> QED BY <1>6, <2>1, <2>2, <2>3, <2>4, <2>5, <2>6 DEF Step
<1>7. CASE InitModule \/ SetupCdev \/ CleanupModule \/ UNCHANGED vars
  BY <1>7, <1>1 DEF InitModule, SetupCdev, CleanupModule, vars
<1> QED BY <1>1, <1>4, <1>5, <1>6, <1>7 DEF Next

(* Loading and unloading: the partial buffer the last load had is lost. *)
LEMMA MemModule ==
  ASSUME MemInv, InitModule \/ SetupCdev \/ CleanupModule
  PROVE  MemTypeOK' /\ Ownership' /\ Sizes' /\ Progress'
<1> USE DEF MemInv
<1>0. modstate # "live" => \A t \in Threads : pc[t] # "loop"
  BY DEF LockInv, CallsNeedFiles, InCall
<1>1. CASE InitModule
  <2>1. MemTypeOK'
    <3>1. leaked' \subseteq Blocks /\ IsFiniteSet(leaked')
      <4>1. leaked' = leaked \/ leaked' = leaked \cup {partial_write_buff}
        BY <1>1 DEF InitModule
      <4> QED BY <1>1, <4>1, FS_AddElement DEF InitModule, MemTypeOK
    <3> QED BY <1>1, <3>1, EmptyConsistent DEF InitModule, MemTypeOK
  <2>2. \A i \in Slots : Ptr(i)' = NULL
    BY <1>1, EmptyConsistent DEF InitModule, Ptr
  <2>3. InUse' = {}
    BY <2>2 DEF InUse, Ptr
  <2>4. Ownership' /\ Sizes' /\ Progress'
    BY <1>0, <1>1, <2>2, <2>3, CharAssumption
       DEF InitModule, Ownership, Sizes, Progress, MemTypeOK, Loaded
  <2> QED BY <2>1, <2>4
<1>2. CASE SetupCdev
  <2>1. \A i \in Slots : Ptr(i) = NULL /\ InUse = {}
    BY <1>2 DEF SetupCdev, Progress, InUse, Ptr
  <2> QED BY <1>0, <1>2, <2>1, CharAssumption
     DEF SetupCdev, device, history, MemTypeOK, Ownership, Sizes, Progress, Loaded, InUse, Ptr
<1>3. CASE CleanupModule
  <2>1. \A c \in Blocks : mem'[c] = IF \E i \in Slots : Ptr(i) = c THEN NULL ELSE mem[c]
    BY <1>3 DEF CleanupModule, Ptr
  <2>2. MemTypeOK'
    BY <1>3 DEF CleanupModule, MemTypeOK, history
  <2>3. \A i \in Slots : Ptr(i) # NULL => Ptr(i) \notin leaked /\ Ptr(i) # partial_write_buff
    BY <1>3 DEF CleanupModule, Ownership, Loaded, InUse, Ptr
  <2>4. Ownership' /\ Sizes'
    BY <1>3, <2>1, <2>3, CharAssumption DEF CleanupModule, Ownership, Sizes, MemTypeOK, Loaded, history
  <2>5. Progress'
    BY <1>3 DEF CleanupModule, Progress
  <2> QED BY <2>2, <2>4, <2>5
<1> QED BY <1>1, <1>2, <1>3

(* A step that leaves the device and the loading alone keeps all of it. *)
LEMMA MemQuiet ==
  ASSUME MemInv, Quiet
  PROVE  MemTypeOK' /\ Ownership' /\ Sizes' /\ Progress'
BY DEF MemInv, Quiet, device, MemTypeOK, Ownership, Sizes, Progress, Loaded, InUse, Ptr

-----------------------------------------------------------------------------
(* aesd_write under the mutex. *)

(* A thread in a call finds the module live. *)
LEMMA InCallLive ==
  ASSUME LockInv, NEW t \in Threads, pc[t] # "idle"
  PROVE  modstate = "live"
BY DEF LockInv, CallsNeedFiles, InCall

(* The bytes of the partial write buffer. *)
LEMMA PartialType ==
  ASSUME MemInv
  PROVE  /\ Partial \in Seq(Byte) /\ Len(Partial) = bytes_stored
         /\ partial_write_buff # NULL =>
              /\ mem[partial_write_buff] \in Seq(Byte)
              /\ \A i \in 1 .. bytes_stored : Partial[i] = mem[partial_write_buff][i]
<1>1. CASE partial_write_buff = NULL
  BY <1>1 DEF MemInv, Sizes, Partial
<1>2. CASE partial_write_buff # NULL
  <2>1. mem[partial_write_buff] \in Seq(Byte)
    BY <1>2 DEF MemInv, MemTypeOK, Ownership
  <2>2. bytes_stored \in 0 .. Len(mem[partial_write_buff])
    BY <1>2, <2>1 DEF MemInv, MemTypeOK, Sizes
  <2> QED BY <1>2, <2>1, <2>2, SubSeqProperties DEF Partial
<1> QED BY <1>1, <1>2

(* The partial buffer is allocated, or moved, and holds other bytes. *)
LEMMA MemRealloc ==
  ASSUME MemInv, Loaded, UNCHANGED <<modstate, buff, leaked>>,
         NEW b \in Free \cup ({partial_write_buff} \ {NULL}), NEW bytes \in Seq(Byte),
         mem' = [c \in Blocks |-> IF c = b THEN bytes
                                  ELSE IF c = partial_write_buff THEN NULL ELSE mem[c]],
         partial_write_buff' = b, bytes_stored' \in Nat, bytes_stored' <= Len(bytes)
  PROVE  MemTypeOK' /\ Ownership' /\ Sizes'
<1> USE DEF MemInv
<1>1. b \in Blocks /\ b # NULL
  BY CharAssumption DEF Free, MemTypeOK
<1>2. MemTypeOK'
  BY <1>1 DEF MemTypeOK
<1>3. bytes # NULL
  BY CharAssumption DEF Byte
<1>4. /\ b \notin leaked
      /\ \A i \in InUse : Ptr(i) # b
  BY DEF Ownership, Free, InUse, Ptr, MemTypeOK
<1>5. \A c \in Blocks : mem'[c] = IF c = b THEN bytes
                                  ELSE IF c = partial_write_buff THEN NULL ELSE mem[c]
  OBVIOUS
<1>6. InUse' = InUse /\ (\A i \in Slots : Ptr(i)' = Ptr(i)) /\ Loaded'
  BY DEF InUse, Ptr, Loaded
<1>7. \A i \in InUse : Ptr(i) \in Blocks /\ mem'[Ptr(i)] = mem[Ptr(i)]
  BY <1>4, <1>5 DEF InUse, Ptr, Ownership, MemTypeOK, BufferOf, EntryOf
<1>8. Ownership'
  <2>1. \A c \in Blocks : mem'[c] # NULL <=>
          c \in leaked \/ c = b \/ \E i \in Slots : Ptr(i) = c
    <3> SUFFICES ASSUME NEW c \in Blocks
                 PROVE  mem'[c] # NULL <=> c \in leaked \/ c = b \/ \E i \in Slots : Ptr(i) = c
      OBVIOUS
    <3>1. c = partial_write_buff /\ c # b => c \notin leaked /\ \A i \in Slots : Ptr(i) # c
      BY CharAssumption DEF Ownership, InUse, Ptr
    <3>2. mem[c] # NULL <=> c \in leaked \/ c = partial_write_buff \/ \E i \in Slots : Ptr(i) = c
      BY DEF Ownership
    <3> QED BY <1>3, <1>5, <3>1, <3>2
  <2>2. \A c \in Blocks : (\E i \in Slots : Ptr(i)' = c) <=> \E i \in Slots : Ptr(i) = c
    BY <1>6
  <2>3. /\ \A i \in InUse : Ptr(i) \notin leaked /\ Ptr(i) # b
        /\ \A i, j \in InUse : Ptr(i) = Ptr(j) => i = j
    BY <1>4 DEF Ownership
  <2>4. InUse \subseteq Slots
    BY DEF InUse
  <2> QED BY <1>4, <1>6, <2>1, <2>2, <2>3, <2>4 DEF Ownership
<1>9. Sizes'
  <2>1. \A i \in InUse : Len(mem'[Ptr(i)']) = buff'.entry[i].size
    BY <1>6, <1>7 DEF Sizes, InUse
  <2> QED BY <2>1, <1>1, <1>5, <1>6 DEF Sizes
<1> QED BY <1>2, <1>8, <1>9

(* StoreBytes keeps the memory exact: the block realloc left is free. *)
LEMMA MemStore ==
  ASSUME MemInv, NEW t \in Threads, StoreBytes(t)
  PROVE  MemTypeOK' /\ Ownership' /\ Sizes' /\ Progress'
<1> DEFINE data == call[t].data
           garbage == [i \in 1 .. Len(data) |-> UNINIT]
<1>1. modstate = "live" /\ Loaded
  BY InCallLive DEF StoreBytes, MemInv, Loaded
<1>2. data \in Seq(Byte) /\ garbage \in Seq(Byte) /\ Len(garbage) = Len(data)
  <2>1. data \in Seq(Bytes \cup {NL})
    BY CharAssumption DEF StoreBytes, MemInv, CallsCarryPackets
  <2>2. data \in Seq(Byte)
    BY <2>1 DEF Byte
  <2>3. Len(data) \in Nat /\ UNINIT \in Byte
    BY <2>2 DEF Byte
  <2> HIDE DEF data
  <2> QED BY <2>2, <2>3
<1>3. /\ Partial \o data \in Seq(Byte) /\ Len(Partial \o data) = Len(Partial) + Len(data)
      /\ Partial \o garbage \in Seq(Byte) /\ Len(Partial \o garbage) = Len(Partial) + Len(data)
  <2> HIDE DEF data, garbage
  <2>1. Partial \in Seq(Byte)
    BY PartialType
  <2>2. \A s \in Seq(Byte) : /\ Partial \o s \in Seq(Byte)
                             /\ Len(Partial \o s) = Len(Partial) + Len(s)
    BY <2>1, ConcatProperties, Zenon
  <2> QED BY <1>2, <2>2
<1>4. PICK b \in Free \cup ({partial_write_buff} \ {NULL}) :
        /\ partial_write_buff' = b
        /\ \E bytes \in {Partial \o data, Partial \o garbage} :
             /\ mem' = [c \in Blocks |-> IF c = b THEN bytes
                                         ELSE IF c = partial_write_buff THEN NULL ELSE mem[c]]
             /\ bytes_stored' \in {Len(Partial), Len(bytes)}
  <2> HIDE DEF garbage
  <2> USE <1>3
  <2>1. garbage = [i \in 1 .. Len(call[t].data) |-> UNINIT]
    BY DEF garbage
  <2> QED BY <2>1 DEF StoreBytes
<1>5. UNCHANGED <<modstate, buff, leaked>>
  BY DEF StoreBytes
<1>6. MemTypeOK' /\ Ownership' /\ Sizes'
  <2> HIDE DEF data, garbage
  <2>1. PICK bytes \in {Partial \o data, Partial \o garbage} :
             /\ mem' = [c \in Blocks |-> IF c = b THEN bytes
                                         ELSE IF c = partial_write_buff THEN NULL ELSE mem[c]]
             /\ bytes_stored' \in {Len(Partial), Len(bytes)}
    BY <1>4
  <2>2. bytes \in Seq(Byte) /\ Len(bytes) = Len(Partial) + Len(data)
    BY <1>3, <2>1
  <2>3. Len(Partial) \in Nat /\ Len(data) \in Nat
    BY <1>2, PartialType, LenProperties
  <2>4. bytes_stored' \in Nat /\ bytes_stored' <= Len(bytes)
    BY <2>1, <2>2, <2>3
  <2> QED BY <1>1, <1>4, <1>5, <2>1, <2>2, <2>4, MemRealloc
<1>7. Progress'
  BY <1>1, <1>4, <1>5, CharAssumption DEF Progress, Free
<1> QED BY <1>6, <1>7

(* The first newline of the partial buffer. *)
LEMMA FirstNewline ==
  ASSUME MemInv, Newlines # {}
  PROVE  /\ Min(Newlines) \in 1 .. bytes_stored
         /\ mem[partial_write_buff][Min(Newlines)] = NL
         /\ \A j \in 1 .. bytes_stored :
              j < Min(Newlines) => mem[partial_write_buff][j] # NL
<1>1. Newlines \in SUBSET Nat /\ bytes_stored \in Nat
  BY DEF Newlines, MemInv, MemTypeOK
<1>2. Min(Newlines) \in Newlines /\ \A k \in Newlines : Min(Newlines) <= k
  BY <1>1, MinOf
<1> QED BY <1>1, <1>2 DEF Newlines

(* A command moves: the new block b gets its bytes, the block of the command *)
(* that is overwritten is freed, and the partial buffer keeps its block.     *)
Shifted ==
  LET rest == bytes_stored - Min(Newlines)
      bytes == mem[partial_write_buff]
  IN  [i \in 1 .. Len(bytes) |-> bytes[IF i <= rest THEN i + Min(Newlines) ELSE i]]

Extracts(b) ==
  /\ b \in Free /\ b # NULL /\ b # partial_write_buff /\ b \notin leaked
  /\ buff' = AddEntry(buff, [buffptr |-> b, size |-> Min(Newlines)])
  /\ buff.in_offs \in Slots /\ InUse' = InUse \cup {buff.in_offs}
  /\ \A i \in Slots : buff'.entry[i] = IF i = buff.in_offs
                        THEN [buffptr |-> b, size |-> Min(Newlines)] ELSE buff.entry[i]
  /\ \A i \in Slots : Ptr(i) # b /\ Ptr(i)' = IF i = buff.in_offs THEN b ELSE Ptr(i)
  /\ \A i \in InUse \ {buff.in_offs} : Ptr(i) # Ptr(buff.in_offs)
  /\ partial_write_buff # Ptr(buff.in_offs) /\ Ptr(buff.in_offs) \notin leaked
  /\ mem' = [c \in Blocks |->
               IF c = b THEN SubSeq(mem[partial_write_buff], 1, Min(Newlines))
               ELSE IF c = Ptr(buff.in_offs) THEN NULL
               ELSE IF c = partial_write_buff THEN Shifted ELSE mem[c]]

(* What a turn of the loop of aesd_write does to the memory. *)
LEMMA ExtractEffect ==
  ASSUME MemInv, NEW t \in Threads, ExtractCommand(t)
  PROVE  /\ Loaded /\ partial_write_buff \in Blocks
         /\ Min(Newlines) \in 1 .. bytes_stored /\ bytes_stored <= Len(mem[partial_write_buff])
         /\ bytes_stored' = bytes_stored - Min(Newlines)
         /\ UNCHANGED <<modstate, partial_write_buff, leaked, pc>>
         /\ \E b \in Blocks :
              /\ Extracts(b)
              /\ mem'[b] = SubSeq(mem[partial_write_buff], 1, Min(Newlines))
              /\ mem'[partial_write_buff] = Shifted
              /\ \A i \in InUse \ {buff.in_offs} : mem'[Ptr(i)] = mem[Ptr(i)]
<1> DEFINE length == Min(Newlines)
           p      == partial_write_buff
           freed  == OverwrittenEntry(buff)
<1> USE DEF MemInv
<1>1. modstate = "live" /\ Loaded /\ p # NULL /\ p \in Blocks
  BY InCallLive DEF ExtractCommand, Loaded, Progress, MemTypeOK
<1>2. length \in 1 .. bytes_stored /\ bytes_stored <= Len(mem[p])
  BY <1>1, FirstNewline DEF ExtractCommand, Sizes
<1>3. PICK b \in Free :
        /\ buff' = AddEntry(buff, [buffptr |-> b, size |-> length])
        /\ mem' = [c \in Blocks |-> IF c = b THEN SubSeq(mem[p], 1, length)
                                    ELSE IF c = freed THEN NULL
                                    ELSE IF c = p THEN Shifted ELSE mem[c]]
  BY DEF ExtractCommand, MoveCommand, Shifted
<1>4. bytes_stored' = bytes_stored - length /\ UNCHANGED <<modstate, partial_write_buff, leaked, pc>>
  BY DEF ExtractCommand, MoveCommand, history
<1> HIDE DEF length
<1>5. /\ b \in Blocks /\ b # NULL /\ b # p /\ b \notin leaked
      /\ \A i \in Slots : Ptr(i) # b
  BY <1>1, CharAssumption DEF Free, Ownership
<1>6. /\ buff.entry \in [Slots -> EntryOf(Blocks)] /\ buff.in_offs \in Slots
      /\ \A i \in Slots : buff'.entry[i] = IF i = buff.in_offs
                            THEN [buffptr |-> b, size |-> length] ELSE buff.entry[i]
      /\ freed = Ptr(buff.in_offs)
  <2>1. buff \in BufferOf(Blocks) /\ Consistent(buff)
    BY DEF MemTypeOK
  <2>2. buff.entry \in [Slots -> EntryOf(Blocks)] /\ buff.in_offs \in Slots
    BY <2>1 DEF BufferOf
  <2>3. buff'.entry = [buff.entry EXCEPT ![buff.in_offs] = [buffptr |-> b, size |-> length]]
    BY <1>3, AddEntryFields
  <2>4. freed = Ptr(buff.in_offs)
    <3>1. ~buff.full => buff.entry[buff.in_offs].buffptr = NULL
      BY <2>1, <2>2 DEF Consistent, Slots
    <3> QED BY <2>1, <3>1 DEF Consistent, OverwrittenEntry, Ptr
  <2> QED BY <2>2, <2>3, <2>4
<1> HIDE DEF freed
<1>7. /\ InUse' = InUse \cup {buff.in_offs}
      /\ \A i \in Slots : Ptr(i)' = IF i = buff.in_offs THEN b ELSE Ptr(i)
  <2>1. \A i \in Slots : buff'.entry[i].buffptr = IF i = buff.in_offs THEN b ELSE buff.entry[i].buffptr
    BY <1>6
  <2>2. InUse' = InUse \cup {buff.in_offs}
    BY <1>5, <1>6, <2>1 DEF InUse
  <2> QED BY <1>6, <2>1, <2>2 DEF Ptr
<1>8. /\ \A i \in InUse : Ptr(i) \in Blocks /\ Ptr(i) \notin leaked /\ Ptr(i) # p
      /\ \A i, j \in InUse : Ptr(i) = Ptr(j) => i = j
  BY <1>1, <1>6 DEF Ownership, InUse, Ptr, EntryOf
<1>9. \A i \in InUse \ {buff.in_offs} : Ptr(i) # freed
  BY <1>6, <1>8 DEF InUse, Ptr
<1>10. p # freed /\ freed \notin leaked
  BY <1>1, <1>6, <1>8, CharAssumption DEF InUse, Ptr, MemTypeOK
<1>11. Extracts(b)
  BY <1>3, <1>5, <1>6, <1>7, <1>9, <1>10 DEF Extracts, length
<1>12. /\ mem'[b] = SubSeq(mem[p], 1, length) /\ mem'[p] = Shifted
       /\ \A i \in InUse \ {buff.in_offs} : mem'[Ptr(i)] = mem[Ptr(i)]
  <2>1. \A i \in InUse : Ptr(i) # b
    BY <1>5 DEF InUse
  <2> QED BY <1>1, <1>3, <1>5, <1>8, <1>9, <1>10, <2>1
<1> QED BY <1>1, <1>2, <1>4, <1>5, <1>11, <1>12 DEF length

(* ExtractCommand keeps it exact: one block in, the overwritten one out. *)
LEMMA MemExtract ==
  ASSUME MemInv, NEW t \in Threads, ExtractCommand(t)
  PROVE  MemTypeOK' /\ Ownership' /\ Sizes' /\ Progress'
<1> DEFINE length == Min(Newlines)
           p      == partial_write_buff
<1> USE DEF MemInv
<1>1. /\ Loaded /\ p \in Blocks /\ p # NULL
      /\ length \in 1 .. bytes_stored /\ bytes_stored <= Len(mem[p])
      /\ bytes_stored' = bytes_stored - length
      /\ UNCHANGED <<modstate, partial_write_buff, leaked, pc>>
  BY ExtractEffect, CharAssumption
<1>2. PICK b \in Blocks :
        /\ Extracts(b)
        /\ mem'[b] = SubSeq(mem[p], 1, length) /\ mem'[p] = Shifted
        /\ \A i \in InUse \ {buff.in_offs} : mem'[Ptr(i)] = mem[Ptr(i)]
  BY ExtractEffect
<1>3. /\ mem[p] \in Seq(Byte) /\ Len(mem[p]) \in Nat /\ bytes_stored \in Nat
      /\ SubSeq(mem[p], 1, length) \in Seq(Byte) /\ Len(SubSeq(mem[p], 1, length)) = length
      /\ Shifted \in Seq(Byte) /\ Len(Shifted) = Len(mem[p])
  <2> HIDE DEF length
  <2>1. mem[p] \in Seq(Byte) /\ Len(mem[p]) \in Nat /\ bytes_stored \in Nat
    BY <1>1, PartialType DEF MemTypeOK
  <2>2. SubSeq(mem[p], 1, length) \in Seq(Byte) /\ Len(SubSeq(mem[p], 1, length)) = length
    BY <1>1, <2>1, SubSeqProperties
  <2>3. Shifted = [i \in 1 .. Len(mem[p]) |->
                     mem[p][IF i <= bytes_stored - length THEN i + length ELSE i]]
    BY DEF Shifted, length
  <2>4. \A i \in 1 .. Len(mem[p]) :
          mem[p][IF i <= bytes_stored - length THEN i + length ELSE i] \in Byte
    BY <1>1, <2>1
  <2> QED BY <2>1, <2>2, <2>3, <2>4
<1> HIDE DEF length
<1>4. MemTypeOK'
  <2> DEFINE e == [buffptr |-> b, size |-> length]
  <2>1. e \in EntryOf(Blocks) /\ e.buffptr # NULL
    BY <1>1, <1>2, <1>3 DEF EntryOf, Extracts
  <2>2. buff' \in BufferOf(Blocks) /\ Consistent(buff')
    <3>1. buff' = AddEntry(buff, e)
      BY <1>2 DEF Extracts, length
    <3> HIDE DEF e
    <3> QED BY <2>1, <3>1, AddEntryType, AddEntryConsistent DEF MemTypeOK
  <2>3. mem' \in [Blocks -> Seq(Byte) \cup {NULL}]
    BY <1>2, <1>3 DEF MemTypeOK, Extracts, length
  <2> QED BY <1>1, <1>3, <2>2, <2>3 DEF MemTypeOK
<1>5. Ownership'
  <2>1. ASSUME NEW c \in Blocks
        PROVE  mem'[c] # NULL <=> \/ c \in leaked \/ c = p
                                  \/ c = b \/ \E i \in Slots \ {buff.in_offs} : Ptr(i) = c
    <3>1. mem[c] # NULL <=> c \in leaked \/ c = p \/ \E i \in Slots : Ptr(i) = c
      BY <1>1 DEF Ownership
    <3>2. SubSeq(mem[p], 1, length) # NULL /\ Shifted # NULL
      BY <1>3, CharAssumption DEF Byte
    <3>3. CASE c = b \/ c = p
      BY <1>2, <3>2, <3>3
    <3>4. CASE c # b /\ c # p /\ c = Ptr(buff.in_offs)
      <4>1. mem'[c] = NULL
        BY <1>2, <3>4 DEF Extracts
      <4>2. \A i \in Slots \ {buff.in_offs} : Ptr(i) # c
        BY <1>2, <3>4, CharAssumption DEF InUse, Ptr, Extracts
      <4> QED BY <1>2, <3>4, <4>1, <4>2 DEF Extracts
    <3>5. CASE c # b /\ c # p /\ c # Ptr(buff.in_offs)
      BY <1>2, <3>1, <3>5 DEF Extracts
    <3> QED BY <3>3, <3>4, <3>5
  <2>2. \A c \in Blocks : (\E i \in Slots : Ptr(i)' = c) <=>
                          (c = b \/ \E i \in Slots \ {buff.in_offs} : Ptr(i) = c)
    BY <1>2 DEF Extracts
  <2>3. /\ \A i \in InUse' : Ptr(i)' \notin leaked /\ Ptr(i)' # p
        /\ \A i, j \in InUse' : Ptr(i)' = Ptr(j)' => i = j
    <3>1. \A i \in InUse' : /\ i \in InUse \/ i = buff.in_offs
                            /\ Ptr(i)' = IF i = buff.in_offs THEN b ELSE Ptr(i)
      BY <1>2 DEF InUse, Extracts
    <3>2. \A i \in InUse : Ptr(i) # b /\ Ptr(i) \notin leaked /\ Ptr(i) # p
      BY <1>1, <1>2 DEF InUse, Extracts, Ownership
    <3>3. ASSUME NEW i \in InUse' PROVE Ptr(i)' \notin leaked /\ Ptr(i)' # p
      BY <1>2, <3>1, <3>2 DEF Extracts
    <3>4. ASSUME NEW i \in InUse', NEW j \in InUse', Ptr(i)' = Ptr(j)' PROVE i = j
      BY <1>1, <3>1, <3>2, <3>4 DEF Ownership
    <3> QED BY <3>3, <3>4
  <2> QED BY <1>1, <2>1, <2>2, <2>3 DEF Ownership, Loaded
<1>6. Sizes'
  <2>1. ASSUME NEW i \in InUse' PROVE Len(mem'[Ptr(i)']) = buff'.entry[i].size
    <3>1. CASE i = buff.in_offs
      <4>1. Ptr(i)' = b /\ buff'.entry[i].size = length
        BY <1>2, <3>1 DEF Extracts, length
      <4> QED BY <1>2, <1>3, <4>1
    <3>2. CASE i # buff.in_offs
      <4>1. i \in InUse /\ Ptr(i)' = Ptr(i) /\ buff'.entry[i] = buff.entry[i]
        BY <1>2, <3>2 DEF InUse, Extracts
      <4> QED BY <1>1, <1>2, <3>2, <4>1 DEF Sizes
    <3> QED BY <3>1, <3>2
  <2>2. bytes_stored' <= Len(mem'[p])
    BY <1>1, <1>2, <1>3
  <2> QED BY <1>1, <2>1, <2>2 DEF Sizes
<1>7. Progress'
  BY <1>1 DEF Progress, Loaded, ExtractCommand, MoveCommand, LockInv, CallsNeedFiles, InCall
<1> QED BY <1>4, <1>5, <1>6, <1>7

(* MemInv is inductive. *)
LEMMA MemStep == MemInv /\ [Next]_vars => MemInv'
<1> SUFFICES ASSUME MemInv, [Next]_vars PROVE MemInv'
  OBVIOUS
<1>1. LockInv' /\ CallsCarryPackets'
  BY LockStep, PacketsKept DEF MemInv, LockInv
<1>2. MemTypeOK' /\ Ownership' /\ Sizes' /\ Progress'
  <2>1. CASE InitModule \/ SetupCdev \/ CleanupModule
    BY <2>1, MemModule
  <2>2. ASSUME NEW t \in Threads, StoreBytes(t) \/ ExtractCommand(t)
        PROVE  MemTypeOK' /\ Ownership' /\ Sizes' /\ Progress'
    BY <2>2, MemStore, MemExtract
  <2>3. CASE Quiet
    BY <2>3, MemQuiet
  <2> QED BY <2>1, <2>2, <2>3, DeviceSteps DEF MemInv, LockInv
<1> QED BY <1>1, <1>2 DEF MemInv

(* The elements of two disjoint finite sets. *)
LEMMA DisjointUnion ==
  ASSUME NEW S, IsFiniteSet(S), NEW T, IsFiniteSet(T), S \cap T = {}
  PROVE  /\ IsFiniteSet(S \cup T)
         /\ Cardinality(S \cup T) = Cardinality(S) + Cardinality(T)
<1>1. Cardinality(S) \in Nat /\ Cardinality(T) \in Nat
  BY FS_CardinalityType
<1>2. IsFiniteSet(S \cup T)
      /\ Cardinality(S \cup T) = Cardinality(S) + Cardinality(T) - Cardinality(S \cap T)
  BY FS_Union
<1>3. Cardinality(S \cap T) = 0
  BY FS_EmptySet
<1> QED BY <1>1, <1>2, <1>3

(* For any number of slots, threads and blocks: at every step of every call *)
(* each pointer of the device leads to an allocated block of its own, of    *)
(* the length the device has noted, and nothing is lost while the module is *)
(* loaded.  What an earlier load left in the partial buffer is lost.        *)
THEOREM HeapAlwaysExact == Spec => []HeapExact
<1>1. MemInv => HeapExact
  <2> SUFFICES ASSUME MemInv, Loaded PROVE HeapExact
    BY DEF HeapExact, Loaded
  <2> DEFINE commands == {buff.entry[i].buffptr : i \in InUse}
             partial  == {partial_write_buff} \ {NULL}
  <2>1. /\ partial_write_buff \in Blocks \cup {NULL} /\ leaked \subseteq Blocks
        /\ commands \subseteq Blocks /\ NULL \notin commands
    BY DEF MemInv, MemTypeOK, BufferOf, EntryOf, InUse
  <2>2. Blocks \ Free = commands \cup partial \cup leaked
    <3>1. \A c \in Blocks : c \in commands <=> \E i \in Slots : Ptr(i) = c
      BY CharAssumption DEF InUse, Ptr
    <3> QED BY <2>1, <3>1, CharAssumption DEF MemInv, Ownership, Free, Loaded
  <2>3. commands \cap partial = {} /\ (commands \cup partial) \cap leaked = {}
    BY DEF MemInv, Ownership, Loaded, Ptr
  <2>4. IsFiniteSet(InUse) /\ IsFiniteSet(commands) /\ Cardinality(commands) = Cardinality(InUse)
    <3>1. IsFiniteSet(InUse)
      <4>1. IsFiniteSet(Slots)
        BY FS_Interval, NAssumption DEF Slots
      <4> QED BY <4>1, FS_Subset DEF InUse
    <3> DEFINE f == [i \in InUse |-> Ptr(i)]
    <3>2. f \in [InUse -> commands] /\ \A c \in commands : \E i \in InUse : f[i] = c
      BY DEF Ptr
    <3>3. \A i, j \in InUse : f[i] = f[j] => i = j
      BY DEF MemInv, Ownership, Loaded
    <3> HIDE DEF f, commands
    <3>4. ExistsBijection(InUse, commands)
      BY <3>2, <3>3 DEF ExistsBijection, Bijection, Injection, Surjection, IsInjective
    <3> QED BY <3>1, <3>4, FS_Bijection
  <2>5. IsFiniteSet(partial) /\ IsFiniteSet(leaked)
    BY FS_Singleton, FS_EmptySet, FS_Subset DEF MemInv, MemTypeOK
  <2>6. Cardinality(Blocks \ Free) = Cardinality(InUse) + Cardinality(partial) + Cardinality(leaked)
    <3> HIDE DEF commands, partial
    <3>1. IsFiniteSet(commands \cup partial)
          /\ Cardinality(commands \cup partial) = Cardinality(commands) + Cardinality(partial)
      BY <2>3, <2>4, <2>5, DisjointUnion
    <3>2. Cardinality(commands \cup partial \cup leaked) =
            Cardinality(commands \cup partial) + Cardinality(leaked)
      BY <2>3, <2>5, <3>1, DisjointUnion
    <3> QED BY <2>2, <2>4, <3>1, <3>2
  <2>7. \A i \in InUse : Len(mem[buff.entry[i].buffptr]) = buff.entry[i].size
    BY DEF MemInv, Sizes, Loaded, Ptr
  <2>8. bytes_stored <= IF partial = {} THEN 0 ELSE Len(mem[partial_write_buff])
    BY DEF MemInv, Sizes, MemTypeOK
  <2> QED BY <2>2, <2>6, <2>7, <2>8 DEF HeapExact
<1> QED BY <1>1, MemInit, MemStep, PTL DEF Spec

-----------------------------------------------------------------------------
(* Framing: the loop of aesd_write cuts at the first newline there is, and  *)
(* nothing writes to the block of a command once it is in the buffer.       *)

(* StoreBytes touches no block of a command. *)
LEMMA StoreKeepsCommands ==
  ASSUME MemInv, NEW t \in Threads, StoreBytes(t)
  PROVE  /\ Loaded /\ UNCHANGED <<modstate, buff>>
         /\ \A i \in InUse : mem'[Ptr(i)] = mem[Ptr(i)]
<1>1. Loaded /\ UNCHANGED <<modstate, buff>>
  BY InCallLive DEF StoreBytes, MemInv, Loaded
<1>2. PICK b \in Free \cup ({partial_write_buff} \ {NULL}) :
        \A c \in Blocks : c # b /\ c # partial_write_buff => mem'[c] = mem[c]
  BY DEF StoreBytes
<1>3. \A i \in InUse : Ptr(i) \in Blocks /\ Ptr(i) # b /\ Ptr(i) # partial_write_buff
  BY <1>1 DEF MemInv, MemTypeOK, Ownership, BufferOf, EntryOf, Free, InUse, Ptr
<1> QED BY <1>1, <1>2, <1>3

(* There are no commands yet. *)
LEMMA FramingInit == Init => Framing
BY DEF Init, Framing

(* The new command ends at the first newline of the partial buffer. *)
LEMMA FramingExtract ==
  ASSUME MemInv, Framing, NEW t \in Threads, ExtractCommand(t)
  PROVE  Framing'
<1> DEFINE p == partial_write_buff
<1>1. PICK b \in Blocks :
        /\ Extracts(b)
        /\ mem'[b] = SubSeq(mem[p], 1, Min(Newlines))
        /\ \A i \in InUse \ {buff.in_offs} : mem'[Ptr(i)] = mem[Ptr(i)]
  BY ExtractEffect
<1>2. /\ Loaded /\ p # NULL /\ p \in Blocks
      /\ Min(Newlines) \in 1 .. bytes_stored /\ bytes_stored <= Len(mem[p])
      /\ mem[p] \in Seq(Byte) /\ bytes_stored \in Nat
  BY ExtractEffect, PartialType, CharAssumption DEF MemInv, MemTypeOK
<1>3. \A j \in 1 .. Min(Newlines) : mem'[b][j] = mem[p][j]
  BY <1>1, <1>2, SubSeqProperties
<1>4. \A j \in 1 .. Min(Newlines) : mem'[b][j] = NL <=> j = Min(Newlines)
  BY <1>2, <1>3, FirstNewline DEF ExtractCommand
<1>5. ASSUME NEW i \in InUse', NEW j \in 1 .. buff'.entry[i].size
      PROVE  mem'[buff'.entry[i].buffptr][j] = NL <=> j = buff'.entry[i].size
  <2>1. CASE i = buff.in_offs
    <3>1. buff'.entry[i].buffptr = b /\ buff'.entry[i].size = Min(Newlines)
      BY <1>1, <2>1 DEF Extracts
    <3> HIDE DEF Newlines
    <3> QED BY <1>4, <1>5, <3>1
  <2>2. CASE i # buff.in_offs
    <3>1. i \in InUse /\ buff'.entry[i] = buff.entry[i]
      BY <1>1, <2>2 DEF Extracts, InUse
    <3>2. mem'[buff.entry[i].buffptr] = mem[buff.entry[i].buffptr]
      BY <1>1, <2>2, <3>1 DEF Ptr
    <3> QED BY <1>2, <1>5, <3>1, <3>2 DEF Framing, Loaded
  <2> QED BY <2>1, <2>2
<1> QED BY <1>5 DEF Framing

(* Framing is inductive beside MemInv. *)
LEMMA FramingStep == MemInv /\ Framing /\ [Next]_vars => Framing'
<1> SUFFICES ASSUME MemInv, Framing, [Next]_vars PROVE Framing'
  OBVIOUS
<1>1. CASE InitModule
  BY <1>1, EmptyConsistent DEF InitModule, Framing, InUse
<1>2. CASE SetupCdev
  BY <1>2 DEF SetupCdev, device, Framing, InUse
<1>3. CASE CleanupModule
  BY <1>3 DEF CleanupModule, Framing
<1>4. ASSUME NEW t \in Threads, StoreBytes(t) PROVE Framing'
  <2>1. /\ Loaded /\ UNCHANGED <<modstate, buff>>
        /\ \A i \in InUse : mem'[Ptr(i)] = mem[Ptr(i)]
    BY <1>4, StoreKeepsCommands
  <2> QED BY <2>1 DEF Framing, Loaded, InUse, Ptr
<1>5. ASSUME NEW t \in Threads, ExtractCommand(t) PROVE Framing'
  BY <1>5, FramingExtract
<1>6. CASE Quiet
  BY <1>6 DEF Quiet, device, Framing, InUse
<1> QED BY <1>1, <1>2, <1>3, <1>4, <1>5, <1>6, DeviceSteps DEF MemInv, LockInv

(* However the bytes were split over writes, whatever failed in between and *)
(* however often the buffer wrapped: every command a reader finds ends at   *)
(* its newline and has no other.                                            *)
THEOREM CommandsAlwaysFramed == Spec => []Framing
BY MemInit, MemStep, FramingInit, FramingStep, PTL DEF Spec

-----------------------------------------------------------------------------
(* No byte is lost: what the device holds, put end to end, is the accepted  *)
(* stream but for the commands that were overwritten.  Which bytes those    *)
(* are has to be said while they accumulate; StreamConserved only says that *)
(* there are some, and none before the buffer is full.                      *)
Kept == FlattenSeq(Device.lines) \o Device.tail

StreamInv ==
  Loaded => \E dropped \in Seq(Byte) : /\ stream = dropped \o Kept
                                       /\ ~buff.full => dropped = << >>

(* Every slot of the window is in use, and its command is all of its block. *)
LEMMA WindowInUse ==
  ASSUME MemInv, Loaded, NEW k \in 1 .. EntryCount(buff)
  PROVE  /\ SlotAt(buff, k - 1) \in InUse
         /\ Window(buff)[k] = buff.entry[SlotAt(buff, k - 1)]
         /\ buff.full /\ k # 1 => SlotAt(buff, k - 1) # buff.in_offs
         /\ ~buff.full => SlotAt(buff, k - 1) # buff.in_offs
<1>1. buff \in BufferOf(Blocks) /\ Consistent(buff)
  BY DEF MemInv, MemTypeOK
<1>2. buff.in_offs \in Slots /\ buff.out_offs \in Slots /\ buff.full \in BOOLEAN
  BY <1>1 DEF BufferOf
<1>3. /\ EntryCount(buff) \in 0 .. N /\ N \in Nat
      /\ Window(buff)[k] = buff.entry[SlotAt(buff, k - 1)]
  BY <1>1, WindowShape, NAssumption DEF Consistent
<1>4. k - 1 \in 0 .. N - 1 /\ k - 1 \in 0 .. N
  BY <1>3
<1>5. /\ SlotAt(buff, k - 1) \in Slots
      /\ SlotAt(buff, k - 1) = IF buff.out_offs + (k - 1) < N THEN buff.out_offs + (k - 1)
                               ELSE buff.out_offs + (k - 1) - N
  BY <1>2, <1>4, SlotAtWraps
<1>6. CASE buff.full
  <2>1. SlotAt(buff, k - 1) \in InUse
    BY <1>1, <1>5, <1>6 DEF Consistent, InUse
  <2>2. k # 1 => SlotAt(buff, k - 1) # buff.in_offs
    BY <1>1, <1>2, <1>3, <1>4, <1>5, <1>6 DEF Consistent, Slots
  <2> QED BY <1>3, <1>6, <2>1, <2>2
<1>7. CASE ~buff.full
  <2>1. buff.out_offs = 0 /\ EntryCount(buff) = buff.in_offs
    BY <1>1, <1>2, <1>7 DEF Consistent, EntryCount, Slots
  <2>2. SlotAt(buff, k - 1) = k - 1 /\ k - 1 < buff.in_offs
    BY <1>2, <1>3, <1>4, <1>5, <2>1 DEF Slots
  <2>3. SlotAt(buff, k - 1) \in InUse
    BY <1>1, <1>5, <2>2 DEF Consistent, InUse
  <2>4. SlotAt(buff, k - 1) # buff.in_offs
    BY <1>2, <2>2 DEF Slots
  <2> QED BY <1>3, <1>7, <2>3, <2>4
<1> QED BY <1>2, <1>6, <1>7

(* The device as its users see it. *)
LEMMA DeviceShape ==
  ASSUME MemInv, Loaded
  PROVE  /\ Device.tail = Partial /\ Partial \in Seq(Byte)
         /\ Device.lines \in Seq(Seq(Byte)) /\ Len(Device.lines) = EntryCount(buff)
         /\ \A k \in 1 .. EntryCount(buff) :
              LET e == buff.entry[SlotAt(buff, k - 1)]
              IN  Device.lines[k] = SubSeq(mem[e.buffptr], 1, e.size)
         /\ FlattenSeq(Device.lines) \in Seq(Byte)
         /\ Kept \in Seq(Byte)
<1>1. Device.tail = Partial /\ Partial \in Seq(Byte)
  BY PartialType DEF Device
<1>2. EntryCount(buff) \in Nat
  BY WindowShape, NAssumption DEF MemInv, MemTypeOK, Consistent
<1>3. ASSUME NEW k \in 1 .. EntryCount(buff)
      PROVE  LET e == buff.entry[SlotAt(buff, k - 1)]
             IN  /\ Command(Window(buff)[k]) = SubSeq(mem[e.buffptr], 1, e.size)
                 /\ Command(Window(buff)[k]) \in Seq(Byte)
  <2> DEFINE i == SlotAt(buff, k - 1)
  <2>1. i \in InUse /\ i \in Slots /\ Window(buff)[k] = buff.entry[i]
    BY WindowInUse DEF InUse
  <2>2. /\ mem[Ptr(i)] \in Seq(Byte) /\ buff.entry[i].size \in Nat
        /\ Len(mem[Ptr(i)]) = buff.entry[i].size
    BY <2>1 DEF MemInv, MemTypeOK, Ownership, Sizes, BufferOf, EntryOf, InUse, Ptr
  <2> HIDE DEF i
  <2>3. Command(buff.entry[i]) = SubSeq(mem[buff.entry[i].buffptr], 1, buff.entry[i].size)
    BY DEF Command
  <2>4. Command(buff.entry[i]) \in Seq(Byte)
    <3> DEFINE s == mem[Ptr(i)]
    <3>1. Command(buff.entry[i]) = SubSeq(s, 1, Len(s)) /\ s \in Seq(Byte)
      BY <2>2, <2>3 DEF Ptr
    <3> QED BY <3>1, CutAndJoin
  <2> QED BY <2>1, <2>3, <2>4 DEF i
<1>4. /\ Device.lines \in Seq(Seq(Byte)) /\ Len(Device.lines) = EntryCount(buff)
      /\ \A k \in 1 .. EntryCount(buff) : Device.lines[k] = Command(Window(buff)[k])
  BY <1>2, <1>3 DEF Device
<1>5. FlattenSeq(Device.lines) \in Seq(Byte)
  BY <1>4, FlattenType
<1>6. Kept \in Seq(Byte)
  BY <1>1, <1>5, ConcatProperties DEF Kept
<1> QED BY <1>1, <1>3, <1>4, <1>5, <1>6

(* What the next state keeps, in terms of its own lines and bytes. *)
LEMMA NextLines ==
  Device.lines' = [k \in 1 .. EntryCount(buff') |->
                     SubSeq(mem'[Window(buff')[k].buffptr], 1, Window(buff')[k].size)]
BY DEF Device, Command, Window, EntryCount, SlotAt

(* StoreBytes leaves the commands alone, and adds to the partial buffer what *)
(* it adds to the stream: the data of the write, or nothing.                 *)
LEMMA StoreKeepsLines ==
  ASSUME MemInv, NEW t \in Threads, StoreBytes(t)
  PROVE  Device.lines' = Device.lines
<1>1. /\ Loaded /\ UNCHANGED <<modstate, buff>>
      /\ \A i \in InUse : mem'[Ptr(i)] = mem[Ptr(i)]
  BY StoreKeepsCommands
<1>2. ASSUME NEW k \in 1 .. EntryCount(buff)
      PROVE  mem'[Window(buff)[k].buffptr] = mem[Window(buff)[k].buffptr]
  BY <1>1, WindowInUse DEF Ptr
<1>3. EntryCount(buff') = EntryCount(buff) /\ Window(buff') = Window(buff)
  BY <1>1
<1>4. Device.lines = [k \in 1 .. EntryCount(buff) |->
                        SubSeq(mem[Window(buff)[k].buffptr], 1, Window(buff)[k].size)]
  BY DEF Device, Command
<1>5. Device.lines' = [k \in 1 .. EntryCount(buff) |->
                         SubSeq(mem'[Window(buff)[k].buffptr], 1, Window(buff)[k].size)]
  BY <1>3, NextLines
<1> QED BY <1>2, <1>4, <1>5

(* StoreBytes adds to the partial buffer what it adds to the stream, or nothing. *)
LEMMA StoreStream ==
  ASSUME MemInv, NEW t \in Threads, StoreBytes(t)
  PROVE  /\ call[t].data \in Seq(Byte)
         /\ \/ /\ pc' = [pc EXCEPT ![t] = "loop"] /\ UNCHANGED view
               /\ Partial' = Partial \o call[t].data /\ stream' = stream \o call[t].data
            \/ /\ LeaveWrite(t, "fail")
               /\ Partial' = Partial /\ stream' = stream
<1> DEFINE data == call[t].data
           garbage == [i \in 1 .. Len(data) |-> UNINIT]
<1>1. data \in Seq(Byte) /\ garbage \in Seq(Byte) /\ Len(garbage) = Len(data)
  <2>1. data \in Seq(Bytes \cup {NL})
    BY CharAssumption DEF StoreBytes, MemInv, CallsCarryPackets
  <2>2. data \in Seq(Byte)
    BY <2>1 DEF Byte
  <2>3. Len(data) \in Nat /\ UNINIT \in Byte
    BY <2>2 DEF Byte
  <2> HIDE DEF data
  <2> QED BY <2>2, <2>3
<1>2. Partial \in Seq(Byte)
  BY PartialType
<1>3. PICK b \in Free \cup ({partial_write_buff} \ {NULL}) :
        /\ partial_write_buff' = b /\ b # NULL /\ b \in Blocks
        /\ \/ /\ mem'[b] = Partial \o data
              /\ bytes_stored' = Len(Partial) + Len(data)
              /\ stream' = stream \o data
              /\ pc' = [pc EXCEPT ![t] = "loop"] /\ UNCHANGED view
           \/ /\ mem'[b] = Partial \o garbage
              /\ bytes_stored' = Len(Partial)
              /\ stream' = stream
              /\ LeaveWrite(t, "fail")
  <2>1. \A b \in Free \cup ({partial_write_buff} \ {NULL}) : b # NULL /\ b \in Blocks
    BY CharAssumption DEF Free, MemInv, MemTypeOK
  <2>2. garbage = [i \in 1 .. Len(call[t].data) |-> UNINIT]
    OBVIOUS
  <2> HIDE DEF garbage
  <2> QED BY <2>1, <2>2 DEF StoreBytes
<1>4. Partial' = SubSeq(mem'[b], 1, bytes_stored')
  BY <1>3 DEF Partial
<1> HIDE DEF data, garbage
<1>5. CASE /\ mem'[b] = Partial \o data
           /\ bytes_stored' = Len(Partial) + Len(data)
           /\ stream' = stream \o data
           /\ pc' = [pc EXCEPT ![t] = "loop"] /\ UNCHANGED view
  <2>1. \A s, u \in Seq(Byte) : s \o u \in Seq(Byte) /\ Len(s \o u) = Len(s) + Len(u)
    BY ConcatFacts
  <2>2. Partial \o data \in Seq(Byte) /\ bytes_stored' = Len(Partial \o data)
    BY <1>1, <1>2, <1>5, <2>1
  <2>3. Partial' = Partial \o data
    BY <1>4, <1>5, <2>2, CutAndJoin
  <2> QED BY <1>1, <1>5, <2>3 DEF data
<1>6. CASE /\ mem'[b] = Partial \o garbage
           /\ bytes_stored' = Len(Partial)
           /\ stream' = stream
           /\ LeaveWrite(t, "fail")
  <2>1. SubSeq(Partial \o garbage, 1, Len(Partial)) = Partial
    BY <1>1, <1>2, CutAndJoin
  <2> QED BY <1>1, <1>4, <1>6, <2>1 DEF data
<1> QED BY <1>3, <1>5, <1>6

(* The command that leaves the partial buffer and what stays there are its   *)
(* bytes; and the command is the newest line, in place of the oldest one if  *)
(* the buffer was full.                                                      *)
LEMMA ExtractStream ==
  ASSUME MemInv, NEW t \in Threads, ExtractCommand(t)
  PROVE  \E cmd \in Seq(Byte) :
           /\ Partial = cmd \o Partial' /\ Partial' \in Seq(Byte)
           /\ Len(cmd) = Min(Newlines)
           /\ ~buff.full => Device.lines' = Append(Device.lines, cmd)
           /\ buff.full => /\ Device.lines # << >>
                           /\ Device.lines' = Append(Tail(Device.lines), cmd)
           /\ buff.full => buff'.full
<1> DEFINE p == partial_write_buff
           L == Min(Newlines)
           cmd == SubSeq(mem[p], 1, L)
           old == Device.lines
           new == Device.lines'
<1>1. PICK b \in Blocks :
        /\ Extracts(b)
        /\ mem'[b] = cmd /\ mem'[p] = Shifted
        /\ \A i \in InUse \ {buff.in_offs} : mem'[Ptr(i)] = mem[Ptr(i)]
  BY ExtractEffect
<1>2. /\ Loaded /\ p # NULL /\ p \in Blocks /\ UNCHANGED partial_write_buff
      /\ L \in 1 .. bytes_stored /\ bytes_stored <= Len(mem[p])
      /\ bytes_stored' = bytes_stored - L
      /\ mem[p] \in Seq(Byte) /\ bytes_stored \in Nat
  BY ExtractEffect, PartialType, CharAssumption DEF MemInv, MemTypeOK
<1>3. Shifted = [i \in 1 .. Len(mem[p]) |-> mem[p][IF i <= bytes_stored - L THEN i + L ELSE i]]
  BY DEF Shifted
<1> DEFINE e == [buffptr |-> b, size |-> L]
<1>4. buff' = AddEntry(buff, e) /\ e \in EntryOf(Blocks) /\ e.buffptr # NULL
  BY <1>1, <1>2 DEF Extracts, EntryOf
<1> HIDE DEF L
<1>5. /\ Partial = cmd \o Partial' /\ Partial' \in Seq(Byte)
      /\ cmd \in Seq(Byte) /\ Len(cmd) = L
  <2> DEFINE s == mem[p]
             rest == SubSeq(Shifted, 1, bytes_stored - L)
  <2>1. Partial = SubSeq(s, 1, bytes_stored) /\ Partial' = rest
    BY <1>1, <1>2 DEF Partial
  <2>2. s \in Seq(Byte) /\ Len(s) \in Nat /\ L \in Nat /\ L <= bytes_stored /\ bytes_stored <= Len(s)
    BY <1>2
  <2>3. Shifted \in Seq(Byte) /\ Len(Shifted) = Len(s)
        /\ \A i \in 1 .. bytes_stored - L : Shifted[i] = s[i + L]
    <3>1. \A i \in 1 .. Len(s) : s[IF i <= bytes_stored - L THEN i + L ELSE i] \in Byte
      BY <1>2, <2>2
    <3> QED BY <1>2, <1>3, <2>2, <3>1
  <2> HIDE DEF s
  <2>4. rest \in Seq(Byte) /\ Len(rest) = bytes_stored - L
        /\ \A i \in 1 .. bytes_stored - L : rest[i] = s[i + L]
    BY <1>2, <2>2, <2>3
  <2>5. cmd \in Seq(Byte) /\ Len(cmd) = L /\ \A i \in 1 .. L : cmd[i] = s[i]
    <3>1. cmd = SubSeq(s, 1, L)
      BY DEF s
    <3> HIDE DEF cmd
    <3>2. L \in 0 .. Len(s)
      BY <1>2, <2>2
    <3> QED BY <2>2, <3>1, <3>2
  <2> DEFINE q == SubSeq(s, 1, bytes_stored)
  <2>6. q \in Seq(Byte) /\ Len(q) = bytes_stored /\ \A i \in 1 .. bytes_stored : q[i] = s[i]
    BY <1>2, <2>2
  <2> HIDE DEF q, rest, cmd
  <2>7. q = cmd \o rest
    <3> DEFINE c == cmd \o rest
    <3>1. /\ c \in Seq(Byte) /\ Len(c) = bytes_stored
          /\ \A i \in 1 .. bytes_stored : c[i] = IF i <= L THEN cmd[i] ELSE rest[i - L]
      <4>1. Len(cmd) + Len(rest) = bytes_stored
        BY <1>2, <2>2, <2>4, <2>5
      <4>2. /\ c \in Seq(Byte) /\ Len(c) = Len(cmd) + Len(rest)
            /\ \A i \in 1 .. Len(cmd) + Len(rest) :
                 c[i] = IF i <= Len(cmd) THEN cmd[i] ELSE rest[i - Len(cmd)]
        BY <2>4, <2>5, ConcatProperties
      <4> HIDE DEF c
      <4> QED BY <2>5, <4>1, <4>2
    <3> HIDE DEF c
    <3>2. ASSUME NEW i \in 1 .. bytes_stored PROVE c[i] = q[i]
      <4>1. CASE i <= L
        BY <1>2, <2>2, <2>5, <2>6, <3>1, <4>1
      <4>2. CASE ~(i <= L)
        <5>1. i - L \in 1 .. bytes_stored - L /\ (i - L) + L = i
          BY <1>2, <2>2, <4>2
        <5> QED BY <2>4, <2>6, <3>1, <4>2, <5>1
      <4> QED BY <4>1, <4>2
    <3>3. c = q
      BY <1>2, <2>6, <3>1, <3>2
    <3> QED BY <3>3 DEF c
  <2> QED BY <2>1, <2>4, <2>5, <2>7 DEF q
<1> HIDE DEF cmd, e
<1>6. /\ buff \in BufferOf(Blocks) /\ Consistent(buff) /\ EntryCount(buff) \in Nat
      /\ buff.full => EntryCount(buff) = N
      /\ Len(Window(buff)) = EntryCount(buff)
      /\ Window(buff) \in Seq(EntryOf(Blocks)) /\ N \in Nat \ {0}
  <2>1. buff \in BufferOf(Blocks) /\ Consistent(buff) /\ (~buff.full => buff.out_offs = 0)
    BY DEF MemInv, MemTypeOK, Consistent
  <2>2. /\ EntryCount(buff) \in 0 .. N /\ (EntryCount(buff) = N <=> buff.full)
        /\ Len(Window(buff)) = EntryCount(buff) /\ Window(buff) \in Seq(EntryOf(Blocks))
    BY <2>1, WindowShape
  <2> QED BY <2>1, <2>2, NAssumption
<1>7. /\ Window(buff') \in Seq(EntryOf(Blocks)) /\ Len(Window(buff')) = EntryCount(buff')
  <2>1. buff' \in BufferOf(Blocks) /\ Consistent(buff')
    BY <1>4, <1>6, AddEntryType, AddEntryConsistent
  <2> QED BY <2>1, WindowShape DEF Consistent
<1>8. /\ old \in Seq(Seq(Byte)) /\ Len(old) = EntryCount(buff)
      /\ \A k \in 1 .. EntryCount(buff) :
           old[k] = SubSeq(mem[Window(buff)[k].buffptr], 1, Window(buff)[k].size)
  BY <1>2, DeviceShape, WindowInUse
<1>9. SubSeq(mem'[e.buffptr], 1, e.size) = cmd
  <2>1. SubSeq(cmd, 1, Len(cmd)) = cmd
    BY <1>5, CutAndJoin
  <2> QED BY <1>1, <1>5, <2>1 DEF e
<1>10. new = [k \in 1 .. EntryCount(buff') |->
                SubSeq(mem'[Window(buff')[k].buffptr], 1, Window(buff')[k].size)]
  BY NextLines
<1> HIDE DEF old, new
<1>11. ASSUME NEW k \in 1 .. EntryCount(buff), ~buff.full \/ k # 1
       PROVE  mem'[Window(buff)[k].buffptr] = mem[Window(buff)[k].buffptr]
  BY <1>1, <1>2, <1>6, <1>11, WindowInUse DEF Ptr, BufferOf
<1>12. CASE ~buff.full
  <2>1. Window(buff') = Append(Window(buff), e)
    BY <1>4, <1>6, <1>12, AddEntryWindow
  <2>2. /\ EntryCount(buff') = EntryCount(buff) + 1
        /\ \A k \in 1 .. EntryCount(buff) : Window(buff')[k] = Window(buff)[k]
        /\ Window(buff')[EntryCount(buff) + 1] = e
    BY <1>4, <1>6, <1>7, <2>1, AppendProperties
  <2>3. new = Append(old, cmd)
    <3>1. ASSUME NEW k \in 1 .. EntryCount(buff) PROVE new[k] = old[k]
      <4>1. k \in 1 .. EntryCount(buff')
        BY <1>6, <2>2
      <4> QED BY <1>8, <1>10, <1>11, <1>12, <2>2, <4>1
    <3>2. new[EntryCount(buff) + 1] = cmd
      <4>1. EntryCount(buff) + 1 \in 1 .. EntryCount(buff')
        BY <1>6, <2>2
      <4> QED BY <1>9, <1>10, <2>2, <4>1
    <3>3. new = [k \in 1 .. EntryCount(buff) + 1 |-> new[k]]
      BY <1>10, <2>2
    <3>4. \A k \in 1 .. EntryCount(buff) + 1 : new[k] \in Seq(Byte)
      <4>1. \A k \in 1 .. EntryCount(buff) : new[k] = old[k] /\ old[k] \in Seq(Byte)
        BY <1>8, <3>1
      <4>2. \A k \in 1 .. EntryCount(buff) + 1 :
              k = EntryCount(buff) + 1 \/ k \in 1 .. EntryCount(buff)
        BY <1>6
      <4> QED BY <1>5, <3>2, <4>1, <4>2
    <3>5. new \in Seq(Seq(Byte)) /\ Len(new) = Len(old) + 1
      <4> DEFINE n == EntryCount(buff) + 1
      <4>1. new \in [1 .. n -> Seq(Byte)]
        BY <3>3, <3>4
      <4>2. n \in Nat /\ n = Len(old) + 1
        BY <1>6, <1>8
      <4> HIDE DEF n
      <4>3. new \in Seq(Seq(Byte)) /\ Len(new) = n
        BY ONLY <4>1, <4>2
      <4> QED BY <4>2, <4>3
    <3>6. new[Len(old) + 1] = cmd /\ \A k \in 1 .. Len(old) : new[k] = old[k]
      BY <1>8, <3>1, <3>2
    <3> QED BY <1>5, <1>8, <3>5, <3>6, IsAppend
  <2> QED BY <1>5, <1>12, <2>3 DEF old, new, L
<1>13. CASE buff.full
  <2>1. Window(buff') = Append(Tail(Window(buff)), e)
    BY <1>4, <1>6, <1>13, AddEntryWindow
  <2>2. /\ EntryCount(buff') = N /\ EntryCount(buff) = N
        /\ \A k \in 1 .. N - 1 : Window(buff')[k] = Window(buff)[k + 1]
        /\ Window(buff')[N] = e
    BY <1>4, <1>6, <1>7, <1>13, <2>1
  <2>3. old # << >> /\ new = Append(Tail(old), cmd)
    <3>1. ASSUME NEW k \in 1 .. N - 1 PROVE new[k] = old[k + 1]
      <4>1. k + 1 \in 1 .. EntryCount(buff) /\ k + 1 # 1 /\ k \in 1 .. EntryCount(buff')
        BY <1>6, <2>2
      <4>2. new[k] = SubSeq(mem'[Window(buff)[k + 1].buffptr], 1, Window(buff)[k + 1].size)
        BY <1>10, <2>2, <4>1
      <4> QED BY <1>8, <1>11, <4>1, <4>2
    <3>2. new[N] = cmd
      <4>1. N \in 1 .. EntryCount(buff')
        BY <1>6, <2>2
      <4> QED BY <1>9, <1>10, <2>2, <4>1
    <3>3. new = [k \in 1 .. N |-> new[k]]
      BY <1>10, <2>2
    <3> DEFINE rest == Tail(old)
    <3>4. /\ old # << >> /\ rest \in Seq(Seq(Byte)) /\ Len(rest) = N - 1
          /\ \A k \in 1 .. N - 1 : rest[k] = old[k + 1]
      <4>1. Len(old) = N
        BY <1>8, <2>2
      <4> QED BY <1>6, <1>8, <4>1
    <3> HIDE DEF rest
    <3>5. \A k \in 1 .. N - 1 : new[k] = rest[k] /\ rest[k] \in Seq(Byte)
      BY <3>1, <3>4
    <3>6. \A k \in 1 .. N : new[k] \in Seq(Byte)
      <4>1. \A k \in 1 .. N : k = N \/ k \in 1 .. N - 1
        BY <1>6
      <4> QED BY <1>5, <3>2, <3>5, <4>1
    <3>7. new \in Seq(Seq(Byte)) /\ Len(new) = Len(rest) + 1
      <4>1. new \in [1 .. N -> Seq(Byte)]
        BY <3>3, <3>6
      <4>2. N \in Nat /\ N = Len(rest) + 1
        BY <1>6, <3>4
      <4>3. new \in Seq(Seq(Byte)) /\ Len(new) = N
        BY ONLY <4>1, <4>2
      <4> QED BY <4>2, <4>3
    <3>8. new[Len(rest) + 1] = cmd /\ \A k \in 1 .. Len(rest) : new[k] = rest[k]
      BY <1>6, <3>2, <3>4, <3>5
    <3>9. new = Append(rest, cmd)
      BY <1>5, <3>4, <3>7, <3>8, IsAppend
    <3> QED BY <3>4, <3>9 DEF rest
  <2>4. buff'.full
    BY <1>4, <1>13, AddEntryFields
  <2> QED BY <1>5, <1>13, <2>3, <2>4 DEF old, new, L
<1> QED BY <1>6, <1>12, <1>13 DEF BufferOf

(* Nothing is dropped by a step that adds the same bytes behind what is kept *)
(* and behind the stream.                                                    *)
LEMMA StreamStore ==
  ASSUME MemInv, StreamInv, NEW t \in Threads, StoreBytes(t)
  PROVE  StreamInv'
<1> DEFINE front == FlattenSeq(Device.lines)
<1>1. Loaded /\ UNCHANGED <<modstate, buff>>
  BY StoreKeepsCommands
<1>2. PICK d \in Seq(Byte) : stream = d \o Kept /\ (~buff.full => d = << >>)
  BY <1>1 DEF StreamInv
<1>3. Partial \in Seq(Byte) /\ front \in Seq(Byte) /\ Kept = front \o Partial
  BY <1>1, DeviceShape DEF Kept
<1>4. Kept' = front \o Partial'
  BY StoreKeepsLines DEF Kept, Device
<1> HIDE DEF front
<1>5. stream' = d \o Kept'
  <2>1. CASE Partial' = Partial /\ stream' = stream
    BY <1>2, <1>3, <1>4, <2>1
  <2>2. ASSUME NEW more \in Seq(Byte), Partial' = Partial \o more, stream' = stream \o more
        PROVE  stream' = d \o Kept'
    <3> DEFINE k == front \o Partial
    <3>1. k \in Seq(Byte) /\ Kept = k /\ stream' = (d \o k) \o more
      BY <1>2, <1>3, <2>2, ConcatFacts
    <3>2. front \o (Partial \o more) = k \o more
      <4>1. \A x, y, z \in Seq(Byte) : (x \o y) \o z = x \o (y \o z)
        BY ConcatAssociative, SMTT(30)
      <4> QED BY <1>3, <2>2, <4>1
    <3> HIDE DEF k
    <3>3. (d \o k) \o more = d \o (k \o more)
      BY <3>1, ConcatFacts, SMTT(30)
    <3> QED BY <1>4, <2>2, <3>1, <3>2, <3>3
  <2> QED BY <2>1, <2>2, StoreStream
<1> QED BY <1>1, <1>2, <1>5 DEF StreamInv

(* A command that moves stays in its place, and the one that is overwritten *)
(* is the next to be dropped.                                               *)
LEMMA StreamExtract ==
  ASSUME MemInv, StreamInv, NEW t \in Threads, ExtractCommand(t)
  PROVE  StreamInv'
<1>1. Loaded /\ UNCHANGED <<modstate, stream>>
  BY ExtractEffect DEF ExtractCommand, MoveCommand, history
<1>2. PICK d \in Seq(Byte) : stream = d \o Kept /\ (~buff.full => d = << >>)
  BY <1>1 DEF StreamInv
<1>3. PICK cmd \in Seq(Byte) :
        /\ Partial = cmd \o Partial' /\ Partial' \in Seq(Byte)
        /\ ~buff.full => Device.lines' = Append(Device.lines, cmd)
        /\ buff.full => /\ Device.lines # << >>
                        /\ Device.lines' = Append(Tail(Device.lines), cmd)
        /\ buff.full => buff'.full
  BY ExtractStream
<1> DEFINE old   == Device.lines
           front == FlattenSeq(old)
           rest  == Partial'
<1>4. Loaded'
  BY <1>1 DEF Loaded
<1>5. rest \in Seq(Byte)
  BY <1>3
<1>6. old \in Seq(Seq(Byte)) /\ front \in Seq(Byte) /\ Kept = front \o (cmd \o rest)
  BY <1>1, <1>3, DeviceShape DEF Kept
<1>7. Kept' = FlattenSeq(Device.lines') \o rest
  BY DEF Kept, Device
<1> HIDE DEF old, front, rest
<1>8. CASE ~buff.full
  <2>1. FlattenSeq(Device.lines') = front \o cmd
    BY <1>3, <1>6, <1>8, FlattenAppend DEF old, front
  <2>2. (front \o cmd) \o rest = front \o (cmd \o rest)
    BY <1>5, <1>6, ConcatFacts, SMTT(30)
  <2>3. stream' = d \o Kept' /\ d = << >>
    BY <1>1, <1>2, <1>6, <1>7, <1>8, <2>1, <2>2
  <2> QED BY <2>3 DEF StreamInv
<1>9. CASE buff.full
  <2> DEFINE head == Head(old)
             tail == Tail(old)
             back == FlattenSeq(tail)
  <2>1. head \in Seq(Byte) /\ tail \in Seq(Seq(Byte)) /\ front = head \o back
    <3>1. old # << >> /\ old \in Seq(Seq(Byte))
      BY <1>3, <1>6, <1>9 DEF old
    <3>2. Head(old) \in Seq(Byte) /\ Tail(old) \in Seq(Seq(Byte))
      BY <3>1, HeadTailProperties
    <3>3. FlattenSeq(old) = Head(old) \o FlattenSeq(Tail(old))
      BY <3>1, FlattenTail
    <3> QED BY <3>2, <3>3 DEF front
  <2>2. back \in Seq(Byte) /\ FlattenSeq(Device.lines') = back \o cmd
    BY <1>3, <1>9, <2>1, FlattenAppend DEF old
  <2> HIDE DEF head, tail, back
  <2> DEFINE kept == (back \o cmd) \o rest
  <2>3. /\ kept \in Seq(Byte) /\ d \o head \in Seq(Byte)
        /\ (head \o back) \o (cmd \o rest) = head \o kept
        /\ d \o (head \o kept) = (d \o head) \o kept
    <3>1. \A s, u \in Seq(Byte) : s \o u \in Seq(Byte)
      BY ConcatFacts
    <3>2. \A x, y, z \in Seq(Byte) : (x \o y) \o z = x \o (y \o z)
      BY ConcatAssociative, SMTT(30)
    <3> DEFINE a == cmd \o rest
    <3>3. a \in Seq(Byte) /\ kept = back \o a
      BY <1>5, <2>2, <3>1, <3>2
    <3> HIDE DEF a, kept
    <3>4. kept \in Seq(Byte) /\ d \o head \in Seq(Byte)
      BY <2>1, <2>2, <3>1, <3>3
    <3>5. (head \o back) \o a = head \o kept
      BY <2>1, <2>2, <3>2, <3>3, ZenonT(40)
    <3>6. d \o (head \o kept) = (d \o head) \o kept
      BY <2>1, <3>2, <3>4, ZenonT(40)
    <3> QED BY <3>4, <3>5, <3>6 DEF a
  <2>4. Kept' = kept /\ buff'.full
    BY <1>3, <1>7, <1>9, <2>2
  <2> HIDE DEF kept
  <2>5. stream' = (d \o head) \o Kept'
    BY <1>1, <1>2, <1>6, <2>1, <2>3, <2>4
  <2> QED BY <2>3, <2>4, <2>5 DEF StreamInv
<1>10. buff.full \in BOOLEAN
  BY DEF MemInv, MemTypeOK, BufferOf
<1> QED BY <1>8, <1>9, <1>10

(* The other steps leave the device and the stream alone, or empty both. *)
LEMMA StreamStep == MemInv /\ StreamInv /\ [Next]_vars => StreamInv'
<1> SUFFICES ASSUME MemInv, StreamInv, [Next]_vars PROVE StreamInv'
  OBVIOUS
<1>1. CASE InitModule
  <2>1. Device'.lines = << >> /\ Device'.tail = << >>
    BY <1>1, FreshDevice DEF InitModule, Same, EmptyDevice
  <2>2. FlattenSeq(<< >>) = << >>
    BY DEF FlattenSeq
  <2>3. Kept' = << >> /\ stream' = << >> /\ << >> \in Seq(Byte)
    BY <1>1, <2>1, <2>2 DEF Kept, InitModule
  <2>4. stream' = << >> \o Kept'
    BY <2>3
  <2> QED BY <2>3, <2>4 DEF StreamInv
<1>2. CASE SetupCdev
  BY <1>2 DEF SetupCdev, device, history, StreamInv, Loaded, Kept, Device, Partial, Command
<1>3. CASE CleanupModule
  BY <1>3 DEF CleanupModule, StreamInv, Loaded
<1>4. ASSUME NEW t \in Threads, StoreBytes(t) \/ ExtractCommand(t) PROVE StreamInv'
  BY <1>4, StreamStore, StreamExtract
<1>5. CASE Quiet
  BY <1>5 DEF Quiet, device, StreamInv, Loaded, Kept, Device, Partial, Command
<1> QED BY <1>1, <1>2, <1>3, <1>4, <1>5, DeviceSteps DEF MemInv, LockInv

(* Whatever allocations and copies fail, however the bytes were split over  *)
(* writes and whatever was overwritten: the commands and the partial buffer *)
(* are, end to end, the end of what the writes accepted since aesd_init, and *)
(* all of it until the buffer is full.                                      *)
THEOREM StreamAlwaysConserved == Spec => []StreamConserved
<1>1. Init => StreamInv
  BY DEF Init, StreamInv, Loaded
<1>2. MemInv /\ StreamInv => StreamConserved
  <2> SUFFICES ASSUME MemInv, StreamInv, Loaded
               PROVE  IF buff.full THEN IsSuffix(Kept, stream) ELSE Kept = stream
    BY DEF StreamConserved, Loaded, Kept
  <2>1. PICK d \in Seq(Byte) : stream = d \o Kept /\ (~buff.full => d = << >>)
    BY DEF StreamInv
  <2>2. Kept \in Seq(Byte)
    BY DeviceShape
  <2>3. IsSuffix(Kept, stream)
    BY <2>1, <2>2, BehindIsSuffix
  <2>4. << >> \o Kept = Kept
    BY <2>2, ConcatEmptySeq
  <2> QED BY <2>1, <2>3, <2>4
<1> QED BY <1>1, <1>2, MemInit, MemStep, StreamStep, PTL DEF Spec

-----------------------------------------------------------------------------
(* Types.  Positions stay natural numbers because the search returns an     *)
(* offset inside the entry it returns, so that what a read has left to copy *)
(* there is never negative, and because current_offset is a sum of sizes.   *)

TypedCall(c) ==
  /\ c.op \in {"read", "write"} => "pos" \in DOMAIN c /\ c.pos \in Nat
  /\ c.op = "read" => c.count \in Nat
  /\ c.op = "llseek" => "total_size" \in DOMAIN c
  /\ c.op = "ioctl" => c.write_cmd \in Nat /\ c.write_cmd_offset \in Nat

PosTypeOK ==
  /\ DOMAIN f_pos \subseteq Files
  /\ \A f \in DOMAIN f_pos : f_pos[f] \in Nat
  /\ user_buf \in [Threads -> Seq(Byte)]
  /\ \A t \in Threads : TypedCall(call[t])

(* No file is open and no call is under way. *)
LEMMA PosInit == Init => PosTypeOK
BY DEF Init, PosTypeOK, TypedCall, NoCall

(* Where the search takes a read, there are bytes of an allocated block. *)
LEMMA HitIsAllocated ==
  ASSUME MemInv, Loaded, NEW pos \in Nat,
         FindEntryOffsetForFpos(buff, pos) # NoEntry
  PROVE  LET hit == FindEntryOffsetForFpos(buff, pos)
         IN  /\ hit.slot \in InUse
             /\ hit.entry_offset \in 0 .. buff.entry[hit.slot].size - 1
             /\ buff.entry[hit.slot].size \in Nat
             /\ mem[Ptr(hit.slot)] \in Seq(Byte)
             /\ Len(mem[Ptr(hit.slot)]) = buff.entry[hit.slot].size
<1> DEFINE hit == FindEntryOffsetForFpos(buff, pos)
           off == CurrentOffset(buff)
<1>1. buff \in BufferOf(Blocks) /\ Consistent(buff)
  BY DEF MemInv, MemTypeOK
<1>2. PICK k \in 0 .. EntryCount(buff) - 1 :
        /\ off[k] <= pos /\ pos < off[k] + SizeAt(buff, k)
        /\ hit = [slot |-> SlotAt(buff, k), entry_offset |-> pos - off[k]]
  BY <1>1, FindCovers
<1>3. /\ k \in 0 .. N /\ k \in 0 .. N - 1 /\ off[k] \in Nat /\ SizeAt(buff, k) \in Nat
      /\ SlotAt(buff, k) \in Slots
  <2>1. k \in 0 .. N /\ k \in 0 .. N - 1
    BY <1>1, WindowShape, NAssumption DEF Consistent
  <2>2. SlotAt(buff, k) \in Slots
    BY <1>1, <2>1, SlotAtWraps DEF BufferOf
  <2> QED BY <1>1, <2>1, <2>2, OffsetIsSum
<1> HIDE DEF hit, off
<1>4. /\ hit.slot \in Slots /\ buff.entry[hit.slot].size = SizeAt(buff, k)
      /\ hit.entry_offset \in 0 .. SizeAt(buff, k) - 1 /\ SizeAt(buff, k) # 0
  BY <1>2, <1>3 DEF SizeAt
<1>5. hit.slot \in InUse
  BY <1>1, <1>4 DEF Consistent, InUse
<1>6. Ptr(hit.slot) \in Blocks /\ mem[Ptr(hit.slot)] # NULL
  BY <1>1, <1>4, <1>5 DEF InUse, Ptr, BufferOf, EntryOf, MemInv, Ownership
<1> QED BY <1>3, <1>4, <1>5, <1>6 DEF MemInv, MemTypeOK, Sizes, Ptr, hit

(* Read gives the user bytes of a command and moves the position forward. *)
LEMMA PosRead ==
  ASSUME MemInv, PosTypeOK, NEW t \in Threads, Read(t)
  PROVE  PosTypeOK'
<1> DEFINE hit  == FindEntryOffsetForFpos(buff, call[t].pos)
           e    == buff.entry[hit.slot]
           copy == Min({call[t].count, e.size - hit.entry_offset})
<1>1. Loaded /\ call[t].pos \in Nat /\ call[t].count \in Nat /\ f_pos' = f_pos
  BY InCallLive DEF Read, MemInv, Loaded, PosTypeOK, TypedCall
<1>2. CASE UNCHANGED <<user_buf, call>>
  BY <1>1, <1>2 DEF PosTypeOK
<1>3. CASE hit # NoEntry /\ ~UNCHANGED <<user_buf, call>>
  <2>1. /\ user_buf' = [user_buf EXCEPT ![t] =
                          SubSeq(mem[e.buffptr], hit.entry_offset + 1, hit.entry_offset + copy)]
        /\ call' = [call EXCEPT ![t].pos = @ + copy]
    BY <1>3 DEF Read, CopyToUser
  <2>2. /\ hit.entry_offset \in 0 .. e.size - 1 /\ e.size \in Nat
        /\ mem[e.buffptr] \in Seq(Byte) /\ Len(mem[e.buffptr]) = e.size
    BY <1>1, <1>3, HitIsAllocated DEF Ptr
  <2> HIDE DEF hit, e
  <2>3. copy \in Nat /\ copy <= e.size - hit.entry_offset
    <3>1. {call[t].count, e.size - hit.entry_offset} \in SUBSET Nat
      BY <1>1, <2>2
    <3> QED BY <3>1, MinOf
  <2> HIDE DEF copy
  <2>4. SubSeq(mem[e.buffptr], hit.entry_offset + 1, hit.entry_offset + copy) \in Seq(Byte)
    <3>1. \A i \in hit.entry_offset + 1 .. hit.entry_offset + copy : mem[e.buffptr][i] \in Byte
      BY <2>2, <2>3
    <3> QED BY <2>2, <2>3, <3>1, SubSeqProperties
  <2>5. user_buf' \in [Threads -> Seq(Byte)]
    BY <2>1, <2>4 DEF PosTypeOK
  <2>6. \A u \in Threads : TypedCall(call'[u])
    BY <1>1, <2>1, <2>3 DEF PosTypeOK, TypedCall, MemInv, LockInv, LockTypeOK
  <2> QED BY <1>1, <2>5, <2>6 DEF PosTypeOK
<1> QED BY <1>2, <1>3 DEF Read, CopyToUser

(* The ioctl seeks only to commands whose offset the sum is defined for. *)
LEMMA PosIoctl ==
  ASSUME MemInv, PosTypeOK, NEW t \in Threads, IoctlSeek(t)
  PROVE  PosTypeOK'
<1> DEFINE cmd == call[t].write_cmd
<1>1. cmd \in Nat /\ call[t].write_cmd_offset \in Nat /\ UNCHANGED <<user_buf, call>>
  BY DEF IoctlSeek, SeekTo, PosTypeOK, TypedCall
<1>2. CASE f_pos' = f_pos
  BY <1>1, <1>2 DEF PosTypeOK
<1>3. CASE f_pos' # f_pos
  <2>1. /\ f_pos' = [f_pos EXCEPT ![call[t].file] =
                       CurrentOffset(buff)[cmd] + call[t].write_cmd_offset]
        /\ cmd < Cardinality(InUse)
    BY <1>3 DEF IoctlSeek, SeekTo, InUse
  <2>2. Cardinality(InUse) \in Nat /\ Cardinality(InUse) <= N
    <3>1. IsFiniteSet(Slots) /\ Cardinality(Slots) = N
      BY FS_Interval, NAssumption DEF Slots
    <3>2. InUse \in SUBSET Slots
      BY DEF InUse
    <3> QED BY <3>1, <3>2, FS_Subset, FS_CardinalityType
  <2>3. CurrentOffset(buff)[cmd] \in Nat
    <3>1. CurrentOffset(buff) \in [0 .. N -> Nat]
      BY OffsetIsSum DEF MemInv, MemTypeOK
    <3>2. cmd \in 0 .. N
      BY <1>1, <2>1, <2>2, NAssumption
    <3> QED BY <3>1, <3>2
  <2> QED BY <1>1, <2>1, <2>3, SMTT(30) DEF PosTypeOK
<1> QED BY <1>2, <1>3

(* PosTypeOK is inductive beside MemInv. *)
LEMMA PosStep == MemInv /\ PosTypeOK /\ [Next]_vars => PosTypeOK'
<1> SUFFICES ASSUME MemInv, PosTypeOK, [Next]_vars PROVE PosTypeOK'
  OBVIOUS
<1> USE DEF PosTypeOK
<1>t. DOMAIN call = Threads
  BY DEF MemInv, LockInv, LockTypeOK
<1>1. ASSUME UNCHANGED <<f_pos, user_buf, call>> PROVE PosTypeOK'
  BY <1>1
<1>2. CASE InitModule \/ SetupCdev \/ CleanupModule \/ UNCHANGED vars
  BY <1>1, <1>2 DEF InitModule, SetupCdev, CleanupModule, vars
<1>3. ASSUME NEW f \in Files, Open(f) PROVE PosTypeOK'
  BY <1>3 DEF Open
<1>4. ASSUME NEW f \in DOMAIN f_pos, Release(f) PROVE PosTypeOK'
  BY <1>4 DEF Release
<1>5. ASSUME NEW t \in Threads, NEW c, Begin(t, c), TypedCall(c) PROVE PosTypeOK'
  BY <1>t, <1>5 DEF Begin
<1>6. ASSUME NEW t \in Threads, NEW f \in DOMAIN f_pos,
         \/ \E count \in Counts : BeginRead(t, f, count)
         \/ \E data \in Packets : BeginWrite(t, f, data)
         \/ \E offset \in Offsets, whence \in Whences : BeginLlseek(t, f, offset, whence)
         \/ \E seekto \in SeekArgs : BeginIoctl(t, f, seekto)
      PROVE PosTypeOK'
  <2>1. \E c : Begin(t, c) /\ TypedCall(c)
    <3>1. ASSUME NEW count \in Counts, BeginRead(t, f, count) PROVE \E c : Begin(t, c) /\ TypedCall(c)
      <4> DEFINE c == [op |-> "read", file |-> f, count |-> count, pos |-> f_pos[f]]
      <4>1. count \in Nat /\ f_pos[f] \in Nat
        BY CharAssumption
      <4>2. TypedCall(c)
        BY <4>1 DEF TypedCall
      <4>3. Begin(t, c)
        BY <3>1 DEF BeginRead
      <4> HIDE DEF c
      <4> QED BY <4>2, <4>3
    <3>2. ASSUME NEW data \in Packets, BeginWrite(t, f, data) PROVE \E c : Begin(t, c) /\ TypedCall(c)
      BY <3>2 DEF BeginWrite, TypedCall
    <3>3. ASSUME NEW offset \in Offsets, NEW whence \in Whences, BeginLlseek(t, f, offset, whence)
          PROVE  \E c : Begin(t, c) /\ TypedCall(c)
      BY <3>3 DEF BeginLlseek, TypedCall
    <3>4. ASSUME NEW seekto \in SeekArgs, BeginIoctl(t, f, seekto)
          PROVE  \E c : Begin(t, c) /\ TypedCall(c)
      <4>1. seekto[1] \in Nat /\ seekto[2] \in Nat
        BY CharAssumption
      <4> QED BY <3>4, <4>1 DEF BeginIoctl, TypedCall
    <3> QED BY <1>6, <3>1, <3>2, <3>3, <3>4
  <2> QED BY <1>5, <2>1
<1>7. ASSUME NEW t \in Threads, MutexLock(t) \/ Step(t) PROVE PosTypeOK'
  <2>1. CASE Read(t)
    BY <2>1, PosRead
  <2>2. CASE IoctlSeek(t)
    BY <2>2, PosIoctl
  <2>3. CASE MutexLock(t) \/ AllocFails(t) \/ StoreBytes(t) \/ ExtractCommand(t)
             \/ ExtractFails(t) \/ IoctlRefused(t)
    BY <1>1, <2>3 DEF MutexLock, AllocFails, StoreBytes, ExtractCommand, MoveCommand,
       ExtractFails, IoctlRefused
  <2>4. CASE FinishWrite(t)
    <3>1. /\ call' = [call EXCEPT ![t].pos = @ + Len(call[t].data)]
          /\ call[t].op = "write" => Len(call[t].data) \in Nat
          /\ UNCHANGED <<f_pos, user_buf>>
      BY <2>4, CharAssumption DEF FinishWrite, MemInv, CallsCarryPackets
    <3>2. PICK n : /\ call' = [call EXCEPT ![t].pos = @ + n]
                   /\ call[t].op = "write" => n \in Nat
      BY <3>1
    <3> QED BY <1>t, <3>1, <3>2 DEF TypedCall
  <2>5. CASE LlseekSize(t)
    <3>1. \E n : call' = [call EXCEPT ![t].total_size = n]
      BY <2>5 DEF LlseekSize
    <3>2. UNCHANGED <<f_pos, user_buf>>
      BY <2>5 DEF LlseekSize
    <3> QED BY <1>t, <3>1, <3>2 DEF TypedCall
  <2>6. CASE FixedSizeLlseek(t)
    <3>1. /\ call' = [call EXCEPT ![t] = NoCall] /\ user_buf' = user_buf
          /\ \/ f_pos' = f_pos
             \/ \E pos \in 0 .. call[t].total_size : f_pos' = [f_pos EXCEPT ![call[t].file] = pos]
      BY <2>6 DEF FixedSizeLlseek
    <3> QED BY <1>t, <3>1 DEF TypedCall, NoCall
  <2>7. CASE Return(t)
    <3>1. user_buf' \in [Threads -> Seq(Byte)]
      BY <2>7, EmptySeq DEF Return
    <3> QED BY <1>t, <2>7, <3>1 DEF Return, TypedCall, NoCall
  <2> QED BY <1>7, <2>1, <2>2, <2>3, <2>4, <2>5, <2>6, <2>7 DEF Step
<1> QED BY <1>2, <1>3, <1>4, <1>6, <1>7 DEF Next

(* The types of the driver's state in every execution, for every constant: *)
(* slot numbers stay inside the array, positions stay natural numbers, and *)
(* what reaches a user are bytes of a buffer, never of freed memory.       *)
THEOREM TypeAlwaysOK == Spec => []TypeOK
<1>1. MemInv /\ PosTypeOK => TypeOK
  BY DEF MemInv, MemTypeOK, LockInv, LockTypeOK, PosTypeOK, TypeOK, Places
<1> QED BY <1>1, MemInit, MemStep, PosInit, PosStep, PTL DEF Spec

-----------------------------------------------------------------------------
(* Reads, seeks and sizes.  They go by the slots of the circular buffer and *)
(* by current_offset; what they mean is said of the lines of the device.    *)
(* That a thread with the mutex finds the device as the last write left it  *)
(* (AtomicInv) makes the two agree.                                         *)
ReadInv == MemInv /\ AtomicInv /\ PosTypeOK

(* ReadInv holds initially. *)
LEMMA ReadInit == Init => ReadInv
BY MemInit, AtomicInit, PosInit DEF ReadInv

(* ReadInv is inductive: its parts are. *)
LEMMA ReadStep == ReadInv /\ [Next]_vars => ReadInv'
BY MemStep, AtomicStep, PosStep DEF ReadInv

(* A thread with the mutex sees the device that the line device describes. *)
LEMMA HeldView ==
  ASSUME ReadInv, NEW t \in Threads, pc[t] = "held"
  PROVE  Loaded /\ view.lines = Device.lines
<1>1. modstate # "unloaded"
  BY DEF ReadInv, AtomicInv, LockInv, CallsNeedFiles, InCall
<1>2. \A u \in Threads : pc[u] # "loop"
  BY CharAssumption DEF ReadInv, AtomicInv, LockInv, LockDiscipline
<1> QED BY <1>1, <1>2 DEF ReadInv, AtomicInv, Committed, Same, Loaded

(* current_offset after k entries is the length of the first k lines. *)
LEMMA LinesAtOffsets ==
  ASSUME MemInv, Loaded
  PROVE  LET off == CurrentOffset(buff)
             lines == Device.lines
         IN  /\ Len(FlattenSeq(lines)) = off[EntryCount(buff)]
             /\ \A k \in 1 .. EntryCount(buff) :
                  /\ Len(lines[k]) = SizeAt(buff, k - 1)
                  /\ \A j \in 1 .. Len(lines[k]) : FlattenSeq(lines)[off[k - 1] + j] = lines[k][j]
             /\ \A k \in 0 .. EntryCount(buff) : Len(FlattenSeq(SubSeq(lines, 1, k))) = off[k]
<1> DEFINE off == CurrentOffset(buff)
           lines == Device.lines
           count == EntryCount(buff)
<1>1. /\ buff \in BufferOf(Blocks) /\ Consistent(buff) /\ (~buff.full => buff.out_offs = 0)
      /\ count \in Nat /\ count <= N /\ N \in Nat
  <2>1. buff \in BufferOf(Blocks) /\ Consistent(buff) /\ (~buff.full => buff.out_offs = 0)
    BY DEF MemInv, MemTypeOK, Consistent
  <2>2. count \in 0 .. N
    BY <2>1, WindowShape
  <2> QED BY <2>1, <2>2, NAssumption
<1>2. /\ off \in [0 .. N -> Nat] /\ off[0] = 0
      /\ \A k \in 1 .. N : off[k] = off[k - 1] + SizeAt(buff, k - 1)
  BY <1>1, OffsetIsSum
<1>3. lines \in Seq(Seq(Byte)) /\ Len(lines) = count
  BY DeviceShape
<1>4. ASSUME NEW k \in 1 .. count PROVE Len(lines[k]) = SizeAt(buff, k - 1)
  <2> DEFINE i == SlotAt(buff, k - 1)
  <2>1. i \in InUse /\ i \in Slots
    BY WindowInUse DEF InUse
  <2>2. /\ mem[Ptr(i)] \in Seq(Byte) /\ buff.entry[i].size = Len(mem[Ptr(i)])
    BY <2>1 DEF MemInv, MemTypeOK, Ownership, Sizes, BufferOf, EntryOf, InUse, Ptr
  <2>3. lines[k] = SubSeq(mem[Ptr(i)], 1, buff.entry[i].size)
    BY DeviceShape DEF Ptr
  <2>4. lines[k] = mem[Ptr(i)]
    BY <2>2, <2>3, CutAndJoin
  <2> QED BY <2>2, <2>4 DEF SizeAt
<1> HIDE DEF lines, off, count
<1>5. ASSUME NEW n \in 0 .. count, NEW some \in Seq(Seq(Byte)), Len(some) = n,
             \A k \in 1 .. n : some[k] = lines[k]
      PROVE  /\ Len(FlattenSeq(some)) = off[n]
             /\ \A k \in 1 .. n : \A j \in 1 .. Len(some[k]) :
                  FlattenSeq(some)[off[k - 1] + j] = some[k][j]
  <2> DEFINE o == [k \in 0 .. n |-> off[k]]
  <2>1. o \in [0 .. Len(some) -> Nat] /\ o[0] = 0 /\ n \in Nat
    BY <1>1, <1>2, <1>5
  <2>2. ASSUME NEW k \in 1 .. Len(some) PROVE o[k] = o[k - 1] + Len(some[k])
    <3>1. k \in 1 .. N /\ k \in 1 .. count /\ k \in 0 .. n /\ k - 1 \in 0 .. n
      BY <1>1, <1>5
    <3> QED BY <1>2, <1>4, <1>5, <3>1
  <2>3. n \in 0 .. n /\ \A k \in 1 .. n : k - 1 \in 0 .. n
    BY <2>1
  <2>4. \A k \in 0 .. n : o[k] = off[k]
    OBVIOUS
  <2> HIDE DEF o
  <2>5. /\ Len(FlattenSeq(some)) = o[Len(some)]
        /\ \A k \in 1 .. Len(some) : \A j \in 1 .. Len(some[k]) :
             FlattenSeq(some)[o[k - 1] + j] = some[k][j]
    BY <2>1, <2>2, FlattenLookup, ZenonT(40)
  <2>6. Len(FlattenSeq(some)) = off[n]
    BY <1>5, <2>3, <2>4, <2>5
  <2>7. ASSUME NEW k \in 1 .. n, NEW j \in 1 .. Len(some[k])
        PROVE  FlattenSeq(some)[off[k - 1] + j] = some[k][j]
    <3>1. o[k - 1] = off[k - 1]
      BY <2>3, <2>4
    <3>2. FlattenSeq(some)[o[k - 1] + j] = some[k][j]
      BY <1>5, <2>5
    <3> QED BY <3>1, <3>2
  <2> QED BY <2>6, <2>7
<1>6. /\ Len(FlattenSeq(lines)) = off[count]
      /\ \A k \in 1 .. count : \A j \in 1 .. Len(lines[k]) :
           FlattenSeq(lines)[off[k - 1] + j] = lines[k][j]
  <2>1. count \in 0 .. count /\ \A k \in 1 .. count : lines[k] = lines[k]
    BY <1>1
  <2> QED BY <1>3, <1>5, <2>1
<1>7. ASSUME NEW k \in 0 .. count PROVE Len(FlattenSeq(SubSeq(lines, 1, k))) = off[k]
  <2> DEFINE some == SubSeq(lines, 1, k)
  <2>1. some \in Seq(Seq(Byte)) /\ Len(some) = k /\ \A i \in 1 .. k : some[i] = lines[i]
    BY <1>1, <1>3
  <2> HIDE DEF some
  <2>2. Len(FlattenSeq(some)) = off[k]
    BY <1>5, <2>1
  <2> QED BY <2>2 DEF some
<1> QED BY <1>4, <1>6, <1>7 DEF lines, off, count

(* The slots in use are as many as the entries of the window. *)
LEMMA InUseCounted ==
  ASSUME MemInv
  PROVE  Cardinality(InUse) = EntryCount(buff) /\ IsFiniteSet(InUse)
<1>1. /\ Consistent(buff) /\ buff.in_offs \in 0 .. N - 1 /\ buff.full \in BOOLEAN
      /\ N \in Nat \ {0}
  BY NAssumption DEF MemInv, MemTypeOK, BufferOf, Slots
<1>2. CASE buff.full
  <2>1. InUse = 0 .. N - 1
    BY <1>1, <1>2 DEF Consistent, InUse, Slots
  <2>2. IsFiniteSet(0 .. N - 1) /\ Cardinality(0 .. N - 1) = (N - 1) - 0 + 1
    BY <1>1, FS_Interval
  <2> QED BY <1>1, <1>2, <2>1, <2>2 DEF EntryCount
<1>3. CASE ~buff.full
  <2>1. InUse = 0 .. buff.in_offs - 1
    BY <1>1, <1>3 DEF Consistent, InUse, Slots
  <2>2. /\ IsFiniteSet(0 .. buff.in_offs - 1)
        /\ Cardinality(0 .. buff.in_offs - 1) =
             IF 0 > buff.in_offs - 1 THEN 0 ELSE (buff.in_offs - 1) - 0 + 1
    <3>1. 0 \in Int /\ buff.in_offs - 1 \in Int
      BY <1>1
    <3> QED BY <3>1, FS_Interval
  <2>3. EntryCount(buff) = buff.in_offs
    BY <1>1, <1>3 DEF Consistent, EntryCount
  <2> QED BY <1>1, <2>1, <2>2, <2>3
<1> QED BY <1>1, <1>2, <1>3

(* Only the thread itself moves from where it has the mutex. *)
LEMMA HeldLeaves ==
  ASSUME LockInv, [Next]_vars, NEW t \in Threads, pc[t] = "held", pc'[t] # "held"
  PROVE  Read(t) \/ AllocFails(t) \/ StoreBytes(t) \/ LlseekSize(t) \/ IoctlSeek(t)
<1> USE DEF LockInv, LockTypeOK
<1>1. ASSUME NEW u \in Threads, MutexLock(u) \/ Step(u) PROVE u = t
  BY <1>1, StepMoves DEF Moves
<1>2. ASSUME NEW u \in Threads, NEW c, Begin(u, c) PROVE FALSE
  BY <1>2 DEF Begin
<1>3. MutexLock(t) \/ Step(t)
  <2>1. ~(InitModule \/ SetupCdev \/ CleanupModule) /\ ~UNCHANGED vars
    BY DEF InitModule, SetupCdev, CleanupModule, vars
  <2>2. \A f : ~Open(f) /\ ~Release(f)
    BY DEF Open, Release
  <2> QED BY <1>1, <1>2, <2>1, <2>2 DEF Next, BeginRead, BeginWrite, BeginLlseek, BeginIoctl
<1> QED BY <1>3 DEF Step, MutexLock, ExtractCommand, ExtractFails, FinishWrite, FixedSizeLlseek,
                    IoctlRefused, Return

(* The seek of aesd_ioctl: the k-th command is there when k is less than the *)
(* number of slots in use, and current_offset is where it begins.            *)
LEMMA IoctlLands ==
  ASSUME ReadInv, NEW t \in Threads, IoctlSeek(t)
  PROVE  LET exists == Lines!HasByte(call[t].write_cmd, call[t].write_cmd_offset)
             target == Lines!Position(call[t].write_cmd, call[t].write_cmd_offset)
         IN  /\ exists <=> pc'[t] = "exit"
             /\ f_pos'[call[t].file] = IF exists THEN target ELSE f_pos[call[t].file]
<1> DEFINE c == call[t]
           k == c.write_cmd
           off == CurrentOffset(buff)
           i == SlotAt(buff, k)
           exists == Lines!HasByte(k, c.write_cmd_offset)
           valid == k < Cardinality(InUse) /\ c.write_cmd_offset < buff.entry[i].size
<1>1. /\ pc[t] = "held" /\ Loaded /\ view.lines = Device.lines
      /\ MemInv /\ pc \in [Threads -> Places] /\ c.file \in DOMAIN f_pos
      /\ k \in Nat /\ c.write_cmd_offset \in Nat
  <2>1. pc[t] = "held" /\ c.op = "ioctl"
    BY DEF IoctlSeek, SeekTo
  <2>2. Loaded /\ view.lines = Device.lines
    BY <2>1, HeldView
  <2>3. MemInv /\ pc \in [Threads -> Places] /\ c.file \in DOMAIN f_pos
    BY <2>1 DEF ReadInv, MemInv, LockInv, LockTypeOK, CallsNeedFiles, InCall
  <2>4. k \in Nat /\ c.write_cmd_offset \in Nat
    BY <2>1 DEF ReadInv, PosTypeOK, TypedCall
  <2> QED BY <2>1, <2>2, <2>3, <2>4
<1>2. \/ /\ valid
         /\ f_pos' = [f_pos EXCEPT ![c.file] = off[k] + c.write_cmd_offset]
         /\ pc' = [pc EXCEPT ![t] = "exit"]
      \/ ~valid /\ f_pos' = f_pos /\ pc' = [pc EXCEPT ![t] = "fail"]
  BY DEF IoctlSeek, SeekTo, Unlock, InUse
<1>3. /\ Cardinality(InUse) = EntryCount(buff) /\ EntryCount(buff) \in Nat
      /\ Len(Device.lines) = EntryCount(buff)
  BY <1>1, InUseCounted, DeviceShape, LenProperties
<1>4. ASSUME k < EntryCount(buff)
      PROVE  /\ Len(view.lines[k + 1]) = buff.entry[i].size
             /\ Lines!LineEnd(k) = off[k]
  <2>1. k + 1 \in 1 .. EntryCount(buff) /\ (k + 1) - 1 = k /\ k \in 0 .. EntryCount(buff)
    BY <1>1, <1>3, <1>4
  <2>2. Len(Device.lines[k + 1]) = SizeAt(buff, (k + 1) - 1)
    BY <1>1, <2>1, LinesAtOffsets
  <2>3. Len(FlattenSeq(SubSeq(Device.lines, 1, k))) = off[k]
    BY <1>1, <2>1, LinesAtOffsets
  <2>4. SizeAt(buff, k) = buff.entry[i].size
    BY DEF SizeAt
  <2>5. Lines!LineEnd(k) = Len(FlattenSeq(SubSeq(view.lines, 1, k)))
    BY Zenon DEF Lines!LineEnd, Lines!FlattenSeq, FlattenSeq
  <2> HIDE DEF i, off
  <2> QED BY <1>1, <2>1, <2>2, <2>3, <2>4, <2>5
<1>5. exists <=> valid
  <2>1. exists <=> k < EntryCount(buff) /\ c.write_cmd_offset < Len(view.lines[k + 1])
    BY <1>1, <1>3 DEF Lines!HasByte
  <2> QED BY <1>3, <1>4, <2>1
<1>6. valid => Lines!Position(k, c.write_cmd_offset) = off[k] + c.write_cmd_offset
  BY <1>3, <1>4 DEF Lines!Position
<1> HIDE DEF c, k, off, i, valid, exists
<1>7. /\ exists <=> pc'[t] = "exit"
      /\ f_pos'[c.file] = IF exists THEN Lines!Position(k, c.write_cmd_offset) ELSE f_pos[c.file]
  BY <1>1, <1>2, <1>5, <1>6
<1> QED BY <1>7 DEF c, k, exists

(* AESDCHAR_IOCSEEKTO, wherever the buffer has wrapped to and whatever other *)
(* threads do: it succeeds exactly for a byte that exists, and the file is   *)
(* then at that byte, counted from the oldest command.                       *)
THEOREM SeekAlwaysLands == Spec => SeekLands
<1>1. ASSUME ReadInv, [Next]_vars, NEW t \in Threads,
             pc[t] = "held", call[t].op = "ioctl", pc'[t] # "held"
      PROVE  IoctlSeek(t)
  <2>1. LockInv
    BY <1>1 DEF ReadInv, MemInv
  <2> QED BY <1>1, <2>1, HeldLeaves DEF Read, AllocFails, StoreBytes, LlseekSize
<1>2. ReadInv /\ [Next]_vars =>
        [\A t \in Threads :
           (pc[t] = "held" /\ call[t].op = "ioctl" /\ pc'[t] # "held") =>
             LET exists == Lines!HasByte(call[t].write_cmd, call[t].write_cmd_offset)
                 target == Lines!Position(call[t].write_cmd, call[t].write_cmd_offset)
             IN  /\ exists <=> pc'[t] = "exit"
                 /\ f_pos'[call[t].file] = IF exists THEN target ELSE f_pos[call[t].file]]_vars
  BY <1>1, IoctlLands
<1> QED BY <1>2, ReadInit, ReadStep, PTL DEF Spec, SeekLands

-----------------------------------------------------------------------------
(* Reads. *)

(* m is the smaller of two numbers. *)
IsMin(m, a, b) == m \in Nat /\ m <= a /\ m <= b /\ (m = a \/ m = b)

(* So the Min of the two is. *)
LEMMA MinOfTwo == \A a, b \in Nat : IsMin(Min({a, b}), a, b)
<1> SUFFICES ASSUME NEW a \in Nat, NEW b \in Nat PROVE IsMin(Min({a, b}), a, b)
  OBVIOUS
<1> DEFINE T == {a, b}
<1>1. T \in SUBSET Nat /\ T # {}
  OBVIOUS
<1>2. Min(T) \in T /\ \A x \in T : Min(T) <= x
  BY <1>1, MinOf
<1> QED BY <1>2 DEF IsMin

(* What a read finds through the entry of the search is what the line      *)
(* device has at that position, and it is as long as the bytes it counts.  *)
LEMMA ReadFinds ==
  ASSUME ReadInv, NEW t \in Threads, pc[t] = "held", NEW pos \in Nat, NEW count \in Nat
  PROVE  LET hit  == FindEntryOffsetForFpos(buff, pos)
             e    == buff.entry[hit.slot]
             copy == Min({count, e.size - hit.entry_offset})
             got  == SubSeq(mem[e.buffptr], hit.entry_offset + 1, hit.entry_offset + copy)
         IN  \/ hit = NoEntry /\ Lines!ReadAt(pos, count) = << >>
             \/ /\ hit # NoEntry /\ copy \in Nat
                /\ Lines!ReadAt(pos, count) = got /\ Len(got) = copy
<1> DEFINE lines == Device.lines
           off == CurrentOffset(buff)
           n == EntryCount(buff)
           all == FlattenSeq(lines)
           behind == {k \in 1 .. n : pos < off[k]}
           hit == FindEntryOffsetForFpos(buff, pos)
           upto == Min({pos + count, off[Min(behind)]})
<1>1. Loaded /\ view.lines = lines /\ MemInv
  BY HeldView DEF ReadInv
<1>2. buff \in BufferOf(Blocks) /\ Consistent(buff) /\ (~buff.full => buff.out_offs = 0)
  BY <1>1 DEF MemInv, MemTypeOK, Consistent
<1>3. n \in 0 .. N /\ N \in Nat /\ n \in Nat
  BY <1>2, WindowShape, NAssumption
<1>4. /\ off \in [0 .. N -> Nat] /\ off[0] = 0
      /\ \A k \in 1 .. N : off[k] = off[k - 1] + SizeAt(buff, k - 1)
      /\ \A k \in 0 .. N - 1 : SizeAt(buff, k) \in Nat
      /\ \A i, j \in 0 .. N : i <= j => off[i] <= off[j]
  BY <1>2, OffsetIsSum, OffsetsGrow
<1>5. /\ lines \in Seq(Seq(Byte)) /\ Len(lines) = n /\ all \in Seq(Byte)
      /\ \A k \in 1 .. n : lines[k] = SubSeq(mem[buff.entry[SlotAt(buff, k - 1)].buffptr], 1,
                                             buff.entry[SlotAt(buff, k - 1)].size)
  BY <1>1, DeviceShape
<1>6. /\ Len(all) = off[n]
      /\ \A k \in 1 .. n :
           /\ Len(lines[k]) = SizeAt(buff, k - 1)
           /\ \A j \in 1 .. Len(lines[k]) : all[off[k - 1] + j] = lines[k][j]
      /\ \A k \in 0 .. n : Len(FlattenSeq(SubSeq(lines, 1, k))) = off[k]
  BY <1>1, LinesAtOffsets
<1>7. Lines!ReadAt(pos, count) =
        IF behind = {} THEN << >> ELSE SubSeq(all, pos + 1, upto)
  <2> DEFINE end(k) == Len(FlattenSeq(SubSeq(lines, 1, k)))
             B == {k \in 1 .. Len(lines) : pos < end(k)}
  <2>1. Lines!ReadAt(pos, count) =
          IF B = {} THEN << >> ELSE SubSeq(all, pos + 1, Min({pos + count, end(Min(B))}))
    BY <1>1 DEF Lines!ReadAt, Lines!LineEnd, Lines!Contents, Lines!FlattenSeq, FlattenSeq,
                Lines!Min, Min
  <2>2. \A k \in 1 .. n : end(k) = off[k]
    BY <1>3, <1>6
  <2> HIDE DEF end
  <2>3. B = behind
    BY <1>5, <2>2
  <2>4. behind # {} => end(Min(behind)) = off[Min(behind)]
    <3>1. behind # {} => Min(behind) \in behind
      BY <1>3, MinOf
    <3> QED BY <2>2, <3>1
  <2> QED BY <2>1, <2>3, <2>4
<1>8. \/ hit = NoEntry /\ off[n] <= pos
      \/ \E k \in 0 .. n - 1 : /\ off[k] <= pos /\ pos < off[k] + SizeAt(buff, k)
                               /\ hit = [slot |-> SlotAt(buff, k), entry_offset |-> pos - off[k]]
  BY <1>2, FindCovers
<1>9. CASE hit = NoEntry /\ off[n] <= pos
  <2>1. ASSUME NEW k \in 1 .. n PROVE ~(pos < off[k])
    <3>1. off[k] <= off[n] /\ off[k] \in Nat /\ off[n] \in Nat
      BY <1>3, <1>4
    <3> QED BY <1>9, <3>1
  <2>2. behind = {}
    BY <2>1
  <2> QED BY <1>7, <1>9, <2>2
<1>10. ASSUME NEW k \in 0 .. n - 1, off[k] <= pos, pos < off[k] + SizeAt(buff, k),
              hit = [slot |-> SlotAt(buff, k), entry_offset |-> pos - off[k]]
       PROVE  LET e    == buff.entry[hit.slot]
                  copy == Min({count, e.size - hit.entry_offset})
                  got  == SubSeq(mem[e.buffptr], hit.entry_offset + 1, hit.entry_offset + copy)
              IN  /\ hit # NoEntry /\ copy \in Nat
                  /\ Lines!ReadAt(pos, count) = got /\ Len(got) = copy
  <2> DEFINE i    == SlotAt(buff, k)
             from == pos - off[k]
             copy == Min({count, buff.entry[i].size - from})
             bytes == mem[buff.entry[i].buffptr]
             got  == SubSeq(bytes, from + 1, from + copy)
             ends == off[k + 1]
  <2>1. /\ k \in 0 .. N - 1 /\ k + 1 \in 1 .. n /\ k + 1 \in 1 .. N /\ (k + 1) - 1 = k
        /\ k \in 0 .. N /\ k + 1 \in 0 .. N
    BY <1>3
  <2>2. i \in InUse /\ i \in Slots /\ i # NULL
    <3>1. i \in InUse /\ i \in Slots
      BY <1>1, <2>1, WindowInUse DEF InUse
    <3> QED BY <3>1, CharAssumption
  <2>3. /\ hit.slot = i /\ hit.entry_offset = from /\ hit # NoEntry
    BY <1>10, <2>2 DEF NoEntry
  <2>4. bytes \in Seq(Byte) /\ buff.entry[i].size = Len(bytes)
    BY <1>1, <2>2 DEF MemInv, MemTypeOK, Ownership, Sizes, BufferOf, EntryOf, InUse, Ptr
  <2>5. lines[k + 1] = bytes /\ Len(bytes) = SizeAt(buff, k)
    <3>1. lines[k + 1] = SubSeq(bytes, 1, Len(bytes))
      BY <1>5, <2>1, <2>4
    <3>2. SubSeq(bytes, 1, Len(bytes)) = bytes
      BY <2>4, CutAndJoin
    <3> QED BY <2>4, <3>1, <3>2 DEF SizeAt
  <2>6. /\ off[k] \in Nat /\ ends \in Nat /\ ends = off[k] + SizeAt(buff, k)
        /\ ends <= off[n] /\ off[n] \in Nat /\ SizeAt(buff, k) \in Nat
    <3>1. ends = off[k] + SizeAt(buff, k)
      BY <1>4, <2>1
    <3>2. k + 1 <= n /\ n \in 0 .. N
      BY <1>3
    <3> QED BY <1>4, <2>1, <3>1, <3>2
  <2>7. Min(behind) = k + 1 /\ behind # {}
    <3>1. k + 1 \in behind
      BY <1>10, <2>1, <2>6
    <3>2. Min(behind) \in behind /\ Min(behind) <= k + 1
      BY <1>3, <3>1, MinOf
    <3>3. ASSUME NEW j \in behind PROVE ~(j <= k)
      <4>1. j \in 0 .. N /\ off[j] \in Nat /\ pos < off[j]
        BY <1>3, <1>4
      <4> QED BY <1>4, <1>10, <2>1, <2>6, <4>1
    <3> HIDE DEF behind
    <3>4. Min(behind) \in Nat /\ k \in Nat
      BY <1>3, <2>1, <3>2 DEF behind
    <3> QED BY <3>1, <3>2, <3>3, <3>4
  <2> HIDE DEF off, all, lines, i, bytes, hit
  <2>8. PICK base \in Nat : base = off[k]
    BY <2>6
  <2>9. PICK f \in Nat : f = from
    BY <1>10, <2>6
  <2>10. /\ pos = base + f /\ f < Len(bytes) /\ ends = base + Len(bytes)
         /\ base + Len(bytes) <= Len(all)
    <3>1. SizeAt(buff, k) = Len(bytes) /\ Len(bytes) \in Nat /\ Len(all) = off[n] /\ off[n] \in Nat
      BY <1>6, <2>4, <2>5, <2>6
    <3>2. ends = base + Len(bytes) /\ base + Len(bytes) <= Len(all)
      BY <2>6, <2>8, <3>1
    <3>3. f = pos - base /\ pos < base + Len(bytes)
      BY <1>10, <2>8, <2>9, <3>1
    <3> HIDE DEF ends
    <3> QED BY <3>1, <3>2, <3>3
  <2>11. \A j \in 1 .. Len(bytes) : all[base + j] = bytes[j]
    BY <1>6, <2>1, <2>5, <2>8
  <2> HIDE DEF from, ends
  <2>12. IsMin(copy, count, Len(bytes) - f)
    <3>1. Len(bytes) - f \in Nat
      BY <2>4, <2>9, <2>10
    <3>2. copy = Min({count, Len(bytes) - f})
      BY <2>4, <2>9
    <3> QED BY <3>1, <3>2, MinOfTwo
  <2>13. IsMin(upto, base + f + count, base + Len(bytes))
    <3>1. base + Len(bytes) \in Nat /\ base + f + count \in Nat
      BY <2>4
    <3>2. upto = Min({base + f + count, base + Len(bytes)})
      BY <2>7, <2>10 DEF ends
    <3> QED BY <3>1, <3>2, MinOfTwo
  <2> HIDE DEF copy, upto, behind
  <2>14. /\ Len(SubSeq(bytes, f + 1, f + copy)) = copy
         /\ SubSeq(all, base + f + 1, upto) = SubSeq(bytes, f + 1, f + copy)
    <3>1. all \in Seq(Byte) /\ bytes \in Seq(Byte) /\ Len(all) \in Nat /\ Len(bytes) \in Nat
      BY <1>5, <2>4
    <3>2. /\ copy \in Nat /\ f + copy <= Len(bytes)
          /\ copy = count \/ copy = Len(bytes) - f
      BY <2>12, <3>1 DEF IsMin
    <3>3. upto = pos + copy
      BY <2>10, <2>12, <2>13, <3>1 DEF IsMin
    <3>4. pos + copy <= Len(all)
      BY <2>10, <3>1, <3>2
    <3>5. ASSUME NEW j \in 1 .. copy PROVE all[pos + j] = bytes[f + j]
      <4>1. f + j \in 1 .. Len(bytes) /\ base + (f + j) = pos + j
        BY <2>10, <3>1, <3>2
      <4> QED BY <2>11, <4>1
    <3>6. /\ SubSeq(all, pos + 1, pos + copy) = SubSeq(bytes, f + 1, f + copy)
          /\ Len(SubSeq(all, pos + 1, pos + copy)) = copy
      <4> DEFINE x == SubSeq(all, pos + 1, pos + copy)
                 y == SubSeq(bytes, f + 1, f + copy)
      <4>1. x \in Seq(Byte) /\ Len(x) = copy /\ \A j \in 1 .. copy : x[j] = all[pos + j]
        BY <3>1, <3>2, <3>4
      <4>2. y \in Seq(Byte) /\ Len(y) = copy /\ \A j \in 1 .. copy : y[j] = bytes[f + j]
        BY <3>1, <3>2
      <4> HIDE DEF x, y
      <4>3. \A j \in 1 .. copy : x[j] = y[j]
        BY <3>5, <4>1, <4>2
      <4>4. x = y
        BY <4>1, <4>2, <4>3, SeqEqual
      <4> QED BY <4>1, <4>4 DEF x, y
    <3> QED BY <2>10, <3>3, <3>6
  <2>15. Lines!ReadAt(pos, count) = SubSeq(all, base + f + 1, upto)
    BY <1>7, <2>7, <2>10
  <2>16. copy \in Nat /\ Len(got) = copy /\ Lines!ReadAt(pos, count) = got
    BY <2>9, <2>12, <2>14, <2>15 DEF IsMin
  <2> QED BY <2>3, <2>16 DEF copy, bytes
<1> QED BY <1>8, <1>9, <1>10

(* Nothing is left in a user's buffer from one call to the next. *)
NothingCopied == \A t \in Threads : pc[t] # "exit" => user_buf[t] = << >>

(* Only a read that returns its bytes fills a user's buffer; Return empties it. *)
LEMMA NothingCopiedStep == ReadInv /\ NothingCopied /\ [Next]_vars => NothingCopied'
<1> SUFFICES ASSUME ReadInv, NothingCopied, [Next]_vars PROVE NothingCopied'
  OBVIOUS
<1> USE DEF NothingCopied
<1>1. /\ LockInv /\ pc \in [Threads -> Places] /\ DOMAIN user_buf = Threads
  BY DEF ReadInv, MemInv, LockInv, LockTypeOK, PosTypeOK
<1>2. CASE InitModule \/ SetupCdev \/ CleanupModule \/ UNCHANGED vars
  BY <1>2 DEF InitModule, SetupCdev, CleanupModule, vars
<1>3. ASSUME NEW f, Open(f) \/ Release(f) PROVE NothingCopied'
  BY <1>3 DEF Open, Release
<1>4. ASSUME NEW t \in Threads, NEW c, Begin(t, c) PROVE NothingCopied'
  BY <1>1, <1>4 DEF Begin
<1>5. ASSUME NEW t \in Threads, MutexLock(t) \/ Step(t) PROVE NothingCopied'
  <2>1. PICK next \in Places : pc' = [pc EXCEPT ![t] = next]
    BY <1>1, <1>5, StepMoves DEF Moves
  <2>2. ASSUME NEW u \in Threads \ {t} PROVE user_buf'[u] = user_buf[u] /\ pc'[u] = pc[u]
    BY <1>1, <1>5, <2>1 DEF MutexLock, Step, Read, CopyToUser, AllocFails, StoreBytes,
       ExtractCommand, MoveCommand, ExtractFails, FinishWrite, LlseekSize, FixedSizeLlseek,
       IoctlRefused, IoctlSeek, SeekTo, Return
  <2>3. pc'[t] # "exit" => user_buf'[t] = << >>
    <3>1. CASE Read(t)
      BY <1>1, <3>1 DEF Read, CopyToUser, Unlock
    <3>2. CASE Return(t)
      BY <1>1, <3>2 DEF Return
    <3>3. CASE ~Read(t) /\ ~Return(t)
      <4>1. user_buf' = user_buf /\ pc[t] # "exit"
        BY <1>5, <3>3 DEF MutexLock, Step, AllocFails, StoreBytes, ExtractCommand, MoveCommand,
           ExtractFails, FinishWrite, LlseekSize, FixedSizeLlseek, IoctlRefused, IoctlSeek, SeekTo
      <4> QED BY <4>1
    <3> QED BY <3>1, <3>2, <3>3
  <2> QED BY <2>2, <2>3
<1>6. Next \/ UNCHANGED vars
  OBVIOUS
<1> QED BY <1>2, <1>3, <1>4, <1>5, <1>6 DEF Next, BeginRead, BeginWrite, BeginLlseek, BeginIoctl

(* What a step of Read that succeeds gives its user. *)
LEMMA ReadReturns ==
  ASSUME ReadInv, NothingCopied, NEW t \in Threads, Read(t), pc'[t] = "exit"
  PROVE  /\ user_buf'[t] = Lines!ReadAt(call[t].pos, call[t].count)
         /\ call'[t].pos = call[t].pos + Len(user_buf'[t])
<1> DEFINE pos  == call[t].pos
           hit  == FindEntryOffsetForFpos(buff, pos)
           e    == buff.entry[hit.slot]
           copy == Min({call[t].count, e.size - hit.entry_offset})
           got  == SubSeq(mem[e.buffptr], hit.entry_offset + 1, hit.entry_offset + copy)
           at   == Lines!ReadAt(pos, call[t].count)
<1>1. /\ pc[t] = "held" /\ pos \in Nat /\ call[t].count \in Nat /\ user_buf[t] = << >>
      /\ DOMAIN user_buf = Threads /\ DOMAIN call = Threads /\ pc \in [Threads -> Places]
      /\ call[t].op = "read"
  BY DEF Read, ReadInv, MemInv, LockInv, LockTypeOK, PosTypeOK, TypedCall, NothingCopied
<1>2. \/ hit = NoEntry /\ at = << >>
      \/ hit # NoEntry /\ copy \in Nat /\ at = got /\ Len(got) = copy
  BY <1>1, ReadFinds
<1>3. \/ hit = NoEntry /\ UNCHANGED <<user_buf, call>>
      \/ /\ hit # NoEntry
         /\ user_buf' = [user_buf EXCEPT ![t] = got]
         /\ call' = [call EXCEPT ![t].pos = @ + copy]
  <2>1. pc'[t] # "fail"
    OBVIOUS
  <2> QED BY <1>1, <2>1 DEF Read, CopyToUser, Unlock
<1> HIDE DEF hit, got, copy, at
<1>4. CASE hit = NoEntry
  <2>1. user_buf'[t] = << >> /\ at = << >> /\ call'[t] = call[t]
    BY <1>1, <1>2, <1>3, <1>4
  <2> QED BY <1>1, <2>1 DEF at
<1>5. CASE hit # NoEntry
  <2>1. user_buf'[t] = got /\ at = got /\ Len(got) = copy
    BY <1>1, <1>2, <1>3, <1>5
  <2>2. "pos" \in DOMAIN call[t]
    BY <1>1 DEF ReadInv, PosTypeOK, TypedCall
  <2>3. call'[t].pos = pos + copy
    BY <1>1, <1>3, <1>5, <2>2
  <2> QED BY <2>1, <2>3 DEF at
<1> QED BY <1>4, <1>5

(* What a read returns: the bytes of the line device at its position, to   *)
(* the end of the command there and no more than it asks for, and its      *)
(* position moves by as many, for every size of the buffer, every content  *)
(* and every interleaving of calls (aesd_read).                            *)
THEOREM ReadAlwaysReturnsContents == Spec => ReadReturnsContents
<1>1. ASSUME ReadInv, [Next]_vars, NEW t \in Threads,
             pc[t] = "held", call[t].op = "read", pc'[t] = "exit"
      PROVE  Read(t)
  <2>1. LockInv
    BY <1>1 DEF ReadInv, MemInv
  <2> QED BY <1>1, <2>1, HeldLeaves DEF AllocFails, StoreBytes, LlseekSize, IoctlSeek, SeekTo
<1>2. ReadInv /\ NothingCopied /\ [Next]_vars =>
        [\A t \in Threads :
           (pc[t] = "held" /\ call[t].op = "read" /\ pc'[t] = "exit") =>
             /\ user_buf'[t] = Lines!ReadAt(call[t].pos, call[t].count)
             /\ call'[t].pos = call[t].pos + Len(user_buf'[t])]_vars
  BY <1>1, ReadReturns
<1>3. Init => NothingCopied
  BY DEF Init, NothingCopied
<1> QED BY <1>2, <1>3, ReadInit, ReadStep, NothingCopiedStep, PTL DEF Spec, ReadReturnsContents

-----------------------------------------------------------------------------
(* The size of the device. *)

(* The sum of the sizes in the slots, in whatever order, is the length of the *)
(* lines end to end.                                                          *)
LEMMA SizeIsLength ==
  ASSUME ReadInv, NEW t \in Threads, pc[t] = "held"
  PROVE  TotalSize = Len(Lines!Contents)
<1>1. Loaded /\ view.lines = Device.lines /\ MemInv
  BY HeldView DEF ReadInv
<1>2. buff \in BufferOf(Blocks) /\ Consistent(buff)
  BY <1>1 DEF MemInv, MemTypeOK
<1>3. TotalSize = CurrentOffset(buff)[EntryCount(buff)]
  BY <1>2, TotalIsLast DEF TotalSize
<1>4. Len(FlattenSeq(Device.lines)) = CurrentOffset(buff)[EntryCount(buff)]
  BY <1>1, LinesAtOffsets
<1>5. Lines!Contents = FlattenSeq(view.lines)
  BY Zenon DEF Lines!Contents, Lines!FlattenSeq, FlattenSeq
<1> QED BY <1>1, <1>3, <1>4, <1>5

(* The size aesd_llseek hands to fixed_size_llseek is the length of the      *)
(* contents when it was taken, with the buffer wrapped or not, and with any  *)
(* slot empty.                                                               *)
THEOREM LlseekAlwaysSizes == Spec => LlseekSizeIsContents
<1>1. ASSUME ReadInv, [Next]_vars, NEW t \in Threads, pc[t] = "held", pc'[t] = "setpos"
      PROVE  call'[t].total_size = Len(Lines!Contents)
  <2>1. /\ LockInv /\ pc \in [Threads -> Places] /\ DOMAIN call = Threads
        /\ TypedCall(call[t])
    BY <1>1 DEF ReadInv, MemInv, LockInv, LockTypeOK, PosTypeOK
  <2>2. LlseekSize(t)
    <3>1. ~Read(t) /\ ~AllocFails(t) /\ ~StoreBytes(t) /\ ~IoctlSeek(t)
      BY <1>1, <2>1 DEF Read, CopyToUser, AllocFails, StoreBytes, LeaveWrite, IoctlSeek, SeekTo,
         Unlock
    <3> QED BY <1>1, <2>1, <3>1, HeldLeaves
  <2>3. "total_size" \in DOMAIN call[t]
    BY <2>1, <2>2 DEF LlseekSize, TypedCall
  <2>4. call' = [call EXCEPT ![t].total_size = TotalSize]
    BY <2>2 DEF LlseekSize
  <2>5. call'[t].total_size = TotalSize
    BY <2>1, <2>3, <2>4
  <2> QED BY <1>1, <2>5, SizeIsLength
<1>2. ReadInv /\ [Next]_vars =>
        [\A t \in Threads : (pc[t] = "held" /\ pc'[t] = "setpos") =>
           call'[t].total_size = Len(Lines!Contents)]_vars
  BY <1>1
<1> QED BY <1>2, ReadInit, ReadStep, PTL DEF Spec, LlseekSizeIsContents


-----------------------------------------------------------------------------
(* The refinement.  The line device counts newlines to say where commands   *)
(* end, the driver looks for the next one (memchr): the k-th newline is the *)
(* first behind the one before it.                                          *)
Upto(P, i) == {j \in P : j <= i}
Beyond(P, i) == {j \in P : j > i}
Rank(P, i) == Cardinality(Upto(P, i))

(* One more position up to the first one beyond i. *)
LEMMA RankNext ==
  ASSUME NEW P \in SUBSET Nat, IsFiniteSet(P), NEW i \in Nat, Beyond(P, i) # {}
  PROVE  /\ Min(Beyond(P, i)) \in P /\ Min(Beyond(P, i)) > i
         /\ \A j \in P : j > i => Min(Beyond(P, i)) <= j
         /\ Rank(P, Min(Beyond(P, i))) = Rank(P, i) + 1
         /\ Rank(P, i) \in Nat /\ Rank(P, i) < Cardinality(P)
<1> DEFINE m == Min(Beyond(P, i))
<1>1. Beyond(P, i) \in SUBSET Nat
  BY DEF Beyond
<1>2. m \in Beyond(P, i) /\ \A j \in Beyond(P, i) : m <= j
  BY <1>1, MinOf
<1>3. m \in P /\ m \in Nat /\ m > i /\ \A j \in P : j > i => m <= j
  BY <1>2 DEF Beyond
<1> HIDE DEF m
<1>4. Upto(P, m) = Upto(P, i) \cup {m} /\ m \notin Upto(P, i) /\ Upto(P, i) \in SUBSET P
  <2>1. ASSUME NEW j \in P PROVE j <= m <=> j <= i \/ j = m
    <3>1. j \in Nat
      OBVIOUS
    <3> QED BY <1>3, <3>1
  <2>2. Upto(P, m) = Upto(P, i) \cup {m}
    BY ONLY <1>3, <2>1 DEF Upto
  <2>3. ~(m <= i)
    BY <1>3
  <2> QED BY <2>2, <2>3 DEF Upto
<1>5. IsFiniteSet(Upto(P, i)) /\ Cardinality(Upto(P, i)) <= Cardinality(P)
      /\ (Cardinality(P) = Cardinality(Upto(P, i)) => P = Upto(P, i))
  BY <1>4, FS_Subset
<1>6. Cardinality(Upto(P, i) \cup {m}) = Cardinality(Upto(P, i)) + 1
  BY <1>4, <1>5, FS_AddElement
<1>7. P # Upto(P, i) /\ Cardinality(P) \in Nat /\ Cardinality(Upto(P, i)) \in Nat
  BY <1>3, <1>4, <1>5, FS_CardinalityType
<1> QED BY <1>3, <1>4, <1>5, <1>6, <1>7 DEF Rank, m

(* Nothing is beyond i exactly when all positions are up to it. *)
LEMMA RankLast ==
  ASSUME NEW P \in SUBSET Nat, IsFiniteSet(P), NEW i \in Nat
  PROVE  Beyond(P, i) = {} <=> Rank(P, i) = Cardinality(P)
<1>1. CASE Beyond(P, i) = {}
  <2>1. \A j \in P : j \in Nat /\ ~(j > i)
    BY <1>1 DEF Beyond
  <2>2. \A j \in P : j <= i
    BY <2>1
  <2>3. Upto(P, i) = P
    BY <2>2 DEF Upto
  <2> QED BY <1>1, <2>3 DEF Rank
<1>2. CASE Beyond(P, i) # {}
  <2>1. Rank(P, i) \in Nat /\ Rank(P, i) < Cardinality(P) /\ Cardinality(P) \in Nat
    BY <1>2, RankNext, FS_CardinalityType
  <2> QED BY <1>2, <2>1
<1> QED BY <1>1, <1>2

(* No two positions have the same rank. *)
LEMMA RankInjective ==
  ASSUME NEW P \in SUBSET Nat, IsFiniteSet(P)
  PROVE  \A i, j \in P : Rank(P, i) = Rank(P, j) => i = j
<1>1. ASSUME NEW i \in P, NEW j \in P, i < j PROVE Rank(P, i) # Rank(P, j)
  <2>1. Upto(P, i) \in SUBSET Upto(P, j) /\ j \in Upto(P, j) /\ j \notin Upto(P, i)
    <3>1. \A l \in P : l \in Nat
      OBVIOUS
    <3>2. \A l \in P : l <= i => l <= j
      BY <1>1, <3>1
    <3>3. j <= j /\ ~(j <= i)
      BY <1>1, <3>1
    <3> QED BY <3>2, <3>3 DEF Upto
  <2>2. Upto(P, j) \in SUBSET P
    BY DEF Upto
  <2>3. IsFiniteSet(Upto(P, j))
    BY <2>2, FS_Subset
  <2>4. Cardinality(Upto(P, j)) = Cardinality(Upto(P, i)) => Upto(P, j) = Upto(P, i)
    BY <2>1, <2>3, FS_Subset
  <2> QED BY <2>1, <2>4 DEF Rank
<1>2. \A i, j \in P : i < j \/ i = j \/ j < i
  OBVIOUS
<1> QED BY <1>1, <1>2

(* Where the k-th command of s ends: at 0 the first one begins. *)
NewlinesIn(s) == {i \in 1 .. Len(s) : s[i] = NL}
Cut(s, k) == IF k = 0 THEN 0 ELSE Lines!Ends(s)[k]

(* Ends, with the rank of a newline for the count in it. *)
LEMMA EndsOf ==
  ASSUME NEW s
  PROVE  Lines!Ends(s) = [k \in 1 .. Cardinality(NewlinesIn(s)) |->
                            CHOOSE i \in NewlinesIn(s) : Rank(NewlinesIn(s), i) = k]
BY Zenon DEF Lines!Ends, Lines!Cardinality, Cardinality, NewlinesIn, Rank, Upto

(* A sequence has finitely many newlines. *)
LEMMA NewlinesFinite ==
  ASSUME NEW S, NEW s \in Seq(S)
  PROVE  /\ NewlinesIn(s) \in SUBSET Nat /\ IsFiniteSet(NewlinesIn(s))
         /\ Cardinality(NewlinesIn(s)) \in Nat
         /\ Len(Lines!Ends(s)) = Cardinality(NewlinesIn(s))
<1>1. NewlinesIn(s) \in SUBSET (1 .. Len(s)) /\ Len(s) \in Nat
  BY DEF NewlinesIn
<1>2. IsFiniteSet(1 .. Len(s))
  BY <1>1, FS_Interval
<1>3. IsFiniteSet(NewlinesIn(s)) /\ Cardinality(NewlinesIn(s)) \in Nat
  BY <1>1, <1>2, FS_Subset, FS_CardinalityType
<1>4. Len(Lines!Ends(s)) = Cardinality(NewlinesIn(s))
  BY <1>3, EndsOf
<1> QED BY <1>1, <1>3, <1>4

(* The k-th command ends at the newline with k newlines up to it. *)
LEMMA CutRanks ==
  ASSUME NEW S, NEW s \in Seq(S)
  PROVE  /\ \A k \in 0 .. Len(Lines!Ends(s)) :
              /\ Cut(s, k) \in 0 .. Len(s) /\ Rank(NewlinesIn(s), Cut(s, k)) = k
              /\ k # 0 => Cut(s, k) \in NewlinesIn(s)
<1> DEFINE P == NewlinesIn(s)
           n == Cardinality(P)
           Good(k) == /\ Cut(s, k) \in 0 .. Len(s) /\ Rank(P, Cut(s, k)) = k
                      /\ k # 0 => Cut(s, k) \in P
           T == {k \in Nat : k <= n => Good(k)}
<1>1. /\ P \in SUBSET Nat /\ IsFiniteSet(P) /\ n \in Nat /\ Len(Lines!Ends(s)) = n
      /\ P \in SUBSET (1 .. Len(s)) /\ Len(s) \in Nat
  BY NewlinesFinite DEF NewlinesIn
<1>2. 0 \in T
  <2>1. Upto(P, 0) = {}
    BY <1>1 DEF Upto
  <2>2. Cardinality({}) = 0
    BY FS_EmptySet
  <2>3. Cut(s, 0) = 0 /\ Rank(P, 0) = 0
    BY <2>1, <2>2 DEF Cut, Rank
  <2>4. Good(0)
    BY <1>1, <2>3
  <2> QED BY <2>4
<1>3. ASSUME NEW k \in Nat, k \in T, k + 1 <= n
      PROVE  Good(k + 1)
  <2> DEFINE c == Cut(s, k)
  <2>1. c \in Nat /\ Rank(P, c) = k /\ k < n
    <3>1. Good(k) /\ k < n
      BY <1>1, <1>3
    <3> QED BY <1>1, <3>1
  <2>2. Beyond(P, c) # {}
    BY <1>1, <2>1, RankLast
  <2>3. Min(Beyond(P, c)) \in P /\ Rank(P, Min(Beyond(P, c))) = k + 1
    BY <1>1, <2>1, <2>2, RankNext
  <2> DEFINE l == k + 1
  <2>4. l \in 1 .. n
    BY <1>1, <2>1
  <2>5. \E i \in P : Rank(P, i) = l
    BY <2>3
  <2> HIDE DEF l
  <2>6. Cut(s, l) = CHOOSE i \in P : Rank(P, i) = l
    BY <2>4, <1>1, EndsOf DEF Cut
  <2>7. Cut(s, l) \in P /\ Rank(P, Cut(s, l)) = l
    BY <2>5, <2>6
  <2> QED BY <1>1, <2>7 DEF l
<1>4. \A k \in Nat : k \in T => k + 1 \in T
  BY <1>3
<1>5. Nat \subseteq T
  <2> HIDE DEF T
  <2> QED BY <1>2, <1>4, NatInduct
<1> QED BY <1>1, <1>5

(* The next command ends at the first newline beyond the last one. *)
LEMMA CutNext ==
  ASSUME NEW S, NEW s \in Seq(S), NEW k \in 0 .. Len(Lines!Ends(s))
  PROVE  /\ k = Len(Lines!Ends(s)) <=> Beyond(NewlinesIn(s), Cut(s, k)) = {}
         /\ k < Len(Lines!Ends(s)) =>
              LET next == Cut(s, k + 1)
              IN  /\ next \in NewlinesIn(s) /\ next > Cut(s, k)
                  /\ \A j \in NewlinesIn(s) : j > Cut(s, k) => next <= j
<1> DEFINE P == NewlinesIn(s)
           c == Cut(s, k)
           n == Len(Lines!Ends(s))
<1>1. P \in SUBSET Nat /\ IsFiniteSet(P) /\ n \in Nat /\ n = Cardinality(P)
  BY NewlinesFinite
<1>2. c \in Nat /\ Rank(P, c) = k
  BY CutRanks
<1>3. k = n <=> Beyond(P, c) = {}
  BY <1>1, <1>2, RankLast
<1>4. ASSUME k < n
      PROVE  /\ Cut(s, k + 1) \in P /\ Cut(s, k + 1) > c
             /\ \A j \in P : j > c => Cut(s, k + 1) <= j
  <2> DEFINE m == Min(Beyond(P, c))
  <2>1. /\ m \in P /\ m > c /\ Rank(P, m) = k + 1
        /\ \A j \in P : j > c => m <= j
    BY <1>1, <1>2, <1>3, <1>4, RankNext
  <2>2. Cut(s, k + 1) \in P /\ Rank(P, Cut(s, k + 1)) = k + 1
    <3>1. k + 1 \in 0 .. Len(Lines!Ends(s)) /\ k + 1 # 0
      BY <1>1, <1>4
    <3> QED BY <3>1, CutRanks
  <2>3. Cut(s, k + 1) = m
    BY <1>1, <2>1, <2>2, RankInjective
  <2> HIDE DEF m
  <2> QED BY <2>1, <2>3
<1> QED BY <1>3, <1>4

(* A part of a part of a sequence. *)
LEMMA PartOfPart ==
  ASSUME NEW S, NEW s \in Seq(S), NEW a \in 0 .. Len(s), NEW z, z = a + 1,
         NEW r, r = SubSeq(s, z, Len(s)),
         NEW p \in Nat \ {0}, NEW q \in 0 .. Len(s) - a, NEW x, NEW y, x = a + p, y = a + q
  PROVE  SubSeq(r, p, q) = SubSeq(s, x, y)
<1>1. /\ Len(s) \in Nat /\ Len(r) = Len(s) - a /\ r \in Seq(S)
      /\ \A i \in 1 .. Len(s) - a : r[i] = s[a + i]
  OBVIOUS
<1> DEFINE u == SubSeq(r, p, q)
           v == SubSeq(s, x, y)
           n == IF p <= q THEN q - p + 1 ELSE 0
<1>2. u = [i \in 1 .. n |-> r[p + i - 1]]
  <2>1. r \in Seq(S) /\ p \in Nat \ {0} /\ q \in Nat
    BY <1>1
  <2> QED BY ONLY <2>1
<1>3. v = [i \in 1 .. n |-> s[x + i - 1]]
  <2>1. s \in Seq(S) /\ x \in Nat \ {0} /\ y \in Nat
        /\ n = IF x <= y THEN y - x + 1 ELSE 0
    BY <1>1
  <2> HIDE DEF n
  <2> QED BY ONLY <2>1 DEF v
<1>4. ASSUME NEW i \in 1 .. n PROVE r[p + i - 1] = s[x + i - 1]
  <2>1. p + i - 1 \in 1 .. Len(s) - a
    BY <1>1
  <2>2. a + (p + i - 1) = x + i - 1
    BY <1>1
  <2> DEFINE j == p + i - 1
  <2>3. r[j] = s[a + j]
    <3> HIDE DEF j
    <3> QED BY <1>1, <2>1 DEF j
  <2> QED BY <2>2, <2>3
<1> HIDE DEF n, u, v
<1>5. u = v
  BY <1>2, <1>3, <1>4
<1> QED BY <1>5 DEF u, v

(* What is left of s behind its k-th command. *)
LEMMA RestShape ==
  ASSUME NEW S, NEW s \in Seq(S), NEW k \in 0 .. Len(Lines!Ends(s))
  PROVE  LET r == Lines!After(s, k)
             a == Cut(s, k)
         IN  /\ a \in 0 .. Len(s) /\ r = SubSeq(s, a + 1, Len(s)) /\ r \in Seq(S)
             /\ Len(r) = Len(s) - a
             /\ \A i \in 1 .. Len(r) : r[i] = s[a + i]
<1>1. Cut(s, k) \in 0 .. Len(s)
  BY CutRanks
<1>2. Lines!After(s, k) = SubSeq(s, Cut(s, k) + 1, Len(s))
  BY DEF Lines!After, Cut
<1> QED BY <1>1, <1>2

(* It has no newline exactly when the k-th command is the last one. *)
LEMMA NoNewlineLeft ==
  ASSUME NEW S, NEW s \in Seq(S), NEW k \in 0 .. Len(Lines!Ends(s))
  PROVE  k = Len(Lines!Ends(s)) <=> NewlinesIn(Lines!After(s, k)) = {}
<1> DEFINE r == Lines!After(s, k)
           a == Cut(s, k)
<1>1. /\ a \in 0 .. Len(s) /\ Len(r) = Len(s) - a /\ Len(s) \in Nat
      /\ \A i \in 1 .. Len(r) : r[i] = s[a + i]
  BY RestShape
<1>2. k = Len(Lines!Ends(s)) <=> Beyond(NewlinesIn(s), a) = {}
  BY CutNext
<1> HIDE DEF r, a
<1>3. ASSUME NEW j \in Beyond(NewlinesIn(s), a) PROVE NewlinesIn(r) # {}
  <2>1. j \in 1 .. Len(s) /\ s[j] = NL /\ j > a
    BY DEF Beyond, NewlinesIn
  <2> DEFINE i == j - a
  <2>2. i \in 1 .. Len(r) /\ a + i = j
    BY <1>1, <2>1
  <2> HIDE DEF i
  <2>3. r[i] = NL
    BY <1>1, <2>1, <2>2
  <2> QED BY <2>2, <2>3 DEF NewlinesIn
<1>4. ASSUME NEW i \in NewlinesIn(r) PROVE Beyond(NewlinesIn(s), a) # {}
  <2>1. i \in 1 .. Len(r) /\ r[i] = NL
    BY DEF NewlinesIn
  <2> DEFINE j == a + i
  <2>2. j \in 1 .. Len(s) /\ j > a /\ s[j] = NL
    BY <1>1, <2>1, SMTT(30)
  <2> HIDE DEF j
  <2>3. j \in Beyond(NewlinesIn(s), a)
    BY <2>2 DEF Beyond, NewlinesIn
  <2> QED BY <2>3
<1> QED BY <1>2, <1>3, <1>4 DEF r

(* Otherwise the next command is cut from it at its first newline. *)
LEMMA NextCommand ==
  ASSUME NEW S, NEW s \in Seq(S), NEW k \in 0 .. Len(Lines!Ends(s)),
         NEW r, r = Lines!After(s, k),
         NEW m \in NewlinesIn(r), \A j \in NewlinesIn(r) : m <= j,
         NEW l, l = k + 1
  PROVE  /\ l \in 1 .. Len(Lines!Ends(s))
         /\ Lines!Commands(s)[l] = SubSeq(r, 1, m)
         /\ Lines!After(s, l) = SubSeq(r, m + 1, Len(r))
<1> DEFINE a == Cut(s, k)
           b == Cut(s, l)
           n == Len(Lines!Ends(s))
<1>1. /\ a \in 0 .. Len(s) /\ Len(r) = Len(s) - a /\ Len(s) \in Nat
      /\ r = SubSeq(s, a + 1, Len(s))
      /\ \A i \in 1 .. Len(r) : r[i] = s[a + i]
  BY RestShape, SMTT(30)
<1>2. n \in Nat /\ k < n
  BY NoNewlineLeft, NewlinesFinite
<1>3. l \in 1 .. n /\ l # 0 /\ k \in Nat
  BY <1>2
<1>4. b \in NewlinesIn(s) /\ b > a /\ \A j \in NewlinesIn(s) : j > a => b <= j
  BY <1>2, CutNext
<1>5. b \in 1 .. Len(s) /\ s[b] = NL
  BY <1>4 DEF NewlinesIn
<1>6. m \in 1 .. Len(r) /\ r[m] = NL
  BY DEF NewlinesIn
<1> HIDE DEF a, b, n
<1>7. b = a + m
  <2>1. b <= a + m
    <3> DEFINE j == a + m
    <3>1. j \in 1 .. Len(s) /\ j > a /\ s[j] = NL
      BY <1>1, <1>6, SMTT(30)
    <3> HIDE DEF j
    <3>2. j \in NewlinesIn(s)
      BY <3>1 DEF NewlinesIn
    <3>3. b <= j
      BY <1>4, <3>1, <3>2
    <3> QED BY <3>3 DEF j
  <2>2. m <= b - a
    <3> DEFINE i == b - a
    <3>1. i \in 1 .. Len(r) /\ a + i = b
      BY <1>1, <1>4, <1>5
    <3> HIDE DEF i
    <3>2. r[i] = NL
      BY <1>1, <1>5, <3>1
    <3>3. i \in NewlinesIn(r)
      BY <3>1, <3>2 DEF NewlinesIn
    <3>4. m <= i
      BY <3>3
    <3> QED BY <3>4 DEF i
  <2> QED BY <1>1, <1>5, <1>6, <2>1, <2>2
<1>8. Lines!Commands(s)[l] = SubSeq(s, a + 1, b)
  <2>1. Lines!Commands(s)[l] = SubSeq(s, (IF l = 1 THEN 0 ELSE Lines!Ends(s)[l - 1]) + 1, Lines!Ends(s)[l])
    BY <1>3 DEF Lines!Commands, n
  <2>2. l - 1 = k /\ (l = 1 <=> k = 0)
    BY <1>3
  <2>3. a = (IF l = 1 THEN 0 ELSE Lines!Ends(s)[l - 1]) /\ b = Lines!Ends(s)[l]
    BY <1>3, <2>2 DEF a, b, Cut
  <2> QED BY <2>1, <2>3
<1>9. Lines!After(s, l) = SubSeq(s, b + 1, Len(s))
  BY <1>3 DEF Lines!After, b, Cut
<1>10. SubSeq(r, 1, m) = SubSeq(s, a + 1, b)
  <2>1. m \in 0 .. Len(s) - a /\ 1 \in Nat \ {0}
    BY <1>1, <1>6
  <2>2. PICK z : z = a + 1
    OBVIOUS
  <2>3. r = SubSeq(s, z, Len(s)) /\ a \in 0 .. Len(s)
    BY <1>1, <2>2
  <2>4. SubSeq(r, 1, m) = SubSeq(s, z, b)
    BY <1>7, <2>1, <2>2, <2>3, PartOfPart
  <2> QED BY <2>2, <2>4
<1>11. SubSeq(r, m + 1, Len(r)) = SubSeq(s, b + 1, Len(s))
  <2>1. Len(r) \in 0 .. Len(s) - a /\ m + 1 \in Nat \ {0} /\ b + 1 = a + (m + 1)
        /\ Len(s) = a + Len(r)
    BY <1>1, <1>6, <1>7
  <2>2. PICK z, p, x, q, y : z = a + 1 /\ p = m + 1 /\ x = b + 1 /\ q = Len(r) /\ y = Len(s)
    OBVIOUS
  <2>3. r = SubSeq(s, z, Len(s)) /\ a \in 0 .. Len(s) /\ p \in Nat \ {0} /\ x = a + p
        /\ q \in 0 .. Len(s) - a /\ y = a + q
    BY <1>1, <2>1, <2>2
  <2>4. s \in Seq(S) /\ z = a + 1
    BY <2>2
  <2>5. SubSeq(r, p, q) = SubSeq(s, x, y)
    BY ONLY <2>3, <2>4, PartOfPart
  <2> QED BY <2>2, <2>5
<1> QED BY <1>3, <1>8, <1>9, <1>10, <1>11 DEF n

(* Up to N commands are all among the N most recent ones. *)
LEMMA RecentAll ==
  ASSUME NEW S, NEW Y \in Seq(S), Len(Y) <= N
  PROVE  Lines!MostRecent(Y) = Y
<1>1. ~(Len(Y) > N)
  BY NAssumption
<1>2. Lines!MostRecent(Y) = SubSeq(Y, 1, Len(Y))
  BY <1>1 DEF Lines!MostRecent
<1> QED BY <1>2, CutAndJoin

(* The N most recent commands, one by one. *)
LEMMA RecentShape ==
  ASSUME NEW S, NEW Y \in Seq(S)
  PROVE  LET a == IF Len(Y) > N THEN Len(Y) - N ELSE 0
             L == Lines!MostRecent(Y)
         IN  /\ a \in 0 .. Len(Y) /\ L \in Seq(S) /\ Len(L) = Len(Y) - a
             /\ Len(L) <= N /\ (Len(L) = N <=> Len(Y) >= N)
             /\ \A i \in 1 .. Len(L) : L[i] = Y[a + i]
<1> DEFINE a == IF Len(Y) > N THEN Len(Y) - N ELSE 0
<1>1. Len(Y) \in Nat /\ N \in Nat \ {0} /\ a \in 0 .. Len(Y)
  BY NAssumption
<1>2. Lines!MostRecent(Y) = SubSeq(Y, a + 1, Len(Y))
  <2>1. a + 1 = IF Len(Y) > N THEN Len(Y) - N + 1 ELSE 1
    BY <1>1
  <2> QED BY <2>1 DEF Lines!MostRecent
<1>3. Len(Y) - a <= N /\ (Len(Y) - a = N <=> Len(Y) >= N)
  BY <1>1
<1> HIDE DEF a
<1>4. LET L == SubSeq(Y, a + 1, Len(Y))
      IN  L \in Seq(S) /\ Len(L) = Len(Y) - a /\ \A i \in 1 .. Len(L) : L[i] = Y[a + i]
  BY <1>1
<1> QED BY <1>1, <1>2, <1>3, <1>4 DEF a

(* Another command pushes the oldest one out once there are N. *)
LEMMA RecentAppend ==
  ASSUME NEW S, NEW Y \in Seq(S), NEW c \in S
  PROVE  LET L == Lines!MostRecent(Y)
         IN  Lines!MostRecent(Append(Y, c)) = IF Len(L) = N THEN Append(Tail(L), c) ELSE Append(L, c)
<1> DEFINE Z == Append(Y, c)
           L == Lines!MostRecent(Y)
           M == Lines!MostRecent(Z)
           n == Len(Y)
           a == IF n > N THEN n - N ELSE 0
           b == IF Len(Z) > N THEN Len(Z) - N ELSE 0
<1>1. /\ n \in Nat /\ N \in Nat \ {0} /\ Z \in Seq(S) /\ Len(Z) = n + 1 /\ Z[n + 1] = c
      /\ \A i \in 1 .. n : Z[i] = Y[i]
  BY NAssumption
<1>2. /\ a \in 0 .. n /\ L \in Seq(S) /\ Len(L) = n - a /\ (Len(L) = N <=> n >= N)
      /\ \A i \in 1 .. n - a : L[i] = Y[a + i]
  BY RecentShape
<1>3. /\ b \in 0 .. n + 1 /\ M \in Seq(S) /\ Len(M) = n + 1 - b
      /\ \A i \in 1 .. n + 1 - b : M[i] = Z[b + i]
  <2> HIDE DEF Z
  <2>1. /\ b \in 0 .. Len(Z) /\ M \in Seq(S) /\ Len(M) = Len(Z) - b
        /\ \A i \in 1 .. Len(M) : M[i] = Z[b + i]
    BY <1>1, RecentShape
  <2> HIDE DEF b, M
  <2> QED BY <1>1, <2>1
<1>4. b = (IF Len(L) = N THEN a + 1 ELSE a) /\ b <= n
  BY <1>1, <1>2
<1> DEFINE K == IF Len(L) = N THEN Tail(L) ELSE L
<1>5. K \in Seq(S) /\ Len(K) = n - b /\ \A i \in 1 .. n - b : K[i] = Y[b + i]
  <2> HIDE DEF L, a, b, n
  <2>1. CASE Len(L) = N
    <3>1. L # << >> /\ b = a + 1
      BY <1>1, <1>4, <2>1
    <3>2. Tail(L) \in Seq(S) /\ Len(Tail(L)) = Len(L) - 1
          /\ \A i \in 1 .. Len(L) - 1 : Tail(L)[i] = L[i + 1]
      BY <1>2, <3>1
    <3>3. ASSUME NEW i \in 1 .. n - b PROVE L[i + 1] = Y[b + i]
      <4>1. i + 1 \in 1 .. n - a /\ a + (i + 1) = b + i
        BY <1>1, <1>2, <3>1
      <4> DEFINE j == i + 1
      <4>2. L[j] = Y[a + j]
        <5> HIDE DEF j
        <5> QED BY <1>2, <4>1 DEF j
      <4> QED BY <4>1, <4>2
    <3>4. Len(L) - 1 = n - b
      BY <1>1, <1>2, <3>1
    <3> QED BY <2>1, <3>2, <3>3, <3>4
  <2> QED BY <1>2, <1>4, <2>1
<1> HIDE DEF K, M, L, a, b, n, Z
<1>6. M = Append(K, c)
  <2>1. Len(M) = Len(K) + 1 /\ Len(K) = n - b /\ n - b \in Nat
    BY <1>1, <1>3, <1>4, <1>5
  <2>2. M[n - b + 1] = c
    <3>1. n - b + 1 \in 1 .. n + 1 - b /\ b + (n - b + 1) = n + 1
      BY <1>1, <1>3, <1>4
    <3> DEFINE j == n - b + 1
    <3>2. M[j] = Z[b + j]
      <4> HIDE DEF j
      <4> QED BY <1>3, <3>1 DEF j
    <3> QED BY <1>1, <3>1, <3>2
  <2>3. ASSUME NEW i \in 1 .. n - b PROVE M[i] = K[i]
    <3>1. i \in 1 .. n + 1 - b /\ b + i \in 1 .. n
      <4>1. n \in Nat /\ b \in Nat /\ i \in 1 .. n - b
        BY <1>1, <1>3
      <4> QED BY ONLY <4>1
    <3> DEFINE j == b + i
    <3>2. M[i] = Z[j] /\ K[i] = Y[j]
      BY <1>3, <1>5, <3>1
    <3>3. Z[j] = Y[j]
      <4> HIDE DEF j
      <4> QED BY <1>1, <3>1 DEF j
    <3> QED BY <3>2, <3>3
  <2> QED BY <1>3, <1>5, <2>1, <2>2, <2>3, IsAppend
<1> QED BY <1>6 DEF K, L, M, Z
(* What follows a sequence in a concatenation. *)
LEMMA Behind ==
  ASSUME NEW S, NEW s \in Seq(S), NEW u \in Seq(S)
  PROVE  SubSeq(s \o u, Len(s) + 1, Len(s \o u)) = u
<1> DEFINE w == s \o u
           a == Len(s)
<1>1. /\ w \in Seq(S) /\ Len(w) = a + Len(u) /\ a \in Nat /\ Len(u) \in Nat
      /\ \A i \in 1 .. a + Len(u) : w[i] = IF i <= a THEN s[i] ELSE u[i - a]
  BY ConcatProperties
<1> HIDE DEF w, a
<1> DEFINE v == SubSeq(w, a + 1, Len(w))
<1>2. v \in Seq(S) /\ Len(v) = Len(u) /\ \A i \in 1 .. Len(u) : v[i] = w[a + i]
  <2>1. w \in Seq(S) /\ a \in 0 .. Len(w) /\ Len(w) - a = Len(u) /\ Len(w) \in Nat
    BY <1>1
  <2>2. v \in Seq(S) /\ Len(v) = Len(w) - a /\ \A i \in 1 .. Len(v) : v[i] = w[a + i]
    BY ONLY <2>1, SMTT(30)
  <2> HIDE DEF v
  <2> QED BY <2>1, <2>2
<1>3. ASSUME NEW i \in 1 .. Len(u) PROVE v[i] = u[i]
  <2>1. a + i \in 1 .. a + Len(u) /\ ~(a + i <= a) /\ (a + i) - a = i
    BY <1>1
  <2> DEFINE j == a + i
  <2>2. w[j] = u[j - a]
    <3> HIDE DEF j
    <3> QED BY <1>1, <2>1 DEF j
  <2> QED BY <1>2, <2>1, <2>2
<1> HIDE DEF v
<1>4. v = u
  BY <1>2, <1>3
<1> QED BY <1>4 DEF v, w, a

(* The commands that the bytes s complete. *)
LEMMA CommandsType ==
  ASSUME NEW S, NEW s \in Seq(S)
  PROVE  /\ Lines!Commands(s) \in Seq(Seq(S))
         /\ Len(Lines!Commands(s)) = Len(Lines!Ends(s)) /\ Len(Lines!Ends(s)) \in Nat
<1> DEFINE c == Lines!Commands(s)
           n == Len(Lines!Ends(s))
<1>1. n \in Nat
  BY NewlinesFinite
<1>2. ASSUME NEW i \in 1 .. n
      PROVE  SubSeq(s, (IF i = 1 THEN 0 ELSE Lines!Ends(s)[i - 1]) + 1, Lines!Ends(s)[i]) \in Seq(S)
  <2> DEFINE a == IF i = 1 THEN 0 ELSE Lines!Ends(s)[i - 1]
             b == Lines!Ends(s)[i]
  <2>1. b \in 0 .. Len(s)
    <3>1. i \in 0 .. n /\ b = Cut(s, i)
      BY DEF Cut
    <3> QED BY <3>1, CutRanks
  <2>2. a \in 0 .. Len(s)
    <3> DEFINE h == i - 1
    <3>1. h \in 0 .. n /\ a = Cut(s, h)
      BY <1>1 DEF Cut
    <3> HIDE DEF h
    <3> QED BY <3>1, CutRanks
  <2> HIDE DEF a, b
  <2>3. SubSeq(s, a + 1, b) \in Seq(S)
    BY <2>1, <2>2
  <2> QED BY <2>3 DEF a, b
<1>3. c = [i \in 1 .. n |-> SubSeq(s, (IF i = 1 THEN 0 ELSE Lines!Ends(s)[i - 1]) + 1, Lines!Ends(s)[i])]
  BY DEF Lines!Commands
<1> QED BY <1>1, <1>2, <1>3

(* One element more of a sequence. *)
LEMMA OneMore ==
  ASSUME NEW S, NEW c \in Seq(S), NEW k \in Nat, NEW l, l = k + 1, l \in 1 .. Len(c)
  PROVE  SubSeq(c, 1, k) \in Seq(S) /\ SubSeq(c, 1, l) = Append(SubSeq(c, 1, k), c[l])
<1> DEFINE p == SubSeq(c, 1, k)
           q == SubSeq(c, 1, l)
<1>1. /\ p \in Seq(S) /\ q \in Seq(S) /\ Len(p) = k /\ Len(q) = l
      /\ \A i \in 1 .. k : p[i] = c[i]
      /\ \A i \in 1 .. l : q[i] = c[i]
  OBVIOUS
<1> HIDE DEF p, q
<1>2. l \in 1 .. l /\ \A i \in 1 .. k : i \in 1 .. l
  OBVIOUS
<1>3. q[l] = c[l] /\ c[l] \in S /\ \A i \in 1 .. k : q[i] = p[i]
  BY <1>1, <1>2
<1>4. q = Append(p, c[l])
  BY <1>1, <1>3, IsAppend
<1> QED BY <1>1, <1>4 DEF p, q

(* An element behind a concatenation. *)
LEMMA ConcatAppend ==
  ASSUME NEW S, NEW x \in Seq(S), NEW p \in Seq(S), NEW e \in S
  PROVE  x \o p \in Seq(S) /\ x \o Append(p, e) = Append(x \o p, e)
<1> DEFINE w == Append(p, e)
           long == x \o w
           short == x \o p
           a == Len(x)
           k == Len(p)
<1>1. /\ w \in Seq(S) /\ Len(w) = k + 1 /\ w[k + 1] = e /\ \A i \in 1 .. k : w[i] = p[i]
      /\ a \in Nat /\ k \in Nat
  OBVIOUS
<1> HIDE DEF w
<1>2. /\ long \in Seq(S) /\ Len(long) = a + Len(w)
      /\ \A i \in 1 .. a + Len(w) : long[i] = IF i <= a THEN x[i] ELSE w[i - a]
  BY <1>1, ConcatProperties
<1>3. /\ short \in Seq(S) /\ Len(short) = a + k
      /\ \A i \in 1 .. a + k : short[i] = IF i <= a THEN x[i] ELSE p[i - a]
  BY ConcatProperties
<1> HIDE DEF long, short, a, k
<1>4. ASSUME NEW i \in 1 .. Len(short) PROVE long[i] = short[i]
  <2>1. i \in 1 .. a + k /\ i \in 1 .. a + (k + 1)
    BY <1>1, <1>3
  <2>2. CASE i <= a
    BY <1>1, <1>2, <1>3, <2>1, <2>2
  <2>3. CASE ~(i <= a)
    <3>1. i - a \in 1 .. k
      BY <1>1, <2>1, <2>3
    <3> QED BY <1>1, <1>2, <1>3, <2>1, <2>3, <3>1
  <2> QED BY <2>2, <2>3
<1>5. Len(long) = Len(short) + 1 /\ long[Len(short) + 1] = e
  <2> DEFINE i == Len(short) + 1
  <2>1. i \in 1 .. a + (k + 1) /\ ~(i <= a) /\ i - a = k + 1
    BY <1>1, <1>3
  <2> HIDE DEF i
  <2>2. long[i] = e
    BY <1>1, <1>2, <2>1
  <2>3. Len(long) = Len(short) + 1
    BY <1>1, <1>2, <1>3
  <2> QED BY <2>2, <2>3 DEF i
<1>6. long = Append(short, e)
  BY <1>2, <1>3, <1>4, <1>5, IsAppend
<1> QED BY <1>3, <1>6 DEF long, short, w

(* While a write is in its loop the line device still shows what the last   *)
(* one left, and the circular buffer holds the first k of the commands that *)
(* the bytes waiting then and the data of this write complete.              *)
Pending(t) == view.tail \o call[t].data

Writing(t, k) ==
  /\ Device.tail = Lines!After(Pending(t), k)
  /\ Device.lines = Lines!MostRecent(view.lines \o SubSeq(Lines!Commands(Pending(t)), 1, k))

ViewTypeOK ==
  /\ view.lines \in Seq(Seq(Byte)) /\ Len(view.lines) <= N
  /\ view.tail \in Seq(Byte)

LoopInv ==
  /\ ViewTypeOK
  /\ \A t \in Threads : pc[t] = "loop" =>
       /\ call[t].op = "write"
       /\ \E k \in 0 .. Len(Lines!Ends(Pending(t))) : Writing(t, k)

RefineInv == ReadInv /\ LoopInv

(* Nobody writes and nothing is left over when the module is loaded. *)
LEMMA LoopInit == Init => LoopInv
BY NAssumption DEF Init, LoopInv, ViewTypeOK, EmptyDevice

(* Steps that leave the device, the record of the last write and the writes *)
(* in their loops alone.                                                    *)
Aside ==
  /\ UNCHANGED <<device, view>>
  /\ \A t \in Threads : pc'[t] = "loop" => pc[t] = "loop" /\ call'[t] = call[t]

Leaves(t) == AllocFails(t) \/ ExtractFails(t) \/ FinishWrite(t)

(* Only loading, unloading and the steps of writes are not aside. *)
LEMMA ViewSteps ==
  ASSUME LockInv, [Next]_vars
  PROVE  \/ InitModule \/ CleanupModule
         \/ \E t \in Threads : StoreBytes(t) \/ ExtractCommand(t) \/ Leaves(t)
         \/ Aside
<1> USE DEF LockInv, LockTypeOK, Aside, device, history
<1>1. ASSUME NEW f, Open(f) \/ Release(f) \/ SetupCdev PROVE Aside
  BY <1>1 DEF Open, Release, SetupCdev
<1>2. ASSUME NEW t \in Threads, NEW c, Begin(t, c) PROVE Aside
  BY <1>2 DEF Begin
<1>3. ASSUME NEW t \in Threads, MutexLock(t) PROVE Aside
  BY <1>3 DEF MutexLock
<1>4. ASSUME NEW t \in Threads, Step(t), ~StoreBytes(t), ~ExtractCommand(t), ~Leaves(t) PROVE Aside
  <2>m. ASSUME NEW next \in Places \ {"loop"}, pc' = [pc EXCEPT ![t] = next],
               \A u \in Threads \ {t} : call'[u] = call[u], UNCHANGED <<device, view>>
        PROVE  Aside
    BY <2>m
  <2>1. CASE Read(t)
    <3>1. \E next \in {"exit", "fail"} : pc' = [pc EXCEPT ![t] = next]
      BY <2>1 DEF Read, CopyToUser, Unlock
    <3>2. \A u \in Threads \ {t} : call'[u] = call[u]
      BY <2>1 DEF Read, CopyToUser
    <3> QED BY <2>1, <2>m, <3>1, <3>2 DEF Read, Places
  <2>2. CASE LlseekSize(t) \/ FixedSizeLlseek(t) \/ IoctlRefused(t) \/ Return(t)
    BY <2>2, <2>m DEF LlseekSize, FixedSizeLlseek, IoctlRefused, Return, Unlock, Places
  <2>3. CASE IoctlSeek(t)
    BY <2>3, <2>m DEF IoctlSeek, SeekTo, Unlock, Places
  <2> QED BY <1>4, <2>1, <2>2, <2>3 DEF Step, Leaves
<1>5. CASE UNCHANGED vars
  BY <1>5 DEF vars
<1> QED BY <1>1, <1>2, <1>3, <1>4, <1>5
           DEF Next, BeginRead, BeginWrite, BeginLlseek, BeginIoctl

(* The view after a write that leaves is what the device then shows. *)
LEMMA LoopLeaves ==
  ASSUME RefineInv, NEW t \in Threads, Loaded, LockInv', NEW next, LeaveWrite(t, next),
         Device.lines' = Device.lines, Device.tail' = Device.tail
  PROVE  LoopInv'
<1>1. /\ Device.lines \in Seq(Seq(Byte)) /\ Len(Device.lines) = EntryCount(buff)
      /\ Device.tail \in Seq(Byte)
  BY DeviceShape DEF RefineInv, ReadInv
<1>2. EntryCount(buff) \in 0 .. N
  BY WindowShape DEF RefineInv, ReadInv, MemInv, MemTypeOK, Consistent
<1>3. view'.lines = Device.lines /\ view'.tail = Device.tail
  BY DEF LeaveWrite
<1>4. ViewTypeOK'
  BY <1>1, <1>2, <1>3 DEF ViewTypeOK
<1>5. \A u \in Threads : pc'[u] # "loop"
  BY CharAssumption DEF LeaveWrite, Unlock, LockInv, LockDiscipline
<1> QED BY <1>4, <1>5 DEF LoopInv

(* Bytes arrive: none of the commands they complete is stored yet. *)
LEMMA LoopStore ==
  ASSUME RefineInv, LockInv', NEW t \in Threads, StoreBytes(t)
  PROVE  LoopInv'
<1> DEFINE data == call[t].data
           s == view.tail \o data
<1>1. Loaded /\ pc[t] = "held" /\ call[t].op = "write" /\ UNCHANGED call
  BY StoreKeepsCommands DEF StoreBytes, RefineInv, ReadInv
<1>2. Device.lines' = Device.lines /\ Device.tail' = Partial' /\ Device.tail = Partial
  BY StoreKeepsLines DEF RefineInv, ReadInv, Device
<1>3. CASE LeaveWrite(t, "fail") /\ Partial' = Partial
  BY <1>1, <1>2, <1>3, LoopLeaves
<1>4. CASE /\ pc' = [pc EXCEPT ![t] = "loop"] /\ UNCHANGED view
           /\ Partial' = Partial \o data /\ data \in Seq(Byte)
  <2>1. view.lines = Device.lines /\ view.tail = Partial /\ \A u \in Threads : pc[u] # "loop"
    <3>1. \A u \in Threads : pc[u] # "loop"
      BY <1>1, CharAssumption DEF RefineInv, ReadInv, AtomicInv, LockInv, LockDiscipline
    <3> QED BY <1>1, <1>2, <3>1 DEF RefineInv, ReadInv, AtomicInv, Committed, Same, Loaded
  <2>2. ViewTypeOK /\ ViewTypeOK'
    BY <1>4 DEF RefineInv, LoopInv, ViewTypeOK
  <2>3. s \in Seq(Byte)
    BY <1>4, <2>2, ConcatFacts DEF ViewTypeOK
  <2> HIDE DEF s
  <2>4. Lines!After(s, 0) = s /\ 0 \in 0 .. Len(Lines!Ends(s))
    <3>1. Lines!After(s, 0) = SubSeq(s, 1, Len(s))
      BY DEF Lines!After
    <3> QED BY <2>3, <3>1, CutAndJoin, NewlinesFinite
  <2>5. Lines!MostRecent(view.lines \o SubSeq(Lines!Commands(s), 1, 0)) = view.lines
    <3>1. SubSeq(Lines!Commands(s), 1, 0) = << >>
      BY DEF Lines!Commands
    <3>2. view.lines \o << >> = view.lines
      BY <2>2, ConcatEmptySeq DEF ViewTypeOK
    <3> QED BY <2>2, <3>1, <3>2, RecentAll DEF ViewTypeOK
  <2>6. Pending(t)' = s
    BY <1>1, <1>4 DEF Pending, s
  <2>7. Writing(t, 0)'
    BY <1>2, <1>4, <2>1, <2>4, <2>5, <2>6 DEF Writing, s
  <2>8. \A u \in Threads : pc'[u] = "loop" => u = t
    BY <1>4, <2>1 DEF RefineInv, ReadInv, AtomicInv, LockInv, LockTypeOK
  <2> QED BY <1>1, <2>2, <2>4, <2>6, <2>7, <2>8 DEF LoopInv
<1> QED BY <1>3, <1>4, StoreStream DEF RefineInv, ReadInv

(* The newlines the driver searches are those of the bytes that wait. *)
LEMMA NewlinesOfPartial ==
  ASSUME MemInv
  PROVE  Newlines = NewlinesIn(Partial)
<1>1. CASE partial_write_buff = NULL
  <2>1. bytes_stored = 0 /\ Partial = << >>
    BY <1>1 DEF MemInv, Sizes, Partial
  <2> QED BY <2>1 DEF Newlines, NewlinesIn
<1>2. CASE partial_write_buff # NULL
  <2>1. /\ Len(Partial) = bytes_stored
        /\ \A i \in 1 .. bytes_stored : Partial[i] = mem[partial_write_buff][i]
    BY <1>2, PartialType
  <2> QED BY <2>1 DEF Newlines, NewlinesIn
<1> QED BY <1>1, <1>2

(* One more command is stored, and the bytes behind it wait. *)
LEMMA LoopExtract ==
  ASSUME RefineInv, NEW t \in Threads, ExtractCommand(t)
  PROVE  LoopInv'
<1> DEFINE s == Pending(t)
<1>1. /\ pc[t] = "loop" /\ Newlines # {} /\ UNCHANGED <<pc, call, view>>
      /\ Loaded /\ call[t].op = "write"
  BY ExtractEffect DEF ExtractCommand, MoveCommand, history, RefineInv, ReadInv, LoopInv
<1>2. PICK k \in 0 .. Len(Lines!Ends(s)) : Writing(t, k)
  BY <1>1 DEF RefineInv, LoopInv
<1>3. PICK cmd \in Seq(Byte) :
        /\ Partial = cmd \o Partial' /\ Partial' \in Seq(Byte)
        /\ Len(cmd) = Min(Newlines)
        /\ ~buff.full => Device.lines' = Append(Device.lines, cmd)
        /\ buff.full => Device.lines' = Append(Tail(Device.lines), cmd)
  BY ExtractStream DEF RefineInv, ReadInv
<1>4. ViewTypeOK /\ ViewTypeOK'
  BY <1>1 DEF RefineInv, LoopInv, ViewTypeOK
<1>5. s \in Seq(Byte)
  <2>1. call[t].data \in Seq(Bytes \cup {NL})
    BY <1>1, CharAssumption DEF RefineInv, ReadInv, MemInv, CallsCarryPackets
  <2>2. call[t].data \in Seq(Byte)
    BY <2>1 DEF Byte
  <2> QED BY <1>4, <2>2, ConcatFacts DEF ViewTypeOK, Pending
<1> HIDE DEF s
<1>6. Partial = Lines!After(s, k) /\ Device.tail' = Partial'
  BY <1>2 DEF Writing, Device, s
<1>7. Min(Newlines) \in NewlinesIn(Partial) /\ \A j \in NewlinesIn(Partial) : Min(Newlines) <= j
  <2>1. Newlines = NewlinesIn(Partial) /\ Newlines \in SUBSET Nat
    BY NewlinesOfPartial, NewlinesFinite, PartialType DEF RefineInv, ReadInv
  <2> QED BY <1>1, <2>1, MinOf
<1>l. PICK l : l = k + 1
  OBVIOUS
<1>8. /\ l \in 1 .. Len(Lines!Ends(s))
      /\ Lines!Commands(s)[l] = SubSeq(Partial, 1, Len(cmd))
      /\ Lines!After(s, l) = SubSeq(Partial, Len(cmd) + 1, Len(Partial))
  <2>1. PICK r, m : r = Partial /\ m = Len(cmd)
    OBVIOUS
  <2>2. r = Lines!After(s, k) /\ m \in NewlinesIn(r) /\ \A j \in NewlinesIn(r) : m <= j
    BY <1>3, <1>6, <1>7, <2>1
  <2>3. s \in Seq(Byte) /\ k \in 0 .. Len(Lines!Ends(s))
    BY <1>5
  <2>4. /\ l \in 1 .. Len(Lines!Ends(s))
        /\ Lines!Commands(s)[l] = SubSeq(r, 1, m)
        /\ Lines!After(s, l) = SubSeq(r, m + 1, Len(r))
    BY ONLY <1>l, <2>2, <2>3, NextCommand
  <2> QED BY <2>1, <2>4
<1>9. Lines!Commands(s)[l] = cmd /\ Lines!After(s, l) = Partial'
  <2>1. SubSeq(cmd \o Partial', 1, Len(cmd)) = cmd
    BY <1>3, CutAndJoin
  <2>2. SubSeq(cmd \o Partial', Len(cmd) + 1, Len(cmd \o Partial')) = Partial'
    BY <1>3, Behind
  <2> QED BY <1>3, <1>8, <2>1, <2>2
<1> DEFINE stored(i) == view.lines \o SubSeq(Lines!Commands(s), 1, i)
<1>10. stored(k) \in Seq(Seq(Byte)) /\ stored(l) = Append(stored(k), cmd)
  <2>1. PICK c : c = Lines!Commands(s)
    OBVIOUS
  <2>2. c \in Seq(Seq(Byte)) /\ k \in Nat /\ l \in 1 .. Len(c) /\ c[l] = cmd
    BY <1>5, <1>8, <1>9, <2>1, CommandsType
  <2>3. SubSeq(c, 1, k) \in Seq(Seq(Byte)) /\ SubSeq(c, 1, l) = Append(SubSeq(c, 1, k), cmd)
    BY <1>l, <2>2, OneMore
  <2>4. PICK v, p : v = view.lines /\ p = SubSeq(c, 1, k)
    OBVIOUS
  <2>5. v \in Seq(Seq(Byte)) /\ p \in Seq(Seq(Byte)) /\ cmd \in Seq(Byte)
    BY <1>4, <2>3, <2>4 DEF ViewTypeOK
  <2>6. v \o p \in Seq(Seq(Byte)) /\ v \o Append(p, cmd) = Append(v \o p, cmd)
    BY ONLY <2>5, ConcatAppend, SMTT(30)
  <2>7. stored(k) = v \o p /\ stored(l) = v \o Append(p, cmd)
    BY <2>1, <2>3, <2>4
  <2> QED BY <2>6, <2>7
<1>11. Device.lines = Lines!MostRecent(stored(k))
  BY <1>2 DEF Writing, s
<1>12. Len(Device.lines) = N <=> buff.full
  <2>1. Len(Device.lines) = EntryCount(buff)
    BY <1>1, DeviceShape DEF RefineInv, ReadInv
  <2> QED BY <2>1, WindowShape DEF RefineInv, ReadInv, MemInv, MemTypeOK, Consistent
<1> HIDE DEF stored
<1>13. Device.lines' = Lines!MostRecent(stored(l))
  BY <1>3, <1>10, <1>11, <1>12, RecentAppend
<1>14. Pending(t)' = s
  BY <1>1 DEF Pending, s
<1>15. Writing(t, l)'
  BY <1>1, <1>6, <1>9, <1>13, <1>14 DEF Writing, stored
<1>16. \A u \in Threads : pc'[u] = "loop" => u = t
  BY <1>1, CharAssumption DEF RefineInv, ReadInv, AtomicInv, LockInv, LockDiscipline
<1>17. l \in 0 .. Len(Lines!Ends(s))
  BY <1>8
<1> QED BY <1>1, <1>4, <1>14, <1>15, <1>16, <1>17 DEF LoopInv

(* A write that leaves does not touch the device. *)
LEMMA LeavesShape ==
  ASSUME RefineInv, NEW t \in Threads, Leaves(t)
  PROVE  /\ Loaded /\ Device' = Device /\ pc[t] \in {"held", "loop"} /\ call[t].op = "write"
         /\ \E next \in {"exit", "fail"} : LeaveWrite(t, next)
<1>1. pc[t] \in {"held", "loop"} /\ UNCHANGED device
  BY DEF Leaves, AllocFails, ExtractFails, FinishWrite, device
<1>2. Loaded
  BY <1>1, InCallLive DEF RefineInv, ReadInv, MemInv, Loaded
<1>3. Device' = Device
  BY <1>1 DEF device, Device, Partial, Command
<1>4. call[t].op = "write"
  BY DEF Leaves, AllocFails, ExtractFails, FinishWrite, RefineInv, LoopInv
<1>5. \E next \in {"exit", "fail"} : LeaveWrite(t, next)
  BY DEF Leaves, AllocFails, ExtractFails, FinishWrite
<1> QED BY <1>1, <1>2, <1>3, <1>4, <1>5

(* RefineInv is inductive. *)
LEMMA RefineStep == RefineInv /\ [Next]_vars => RefineInv'
<1> SUFFICES ASSUME RefineInv, [Next]_vars PROVE RefineInv'
  OBVIOUS
<1>1. ReadInv' /\ LockInv /\ LockInv'
  BY ReadStep DEF RefineInv, ReadInv, MemInv
<1>2. CASE InitModule
  <2>1. \A t \in Threads : pc'[t] # "loop"
    BY <1>1, <1>2, InCallLive DEF InitModule
  <2>2. ViewTypeOK'
    BY <1>2, NAssumption DEF InitModule, EmptyDevice, ViewTypeOK
  <2> QED BY <1>1, <2>1, <2>2 DEF RefineInv, LoopInv
<1>3. CASE CleanupModule
  <2>1. \A t \in Threads : pc'[t] # "loop"
    BY <1>1, <1>3 DEF CleanupModule, LockInv, CallsNeedFiles, InCall
  <2>2. ViewTypeOK'
    BY <1>3 DEF CleanupModule, history, ViewTypeOK, RefineInv, LoopInv
  <2> QED BY <1>1, <2>1, <2>2 DEF RefineInv, LoopInv
<1>4. ASSUME NEW t \in Threads, StoreBytes(t) \/ ExtractCommand(t) PROVE RefineInv'
  BY <1>1, <1>4, LoopStore, LoopExtract DEF RefineInv
<1>5. ASSUME NEW t \in Threads, Leaves(t) PROVE RefineInv'
  <2>1. /\ Loaded /\ Device' = Device
        /\ \E next \in {"exit", "fail"} : LeaveWrite(t, next)
    BY <1>5, LeavesShape
  <2>2. Device.lines' = Device.lines /\ Device.tail' = Device.tail
    BY <2>1
  <2> QED BY <1>1, <2>1, <2>2, LoopLeaves DEF RefineInv
<1>6. CASE Aside
  <2>1. Device' = Device
    BY <1>6 DEF Aside, device, Device, Partial, Command
  <2>2. ViewTypeOK'
    BY <1>6 DEF Aside, ViewTypeOK, RefineInv, LoopInv
  <2>3. ASSUME NEW t \in Threads, pc'[t] = "loop"
        PROVE  call'[t].op = "write" /\ \E k \in 0 .. Len(Lines!Ends(Pending(t)')) : Writing(t, k)'
    <3>1. pc[t] = "loop" /\ call'[t] = call[t] /\ view' = view
      BY <1>6, <2>3 DEF Aside
    <3>2. PICK k \in 0 .. Len(Lines!Ends(Pending(t))) : Writing(t, k)
      BY <3>1 DEF RefineInv, LoopInv
    <3>3. Pending(t)' = Pending(t)
      BY <3>1 DEF Pending
    <3>4. Writing(t, k)'
      BY <2>1, <3>1, <3>2, <3>3 DEF Writing
    <3>5. call'[t].op = "write"
      BY <3>1 DEF RefineInv, LoopInv
    <3> QED BY <3>2, <3>3, <3>4, <3>5
  <2> QED BY <1>1, <2>2, <2>3 DEF RefineInv, LoopInv
<1> QED BY <1>1, <1>2, <1>3, <1>4, <1>5, <1>6, ViewSteps

(* The line device in one step of the driver. *)
LineStep == [Lines!Next]_<<view.lines, view.tail, view.ok>>

(* A write that leaves is a Write of the line device, or a FailedWrite that *)
(* keeps the commands the loop had stored.                                  *)
LEMMA WriteIsLineStep ==
  ASSUME RefineInv, NEW t \in Threads, Leaves(t)
  PROVE  LineStep
<1> DEFINE d == call[t].data
           s == view.tail \o d
<1>1. /\ Loaded /\ Device' = Device /\ call[t].op = "write"
  BY LeavesShape
<1>2. d \in Packets
  BY <1>1 DEF RefineInv, ReadInv, MemInv, CallsCarryPackets
<1>3. CASE AllocFails(t)
  <2>1. view.lines = Device.lines /\ view.tail = Device.tail
    <3>1. pc[t] = "held"
      BY <1>3 DEF AllocFails
    <3>2. \A u \in Threads : pc[u] # "loop"
      BY <3>1, CharAssumption DEF RefineInv, ReadInv, AtomicInv, LockInv, LockDiscipline
    <3> QED BY <1>1, <3>2 DEF RefineInv, ReadInv, AtomicInv, Committed, Same, Loaded
  <2>2. view'.lines = Device.lines /\ view'.tail = Device.tail /\ view'.ok = FALSE
    BY <1>1, <1>3 DEF AllocFails, LeaveWrite
  <2>3. Lines!FailedWrite(d)
    BY <2>1, <2>2 DEF Lines!FailedWrite
  <2> QED BY <1>2, <2>3 DEF LineStep, Lines!Next
<1>4. ASSUME ExtractFails(t) \/ FinishWrite(t)
      PROVE  LineStep
  <2>1. pc[t] = "loop" /\ (ExtractFails(t) => Newlines # {}) /\ (FinishWrite(t) => Newlines = {})
    BY <1>4 DEF ExtractFails, FinishWrite
  <2>2. PICK k \in 0 .. Len(Lines!Ends(s)) : Writing(t, k)
    BY <2>1 DEF RefineInv, LoopInv, Pending
  <2>3. /\ Device.tail = Lines!After(s, k) /\ Device.tail = Partial
        /\ Device.lines = Lines!MostRecent(view.lines \o SubSeq(Lines!Commands(s), 1, k))
    BY <2>2 DEF Writing, Pending, Device
  <2>4. view'.lines = Device.lines /\ view'.tail = Device.tail
        /\ (ExtractFails(t) => view'.ok = FALSE) /\ (FinishWrite(t) => view'.ok = TRUE)
    <3>1. /\ ExtractFails(t) => LeaveWrite(t, "fail")
          /\ FinishWrite(t) => LeaveWrite(t, "exit")
      BY DEF ExtractFails, FinishWrite
    <3>2. ASSUME NEW next, LeaveWrite(t, next)
          PROVE  view'.lines = Device.lines /\ view'.tail = Device.tail /\ (view'.ok <=> next = "exit")
                 /\ view'.ok \in BOOLEAN
      BY <1>1, <3>2 DEF LeaveWrite
    <3> QED BY <1>4, <3>1, <3>2
  <2>5. s \in Seq(Byte)
    <3>1. d \in Seq(Bytes \cup {NL})
      BY <1>2, CharAssumption
    <3>2. d \in Seq(Byte)
      BY <3>1 DEF Byte
    <3> HIDE DEF d
    <3> QED BY <3>2, ConcatFacts DEF RefineInv, LoopInv, ViewTypeOK
  <2>6. k = Len(Lines!Ends(s)) <=> Newlines = {}
    <3>1. Newlines = NewlinesIn(Partial)
      BY NewlinesOfPartial DEF RefineInv, ReadInv
    <3> HIDE DEF s
    <3> QED BY <2>3, <2>5, <3>1, NoNewlineLeft
  <2>7. Lines!Store(d, k)
    BY <2>3, <2>4 DEF Lines!Store
  <2>8. CASE FinishWrite(t)
    <3>1. Lines!Write(d)
      BY <2>1, <2>4, <2>6, <2>7, <2>8 DEF Lines!Write
    <3> QED BY <1>2, <3>1 DEF LineStep, Lines!Next
  <2>9. CASE ExtractFails(t)
    <3>1. k \in 0 .. Len(Lines!Ends(s)) - 1
      <4> DEFINE n == Len(Lines!Ends(s))
      <4>1. n \in Nat
        BY <2>5, NewlinesFinite
      <4>2. k \in 0 .. n /\ k # n
        BY <2>1, <2>6, <2>9
      <4> HIDE DEF n
      <4>3. k \in 0 .. n - 1
        BY <4>1, <4>2
      <4> QED BY <4>3 DEF n
    <3>2. Lines!FailedWrite(d)
      BY <2>4, <2>7, <2>9, <3>1 DEF Lines!FailedWrite
    <3> QED BY <1>2, <3>2 DEF LineStep, Lines!Next
  <2> QED BY <1>4, <2>8, <2>9
<1> QED BY <1>3, <1>4 DEF Leaves

(* Every step of the driver is a step of the line device or leaves it alone: *)
(* a load empties it, and a write is one step when it unlocks.               *)
LEMMA DriverLineStep == RefineInv /\ [Next]_vars => LineStep
<1> SUFFICES ASSUME RefineInv, [Next]_vars PROVE LineStep
  OBVIOUS
<1>1. LockInv
  BY DEF RefineInv, ReadInv, MemInv
<1>s. ASSUME UNCHANGED view PROVE LineStep
  BY <1>s DEF LineStep
<1>2. CASE InitModule
  <2>1. Lines!Reset
    BY <1>2 DEF InitModule, EmptyDevice, Lines!Reset
  <2> QED BY <2>1 DEF LineStep, Lines!Next
<1>3. CASE CleanupModule
  BY <1>3, <1>s DEF CleanupModule, history
<1>4. ASSUME NEW t \in Threads, StoreBytes(t) PROVE LineStep
  <2>1. CASE UNCHANGED view
    BY <2>1, <1>s
  <2>2. CASE LeaveWrite(t, "fail") /\ Partial' = Partial
    <3>1. pc[t] = "held" /\ call[t].op = "write" /\ Loaded
      BY <1>4, StoreKeepsCommands DEF StoreBytes, RefineInv, ReadInv
    <3>2. call[t].data \in Packets
      BY <3>1 DEF RefineInv, ReadInv, MemInv, CallsCarryPackets
    <3>3. \A u \in Threads : pc[u] # "loop"
      BY <3>1, CharAssumption DEF RefineInv, ReadInv, AtomicInv, LockInv, LockDiscipline
    <3>4. view.lines = Device.lines /\ view.tail = Partial
      BY <3>1, <3>3 DEF RefineInv, ReadInv, AtomicInv, Committed, Same, Loaded, Device
    <3>5. Device'.lines = Device.lines /\ Device'.tail = Partial'
      BY <1>4, StoreKeepsLines DEF RefineInv, ReadInv, Device
    <3>6. view'.lines = view.lines /\ view'.tail = view.tail /\ view'.ok = FALSE
      BY <2>2, <3>4, <3>5 DEF LeaveWrite
    <3>7. Lines!FailedWrite(call[t].data)
      BY <3>6 DEF Lines!FailedWrite
    <3> QED BY <3>2, <3>7 DEF LineStep, Lines!Next
  <2> QED BY <1>4, <2>1, <2>2, StoreStream DEF RefineInv, ReadInv
<1>5. ASSUME NEW t \in Threads, ExtractCommand(t) PROVE LineStep
  BY <1>5, <1>s DEF ExtractCommand, MoveCommand, history
<1>6. ASSUME NEW t \in Threads, Leaves(t) PROVE LineStep
  BY <1>6, WriteIsLineStep
<1>7. CASE Aside
  BY <1>7, <1>s DEF Aside
<1> QED BY <1>1, <1>2, <1>3, <1>4, <1>5, <1>6, <1>7, ViewSteps

(* The driver implements the line device, with any number of threads, slots *)
(* and packets: each write takes effect at once when it unlocks, one that    *)
(* succeeds stores every command it completes, one that fails a prefix of    *)
(* them, and nothing else changes what can be read.                          *)
THEOREM DriverIsLineDevice == Spec => ImplementsLineDevice
<1>1. Init => RefineInv
  BY ReadInit, LoopInit DEF RefineInv
<1>2. Init => Lines!Init
  BY DEF Init, EmptyDevice, Lines!Init
<1>3. RefineInv /\ [Next]_vars => [Lines!Next]_<<view.lines, view.tail, view.ok>>
  BY DriverLineStep DEF LineStep
<1> QED BY <1>1, <1>2, <1>3, RefineStep, PTL DEF Spec, ImplementsLineDevice, Lines!Spec
==============================================================================
