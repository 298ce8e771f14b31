---------------------------- MODULE Threading_proofs ----------------------------
(***************************************************************************)
(* Proofs about the threading example for every number of threads and of   *)
(* blocks, and every set of calls that may fail.                           *)
(***************************************************************************)
EXTENDS Threading, TLAPS

Places ==
  {"none", "create", "free", "wait", "obtain", "hold", "release", "returned", "joined"}

TypeInv ==
  /\ pc \in [Threads -> Places]
  /\ mutex \in Threads \cup {NULL}
  /\ starting \in Threads \cup {NULL}
  /\ pass_data \in [Threads -> Blocks \cup {NULL}]
  /\ mem \in [Blocks -> BOOLEAN \cup {NULL}]
  /\ result \in [Threads -> {"none", "not started", "started", "success", "failure"}]

(* What the caller knows and where the thread is go together. *)
Known ==
  \A t \in Threads :
    /\ starting = t => result[t] = "none" /\ pc[t] \notin {"none", "joined"}
    /\ result[t] = "started" => pc[t] \notin {"none", "joined", "create", "free"}
    /\ pc[t] \in {"create", "free"} => starting = t
    /\ result[t] = "failure" => pc[t] = "joined"

Inv == TypeInv /\ Known /\ DataExact /\ HolderAccountable

-----------------------------------------------------------------------------
(* Before any thread there is no data, and nobody holds the mutex. *)
LEMMA InvInit == Init => Inv
BY NullAssumption
   DEF Init, Inv, TypeInv, Places, DataExact, Accounted, Known, HolderAccountable

(* The block of an accounted thread is its own: writing it changes no other's. *)
LEMMA OwnBlock ==
  ASSUME Inv, NEW t \in Accounted
  PROVE  /\ t \in Threads /\ pass_data[t] \in Blocks /\ mem[pass_data[t]] \in BOOLEAN
         /\ \A u \in Accounted : u # t => pass_data[u] # pass_data[t]
<1>1. t \in Threads
  BY DEF Accounted
<1>2. pass_data[t] \in Blocks /\ mem[pass_data[t]] # NULL
  BY DEF Inv, DataExact
<1>3. \A u \in Accounted : u # t => pass_data[u] # pass_data[t]
  BY DEF Inv, DataExact
<1>4. QED
  BY <1>1, <1>2, <1>3 DEF Inv, TypeInv

(* A malloc takes a block that is nobody's. *)
LEMMA InvMalloc ==
  ASSUME Inv, NEW t \in Threads, Malloc(t)
  PROVE  Inv'
<1>1. PICK b \in Blocks : /\ mem[b] = NULL
                          /\ mem' = [mem EXCEPT ![b] = FALSE]
                          /\ pass_data' = [pass_data EXCEPT ![t] = b]
  BY DEF Malloc
<1>. USE <1>1, NullAssumption DEF Malloc, Inv, TypeInv, Places
<1>2. TypeInv'
  OBVIOUS
<1>3. starting' = t /\ starting = NULL /\ result' = result /\ result[t] = "none"
  OBVIOUS
<1>4. Accounted' = Accounted \cup {t} /\ t \notin Accounted
  <2>1. \A u \in Threads : u # NULL
    BY ONLY NullAssumption
  <2>2. QED
    BY ONLY <1>3, <2>1, t \in Threads DEF Accounted
<1>5. Known'
  <2>1. /\ pc' = [pc EXCEPT ![t] = "create"]
        /\ \A u \in Threads : u # NULL
    BY NullAssumption
  <2>2. QED
    BY ONLY <1>3, <2>1, Known, t \in Threads, pc \in [Threads -> Places] DEF Known
<1>6. DataExact'
  <2>1. \A u \in Accounted : u # t /\ u \in Threads /\ pass_data[u] # b
    BY <1>4 DEF DataExact, Accounted
  <2>2. \A u \in Accounted : pass_data'[u] = pass_data[u]
    BY <2>1
  <2>3. pass_data'[t] = b
    OBVIOUS
  <2>4. \A c \in Blocks : mem'[c] = IF c = b THEN FALSE ELSE mem[c]
    OBVIOUS
  <2>5. NULL # FALSE
    BY ONLY NullAssumption
  <2>6. \A u \in Threads : pc'[u] \notin {"none", "joined"} => u \in Accounted'
    BY <1>4 DEF DataExact
  <2>7. \A c \in Blocks : mem'[c] # NULL => \E u \in Accounted' : pass_data'[u] = c
    <3>1. ASSUME NEW c \in Blocks, mem'[c] # NULL
          PROVE  \E u \in Accounted' : pass_data'[u] = c
      <4>1. CASE c = b
        BY ONLY <1>4, <2>3, <4>1
      <4>2. CASE c # b
        <5>1. PICK u \in Accounted : pass_data[u] = c
          BY ONLY <2>4, <3>1, <4>2, DataExact DEF DataExact
        <5>2. QED
          BY ONLY <1>4, <2>2, <5>1
      <4>3. QED
        BY <4>1, <4>2
    <3>2. QED
      BY ONLY <3>1
  <2>8. \A u \in Accounted' : pass_data'[u] \in Blocks /\ mem'[pass_data'[u]] # NULL
    BY ONLY <1>4, <2>1, <2>2, <2>3, <2>4, <2>5, DataExact DEF DataExact
  <2>9. \A u, v \in Accounted' : pass_data'[u] = pass_data'[v] => u = v
    BY ONLY <1>4, <2>1, <2>2, <2>3, DataExact DEF DataExact
  <2>10. QED
    BY <2>6, <2>7, <2>8, <2>9 DEF DataExact
<1>7. HolderAccountable'
  <2>1. mutex # NULL => mutex \in Threads /\ mutex # t
    BY DEF HolderAccountable, FailedHolder
  <2>2. ASSUME mutex # NULL, pc[mutex] = "returned", mem[pass_data[mutex]] = FALSE
        PROVE  pc'[mutex] = "returned" /\ mem'[pass_data'[mutex]] = FALSE
    <3>1. mutex \in Accounted /\ pass_data[mutex] \in Blocks /\ pass_data[mutex] # b
      BY <2>1, <2>2 DEF DataExact
    <3>2. QED
      BY <2>1, <2>2, <3>1
  <2>3. QED
    BY <2>1, <2>2 DEF HolderAccountable, FailedHolder
<1>8. QED
  BY <1>2, <1>5, <1>6, <1>7

(* The steps of the start that neither take nor free a block. *)
LEMMA InvStart ==
  ASSUME Inv, NEW t \in Threads, MallocFails(t) \/ Create(t) \/ ReturnTrue(t)
  PROVE  Inv'
<1>. USE NullAssumption DEF Inv, TypeInv, Places
<1>1. CASE MallocFails(t)
  <2>1. Accounted' = Accounted
    BY <1>1 DEF MallocFails, Accounted
  <2>2. TypeInv' /\ Known'
    BY <1>1 DEF MallocFails, Known
  <2>3. DataExact'
    BY <1>1, <2>1 DEF MallocFails, DataExact
  <2>4. HolderAccountable'
    BY <1>1 DEF MallocFails, HolderAccountable, FailedHolder
  <2>5. QED
    BY <2>2, <2>3, <2>4
<1>2. CASE Create(t)
  <2>1. Accounted' = Accounted
    BY <1>2 DEF Create, Accounted
  <2>2. TypeInv' /\ Known'
    BY <1>2 DEF Create, Known
  <2>3. DataExact'
    BY <1>2, <2>1 DEF Create, DataExact
  <2>4. HolderAccountable'
    BY <1>2 DEF Create, HolderAccountable, FailedHolder
  <2>5. QED
    BY <2>2, <2>3, <2>4
<1>3. CASE ReturnTrue(t)
  <2>1. Accounted' = Accounted
    BY <1>3 DEF ReturnTrue, Accounted, Known
  <2>2. TypeInv' /\ Known'
    BY <1>3 DEF ReturnTrue, Known
  <2>3. DataExact'
    BY <1>3, <2>1 DEF ReturnTrue, DataExact
  <2>4. HolderAccountable'
    BY <1>3 DEF ReturnTrue, Known, HolderAccountable, FailedHolder
  <2>5. QED
    BY <2>2, <2>3, <2>4
<1>4. QED
  BY <1>1, <1>2, <1>3

(* The two frees: of a start that failed, and of a thread that has been joined. *)
LEMMA InvFree ==
  ASSUME Inv, NEW t \in Threads, FreeAndReturnFalse(t) \/ Join(t)
  PROVE  Inv'
<1>. USE NullAssumption DEF Inv, TypeInv, Places
<1>1. /\ t \in Accounted /\ pass_data' = pass_data /\ mutex' = mutex /\ starting' = NULL
      /\ mem' = [mem EXCEPT ![pass_data[t]] = NULL]
  BY DEF FreeAndReturnFalse, Join, Known, Accounted
<1>2. /\ pass_data[t] \in Blocks /\ mem[pass_data[t]] \in BOOLEAN
      /\ \A u \in Accounted : u # t => pass_data[u] # pass_data[t]
  BY <1>1, OwnBlock
<1>3. TypeInv'
  BY <1>1, <1>2 DEF FreeAndReturnFalse, Join
<1>4. Accounted' = Accounted \ {t}
  BY <1>1 DEF FreeAndReturnFalse, Join, Known, Accounted
<1>5. Known'
  BY <1>1, <1>4 DEF FreeAndReturnFalse, Join, Known
<1>6. DataExact'
  <2>1. \A b \in Blocks : mem'[b] # NULL => mem[b] # NULL /\ b # pass_data[t]
    BY <1>1, <1>2
  <2>2. \A b \in Blocks : b # pass_data[t] => mem'[b] = mem[b]
    BY <1>1, <1>2
  <2>3. \A b \in Blocks : mem'[b] # NULL => \E u \in Accounted' : pass_data'[u] = b
    BY <1>1, <1>4, <2>1 DEF DataExact
  <2>4. \A u \in Accounted' : pass_data'[u] \in Blocks /\ mem'[pass_data'[u]] # NULL
    BY <1>1, <1>2, <1>4, <2>2 DEF DataExact
  <2>5. \A u, v \in Accounted' : pass_data'[u] = pass_data'[v] => u = v
    BY <1>1, <1>4 DEF DataExact
  <2>6. \A u \in Threads : pc'[u] \notin {"none", "joined"} => u \in Accounted'
    BY <1>4 DEF DataExact, FreeAndReturnFalse, Join
  <2>7. QED
    BY <2>3, <2>4, <2>5, <2>6 DEF DataExact
<1>7. HolderAccountable'
  <2>1. ASSUME mutex # NULL, mutex # t, pc[mutex] = "returned", mem[pass_data[mutex]] = FALSE
        PROVE  pc'[mutex] = "returned" /\ mem'[pass_data'[mutex]] = FALSE
    <3>1. mutex \in Accounted /\ pass_data[mutex] \in Blocks
      BY <2>1 DEF DataExact
    <3>2. pass_data[mutex] # pass_data[t]
      BY <1>2, <2>1, <3>1
    <3>3. QED
      BY <1>1, <2>1, <3>1, <3>2 DEF FreeAndReturnFalse, Join
  <2>2. CASE mutex = t
    BY <1>1, <2>2 DEF HolderAccountable, FailedHolder, Known, FreeAndReturnFalse, Join
  <2>3. CASE mutex # t
    BY <1>1, <2>1, <2>3 DEF HolderAccountable, FailedHolder, FreeAndReturnFalse, Join
  <2>4. QED
    BY <2>2, <2>3
<1>8. QED
  BY <1>3, <1>5, <1>6, <1>7

-----------------------------------------------------------------------------
(* A return writes the thread's own flag; the mutex is left as it is by a  *)
(* failure, and free after a success.                                      *)
LEMMA InvReturn ==
  ASSUME Inv, NEW t \in Threads, NEW ok \in BOOLEAN, Return(t, ok),
         pc[t] \in {"wait", "obtain", "hold", "release"},
         IF ok THEN pc[t] = "release" /\ mutex' = NULL ELSE mutex' = mutex
  PROVE  Inv'
<1>. USE NullAssumption DEF Inv, TypeInv, Places, Return, Goto
<1>1. t \in Accounted
  BY DEF DataExact
<1>2. /\ pass_data[t] \in Blocks /\ mem[pass_data[t]] \in BOOLEAN
      /\ \A u \in Accounted : u # t => pass_data[u] # pass_data[t]
  BY <1>1, OwnBlock
<1>3. TypeInv'
  BY <1>2
<1>4. Accounted' = Accounted
  BY DEF Accounted
<1>5. Known'
  BY <1>4 DEF Known
<1>6. DataExact'
  <2>1. \A b \in Blocks : mem'[b] # NULL <=> mem[b] # NULL
    BY <1>2
  <2>2. \A u \in Accounted : pass_data'[u] = pass_data[u]
    OBVIOUS
  <2>3. \A u \in Threads : pc'[u] \notin {"none", "joined"} => u \in Accounted'
    BY <1>4 DEF DataExact
  <2>4. QED
    BY <1>4, <2>1, <2>2, <2>3 DEF DataExact
<1>7. HolderAccountable'
  <2>1. CASE ok
    BY <2>1 DEF HolderAccountable
  <2>2. CASE ~ok /\ mutex = t
    BY <1>2, <2>2 DEF HolderAccountable, FailedHolder
  <2>3. CASE ~ok /\ mutex # t
    <3>1. ASSUME mutex # NULL, pc[mutex] = "returned", mem[pass_data[mutex]] = FALSE
          PROVE  pc'[mutex] = "returned" /\ mem'[pass_data'[mutex]] = FALSE
      <4>1. mutex \in Accounted /\ pass_data[mutex] \in Blocks
        BY <3>1 DEF DataExact
      <4>2. pass_data[mutex] # pass_data[t]
        BY <1>2, <2>3, <4>1
      <4>3. QED
        BY <2>3, <3>1, <4>1, <4>2
    <3>2. QED
      BY <2>3, <3>1 DEF HolderAccountable, FailedHolder
  <2>4. QED
    BY <2>1, <2>2, <2>3
<1>8. QED
  BY <1>3, <1>5, <1>6, <1>7

(* A thread that goes on, without or with the mutex it has just obtained. *)
LEMMA InvGoto ==
  ASSUME Inv, NEW t \in Threads, NEW place, UNCHANGED mem, Goto(t, place),
         \/ pc[t] = "wait" /\ place = "obtain" /\ UNCHANGED mutex
         \/ pc[t] = "obtain" /\ place = "hold" /\ mutex = NULL /\ mutex' = t
         \/ pc[t] = "hold" /\ place = "release" /\ UNCHANGED mutex
  PROVE  Inv'
<1>. USE NullAssumption DEF Inv, TypeInv, Places, Goto
<1>1. TypeInv'
  OBVIOUS
<1>2. Accounted' = Accounted
  BY DEF Accounted
<1>3. Known'
  BY DEF Known
<1>4. DataExact'
  BY <1>2 DEF DataExact
<1>5. HolderAccountable'
  <2>1. t # NULL /\ pc' = [pc EXCEPT ![t] = place] /\ pc[t] # "returned"
    OBVIOUS
  <2>2. mem' = mem /\ pass_data' = pass_data /\ result' = result
    OBVIOUS
  <2>3. \A u \in Threads : u # t => (FailedHolder /\ mutex = u /\ mutex' = u => FailedHolder')
    BY <2>1, <2>2 DEF FailedHolder
  <2>4. CASE mutex = NULL /\ mutex' = t /\ place = "hold"
    BY ONLY <2>1, <2>4, HolderAccountable, t \in Threads, pc \in [Threads -> Places],
            NullAssumption
       DEF HolderAccountable
  <2>5. CASE mutex' = mutex /\ mutex # t /\ pc[t] = "wait" /\ place = "obtain"
    BY ONLY <2>1, <2>3, <2>5, HolderAccountable, t \in Threads, pc \in [Threads -> Places],
            mutex \in Threads \cup {NULL}
       DEF HolderAccountable
  <2>6. CASE mutex' = mutex /\ pc[t] = "wait" /\ place = "obtain" /\ mutex = t
    BY <2>6 DEF HolderAccountable, FailedHolder, Known
  <2>7. CASE mutex' = mutex /\ pc[t] = "hold" /\ place = "release"
    BY <2>7 DEF HolderAccountable
  <2>8. QED
    BY <2>4, <2>5, <2>6, <2>7
<1>6. QED
  BY <1>1, <1>3, <1>4, <1>5

(* The steps of threadfunc. *)
LEMMA InvThread ==
  ASSUME Inv, NEW t \in Threads, Run(t) \/ Obtain(t) \/ ObtainFails(t)
  PROVE  Inv'
<1>1. CASE pc[t] \in {"wait", "obtain", "hold", "release"} /\ Fail(t)
  BY <1>1, InvReturn DEF Fail
<1>2. CASE pc[t] = "wait" /\ Goto(t, "obtain") /\ UNCHANGED <<mutex, mem>>
  BY <1>2, InvGoto
<1>3. CASE Obtain(t)
  BY <1>3, InvGoto DEF Obtain
<1>4. CASE pc[t] = "hold" /\ Goto(t, "release") /\ UNCHANGED <<mutex, mem>>
  BY <1>4, InvGoto
<1>5. CASE pc[t] = "release" /\ mutex' = NULL /\ Return(t, TRUE)
  BY <1>5, InvReturn
<1>6. QED
  BY <1>1, <1>2, <1>3, <1>4, <1>5 DEF Run, WaitToObtain, WaitToRelease, Release, ObtainFails

(* The invariant holds in every reachable state. *)
THEOREM InvHolds == Spec => []Inv
<1>1. Inv /\ [Next]_vars => Inv'
  <2>. SUFFICES ASSUME Inv, [Next]_vars
                PROVE  Inv'
    OBVIOUS
  <2>1. ASSUME NEW t \in Threads, StartThread(t) \/ Join(t)
        PROVE  Inv'
    BY <2>1, InvMalloc, InvStart, InvFree DEF StartThread
  <2>2. ASSUME NEW t \in Threads, Run(t) \/ Obtain(t) \/ ObtainFails(t)
        PROVE  Inv'
    BY <2>2, InvThread
  <2>3. CASE UNCHANGED vars
    <3>1. Accounted' = Accounted
      BY <2>3 DEF vars, Accounted
    <3>2. DataExact'
      BY <2>3, <3>1 DEF vars, Inv, DataExact
    <3>3. TypeInv' /\ Known' /\ HolderAccountable'
      BY <2>3 DEF vars, Inv, TypeInv, Known, HolderAccountable, FailedHolder
    <3>4. QED
      BY <3>2, <3>3 DEF Inv
  <2>4. QED
    BY <2>1, <2>2, <2>3 DEF Next
<1>2. QED
  BY InvInit, <1>1, PTL DEF Spec

-----------------------------------------------------------------------------
(* The mutex is held by a thread between its lock and its unlock, or by one *)
(* that reports a failure (threadfunc).                                     *)
THEOREM HolderAlwaysAccountable == Spec => []HolderAccountable
<1>1. Inv => HolderAccountable
  BY DEF Inv
<1>2. QED
  BY InvHolds, <1>1, PTL

(* What is allocated is what the start under way and the threads that the   *)
(* caller has yet to join need, one block each: nothing is lost by a failed *)
(* malloc or pthread_create, nothing is freed or given away too early       *)
(* (start_thread_obtaining_mutex, threadfunc).                              *)
THEOREM DataAlwaysExact == Spec => []DataExact
<1>1. Inv => DataExact
  BY DEF Inv
<1>2. QED
  BY InvHolds, <1>1, PTL
=================================================================================
