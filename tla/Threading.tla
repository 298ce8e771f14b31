------------------------------- MODULE Threading -------------------------------
(***************************************************************************)
(* examples/threading/threading.c: start_thread_obtaining_mutex, called    *)
(* for each thread by one caller, and threadfunc, which waits, obtains the *)
(* caller's mutex, holds it for a while and releases it.  The caller is    *)
(* outside the repository: it joins a thread and frees the data the thread *)
(* returns, as threading.h:6-8 asks of it.  How long a sleep takes is left *)
(* open; a sleep may fail, for a length that is no length or for a signal. *)
(***************************************************************************)
EXTENDS Naturals

CONSTANTS
  Threads,
  Blocks,    \* where malloc can put a thread_data
  NULL,
  Faults     \* the calls that may fail: "malloc", "create", "sleep", "lock", "unlock"

ASSUME NullAssumption == NULL \notin Threads \cup Blocks \cup BOOLEAN

VARIABLES
  pc,        \* where each thread is, or the start of it
  mutex,     \* the thread that holds *thread_mutex, or NULL
  starting,  \* the thread whose start is under way, or NULL
  pass_data, \* the block of each start and then of its thread; it is not cleared by a free
  mem,       \* thread_complete_success of each block, NULL where the block is free
  result     \* what the caller has learnt of each thread

vars == <<pc, mutex, starting, pass_data, mem, result>>

Init ==
  /\ pc = [t \in Threads |-> "none"]
  /\ mutex = NULL
  /\ starting = NULL
  /\ pass_data = [t \in Threads |-> NULL]
  /\ mem = [b \in Blocks |-> NULL]
  /\ result = [t \in Threads |-> "none"]

-----------------------------------------------------------------------------
(* start_thread_obtaining_mutex *)

(* The data is allocated and set up, the success flag cleared. *)
Malloc(t) ==
  /\ starting = NULL /\ pc[t] = "none" /\ result[t] = "none"
  /\ \E b \in Blocks :
       /\ mem[b] = NULL
       /\ mem' = [mem EXCEPT ![b] = FALSE]
       /\ pass_data' = [pass_data EXCEPT ![t] = b]
  /\ pc' = [pc EXCEPT ![t] = "create"]
  /\ starting' = t
  /\ UNCHANGED <<mutex, result>>

MallocFails(t) ==
  /\ starting = NULL /\ pc[t] = "none" /\ result[t] = "none" /\ "malloc" \in Faults
  /\ result' = [result EXCEPT ![t] = "not started"]
  /\ UNCHANGED <<pc, mutex, starting, pass_data, mem>>

(* pthread_create: the thread may run, and return, before the caller goes on. *)
Create(t) ==
  /\ pc[t] = "create"
  /\ \/ pc' = [pc EXCEPT ![t] = "wait"]
     \/ "create" \in Faults /\ pc' = [pc EXCEPT ![t] = "free"]
  /\ UNCHANGED <<mutex, starting, pass_data, mem, result>>

ReturnTrue(t) ==
  /\ starting = t /\ pc[t] \notin {"create", "free"}
  /\ starting' = NULL
  /\ result' = [result EXCEPT ![t] = "started"]
  /\ UNCHANGED <<pc, mutex, pass_data, mem>>

(* Mutant of FreeAndReturnFalse: the data of a thread that was not created is lost. *)
ReturnFalseOnly(t) ==
  /\ pc[t] = "free"
  /\ pc' = [pc EXCEPT ![t] = "none"]
  /\ starting' = NULL
  /\ result' = [result EXCEPT ![t] = "not started"]
  /\ UNCHANGED <<mutex, pass_data, mem>>

FreeAndReturnFalse(t) ==
  /\ pc[t] = "free"
  /\ mem' = [mem EXCEPT ![pass_data[t]] = NULL]
  /\ pc' = [pc EXCEPT ![t] = "none"]
  /\ starting' = NULL
  /\ result' = [result EXCEPT ![t] = "not started"]
  /\ UNCHANGED <<mutex, pass_data>>

StartThread(t) ==
  Malloc(t) \/ MallocFails(t) \/ Create(t) \/ ReturnTrue(t) \/ FreeAndReturnFalse(t)

-----------------------------------------------------------------------------
(* threadfunc *)

Goto(t, place) ==
  pc' = [pc EXCEPT ![t] = place] /\ UNCHANGED <<starting, pass_data, result>>

(* return thread_param with the success flag set to ok *)
Return(t, ok) == mem' = [mem EXCEPT ![pass_data[t]] = ok] /\ Goto(t, "returned")

(* An early return, with the success flag cleared; whatever is held stays so. *)
Fail(t) == Return(t, FALSE) /\ UNCHANGED mutex

(* sleep_ms(wait_to_obtain_ms) *)
WaitToObtain(t) ==
  /\ pc[t] = "wait"
  /\ \/ Goto(t, "obtain") /\ UNCHANGED <<mutex, mem>>
     \/ "sleep" \in Faults /\ Fail(t)

Obtain(t) ==
  /\ pc[t] = "obtain" /\ mutex = NULL
  /\ mutex' = t
  /\ Goto(t, "hold")
  /\ UNCHANGED mem

ObtainFails(t) == pc[t] = "obtain" /\ "lock" \in Faults /\ Fail(t)

(* sleep_ms(wait_to_release_ms): when it fails the thread returns with the mutex. *)
WaitToRelease(t) ==
  /\ pc[t] = "hold"
  /\ \/ Goto(t, "release") /\ UNCHANGED <<mutex, mem>>
     \/ "sleep" \in Faults /\ Fail(t)

(* Mutant of Release: the thread that succeeds keeps the mutex. *)
ReleaseForgotten(t) == pc[t] = "release" /\ Return(t, TRUE) /\ UNCHANGED mutex

Release(t) ==
  /\ pc[t] = "release"
  /\ \/ mutex' = NULL /\ Return(t, TRUE)
     \/ "unlock" \in Faults /\ Fail(t)

-----------------------------------------------------------------------------
(* pthread_join by the caller, who knows the thread only once its start has   *)
(* returned; it reads the flag and frees the data.                            *)
Join(t) ==
  /\ starting = NULL /\ result[t] = "started" /\ pc[t] = "returned"
  /\ result' = [result EXCEPT ![t] = IF mem[pass_data[t]] THEN "success" ELSE "failure"]
  /\ pc' = [pc EXCEPT ![t] = "joined"]
  /\ mem' = [mem EXCEPT ![pass_data[t]] = NULL]
  /\ UNCHANGED <<mutex, starting, pass_data>>

Run(t) == WaitToObtain(t) \/ WaitToRelease(t) \/ Release(t)

Next ==
  \E t \in Threads : StartThread(t) \/ Run(t) \/ Obtain(t) \/ ObtainFails(t) \/ Join(t)

Spec == Init /\ [][Next]_vars

(* Threads go on, and nobody waits for ever for a mutex that is released again *)
(* and again.  The caller need neither start nor join a thread.                *)
FairSpec == Spec /\ \A t \in Threads : WF_vars(Run(t)) /\ SF_vars(Obtain(t))

-----------------------------------------------------------------------------
(* A thread has failed, and taken the mutex with it. *)
FailedHolder ==
  /\ mutex # NULL
  /\ \/ pc[mutex] = "returned" /\ mem[pass_data[mutex]] = FALSE
     \/ result[mutex] = "failure"

(* The mutex is held by a thread on its way to release it, or by one that      *)
(* reports its failure to the caller; never by a thread that reports success   *)
(* ("then obtains the mutex [...], then holds for [...] milliseconds, then     *)
(* releases", threading.h:26-27).  Whoever is between lock and unlock holds it. *)
HolderAccountable ==
  /\ mutex # NULL => pc[mutex] \in {"hold", "release"} \/ FailedHolder
  /\ \A t \in Threads : pc[t] \in {"hold", "release"} => mutex = t

(* The threads whose data must be there: the one being started, and every one *)
(* the caller was told of and has yet to join.                                *)
Accounted == {t \in Threads : starting = t \/ result[t] = "started"}

(* The blocks that are allocated are exactly those of the accounted threads,   *)
(* one each: a start that returns false has left nothing behind, whichever of  *)
(* malloc and pthread_create failed, and what a thread works on is neither     *)
(* freed nor given to another before the join ("so it can be freed by the      *)
(* joiner thread", threading.h:7-8).                                           *)
DataExact ==
  /\ \A b \in Blocks : mem[b] # NULL => \E t \in Accounted : pass_data[t] = b
  /\ \A t \in Accounted : pass_data[t] \in Blocks /\ mem[pass_data[t]] # NULL
  /\ \A t, u \in Accounted : pass_data[t] = pass_data[u] => t = u
  /\ \A t \in Threads : pc[t] \notin {"none", "joined"} => t \in Accounted

(* Every thread that is created returns, unless one that failed in its second *)
(* sleep, or in the unlock, has taken the mutex with it.                      *)
StartedThreadsReturn ==
  \A t \in Threads : pc[t] = "wait" ~> pc[t] \in {"returned", "joined"} \/ FailedHolder
================================================================================
