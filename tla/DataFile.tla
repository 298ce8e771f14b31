-------------------------------- MODULE DataFile --------------------------------
(***************************************************************************)
(* The other build of server/aesdsocket.c, without USE_AESD_CHAR_DEVICE:   *)
(* the data file /var/tmp/aesdsocketdata, the threads that write it and    *)
(* read it back, the timer whose SIGALRM appends a timestamp, and main,    *)
(* which joins the threads and cleans up.  SIGALRM interrupts any thread   *)
(* that is not in the handler already; the thread goes on when the handler *)
(* has returned.  What both builds share (the thread list, descriptors,    *)
(* packets in pieces) is in AesdSocket; here a packet comes whole.         *)
(***************************************************************************)
EXTENDS Integers, SequencesExt, FiniteSetsExt

CONSTANTS
  Clients,     \* a connection is named by its client
  MAIN,        \* the main thread
  NULL,
  Bytes,       \* what lines are made of
  packet,      \* the line each client sends, if it sends one
  STAMP,       \* a timestamp, as one symbol
  Leftovers,   \* what a server that SIGPIPE has ended may have left in the data file
  BufferSize,  \* INITIAL_BUFFER_SIZE, of each read
  MaxAlarms,   \* bound on the expirations of the timer
  Faults       \* the calls that may fail: "timer", "open", "write", "send", "sigpipe"

ASSUME DataFileAssumption ==
  /\ MAIN \notin Clients /\ NULL \notin Clients \cup {MAIN}
  /\ BufferSize \in Nat \ {0} /\ MaxAlarms \in Nat
  /\ packet \in [Clients -> Seq(Bytes) \ {<< >>}] /\ STAMP \notin Bytes
  /\ NULL \notin Seq(Bytes \cup {STAMP}) /\ Leftovers \subseteq Seq(Bytes \cup {STAMP})

VARIABLES
  file,           \* the contents of the data file, NULL when there is none
  g_write_mutex,  \* the thread that holds it, or NULL; a handler locks as its thread
  handler,        \* where insert_timestamp is on each thread, "none" when it does not run
  timer,          \* whether g_timer is set
  alarms,         \* how often it has expired
  g_exit_flag,
  pc,             \* where each thread is
  f_pos,          \* the position of my_file_read
  resp,           \* history: what each client has been sent
  answered,       \* history: connections that read to the end of the file
  overwritten,    \* history: connections whose packet another has overwritten
  late            \* history: whether the timer expired after the file was removed

timing == <<timer, alarms, late>>
connection == <<f_pos, resp, answered, overwritten>>
vars == <<file, g_write_mutex, handler, timing, g_exit_flag, pc, connection>>

Threads == Clients \cup {MAIN}

Init ==
  /\ file \in {NULL} \cup Leftovers
  /\ g_write_mutex = NULL
  /\ handler = [t \in Threads |-> "none"]
  /\ timer = FALSE /\ alarms = 0 /\ late = FALSE
  /\ g_exit_flag = FALSE
  /\ pc = [t \in Threads |-> IF t = MAIN THEN "start" ELSE "none"]
  /\ f_pos = [c \in Clients |-> 0]
  /\ resp = [c \in Clients |-> << >>]
  /\ answered = {} /\ overwritten = {}

(* A thread is somewhere, and no handler has interrupted it. *)
At(t, place) == pc[t] = place /\ handler[t] = "none"

Goto(t, place) == pc' = [pc EXCEPT ![t] = place]

Alive(t) == pc[t] \notin {"none", "dead", "killed"}

(* open with O_CREAT, without O_TRUNC. *)
Opened == IF file = NULL THEN << >> ELSE file

-----------------------------------------------------------------------------
(* insert_timestamp, on the thread t. *)

Alarm(t) ==
  /\ timer /\ alarms < MaxAlarms
  /\ Alive(t) /\ handler[t] = "none"
  /\ alarms' = alarms + 1
  /\ handler' = [handler EXCEPT ![t] = "lock"]
  /\ late' = (late \/ pc[MAIN] = "delete")
  /\ UNCHANGED <<file, g_write_mutex, timer, g_exit_flag, pc, connection>>

StampLock(t) ==
  /\ handler[t] = "lock" /\ g_write_mutex = NULL
  /\ g_write_mutex' = t
  /\ handler' = [handler EXCEPT ![t] = "append"]
  /\ UNCHANGED <<file, timing, g_exit_flag, pc, connection>>

(* Mutant of Stamped: without O_APPEND the timestamp goes to the beginning. *)
StampedAtStart(bytes) == <<STAMP>> \o SubSeq(bytes, 2, Len(bytes))

(* The file behind open with O_APPEND and write. *)
Stamped(bytes) == bytes \o <<STAMP>>

(* open, write and close, with the mutex held.  Their failures are only reported. *)
Stamp(t) ==
  /\ handler[t] = "append"
  /\ \/ file' = Stamped(Opened)
     \/ "write" \in Faults /\ file' = Opened
     \/ "open" \in Faults /\ UNCHANGED file
  /\ handler' = [handler EXCEPT ![t] = "unlock"]
  /\ UNCHANGED <<g_write_mutex, timing, g_exit_flag, pc, connection>>

(* Mutant of StampUnlock: the handler returns with the mutex locked. *)
StampKeepsLock(t) ==
  /\ handler[t] = "unlock"
  /\ handler' = [handler EXCEPT ![t] = "none"]
  /\ UNCHANGED <<file, g_write_mutex, timing, g_exit_flag, pc, connection>>

StampUnlock(t) ==
  /\ handler[t] = "unlock"
  /\ g_write_mutex' = NULL
  /\ handler' = [handler EXCEPT ![t] = "none"]
  /\ UNCHANGED <<file, timing, g_exit_flag, pc, connection>>

-----------------------------------------------------------------------------
(* main *)

(* timer_init, whose failures leave the server without a timer; or a call   *)
(* before it fails, and main goes to cleanup.                               *)
Start ==
  /\ At(MAIN, "start")
  /\ \/ Goto(MAIN, "accept") /\ timer' = TRUE
     \/ Goto(MAIN, "accept") /\ "timer" \in Faults /\ UNCHANGED timer
     \/ Goto(MAIN, "remove") /\ UNCHANGED timer
  /\ UNCHANGED <<file, g_write_mutex, handler, alarms, late, g_exit_flag, connection>>

Accept(c) ==
  /\ At(MAIN, "accept") /\ pc[c] = "none"
  /\ Goto(c, "open")
  /\ UNCHANGED <<file, g_write_mutex, handler, timing, g_exit_flag, connection>>

(* SIGINT or SIGTERM; SA_RESTART keeps SIGALRM from ending accept. *)
Signal ==
  /\ ~g_exit_flag /\ pc[MAIN] = "accept"
  /\ g_exit_flag' = TRUE
  /\ UNCHANGED <<file, g_write_mutex, handler, timing, pc, connection>>

LeaveLoop ==
  /\ At(MAIN, "accept") /\ g_exit_flag
  /\ Goto(MAIN, "join")
  /\ UNCHANGED <<file, g_write_mutex, handler, timing, g_exit_flag, connection>>

(* Mutant of Join: main goes to cleanup while threads are running. *)
JoinNobody ==
  /\ At(MAIN, "join")
  /\ Goto(MAIN, "remove")
  /\ UNCHANGED <<file, g_write_mutex, handler, timing, g_exit_flag, connection>>

Join ==
  /\ At(MAIN, "join") /\ \A c \in Clients : ~Alive(c)
  /\ Goto(MAIN, "remove")
  /\ UNCHANGED <<file, g_write_mutex, handler, timing, g_exit_flag, connection>>

(* cleanup: the file goes first, *)
RemoveFile ==
  /\ At(MAIN, "remove")
  /\ file' = NULL
  /\ Goto(MAIN, "delete")
  /\ UNCHANGED <<g_write_mutex, handler, timing, g_exit_flag, connection>>

(* then the timer, then the mutex, and the process ends. *)
DeleteTimer ==
  /\ At(MAIN, "delete")
  /\ timer' = FALSE
  /\ Goto(MAIN, "dead")
  /\ UNCHANGED <<file, g_write_mutex, handler, alarms, late, g_exit_flag, connection>>

-----------------------------------------------------------------------------
(* handle_connection, with a regular file. *)

(* open with O_RDWR | O_CREAT: no O_APPEND, and the position is 0. *)
Open(c) ==
  /\ At(c, "open")
  /\ \/ file' = Opened /\ Goto(c, "recv")
     \/ "open" \in Faults /\ Goto(c, "close") /\ UNCHANGED file
  /\ UNCHANGED <<g_write_mutex, handler, timing, g_exit_flag, connection>>

(* A line arrives; or the connection ends without one, by the exit flag, by  *)
(* the peer, or by a seek, as the ioctl fails on a regular file.             *)
Recv(c) ==
  /\ At(c, "recv")
  /\ Goto(c, "lock") \/ Goto(c, "close")
  /\ UNCHANGED <<file, g_write_mutex, handler, timing, g_exit_flag, connection>>

Lock(c) ==
  /\ At(c, "lock") /\ g_write_mutex = NULL
  /\ g_write_mutex' = c
  /\ Goto(c, "write")
  /\ UNCHANGED <<file, handler, timing, g_exit_flag, connection>>

(* What a write of bytes at the position 0 leaves in the file. *)
Overwritten(bytes) == bytes \o SubSeq(file, Len(bytes) + 1, Len(file))

(* write, which may store only a part of the packet. *)
Write(c) ==
  /\ At(c, "write")
  /\ \/ /\ file' = Overwritten(packet[c])
        /\ Goto(c, "unlock")
     \/ /\ "write" \in Faults
        /\ \E k \in 0 .. Len(packet[c]) - 1 : file' = Overwritten(SubSeq(packet[c], 1, k))
        /\ Goto(c, "fail")
  /\ overwritten' = overwritten \cup {d \in Clients : pc[d] \in {"openr", "read"}}
  /\ UNCHANGED <<g_write_mutex, handler, timing, g_exit_flag, f_pos, resp, answered>>

Unlock(c) ==
  /\ \/ At(c, "unlock") /\ Goto(c, "openr")
     \/ At(c, "fail") /\ Goto(c, "close")
  /\ g_write_mutex' = NULL
  /\ UNCHANGED <<file, handler, timing, g_exit_flag, connection>>

OpenRead(c) ==
  /\ At(c, "openr")
  /\ \/ Goto(c, "read")
     \/ "open" \in Faults /\ Goto(c, "close")
  /\ UNCHANGED <<file, g_write_mutex, handler, timing, g_exit_flag, connection>>

(* What the next read of the file returns. *)
Unread(c) == SubSeq(file, f_pos[c] + 1, Min({f_pos[c] + BufferSize, Len(file)}))

(* A turn of the loop that reads the file and sends what it reads. *)
Read(c) ==
  LET bytes == Unread(c)
  IN
  /\ At(c, "read")
  /\ \/ /\ bytes # << >>
        /\ resp' = [resp EXCEPT ![c] = @ \o bytes]
        /\ f_pos' = [f_pos EXCEPT ![c] = @ + Len(bytes)]
        /\ UNCHANGED <<pc, answered>>
     \/ /\ bytes # << >> /\ "send" \in Faults
        /\ Goto(c, "close")
        /\ UNCHANGED <<f_pos, resp, answered>>
     \/ /\ bytes = << >>
        /\ answered' = answered \cup {c}
        /\ Goto(c, "close")
        /\ UNCHANGED <<f_pos, resp>>
  /\ UNCHANGED <<file, g_write_mutex, handler, timing, g_exit_flag, overwritten>>

(* send to a peer that has gone: SIGPIPE, which nobody handles, ends the    *)
(* process where all its threads are, without cleanup.                      *)
Sigpipe(c) ==
  /\ At(c, "read") /\ Unread(c) # << >> /\ "sigpipe" \in Faults
  /\ pc' = [t \in Threads |-> IF Alive(t) THEN "killed" ELSE pc[t]]
  /\ handler' = [t \in Threads |-> "none"]
  /\ g_write_mutex' = NULL /\ timer' = FALSE
  /\ UNCHANGED <<file, alarms, late, g_exit_flag, connection>>

(* free and close, and the thread returns.  The history of it ends here. *)
Close(c) ==
  /\ At(c, "close")
  /\ Goto(c, "dead")
  /\ f_pos' = [f_pos EXCEPT ![c] = 0]
  /\ resp' = [resp EXCEPT ![c] = << >>]
  /\ answered' = answered \ {c} /\ overwritten' = overwritten \ {c}
  /\ UNCHANGED <<file, g_write_mutex, handler, timing, g_exit_flag>>

-----------------------------------------------------------------------------
Handler(t) == StampLock(t) \/ Stamp(t) \/ StampUnlock(t)

Main == Start \/ LeaveLoop \/ Join \/ RemoveFile \/ DeleteTimer

Connection(c) ==
  \/ Open(c) \/ Recv(c) \/ Lock(c) \/ Write(c) \/ Unlock(c) \/ OpenRead(c) \/ Read(c) \/ Close(c)

Next ==
  \/ \E t \in Threads : Alarm(t) \/ Handler(t)
  \/ Signal \/ Main
  \/ \E c \in Clients : Accept(c) \/ Connection(c) \/ Sigpipe(c)

Spec == Init /\ [][Next]_vars

(* The scheduler runs every thread, and nobody waits for ever for a mutex   *)
(* that is free again and again.  Connected clients send or close.          *)
FairSpec ==
  /\ Spec
  /\ WF_vars(Main)
  /\ \A t \in Threads : SF_vars(Handler(t))
  /\ \A c \in Clients : SF_vars(Connection(c))

-----------------------------------------------------------------------------
(* The handler waits for the mutex that the thread it has interrupted holds. *)
SelfDeadlock == \E t \in Threads : handler[t] = "lock" /\ g_write_mutex = t

(* The handler locks g_write_mutex (:240).  Every handler returns, whatever  *)
(* fails in it and wherever the other threads are, unless it or another has  *)
(* interrupted the very thread that holds the mutex.                         *)
HandlersReturn ==
  \A t \in Threads : handler[t] # "none" ~> (handler[t] = "none" \/ SelfDeadlock)

(* A connection whose packet no other has overwritten sends back the file as *)
(* it is when it reads the end, which begins with its packet ("then send     *)
(* entire file contents back to client", :85): a timestamp that comes        *)
(* between its write and any of its reads does no harm, as it is appended.   *)
AnswerIsFile ==
  [][\A c \in answered' \ (answered \cup overwritten) :
       resp[c] = file /\ IsPrefix(packet[c], file)]_vars

(* When main has returned, no byte of a client is left on the disk: cleanup  *)
(* removes the data file (:68) behind the last connection, whose write could *)
(* have brought it back.  The timer is deleted only afterwards (:70): when   *)
(* it expires between the two the handler creates the file once more, with   *)
(* nothing in it but timestamps.  A process that SIGPIPE ends (:179) does    *)
(* not get here, and leaves the file; what the next server finds goes too.   *)
FileRemoved ==
  pc[MAIN] = "dead" => \/ file = NULL
                       \/ late /\ file \in Seq({STAMP})
=============================================================================
