------------------------------ MODULE AesdSocket ------------------------------
(***************************************************************************)
(* The server server/aesdsocket.c, built as its Makefile builds it, on     *)
(* /dev/aesdchar: the main thread that accepts connections, the thread it  *)
(* creates for each, the list of threads, the descriptors of the process,  *)
(* the mutex g_write_mutex and the signal handler.  The device is the line *)
(* device that AesdChar implements.                                        *)
(*                                                                         *)
(* Connections are named by their clients.  A connection's thread goes     *)
(*                                                                         *)
(*   open -> loop -> recv -> lock -> write -> openr -> readback -> close   *)
(*            ^       | \-> ioctl -> seekread ----------+---------> finish *)
(*            +-------+ \-> extend -> loop                                 *)
(*   finish -> wrap -> closec -> dead                                      *)
(*                                                                         *)
(* and the main thread                                                     *)
(*                                                                         *)
(*   start -> top -> accept -> create -> reap -> top ... -> exit -> join   *)
(*   -> done.                                                              *)
(***************************************************************************)
EXTENDS Integers, SequencesExt, FiniteSetsExt

CONSTANTS
  Clients,
  NULL,
  N, NL,        \* of the line device
  SEEK,         \* the prefix "AESDCHAR_IOCSEEKTO:", as one symbol
  SeekArgs,     \* what parses as "%u,%u": pairs of numbers
  Chunks,       \* what one recv may return, at most BufferSize bytes
  MaxChunks,    \* bound on the chunks of one client
  BufferSize,   \* INITIAL_BUFFER_SIZE, of the packet buffer and of each recv and read
  MaxSignals,   \* bound on the signals, 0 or 1: a second one changes nothing
  MaxFds,       \* the descriptors the process may have
  Faults        \* the system calls that may fail for reasons outside the model

ASSUME SocketAssumption ==
  /\ NULL \notin Clients /\ NULL \notin Nat
  /\ NULL \notin {"listen", "reserved", "client", "data", "read", "closed"} \X (Clients \cup {NULL})
  /\ SEEK # NL
  /\ N \in Nat \ {0} /\ SeekArgs \subseteq Nat \X Nat
  /\ \A chunk \in Chunks : chunk \in Seq(Range(chunk)) /\ Len(chunk) \in 1 .. BufferSize
  /\ MaxChunks \in Nat /\ MaxSignals \in {0, 1} /\ BufferSize \in Nat \ {0} /\ MaxFds \in Nat
  /\ Faults \subseteq {"malloc", "accept", "create", "open", "write", "send", "sigpipe"}

VARIABLES
  lines, tail, ok,   \* the device
  main_pc,
  head,              \* the list of thread entries, first to last
  todo,              \* what SLIST_FOREACH_SAFE has still to visit
  freed,             \* the entries that have been freed
  g_exit_flag,
  handler,           \* how far the signal handler is: "none", "shutdown", "done"
  g_write_mutex,     \* the connection whose thread holds it, or NULL
  fds,               \* what each descriptor refers to, NULL for a free one
  accept_fd,         \* the descriptor reserved by the accept under way
  pc,                \* where each thread is, "none" before there is one
  my_client, data_fd, my_file_read,   \* its descriptors, -1 for none
  is_done,
  sock,              \* the socket its recv is waiting on
  packet,            \* packet_buffer[0 .. packet_length)
  capacity,          \* the size of the block packet_buffer points to
  f_pos,             \* the position of each open file of the device
  chunks,            \* how many chunks each client has sent
  resp,              \* history: what the thread sent back
  from,              \* history: the position its answer starts at
  answered,          \* history: threads that read to the end of the contents
  overrun,           \* history: threads from whose answer a command has been pushed out
  stray              \* history: whether a connection's descriptor was closed by another

device == <<lines, tail, ok>>
mainvars == <<main_pc, head, todo, freed, accept_fd>>
signals == <<g_exit_flag, handler>>
locals == <<my_client, data_fd, my_file_read, is_done, sock, packet, capacity>>
reading == <<resp, from, answered, overrun>>
history == <<reading, stray>>
vars == <<device, mainvars, signals, g_write_mutex, fds, pc, locals, f_pos, chunks, history>>

Dev == INSTANCE LineDevice WITH Packets <- {}

-----------------------------------------------------------------------------
(* Descriptors, as the kernel hands them out: the lowest free number.      *)

Fds == 0 .. MaxFds - 1

(* What a descriptor may refer to. *)
Listener == <<"listen", NULL>>
Reserved == <<"reserved", NULL>>     \* taken by an accept that has not returned
Socket(c) == <<"client", c>>
DataFile(c) == <<"data", c>>
ReadFile(c) == <<"read", c>>
Closed == <<"closed", NULL>>

FreeFds == {fd \in Fds : fds[fd] = NULL}

(* The file a descriptor leads to when a call uses it. *)
File(fd) == IF fd \in Fds /\ fds[fd] # NULL THEN fds[fd] ELSE Closed

IsDevice(file) == file[1] \in {"data", "read"}

Descriptor(what) ==
  /\ FreeFds # {}
  /\ fds' = [fds EXCEPT ![Min(FreeFds)] = what]

(* close(fd) by the thread of c, or by main on behalf of c: it closes what *)
(* the number refers to now.  A reserved number or none is an error.       *)
Close(c, fd) ==
  LET file == File(fd)
  IN  /\ fds' = IF file \in {Closed, Reserved} THEN fds ELSE [fds EXCEPT ![fd] = NULL]
      /\ stray' = (stray \/ file[2] \notin {NULL, c})

Init ==
  /\ Dev!Init
  /\ main_pc = "start" /\ head = << >> /\ todo = << >> /\ freed = {} /\ accept_fd = -1
  /\ g_exit_flag = FALSE /\ handler = "none"
  /\ g_write_mutex = NULL
  /\ fds = [fd \in Fds |-> NULL]
  /\ pc = [c \in Clients |-> "none"]
  /\ my_client = [c \in Clients |-> -1]
  /\ data_fd = [c \in Clients |-> -1]
  /\ my_file_read = [c \in Clients |-> -1]
  /\ is_done = [c \in Clients |-> FALSE]
  /\ sock = [c \in Clients |-> Closed]
  /\ packet = [c \in Clients |-> << >>]
  /\ capacity = [c \in Clients |-> 0]
  /\ f_pos = [x \in {"data", "read"} \X Clients |-> 0]
  /\ chunks = [c \in Clients |-> 0]
  /\ resp = [c \in Clients |-> << >>]
  /\ from = [c \in Clients |-> 0]
  /\ answered = {} /\ overrun = {} /\ stray = FALSE

Goto(c, place) == pc' = [pc EXCEPT ![c] = place]

Alive == main_pc \notin {"done", "killed"}

-----------------------------------------------------------------------------
(* signal_handler, for SIGINT and SIGTERM: it runs on any thread, and the   *)
(* others may see the shutdown of the listening socket before the flag.     *)

SignalShutdown ==
  /\ handler = "none" /\ MaxSignals > 0 /\ Alive /\ main_pc # "start"
  /\ handler' = "shutdown"
  /\ UNCHANGED <<device, mainvars, g_exit_flag, g_write_mutex, fds, pc, locals, f_pos, chunks,
                 history>>

SignalFlag ==
  /\ handler = "shutdown" /\ Alive
  /\ handler' = "done" /\ g_exit_flag' = TRUE
  /\ UNCHANGED <<device, mainvars, g_write_mutex, fds, pc, locals, f_pos, chunks, history>>

(* Before there is a socket there is only the main thread to run it. *)
SignalEarly ==
  /\ handler = "none" /\ MaxSignals > 0 /\ main_pc = "start"
  /\ handler' = "done" /\ g_exit_flag' = TRUE
  /\ UNCHANGED <<device, mainvars, g_write_mutex, fds, pc, locals, f_pos, chunks, history>>

-----------------------------------------------------------------------------
(* main *)

MainGoto(place) ==
  /\ main_pc' = place
  /\ UNCHANGED <<device, signals, g_write_mutex, locals, f_pos, chunks, reading>>

(* socket, bind, listen and, for a daemon, fork and what follows it. *)
Start ==
  /\ main_pc = "start"
  /\ Descriptor(Listener)
  /\ MainGoto("top")
  /\ UNCHANGED <<head, todo, freed, accept_fd, pc, stray>>

(* The top of the accept loop: malloc of an entry, then the call of accept, *)
(* which reserves a descriptor before it waits.                             *)
MainTop ==
  /\ main_pc = "top"
  /\ \/ /\ g_exit_flag \/ FreeFds = {} \/ "malloc" \in Faults
        /\ MainGoto("exit")
        /\ UNCHANGED <<fds, accept_fd>>
     \/ /\ ~g_exit_flag
        /\ Descriptor(Reserved)
        /\ accept_fd' = Min(FreeFds)
        /\ MainGoto("accept")
  /\ UNCHANGED <<head, todo, freed, pc, stray>>

(* accept returns a connection, whose entry goes to the head of the list. *)
Accept(c) ==
  /\ main_pc = "accept" /\ handler = "none" /\ pc[c] = "none"
  /\ fds' = [fds EXCEPT ![accept_fd] = Socket(c)]
  /\ my_client' = [my_client EXCEPT ![c] = accept_fd]
  /\ pc' = [pc EXCEPT ![c] = "accepted"]
  /\ head' = <<c>> \o head
  /\ main_pc' = "create"
  /\ UNCHANGED <<device, todo, freed, accept_fd, signals, g_write_mutex, data_fd, my_file_read,
                 is_done, sock, packet, capacity, f_pos, chunks, history>>

(* accept fails: the listening socket has been shut down, or an error of the *)
(* connection is reported here.                                              *)
AcceptFails ==
  /\ main_pc = "accept" /\ (handler # "none" \/ "accept" \in Faults)
  /\ fds' = [fds EXCEPT ![accept_fd] = NULL]
  /\ MainGoto("exit")
  /\ UNCHANGED <<head, todo, freed, accept_fd, pc, stray>>

(* Mutant of Create: the entry is freed and stays on the list. *)
CreateFailsOnList ==
  LET c == Head(head)
  IN
  /\ main_pc = "create"
  /\ \/ Goto(c, "open") /\ MainGoto("reap") /\ todo' = head /\ UNCHANGED <<head, freed>>
     \/ /\ "create" \in Faults
        /\ Goto(c, "refused") /\ MainGoto("top")
        /\ freed' = freed \cup {c}
        /\ UNCHANGED <<head, todo>>
  /\ UNCHANGED <<fds, accept_fd, stray>>

(* pthread_create for the connection just accepted; when it fails the entry *)
(* goes, and nobody closes the connection.                                  *)
Create ==
  LET c == Head(head)
  IN
  /\ main_pc = "create"
  /\ \/ /\ Goto(c, "open")
        /\ MainGoto("reap")
        /\ todo' = head
        /\ UNCHANGED <<head, freed>>
     \/ /\ "create" \in Faults
        /\ Goto(c, "refused")
        /\ MainGoto("top")
        /\ head' = Tail(head) /\ freed' = freed \cup {c}
        /\ UNCHANGED todo
  /\ UNCHANGED <<fds, accept_fd, stray>>

(* SLIST_REMOVE: the first entry that is c's is unlinked; there has to be one. *)
Unlink(list, c) == RemoveAt(list, CHOOSE i \in DOMAIN list : list[i] = c)

(* pthread_join of the first thread still to visit, and the end of its entry. *)
Joined(c) ==
  /\ pc[c] = "dead"
  /\ head' = Unlink(head, c) /\ freed' = freed \cup {c}

(* Mutant of Reap: it frees the entry of a thread that is done without joining it. *)
ReapWithoutJoin ==
  /\ main_pc = "reap" /\ todo # << >>
  /\ LET c == Head(todo)
     IN  \/ ~is_done[c] /\ UNCHANGED <<head, freed>>
         \/ is_done[c] /\ head' = Unlink(head, c) /\ freed' = freed \cup {c}
  /\ todo' = Tail(todo)
  /\ MainGoto("reap")
  /\ UNCHANGED <<fds, accept_fd, pc, stray>>

(* One turn of the loop that joins completed threads. *)
Reap ==
  /\ main_pc = "reap" /\ todo # << >>
  /\ LET c == Head(todo)
     IN  \/ ~is_done[c] /\ UNCHANGED <<head, freed>>
         \/ is_done[c] /\ Joined(c)
  /\ todo' = Tail(todo)
  /\ MainGoto("reap")
  /\ UNCHANGED <<fds, accept_fd, pc, stray>>

ReapDone ==
  /\ main_pc = "reap" /\ todo = << >>
  /\ MainGoto("top")
  /\ UNCHANGED <<head, todo, freed, fds, accept_fd, pc, stray>>

(* "Caught signal, exiting" *)
Exit ==
  /\ main_pc = "exit"
  /\ todo' = head
  /\ MainGoto("join")
  /\ UNCHANGED <<head, freed, fds, accept_fd, pc, stray>>

(* One turn of the last loop: join, and close the connection's descriptor, *)
(* which the thread has closed already.                                    *)
Join ==
  /\ main_pc = "join" /\ todo # << >>
  /\ Joined(Head(todo))
  /\ Close(Head(todo), my_client[Head(todo)])
  /\ todo' = Tail(todo)
  /\ MainGoto("join")
  /\ UNCHANGED <<accept_fd, pc>>

(* Mutant of JoinDone: main leaves without waiting for the threads. *)
JoinSkipped ==
  /\ main_pc = "join"
  /\ MainGoto("done")
  /\ UNCHANGED <<head, todo, freed, fds, accept_fd, pc, stray>>

(* cleanup, and the end of the process. *)
JoinDone ==
  /\ main_pc = "join" /\ todo = << >>
  /\ MainGoto("done")
  /\ UNCHANGED <<head, todo, freed, fds, accept_fd, pc, stray>>

(* A call in the start-up fails: cleanup, and main returns. *)
StartFails ==
  /\ main_pc = "start"
  /\ MainGoto("done")
  /\ UNCHANGED <<head, todo, freed, fds, accept_fd, pc, stray>>

Main ==
  \/ Start \/ StartFails \/ MainTop \/ AcceptFails \/ Create
  \/ Reap \/ ReapDone \/ Exit \/ Join \/ JoinDone

-----------------------------------------------------------------------------
(* handle_connection and thread_connection_wrapper, for the connection c.  *)

HasNewline(bytes) == NL \in Range(bytes)

IsSeek(bytes) == Len(bytes) > 0 /\ bytes[1] = SEEK

WellFormed(bytes) == Len(bytes) > 1 /\ bytes[2] \in SeekArgs

(* A seek command that is complete and has no arguments that sscanf finds. *)
Malformed(bytes) == HasNewline(bytes) /\ IsSeek(bytes) /\ ~WellFormed(bytes)

(* What sscanf may read: the arguments, or, as "%u" skips a newline and the *)
(* packet does not end in a null byte, whatever lies behind the packet.     *)
Parsed(bytes) == IF WellFormed(bytes) THEN {bytes[2]} ELSE SeekArgs

(* The data file of the connection.  The parameter g_my_file_write hides the *)
(* global, which stays -1, so every thread opens a file of its own.          *)
OpenData(c) ==
  /\ pc[c] = "open"
  /\ \/ /\ Descriptor(DataFile(c))
        /\ data_fd' = [data_fd EXCEPT ![c] = Min(FreeFds)]
        /\ f_pos' = [f_pos EXCEPT ![DataFile(c)] = 0]
        /\ Goto(c, "loop")
     \/ /\ FreeFds = {} \/ "open" \in Faults
        /\ Goto(c, "wrap")
        /\ UNCHANGED <<fds, data_fd, f_pos>>
  /\ UNCHANGED <<device, mainvars, signals, g_write_mutex, my_client, my_file_read, is_done, sock,
                 packet, capacity, chunks, history>>

(* The top of the loop: the exit flag, the packet buffer, and the call of    *)
(* recv, which looks its descriptor up once, before it waits.                *)
Loop(c) ==
  /\ pc[c] = "loop"
  /\ \/ /\ ~g_exit_flag
        /\ Goto(c, "recv")
        /\ sock' = [sock EXCEPT ![c] = File(my_client[c])]
        /\ capacity' = [capacity EXCEPT ![c] = IF packet[c] = << >> THEN BufferSize ELSE @]
     \/ /\ g_exit_flag \/ (packet[c] = << >> /\ "malloc" \in Faults)
        /\ Goto(c, "finish")
        /\ UNCHANGED <<sock, capacity>>
  /\ UNCHANGED <<device, mainvars, signals, g_write_mutex, fds, my_client, data_fd, my_file_read,
                 is_done, packet, f_pos, chunks, history>>

(* recv returns a chunk of what the peer d has sent, and it is stored behind *)
(* the packet, whether there is room for it or not.  Without a newline the   *)
(* buffer is to be extended; a seek command that does not parse goes on with *)
(* the bytes kept and the block as it is.                                    *)
RecvFrom(c, d, chunk) ==
  LET bytes == packet[c] \o chunk
  IN
  /\ pc[c] = "recv" /\ sock[c] = Socket(d)
  /\ chunks[d] < MaxChunks
  /\ chunks' = [chunks EXCEPT ![d] = @ + 1]
  /\ packet' = [packet EXCEPT ![c] = bytes]
  /\ \/ ~HasNewline(bytes) /\ Goto(c, "extend")
     \/ HasNewline(bytes) /\ ~IsSeek(bytes) /\ Goto(c, "lock")
     \/ HasNewline(bytes) /\ IsSeek(bytes) /\ Parsed(bytes) # {} /\ Goto(c, "ioctl")
     \/ Malformed(bytes) /\ Goto(c, "loop")
  /\ UNCHANGED <<device, mainvars, signals, g_write_mutex, fds, my_client, data_fd, my_file_read,
                 is_done, sock, capacity, f_pos, history>>

(* Mutant of Extended: the buffer grows by a half. *)
ExtendedByHalf(length) == (length * 3) \div 2

(* realloc(packet_buffer, packet_length * 2) *)
Extended(length) == length * 2

(* The extension of the packet buffer, or the end of the loop when it fails. *)
Extend(c) ==
  /\ pc[c] = "extend"
  /\ \/ capacity' = [capacity EXCEPT ![c] = Extended(Len(packet[c]))] /\ Goto(c, "loop")
     \/ "malloc" \in Faults /\ Goto(c, "finish") /\ UNCHANGED capacity
  /\ UNCHANGED <<device, mainvars, signals, g_write_mutex, fds, my_client, data_fd, my_file_read,
                 is_done, sock, packet, f_pos, chunks, history>>

(* recv returns 0 or an error: the peer has closed, or there is no socket. *)
RecvEnds(c) ==
  /\ pc[c] = "recv"
  /\ Goto(c, "finish")
  /\ UNCHANGED <<device, mainvars, signals, g_write_mutex, fds, locals, f_pos, chunks, history>>

(* pthread_mutex_lock(&g_write_mutex) *)
Lock(c) ==
  /\ pc[c] = "lock" /\ g_write_mutex = NULL
  /\ g_write_mutex' = c
  /\ Goto(c, "write")
  /\ UNCHANGED <<device, mainvars, signals, fds, locals, f_pos, chunks, history>>

(* The threads that have written or sought and not yet read to the end: a    *)
(* write of another that pushes commands out takes them from their answers.  *)
Readers == {c \in Clients : pc[c] \in {"openr", "readback", "seekread"}}

(* What the write does: the device stores the packet, and the position of  *)
(* its file moves on; or it fails.  The number of the data file may have   *)
(* become the socket of another client, who is then sent the packet.       *)
WriteSucceeds(c) ==
  LET file == File(data_fd[c])
  IN  \/ /\ file[1] = "data" /\ Dev!Write(packet[c])
         /\ f_pos' = [f_pos EXCEPT ![file] = @ + Len(packet[c])]
      \/ file[1] = "client" /\ UNCHANGED <<device, f_pos>>

WriteFails(c) ==
  LET file == File(data_fd[c])
  IN  /\ \/ file[1] = "data" /\ "write" \in Faults /\ Dev!FailedWrite(packet[c])
         \/ file[1] = "client" /\ "send" \in Faults /\ UNCHANGED device
         \/ file[1] \notin {"data", "client"} /\ UNCHANGED device
      /\ UNCHANGED f_pos

(* The history of the threads that are reading. *)
NoteReaders == overrun' = IF IsPrefix(lines, lines') THEN overrun ELSE overrun \cup Readers

(* Mutant of Write: a write that fails leaves without the unlock. *)
WriteFailsLocked(c) ==
  /\ pc[c] = "write"
  /\ \/ WriteSucceeds(c) /\ Goto(c, "openr") /\ g_write_mutex' = NULL
     \/ WriteFails(c) /\ Goto(c, "finish") /\ UNCHANGED g_write_mutex
  /\ NoteReaders
  /\ UNCHANGED <<mainvars, signals, fds, locals, chunks, resp, from, answered, stray>>

(* The write of the packet to the device, and the unlock that follows it    *)
(* whether it succeeds or fails.                                            *)
Write(c) ==
  /\ pc[c] = "write"
  /\ \/ WriteSucceeds(c) /\ Goto(c, "openr")
     \/ WriteFails(c) /\ Goto(c, "finish")
  /\ g_write_mutex' = NULL
  /\ NoteReaders
  /\ UNCHANGED <<mainvars, signals, fds, locals, chunks, resp, from, answered, stray>>

(* open of the device for reading, at the position start. *)
OpenReadAt(c, start) ==
  /\ pc[c] = "openr"
  /\ \/ /\ Descriptor(ReadFile(c))
        /\ my_file_read' = [my_file_read EXCEPT ![c] = Min(FreeFds)]
        /\ f_pos' = [f_pos EXCEPT ![ReadFile(c)] = start]
        /\ Goto(c, "readback")
     \/ /\ FreeFds = {} \/ "open" \in Faults
        /\ Goto(c, "finish")
        /\ UNCHANGED <<fds, my_file_read, f_pos>>
  /\ UNCHANGED <<device, mainvars, signals, g_write_mutex, my_client, data_fd, is_done, sock,
                 packet, capacity, chunks, history>>

(* Mutant of OpenRead: it reads on from where the write left the position. *)
OpenReadAfterWrite(c) == OpenReadAt(c, Len(packet[c]))

(* my_file_read = open(DATA_FILE_PATH, O_RDONLY) *)
OpenRead(c) == OpenReadAt(c, 0)

(* ioctl(g_my_file_write, AESDCHAR_IOCSEEKTO, &seekto) *)
Ioctl(c) ==
  LET file == File(data_fd[c])
      Lands(args) == IsDevice(file) /\ Dev!HasByte(args[1], args[2])
  IN
  /\ pc[c] = "ioctl"
  /\ \E args \in Parsed(packet[c]) :
       \/ /\ Lands(args)
          /\ f_pos' = [f_pos EXCEPT ![file] = Dev!Position(args[1], args[2])]
          /\ from' = [from EXCEPT ![c] = Dev!Position(args[1], args[2])]
          /\ Goto(c, "seekread")
       \/ /\ ~Lands(args)
          /\ Goto(c, "finish")
          /\ UNCHANGED <<f_pos, from>>
  /\ UNCHANGED <<device, mainvars, signals, g_write_mutex, fds, locals, chunks, resp,
                 answered, overrun, stray>>

-----------------------------------------------------------------------------
(* The two loops that read the device and send what they read.  A turn is  *)
(* one step: between the read and the send the thread shares nothing.      *)

(* The descriptor a reading thread reads from. *)
ReadFd(c) == IF pc[c] = "seekread" THEN data_fd[c] ELSE my_file_read[c]

(* A turn whose read returns bytes and whose send succeeds. *)
Relay(c) ==
  LET file == File(ReadFd(c))
      bytes == Dev!ReadAt(f_pos[file], BufferSize)
  IN
  /\ IsDevice(file) /\ bytes # << >>
  /\ File(my_client[c])[1] = "client"
  /\ resp' = [resp EXCEPT ![c] = @ \o bytes]
  /\ f_pos' = [f_pos EXCEPT ![file] = @ + Len(bytes)]
  /\ UNCHANGED <<device, mainvars, signals, g_write_mutex, fds, pc, locals, chunks, from,
                 answered, overrun, stray>>

(* A turn whose descriptor has become the socket of the client d: it waits *)
(* for that client and sends back what it says.                            *)
RelayForeign(c, d, chunk) ==
  /\ pc[c] \in {"readback", "seekread"}
  /\ File(ReadFd(c)) = Socket(d) /\ chunks[d] < MaxChunks
  /\ chunks' = [chunks EXCEPT ![d] = @ + 1]
  /\ resp' = [resp EXCEPT ![c] = @ \o chunk]
  /\ UNCHANGED <<device, mainvars, signals, g_write_mutex, fds, pc, locals, f_pos, from,
                 answered, overrun, stray>>

(* read returns 0: everything from the thread's position on has been sent. *)
AtEnd(c) ==
  /\ IsDevice(File(ReadFd(c))) /\ Dev!ReadAt(f_pos[File(ReadFd(c))], BufferSize) = << >>
  /\ answered' = answered \cup {c}

(* read fails, or it is on another client's socket and that client has closed. *)
ReadFails(c) == ~IsDevice(File(ReadFd(c)))

(* read returns bytes, and send is called with them. *)
Sends(c) ==
  IsDevice(File(ReadFd(c))) /\ Dev!ReadAt(f_pos[File(ReadFd(c))], BufferSize) # << >>

(* send fails, with the position moved: an error, or not the client's socket.  *)
(* So it may with what has been read from another client.                      *)
SendFails(c) ==
  /\ File(my_client[c])[1] # "client" \/ "send" \in Faults
  /\ \/ /\ Sends(c)
        /\ f_pos' = [f_pos EXCEPT ![File(ReadFd(c))] = @ + Len(Dev!ReadAt(@, BufferSize))]
     \/ File(ReadFd(c))[1] = "client" /\ UNCHANGED f_pos

SeekRead(c) ==
  /\ pc[c] = "seekread"
  /\ \/ Relay(c)
     \/ /\ Goto(c, "finish")
        /\ \/ AtEnd(c) /\ UNCHANGED f_pos
           \/ ReadFails(c) /\ UNCHANGED <<f_pos, answered>>
           \/ SendFails(c) /\ UNCHANGED answered
        /\ UNCHANGED <<device, mainvars, signals, g_write_mutex, fds, locals, chunks, resp, from,
                       overrun, stray>>

ReadBack(c) ==
  /\ pc[c] = "readback"
  /\ \/ Relay(c)
     \/ /\ Goto(c, "close")
        /\ \/ AtEnd(c) /\ UNCHANGED f_pos
           \/ ReadFails(c) /\ UNCHANGED <<f_pos, answered>>
        /\ UNCHANGED <<device, mainvars, signals, g_write_mutex, fds, locals, chunks, resp, from,
                       overrun, stray>>
     \/ /\ SendFails(c)        \* close, and my_file_read = -1
        /\ Close(c, my_file_read[c])
        /\ my_file_read' = [my_file_read EXCEPT ![c] = -1]
        /\ Goto(c, "close")
        /\ UNCHANGED <<device, mainvars, signals, g_write_mutex, my_client, data_fd, is_done, sock,
                       packet, capacity, chunks, reading>>

(* The end of the process by a signal nobody handles. *)
Kill ==
  /\ main_pc' = "killed"
  /\ pc' = [d \in Clients |-> IF pc[d] = "none" THEN "none" ELSE "killed"]
  /\ g_write_mutex' = NULL
  /\ UNCHANGED <<device, head, todo, freed, accept_fd, signals, fds, locals, f_pos, chunks,
                 history>>

(* send, or a write to what has become a socket, to a peer that has gone: SIGPIPE. *)
Sigpipe(c) ==
  /\ "sigpipe" \in Faults
  /\ \/ /\ pc[c] \in {"readback", "seekread"} /\ File(my_client[c])[1] = "client"
        /\ Sends(c) \/ File(ReadFd(c))[1] = "client"
     \/ pc[c] = "write" /\ File(data_fd[c])[1] = "client"
  /\ Kill

(* The packet has been stored beyond its block, and the next call that uses   *)
(* the allocator notices: the realloc, the report of a malformed seek, or the *)
(* free at the end.  If none does, the bytes stored are taken to be intact.   *)
HeapAbort(c) ==
  /\ pc[c] \in {"extend", "loop", "finish"} /\ Len(packet[c]) > capacity[c]
  /\ Kill

-----------------------------------------------------------------------------
(* The end of a connection. *)

CloseStep(c, fd, place) ==
  /\ Close(c, fd)
  /\ Goto(c, place)
  /\ UNCHANGED <<device, mainvars, signals, g_write_mutex, locals, f_pos, chunks, reading>>

(* close(my_file_read) after the loop; my_file_read keeps the number. *)
CloseRead(c) == pc[c] = "close" /\ CloseStep(c, my_file_read[c], "finish")

(* free(packet_buffer), and close(my_file_read) unless it is -1.  The locals  *)
(* of handle_connection end here, and so does the history of the connection.  *)
Finish(c) ==
  /\ pc[c] = "finish"
  /\ Close(c, my_file_read[c])
  /\ Goto(c, "wrap")
  /\ packet' = [packet EXCEPT ![c] = << >>] /\ capacity' = [capacity EXCEPT ![c] = 0]
  /\ sock' = [sock EXCEPT ![c] = Closed]
  /\ data_fd' = [data_fd EXCEPT ![c] = -1] /\ my_file_read' = [my_file_read EXCEPT ![c] = -1]
  /\ resp' = [resp EXCEPT ![c] = << >>] /\ from' = [from EXCEPT ![c] = 0]
  /\ answered' = answered \ {c} /\ overrun' = overrun \ {c}
  /\ f_pos' = [f_pos EXCEPT ![ReadFile(c)] = 0]     \* nobody has it open any more
  /\ UNCHANGED <<device, mainvars, signals, g_write_mutex, my_client, is_done, chunks>>

(* my_entry->is_done = true, before the last use of my_entry. *)
Wrap(c) ==
  /\ pc[c] = "wrap"
  /\ is_done' = [is_done EXCEPT ![c] = TRUE]
  /\ Goto(c, "closec")
  /\ UNCHANGED <<device, mainvars, signals, g_write_mutex, fds, my_client, data_fd, my_file_read,
                 sock, packet, capacity, f_pos, chunks, history>>

(* close(my_entry->my_client), and the thread returns. *)
CloseClient(c) == pc[c] = "closec" /\ CloseStep(c, my_client[c], "dead")

Recv(c) ==
  \/ \E d \in Clients, chunk \in Chunks : RecvFrom(c, d, chunk)
  \/ RecvEnds(c)
  \/ \E d \in Clients, chunk \in Chunks : RelayForeign(c, d, chunk)

(* The steps of a thread that do not wait for anybody. *)
Run(c) ==
  \/ OpenData(c) \/ Loop(c) \/ Extend(c) \/ Write(c) \/ OpenRead(c) \/ Ioctl(c)
  \/ SeekRead(c) \/ ReadBack(c)
  \/ CloseRead(c) \/ Finish(c) \/ Wrap(c) \/ CloseClient(c)

Next ==
  \/ SignalShutdown \/ SignalFlag \/ SignalEarly
  \/ Main
  \/ \E c \in Clients : Accept(c) \/ Recv(c) \/ Lock(c) \/ Run(c) \/ Sigpipe(c) \/ HeapAbort(c)

Spec == Init /\ [][Next]_vars

(* The scheduler runs every thread that can run, the handler included, and *)
(* nobody waits for ever for a mutex that is free again and again.  Nothing *)
(* is assumed of clients, who may never connect, send or close.            *)
FairSpec ==
  /\ Spec
  /\ WF_vars(Main) /\ WF_vars(SignalFlag)
  /\ \A c \in Clients : WF_vars(Run(c)) /\ SF_vars(Lock(c))

(* And every client that is connected sends or closes in the end. *)
CooperativeSpec == FairSpec /\ \A c \in Clients : WF_vars(Recv(c))

-----------------------------------------------------------------------------
(* An entry of the thread list is freed only when its thread has ended,    *)
(* although thread_connection_wrapper announces is_done before it uses the *)
(* entry for the last time; until then it is on the list exactly once, and *)
(* no loop of main has a freed entry still to visit.                       *)
EntriesOutliveThreads ==
  /\ \A c \in freed : pc[c] \in {"dead", "refused", "killed"}
  /\ Range(head) = {c \in Clients : pc[c] # "none"} \ freed
  /\ IsInjective(head)
  /\ main_pc \in {"reap", "join"} => Range(todo) \subseteq Range(head)

(* When main returns every thread has ended and every entry has been freed *)
(* ("Make sure all threads are joined and all memory is freed", :465; "All *)
(* heap blocks were freed -- no leaks are possible", valgrind-out.txt:123). *)
AllJoined ==
  main_pc = "done" =>
    /\ \A c \in Clients : pc[c] \in {"none", "refused", "dead"}
    /\ freed = {c \in Clients : pc[c] # "none"}

(* From twice INITIAL_BUFFER_SIZE bytes on, a packet fits its block in       *)
(* whatever pieces it has come and may go on coming: before its last piece   *)
(* it had at least as many bytes as a recv may add, so that twice its length *)
(* was enough ("No newline--extend the buffer to continue", :199).  Shorter  *)
(* packets in pieces may outgrow their block, and so may one that begins     *)
(* with a malformed seek, behind which the block is not extended any more.   *)
LongPacketsFit ==
  \A c \in Clients :
    (Len(packet[c]) >= 2 * BufferSize /\ ~Malformed(packet[c])) => Len(packet[c]) <= capacity[c]

(* The bytes t, one behind the other, are somewhere in s. *)
Within(t, s) == \E i \in 0 .. Len(s) - Len(t) : SubSeq(s, i + 1, i + Len(t)) = t

(* A thread that reads to the end has sent the entire contents of the device *)
(* as they are at that moment, and with them the last line of its own packet *)
(* (or, after a seek, all from the position sought): whatever other clients  *)
(* have added between the unlock (:168) and its last read, provided none of  *)
(* it has pushed a command out, and no thread has closed a descriptor of     *)
(* another's.                                                                *)
AnswerIsContents ==
  [][\A c \in answered' \ (answered \cup overrun) : ~stray =>
       /\ resp[c] = SubSeq(Dev!Contents, from[c] + 1, Len(Dev!Contents))
       /\ pc[c] = "readback" => from[c] = 0 /\ Within(Last(Dev!Commands(packet[c])), resp[c])]_vars

(* After SIGINT or SIGTERM, at any moment, main gets out of accept, no      *)
(* thread is left waiting for g_write_mutex, also when the write of the     *)
(* thread that held it failed, and main joins them all and returns ("Make   *)
(* sure all threads are joined and all memory is freed", :465).             *)
ShutdownCompletes == handler = "done" ~> ~Alive

-----------------------------------------------------------------------------
(* What comments and messages of the program say and the code does not do. *)

(* "read data from client, write it to a file, then send entire file       *)
(* contents back to client" (:85): a client that has sent a complete line, *)
(* which is not a seek, is answered.                                       *)
LinesAreAnswered ==
  \A c \in Clients :
    (pc[c] = "finish" /\ HasNewline(packet[c]) /\ ~IsSeek(packet[c])) => c \in answered

(* "Infinite loop to repeatedly accept and handle clients" (:410), left    *)
(* with the message "Caught signal, exiting" (:462): only for a signal.    *)
ExitsOnlyOnSignal == main_pc \in {"exit", "join", "killed"} => handler # "none"
=============================================================================
