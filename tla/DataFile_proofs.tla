---------------------------- MODULE DataFile_proofs ----------------------------
(***************************************************************************)
(* Proofs about the server on a data file, for every number of clients,    *)
(* any lines they send, any faults and any number of timer expirations.    *)
(***************************************************************************)
EXTENDS DataFile, TLAPS

(* The file is removed for good when nobody is left who could create it    *)
(* again: no connection, because main has joined them all or accepted none *)
(* (Lonely), and no handler, which runs on live threads only (OnLive),     *)
(* unless the timer expires while main is between remove and timer_delete: *)
(* then nothing but timestamps comes into the file.                        *)
Shapes == DOMAIN pc = Threads /\ DOMAIN handler = Threads

OnLive == \A t \in Threads : handler[t] # "none" => Alive(t)

Lonely ==
  pc[MAIN] \in {"start", "remove", "delete", "dead"} => \A c \in Clients : ~Alive(c)

Gone ==
  /\ pc[MAIN] = "dead" => ~timer
  /\ pc[MAIN] \in {"delete", "dead"} /\ ~late => file = NULL /\ handler[MAIN] = "none"
  /\ pc[MAIN] \in {"delete", "dead"} => file = NULL \/ file \in Seq({STAMP})

Inv == Shapes /\ OnLive /\ Lonely /\ Gone

-----------------------------------------------------------------------------
(* The server starts alone. *)
LEMMA InvInit == Init => Inv
BY DataFileAssumption
   DEF Init, Inv, Shapes, OnLive, Lonely, Gone, Threads, Alive

(* The timer expires on a thread that is alive, or its handler goes on. *)
LEMMA InvHandler ==
  ASSUME Inv, NEW t \in Threads, Alarm(t) \/ Handler(t)
  PROVE  Inv'
<1>. USE DataFileAssumption DEF Inv, Shapes, Threads
<1>1. CASE Alarm(t)
  <2>1. Shapes' /\ OnLive' /\ Lonely'
    BY <1>1 DEF Alarm, OnLive, Lonely, Alive
  <2>2. Gone'
    <3>1. pc[MAIN] = "dead" => FALSE
      BY <1>1 DEF Alarm, Gone
    <3>2. pc[MAIN] = "delete" => late'
      BY <1>1 DEF Alarm
    <3>3. QED
      BY <1>1, <3>1, <3>2 DEF Alarm, Gone
  <2>3. QED
    BY <2>1, <2>2
<1>2. CASE Handler(t)
  <2>1. handler[t] # "none" /\ Alive(t)
    BY <1>2 DEF Handler, StampLock, Stamp, StampUnlock, OnLive
  <2>2. UNCHANGED <<pc, timing>> /\ \E w : handler' = [handler EXCEPT ![t] = w]
    BY <1>2 DEF Handler, StampLock, Stamp, StampUnlock
  <2>3. Shapes' /\ OnLive' /\ Lonely'
    BY <2>1, <2>2 DEF OnLive, Lonely, Alive
  <2>4. pc[MAIN] \in {"delete", "dead"} => late
    BY <2>1 DEF Lonely, Alive, Gone
  <2>5. Gone'
    <3>1. file' = file \/ file' = Opened \/ file' = Opened \o <<STAMP>>
      BY <1>2 DEF Handler, StampLock, Stamp, StampUnlock, Stamped
    <3>2. ASSUME file = NULL \/ file \in Seq({STAMP})
          PROVE  file' = NULL \/ file' \in Seq({STAMP})
      <4>1. Opened \in Seq({STAMP}) /\ <<STAMP>> \in Seq({STAMP})
        BY <3>2 DEF Opened
      <4>2. Opened \o <<STAMP>> \in Seq({STAMP})
        BY <4>1
      <4>3. QED
        BY <3>1, <3>2, <4>1, <4>2
    <3>3. QED
      BY <2>2, <2>4, <3>2 DEF Gone, timing
  <2>6. QED
    BY <2>3, <2>5
<1>3. QED
  BY <1>1, <1>2

(* main: it removes the file when the connections have ended, and ends when *)
(* no handler has interrupted it.                                           *)
LEMMA InvMain ==
  ASSUME Inv, Main
  PROVE  Inv'
<1>. USE DataFileAssumption DEF Inv, Shapes, Threads, At, Goto, timing
<1>1. CASE Start
  BY <1>1 DEF Start, OnLive, Lonely, Gone, Alive
<1>2. CASE LeaveLoop
  BY <1>2 DEF LeaveLoop, OnLive, Lonely, Gone, Alive
<1>3. CASE Join
  BY <1>3 DEF Join, OnLive, Lonely, Gone, Alive
<1>4. CASE RemoveFile
  BY <1>4 DEF RemoveFile, OnLive, Lonely, Gone, Alive
<1>5. CASE DeleteTimer
  BY <1>5 DEF DeleteTimer, OnLive, Lonely, Gone, Alive
<1>6. QED
  BY <1>1, <1>2, <1>3, <1>4, <1>5 DEF Main

(* A connection is accepted, or its thread goes on: main is not at its end. *)
LEMMA InvConnection ==
  ASSUME Inv, NEW c \in Clients, Accept(c) \/ Connection(c)
  PROVE  Inv'
<1>. USE DataFileAssumption DEF Inv, Shapes, Threads
<1>1. CASE Accept(c)
  BY <1>1 DEF Accept, At, Goto, OnLive, Lonely, Gone, Alive, timing
<1>2. CASE Connection(c)
  <2>1. /\ handler[c] = "none" /\ Alive(c)
        /\ UNCHANGED <<handler, timing>>
        /\ pc' = pc \/ \E place : pc' = [pc EXCEPT ![c] = place]
    <3>. USE DEF At, Goto, Alive
    <3>1. CASE Open(c) \/ Recv(c) \/ Lock(c)
      BY <3>1 DEF Open, Recv, Lock
    <3>2. CASE Write(c) \/ Unlock(c)
      BY <3>2 DEF Write, Unlock
    <3>3. CASE OpenRead(c) \/ Read(c) \/ Close(c)
      BY <3>3 DEF OpenRead, Read, Close
    <3>4. QED
      BY <1>2, <3>1, <3>2, <3>3 DEF Connection
  <2>2. pc[MAIN] \notin {"start", "remove", "delete", "dead"} /\ pc'[MAIN] = pc[MAIN]
    BY <2>1 DEF Lonely
  <2>3. Shapes' /\ OnLive'
    BY <2>1 DEF OnLive, Alive
  <2>4. Lonely' /\ Gone'
    BY <2>2 DEF Lonely, Gone
  <2>5. QED
    BY <2>3, <2>4
<1>3. QED
  BY <1>1, <1>2

(* SIGPIPE ends every thread while main waits for one of them. *)
LEMMA InvSigpipe ==
  ASSUME Inv, NEW c \in Clients, Sigpipe(c)
  PROVE  Inv'
<1>1. Shapes' /\ OnLive'
  BY DEF Sigpipe, Shapes, OnLive, Threads
<1>2. \A t \in Threads : pc'[t] = pc[t] \/ pc'[t] = "killed"
  BY DEF Sigpipe
<1>4. pc[MAIN] \notin {"start", "remove", "delete", "dead"}
  BY DEF Sigpipe, At, Inv, Lonely, Alive
<1>5. pc'[MAIN] \notin {"start", "remove", "delete", "dead"}
  BY <1>2, <1>4 DEF Threads
<1>6. QED
  BY <1>1, <1>5 DEF Inv, Lonely, Gone

-----------------------------------------------------------------------------
(* cleanup leaves nothing of what clients have sent behind: the data file   *)
(* is gone, or holds timestamps, when the timer has expired between its     *)
(* remove and its timer_delete.                                             *)
THEOREM FileAlwaysRemoved == Spec => []FileRemoved
<1>1. Inv /\ [Next]_vars => Inv'
  <2>. SUFFICES ASSUME Inv, [Next]_vars
                PROVE  Inv'
    OBVIOUS
  <2>1. ASSUME NEW t \in Threads, Alarm(t) \/ Handler(t)
        PROVE  Inv'
    BY <2>1, InvHandler
  <2>2. CASE Main
    BY <2>2, InvMain
  <2>3. ASSUME NEW c \in Clients, Accept(c) \/ Connection(c)
        PROVE  Inv'
    BY <2>3, InvConnection
  <2>4. CASE Signal
    BY <2>4 DEF Signal, Inv, Shapes, OnLive, Lonely, Gone, Alive, timing
  <2>5. CASE UNCHANGED vars
    BY <2>5 DEF vars, Inv, Shapes, OnLive, Lonely, Gone, Alive, timing
  <2>6. ASSUME NEW c \in Clients, Sigpipe(c)
        PROVE  Inv'
    BY <2>6, InvSigpipe
  <2>7. QED
    BY <2>1, <2>2, <2>3, <2>4, <2>5, <2>6 DEF Next
<1>2. Inv => FileRemoved
  BY DEF Inv, Gone, FileRemoved
<1>3. QED
  BY InvInit, <1>1, <1>2, PTL DEF Spec

-----------------------------------------------------------------------------
(* Sequences: s is how t begins, symbol by symbol. *)
Starts(s, t) == Len(s) <= Len(t) /\ \A i \in 1 .. Len(s) : t[i] = s[i]

(* An append leaves the beginning alone. *)
LEMMA StartsAppend ==
  ASSUME NEW S, NEW s \in Seq(S), NEW t \in Seq(S), NEW u \in Seq(S), Starts(s, t)
  PROVE  Starts(s, t \o u)
BY DEF Starts

(* What is written at the position 0 is how the file begins. *)
LEMMA StartsConcat ==
  ASSUME NEW S, NEW s \in Seq(S), NEW u \in Seq(S)
  PROVE  Starts(s, s \o u)
BY DEF Starts

(* IsPrefix of the community modules says the same. *)
LEMMA StartsIsPrefix ==
  ASSUME NEW S, NEW s \in Seq(S), NEW t \in Seq(S), Starts(s, t)
  PROVE  IsPrefix(s, t)
<1>1. SubSeq(s, 1, Len(s)) = SubSeq(t, 1, Len(s))
  BY DEF Starts
<1>2. QED
  BY <1>1 DEF Starts, IsPrefix

(* A beginning of the whole length is the whole. *)
LEMMA StartsWhole ==
  ASSUME NEW S, NEW s \in Seq(S), NEW t \in Seq(S), Starts(s, t), Len(s) = Len(t)
  PROVE  s = t
BY DEF Starts

(* The Min of the community modules, of two. *)
LEMMA MinOfTwo ==
  ASSUME NEW a \in Int, NEW b \in Int
  PROVE  Min({a, b}) = IF a <= b THEN a ELSE b
<1>1. \E m \in {a, b} : \A k \in {a, b} : m <= k
  BY SMT
<1>2. Min({a, b}) \in {a, b} /\ \A k \in {a, b} : Min({a, b}) <= k
  BY <1>1 DEF Min
<1>3. QED
  BY <1>2, SMT

(* What follows r in t makes a longer beginning of t. *)
LEMMA StartsOn ==
  ASSUME NEW S, NEW r \in Seq(S), NEW t \in Seq(S), NEW u \in Seq(S), Starts(r, t),
         Len(r) + Len(u) <= Len(t),
         \A i \in 1 .. Len(u) : u[i] = t[Len(r) + i]
  PROVE  Starts(r \o u, t)
<1>1. Len(r \o u) = Len(r) + Len(u)
  OBVIOUS
<1>2. ASSUME NEW i \in 1 .. Len(r \o u)
      PROVE  t[i] = (r \o u)[i]
  <2>1. CASE i <= Len(r)
    BY <2>1 DEF Starts
  <2>2. CASE i > Len(r)
    <3>1. PICK k \in 1 .. Len(u) : i = Len(r) + k
      <4>1. i - Len(r) \in 1 .. Len(u) /\ i = Len(r) + (i - Len(r))
        BY <1>1, <2>2
      <4>2. QED
        BY <4>1
    <3>2. (r \o u)[i] = u[k]
      BY <2>2, <3>1
    <3>3. QED
      BY <3>1, <3>2
  <2>3. QED
    BY <2>1, <2>2
<1>3. QED
  BY <1>1, <1>2 DEF Starts

-----------------------------------------------------------------------------
(* The answer.  A connection's line is the beginning of the file from its   *)
(* write until another writes, which is noticed (overwritten) unless it     *)
(* happens before the mutex is given back: so the mutex must work           *)
(* (MutexOwned).  What is sent so far is the beginning of the file too, and *)
(* its length is the position of the reader.                                *)
Symbols == Bytes \cup {STAMP}

Writing == {"write", "unlock", "fail"}

MutexOwned ==
  /\ \A c \in Clients : pc[c] \in Writing => g_write_mutex = c
  /\ \A t \in Threads : handler[t] \in {"append", "unlock"} => g_write_mutex = t
  /\ \A c \in Clients : pc[c] \in Writing => handler[c] \notin {"append", "unlock"}

Typed ==
  /\ file \in Seq(Symbols) \cup {NULL}
  /\ f_pos \in [Clients -> Nat]
  /\ resp \in [Clients -> Seq(Symbols)]

FileThere ==
  \A c \in Clients :
    pc[c] \in Writing \cup {"recv", "lock", "openr", "read"} => file # NULL

LineFirst ==
  \A c \in Clients :
    pc[c] \in {"unlock", "openr", "read"} /\ c \notin overwritten => Starts(packet[c], file)

ReadSoFar ==
  \A c \in Clients :
    /\ pc[c] = "read" /\ c \notin overwritten
         => Len(resp[c]) = f_pos[c] /\ Starts(resp[c], file)
    /\ pc[c] \notin {"read", "close", "killed"} => f_pos[c] = 0 /\ resp[c] = << >>

AnswerInv == Inv /\ MutexOwned /\ Typed /\ FileThere /\ LineFirst /\ ReadSoFar

(* At first there is no connection, and no file or one left behind. *)
LEMMA AnswerInit == Init => AnswerInv
<1>. SUFFICES ASSUME Init PROVE AnswerInv
  OBVIOUS
<1>1. Inv
  BY InvInit
<1>2. Typed
  BY DataFileAssumption DEF Init, Typed, Symbols
<1>3. MutexOwned /\ FileThere /\ LineFirst /\ ReadSoFar
  BY DataFileAssumption
     DEF Init, MutexOwned, FileThere, LineFirst, ReadSoFar, Writing, Threads
<1>4. QED
  BY <1>1, <1>2, <1>3 DEF AnswerInv

(* A step that leaves the connections where they are, and the file too or   *)
(* longer, leaves their part alone.                                         *)
LEMMA AnswerElsewhere ==
  ASSUME Typed, FileThere, LineFirst, ReadSoFar,
         UNCHANGED connection, \A c \in Clients : pc'[c] = pc[c],
         file' = file \/ \E u \in Seq(Symbols) : file' = Opened \o u
  PROVE  Typed' /\ FileThere' /\ LineFirst' /\ ReadSoFar'
<1>. USE DataFileAssumption DEF connection
<1>1. CASE file' = file
  BY <1>1 DEF Typed, FileThere, LineFirst, ReadSoFar, Writing
<1>2. ASSUME NEW u \in Seq(Symbols), file' = Opened \o u
      PROVE  Typed' /\ FileThere' /\ LineFirst' /\ ReadSoFar'
  <2>1. Opened \in Seq(Symbols) /\ file' \in Seq(Symbols) /\ file' # NULL
    <3>1. Opened \in Seq(Symbols)
      BY DEF Opened, Typed
    <3>2. Opened \o u \in Seq(Symbols)
      BY <3>1
    <3>3. QED
      BY <1>2, <3>1, <3>2 DEF Symbols
  <2>2. Typed' /\ FileThere'
    BY <2>1 DEF Typed, FileThere
  <2>3. ASSUME NEW c \in Clients, pc[c] \in {"unlock", "openr", "read"}, c \notin overwritten
        PROVE  Starts(packet[c], file')
    <3>1. Starts(packet[c], Opened) /\ packet[c] \in Seq(Symbols)
      BY <2>3 DEF FileThere, LineFirst, Opened, Writing, Symbols
    <3>2. QED
      BY <1>2, <2>1, <3>1, StartsAppend
  <2>4. ASSUME NEW c \in Clients, pc[c] = "read", c \notin overwritten
        PROVE  Starts(resp[c], file')
    <3>1. Starts(resp[c], Opened) /\ resp[c] \in Seq(Symbols)
      BY <2>4 DEF FileThere, ReadSoFar, Opened, Typed
    <3>2. QED
      BY <1>2, <2>1, <3>1, StartsAppend
  <2>5. LineFirst' /\ ReadSoFar'
    BY <2>3, <2>4 DEF LineFirst, ReadSoFar
  <2>6. QED
    BY <2>2, <2>5
<1>3. QED
  BY <1>1, <1>2

(* The handler appends with the mutex held, or leaves the file empty or as  *)
(* it is; it unlocks its own.                                               *)
LEMMA AnswerHandler ==
  ASSUME AnswerInv, NEW t \in Threads, Alarm(t) \/ Handler(t)
  PROVE  AnswerInv'
<1>1. Inv'
  BY InvHandler DEF AnswerInv
<1>2. UNCHANGED <<pc, connection>>
  BY DEF Alarm, Handler, StampLock, Stamp, StampUnlock
<1>3. MutexOwned'
  <2>. USE DataFileAssumption DEF AnswerInv, Inv, Shapes, MutexOwned, Threads, Writing
  <2>1. CASE Alarm(t)
    BY <2>1 DEF Alarm
  <2>2. CASE StampLock(t)
    BY <2>2 DEF StampLock
  <2>3. CASE Stamp(t)
    BY <2>3 DEF Stamp
  <2>4. CASE StampUnlock(t)
    BY <2>4 DEF StampUnlock
  <2>5. QED
    BY <2>1, <2>2, <2>3, <2>4 DEF Handler
<1>4. file' = file \/ \E u \in Seq(Symbols) : file' = Opened \o u
  <2>1. CASE Stamp(t)
    <3>1. << >> \in Seq(Symbols) /\ <<STAMP>> \in Seq(Symbols)
      BY DEF Symbols
    <3>2. Opened \in Seq(Symbols)
      BY DEF AnswerInv, Typed, Opened
    <3>3. Opened = Opened \o << >>
      BY <3>2
    <3>4. QED
      BY <2>1, <3>1, <3>3 DEF Stamp, Stamped
  <2>2. CASE ~Stamp(t)
    BY <2>2 DEF Alarm, Handler, StampLock, StampUnlock
  <2>3. QED
    BY <2>1, <2>2
<1>5. QED
  BY <1>1, <1>2, <1>3, <1>4, AnswerElsewhere DEF AnswerInv

(* main removes the file when no connection is left to miss it. *)
LEMMA AnswerMain ==
  ASSUME AnswerInv, Main \/ Signal
  PROVE  AnswerInv'
<1>1. Inv'
  <2>1. CASE Main
    BY <2>1, InvMain DEF AnswerInv
  <2>2. CASE Signal
    BY <2>2 DEF Signal, AnswerInv, Inv, Shapes, OnLive, Lonely, Gone, Alive, timing
  <2>3. QED
    BY <2>1, <2>2
<1>2. /\ UNCHANGED <<connection, g_write_mutex, handler>>
      /\ \A c \in Clients : pc'[c] = pc[c]
  BY DataFileAssumption
     DEF Main, Start, LeaveLoop, Join, RemoveFile, DeleteTimer, Signal, At, Goto,
         AnswerInv, Inv, Shapes, Threads
<1>3. MutexOwned'
  BY <1>2 DEF AnswerInv, MutexOwned
<1>4. CASE RemoveFile
  <2>1. file' = NULL /\ \A c \in Clients : pc[c] \in {"none", "dead", "killed"}
    BY <1>4 DEF RemoveFile, At, AnswerInv, Inv, Lonely, Alive
  <2>2. Typed' /\ FileThere' /\ LineFirst' /\ ReadSoFar'
    BY <1>2, <2>1
       DEF AnswerInv, Typed, FileThere, LineFirst, ReadSoFar, Writing, connection
  <2>3. QED
    BY <1>1, <1>3, <2>2 DEF AnswerInv
<1>5. CASE file' = file
  BY <1>1, <1>2, <1>3, <1>5, AnswerElsewhere DEF AnswerInv
<1>6. QED
  BY <1>4, <1>5 DEF Main, Start, LeaveLoop, Join, DeleteTimer, Signal

-----------------------------------------------------------------------------
(* The write of a packet, or of its beginning, at the position 0. *)
LEMMA OverwrittenStarts ==
  ASSUME Typed, file # NULL, NEW bytes \in Seq(Symbols)
  PROVE  /\ Overwritten(bytes) \in Seq(Symbols)
         /\ Starts(bytes, Overwritten(bytes))
<1> DEFINE rest == SubSeq(file, Len(bytes) + 1, Len(file))
<1>1. rest \in Seq(Symbols)
  BY DEF Typed
<1>2. Overwritten(bytes) = bytes \o rest
  BY DEF Overwritten
<1> HIDE DEF rest
<1>3. QED
  BY <1>1, <1>2, StartsConcat

(* The writer holds the mutex, so nobody else is between a write and the    *)
(* unlock behind it; who has written before is overwritten from now on.     *)
LEMMA AnswerWrite ==
  ASSUME AnswerInv, NEW c \in Clients, Write(c)
  PROVE  MutexOwned' /\ Typed' /\ FileThere' /\ LineFirst' /\ ReadSoFar'
<1>. USE DataFileAssumption
<1>1. /\ pc[c] = "write" /\ handler[c] = "none" /\ file # NULL
      /\ pc' = [pc EXCEPT ![c] = "unlock"] \/ pc' = [pc EXCEPT ![c] = "fail"]
      /\ UNCHANGED <<g_write_mutex, handler, f_pos, resp>>
      /\ overwritten' = overwritten \cup {d \in Clients : pc[d] \in {"openr", "read"}}
  BY DEF Write, At, Goto, AnswerInv, FileThere, Writing
<1>2. DOMAIN pc = Threads /\ Clients \subseteq Threads
  BY DEF AnswerInv, Inv, Shapes, Threads
<1>3. packet[c] \in Seq(Symbols)
  BY DEF Symbols
<1>4. /\ file' \in Seq(Symbols) /\ file' # NULL
      /\ pc'[c] = "unlock" => Starts(packet[c], file')
  <2>1. CASE file' = Overwritten(packet[c])
    BY <1>1, <1>3, <2>1, OverwrittenStarts DEF AnswerInv, Symbols
  <2>2. ASSUME NEW k \in 0 .. Len(packet[c]) - 1,
               file' = Overwritten(SubSeq(packet[c], 1, k)), Goto(c, "fail")
        PROVE  file' \in Seq(Symbols) /\ file' # NULL /\ pc'[c] # "unlock"
    <3>1. SubSeq(packet[c], 1, k) \in Seq(Symbols)
      BY <1>3
    <3>2. file' \in Seq(Symbols)
      BY <1>1, <2>2, <3>1, OverwrittenStarts DEF AnswerInv
    <3>3. QED
      BY <1>2, <2>2, <3>2 DEF Goto, Symbols
  <2>3. QED
    BY <2>1, <2>2 DEF Write
<1>5. MutexOwned'
  BY <1>1, <1>2 DEF AnswerInv, MutexOwned, Writing
<1>6. Typed' /\ FileThere'
  BY <1>1, <1>4 DEF AnswerInv, Typed, FileThere
<1>7. \A d \in Clients \ {c} : pc[d] \notin Writing /\ pc'[d] = pc[d]
  BY <1>1, <1>2 DEF AnswerInv, MutexOwned, Writing
<1>8. LineFirst'
  BY <1>1, <1>2, <1>4, <1>7 DEF AnswerInv, LineFirst, Writing
<1>9. ReadSoFar'
  BY <1>1, <1>2, <1>7 DEF AnswerInv, ReadSoFar
<1>10. QED
  BY <1>5, <1>6, <1>8, <1>9

(* What a connection that reads has sent is how the file begins; when a     *)
(* read finds no more it is the file.                                       *)
LEMMA ReadFinds ==
  ASSUME AnswerInv, NEW c \in Clients, pc[c] = "read"
  PROVE  /\ Unread(c) \in Seq(Symbols)
         /\ c \notin overwritten =>
              /\ Len(resp[c] \o Unread(c)) = f_pos[c] + Len(Unread(c))
              /\ Starts(resp[c] \o Unread(c), file)
              /\ Unread(c) = << >> => resp[c] = file
<1>1. file \in Seq(Symbols) /\ f_pos[c] \in Nat /\ resp[c] \in Seq(Symbols)
  BY DEF AnswerInv, Typed, FileThere
<1>2. BufferSize \in Nat \ {0}
  BY DataFileAssumption
<1>3. PICK t, p, u : t = file /\ p = f_pos[c] /\ u = Unread(c)
  OBVIOUS
<1>4. /\ u \in Seq(Symbols)
      /\ p <= Len(t) => /\ p + Len(u) <= Len(t)
                        /\ \A i \in 1 .. Len(u) : u[i] = t[p + i]
                        /\ u = << >> => p = Len(t)
  <2>1. t \in Seq(Symbols) /\ p \in Nat
    BY <1>1, <1>3
  <2>2. PICK a, b \in Nat : a = p + BufferSize /\ b = Len(t)
    <3>1. p + BufferSize \in Nat /\ Len(t) \in Nat
      BY <1>2, <2>1
    <3>2. QED
      BY <3>1, Zenon
  <2>3. Min({a, b}) = IF a <= b THEN a ELSE b
    BY MinOfTwo
  <2>4. PICK m \in Nat : m = Min({a, b})
    BY <2>3
  <2>5. u = SubSeq(t, p + 1, m) /\ m <= Len(t) /\ (m = a \/ m = Len(t)) /\ p < a
    BY <1>2, <1>3, <2>1, <2>2, <2>3, <2>4 DEF Unread
  <2>6. u \in Seq(Symbols)
    BY ONLY <2>1, <2>5
  <2>7. ASSUME p <= Len(t)
        PROVE  /\ p + Len(u) <= Len(t)
               /\ \A i \in 1 .. Len(u) : u[i] = t[p + i]
               /\ u = << >> => p = Len(t)
    <3>1. p <= m
      BY <2>1, <2>5, <2>7
    <3>2. Len(u) = m - p
      BY ONLY <2>1, <2>5, <3>1
    <3>3. \A i \in 1 .. Len(u) : u[i] = t[p + i]
      BY ONLY <2>1, <2>5, <3>1, <3>2
    <3>4. u = << >> => Len(u) = 0
      OBVIOUS
    <3>5. p + Len(u) <= Len(t) /\ (Len(u) = 0 => p = Len(t))
      BY ONLY <2>1, <2>5, <3>1, <3>2
    <3>6. QED
      BY <3>3, <3>4, <3>5
  <2>8. QED
    BY <2>6, <2>7
<1>5. ASSUME c \notin overwritten
      PROVE  /\ Len(resp[c] \o u) = p + Len(u)
             /\ Starts(resp[c] \o u, file)
             /\ u = << >> => resp[c] = file
  <2>1. Len(resp[c]) = p /\ Starts(resp[c], file) /\ p <= Len(file)
    BY <1>1, <1>3, <1>5 DEF AnswerInv, ReadSoFar, Starts
  <2>2. Starts(resp[c] \o u, file)
    BY <1>1, <1>3, <1>4, <2>1, StartsOn
  <2>3. u = << >> => resp[c] = file
    BY <1>1, <1>3, <1>4, <2>1, StartsWhole
  <2>4. QED
    BY <1>1, <1>4, <2>1, <2>2, <2>3
<1>6. QED
  BY <1>3, <1>4, <1>5

(* A turn of the loop that sends, or the end of the loop. *)
LEMMA AnswerRead ==
  ASSUME AnswerInv, NEW c \in Clients, Read(c)
  PROVE  MutexOwned' /\ Typed' /\ FileThere' /\ LineFirst' /\ ReadSoFar'
<1>. USE DataFileAssumption
<1>1. /\ pc[c] = "read" /\ DOMAIN pc = Threads /\ Clients \subseteq Threads
      /\ UNCHANGED <<file, g_write_mutex, handler, overwritten>>
      /\ pc' = pc \/ pc' = [pc EXCEPT ![c] = "close"]
  BY DEF Read, At, Goto, AnswerInv, Inv, Shapes, Threads
<1>2. \/ UNCHANGED <<f_pos, resp>>
      \/ /\ f_pos' = [f_pos EXCEPT ![c] = @ + Len(Unread(c))]
         /\ resp' = [resp EXCEPT ![c] = @ \o Unread(c)]
  BY DEF Read, Unread
<1>3. /\ Unread(c) \in Seq(Symbols)
      /\ c \notin overwritten =>
           /\ Len(resp[c] \o Unread(c)) = f_pos[c] + Len(Unread(c))
           /\ Starts(resp[c] \o Unread(c), file)
  BY <1>1, ReadFinds
<1>4. \A d \in Clients : pc'[d] = pc[d] \/ (d = c /\ pc'[d] = "close")
  BY <1>1
<1>5. MutexOwned' /\ FileThere' /\ LineFirst'
  BY <1>1, <1>4 DEF AnswerInv, MutexOwned, FileThere, LineFirst, Writing
<1>6. Typed' /\ ReadSoFar'
  <2>1. CASE UNCHANGED <<f_pos, resp>>
    BY <1>1, <1>4, <2>1 DEF AnswerInv, Typed, ReadSoFar
  <2>2. CASE /\ f_pos' = [f_pos EXCEPT ![c] = @ + Len(Unread(c))]
             /\ resp' = [resp EXCEPT ![c] = @ \o Unread(c)]
    <3>1. /\ f_pos[c] \in Nat /\ resp[c] \in Seq(Symbols) /\ Len(Unread(c)) \in Nat
          /\ f_pos[c] + Len(Unread(c)) \in Nat /\ resp[c] \o Unread(c) \in Seq(Symbols)
      BY <1>3 DEF AnswerInv, Typed
    <3>2. \A d \in Clients :
            /\ f_pos'[d] = IF d = c THEN f_pos[c] + Len(Unread(c)) ELSE f_pos[d]
            /\ resp'[d] = IF d = c THEN resp[c] \o Unread(c) ELSE resp[d]
      BY <2>2 DEF AnswerInv, Typed
    <3>3. Typed'
      BY <1>1, <2>2, <3>1 DEF AnswerInv, Typed
    <3>4. ReadSoFar'
      BY <1>1, <1>3, <1>4, <3>2 DEF AnswerInv, ReadSoFar
    <3>5. QED
      BY <3>3, <3>4
  <2>3. QED
    BY <1>2, <2>1, <2>2
<1>7. QED
  BY <1>5, <1>6

(* The connections, whatever they do.  Until it reads, a connection is at   *)
(* the position 0 and has sent nothing.                                     *)
LEMMA AnswerConnection ==
  ASSUME AnswerInv, NEW c \in Clients, Accept(c) \/ Connection(c)
  PROVE  AnswerInv'
<1>. USE DataFileAssumption
<1>1. Inv'
  BY InvConnection DEF AnswerInv
<1>2. DOMAIN pc = Threads /\ Clients \subseteq Threads
  BY DEF AnswerInv, Inv, Shapes, Threads
<1>. SUFFICES MutexOwned' /\ Typed' /\ FileThere' /\ LineFirst' /\ ReadSoFar'
  BY <1>1 DEF AnswerInv
<1>3. CASE Accept(c) \/ Recv(c) \/ OpenRead(c)
  <2>1. /\ UNCHANGED <<file, g_write_mutex, handler, connection>>
        /\ \/ pc[c] \in {"none", "recv"} /\ \E p \in {"open", "lock", "close"} : Goto(c, p)
           \/ pc[c] = "openr" /\ \E p \in {"read", "close"} : Goto(c, p)
    BY <1>3 DEF Accept, Recv, OpenRead, At
  <2>2. MutexOwned' /\ Typed'
    BY <1>2, <2>1 DEF AnswerInv, MutexOwned, Typed, Writing, Goto, connection
  <2>3. FileThere' /\ LineFirst'
    BY <1>2, <2>1, <1>3 DEF AnswerInv, FileThere, LineFirst, Writing, Goto, connection, Accept, Recv, OpenRead, At
  <2>4. ReadSoFar'
    <3>1. pc[c] # "read" /\ f_pos[c] = 0 /\ resp[c] = << >>
      BY <2>1 DEF AnswerInv, ReadSoFar
    <3>2. pc'[c] = "read" => Starts(resp[c], file) /\ Len(resp[c]) = f_pos[c]
      <4>1. SUFFICES ASSUME pc'[c] = "read"
                     PROVE  Starts(resp[c], file) /\ Len(resp[c]) = f_pos[c]
        OBVIOUS
      <4>2. file \in Seq(Symbols)
        BY <1>2, <2>1, <4>1 DEF Goto, AnswerInv, Typed, FileThere
      <4>3. QED
        BY <3>1, <4>2 DEF Starts
    <3>3. QED
      BY <1>2, <2>1, <3>1, <3>2 DEF AnswerInv, ReadSoFar, Goto, connection
  <2>5. QED
    BY <2>2, <2>3, <2>4
<1>4. CASE Open(c)
  <2>1. /\ pc[c] = "open" /\ UNCHANGED <<g_write_mutex, handler, connection>>
        /\ \/ file' = Opened /\ pc' = [pc EXCEPT ![c] = "recv"]
           \/ file' = file /\ pc' = [pc EXCEPT ![c] = "close"]
    BY <1>4 DEF Open, At, Goto
  <2>2. /\ file' \in Seq(Symbols) \cup {NULL}
        /\ pc'[c] = "recv" => file' # NULL
        /\ file # NULL => file' = file
    <3>1. Opened \in Seq(Symbols) /\ file \in Seq(Symbols) \cup {NULL}
      BY DEF AnswerInv, Typed, Opened
    <3>2. Opened # NULL
      BY <3>1 DEF Symbols
    <3>3. file # NULL => Opened = file
      BY DEF Opened
    <3>4. pc'[c] = "recv" => file' = Opened
      BY <1>2, <2>1
    <3>5. QED
      BY <2>1, <3>1, <3>2, <3>3, <3>4
  <2>3. MutexOwned' /\ Typed'
    BY <1>2, <2>1, <2>2 DEF AnswerInv, MutexOwned, Typed, Writing, connection
  <2>4. FileThere' /\ LineFirst' /\ ReadSoFar'
    BY <1>2, <2>1, <2>2
       DEF AnswerInv, FileThere, LineFirst, ReadSoFar, Writing, connection
  <2>5. QED
    BY <2>3, <2>4
<1>5. CASE Lock(c)
  <2>1. /\ pc[c] = "lock" /\ handler[c] = "none" /\ g_write_mutex = NULL
        /\ g_write_mutex' = c /\ pc' = [pc EXCEPT ![c] = "write"]
        /\ UNCHANGED <<file, handler, connection>>
    BY <1>5 DEF Lock, At, Goto
  <2>2. MutexOwned' /\ Typed'
    BY <1>2, <2>1 DEF AnswerInv, MutexOwned, Typed, Writing, Threads, connection
  <2>3. FileThere' /\ LineFirst' /\ ReadSoFar'
    BY <1>2, <2>1 DEF AnswerInv, FileThere, LineFirst, ReadSoFar, Writing, connection
  <2>4. QED
    BY <2>2, <2>3
<1>6. CASE Write(c)
  BY <1>6, AnswerWrite
<1>7. CASE Unlock(c)
  <2>1. /\ handler[c] = "none" /\ g_write_mutex' = NULL
        /\ \/ pc[c] = "unlock" /\ pc' = [pc EXCEPT ![c] = "openr"]
           \/ pc[c] = "fail" /\ pc' = [pc EXCEPT ![c] = "close"]
        /\ UNCHANGED <<file, handler, connection>>
    BY <1>7 DEF Unlock, At, Goto
  <2>2. MutexOwned' /\ Typed'
    BY <1>2, <2>1 DEF AnswerInv, MutexOwned, Typed, Writing, Threads, connection
  <2>3. FileThere' /\ LineFirst' /\ ReadSoFar'
    BY <1>2, <2>1 DEF AnswerInv, FileThere, LineFirst, ReadSoFar, Writing, connection
  <2>4. QED
    BY <2>2, <2>3
<1>8. CASE Read(c)
  BY <1>8, AnswerRead
<1>9. CASE Close(c)
  <2>1. /\ pc[c] = "close" /\ pc' = [pc EXCEPT ![c] = "dead"]
        /\ f_pos' = [f_pos EXCEPT ![c] = 0] /\ resp' = [resp EXCEPT ![c] = << >>]
        /\ overwritten' = overwritten \ {c}
        /\ UNCHANGED <<file, g_write_mutex, handler>>
    BY <1>9 DEF Close, At, Goto
  <2>2. MutexOwned' /\ Typed'
    BY <1>2, <2>1 DEF AnswerInv, MutexOwned, Typed, Writing
  <2>3. FileThere' /\ LineFirst' /\ ReadSoFar'
    BY <1>2, <2>1 DEF AnswerInv, Typed, FileThere, LineFirst, ReadSoFar, Writing
  <2>4. QED
    BY <2>2, <2>3
<1>10. QED
  BY <1>3, <1>4, <1>5, <1>6, <1>7, <1>8, <1>9 DEF Connection

(* SIGPIPE ends the connections, and nothing else is asked of them. *)
LEMMA AnswerSigpipe ==
  ASSUME AnswerInv, NEW c \in Clients, Sigpipe(c)
  PROVE  AnswerInv'
<1>1. Inv'
  BY InvSigpipe DEF AnswerInv
<1>2. /\ UNCHANGED <<file, connection>> /\ \A t \in Threads : handler'[t] = "none"
      /\ \A d \in Clients : pc'[d] = "killed" \/ (pc'[d] = pc[d] /\ pc[d] \in {"none", "dead", "killed"})
  BY DEF Sigpipe, Alive, Threads
<1>3. MutexOwned' /\ Typed' /\ FileThere' /\ LineFirst' /\ ReadSoFar'
  BY <1>2 DEF AnswerInv, MutexOwned, Typed, FileThere, LineFirst, ReadSoFar, Writing, connection,
              Threads
<1>4. QED
  BY <1>1, <1>3 DEF AnswerInv

-----------------------------------------------------------------------------
(* A connection whose packet no other has overwritten sends back the file   *)
(* as it is when it reads the end, which begins with its packet, whatever   *)
(* timestamps have come in between.                                         *)
THEOREM AnswerAlwaysFile == Spec => AnswerIsFile
<1>1. AnswerInv /\ [Next]_vars => AnswerInv'
  <2>. SUFFICES ASSUME AnswerInv, [Next]_vars
                PROVE  AnswerInv'
    OBVIOUS
  <2>1. ASSUME NEW t \in Threads, Alarm(t) \/ Handler(t)
        PROVE  AnswerInv'
    BY <2>1, AnswerHandler
  <2>2. CASE Main \/ Signal
    BY <2>2, AnswerMain
  <2>3. ASSUME NEW c \in Clients, Accept(c) \/ Connection(c)
        PROVE  AnswerInv'
    BY <2>3, AnswerConnection
  <2>4. CASE UNCHANGED vars
    <3>1. Inv'
      BY <2>4 DEF vars, AnswerInv, Inv, Shapes, OnLive, Lonely, Gone, Alive, timing
    <3>2. MutexOwned' /\ Typed' /\ FileThere' /\ LineFirst' /\ ReadSoFar'
      BY <2>4
         DEF vars, connection, AnswerInv, MutexOwned, Typed, FileThere, LineFirst, ReadSoFar
    <3>3. QED
      BY <3>1, <3>2 DEF AnswerInv
  <2>5. ASSUME NEW c \in Clients, Sigpipe(c)
        PROVE  AnswerInv'
    BY <2>5, AnswerSigpipe
  <2>6. QED
    BY <2>1, <2>2, <2>3, <2>4, <2>5 DEF Next
<1>2. AnswerInv /\ [Next]_vars =>
        [\A c \in answered' \ (answered \cup overwritten) :
           resp[c] = file /\ IsPrefix(packet[c], file)]_vars
  <2>. SUFFICES ASSUME AnswerInv, Next,
                       NEW c \in answered' \ (answered \cup overwritten)
                PROVE  resp[c] = file /\ IsPrefix(packet[c], file)
    OBVIOUS
  <2>1. c \in Clients /\ pc[c] = "read" /\ Unread(c) = << >>
    <3>1. PICK d \in Clients : Read(d) \/ Close(d)
      BY DEF Next, Alarm, Handler, StampLock, Stamp, StampUnlock, Signal, Main, Start,
             LeaveLoop, Join, RemoveFile, DeleteTimer, Accept, Connection, Open, Recv,
             Lock, Write, Unlock, OpenRead, Sigpipe, connection
    <3>2. ~Close(d)
      BY DEF Close
    <3>3. QED
      BY <3>1, <3>2 DEF Read, At, Unread
  <2>2. resp[c] = file
    BY <2>1, ReadFinds
  <2>3. file \in Seq(Symbols) /\ packet[c] \in Seq(Symbols) /\ Starts(packet[c], file)
    BY <2>1, DataFileAssumption DEF AnswerInv, Typed, FileThere, LineFirst, Symbols
  <2>4. QED
    BY <2>2, <2>3, StartsIsPrefix
<1>3. QED
  BY AnswerInit, <1>1, <1>2, PTL DEF Spec, AnswerIsFile
================================================================================
