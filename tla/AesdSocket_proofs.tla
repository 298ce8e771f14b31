--------------------------- MODULE AesdSocket_proofs ---------------------------
(***************************************************************************)
(* Proofs about the server for every set of clients, every buffer size,    *)
(* any number of descriptors and every set of system calls that may fail:  *)
(* the thread list and the end of main, the packet buffer, and the answers *)
(* sent back.                                                              *)
(***************************************************************************)
EXTENDS AesdSocket, WellFoundedInduction, SequenceTheorems, FiniteSetTheorems, TLAPS

(* Where a thread is while it runs, and everywhere it can be. *)
Going == {"open", "loop", "recv", "extend", "lock", "write", "openr", "readback", "close",
          "ioctl", "seekread", "finish", "wrap", "closec"}
Places == Going \cup {"none", "accepted", "refused", "dead", "killed"}

TypeInv ==
  /\ main_pc \in {"start", "top", "accept", "create", "reap", "exit", "join", "done", "killed"}
  /\ head \in Seq(Clients) /\ todo \in Seq(Clients) /\ freed \subseteq Clients
  /\ pc \in [Clients -> Places]

(* There is an entry without a thread only while main is about to create   *)
(* the thread, and it is the first of the list.                            *)
CreatesTheFirst ==
  /\ main_pc = "create" => head # << >> /\ pc[Head(head)] = "accepted"
  /\ \A c \in Clients : pc[c] = "accepted" => main_pc = "create" /\ c = Head(head)

(* Before main has a socket there is no thread, and a thread is killed     *)
(* only with the process.                                                  *)
EndsOfTheProcess ==
  /\ main_pc = "start" => \A c \in Clients : pc[c] = "none"
  /\ \A c \in Clients : pc[c] = "killed" => main_pc = "killed"

(* A loop of main visits no entry twice, and the last one visits them all. *)
VisitsOnce ==
  /\ main_pc \in {"reap", "join"} => IsInjective(todo)
  /\ main_pc = "join" => Range(head) \subseteq Range(todo)

EntriesInv ==
  /\ TypeInv /\ EntriesOutliveThreads /\ AllJoined
  /\ CreatesTheFirst /\ EndsOfTheProcess /\ VisitsOnce

(* What clients send. *)
Bytes == UNION {Range(chunk) : chunk \in Chunks}

PacketTypes == packet \in [Clients -> Seq(Bytes)] /\ capacity \in [Clients -> Nat]

(* Before its loop a connection has no packet.  The block of a thread that  *)
(* waits in recv is BufferSize bytes long for the first piece, and twice as *)
(* long as the packet for each later one, unless it goes on with a          *)
(* malformed seek.                                                          *)
BlocksDoubled ==
  \A c \in Clients :
    /\ pc[c] \in {"none", "accepted", "open"} => packet[c] = << >>
    /\ (pc[c] \in {"loop", "recv"} /\ packet[c] # << >> /\ ~Malformed(packet[c]))
         => capacity[c] = 2 * Len(packet[c])
    /\ (pc[c] = "recv" /\ packet[c] = << >>) => capacity[c] = BufferSize

PacketInv == PacketTypes /\ LongPacketsFit /\ BlocksDoubled

-----------------------------------------------------------------------------
(* Lemmas about lists without duplicates. *)

(* The first entry leaves such a list: what SLIST_FOREACH_SAFE goes on to. *)
LEMMA TailOfDistinct ==
  ASSUME NEW S, NEW s \in Seq(S), s # << >>, IsInjective(s)
  PROVE  /\ Head(s) \in Range(s) /\ Head(s) \in S
         /\ Tail(s) \in Seq(S) /\ IsInjective(Tail(s))
         /\ Range(Tail(s)) = Range(s) \ {Head(s)}
<1>1. Tail(s) \in Seq(S) /\ Len(Tail(s)) = Len(s) - 1 /\ Len(s) \in Nat \ {0}
  OBVIOUS
<1>2. \A i \in 1 .. Len(s) - 1 : Tail(s)[i] = s[i + 1]
  OBVIOUS
<1>3. Head(s) = s[1] /\ Head(s) \in S
  OBVIOUS
<1>4. IsInjective(Tail(s))
  BY <1>1, <1>2 DEF IsInjective
<1>5. Range(Tail(s)) = Range(s) \ {Head(s)}
  <2>1. ASSUME NEW x \in Range(s), x # Head(s)
        PROVE  x \in Range(Tail(s))
    <3>1. PICK i \in 1 .. Len(s) : s[i] = x
      BY DEF Range
    <3>2. i # 1 /\ Tail(s)[i - 1] = x /\ i - 1 \in DOMAIN Tail(s)
      BY <1>1, <1>2, <1>3, <2>1, <3>1
    <3>3. QED
      BY <3>2 DEF Range
  <2>2. ASSUME NEW x \in Range(Tail(s))
        PROVE  x \in Range(s) /\ x # Head(s)
    <3>1. PICK i \in 1 .. Len(s) - 1 : Tail(s)[i] = x
      BY <1>1 DEF Range
    <3>2. s[i + 1] = x /\ i + 1 \in DOMAIN s /\ 1 \in DOMAIN s /\ i + 1 # 1
      BY <1>1, <1>2, <3>1
    <3>3. QED
      BY <1>3, <3>2 DEF Range, IsInjective
  <2>3. QED
    BY <2>1, <2>2
<1>6. Head(s) \in Range(s)
  BY <1>1, <1>3 DEF Range
<1>7. QED
  BY <1>1, <1>3, <1>4, <1>5, <1>6

(* A new entry at the front: SLIST_INSERT_HEAD. *)
LEMMA PushOnDistinct ==
  ASSUME NEW S, NEW s \in Seq(S), IsInjective(s), NEW x \in S, x \notin Range(s)
  PROVE  /\ <<x>> \o s \in Seq(S) /\ <<x>> \o s # << >> /\ Head(<<x>> \o s) = x
         /\ IsInjective(<<x>> \o s)
         /\ Range(<<x>> \o s) = Range(s) \cup {x}
<1>. DEFINE t == <<x>> \o s
<1>1. t \in Seq(S) /\ Len(t) = Len(s) + 1 /\ t[1] = x /\ \A i \in 1 .. Len(s) : t[i + 1] = s[i]
  OBVIOUS
<1>2. \A i \in 1 .. Len(t) : i = 1 \/ i - 1 \in 1 .. Len(s)
  BY <1>1
<1>. HIDE DEF t
<1>3. Range(t) = Range(s) \cup {x}
  <2>1. ASSUME NEW y \in Range(t)
        PROVE  y \in Range(s) \cup {x}
    <3>1. PICK i \in 1 .. Len(t) : t[i] = y
      BY <1>1, <2>1 DEF Range
    <3>2. CASE i = 1
      BY <1>1, <3>1, <3>2
    <3>3. CASE i - 1 \in 1 .. Len(s)
      <4>1. s[i - 1] = y
        BY <1>1, <3>1, <3>3
      <4>2. QED
        BY <3>3, <4>1 DEF Range
    <3>4. QED
      BY <1>2, <3>2, <3>3
  <2>2. ASSUME NEW y \in Range(s)
        PROVE  y \in Range(t)
    <3>1. PICK i \in 1 .. Len(s) : s[i] = y
      BY <2>2 DEF Range
    <3>2. t[i + 1] = y /\ i + 1 \in DOMAIN t
      BY <1>1, <3>1
    <3>3. QED
      BY <3>2 DEF Range
  <2>3. x \in Range(t)
    BY <1>1 DEF Range
  <2>4. QED
    BY <2>1, <2>2, <2>3
<1>4. IsInjective(t)
  <2>. SUFFICES ASSUME NEW i \in 1 .. Len(t), NEW j \in 1 .. Len(t), t[i] = t[j]
                PROVE  i = j
    BY <1>1 DEF IsInjective
  <2>1. ASSUME NEW k \in 1 .. Len(t), k # 1
        PROVE  k - 1 \in 1 .. Len(s) /\ t[k] = s[k - 1] /\ t[k] \in Range(s)
    <3>1. k - 1 \in 1 .. Len(s)
      BY <1>2, <2>1
    <3>2. t[k] = s[k - 1]
      BY <1>1, <3>1
    <3>3. QED
      BY <3>1, <3>2 DEF Range
  <2>2. CASE i = 1 \/ j = 1
    BY <1>1, <2>1, <2>2
  <2>3. CASE i # 1 /\ j # 1
    BY <2>1, <2>3, SMTT(30) DEF IsInjective
  <2>4. QED
    BY <2>2, <2>3
<1>5. t # << >> /\ Head(t) = x
  BY <1>1
<1>6. QED
  BY <1>1, <1>3, <1>4, <1>5 DEF t

(* SLIST_REMOVE takes one entry from the list and leaves the others. *)
LEMMA UnlinkFromDistinct ==
  ASSUME NEW S, NEW s \in Seq(S), IsInjective(s), NEW x \in Range(s)
  PROVE  /\ Unlink(s, x) \in Seq(S) /\ IsInjective(Unlink(s, x))
         /\ Range(Unlink(s, x)) = Range(s) \ {x}
<1>. DEFINE k == CHOOSE i \in DOMAIN s : s[i] = x
            t == Unlink(s, x)
<1>1. k \in 1 .. Len(s) /\ s[k] = x
  BY DEF Range
<1>2. t = SubSeq(s, 1, k - 1) \o SubSeq(s, k + 1, Len(s))
  BY DEF Unlink, RemoveAt
<1>. HIDE DEF k, t
<1>3. /\ t \in Seq(S) /\ Len(t) = Len(s) - 1
      /\ \A i \in 1 .. Len(s) - 1 : t[i] = IF i < k THEN s[i] ELSE s[i + 1]
  <2>. DEFINE a == SubSeq(s, 1, k - 1)
              b == SubSeq(s, k + 1, Len(s))
  <2>1. a \in Seq(S) /\ Len(a) = k - 1 /\ \A i \in 1 .. k - 1 : a[i] = s[i]
    BY <1>1
  <2>2. b \in Seq(S) /\ Len(b) = Len(s) - k /\ \A i \in 1 .. Len(s) - k : b[i] = s[k + i]
    BY <1>1
  <2>3. t = a \o b
    BY <1>2
  <2>. HIDE DEF a, b
  <2>4. t \in Seq(S) /\ Len(t) = Len(s) - 1
    BY <1>1, <2>1, <2>2, <2>3
  <2>5. ASSUME NEW i \in 1 .. Len(s) - 1
        PROVE  t[i] = IF i < k THEN s[i] ELSE s[i + 1]
    <3>1. CASE i < k
      BY <1>1, <2>1, <2>2, <2>3, <3>1
    <3>2. CASE ~(i < k)
      <4>1. t[i] = b[i - (k - 1)] /\ i - (k - 1) \in 1 .. Len(s) - k
        BY <1>1, <2>1, <2>2, <2>3, <3>2
      <4>2. k + (i - (k - 1)) = i + 1
        BY <1>1
      <4>3. QED
        BY <2>2, <3>2, <4>1, <4>2
    <3>3. QED
      BY <3>1, <3>2
  <2>6. QED
    BY <2>4, <2>5
<1>4. IsInjective(t)
  <2>. SUFFICES ASSUME NEW i \in 1 .. Len(s) - 1, NEW j \in 1 .. Len(s) - 1, t[i] = t[j]
                PROVE  i = j
    BY <1>3 DEF IsInjective
  <2>. DEFINE Old(n) == IF n < k THEN n ELSE n + 1
  <2>1. \A n \in 1 .. Len(s) - 1 : t[n] = s[Old(n)] /\ Old(n) \in DOMAIN s
    BY <1>1, <1>3
  <2>2. Old(i) = Old(j)
    <3>. HIDE DEF Old
    <3>1. QED
      BY <2>1 DEF IsInjective
  <2>3. QED
    BY <1>1, <2>2
<1>5. Range(t) = Range(s) \ {x}
  <2>1. ASSUME NEW y \in Range(t)
        PROVE  y \in Range(s) /\ y # x
    <3>1. PICK i \in 1 .. Len(s) - 1 : t[i] = y
      BY <1>3, <2>1 DEF Range
    <3>2. PICK j \in 1 .. Len(s) : j # k /\ s[j] = y
      BY <1>1, <1>3, <3>1
    <3>3. QED
      BY <1>1, <3>2 DEF Range, IsInjective
  <2>2. ASSUME NEW y \in Range(s), y # x
        PROVE  y \in Range(t)
    <3>1. PICK j \in 1 .. Len(s) : s[j] = y
      BY DEF Range
    <3>2. PICK i \in 1 .. Len(s) - 1 : t[i] = y
      <4>1. CASE j < k
        BY <1>1, <1>3, <3>1, <4>1
      <4>2. CASE j > k
        <5>1. j - 1 \in 1 .. Len(s) - 1 /\ t[j - 1] = y
          BY <1>1, <1>3, <3>1, <4>2
        <5>2. QED
          BY <5>1
      <4>3. QED
        BY <1>1, <2>2, <3>1, <4>1, <4>2
    <3>3. QED
      BY <1>3, <3>2 DEF Range
  <2>3. QED
    BY <2>1, <2>2
<1>6. QED
  BY <1>3, <1>4, <1>5 DEF t

-----------------------------------------------------------------------------
(* The thread list. *)

(* A step of a connection's thread leaves main's variables alone and moves *)
(* its own thread, from one running place to another or to its end.        *)
LEMMA ThreadSteps ==
  ASSUME TypeInv, NEW c \in Clients, Recv(c) \/ Lock(c) \/ Run(c)
  PROVE  /\ UNCHANGED mainvars
         /\ pc[c] \in Going /\ pc'[c] \in Going \cup {"dead"}
         /\ pc' \in [Clients -> Places]
         /\ \A d \in Clients \ {c} : pc'[d] = pc[d]
<1>. DEFINE Moved == \/ UNCHANGED pc
                    \/ \E place \in Going \cup {"dead"} : Goto(c, place)
<1>1. CASE Recv(c)
  <2>1. pc[c] \in Going /\ UNCHANGED mainvars /\ Moved
    BY <1>1 DEF Recv, RecvFrom, RecvEnds, RelayForeign, mainvars, Going
  <2>2. QED
    BY <2>1 DEF TypeInv, Goto, Going, Places
<1>2. CASE Lock(c) \/ OpenData(c) \/ Loop(c) \/ Extend(c) \/ Write(c) \/ OpenRead(c) \/ Ioctl(c)
  <2>1. pc[c] \in Going /\ UNCHANGED mainvars /\ Moved
    BY <1>2 DEF Lock, OpenData, Loop, Extend, Write, OpenRead, OpenReadAt, Ioctl, mainvars, Going
  <2>2. QED
    BY <2>1 DEF TypeInv, Goto, Going, Places
<1>3. CASE SeekRead(c) \/ ReadBack(c)
  <2>1. pc[c] \in Going /\ UNCHANGED mainvars /\ Moved
    BY <1>3 DEF SeekRead, ReadBack, Relay, mainvars, Going
  <2>2. QED
    BY <2>1 DEF TypeInv, Goto, Going, Places
<1>4. CASE CloseRead(c) \/ Finish(c) \/ Wrap(c) \/ CloseClient(c)
  <2>1. pc[c] \in Going /\ UNCHANGED mainvars /\ Moved
    BY <1>4 DEF CloseRead, Finish, Wrap, CloseClient, CloseStep, mainvars, Going
  <2>2. QED
    BY <2>1 DEF TypeInv, Goto, Going, Places
<1>5. QED
  BY <1>1, <1>2, <1>3, <1>4 DEF Run

(* No thread runs after main has returned. *)
LEMMA EntriesThread ==
  ASSUME EntriesInv, NEW c \in Clients, Recv(c) \/ Lock(c) \/ Run(c)
  PROVE  EntriesInv'
<1>1. /\ UNCHANGED mainvars
      /\ pc[c] \in Going /\ pc'[c] \in Going \cup {"dead"}
      /\ pc' \in [Clients -> Places]
      /\ \A d \in Clients \ {c} : pc'[d] = pc[d]
  BY ThreadSteps DEF EntriesInv
<1>2. /\ pc[c] \notin {"none", "accepted", "refused", "dead", "killed"}
      /\ pc'[c] \notin {"none", "accepted", "refused", "killed"}
  BY <1>1 DEF Going
<1>3. c \notin freed /\ main_pc \notin {"start", "done"}
  BY <1>2 DEF EntriesInv, EntriesOutliveThreads, AllJoined, EndsOfTheProcess
<1>4. main_pc = "create" => c # Head(head) /\ Head(head) \in Clients
  BY <1>2 DEF EntriesInv, CreatesTheFirst, TypeInv
<1>5. TypeInv' /\ VisitsOnce'
  BY <1>1 DEF EntriesInv, TypeInv, VisitsOnce, mainvars
<1>6. EntriesOutliveThreads'
  <2>1. {d \in Clients : pc'[d] # "none"} = {d \in Clients : pc[d] # "none"}
    BY <1>1, <1>2
  <2>2. QED
    BY <1>1, <1>3, <2>1 DEF EntriesInv, EntriesOutliveThreads, TypeInv, mainvars
<1>7. AllJoined' /\ EndsOfTheProcess'
  BY <1>1, <1>2, <1>3 DEF EntriesInv, AllJoined, EndsOfTheProcess, mainvars
<1>8. CreatesTheFirst'
  BY <1>1, <1>2, <1>4 DEF EntriesInv, CreatesTheFirst, mainvars
<1>9. QED
  BY <1>5, <1>6, <1>7, <1>8 DEF EntriesInv

(* The end of the process by a signal leaves no thread. *)
LEMMA EntriesKill ==
  ASSUME EntriesInv, Kill
  PROVE  EntriesInv'
<1>1. /\ main_pc' = "killed" /\ UNCHANGED <<head, todo, freed>>
      /\ \A c \in Clients : pc'[c] = IF pc[c] = "none" THEN "none" ELSE "killed"
      /\ pc' \in [Clients -> Places]
  BY DEF Kill, Places
<1>2. {c \in Clients : pc'[c] # "none"} = {c \in Clients : pc[c] # "none"}
  BY <1>1
<1>3. EntriesOutliveThreads'
  BY <1>1, <1>2 DEF EntriesInv, EntriesOutliveThreads, TypeInv
<1>4. QED
  BY <1>1, <1>3 DEF EntriesInv, TypeInv, AllJoined, CreatesTheFirst, EndsOfTheProcess, VisitsOnce

(* A step of main that touches neither the threads nor the list nor what a *)
(* loop has still to visit.                                                *)
LEMMA EntriesElsewhere ==
  ASSUME EntriesInv, UNCHANGED <<head, todo, freed, pc>>,
         main_pc \notin {"create", "killed"}, main_pc' \in {"top", "accept", "exit"}
  PROVE  EntriesInv'
<1>1. \A c \in Clients : pc[c] \notin {"accepted", "killed"}
  BY DEF EntriesInv, CreatesTheFirst, EndsOfTheProcess
<1>2. EntriesOutliveThreads'
  BY DEF EntriesInv, EntriesOutliveThreads
<1>3. QED
  BY <1>1, <1>2
     DEF EntriesInv, TypeInv, AllJoined, CreatesTheFirst, EndsOfTheProcess, VisitsOnce

(* accept: the new entry is the first of the list. *)
LEMMA EntriesAccept ==
  ASSUME EntriesInv, NEW c \in Clients, Accept(c)
  PROVE  EntriesInv'
<1>1. /\ main_pc = "accept" /\ main_pc' = "create" /\ pc[c] = "none"
      /\ pc' = [pc EXCEPT ![c] = "accepted"] /\ head' = <<c>> \o head
      /\ UNCHANGED <<todo, freed>>
  BY DEF Accept
<1>2. /\ pc'[c] = "accepted" /\ \A d \in Clients \ {c} : pc'[d] = pc[d]
      /\ pc' \in [Clients -> Places]
  BY <1>1 DEF EntriesInv, TypeInv, Places
<1>3. c \notin freed /\ c \notin Range(head) /\ head \in Seq(Clients) /\ IsInjective(head)
  BY <1>1 DEF EntriesInv, TypeInv, EntriesOutliveThreads
<1>4. /\ head' \in Seq(Clients) /\ head' # << >> /\ Head(head') = c
      /\ IsInjective(head') /\ Range(head') = Range(head) \cup {c}
  BY <1>1, <1>3, PushOnDistinct
<1>5. EntriesOutliveThreads'
  BY <1>1, <1>2, <1>3, <1>4 DEF EntriesInv, EntriesOutliveThreads, TypeInv
<1>6. CreatesTheFirst' /\ EndsOfTheProcess'
  BY <1>1, <1>2, <1>4 DEF EntriesInv, CreatesTheFirst, EndsOfTheProcess
<1>7. QED
  BY <1>1, <1>2, <1>4, <1>5, <1>6 DEF EntriesInv, TypeInv, AllJoined, VisitsOnce

(* pthread_create: the first entry gets its thread, or goes again. *)
LEMMA EntriesCreate ==
  ASSUME EntriesInv, Create
  PROVE  EntriesInv'
<1>. DEFINE c == Head(head)
<1>1. /\ main_pc = "create" /\ head # << >> /\ head \in Seq(Clients) /\ IsInjective(head)
      /\ pc[c] = "accepted" /\ pc \in [Clients -> Places]
  BY DEF Create, EntriesInv, TypeInv, CreatesTheFirst, EntriesOutliveThreads
<1>2. /\ c \in Clients /\ c \in Range(head) /\ Tail(head) \in Seq(Clients)
      /\ IsInjective(Tail(head)) /\ Range(Tail(head)) = Range(head) \ {c}
  BY <1>1, TailOfDistinct
<1>3. c \notin freed /\ \A d \in Clients \ {c} : pc[d] \notin {"accepted", "killed"}
  BY <1>1, <1>2 DEF EntriesInv, EntriesOutliveThreads, CreatesTheFirst, EndsOfTheProcess
<1>4. CASE Goto(c, "open") /\ main_pc' = "reap" /\ todo' = head /\ UNCHANGED <<head, freed>>
  <2>1. /\ pc'[c] = "open" /\ \A d \in Clients \ {c} : pc'[d] = pc[d]
        /\ pc' \in [Clients -> Places]
    BY <1>1, <1>2, <1>4 DEF Goto, Places, Going
  <2>2. {d \in Clients : pc'[d] # "none"} = {d \in Clients : pc[d] # "none"}
    BY <1>1, <2>1
  <2>3. EntriesOutliveThreads'
    BY <1>3, <1>4, <2>1, <2>2 DEF EntriesInv, EntriesOutliveThreads, TypeInv
  <2>4. CreatesTheFirst' /\ EndsOfTheProcess'
    BY <1>3, <1>4, <2>1 DEF CreatesTheFirst, EndsOfTheProcess
  <2>5. QED
    BY <1>1, <1>4, <2>1, <2>3, <2>4 DEF EntriesInv, TypeInv, AllJoined, VisitsOnce
<1>5. CASE /\ Goto(c, "refused") /\ main_pc' = "top" /\ UNCHANGED todo
           /\ head' = Tail(head) /\ freed' = freed \cup {c}
  <2>1. /\ pc'[c] = "refused" /\ \A d \in Clients \ {c} : pc'[d] = pc[d]
        /\ pc' \in [Clients -> Places]
    BY <1>1, <1>2, <1>5 DEF Goto, Places
  <2>2. {d \in Clients : pc'[d] # "none"} = {d \in Clients : pc[d] # "none"}
    BY <1>1, <2>1
  <2>3. EntriesOutliveThreads'
    BY <1>2, <1>3, <1>5, <2>1, <2>2 DEF EntriesInv, EntriesOutliveThreads, TypeInv
  <2>4. CreatesTheFirst' /\ EndsOfTheProcess'
    BY <1>3, <1>5, <2>1 DEF CreatesTheFirst, EndsOfTheProcess
  <2>5. QED
    BY <1>2, <1>5, <2>1, <2>3, <2>4 DEF EntriesInv, TypeInv, AllJoined, VisitsOnce
<1>6. QED
  BY <1>4, <1>5 DEF Create, MainGoto

(* A thread that main joins is the next to visit: its entry leaves the     *)
(* list, and the loop does not come to it again.                           *)
LEMMA EntriesJoined ==
  ASSUME EntriesInv, main_pc \in {"reap", "join"}, todo # << >>, Joined(Head(todo)),
         todo' = Tail(todo), UNCHANGED <<main_pc, pc>>
  PROVE  EntriesInv'
<1>. DEFINE c == Head(todo)
<1>1. /\ todo \in Seq(Clients) /\ IsInjective(todo) /\ Range(todo) \subseteq Range(head)
      /\ head \in Seq(Clients) /\ IsInjective(head)
  BY DEF EntriesInv, TypeInv, VisitsOnce, EntriesOutliveThreads
<1>2. /\ c \in Range(todo) /\ c \in Clients /\ todo' \in Seq(Clients) /\ IsInjective(todo')
      /\ Range(todo') = Range(todo) \ {c}
  BY <1>1, TailOfDistinct
<1>3. pc[c] = "dead" /\ head' = Unlink(head, c) /\ freed' = freed \cup {c}
  BY DEF Joined
<1>4. head' \in Seq(Clients) /\ IsInjective(head') /\ Range(head') = Range(head) \ {c}
  BY <1>1, <1>2, <1>3, UnlinkFromDistinct
<1>5. EntriesOutliveThreads'
  BY <1>1, <1>2, <1>3, <1>4 DEF EntriesInv, EntriesOutliveThreads
<1>6. VisitsOnce'
  BY <1>2, <1>4 DEF EntriesInv, VisitsOnce
<1>7. QED
  BY <1>2, <1>3, <1>4, <1>5, <1>6
     DEF EntriesInv, TypeInv, AllJoined, CreatesTheFirst, EndsOfTheProcess

(* The loop that joins completed threads passes over the others. *)
LEMMA EntriesReap ==
  ASSUME EntriesInv, Reap
  PROVE  EntriesInv'
<1>1. /\ main_pc = "reap" /\ todo # << >> /\ todo' = Tail(todo) /\ UNCHANGED <<main_pc, pc>>
  BY DEF Reap, MainGoto
<1>2. CASE Joined(Head(todo))
  BY <1>1, <1>2, EntriesJoined
<1>3. CASE UNCHANGED <<head, freed>>
  <2>1. todo \in Seq(Clients) /\ IsInjective(todo)
    BY <1>1 DEF EntriesInv, TypeInv, VisitsOnce
  <2>2. /\ todo' \in Seq(Clients) /\ IsInjective(todo')
        /\ Range(todo') \subseteq Range(todo)
    BY <1>1, <2>1, TailOfDistinct
  <2>3. EntriesOutliveThreads'
    BY <1>1, <1>3, <2>2 DEF EntriesInv, EntriesOutliveThreads
  <2>4. QED
    BY <1>1, <1>3, <2>2, <2>3
       DEF EntriesInv, TypeInv, AllJoined, CreatesTheFirst, EndsOfTheProcess, VisitsOnce
<1>4. QED
  BY <1>2, <1>3 DEF Reap

(* The last loop visits every entry there is. *)
LEMMA EntriesExit ==
  ASSUME EntriesInv, Exit
  PROVE  EntriesInv'
<1>1. /\ main_pc = "exit" /\ main_pc' = "join" /\ todo' = head
      /\ UNCHANGED <<head, freed, pc>>
  BY DEF Exit, MainGoto
<1>2. EntriesOutliveThreads'
  BY <1>1 DEF EntriesInv, EntriesOutliveThreads
<1>3. VisitsOnce'
  BY <1>1 DEF EntriesInv, EntriesOutliveThreads, VisitsOnce
<1>4. QED
  BY <1>1, <1>2, <1>3
     DEF EntriesInv, TypeInv, AllJoined, CreatesTheFirst, EndsOfTheProcess

(* main returns when its last loop has nothing left, so that the list is   *)
(* empty and every thread has been joined; or before there is any.         *)
LEMMA EntriesDone ==
  ASSUME EntriesInv, JoinDone \/ StartFails
  PROVE  EntriesInv'
<1>1. main_pc' = "done" /\ UNCHANGED <<head, todo, freed, pc>>
  BY DEF JoinDone, StartFails, MainGoto
<1>2. /\ main_pc \in {"join", "start"}
      /\ \A c \in Clients : pc[c] \notin {"accepted", "killed"}
  BY DEF JoinDone, StartFails, EntriesInv, CreatesTheFirst, EndsOfTheProcess
<1>3. Range(head) = {} \/ \A c \in Clients : pc[c] = "none"
  <2>1. CASE JoinDone
    BY <2>1 DEF JoinDone, EntriesInv, VisitsOnce, Range
  <2>2. CASE StartFails
    BY <2>2 DEF StartFails, EntriesInv, EndsOfTheProcess
  <2>3. QED
    BY <2>1, <2>2
<1>4. /\ \A c \in Clients : pc[c] # "none" => c \in freed
      /\ \A c \in freed : c \in Clients /\ pc[c] \in {"dead", "refused"}
  BY <1>2, <1>3 DEF EntriesInv, EntriesOutliveThreads, TypeInv
<1>5. AllJoined'
  BY <1>1, <1>4 DEF AllJoined
<1>6. EntriesOutliveThreads'
  BY <1>1 DEF EntriesInv, EntriesOutliveThreads
<1>7. QED
  BY <1>1, <1>2, <1>5, <1>6
     DEF EntriesInv, TypeInv, CreatesTheFirst, EndsOfTheProcess, VisitsOnce

(* Before the program has started there are no threads. *)
LEMMA EntriesInit == Init => EntriesInv
<1>. SUFFICES ASSUME Init
              PROVE  EntriesInv
  OBVIOUS
<1>1. /\ main_pc = "start" /\ head = << >> /\ todo = << >> /\ freed = {}
      /\ pc \in [Clients -> Places] /\ \A c \in Clients : pc[c] = "none"
  BY DEF Init, Places
<1>2. Range(head) = {} /\ IsInjective(head)
  BY <1>1 DEF Range, IsInjective
<1>3. QED
  BY <1>1, <1>2
     DEF EntriesInv, TypeInv, EntriesOutliveThreads, AllJoined, CreatesTheFirst,
         EndsOfTheProcess, VisitsOnce

(* Every step keeps the invariant of the thread list. *)
LEMMA EntriesNext == EntriesInv /\ [Next]_vars => EntriesInv'
<1>. SUFFICES ASSUME EntriesInv, [Next]_vars
              PROVE  EntriesInv'
  OBVIOUS
<1>1. CASE UNCHANGED <<mainvars, pc>>
  BY <1>1
     DEF mainvars, EntriesInv, TypeInv, EntriesOutliveThreads, AllJoined, CreatesTheFirst,
         EndsOfTheProcess, VisitsOnce
<1>2. CASE SignalShutdown \/ SignalFlag \/ SignalEarly \/ UNCHANGED vars
  BY <1>1, <1>2 DEF SignalShutdown, SignalFlag, SignalEarly, vars
<1>3. CASE Start \/ MainTop \/ AcceptFails \/ ReapDone
  BY <1>3, EntriesElsewhere DEF Start, MainTop, AcceptFails, ReapDone, MainGoto
<1>4. CASE Create \/ Reap \/ Exit \/ JoinDone \/ StartFails
  BY <1>4, EntriesCreate, EntriesReap, EntriesExit, EntriesDone
<1>5. CASE Join
  BY <1>5, EntriesJoined DEF Join, MainGoto
<1>6. ASSUME NEW c \in Clients, Accept(c)
      PROVE  EntriesInv'
  BY <1>6, EntriesAccept
<1>7. ASSUME NEW c \in Clients, Recv(c) \/ Lock(c) \/ Run(c)
      PROVE  EntriesInv'
  BY <1>7, EntriesThread
<1>8. ASSUME NEW c \in Clients, Sigpipe(c) \/ HeapAbort(c)
      PROVE  EntriesInv'
  BY <1>8, EntriesKill DEF Sigpipe, HeapAbort
<1>9. QED
  BY <1>2, <1>3, <1>4, <1>5, <1>6, <1>7, <1>8 DEF Next, Main

(* The invariant of the thread list holds in every state there is. *)
LEMMA EntriesHold == Spec => []EntriesInv
BY EntriesInit, EntriesNext, PTL DEF Spec

-----------------------------------------------------------------------------
(* thread_connection_wrapper and main's loops: with any number of clients  *)
(* and any failure, main frees an entry only after its thread has ended,   *)
(* although the entry says is_done before the thread's last use of it.     *)
THEOREM EntriesAlwaysOutlive == Spec => []EntriesOutliveThreads
BY EntriesHold, PTL DEF EntriesInv

(* main returns only after every thread has ended and with every entry     *)
(* freed, whichever way it left its accept loop.                           *)
THEOREM AlwaysAllJoined == Spec => []AllJoined
BY EntriesHold, PTL DEF EntriesInv

-----------------------------------------------------------------------------
(* The packet buffer. *)

(* A step that leaves the buffers alone and starts no recv: it changes the *)
(* place of a thread only to one where no piece is stored next, or for a   *)
(* connection without a packet.                                            *)
LEMMA PacketElsewhere ==
  ASSUME PacketInv, UNCHANGED <<packet, capacity>>,
         \A c \in Clients : \/ pc'[c] = pc[c]
                            \/ pc'[c] \notin {"none", "accepted", "open", "recv", "loop"}
                            \/ pc'[c] # "recv" /\ packet[c] = << >>
  PROVE  PacketInv'
<1>1. PacketTypes' /\ LongPacketsFit'
  BY DEF PacketInv, PacketTypes, LongPacketsFit
<1>2. BlocksDoubled'
  BY DEF PacketInv, BlocksDoubled
<1>3. QED
  BY <1>1, <1>2 DEF PacketInv

(* A step that touches the buffer of one connection only. *)
LEMMA PacketOfOne ==
  ASSUME PacketInv, TypeInv, NEW c \in Clients, PacketTypes',
         \A d \in Clients \ {c} :
           packet'[d] = packet[d] /\ capacity'[d] = capacity[d] /\ pc'[d] = pc[d],
         pc'[c] \notin {"none", "accepted", "open"},
         (Len(packet'[c]) >= 2 * BufferSize /\ ~Malformed(packet'[c]))
           => Len(packet'[c]) <= capacity'[c],
         (pc'[c] \in {"loop", "recv"} /\ packet'[c] # << >> /\ ~Malformed(packet'[c]))
           => capacity'[c] = 2 * Len(packet'[c]),
         (pc'[c] = "recv" /\ packet'[c] = << >>) => capacity'[c] = BufferSize
  PROVE  PacketInv'
<1>1. LongPacketsFit'
  BY Zenon DEF PacketInv, LongPacketsFit, Malformed, HasNewline, IsSeek, WellFormed
<1>2. BlocksDoubled'
  BY Zenon DEF PacketInv, BlocksDoubled, Malformed, HasNewline, IsSeek, WellFormed
<1>3. QED
  BY <1>1, <1>2 DEF PacketInv

(* What a recv stores is a sequence of at most BufferSize bytes. *)
LEMMA ChunkStored ==
  ASSUME NEW p \in Seq(Bytes), NEW chunk \in Chunks
  PROVE  /\ p \o chunk \in Seq(Bytes) /\ p \o chunk # << >>
         /\ Len(p) \in Nat /\ Len(p \o chunk) \in Nat
         /\ Len(p \o chunk) <= Len(p) + BufferSize
         /\ Len(p) <= Len(p \o chunk)
         /\ \A i \in 1 .. Len(p) : (p \o chunk)[i] = p[i]
<1>1. chunk \in Seq(Bytes)
  <2>1. chunk \in Seq(Range(chunk)) /\ Range(chunk) \subseteq Bytes
    BY SocketAssumption DEF Bytes
  <2>2. QED
    BY <2>1
<1>2. Len(chunk) \in 1 .. BufferSize /\ BufferSize \in Nat
  BY SocketAssumption
<1>3. QED
  BY <1>1, <1>2

(* A seek command that does not parse stays one whatever comes behind it:   *)
(* its newline, which is not the prefix, stands where the arguments should. *)
LEMMA MalformedForever ==
  ASSUME NEW p \in Seq(Bytes), NEW q \in Seq(Bytes), Malformed(p), Len(p) <= Len(q),
         \A i \in 1 .. Len(p) : q[i] = p[i]
  PROVE  Malformed(q)
<1>1. Len(p) \in Nat /\ Len(q) \in Nat
  OBVIOUS
<1>2. PICK i \in 1 .. Len(p) : p[i] = NL
  BY <1>1 DEF Malformed, HasNewline, Range
<1>3. Len(p) > 0 /\ p[1] = SEEK /\ ~(Len(p) > 1 /\ p[2] \in SeekArgs)
  BY DEF Malformed, IsSeek, WellFormed
<1>4. i # 1
  BY <1>2, <1>3, SocketAssumption
<1>5. Len(p) > 1 /\ p[2] \notin SeekArgs /\ Len(q) > 1 /\ q[1] = SEEK /\ q[2] = p[2]
  BY <1>1, <1>2, <1>3, <1>4
<1>6. i \in DOMAIN q /\ q[i] = NL
  BY <1>1, <1>2
<1>7. HasNewline(q)
  BY <1>6 DEF HasNewline, Range
<1>8. QED
  BY <1>1, <1>5, <1>7 DEF Malformed, IsSeek, WellFormed

(* The call of recv: an empty packet gets a block of BufferSize bytes. *)
LEMMA PacketLoop ==
  ASSUME PacketInv, TypeInv, NEW c \in Clients, Loop(c)
  PROVE  PacketInv'
<1>1. /\ pc[c] = "loop" /\ UNCHANGED packet
      /\ \A d \in Clients \ {c} : pc'[d] = pc[d]
  <2>1. /\ pc[c] = "loop" /\ UNCHANGED packet
        /\ Goto(c, "recv") \/ Goto(c, "finish")
    BY DEF Loop
  <2>2. QED
    BY <2>1 DEF Goto, TypeInv
<1>2. CASE /\ Goto(c, "recv")
           /\ capacity' = [capacity EXCEPT ![c] = IF packet[c] = << >> THEN BufferSize ELSE @]
  <2>1. BufferSize \in Nat \ {0}
    BY SocketAssumption
  <2>2. /\ pc'[c] = "recv"
        /\ capacity'[c] = IF packet[c] = << >> THEN BufferSize ELSE capacity[c]
        /\ \A d \in Clients \ {c} : capacity'[d] = capacity[d]
    BY <1>2 DEF Goto, TypeInv, PacketInv, PacketTypes
  <2>3. PacketTypes'
    BY <1>1, <1>2, <2>1 DEF PacketInv, PacketTypes
  <2>4. (Len(packet[c]) >= 2 * BufferSize /\ ~Malformed(packet[c])) => Len(packet[c]) <= capacity'[c]
    <3>1. CASE packet[c] = << >>
      BY <2>1, <2>2, <3>1
    <3>2. CASE packet[c] # << >>
      BY <2>2, <3>2 DEF PacketInv, LongPacketsFit
    <3>3. QED
      BY <3>1, <3>2
  <2>5. (packet[c] # << >> /\ ~Malformed(packet[c])) => capacity'[c] = 2 * Len(packet[c])
    BY <1>1, <2>2 DEF PacketInv, BlocksDoubled
  <2>6. QED
    BY <1>1, <2>2, <2>3, <2>4, <2>5, PacketOfOne
<1>3. CASE Goto(c, "finish") /\ UNCHANGED capacity
  BY <1>1, <1>3, PacketElsewhere DEF Goto, TypeInv
<1>4. QED
  BY <1>2, <1>3 DEF Loop

(* A recv: whatever the piece, a packet that is long afterwards was at      *)
(* least BufferSize bytes long before, so that its block has room.          *)
LEMMA PacketRecv ==
  ASSUME PacketInv, TypeInv, NEW c \in Clients, NEW d \in Clients, NEW chunk \in Chunks,
         RecvFrom(c, d, chunk)
  PROVE  PacketInv'
<1>. DEFINE bytes == packet[c] \o chunk
<1>1. /\ pc[c] = "recv" /\ packet' = [packet EXCEPT ![c] = bytes] /\ UNCHANGED capacity
      /\ packet[c] \in Seq(Bytes) /\ capacity[c] \in Nat
  BY DEF RecvFrom, PacketInv, PacketTypes
<1>2. /\ bytes \in Seq(Bytes) /\ Len(bytes) \in Nat /\ bytes # << >>
      /\ Len(bytes) <= Len(packet[c]) + BufferSize /\ Len(packet[c]) \in Nat
      /\ BufferSize \in Nat \ {0}
      /\ Len(packet[c]) <= Len(bytes) /\ \A i \in 1 .. Len(packet[c]) : bytes[i] = packet[c][i]
  BY <1>1, ChunkStored, SocketAssumption
<1>3. /\ \/ pc'[c] \in {"extend", "lock", "ioctl"}
         \/ pc'[c] = "loop" /\ Malformed(bytes)
      /\ \A e \in Clients \ {c} : pc'[e] = pc[e]
  BY DEF RecvFrom, Goto, TypeInv
<1>. HIDE DEF bytes
<1>4. /\ packet' \in [Clients -> Seq(Bytes)] /\ packet'[c] = bytes
      /\ \A e \in Clients \ {c} : packet'[e] = packet[e]
  BY <1>1, <1>2 DEF PacketInv, PacketTypes
<1>5. PacketTypes'
  BY <1>1, <1>4 DEF PacketInv, PacketTypes
<1>6. (Len(bytes) >= 2 * BufferSize /\ ~Malformed(bytes)) => Len(bytes) <= capacity[c]
  <2>. SUFFICES ASSUME Len(bytes) >= 2 * BufferSize, ~Malformed(bytes)
                PROVE  Len(bytes) <= capacity[c]
    OBVIOUS
  <2>1. ~Malformed(packet[c])
    BY <1>1, <1>2, MalformedForever
  <2>2. Len(packet[c]) >= BufferSize
    BY <1>2
  <2>3. packet[c] # << >>
    BY <1>2, <2>2
  <2>4. capacity[c] = 2 * Len(packet[c])
    BY <1>1, <2>1, <2>3 DEF PacketInv, BlocksDoubled
  <2>5. QED
    BY <1>2, <2>2, <2>4
<1>7. QED
  BY <1>1, <1>2, <1>3, <1>4, <1>5, <1>6, PacketOfOne

(* The realloc doubles the block, or leaves it as it is when it fails. *)
LEMMA PacketExtend ==
  ASSUME PacketInv, TypeInv, NEW c \in Clients, Extend(c)
  PROVE  PacketInv'
<1>1. UNCHANGED packet /\ packet[c] \in Seq(Bytes)
  BY DEF Extend, PacketInv, PacketTypes
<1>2. CASE capacity' = [capacity EXCEPT ![c] = Extended(Len(packet[c]))] /\ Goto(c, "loop")
  <2>1. /\ pc'[c] = "loop" /\ \A d \in Clients \ {c} : pc'[d] = pc[d]
        /\ capacity' \in [Clients -> Nat] /\ capacity'[c] = 2 * Len(packet[c])
        /\ \A d \in Clients \ {c} : capacity'[d] = capacity[d]
    BY <1>1, <1>2 DEF Goto, TypeInv, PacketInv, PacketTypes, Extended
  <2>2. PacketTypes' /\ Len(packet[c]) <= 2 * Len(packet[c])
    BY <1>1, <2>1 DEF PacketInv, PacketTypes
  <2>3. QED
    BY <1>1, <2>1, <2>2, PacketOfOne
<1>3. CASE Goto(c, "finish") /\ UNCHANGED capacity
  BY <1>1, <1>3, PacketElsewhere DEF Goto, TypeInv
<1>4. QED
  BY <1>2, <1>3 DEF Extend

(* The end of handle_connection frees the block. *)
LEMMA PacketFinish ==
  ASSUME PacketInv, TypeInv, NEW c \in Clients, Finish(c)
  PROVE  PacketInv'
<1>1. /\ pc'[c] = "wrap" /\ packet'[c] = << >> /\ capacity'[c] = 0
      /\ \A d \in Clients \ {c} :
           pc'[d] = pc[d] /\ packet'[d] = packet[d] /\ capacity'[d] = capacity[d]
  BY DEF Finish, Goto, TypeInv, PacketInv, PacketTypes
<1>2. PacketTypes'
  BY DEF Finish, PacketInv, PacketTypes
<1>3. Len(packet'[c]) <= capacity'[c]
  BY <1>1
<1>4. QED
  BY <1>1, <1>2, <1>3, PacketOfOne

(* Every other step of a thread leaves the buffers alone. *)
LEMMA PacketThread ==
  ASSUME PacketInv, TypeInv, NEW c \in Clients, Recv(c) \/ Lock(c) \/ Run(c)
  PROVE  PacketInv'
<1>. DEFINE Same == UNCHANGED <<packet, capacity>>
            Moved == \/ UNCHANGED pc
                     \/ \E place \in (Going \ {"open", "recv", "loop"}) \cup {"dead"} : Goto(c, place)
<1>1. ASSUME Same, Moved
      PROVE  PacketInv'
  <2>1. \A d \in Clients : pc'[d] = pc[d] \/ pc'[d] \notin {"none", "accepted", "open", "recv", "loop"}
    BY <1>1 DEF Goto, TypeInv, Going
  <2>2. QED
    BY <1>1, <2>1, PacketElsewhere
<1>2. CASE Recv(c)
  <2>1. CASE \E d \in Clients, chunk \in Chunks : RecvFrom(c, d, chunk)
    BY <2>1, PacketRecv
  <2>2. CASE RecvEnds(c) \/ \E d \in Clients, chunk \in Chunks : RelayForeign(c, d, chunk)
    <3>1. Same /\ Moved
      BY <2>2 DEF RecvEnds, RelayForeign, locals, history, reading, Going
    <3>2. QED
      BY <1>1, <3>1
  <2>3. QED
    BY <1>2, <2>1, <2>2 DEF Recv
<1>3. CASE OpenData(c)
  <2>1. /\ pc[c] = "open" /\ Same
        /\ Goto(c, "loop") \/ Goto(c, "wrap")
    BY <1>3 DEF OpenData, history, reading
  <2>2. packet[c] = << >>
    BY <2>1 DEF PacketInv, BlocksDoubled
  <2>3. QED
    BY <2>1, <2>2, PacketElsewhere DEF Goto, TypeInv
<1>4. CASE Loop(c) \/ Extend(c) \/ Finish(c)
  BY <1>4, PacketLoop, PacketExtend, PacketFinish
<1>5. CASE Lock(c) \/ Write(c) \/ OpenRead(c) \/ Ioctl(c)
  <2>1. Same /\ Moved
    BY <1>5 DEF Lock, Write, OpenRead, OpenReadAt, Ioctl, locals, history, reading, Going
  <2>2. QED
    BY <1>1, <2>1
<1>6. CASE SeekRead(c) \/ ReadBack(c)
  <2>1. Same /\ Moved
    BY <1>6 DEF SeekRead, ReadBack, Relay, locals, reading, Going
  <2>2. QED
    BY <1>1, <2>1
<1>7. CASE CloseRead(c) \/ Wrap(c) \/ CloseClient(c)
  <2>1. CASE Wrap(c)
    BY <1>1, <2>1 DEF Wrap, history, reading, Going
  <2>2. CASE CloseRead(c) \/ CloseClient(c)
    <3>1. UNCHANGED <<packet, capacity>> /\ (Goto(c, "finish") \/ Goto(c, "dead"))
      BY <2>2 DEF CloseRead, CloseClient, CloseStep, locals, reading
    <3>2. QED
      BY <3>1, PacketElsewhere DEF Goto, TypeInv
  <2>3. QED
    BY <1>7, <2>1, <2>2
<1>8. QED
  BY <1>2, <1>3, <1>4, <1>5, <1>6, <1>7 DEF Run

(* main's steps, signals and the end of the process touch no buffer, and a *)
(* thread that main accepts or creates has no packet yet.                  *)
LEMMA PacketNext == PacketInv /\ EntriesInv /\ [Next]_vars => PacketInv'
<1>. SUFFICES ASSUME PacketInv, EntriesInv, [Next]_vars
              PROVE  PacketInv'
  OBVIOUS
<1>. TypeInv
  BY DEF EntriesInv
<1>1. CASE UNCHANGED <<packet, capacity, pc>>
  BY <1>1, PacketElsewhere
<1>2. CASE SignalShutdown \/ SignalFlag \/ SignalEarly \/ UNCHANGED vars
  BY <1>1, <1>2 DEF SignalShutdown, SignalFlag, SignalEarly, vars, locals, history, reading
<1>3. CASE Start \/ StartFails \/ MainTop \/ AcceptFails \/ Reap \/ ReapDone
  BY <1>1, <1>3
     DEF Start, StartFails, MainTop, AcceptFails, Reap, ReapDone, MainGoto, locals, reading
<1>4. CASE Exit \/ Join \/ JoinDone
  BY <1>1, <1>4 DEF Exit, Join, JoinDone, MainGoto, locals, reading
<1>5. CASE Create
  <2>. DEFINE c == Head(head)
  <2>1. UNCHANGED <<packet, capacity>> /\ (Goto(c, "open") \/ Goto(c, "refused"))
    BY <1>5 DEF Create, MainGoto, locals, reading
  <2>2. c \in Clients /\ packet[c] = << >>
    BY <1>5 DEF Create, EntriesInv, TypeInv, CreatesTheFirst, PacketInv, BlocksDoubled
  <2>3. QED
    BY <2>1, <2>2, PacketElsewhere DEF Goto, TypeInv
<1>6. ASSUME NEW c \in Clients, Accept(c)
      PROVE  PacketInv'
  <2>1. /\ UNCHANGED <<packet, capacity>> /\ pc[c] = "none"
        /\ pc' = [pc EXCEPT ![c] = "accepted"]
    BY <1>6 DEF Accept, history, reading
  <2>2. packet[c] = << >>
    BY <2>1 DEF PacketInv, BlocksDoubled
  <2>3. QED
    BY <2>1, <2>2, PacketElsewhere DEF TypeInv
<1>7. ASSUME NEW c \in Clients, Recv(c) \/ Lock(c) \/ Run(c)
      PROVE  PacketInv'
  BY <1>7, PacketThread
<1>8. ASSUME NEW c \in Clients, Sigpipe(c) \/ HeapAbort(c)
      PROVE  PacketInv'
  <2>1. /\ UNCHANGED <<packet, capacity>>
        /\ \A d \in Clients : pc'[d] = IF pc[d] = "none" THEN "none" ELSE "killed"
    BY <1>8 DEF Sigpipe, HeapAbort, Kill, locals, history, reading
  <2>2. QED
    BY <2>1, PacketElsewhere
<1>9. QED
  BY <1>2, <1>3, <1>4, <1>5, <1>6, <1>7, <1>8 DEF Next, Main

(* There are no packets yet. *)
LEMMA PacketInit == Init => PacketInv
BY SocketAssumption DEF Init, PacketInv, PacketTypes, LongPacketsFit, BlocksDoubled

(* So it holds in every execution. *)
LEMMA PacketHolds == Spec => []PacketInv
BY PacketInit, PacketNext, EntriesHold, PTL DEF Spec

(* handle_connection: from twice INITIAL_BUFFER_SIZE bytes on a packet stays *)
(* within its block, for every buffer size and every way a client cuts its   *)
(* bytes into pieces, unless a malformed seek has gone on with the block it  *)
(* had.  For shorter packets in pieces the code promises nothing.            *)
THEOREM LongPacketsAlwaysFit == Spec => []LongPacketsFit
<1>1. PacketInv => LongPacketsFit
  BY DEF PacketInv
<1>2. QED
  BY <1>1, PacketHolds, PTL

-----------------------------------------------------------------------------
(* Natural numbers and sequences.  The driver's proofs need some of the same *)
(* facts, but their module has other constants and cannot be shared.         *)

(* The order of the natural numbers is well founded. *)
LEMMA LeastNatural ==
  ASSUME NEW S \in SUBSET Nat, S # {}
  PROVE  \E m \in S : \A k \in S : m <= k
<1>1. PICK m \in S : \A k \in S : <<k, m>> \notin OpToRel(<, Nat)
  BY WFMin, NatLessThanWellFounded, Zenon
<1>2. \A k \in S : ~(k < m)
  BY <1>1 DEF OpToRel
<1> QED BY <1>2

(* So Min returns the least element. *)
LEMMA MinOf ==
  ASSUME NEW S \in SUBSET Nat, S # {}
  PROVE  Min(S) \in S /\ \A k \in S : Min(S) <= k
BY LeastNatural DEF Min

(* Induction, in the form that takes a set instead of a predicate. *)
LEMMA NatInduct ==
  ASSUME NEW T, 0 \in T, \A n \in Nat : n \in T => n + 1 \in T
  PROVE  Nat \subseteq T
<1> SUFFICES ASSUME Nat \ T # {} PROVE FALSE
  OBVIOUS
<1>1. PICK m \in Nat \ T : \A k \in Nat \ T : m <= k
  BY LeastNatural
<1>2. m # 0 /\ m - 1 \in Nat /\ m - 1 < m
  BY <1>1
<1>3. m - 1 \in T
  BY <1>1, <1>2
<1>4. (m - 1) + 1 = m
  BY <1>2
<1> QED BY <1>2, <1>3, <1>4

(* Sequences end to end.  The recursive function of FlattenSeq exists, and  *)
(* adds one sequence after the other.                                       *)

Flattens(F, S, seqs) ==
  /\ F \in [1 .. Len(seqs) -> Seq(S)]
  /\ F[1] = seqs[1]
  /\ \A i \in 1 .. Len(seqs) - 1 : F[i + 1] = F[i] \o seqs[i + 1]

(* A function that satisfies the recursive definition of FlattenSeq exists. *)
LEMMA FlattenExists ==
  ASSUME NEW seqs
  PROVE  \A n \in Nat : \E f : f = [i \in 1 .. n |-> IF i = 1 THEN seqs[i] ELSE f[i - 1] \o seqs[i]]
<1> DEFINE Is(f, n) == f = [i \in 1 .. n |-> IF i = 1 THEN seqs[i] ELSE f[i - 1] \o seqs[i]]
           T == {n \in Nat : \E f : Is(f, n)}
<1>1. 0 \in T
  <2> DEFINE f == [i \in 1 .. 0 |-> seqs[i]]
  <2>1. Is(f, 0)
    OBVIOUS
  <2> QED BY <2>1
<1>2. ASSUME NEW n \in Nat, n \in T PROVE n + 1 \in T
  <2>1. PICK f : Is(f, n)
    BY <1>2
  <2> DEFINE g == [i \in 1 .. n + 1 |->
                     IF i = n + 1 THEN IF i = 1 THEN seqs[i] ELSE f[n] \o seqs[i] ELSE f[i]]
             h == [i \in 1 .. n + 1 |-> IF i = 1 THEN seqs[i] ELSE g[i - 1] \o seqs[i]]
  <2>2. ASSUME NEW i \in 1 .. n + 1 PROVE g[i] = h[i]
    <3>1. CASE i = 1
      BY <2>1, <3>1
    <3>2. CASE i # 1 /\ i = n + 1
      <4>1. i - 1 = n /\ i - 1 \in 1 .. n + 1 /\ i - 1 # n + 1
        BY <3>2
      <4> QED BY <3>2, <4>1
    <3>3. CASE i # 1 /\ i # n + 1
      <4>1. i \in 1 .. n /\ i - 1 \in 1 .. n + 1 /\ i - 1 # n + 1
        BY <3>3
      <4>2. f[i] = f[i - 1] \o seqs[i]
        BY <2>1, <3>3, <4>1
      <4> QED BY <3>3, <4>1, <4>2
    <3> QED BY <3>1, <3>2, <3>3
  <2>3. g = h
    BY <2>2
  <2>4. Is(g, n + 1)
    BY <2>3
  <2> HIDE DEF g
  <2>5. \E f0 : Is(f0, n + 1)
    BY <2>4
  <2> HIDE DEF Is
  <2> QED BY <2>5
<1>3. Nat \subseteq T
  <2> HIDE DEF T
  <2> QED BY <1>1, <1>2, NatInduct
<1> QED BY <1>3

(* So FlattenSeq is the last value of one that concatenates step by step. *)
LEMMA FlattenFunction ==
  ASSUME NEW S, NEW seqs \in Seq(Seq(S)), seqs # << >>
  PROVE  \E F : Flattens(F, S, seqs) /\ FlattenSeq(seqs) = F[Len(seqs)]
<1>1. Len(seqs) \in Nat /\ Len(seqs) # 0
  OBVIOUS
<1> DEFINE F == CHOOSE f : f = [i \in 1 .. Len(seqs) |->
                                  IF i = 1 THEN seqs[i] ELSE f[i - 1] \o seqs[i]]
<1>2. F = [i \in 1 .. Len(seqs) |-> IF i = 1 THEN seqs[i] ELSE F[i - 1] \o seqs[i]]
  <2>1. \E f : f = [i \in 1 .. Len(seqs) |-> IF i = 1 THEN seqs[i] ELSE f[i - 1] \o seqs[i]]
    BY <1>1, FlattenExists
  <2> QED BY <2>1
<1>3. FlattenSeq(seqs) = F[Len(seqs)]
  BY <1>1 DEF FlattenSeq
<1> HIDE DEF F
<1>4. F[1] = seqs[1] /\ \A i \in 1 .. Len(seqs) - 1 : F[i + 1] = F[i] \o seqs[i + 1]
  <2>1. \A i \in 1 .. Len(seqs) : F[i] = IF i = 1 THEN seqs[i] ELSE F[i - 1] \o seqs[i]
    BY <1>2
  <2>2. ASSUME NEW i \in 1 .. Len(seqs) - 1 PROVE F[i + 1] = F[i] \o seqs[i + 1]
    <3>1. i + 1 \in 1 .. Len(seqs) /\ i + 1 # 1 /\ (i + 1) - 1 = i
      BY <1>1
    <3> QED BY <2>1, <3>1
  <2>3. F[1] = seqs[1]
    BY <1>1, <2>1
  <2> QED BY <2>2, <2>3
<1>5. \A i \in 1 .. Len(seqs) : F[i] \in Seq(S)
  <2> DEFINE T == {n \in Nat : n + 1 <= Len(seqs) => F[n + 1] \in Seq(S)}
  <2>1. 0 \in T
    BY <1>1, <1>4
  <2>2. ASSUME NEW n \in Nat, n \in T PROVE n + 1 \in T
    <3> SUFFICES ASSUME (n + 1) + 1 <= Len(seqs) PROVE F[(n + 1) + 1] \in Seq(S)
      OBVIOUS
    <3>1. n + 1 \in 1 .. Len(seqs) - 1 /\ (n + 1) + 1 \in 1 .. Len(seqs)
      BY <1>1
    <3>2. F[n + 1] \in Seq(S) /\ seqs[(n + 1) + 1] \in Seq(S)
      BY <1>1, <2>2, <3>1
    <3>3. F[(n + 1) + 1] = F[n + 1] \o seqs[(n + 1) + 1]
      BY <1>4, <3>1
    <3> QED BY <3>2, <3>3, ConcatProperties
  <2>3. Nat \subseteq T
    <3> HIDE DEF T
    <3> QED BY <2>1, <2>2, NatInduct
  <2>4. \A i \in 1 .. Len(seqs) : i - 1 \in T /\ (i - 1) + 1 = i
    <3> HIDE DEF T
    <3> QED BY <1>1, <2>3
  <2> QED BY <1>1, <2>4
<1> QED BY <1>2, <1>3, <1>4, <1>5 DEF Flattens

(* One more sequence goes behind the others. *)
LEMMA FlattenAppend ==
  ASSUME NEW S, NEW seqs \in Seq(Seq(S)), NEW s \in Seq(S)
  PROVE  /\ FlattenSeq(seqs) \in Seq(S)
         /\ FlattenSeq(Append(seqs, s)) = FlattenSeq(seqs) \o s
<1> DEFINE more == Append(seqs, s)
<1>1. /\ more \in Seq(Seq(S)) /\ more # << >> /\ Len(more) = Len(seqs) + 1 /\ Len(seqs) \in Nat
      /\ \A i \in 1 .. Len(seqs) : more[i] = seqs[i]
      /\ more[Len(seqs) + 1] = s
  BY AppendProperties
<1> HIDE DEF more
<1>2. PICK G : Flattens(G, S, more) /\ FlattenSeq(more) = G[Len(more)]
  BY <1>1, FlattenFunction
<1>3. CASE seqs = << >>
  <2>1. FlattenSeq(seqs) = << >> /\ Len(more) = 1
    BY <1>1, <1>3 DEF FlattenSeq
  <2>2. FlattenSeq(more) = s
    BY <1>1, <1>2, <1>3, <2>1 DEF Flattens
  <2> QED BY <2>1, <2>2, ConcatEmptySeq DEF more
<1>4. CASE seqs # << >>
  <2>1. PICK F : Flattens(F, S, seqs) /\ FlattenSeq(seqs) = F[Len(seqs)]
    BY <1>4, FlattenFunction
  <2>2. Len(seqs) \in Nat \ {0}
    BY <1>4
  <2> DEFINE T == {n \in Nat : n + 1 <= Len(seqs) => F[n + 1] = G[n + 1]}
  <2>3. 0 \in T
    BY <1>1, <1>2, <2>1, <2>2 DEF Flattens
  <2>4. ASSUME NEW n \in Nat, n \in T PROVE n + 1 \in T
    <3> SUFFICES ASSUME (n + 1) + 1 <= Len(seqs) PROVE F[(n + 1) + 1] = G[(n + 1) + 1]
      OBVIOUS
    <3>1. /\ n + 1 \in 1 .. Len(seqs) - 1 /\ n + 1 \in 1 .. Len(more) - 1
          /\ (n + 1) + 1 \in 1 .. Len(seqs)
      BY <1>1, <2>2
    <3>2. F[(n + 1) + 1] = F[n + 1] \o seqs[(n + 1) + 1]
      BY <2>1, <3>1 DEF Flattens
    <3>3. G[(n + 1) + 1] = G[n + 1] \o more[(n + 1) + 1]
      BY <1>2, <3>1 DEF Flattens
    <3>4. F[n + 1] = G[n + 1]
      BY <2>2, <2>4, <3>1
    <3> QED BY <1>1, <3>1, <3>2, <3>3, <3>4
  <2>5. Nat \subseteq T
    <3> HIDE DEF T
    <3> QED BY <2>3, <2>4, NatInduct
  <2>6. F[Len(seqs)] = G[Len(seqs)]
    <3>1. Len(seqs) - 1 \in T /\ (Len(seqs) - 1) + 1 = Len(seqs)
      <4> HIDE DEF T
      <4> QED BY <2>2, <2>5
    <3> QED BY <2>2, <3>1
  <2>7. G[Len(seqs) + 1] = G[Len(seqs)] \o more[Len(seqs) + 1]
    <3>1. Len(seqs) \in 1 .. Len(more) - 1
      BY <1>1, <2>2
    <3> QED BY <1>2, <3>1 DEF Flattens
  <2>8. FlattenSeq(seqs) \in Seq(S)
    <3>1. Len(seqs) \in 1 .. Len(seqs)
      BY <2>2
    <3> QED BY <2>1, <3>1 DEF Flattens
  <2> QED BY <1>1, <1>2, <2>1, <2>6, <2>7, <2>8 DEF more
<1> QED BY <1>3, <1>4

(* What sequences of a set add up to is one of it. *)
LEMMA FlattenType ==
  ASSUME NEW S, NEW seqs \in Seq(Seq(S))
  PROVE  FlattenSeq(seqs) \in Seq(S)
<1>1. << >> \in Seq(S)
  OBVIOUS
<1> QED BY <1>1, FlattenAppend

-----------------------------------------------------------------------------
(* The line device counts newlines to say where commands end. *)
Upto(P, i) == {j \in P : j <= i}
Beyond(P, i) == {j \in P : j > i}
Rank(P, i) == Cardinality(Upto(P, i))

(* One more position up to the first one beyond i. *)
LEMMA RankNext ==
  ASSUME NEW P \in SUBSET Nat, IsFiniteSet(P), NEW i \in Nat, Beyond(P, i) # {}
  PROVE  /\ Min(Beyond(P, i)) \in P /\ Min(Beyond(P, i)) > i
         /\ \A j \in P : j > i => Min(Beyond(P, i)) <= j
         /\ Rank(P, Min(Beyond(P, i))) = Rank(P, i) + 1
         /\ Rank(P, i) \in Nat /\ Rank(P, i) < Cardinality(P)
<1> DEFINE m == Min(Beyond(P, i))
<1>1. Beyond(P, i) \in SUBSET Nat
  BY DEF Beyond
<1>2. m \in Beyond(P, i) /\ \A j \in Beyond(P, i) : m <= j
  BY <1>1, MinOf
<1>3. m \in P /\ m \in Nat /\ m > i /\ \A j \in P : j > i => m <= j
  BY <1>2 DEF Beyond
<1> HIDE DEF m
<1>4. Upto(P, m) = Upto(P, i) \cup {m} /\ m \notin Upto(P, i) /\ Upto(P, i) \in SUBSET P
  <2>1. ASSUME NEW j \in P PROVE j <= m <=> j <= i \/ j = m
    <3>1. j \in Nat
      OBVIOUS
    <3> QED BY <1>3, <3>1
  <2>2. Upto(P, m) = Upto(P, i) \cup {m}
    BY ONLY <1>3, <2>1 DEF Upto
  <2>3. ~(m <= i)
    BY <1>3
  <2> QED BY <2>2, <2>3 DEF Upto
<1>5. IsFiniteSet(Upto(P, i)) /\ Cardinality(Upto(P, i)) <= Cardinality(P)
      /\ (Cardinality(P) = Cardinality(Upto(P, i)) => P = Upto(P, i))
  BY <1>4, FS_Subset
<1>6. Cardinality(Upto(P, i) \cup {m}) = Cardinality(Upto(P, i)) + 1
  BY <1>4, <1>5, FS_AddElement
<1>7. P # Upto(P, i) /\ Cardinality(P) \in Nat /\ Cardinality(Upto(P, i)) \in Nat
  BY <1>3, <1>4, <1>5, FS_CardinalityType
<1> QED BY <1>3, <1>4, <1>5, <1>6, <1>7 DEF Rank, m

(* Nothing is beyond i exactly when all positions are up to it. *)
LEMMA RankLast ==
  ASSUME NEW P \in SUBSET Nat, IsFiniteSet(P), NEW i \in Nat
  PROVE  Beyond(P, i) = {} <=> Rank(P, i) = Cardinality(P)
<1>1. CASE Beyond(P, i) = {}
  <2>1. \A j \in P : j \in Nat /\ ~(j > i)
    BY <1>1 DEF Beyond
  <2>2. \A j \in P : j <= i
    BY <2>1
  <2>3. Upto(P, i) = P
    BY <2>2 DEF Upto
  <2> QED BY <1>1, <2>3 DEF Rank
<1>2. CASE Beyond(P, i) # {}
  <2>1. Rank(P, i) \in Nat /\ Rank(P, i) < Cardinality(P) /\ Cardinality(P) \in Nat
    BY <1>2, RankNext, FS_CardinalityType
  <2> QED BY <1>2, <2>1
<1> QED BY <1>1, <1>2

(* Where the k-th command of s ends: at 0 the first one begins. *)
NewlinesIn(s) == {i \in 1 .. Len(s) : s[i] = NL}
Cut(s, k) == IF k = 0 THEN 0 ELSE Dev!Ends(s)[k]

(* Ends, with the rank of a newline for the count in it. *)
LEMMA EndsOf ==
  ASSUME NEW s
  PROVE  Dev!Ends(s) = [k \in 1 .. Cardinality(NewlinesIn(s)) |->
                            CHOOSE i \in NewlinesIn(s) : Rank(NewlinesIn(s), i) = k]
BY Zenon DEF Dev!Ends, Dev!Cardinality, Cardinality, NewlinesIn, Rank, Upto

(* A sequence has finitely many newlines. *)
LEMMA NewlinesFinite ==
  ASSUME NEW S, NEW s \in Seq(S)
  PROVE  /\ NewlinesIn(s) \in SUBSET Nat /\ IsFiniteSet(NewlinesIn(s))
         /\ Cardinality(NewlinesIn(s)) \in Nat
         /\ Len(Dev!Ends(s)) = Cardinality(NewlinesIn(s))
<1>1. NewlinesIn(s) \in SUBSET (1 .. Len(s)) /\ Len(s) \in Nat
  BY DEF NewlinesIn
<1>2. IsFiniteSet(1 .. Len(s))
  BY <1>1, FS_Interval
<1>3. IsFiniteSet(NewlinesIn(s)) /\ Cardinality(NewlinesIn(s)) \in Nat
  BY <1>1, <1>2, FS_Subset, FS_CardinalityType
<1>4. Len(Dev!Ends(s)) = Cardinality(NewlinesIn(s))
  BY <1>3, EndsOf
<1> QED BY <1>1, <1>3, <1>4

(* The k-th command ends at the newline with k newlines up to it. *)
LEMMA CutRanks ==
  ASSUME NEW S, NEW s \in Seq(S)
  PROVE  /\ \A k \in 0 .. Len(Dev!Ends(s)) :
              /\ Cut(s, k) \in 0 .. Len(s) /\ Rank(NewlinesIn(s), Cut(s, k)) = k
              /\ k # 0 => Cut(s, k) \in NewlinesIn(s)
<1> DEFINE P == NewlinesIn(s)
           n == Cardinality(P)
           Good(k) == /\ Cut(s, k) \in 0 .. Len(s) /\ Rank(P, Cut(s, k)) = k
                      /\ k # 0 => Cut(s, k) \in P
           T == {k \in Nat : k <= n => Good(k)}
<1>1. /\ P \in SUBSET Nat /\ IsFiniteSet(P) /\ n \in Nat /\ Len(Dev!Ends(s)) = n
      /\ P \in SUBSET (1 .. Len(s)) /\ Len(s) \in Nat
  <2>1. P \in SUBSET (1 .. Len(s)) /\ Len(s) \in Nat
    BY DEF NewlinesIn
  <2> QED BY <2>1, NewlinesFinite
<1>2. 0 \in T
  <2>1. Upto(P, 0) = {}
    BY <1>1 DEF Upto
  <2>2. Cardinality({}) = 0
    BY FS_EmptySet
  <2>3. Cut(s, 0) = 0 /\ Rank(P, 0) = 0
    BY <2>1, <2>2 DEF Cut, Rank
  <2>4. Good(0)
    BY <1>1, <2>3
  <2> QED BY <2>4
<1>3. ASSUME NEW k \in Nat, k \in T, k + 1 <= n
      PROVE  Good(k + 1)
  <2> DEFINE c == Cut(s, k)
  <2>1. c \in Nat /\ Rank(P, c) = k /\ k < n
    <3>1. Good(k) /\ k < n
      BY <1>1, <1>3
    <3> QED BY <1>1, <3>1
  <2>2. Beyond(P, c) # {}
    BY <1>1, <2>1, RankLast
  <2>3. Min(Beyond(P, c)) \in P /\ Rank(P, Min(Beyond(P, c))) = k + 1
    BY <1>1, <2>1, <2>2, RankNext
  <2> DEFINE l == k + 1
  <2>4. l \in 1 .. n
    BY <1>1, <2>1
  <2>5. \E i \in P : Rank(P, i) = l
    BY <2>3
  <2> HIDE DEF l
  <2>6. Cut(s, l) = CHOOSE i \in P : Rank(P, i) = l
    BY <2>4, <1>1, EndsOf DEF Cut
  <2>7. Cut(s, l) \in P /\ Rank(P, Cut(s, l)) = l
    BY <2>5, <2>6
  <2> QED BY <1>1, <2>7 DEF l
<1>4. \A k \in Nat : k \in T => k + 1 \in T
  BY <1>3
<1>5. Nat \subseteq T
  <2> HIDE DEF T
  <2> QED BY <1>2, <1>4, NatInduct
<1> QED BY <1>1, <1>5

(* The commands that the bytes s complete. *)
LEMMA CommandsType ==
  ASSUME NEW S, NEW s \in Seq(S)
  PROVE  /\ Dev!Commands(s) \in Seq(Seq(S))
         /\ Len(Dev!Commands(s)) = Len(Dev!Ends(s)) /\ Len(Dev!Ends(s)) \in Nat
<1> DEFINE c == Dev!Commands(s)
           n == Len(Dev!Ends(s))
<1>1. n \in Nat
  BY NewlinesFinite
<1>2. ASSUME NEW i \in 1 .. n
      PROVE  SubSeq(s, (IF i = 1 THEN 0 ELSE Dev!Ends(s)[i - 1]) + 1, Dev!Ends(s)[i]) \in Seq(S)
  <2> DEFINE a == IF i = 1 THEN 0 ELSE Dev!Ends(s)[i - 1]
             b == Dev!Ends(s)[i]
  <2>1. b \in 0 .. Len(s)
    <3>1. i \in 0 .. n /\ b = Cut(s, i)
      BY DEF Cut
    <3> QED BY <3>1, CutRanks
  <2>2. a \in 0 .. Len(s)
    <3> DEFINE h == i - 1
    <3>1. h \in 0 .. n /\ a = Cut(s, h)
      BY <1>1 DEF Cut
    <3> HIDE DEF h
    <3> QED BY <3>1, CutRanks
  <2> HIDE DEF a, b
  <2>3. SubSeq(s, a + 1, b) \in Seq(S)
    BY <2>1, <2>2
  <2> QED BY <2>3 DEF a, b
<1>3. c = [i \in 1 .. n |-> SubSeq(s, (IF i = 1 THEN 0 ELSE Dev!Ends(s)[i - 1]) + 1, Dev!Ends(s)[i])]
  BY DEF Dev!Commands
<1> QED BY <1>1, <1>2, <1>3


(* s is how t begins. *)
Starts(s, t) == Len(s) <= Len(t) /\ \A i \in 1 .. Len(s) : t[i] = s[i]

(* An append leaves the beginning alone. *)
LEMMA StartsAppend ==
  ASSUME NEW S, NEW s \in Seq(S), NEW t \in Seq(S), NEW u \in Seq(S), Starts(s, t)
  PROVE  Starts(s, t \o u)
BY DEF Starts

(* The more lines, the longer the contents: what the first k of them are    *)
(* end to end is how any more of them begin.                                *)
LEMMA FlattenGrows ==
  ASSUME NEW S, NEW seqs \in Seq(Seq(S)), NEW k \in 0 .. Len(seqs)
  PROVE  \A m \in 0 .. Len(seqs) :
           k <= m => Starts(FlattenSeq(SubSeq(seqs, 1, k)), FlattenSeq(SubSeq(seqs, 1, m)))
<1> DEFINE F(m) == FlattenSeq(SubSeq(seqs, 1, m))
           T == {n \in Nat : k + n <= Len(seqs) => Starts(F(k), F(k + n))}
<1>1. \A m \in 0 .. Len(seqs) : SubSeq(seqs, 1, m) \in Seq(Seq(S))
  OBVIOUS
<1>2. \A m \in 0 .. Len(seqs) : F(m) \in Seq(S)
  BY <1>1, FlattenType
<1>3. ASSUME NEW m \in 0 .. Len(seqs), m + 1 <= Len(seqs)
      PROVE  F(m + 1) = F(m) \o seqs[m + 1] /\ seqs[m + 1] \in Seq(S)
  <2>1. SubSeq(seqs, 1, m + 1) = Append(SubSeq(seqs, 1, m), seqs[m + 1])
    BY <1>3
  <2>2. seqs[m + 1] \in Seq(S)
    BY <1>3
  <2>3. SubSeq(seqs, 1, m) \in Seq(Seq(S))
    BY <1>1
  <2> QED BY <2>1, <2>2, <2>3, FlattenAppend
<1> HIDE DEF F
<1>4. 0 \in T
  <2>1. k + 0 = k /\ F(k) \in Seq(S)
    BY <1>2
  <2> QED BY <2>1 DEF Starts
<1>5. ASSUME NEW n \in Nat, n \in T PROVE n + 1 \in T
  <2> SUFFICES ASSUME k + (n + 1) <= Len(seqs) PROVE Starts(F(k), F(k + (n + 1)))
    OBVIOUS
  <2>1. PICK m \in 0 .. Len(seqs) : m = k + n /\ k + (n + 1) = m + 1 /\ m + 1 <= Len(seqs)
    <3>1. k + n \in 0 .. Len(seqs) /\ k + (n + 1) = (k + n) + 1
      OBVIOUS
    <3> QED BY <3>1
  <2>2. Starts(F(k), F(m)) /\ F(k) \in Seq(S) /\ F(m) \in Seq(S)
    BY <1>2, <1>5, <2>1
  <2>3. F(m + 1) = F(m) \o seqs[m + 1] /\ seqs[m + 1] \in Seq(S)
    BY <1>3, <2>1
  <2>4. Starts(F(k), F(m + 1))
    BY <2>2, <2>3, StartsAppend
  <2> QED BY <2>1, <2>4
<1>6. Nat \subseteq T
  <2> HIDE DEF T
  <2> QED BY <1>4, <1>5, NatInduct
<1>7. ASSUME NEW m \in 0 .. Len(seqs), k <= m PROVE Starts(F(k), F(m))
  <2>1. PICK n \in Nat : m = k + n
    <3>1. m - k \in Nat /\ m = k + (m - k)
      BY <1>7
    <3> QED BY <3>1
  <2>2. n \in T
    BY <1>6
  <2> QED BY <2>1, <2>2
<1> QED BY <1>7 DEF F

(* The contents are those of all the lines, and no line ends behind them. *)
LEMMA ContentsShape ==
  ASSUME NEW S, lines \in Seq(Seq(S))
  PROVE  /\ Dev!Contents \in Seq(S)
         /\ Dev!LineEnd(0) = 0 /\ Dev!LineEnd(Len(lines)) = Len(Dev!Contents)
         /\ \A k \in 0 .. Len(lines) : Dev!LineEnd(k) \in 0 .. Len(Dev!Contents)
         /\ \A k \in 1 .. Len(lines) : Dev!LineEnd(k) = Dev!LineEnd(k - 1) + Len(lines[k])
<1> DEFINE F(m) == FlattenSeq(SubSeq(lines, 1, m))
<1>1. Len(lines) \in Nat /\ SubSeq(lines, 1, Len(lines)) = lines /\ SubSeq(lines, 1, 0) = << >>
      /\ \A m \in 0 .. Len(lines) : SubSeq(lines, 1, m) \in Seq(Seq(S))
  OBVIOUS
<1>2. \A m \in Nat : Dev!LineEnd(m) = Len(F(m))
  BY Zenon DEF Dev!LineEnd, Dev!FlattenSeq, FlattenSeq
<1>3. Dev!Contents = F(Len(lines))
  <2>1. Dev!Contents = FlattenSeq(lines)
    BY Zenon DEF Dev!Contents, Dev!FlattenSeq, FlattenSeq
  <2> QED BY <1>1, <2>1
<1>4. F(0) = << >>
  BY <1>1 DEF FlattenSeq
<1>5. \A m \in 0 .. Len(lines) : F(m) \in Seq(S)
  BY <1>1, FlattenType
<1>6. ASSUME NEW k \in 1 .. Len(lines) PROVE Len(F(k)) = Len(F(k - 1)) + Len(lines[k])
  <2>1. PICK l \in 0 .. Len(lines) : l = k - 1 /\ k = l + 1
    <3>1. k - 1 \in 0 .. Len(lines) /\ k = (k - 1) + 1
      BY <1>1
    <3> QED BY <3>1
  <2>2. SubSeq(lines, 1, k) = Append(SubSeq(lines, 1, l), lines[k])
    BY <1>1, <2>1
  <2>3. SubSeq(lines, 1, l) \in Seq(Seq(S)) /\ lines[k] \in Seq(S)
    BY <1>1
  <2>4. F(k) = F(l) \o lines[k]
    BY <2>2, <2>3, FlattenAppend
  <2>5. F(l) \in Seq(S)
    BY <1>5
  <2> HIDE DEF F
  <2>6. Len(F(l) \o lines[k]) = Len(F(l)) + Len(lines[k])
    BY <2>3, <2>5
  <2> QED BY <2>1, <2>4, <2>6
<1>7. \A k \in 0 .. Len(lines) : Len(F(k)) \in Nat /\ Len(F(k)) <= Len(F(Len(lines)))
  <2>1. \A k \in 0 .. Len(lines) : Starts(F(k), F(Len(lines)))
    <3>1. Len(lines) \in 0 .. Len(lines) /\ \A k \in 0 .. Len(lines) : k <= Len(lines)
      BY <1>1
    <3> QED BY <3>1, FlattenGrows
  <2> HIDE DEF F
  <2> QED BY <1>5, <2>1 DEF Starts
<1> HIDE DEF F
<1>8. F(Len(lines)) \in Seq(S) /\ Len(F(0)) = 0
  BY <1>1, <1>4, <1>5
<1>9. \A k \in 1 .. Len(lines) : k \in Nat /\ k - 1 \in Nat
  BY <1>1
<1>10. Dev!LineEnd(0) = 0 /\ Dev!LineEnd(Len(lines)) = Len(Dev!Contents)
  BY <1>1, <1>2, <1>3, <1>8
<1>11. ASSUME NEW k \in 0 .. Len(lines) PROVE Dev!LineEnd(k) \in 0 .. Len(Dev!Contents)
  <2>1. Dev!LineEnd(k) = Len(F(k)) /\ Len(F(k)) \in Nat /\ Len(F(k)) <= Len(F(Len(lines)))
    BY <1>1, <1>2, <1>7
  <2>2. Len(F(Len(lines))) = Len(Dev!Contents) /\ Len(Dev!Contents) \in Nat
    BY <1>3, <1>8
  <2> QED BY <2>1, <2>2
<1>12. ASSUME NEW k \in 1 .. Len(lines)
       PROVE  Dev!LineEnd(k) = Dev!LineEnd(k - 1) + Len(lines[k])
  BY <1>2, <1>6, <1>9
<1> QED BY <1>3, <1>8, <1>10, <1>11, <1>12

(* A read finds a piece of the contents behind its position, and nothing    *)
(* only when the position is the end.                                       *)
LEMMA ReadAtShape ==
  ASSUME NEW S, lines \in Seq(Seq(S)), NEW pos \in 0 .. Len(Dev!Contents), NEW count \in Nat \ {0}
  PROVE  \E m \in pos .. Len(Dev!Contents) :
           /\ Dev!ReadAt(pos, count) = SubSeq(Dev!Contents, pos + 1, m)
           /\ m = pos => pos = Len(Dev!Contents)
<1> DEFINE behind == {k \in 1 .. Len(lines) : pos < Dev!LineEnd(k)}
           C == Dev!Contents
<1>1. /\ C \in Seq(S) /\ Len(C) \in Nat /\ Len(lines) \in Nat
      /\ Dev!LineEnd(0) = 0 /\ Dev!LineEnd(Len(lines)) = Len(C)
      /\ \A k \in 0 .. Len(lines) : Dev!LineEnd(k) \in 0 .. Len(C)
  BY ContentsShape
<1> HIDE DEF C
<1>2. CASE behind = {}
  <2>1. pos = Len(C)
    <3>1. CASE Len(lines) = 0
      BY <1>1, <3>1 DEF C
    <3>2. CASE Len(lines) # 0
      <4>1. Len(lines) \in 1 .. Len(lines)
        BY <1>1, <3>2
      <4>2. ~(pos < Dev!LineEnd(Len(lines)))
        BY <1>2, <4>1
      <4> QED BY <1>1, <4>2 DEF C
    <3> QED BY <3>1, <3>2
  <2>2. Dev!ReadAt(pos, count) = << >>
    BY <1>2 DEF Dev!ReadAt
  <2>3. SubSeq(C, pos + 1, pos) = << >>
    BY <1>1
  <2> QED BY <1>1, <2>1, <2>2, <2>3 DEF C
<1>3. CASE behind # {}
  <2>1. PICK k \in 1 .. Len(lines) : k = Min(behind) /\ pos < Dev!LineEnd(k)
    <3>1. behind \in SUBSET Nat
      BY <1>1
    <3>2. Min(behind) \in behind
      BY <1>3, <3>1, MinOf
    <3> QED BY <3>2
  <2>2. PICK e \in Nat : e = Dev!LineEnd(k) /\ pos < e /\ e <= Len(C)
    <3>1. k \in 0 .. Len(lines)
      BY <1>1
    <3>2. Dev!LineEnd(k) \in 0 .. Len(C)
      BY <1>1, <3>1
    <3>3. Dev!LineEnd(k) \in Nat /\ Dev!LineEnd(k) <= Len(C)
      BY <1>1, <3>2
    <3> QED BY <2>1, <3>3
  <2>3. PICK a \in Nat : a = pos + count /\ pos < a
    <3>1. pos + count \in Nat /\ pos < pos + count
      BY <1>1 DEF C
    <3> QED BY <3>1
  <2>4. PICK m : m = Min({a, e})
    OBVIOUS
  <2>5. m \in {a, e} /\ m <= e
    <3>1. {a, e} \in SUBSET Nat /\ {a, e} # {}
      OBVIOUS
    <3> QED BY <2>4, <3>1, MinOf
  <2>6. Dev!ReadAt(pos, count) = SubSeq(C, pos + 1, m)
    <3>1. Dev!ReadAt(pos, count) = SubSeq(C, pos + 1, Min({pos + count, Dev!LineEnd(Min(behind))}))
      BY <1>3, Zenon DEF Dev!ReadAt, Dev!Min, Min, C
    <3> QED BY <2>1, <2>2, <2>3, <2>4, <3>1
  <2>7. m \in pos .. Len(C) /\ m # pos
    BY <1>1, <2>2, <2>3, <2>5 DEF C
  <2> QED BY <2>6, <2>7 DEF C
<1> QED BY <1>2, <1>3

(* The byte that a seek looks for is in the contents. *)
LEMMA PositionInside ==
  ASSUME NEW S, lines \in Seq(Seq(S)), NEW cmd \in Nat, NEW offset \in Nat,
         Dev!HasByte(cmd, offset)
  PROVE  Dev!Position(cmd, offset) \in 0 .. Len(Dev!Contents)
<1>1. PICK k \in 1 .. Len(lines) : k = cmd + 1 /\ cmd = k - 1 /\ offset < Len(lines[k])
  <2>1. cmd + 1 \in 1 .. Len(lines) /\ cmd = (cmd + 1) - 1
    BY DEF Dev!HasByte
  <2> QED BY <2>1 DEF Dev!HasByte
<1>2. /\ Dev!LineEnd(k) \in 0 .. Len(Dev!Contents)
      /\ Dev!LineEnd(cmd) \in 0 .. Len(Dev!Contents)
      /\ Dev!LineEnd(k) = Dev!LineEnd(cmd) + Len(lines[k])
  <2>1. Len(lines) \in Nat /\ k \in 0 .. Len(lines) /\ cmd \in 0 .. Len(lines)
    BY <1>1
  <2> QED BY <1>1, <2>1, ContentsShape
<1>3. lines[k] \in Seq(S) /\ Len(Dev!Contents) \in Nat
  BY ContentsShape
<1>4. PICK size, end, all \in Nat :
        size = Len(lines[k]) /\ end = Dev!LineEnd(cmd) /\ all = Len(Dev!Contents)
  BY <1>2, <1>3
<1>5. end + size <= all /\ offset < size
  <2>1. Dev!LineEnd(k) = end + size /\ Dev!LineEnd(k) <= all
    BY <1>2, <1>4
  <2> QED BY <1>1, <1>4, <2>1
<1>6. end + offset \in 0 .. all
  BY <1>5
<1>7. Dev!LineEnd(cmd) + offset \in 0 .. Len(Dev!Contents)
  BY <1>4, <1>6
<1> QED BY <1>7 DEF Dev!Position

-----------------------------------------------------------------------------
(* The answers.  Where a thread is while its data file is open, and while    *)
(* it has sent nothing.                                                      *)
Serving == {"loop", "recv", "extend", "lock", "write", "openr", "readback", "close", "ioctl",
            "seekread", "finish"}
Silent == {"none", "accepted", "open", "loop", "recv", "extend", "lock", "write", "openr", "ioctl"}

(* What c has sent are the contents from its start to its position in file. *)
Sent(c, file) ==
  /\ f_pos[file] \in from[c] .. Len(Dev!Contents)
  /\ resp[c] = SubSeq(Dev!Contents, from[c] + 1, f_pos[file])

(* A thread's descriptors lead to its own files, and it never takes one for *)
(* the other, as long as nobody has closed a descriptor of another's.       *)
Answering(c) ==
  /\ from[c] \in Nat
  /\ pc[c] \in Silent => from[c] = 0 /\ resp[c] = << >>
  /\ pc[c] \in {"none", "accepted", "open"} => my_file_read[c] = -1
  /\ pc[c] \in Serving =>
       data_fd[c] \in Fds /\ fds[data_fd[c]] = DataFile(c) /\ my_file_read[c] # data_fd[c]
  /\ pc[c] = "readback" => my_file_read[c] \in Fds /\ fds[my_file_read[c]] = ReadFile(c)
  /\ pc[c] = "readback" /\ c \notin overrun => Sent(c, ReadFile(c))
  /\ pc[c] = "seekread" /\ c \notin overrun => Sent(c, DataFile(c))

DeviceTypes == lines \in Seq(Seq(Bytes)) /\ tail \in Seq(Bytes)

Domains ==
  /\ DOMAIN fds = Fds
  /\ DOMAIN data_fd = Clients /\ DOMAIN my_file_read = Clients
  /\ DOMAIN from = Clients /\ DOMAIN resp = Clients
  /\ DOMAIN f_pos = {"data", "read"} \X Clients

(* The descriptor an accept waits with is nobody else's. *)
AcceptReserves == main_pc = "accept" => accept_fd \in Fds /\ fds[accept_fd] = Reserved

AnswerInv ==
  /\ DeviceTypes /\ Domains /\ AcceptReserves
  /\ ~stray => \A c \in Clients : Answering(c)

-----------------------------------------------------------------------------
(* A new descriptor is one that was free; all others lead where they did. *)
LEMMA DescriptorTakes ==
  ASSUME DOMAIN fds = Fds, NEW what, Descriptor(what)
  PROVE  /\ DOMAIN fds' = Fds
         /\ Min(FreeFds) \in Fds /\ fds[Min(FreeFds)] = NULL /\ fds'[Min(FreeFds)] = what
         /\ \A x \in Fds : fds[x] # NULL => fds'[x] = fds[x]
<1>1. FreeFds \in SUBSET Nat /\ FreeFds # {}
  BY SocketAssumption DEF FreeFds, Fds, Descriptor
<1>2. Min(FreeFds) \in FreeFds
  BY <1>1, MinOf
<1>3. fds' = [fds EXCEPT ![Min(FreeFds)] = what]
  BY DEF Descriptor
<1> QED BY <1>2, <1>3 DEF FreeFds

(* What a descriptor may lead to is not NULL, and a number is not either. *)
LEMMA NotNull ==
  /\ \A c \in Clients : DataFile(c) # NULL /\ ReadFile(c) # NULL /\ c # NULL
  /\ Reserved # NULL /\ Closed # NULL
<1>1. \A c \in Clients : c # NULL
  BY SocketAssumption
<1>2. ASSUME NEW c \in Clients PROVE DataFile(c) # NULL /\ ReadFile(c) # NULL
  BY SocketAssumption DEF DataFile, ReadFile
<1>3. Reserved # NULL /\ Closed # NULL
  BY SocketAssumption DEF Reserved, Closed
<1> QED BY <1>1, <1>2, <1>3

(* Where the files of d are is left alone. *)
Untouched(d) == \A x \in Fds : fds[x] \in {DataFile(d), ReadFile(d)} => fds'[x] = fds[x]

(* A close on behalf of c that is not astray touches one descriptor, and no *)
(* file of another.                                                         *)
LEMMA CloseTakes ==
  ASSUME DOMAIN fds = Fds, NEW c \in Clients, NEW fd, Close(c, fd)
  PROVE  /\ DOMAIN fds' = Fds
         /\ \A x \in Fds : x # fd \/ fds[x] = Reserved => fds'[x] = fds[x]
         /\ ~stray' => ~stray /\ \A d \in Clients \ {c} : Untouched(d)
<1> DEFINE file == File(fd)
<1>1. /\ fds' = IF file \in {Closed, Reserved} THEN fds ELSE [fds EXCEPT ![fd] = NULL]
      /\ stray' = (stray \/ file[2] \notin {NULL, c})
  BY DEF Close
<1>2. file = IF fd \in Fds /\ fds[fd] # NULL THEN fds[fd] ELSE Closed
  BY DEF File
<1> HIDE DEF file
<1>3. DOMAIN fds' = Fds /\ \A x \in Fds : x # fd => fds'[x] = fds[x]
  BY <1>1
<1>4. ASSUME fd \in Fds, fds[fd] = Reserved PROVE fds'[fd] = fds[fd]
  BY <1>1, <1>2, <1>4, NotNull
<1>5. ASSUME ~stray' PROVE ~stray /\ \A d \in Clients \ {c} : Untouched(d)
  <2>1. ~stray /\ file[2] \in {NULL, c}
    BY <1>1, <1>5
  <2>2. ASSUME NEW d \in Clients \ {c}, fd \in Fds, fds[fd] \in {DataFile(d), ReadFile(d)}
        PROVE  FALSE
    <3>1. file = fds[fd]
      BY <1>2, <2>2, NotNull
    <3>2. file[2] = d
      BY <2>2, <3>1 DEF DataFile, ReadFile
    <3> QED BY <2>1, <3>2, NotNull
  <2> QED BY <1>3, <2>1, <2>2 DEF Untouched
<1> QED BY <1>3, <1>4, <1>5

-----------------------------------------------------------------------------
Early == {"none", "accepted", "open"}
Reading == {"readback", "seekread"}

(* A thread stays where it is, or goes on to where no more is asked of it. *)
Onward(d) ==
  /\ pc'[d] \in Silent => pc[d] \in Silent
  /\ pc'[d] \in Early => pc[d] \in Early
  /\ pc'[d] \in Serving => pc[d] \in Serving
  /\ pc'[d] \in Reading => pc'[d] = pc[d]

(* The descriptors, the files and the history of a thread are left alone. *)
Alone(d) ==
  /\ data_fd'[d] = data_fd[d] /\ my_file_read'[d] = my_file_read[d]
  /\ from'[d] = from[d] /\ resp'[d] = resp[d]
  /\ f_pos'[DataFile(d)] = f_pos[DataFile(d)] /\ f_pos'[ReadFile(d)] = f_pos[ReadFile(d)]

(* What a thread has read so far stays what it was, or is known to be spoilt. *)
ContentsStay(d) ==
  pc[d] \in Reading /\ d \notin overrun' => Starts(Dev!Contents, (Dev!Contents)')

(* The contents before and after a step are bytes. *)
LEMMA ContentsTypes ==
  ASSUME DeviceTypes, DeviceTypes'
  PROVE  Dev!Contents \in Seq(Bytes) /\ (Dev!Contents)' \in Seq(Bytes)
<1>1. FlattenSeq(lines) \in Seq(Bytes) /\ FlattenSeq(lines') \in Seq(Bytes)
  BY FlattenType DEF DeviceTypes
<1>2. Dev!Contents = FlattenSeq(lines) /\ (Dev!Contents)' = FlattenSeq(lines')
  BY Zenon DEF Dev!Contents, Dev!FlattenSeq, FlattenSeq
<1> QED BY <1>1, <1>2

(* What has been sent stays right while the contents keep their beginning. *)
LEMMA SentStays ==
  ASSUME NEW c \in Clients, NEW file, DeviceTypes, DeviceTypes', from[c] \in Nat, Sent(c, file),
         Starts(Dev!Contents, (Dev!Contents)'),
         from'[c] = from[c], resp'[c] = resp[c], f_pos'[file] = f_pos[file]
  PROVE  Sent(c, file)'
<1> DEFINE C == Dev!Contents
<1>1. C \in Seq(Bytes) /\ C' \in Seq(Bytes)
  BY ContentsTypes
<1>2. PICK a \in Nat : a = from[c]
  OBVIOUS
<1>3. PICK p \in Nat : p = f_pos[file]
  BY <1>1, <1>2 DEF Sent
<1>4. Len(C) \in Nat /\ Len(C') \in Nat /\ a <= p /\ p <= Len(C) /\ Len(C) <= Len(C')
  BY <1>1, <1>2, <1>3 DEF Sent, Starts
<1>5. SubSeq(C, a + 1, p) = SubSeq(C', a + 1, p)
  <2>1. C \in Seq(Bytes) /\ C' \in Seq(Bytes) /\ \A i \in 1 .. Len(C) : C'[i] = C[i]
    BY <1>1 DEF Starts
  <2> HIDE DEF C
  <2> QED BY ONLY <2>1, <1>4, a \in Nat, p \in Nat
<1>6. resp[c] = SubSeq(C, a + 1, p)
  BY <1>2, <1>3 DEF Sent
<1>7. (f_pos[file] \in from[c] .. Len(Dev!Contents))'
  BY <1>2, <1>3, <1>4
<1>8. (resp[c] = SubSeq(Dev!Contents, from[c] + 1, f_pos[file]))'
  BY <1>2, <1>3, <1>5, <1>6
<1> QED BY <1>7, <1>8 DEF Sent

(* A thread whose own files are left alone keeps its part of the invariant. *)
LEMMA AnsweringKept ==
  ASSUME NEW d \in Clients, DeviceTypes, DeviceTypes', Answering(d),
         Onward(d), Alone(d), Untouched(d), ContentsStay(d), d \in overrun => d \in overrun'
  PROVE  Answering(d)'
<1>1. /\ from'[d] \in Nat
      /\ pc'[d] \in Silent => from'[d] = 0 /\ resp'[d] = << >>
      /\ pc'[d] \in Early => my_file_read'[d] = -1
  BY DEF Answering, Onward, Alone, Early
<1>2. pc'[d] \in Serving =>
        data_fd'[d] \in Fds /\ fds'[data_fd'[d]] = DataFile(d) /\ my_file_read'[d] # data_fd'[d]
  BY DEF Answering, Onward, Alone, Untouched
<1>3. pc'[d] = "readback" => my_file_read'[d] \in Fds /\ fds'[my_file_read'[d]] = ReadFile(d)
  BY DEF Answering, Onward, Alone, Untouched, Reading
<1>4. pc'[d] = "readback" /\ d \notin overrun' => Sent(d, ReadFile(d))'
  <2> SUFFICES ASSUME pc'[d] = "readback", d \notin overrun' PROVE Sent(d, ReadFile(d))'
    OBVIOUS
  <2>1. pc[d] = "readback" /\ d \notin overrun
    BY DEF Onward, Reading
  <2>2. Sent(d, ReadFile(d)) /\ from[d] \in Nat /\ Starts(Dev!Contents, (Dev!Contents)')
    BY <2>1 DEF Answering, ContentsStay, Reading
  <2> QED BY <2>2, SentStays DEF Alone, ReadFile
<1>5. pc'[d] = "seekread" /\ d \notin overrun' => Sent(d, DataFile(d))'
  <2> SUFFICES ASSUME pc'[d] = "seekread", d \notin overrun' PROVE Sent(d, DataFile(d))'
    OBVIOUS
  <2>1. pc[d] = "seekread" /\ d \notin overrun
    BY DEF Onward, Reading
  <2>2. Sent(d, DataFile(d)) /\ from[d] \in Nat /\ Starts(Dev!Contents, (Dev!Contents)')
    BY <2>1 DEF Answering, ContentsStay, Reading
  <2> QED BY <2>2, SentStays DEF Alone, DataFile
<1> QED BY <1>1, <1>2, <1>3, <1>4, <1>5 DEF Answering, Early, DataFile, ReadFile

(* A thread that leaves the reading loops keeps its data file until its end. *)
LEMMA AnsweringStops ==
  ASSUME NEW c \in Clients, Answering(c), from'[c] \in Nat, pc'[c] \notin Silent \cup Reading,
         pc'[c] \in Serving =>
           /\ pc[c] \in Serving /\ data_fd'[c] = data_fd[c] /\ fds'[data_fd[c]] = fds[data_fd[c]]
           /\ my_file_read'[c] \in {my_file_read[c], -1}
  PROVE  Answering(c)'
<1>1. \A x \in Fds : x # -1
  BY SocketAssumption DEF Fds
<1>2. pc'[c] \in Serving =>
        data_fd'[c] \in Fds /\ fds'[data_fd'[c]] = DataFile(c) /\ my_file_read'[c] # data_fd'[c]
  BY <1>1 DEF Answering
<1> QED BY <1>2 DEF Answering, Silent, Reading, DataFile

(* Most steps leave the device alone. *)
LEMMA SameDevice ==
  ASSUME DeviceTypes, UNCHANGED device
  PROVE  DeviceTypes' /\ Starts(Dev!Contents, (Dev!Contents)')
<1>1. lines' = lines /\ tail' = tail
  BY DEF device
<1>2. DeviceTypes'
  BY <1>1 DEF DeviceTypes
<1>3. Dev!Contents = FlattenSeq(lines) /\ (Dev!Contents)' = FlattenSeq(lines')
  BY Zenon DEF Dev!Contents, Dev!FlattenSeq, FlattenSeq
<1>4. (Dev!Contents)' = Dev!Contents
  BY <1>1, <1>3
<1>5. Dev!Contents \in Seq(Bytes)
  BY <1>2, ContentsTypes
<1> QED BY <1>2, <1>4, <1>5 DEF Starts

(* A step that moves the threads of W and no other. *)
LEMMA AnswerStep ==
  ASSUME AnswerInv, NEW W \in SUBSET Clients, DeviceTypes', Domains', AcceptReserves',
         ~stray' => ~stray /\ \A d \in Clients \ W : Untouched(d),
         \A d \in Clients \ W :
           pc'[d] = pc[d] /\ Alone(d) /\ ContentsStay(d) /\ (d \in overrun => d \in overrun'),
         \A c \in W : ~stray' /\ Answering(c) => Answering(c)'
  PROVE  AnswerInv'
<1> SUFFICES ASSUME ~stray', NEW d \in Clients PROVE Answering(d)'
  BY DEF AnswerInv
<1>1. Answering(d) /\ DeviceTypes
  BY DEF AnswerInv
<1>2. CASE d \in W
  BY <1>1, <1>2
<1>3. CASE d \in Clients \ W
  <2>1. Onward(d)
    BY <1>3 DEF Onward
  <2> QED BY <1>1, <1>3, <2>1, AnsweringKept
<1> QED BY <1>2, <1>3

-----------------------------------------------------------------------------
(* Steps of main and of the handler that concern no thread. *)
LEMMA AnswerQuiet ==
  ASSUME AnswerInv, UNCHANGED <<device, pc, data_fd, my_file_read, from, resp, f_pos, overrun>>,
         DOMAIN fds' = Fds, \A x \in Fds : fds[x] \notin {NULL, Reserved} => fds'[x] = fds[x],
         AcceptReserves', stray' = stray
  PROVE  AnswerInv'
<1>1. DeviceTypes' /\ Starts(Dev!Contents, (Dev!Contents)')
  BY SameDevice DEF AnswerInv
<1>2. Domains'
  BY DEF AnswerInv, Domains
<1>3. \A d \in Clients : Untouched(d)
  BY NotNull DEF Untouched, DataFile, ReadFile, Reserved
<1>4. \A d \in Clients : Alone(d) /\ ContentsStay(d)
  BY <1>1 DEF Alone, ContentsStay
<1> QED BY <1>1, <1>2, <1>3, <1>4, AnswerStep, {} \in SUBSET Clients

(* The handler of SIGINT and SIGTERM. *)
LEMMA AnswerSignals ==
  ASSUME AnswerInv, SignalShutdown \/ SignalFlag \/ SignalEarly
  PROVE  AnswerInv'
<1>1. UNCHANGED <<device, pc, data_fd, my_file_read, from, resp, f_pos, overrun, fds, stray,
                  main_pc, accept_fd>>
  BY DEF SignalShutdown, SignalFlag, SignalEarly, mainvars, locals, history, reading
<1> QED BY <1>1, AnswerQuiet DEF AnswerInv, Domains, AcceptReserves

(* Main takes a descriptor that is free, or gives back the reserved one. *)
LEMMA AnswerMain ==
  ASSUME AnswerInv, Start \/ StartFails \/ MainTop \/ AcceptFails \/ Reap \/ ReapDone \/ Exit \/ JoinDone
  PROVE  AnswerInv'
<1>1. UNCHANGED <<device, pc, data_fd, my_file_read, from, resp, f_pos, overrun, stray>>
  BY DEF Start, StartFails, MainTop, AcceptFails, Reap, ReapDone, Exit, JoinDone, MainGoto,
         locals, reading
<1>2. DOMAIN fds = Fds
  BY DEF AnswerInv, Domains
<1>3. CASE fds' = fds /\ main_pc' # "accept"
  BY <1>1, <1>2, <1>3, AnswerQuiet DEF AcceptReserves
<1>4. CASE Start
  <2>1. Descriptor(Listener) /\ main_pc' = "top"
    BY <1>4 DEF Start, MainGoto
  <2>2. DOMAIN fds' = Fds /\ \A x \in Fds : fds[x] # NULL => fds'[x] = fds[x]
    BY <1>2, <2>1, DescriptorTakes
  <2> QED BY <1>1, <2>1, <2>2, AnswerQuiet DEF AcceptReserves
<1>5. CASE MainTop /\ main_pc' = "accept"
  <2>1. Descriptor(Reserved) /\ accept_fd' = Min(FreeFds)
    BY <1>5 DEF MainTop, MainGoto
  <2>2. /\ DOMAIN fds' = Fds /\ \A x \in Fds : fds[x] # NULL => fds'[x] = fds[x]
        /\ Min(FreeFds) \in Fds /\ fds'[Min(FreeFds)] = Reserved
    BY <1>2, <2>1, DescriptorTakes
  <2>3. AcceptReserves'
    BY <2>1, <2>2 DEF AcceptReserves, Reserved, Fds
  <2> QED BY <1>1, <2>2, <2>3, AnswerQuiet
<1>6. CASE AcceptFails
  <2>1. fds' = [fds EXCEPT ![accept_fd] = NULL] /\ main_pc = "accept" /\ main_pc' = "exit"
    BY <1>6 DEF AcceptFails, MainGoto
  <2>2. fds[accept_fd] = Reserved
    BY <2>1 DEF AnswerInv, AcceptReserves
  <2>3. DOMAIN fds' = Fds /\ \A x \in Fds : fds[x] \notin {NULL, Reserved} => fds'[x] = fds[x]
    BY <1>2, <2>1, <2>2
  <2> QED BY <1>1, <2>1, <2>3, AnswerQuiet DEF AcceptReserves
<1>7. \/ fds' = fds /\ main_pc' # "accept"
      \/ Start
      \/ MainTop /\ main_pc' = "accept"
      \/ AcceptFails
  <2>1. CASE StartFails \/ Reap \/ ReapDone \/ Exit \/ JoinDone
    BY <2>1 DEF StartFails, Reap, ReapDone, Exit, JoinDone, MainGoto
  <2>2. CASE MainTop
    BY <2>2 DEF MainTop, MainGoto
  <2> QED BY <2>1, <2>2
<1> QED BY <1>3, <1>4, <1>5, <1>6, <1>7

(* A connection is accepted, or its thread created or refused, or joined. *)
LEMMA AnswerAccept ==
  ASSUME AnswerInv, TypeInv, NEW c \in Clients, Accept(c)
  PROVE  AnswerInv'
<1>1. /\ UNCHANGED <<device, data_fd, my_file_read, from, resp, f_pos, overrun, stray>>
      /\ fds' = [fds EXCEPT ![accept_fd] = Socket(c)] /\ main_pc = "accept" /\ main_pc' = "create"
      /\ pc[c] = "none" /\ pc'[c] = "accepted" /\ \A d \in Clients \ {c} : pc'[d] = pc[d]
  BY DEF Accept, history, reading, TypeInv
<1>2. fds[accept_fd] = Reserved /\ DOMAIN fds = Fds
  BY <1>1 DEF AnswerInv, AcceptReserves, Domains
<1>3. DeviceTypes' /\ Starts(Dev!Contents, (Dev!Contents)') /\ DeviceTypes
  BY <1>1, SameDevice DEF AnswerInv
<1>4. Domains' /\ AcceptReserves'
  BY <1>1, <1>2 DEF AnswerInv, Domains, AcceptReserves
<1>5. \A d \in Clients : Untouched(d)
  BY <1>1, <1>2, NotNull DEF Untouched, DataFile, ReadFile, Reserved
<1>6. \A d \in Clients : Alone(d) /\ ContentsStay(d)
  BY <1>1, <1>3 DEF Alone, ContentsStay
<1>7. Onward(c)
  BY <1>1 DEF Onward, Silent, Early, Serving, Reading
<1>8. Answering(c) => Answering(c)'
  BY <1>1, <1>3, <1>5, <1>6, <1>7, AnsweringKept
<1> QED BY <1>1, <1>3, <1>4, <1>5, <1>6, <1>8, AnswerStep, {c} \in SUBSET Clients

(* pthread_create: the new thread has sent nothing and has no file open. *)
LEMMA AnswerCreate ==
  ASSUME AnswerInv, EntriesInv, Create
  PROVE  AnswerInv'
<1>0. PICK c \in Clients : c = Head(head)
  BY DEF EntriesInv, TypeInv, CreatesTheFirst, Create
<1>1. pc[c] = "accepted" /\ main_pc = "create"
  BY <1>0 DEF EntriesInv, CreatesTheFirst, Create
<1>2. pc'[c] \in {"open", "refused"} /\ \A d \in Clients \ {c} : pc'[d] = pc[d]
  BY <1>0, <1>1 DEF Create, Goto, EntriesInv, TypeInv
<1>3. UNCHANGED <<device, data_fd, my_file_read, from, resp, f_pos, overrun, stray, fds>>
      /\ main_pc' # "accept"
  BY DEF Create, MainGoto, locals, reading
<1>4. DeviceTypes' /\ Starts(Dev!Contents, (Dev!Contents)') /\ DeviceTypes
  BY <1>3, SameDevice DEF AnswerInv
<1>5. Domains' /\ AcceptReserves'
  BY <1>3 DEF AnswerInv, Domains, AcceptReserves
<1>6. \A d \in Clients : Untouched(d) /\ Alone(d) /\ ContentsStay(d)
  BY <1>3, <1>4 DEF Alone, ContentsStay, Untouched
<1>7. Onward(c)
  BY <1>1, <1>2 DEF Onward, Silent, Early, Serving, Reading
<1>8. Answering(c) => Answering(c)'
  BY <1>1, <1>3, <1>4, <1>6, <1>7, AnsweringKept
<1> QED BY <1>1, <1>2, <1>3, <1>4, <1>5, <1>6, <1>8, AnswerStep, {c} \in SUBSET Clients

(* Join closes the number of a descriptor that the thread has closed before. *)
LEMMA AnswerJoin ==
  ASSUME AnswerInv, EntriesInv, Join
  PROVE  AnswerInv'
<1>0. PICK c \in Clients : c = Head(todo)
  BY DEF EntriesInv, TypeInv, Join
<1>1. pc[c] = "dead" /\ main_pc = "join" /\ main_pc' = "join"
  BY <1>0 DEF Join, Joined, MainGoto
<1>2. /\ UNCHANGED <<device, pc, data_fd, my_file_read, from, resp, f_pos, overrun>>
      /\ Close(c, my_client[c])
  BY <1>0 DEF Join, MainGoto, locals, reading
<1>3. DeviceTypes' /\ Starts(Dev!Contents, (Dev!Contents)') /\ DeviceTypes
  BY <1>2, SameDevice DEF AnswerInv
<1>4. DOMAIN fds' = Fds /\ (~stray' => ~stray /\ \A d \in Clients \ {c} : Untouched(d))
  BY <1>1, <1>2, CloseTakes DEF AnswerInv, Domains
<1>5. Domains' /\ AcceptReserves'
  BY <1>1, <1>2, <1>4 DEF AnswerInv, Domains, AcceptReserves
<1>6. \A d \in Clients : Alone(d) /\ ContentsStay(d)
  BY <1>2, <1>3 DEF Alone, ContentsStay
<1>7. Answering(c) => Answering(c)'
  <2>1. from[c] \in Nat => from'[c] \in Nat
    BY <1>2
  <2>2. pc'[c] \notin Silent \cup Reading \cup Serving
    BY <1>1, <1>2 DEF Silent, Reading, Serving
  <2> QED BY <1>1, <2>1, <2>2, AnsweringStops DEF Answering
<1> QED BY <1>1, <1>2, <1>3, <1>4, <1>5, <1>6, <1>7, AnswerStep, {c} \in SUBSET Clients

(* With the process every thread ends. *)
LEMMA AnswerKill ==
  ASSUME AnswerInv, Kill
  PROVE  AnswerInv'
<1>1. UNCHANGED <<device, data_fd, my_file_read, from, resp, f_pos, overrun, stray, fds>>
      /\ main_pc' # "accept"
      /\ \A d \in Clients : pc'[d] = IF pc[d] = "none" THEN "none" ELSE "killed"
  BY DEF Kill, locals, history, reading
<1>2. DeviceTypes' /\ Starts(Dev!Contents, (Dev!Contents)') /\ DeviceTypes
  BY <1>1, SameDevice DEF AnswerInv
<1>3. Domains' /\ AcceptReserves'
  BY <1>1 DEF AnswerInv, Domains, AcceptReserves
<1>4. \A d \in Clients : Untouched(d) /\ Alone(d) /\ ContentsStay(d)
  BY <1>1, <1>2 DEF Alone, ContentsStay, Untouched
<1>5. \A d \in Clients : Onward(d)
  BY <1>1 DEF Onward, Silent, Early, Serving, Reading
<1>6. \A d \in Clients : Answering(d) => Answering(d)'
  BY <1>1, <1>2, <1>4, <1>5, AnsweringKept
<1> QED BY <1>1, <1>2, <1>3, <1>6, AnswerStep, Clients \in SUBSET Clients

-----------------------------------------------------------------------------
(* A step of the thread c, which leaves the others and main alone. *)
LEMMA AnswerThread ==
  ASSUME AnswerInv, TypeInv, NEW c \in Clients, Recv(c) \/ Lock(c) \/ Run(c),
         DeviceTypes', Domains', \A x \in Fds : fds[x] = Reserved => fds'[x] = fds[x],
         ~stray' => ~stray /\ \A d \in Clients \ {c} : Untouched(d),
         \A d \in Clients \ {c} : Alone(d) /\ ContentsStay(d) /\ (d \in overrun => d \in overrun'),
         ~stray' /\ Answering(c) => Answering(c)'
  PROVE  AnswerInv'
<1>1. UNCHANGED mainvars /\ \A d \in Clients \ {c} : pc'[d] = pc[d]
  BY ThreadSteps
<1>2. AcceptReserves'
  BY <1>1 DEF AnswerInv, AcceptReserves, mainvars, Reserved, Fds
<1> QED BY <1>1, <1>2, AnswerStep, {c} \in SUBSET Clients

(* Steps that wait, decide or receive: no file and no answer is touched. *)
LEMMA AnswerWaits ==
  ASSUME AnswerInv, TypeInv, NEW c \in Clients, Recv(c) \/ Lock(c) \/ Run(c), Onward(c),
         UNCHANGED <<device, data_fd, my_file_read, from, resp, f_pos, overrun, stray, fds>>
  PROVE  AnswerInv'
<1>1. DeviceTypes' /\ Starts(Dev!Contents, (Dev!Contents)') /\ DeviceTypes
  BY SameDevice DEF AnswerInv
<1>2. Domains'
  BY DEF AnswerInv, Domains
<1>3. \A d \in Clients : Untouched(d) /\ Alone(d) /\ ContentsStay(d)
  BY <1>1 DEF Alone, ContentsStay, Untouched
<1>4. Answering(c) => Answering(c)'
  BY <1>1, <1>3, AnsweringKept
<1> QED BY <1>1, <1>2, <1>3, <1>4, AnswerThread

(* The waiting, receiving and deciding steps are of this kind. *)
LEMMA AnswerWaiting ==
  ASSUME AnswerInv, TypeInv, NEW c \in Clients,
         \/ \E d \in Clients, chunk \in Chunks : RecvFrom(c, d, chunk)
         \/ RecvEnds(c) \/ Lock(c) \/ Loop(c) \/ Extend(c) \/ Wrap(c)
  PROVE  AnswerInv'
<1>1. Recv(c) \/ Lock(c) \/ Run(c)
  BY DEF Recv, Run
<1>2. UNCHANGED <<device, data_fd, my_file_read, from, resp, f_pos, overrun, stray, fds>>
  BY DEF RecvFrom, RecvEnds, Lock, Loop, Extend, Wrap, locals, history, reading
<1>3. Onward(c)
  <2>1. \/ pc[c] = "recv" /\ pc'[c] \in {"loop", "extend", "finish", "ioctl", "lock"}
        \/ pc[c] = "extend" /\ pc'[c] \in {"loop", "finish"}
        \/ pc[c] = "lock" /\ pc'[c] = "write"
        \/ pc[c] = "loop" /\ pc'[c] \in {"recv", "finish"}
        \/ pc[c] = "wrap" /\ pc'[c] = "closec"
    BY DEF RecvFrom, RecvEnds, Lock, Loop, Extend, Wrap, Goto, TypeInv
  <2> QED BY <2>1 DEF Onward, Silent, Early, Serving, Reading
<1> QED BY <1>1, <1>2, <1>3, AnswerWaits

(* A descriptor that leads elsewhere than to the thread's own file is met   *)
(* only after a close that has gone astray.                                 *)
LEMMA OwnFile ==
  ASSUME AnswerInv, ~stray, NEW c \in Clients
  PROVE  /\ pc[c] = "readback" => File(ReadFd(c)) = ReadFile(c) /\ ReadFd(c) = my_file_read[c]
         /\ pc[c] = "seekread" => File(ReadFd(c)) = DataFile(c)
         /\ pc[c] \in Serving => File(data_fd[c]) = DataFile(c)
<1>1. Answering(c) /\ DataFile(c) # NULL /\ ReadFile(c) # NULL
  BY NotNull DEF AnswerInv
<1>2. \A x \in Fds : fds[x] # NULL => File(x) = fds[x]
  BY DEF File
<1>3. pc[c] \in Serving => File(data_fd[c]) = DataFile(c)
  BY <1>1, <1>2 DEF Answering
<1>4. pc[c] = "readback" => File(my_file_read[c]) = ReadFile(c)
  BY <1>1, <1>2 DEF Answering
<1> QED BY <1>3, <1>4 DEF ReadFd, Serving

(* So no thread relays what another client says. *)
LEMMA AnswerForeign ==
  ASSUME AnswerInv, TypeInv, NEW c \in Clients, NEW d \in Clients, NEW chunk \in Chunks,
         RelayForeign(c, d, chunk)
  PROVE  AnswerInv'
<1>1. Recv(c)
  BY DEF Recv
<1>2. /\ UNCHANGED <<device, data_fd, my_file_read, from, f_pos, overrun, stray, fds>>
      /\ resp' = [resp EXCEPT ![c] = @ \o chunk] /\ pc[c] \in {"readback", "seekread"}
      /\ File(ReadFd(c)) = Socket(d)
  BY DEF RelayForeign, locals
<1>3. stray
  BY <1>2, OwnFile DEF Socket, DataFile, ReadFile
<1>4. DeviceTypes' /\ Starts(Dev!Contents, (Dev!Contents)')
  BY <1>2, SameDevice DEF AnswerInv
<1>5. Domains'
  BY <1>2 DEF AnswerInv, Domains
<1>6. \A e \in Clients \ {c} : Untouched(e) /\ Alone(e) /\ ContentsStay(e)
  BY <1>2, <1>4 DEF Alone, ContentsStay, Untouched
<1> QED BY <1>1, <1>2, <1>3, <1>4, <1>5, <1>6, AnswerThread

(* The files of two threads, and the two of one, are different. *)
LEMMA FilesDiffer ==
  /\ \A c, d \in Clients : DataFile(c) # ReadFile(d)
  /\ \A c, d \in Clients : c # d => DataFile(c) # DataFile(d) /\ ReadFile(c) # ReadFile(d)
  /\ \A c \in Clients : DataFile(c) \in {"data", "read"} \X Clients
                        /\ ReadFile(c) \in {"data", "read"} \X Clients
BY DEF DataFile, ReadFile

(* Each thread has a data file of its own, with a descriptor nobody else has. *)
LEMMA AnswerOpenData ==
  ASSUME AnswerInv, TypeInv, NEW c \in Clients, OpenData(c)
  PROVE  AnswerInv'
<1>1. Run(c) /\ pc[c] = "open"
  BY DEF Run, OpenData
<1>2. UNCHANGED <<device, my_file_read, from, resp, overrun, stray>>
  BY DEF OpenData, history, reading
<1>3. CASE UNCHANGED <<fds, data_fd, f_pos>> /\ pc'[c] = "wrap"
  <2>1. Onward(c)
    BY <1>1, <1>3 DEF Onward, Silent, Early, Serving, Reading
  <2> QED BY <1>1, <1>2, <1>3, <2>1, AnswerWaits
<1>4. ASSUME Descriptor(DataFile(c)), data_fd' = [data_fd EXCEPT ![c] = Min(FreeFds)],
             f_pos' = [f_pos EXCEPT ![DataFile(c)] = 0], pc'[c] = "loop"
      PROVE  AnswerInv'
  <2>0. Domains
    BY DEF AnswerInv
  <2>1. /\ DOMAIN fds' = Fds
        /\ Min(FreeFds) \in Fds /\ fds'[Min(FreeFds)] = DataFile(c)
        /\ \A x \in Fds : fds[x] # NULL => fds'[x] = fds[x]
    BY <1>4, <2>0, DescriptorTakes DEF Domains
  <2>2. DeviceTypes' /\ Starts(Dev!Contents, (Dev!Contents)')
    BY <1>2, SameDevice DEF AnswerInv
  <2>3. Domains'
    BY <1>2, <1>4, <2>0, <2>1 DEF Domains
  <2>4. (\A d \in Clients : Untouched(d)) /\ \A x \in Fds : fds[x] = Reserved => fds'[x] = fds[x]
    BY <2>1, NotNull DEF Untouched
  <2>5. \A d \in Clients \ {c} : Alone(d) /\ ContentsStay(d)
    BY <1>2, <1>4, <2>0, <2>2, FilesDiffer DEF Alone, ContentsStay, Domains
  <2>6. Answering(c) => Answering(c)'
    <3> SUFFICES ASSUME Answering(c) PROVE Answering(c)'
      OBVIOUS
    <3>1. from'[c] = 0 /\ resp'[c] = << >> /\ my_file_read'[c] = -1
      BY <1>1, <1>2 DEF Answering, Silent
    <3>2. data_fd'[c] = Min(FreeFds) /\ Min(FreeFds) # -1
      BY <1>4, <2>0, <2>1, SocketAssumption DEF Domains, Fds
    <3> QED BY <1>4, <2>1, <3>1, <3>2 DEF Answering, DataFile, Serving
  <2> QED BY <1>1, <1>2, <2>2, <2>3, <2>4, <2>5, <2>6, AnswerThread
<1>5. \/ UNCHANGED <<fds, data_fd, f_pos>> /\ pc'[c] = "wrap"
      \/ /\ Descriptor(DataFile(c)) /\ data_fd' = [data_fd EXCEPT ![c] = Min(FreeFds)]
         /\ f_pos' = [f_pos EXCEPT ![DataFile(c)] = 0] /\ pc'[c] = "loop"
  BY DEF OpenData, Goto, TypeInv
<1> QED BY <1>3, <1>4, <1>5

(* The device is opened for reading at its beginning: nothing sent yet. *)
LEMMA AnswerOpenRead ==
  ASSUME AnswerInv, TypeInv, NEW c \in Clients, OpenRead(c)
  PROVE  AnswerInv'
<1>1. Run(c) /\ pc[c] = "openr"
  BY DEF Run, OpenRead, OpenReadAt
<1>2. UNCHANGED <<device, data_fd, from, resp, overrun, stray>>
  BY DEF OpenRead, OpenReadAt, history, reading
<1>3. CASE UNCHANGED <<fds, my_file_read, f_pos>> /\ pc'[c] = "finish"
  <2>1. Onward(c)
    BY <1>1, <1>3 DEF Onward, Silent, Early, Serving, Reading
  <2> QED BY <1>1, <1>2, <1>3, <2>1, AnswerWaits
<1>4. ASSUME Descriptor(ReadFile(c)), my_file_read' = [my_file_read EXCEPT ![c] = Min(FreeFds)],
             f_pos' = [f_pos EXCEPT ![ReadFile(c)] = 0], pc'[c] = "readback"
      PROVE  AnswerInv'
  <2>0. Domains
    BY DEF AnswerInv
  <2>1. /\ DOMAIN fds' = Fds
        /\ Min(FreeFds) \in Fds /\ fds[Min(FreeFds)] = NULL /\ fds'[Min(FreeFds)] = ReadFile(c)
        /\ \A x \in Fds : fds[x] # NULL => fds'[x] = fds[x]
    BY <1>4, <2>0, DescriptorTakes DEF Domains
  <2>2. DeviceTypes' /\ Starts(Dev!Contents, (Dev!Contents)')
    BY <1>2, SameDevice DEF AnswerInv
  <2>3. Domains'
    BY <1>2, <1>4, <2>0, <2>1 DEF Domains
  <2>4. (\A d \in Clients : Untouched(d)) /\ \A x \in Fds : fds[x] = Reserved => fds'[x] = fds[x]
    BY <2>1, NotNull DEF Untouched
  <2>5. \A d \in Clients \ {c} : Alone(d) /\ ContentsStay(d)
    BY <1>2, <1>4, <2>0, <2>2, FilesDiffer DEF Alone, ContentsStay, Domains
  <2>6. Answering(c) => Answering(c)'
    <3> SUFFICES ASSUME Answering(c) PROVE Answering(c)'
      OBVIOUS
    <3>1. from'[c] = 0 /\ resp'[c] = << >>
      BY <1>1, <1>2 DEF Answering, Silent
    <3>2. my_file_read'[c] = Min(FreeFds) /\ f_pos'[ReadFile(c)] = 0
      BY <1>4, <2>0, FilesDiffer DEF Domains
    <3>3. /\ data_fd'[c] \in Fds /\ fds'[data_fd'[c]] = DataFile(c)
          /\ my_file_read'[c] # data_fd'[c]
      BY <1>1, <1>2, <2>1, <3>2, NotNull DEF Answering, Serving
    <3>4. Sent(c, ReadFile(c))'
      <4>1. (Dev!Contents)' \in Seq(Bytes)
        BY <2>2, ContentsTypes DEF AnswerInv
      <4>2. 0 \in 0 .. Len((Dev!Contents)') /\ SubSeq((Dev!Contents)', 0 + 1, 0) = << >>
        BY <4>1
      <4>3. (f_pos[ReadFile(c)] \in from[c] .. Len(Dev!Contents))'
        BY <3>1, <3>2, <4>2 DEF ReadFile
      <4>4. (resp[c] = SubSeq(Dev!Contents, from[c] + 1, f_pos[ReadFile(c)]))'
        BY <3>1, <3>2, <4>2 DEF ReadFile
      <4> QED BY <4>3, <4>4 DEF Sent
    <3> QED BY <1>4, <2>1, <3>1, <3>2, <3>3, <3>4 DEF Answering, DataFile, ReadFile, Silent, Serving
  <2> QED BY <1>1, <1>2, <2>2, <2>3, <2>4, <2>5, <2>6, AnswerThread
<1>5. \/ UNCHANGED <<fds, my_file_read, f_pos>> /\ pc'[c] = "finish"
      \/ /\ Descriptor(ReadFile(c)) /\ my_file_read' = [my_file_read EXCEPT ![c] = Min(FreeFds)]
         /\ f_pos' = [f_pos EXCEPT ![ReadFile(c)] = 0] /\ pc'[c] = "readback"
  BY DEF OpenRead, OpenReadAt, Goto, TypeInv
<1> QED BY <1>3, <1>4, <1>5

-----------------------------------------------------------------------------
(* Once a close has gone astray nothing is said of answers any more. *)
LEMMA AnswerAstray ==
  ASSUME AnswerInv, TypeInv, NEW c \in Clients, Recv(c) \/ Lock(c) \/ Run(c),
         DeviceTypes', Domains', \A x \in Fds : fds[x] = Reserved => fds'[x] = fds[x], stray'
  PROVE  AnswerInv'
<1>1. UNCHANGED mainvars
  BY ThreadSteps
<1>2. AcceptReserves'
  BY <1>1 DEF AnswerInv, AcceptReserves, mainvars, Reserved, Fds
<1> QED BY <1>2 DEF AnswerInv

(* The seek command puts the position on a byte of the contents. *)
LEMMA AnswerIoctl ==
  ASSUME AnswerInv, TypeInv, NEW c \in Clients, Ioctl(c)
  PROVE  AnswerInv'
<1>1. Run(c) /\ pc[c] = "ioctl"
  BY DEF Run, Ioctl
<1>2. UNCHANGED <<device, data_fd, my_file_read, resp, overrun, stray, fds>>
  BY DEF Ioctl, locals
<1> DEFINE file == File(data_fd[c])
<1>3. CASE UNCHANGED <<f_pos, from>> /\ pc'[c] = "finish"
  <2>1. Onward(c)
    BY <1>1, <1>3 DEF Onward, Silent, Early, Serving, Reading
  <2> QED BY <1>1, <1>2, <1>3, <2>1, AnswerWaits
<1>4. ASSUME NEW args \in SeekArgs, Dev!HasByte(args[1], args[2]),
             f_pos' = [f_pos EXCEPT ![file] = Dev!Position(args[1], args[2])],
             from' = [from EXCEPT ![c] = Dev!Position(args[1], args[2])], pc'[c] = "seekread"
      PROVE  AnswerInv'
  <2>0. Domains /\ DeviceTypes
    BY DEF AnswerInv
  <2>1. DeviceTypes' /\ Starts(Dev!Contents, (Dev!Contents)')
    BY <1>2, <2>0, SameDevice
  <2>2. Domains' /\ \A x \in Fds : fds[x] = Reserved => fds'[x] = fds[x]
    BY <1>2, <1>4, <2>0 DEF Domains
  <2>3. CASE stray'
    BY <1>1, <2>1, <2>2, <2>3, AnswerAstray
  <2>4. CASE ~stray'
    <3>1. ~stray /\ file = DataFile(c)
      BY <1>1, <1>2, <2>4, OwnFile DEF Serving
    <3> HIDE DEF file
    <3>2. \A d \in Clients : Untouched(d)
      BY <1>2 DEF Untouched
    <3>3. \A d \in Clients \ {c} : Alone(d) /\ ContentsStay(d)
      BY <1>2, <1>4, <2>0, <2>1, <3>1, FilesDiffer DEF Alone, ContentsStay, Domains
    <3>4. PICK p \in 0 .. Len(Dev!Contents) : p = Dev!Position(args[1], args[2])
      <4>1. args[1] \in Nat /\ args[2] \in Nat
        BY SocketAssumption
      <4> QED BY <1>4, <2>0, <4>1, PositionInside DEF DeviceTypes
    <3>5. Answering(c) => Answering(c)'
      <4> SUFFICES ASSUME Answering(c) PROVE Answering(c)'
        OBVIOUS
      <4>1. /\ from'[c] = p /\ resp'[c] = << >> /\ f_pos'[DataFile(c)] = p
        BY <1>1, <1>2, <1>4, <2>0, <3>1, <3>4, FilesDiffer DEF Answering, Silent, Domains
      <4>2. /\ data_fd'[c] \in Fds /\ fds'[data_fd'[c]] = DataFile(c)
            /\ my_file_read'[c] # data_fd'[c]
        BY <1>1, <1>2 DEF Answering, Serving
      <4>3. Sent(c, DataFile(c))'
        <5>1. Dev!Contents \in Seq(Bytes) /\ (Dev!Contents)' \in Seq(Bytes)
          BY <2>0, <2>1, ContentsTypes
        <5>2. p \in Nat /\ p \in p .. Len((Dev!Contents)') /\ SubSeq((Dev!Contents)', p + 1, p) = << >>
          BY <2>1, <5>1 DEF Starts
        <5>3. (f_pos[DataFile(c)] \in from[c] .. Len(Dev!Contents))'
          BY <4>1, <5>2 DEF DataFile
        <5>4. (resp[c] = SubSeq(Dev!Contents, from[c] + 1, f_pos[DataFile(c)]))'
          BY <4>1, <5>2 DEF DataFile
        <5> QED BY <5>3, <5>4 DEF Sent
      <4>4. from'[c] \in Nat
        BY <4>1
      <4> QED BY <1>4, <4>2, <4>3, <4>4 DEF Answering, DataFile, Silent, Serving
    <3> QED BY <1>1, <1>2, <2>1, <2>2, <3>1, <3>2, <3>3, <3>5, AnswerThread
  <2> QED BY <2>3, <2>4
<1>5. \/ UNCHANGED <<f_pos, from>> /\ pc'[c] = "finish"
      \/ \E args \in SeekArgs :
           /\ Dev!HasByte(args[1], args[2])
           /\ f_pos' = [f_pos EXCEPT ![file] = Dev!Position(args[1], args[2])]
           /\ from' = [from EXCEPT ![c] = Dev!Position(args[1], args[2])] /\ pc'[c] = "seekread"
  <2>1. Parsed(packet[c]) \subseteq SeekArgs
    BY DEF Parsed, WellFormed
  <2> QED BY <2>1 DEF Ioctl, Goto, TypeInv
<1> QED BY <1>3, <1>4, <1>5

(* What is read at the position is what comes next in the contents. *)
LEMMA RelaySends ==
  ASSUME NEW c \in Clients, NEW file, DeviceTypes, UNCHANGED device, from[c] \in Nat, Sent(c, file),
         from'[c] = from[c],
         resp'[c] = resp[c] \o Dev!ReadAt(f_pos[file], BufferSize),
         f_pos'[file] = f_pos[file] + Len(Dev!ReadAt(f_pos[file], BufferSize))
  PROVE  Sent(c, file)'
<1> DEFINE C == Dev!Contents
<1>1. /\ C \in Seq(Bytes) /\ C' = C
  <2>1. DeviceTypes' /\ lines' = lines
    BY SameDevice DEF device
  <2>2. Dev!Contents = FlattenSeq(lines) /\ (Dev!Contents)' = FlattenSeq(lines')
    BY Zenon DEF Dev!Contents, Dev!FlattenSeq, FlattenSeq
  <2> QED BY <2>1, <2>2, ContentsTypes
<1>2. PICK a \in Nat : a = from[c]
  OBVIOUS
<1>3. PICK p \in Nat : p = f_pos[file] /\ p \in 0 .. Len(C) /\ a <= p
  BY <1>1, <1>2 DEF Sent
<1>4. PICK m \in p .. Len(C) : Dev!ReadAt(p, BufferSize) = SubSeq(C, p + 1, m)
  BY <1>3, ReadAtShape, SocketAssumption DEF DeviceTypes
<1>5. resp[c] = SubSeq(C, a + 1, p)
  BY <1>2, <1>3 DEF Sent
<1>6. /\ SubSeq(C, a + 1, p) \o SubSeq(C, p + 1, m) = SubSeq(C, a + 1, m)
      /\ p + Len(SubSeq(C, p + 1, m)) = m
  <2>1. C \in Seq(Bytes) /\ a \in Nat /\ p \in Nat /\ m \in Nat /\ a <= p /\ p <= m /\ m <= Len(C)
    BY <1>1, <1>3
  <2> HIDE DEF C
  <2> QED BY ONLY <2>1
<1>7. resp'[c] = SubSeq(C, a + 1, m) /\ f_pos'[file] = m /\ m \in a .. Len(C)
  <2>1. Len(C) \in Nat /\ m \in Nat /\ m <= Len(C) /\ a <= m
    BY <1>1, <1>3
  <2> HIDE DEF C
  <2>2. resp'[c] = SubSeq(C, a + 1, p) \o SubSeq(C, p + 1, m)
    BY <1>3, <1>4, <1>5
  <2>3. f_pos'[file] = p + Len(SubSeq(C, p + 1, m))
    BY <1>3, <1>4
  <2>4. m \in a .. Len(C)
    BY <2>1
  <2> QED BY <1>6, <2>2, <2>3, <2>4
<1>8. (f_pos[file] \in from[c] .. Len(Dev!Contents))'
  BY <1>1, <1>2, <1>7
<1>9. (resp[c] = SubSeq(Dev!Contents, from[c] + 1, f_pos[file]))'
  BY <1>1, <1>2, <1>7
<1> QED BY <1>8, <1>9 DEF Sent

(* One turn of a reading loop that sends what it reads. *)
LEMMA AnswerRelay ==
  ASSUME AnswerInv, TypeInv, NEW c \in Clients, Run(c), pc[c] \in Reading, Relay(c)
  PROVE  AnswerInv'
<1> DEFINE file == File(ReadFd(c))
<1>1. /\ UNCHANGED <<device, data_fd, my_file_read, from, overrun, stray, fds, pc>>
      /\ resp' = [resp EXCEPT ![c] = resp[c] \o Dev!ReadAt(f_pos[file], BufferSize)]
      /\ f_pos' = [f_pos EXCEPT ![file] = f_pos[file] + Len(Dev!ReadAt(f_pos[file], BufferSize))]
  BY DEF Relay, locals
<1>2. Domains /\ DeviceTypes
  BY DEF AnswerInv
<1>3. DeviceTypes' /\ Starts(Dev!Contents, (Dev!Contents)')
  BY <1>1, <1>2, SameDevice
<1>4. Domains' /\ \A x \in Fds : fds[x] = Reserved => fds'[x] = fds[x]
  BY <1>1, <1>2 DEF Domains
<1>5. CASE stray'
  BY <1>3, <1>4, <1>5, AnswerAstray
<1>6. CASE ~stray'
  <2>1. ~stray /\ (pc[c] = "readback" => file = ReadFile(c)) /\ (pc[c] = "seekread" => file = DataFile(c))
    BY <1>1, <1>6, OwnFile
  <2> HIDE DEF file
  <2>2. file \in DOMAIN f_pos /\ \A d \in Clients \ {c} : file # DataFile(d) /\ file # ReadFile(d)
    BY <1>2, <2>1, FilesDiffer DEF Reading, Domains
  <2>3. \A d \in Clients : Untouched(d)
    BY <1>1 DEF Untouched
  <2>4. \A d \in Clients \ {c} : Alone(d) /\ ContentsStay(d)
    BY <1>1, <1>2, <1>3, <2>2, FilesDiffer DEF Alone, ContentsStay, Domains
  <2>5. Answering(c) => Answering(c)'
    <3> SUFFICES ASSUME Answering(c) PROVE Answering(c)'
      OBVIOUS
    <3>1. /\ resp'[c] = resp[c] \o Dev!ReadAt(f_pos[file], BufferSize)
          /\ f_pos'[file] = f_pos[file] + Len(Dev!ReadAt(f_pos[file], BufferSize))
      BY <1>1, <1>2, <2>2 DEF Domains
    <3>2. from[c] \in Nat
      BY DEF Answering
    <3>3. pc[c] = "readback" /\ c \notin overrun => Sent(c, ReadFile(c))'
      <4> SUFFICES ASSUME pc[c] = "readback", c \notin overrun PROVE Sent(c, ReadFile(c))'
        OBVIOUS
      <4>1. Sent(c, ReadFile(c)) /\ file = ReadFile(c)
        BY <2>1 DEF Answering
      <4> QED BY <1>1, <1>2, <3>1, <3>2, <4>1, RelaySends DEF ReadFile
    <3>4. pc[c] = "seekread" /\ c \notin overrun => Sent(c, DataFile(c))'
      <4> SUFFICES ASSUME pc[c] = "seekread", c \notin overrun PROVE Sent(c, DataFile(c))'
        OBVIOUS
      <4>1. Sent(c, DataFile(c)) /\ file = DataFile(c)
        BY <2>1 DEF Answering
      <4> QED BY <1>1, <1>2, <3>1, <3>2, <4>1, RelaySends DEF DataFile
    <3> QED BY <1>1, <3>3, <3>4 DEF Answering, DataFile, ReadFile, Silent, Reading
  <2> QED BY <1>3, <1>4, <2>1, <2>3, <2>4, <2>5, <1>1, AnswerThread
<1> QED BY <1>5, <1>6

-----------------------------------------------------------------------------
(* The ends of a connection's steps.  What its thread closes on the way is   *)
(* not its data file.                                                        *)
LEMMA OwnClose ==
  ASSUME AnswerInv, NEW c \in Clients, Close(c, my_file_read[c]), ~stray', pc[c] \in Serving
  PROVE  fds'[data_fd[c]] = fds[data_fd[c]]
<1>1. ~stray /\ \A x \in Fds : x # my_file_read[c] => fds'[x] = fds[x]
  BY CloseTakes DEF AnswerInv, Domains
<1>2. data_fd[c] \in Fds /\ my_file_read[c] # data_fd[c]
  BY <1>1 DEF AnswerInv, Answering
<1> QED BY <1>1, <1>2

(* The steps from the end of the reading to the end of the thread. *)
LEMMA AnswerCloses ==
  ASSUME AnswerInv, TypeInv, NEW c \in Clients, CloseRead(c) \/ CloseClient(c) \/ Finish(c)
  PROVE  AnswerInv'
<1>1. Run(c)
  BY DEF Run
<1>2. /\ UNCHANGED device /\ \E fd : Close(c, fd)
      /\ Domains /\ DOMAIN fds' = Fds => Domains'
  BY DEF CloseRead, CloseClient, Finish, CloseStep, locals, reading, Domains
<1>3. Domains' /\ \A x \in Fds : fds[x] = Reserved => fds'[x] = fds[x]
  BY <1>2, CloseTakes DEF AnswerInv, Domains
<1>4. ~stray' => ~stray /\ \A d \in Clients \ {c} : Untouched(d)
  BY <1>2, CloseTakes DEF AnswerInv, Domains
<1>5. DeviceTypes' /\ Starts(Dev!Contents, (Dev!Contents)')
  BY <1>2, SameDevice DEF AnswerInv
<1>6. \A d \in Clients \ {c} : Alone(d) /\ ContentsStay(d) /\ (d \in overrun => d \in overrun')
  <2>1. CASE CloseRead(c) \/ CloseClient(c)
    BY <1>5, <2>1 DEF CloseRead, CloseClient, CloseStep, locals, reading, Alone, ContentsStay
  <2>2. CASE Finish(c)
    <3>1. \A d \in Clients \ {c} : ReadFile(c) # DataFile(d) /\ ReadFile(c) # ReadFile(d)
      BY FilesDiffer
    <3> QED BY <1>5, <2>2, <3>1 DEF Finish, Alone, ContentsStay, AnswerInv, Domains
  <2> QED BY <2>1, <2>2
<1>7. ASSUME ~stray', Answering(c) PROVE Answering(c)'
  <2>1. CASE CloseRead(c)
    <3>1. /\ pc[c] = "close" /\ pc'[c] = "finish" /\ Close(c, my_file_read[c])
          /\ data_fd' = data_fd /\ my_file_read' = my_file_read /\ from' = from
      BY <2>1 DEF CloseRead, CloseStep, Goto, TypeInv, locals, reading
    <3>2. fds'[data_fd[c]] = fds[data_fd[c]] /\ from'[c] \in Nat
      BY <1>7, <3>1, OwnClose DEF Serving, Answering
    <3> QED BY <1>7, <3>1, <3>2, AnsweringStops DEF Serving, Silent, Reading
  <2>2. CASE CloseClient(c) \/ Finish(c)
    <3>1. pc'[c] \in {"dead", "wrap"}
      BY <2>2 DEF CloseClient, CloseStep, Finish, Goto, TypeInv
    <3>2. from'[c] \in Nat
      BY <1>7, <2>2 DEF CloseClient, CloseStep, Finish, reading, Answering, AnswerInv, Domains
    <3> QED BY <1>7, <3>1, <3>2, AnsweringStops DEF Serving, Silent, Reading
  <2> QED BY <2>1, <2>2
<1> QED BY <1>1, <1>3, <1>4, <1>5, <1>6, <1>7, AnswerThread

(* A thread leaves its reading loop. *)
LEMMA AnswerLeaves ==
  ASSUME AnswerInv, TypeInv, NEW c \in Clients, Run(c), pc[c] \in Reading,
         pc'[c] \in {"close", "finish"},
         UNCHANGED <<device, data_fd, from, resp, overrun>>,
         \/ UNCHANGED f_pos
         \/ \E p : f_pos' = [f_pos EXCEPT ![File(ReadFd(c))] = p],
         \/ UNCHANGED <<fds, stray, my_file_read>>
         \/ Close(c, my_file_read[c]) /\ my_file_read' = [my_file_read EXCEPT ![c] = -1]
  PROVE  AnswerInv'
<1> DEFINE file == File(ReadFd(c))
<1>1. Domains /\ DeviceTypes
  BY DEF AnswerInv
<1>2. DeviceTypes' /\ Starts(Dev!Contents, (Dev!Contents)')
  BY <1>1, SameDevice
<1>3. /\ DOMAIN fds' = Fds /\ \A x \in Fds : fds[x] = Reserved => fds'[x] = fds[x]
      /\ ~stray' => ~stray /\ \A d \in Clients \ {c} : Untouched(d)
  <2>1. CASE UNCHANGED <<fds, stray, my_file_read>>
    BY <1>1, <2>1 DEF Domains, Untouched
  <2>2. CASE Close(c, my_file_read[c])
    BY <1>1, <2>2, CloseTakes DEF Domains
  <2> QED BY <2>1, <2>2
<1>4. Domains'
  BY <1>1, <1>3 DEF Domains
<1>5. CASE stray'
  BY <1>2, <1>3, <1>4, <1>5, AnswerAstray
<1>6. CASE ~stray'
  <2>1. file = ReadFile(c) \/ file = DataFile(c)
    BY <1>3, <1>6, OwnFile DEF Reading
  <2>2. \A d \in Clients \ {c} : f_pos'[DataFile(d)] = f_pos[DataFile(d)]
                                /\ f_pos'[ReadFile(d)] = f_pos[ReadFile(d)]
    BY <1>1, <2>1, FilesDiffer DEF Domains
  <2>3. \A d \in Clients \ {c} : Alone(d) /\ ContentsStay(d)
    BY <1>1, <1>2, <2>2 DEF Alone, ContentsStay, Domains
  <2>4. Answering(c) => Answering(c)'
    <3> SUFFICES ASSUME Answering(c) PROVE Answering(c)'
      OBVIOUS
    <3>1. pc[c] \in Serving /\ pc'[c] \notin Silent \cup Reading /\ from'[c] \in Nat
      BY DEF Reading, Serving, Silent, Answering
    <3>2. fds'[data_fd[c]] = fds[data_fd[c]] /\ my_file_read'[c] \in {my_file_read[c], -1}
      BY <1>1, <1>6, <3>1, OwnClose DEF Domains
    <3> QED BY <3>1, <3>2, AnsweringStops
  <2> QED BY <1>2, <1>3, <1>4, <2>3, <2>4, AnswerThread
<1> QED BY <1>5, <1>6

(* A turn of a reading loop sends what comes next, or leaves. *)
LEMMA AnswerReads ==
  ASSUME AnswerInv, TypeInv, NEW c \in Clients, SeekRead(c) \/ ReadBack(c)
  PROVE  AnswerInv'
<1>1. Run(c) /\ pc[c] \in Reading
  BY DEF Run, SeekRead, ReadBack, Reading
<1>2. CASE Relay(c)
  BY <1>1, <1>2, AnswerRelay
<1>3. CASE ~Relay(c)
  <2>1. /\ pc'[c] \in {"close", "finish"}
        /\ UNCHANGED <<device, data_fd, from, resp, overrun>>
    BY <1>3 DEF SeekRead, ReadBack, Goto, TypeInv, locals, reading
  <2>2. \/ UNCHANGED f_pos
        \/ \E p : f_pos' = [f_pos EXCEPT ![File(ReadFd(c))] = p]
    BY <1>3 DEF SeekRead, ReadBack, SendFails
  <2>3. \/ UNCHANGED <<fds, stray, my_file_read>>
        \/ Close(c, my_file_read[c]) /\ my_file_read' = [my_file_read EXCEPT ![c] = -1]
    BY <1>3 DEF SeekRead, ReadBack, locals
  <2> QED BY <1>1, <2>1, <2>2, <2>3, AnswerLeaves
<1> QED BY <1>2, <1>3

-----------------------------------------------------------------------------
(* What a write stores are lines. *)
LEMMA StoreTypes ==
  ASSUME DeviceTypes, NEW d \in Seq(Bytes), Dev!Write(d) \/ Dev!FailedWrite(d)
  PROVE  DeviceTypes'
<1> DEFINE s == tail \o d
           n == Len(Dev!Ends(s))
<1>1. s \in Seq(Bytes) /\ n \in Nat
  BY CommandsType DEF DeviceTypes
<1>2. ASSUME NEW k \in 0 .. n, Dev!Store(d, k) PROVE DeviceTypes'
  <2> DEFINE all == lines \o SubSeq(Dev!Commands(s), 1, k)
  <2>1. SubSeq(Dev!Commands(s), 1, k) \in Seq(Seq(Bytes))
    <3>1. PICK cmds \in Seq(Seq(Bytes)) : cmds = Dev!Commands(s) /\ Len(cmds) = n
      BY <1>1, CommandsType
    <3>2. SubSeq(cmds, 1, k) \in Seq(Seq(Bytes))
      BY <1>1, <3>1
    <3> QED BY <3>1, <3>2
  <2>2. all \in Seq(Seq(Bytes))
    BY <2>1 DEF DeviceTypes
  <2> HIDE DEF all
  <2>3. Dev!MostRecent(all) \in Seq(Seq(Bytes))
    BY <2>2, SocketAssumption DEF Dev!MostRecent
  <2>4. lines' \in Seq(Seq(Bytes))
    BY <1>2, <2>3 DEF Dev!Store, all
  <2>5. Cut(s, k) \in 0 .. Len(s)
    BY <1>1, CutRanks
  <2>6. tail' = SubSeq(s, Cut(s, k) + 1, Len(s))
    BY <1>2 DEF Dev!Store, Dev!After, Cut
  <2> HIDE DEF s
  <2>7. tail' \in Seq(Bytes)
    BY <1>1, <2>5, <2>6
  <2> QED BY <2>4, <2>7 DEF DeviceTypes
<1>3. CASE Dev!Write(d)
  BY <1>1, <1>2, <1>3 DEF Dev!Write
<1>4. CASE Dev!FailedWrite(d)
  <2>1. CASE UNCHANGED <<lines, tail>>
    BY <2>1 DEF DeviceTypes
  <2>2. CASE \E k \in 0 .. n - 1 : Dev!Store(d, k)
    BY <1>1, <1>2, <2>2
  <2> QED BY <1>4, <2>1, <2>2 DEF Dev!FailedWrite
<1> QED BY <1>3, <1>4

(* While no line is pushed out the contents only grow at their end. *)
LEMMA ContentsGrow ==
  ASSUME DeviceTypes, DeviceTypes', IsPrefix(lines, lines')
  PROVE  Starts(Dev!Contents, (Dev!Contents)')
<1>1. lines \in Seq(Seq(Bytes)) /\ lines' \in Seq(Seq(Bytes))
  BY DEF DeviceTypes
<1>2. Len(lines) \in 0 .. Len(lines') /\ Len(lines') \in 0 .. Len(lines')
      /\ SubSeq(lines', 1, Len(lines)) = lines /\ SubSeq(lines', 1, Len(lines')) = lines'
  BY <1>1 DEF IsPrefix
<1>3. Starts(FlattenSeq(lines), FlattenSeq(lines'))
  <2>1. PICK k \in 0 .. Len(lines') : k = Len(lines)
    BY <1>2
  <2>2. PICK m \in 0 .. Len(lines') : m = Len(lines')
    BY <1>2
  <2>3. k <= m
    BY <2>1, <2>2, <1>2
  <2>4. Starts(FlattenSeq(SubSeq(lines', 1, k)), FlattenSeq(SubSeq(lines', 1, m)))
    BY <1>1, <2>3, FlattenGrows
  <2> QED BY <1>2, <2>1, <2>2, <2>4
<1>4. Dev!Contents = FlattenSeq(lines) /\ (Dev!Contents)' = FlattenSeq(lines')
  BY Zenon DEF Dev!Contents, Dev!FlattenSeq, FlattenSeq
<1> QED BY <1>3, <1>4

(* A write moves lines or adds some; whom the former harms is in overrun. *)
LEMMA AnswerWrite ==
  ASSUME AnswerInv, TypeInv, PacketTypes, NEW c \in Clients, Write(c)
  PROVE  AnswerInv'
<1> DEFINE file == File(data_fd[c])
<1>1. Run(c) /\ pc[c] = "write" /\ pc'[c] \in {"openr", "finish"}
  BY DEF Run, Write, Goto, TypeInv
<1>2. UNCHANGED <<data_fd, my_file_read, from, resp, stray, fds>> /\ NoteReaders
  BY DEF Write, locals
<1>3. Domains /\ DeviceTypes /\ packet[c] \in Seq(Bytes)
  BY DEF AnswerInv, PacketTypes
<1>4. Dev!Write(packet[c]) \/ Dev!FailedWrite(packet[c]) \/ UNCHANGED device
  BY DEF Write, WriteSucceeds, WriteFails
<1>5. DeviceTypes'
  BY <1>3, <1>4, StoreTypes, SameDevice
<1>6. UNCHANGED f_pos \/ \E p : f_pos' = [f_pos EXCEPT ![file] = p]
  BY DEF Write, WriteSucceeds, WriteFails
<1>7. Domains' /\ \A x \in Fds : fds[x] = Reserved => fds'[x] = fds[x]
  BY <1>2, <1>3, <1>6 DEF Domains
<1>8. CASE stray'
  BY <1>1, <1>5, <1>7, <1>8, AnswerAstray
<1>9. CASE ~stray'
  <2>1. ~stray /\ file = DataFile(c)
    BY <1>1, <1>2, <1>9, OwnFile DEF Serving
  <2> HIDE DEF file
  <2>2. \A d \in Clients : Untouched(d)
    BY <1>2 DEF Untouched
  <2>3. \A d \in Clients \ {c} : Alone(d)
    BY <1>2, <1>3, <1>6, <2>1, FilesDiffer DEF Alone, Domains
  <2>4. \A d \in Clients : ContentsStay(d)
    BY <1>2, <1>3, <1>5, ContentsGrow DEF NoteReaders, Readers, Reading, ContentsStay
  <2>5. \A d \in Clients : d \in overrun => d \in overrun'
    BY <1>2 DEF NoteReaders
  <2>6. Answering(c) => Answering(c)'
    BY <1>1, <1>2 DEF Answering, Silent, Serving, DataFile
  <2> QED BY <1>1, <1>5, <1>7, <2>1, <2>2, <2>3, <2>4, <2>5, <2>6, AnswerThread
<1> QED BY <1>8, <1>9

-----------------------------------------------------------------------------
(* At the start nobody has sent anything. *)
LEMMA AnswerInit == Init => AnswerInv
<1> SUFFICES ASSUME Init PROVE AnswerInv
  OBVIOUS
<1>1. DeviceTypes
  BY DEF Init, Dev!Init, DeviceTypes
<1>2. Domains
  BY DEF Init, Domains
<1>3. AcceptReserves
  BY DEF Init, AcceptReserves
<1>4. ASSUME NEW c \in Clients PROVE Answering(c)
  BY DEF Init, Answering, Serving
<1> QED BY <1>1, <1>2, <1>3, <1>4 DEF AnswerInv

(* Every step keeps the invariant. *)
LEMMA AnswerNext == AnswerInv /\ EntriesInv /\ PacketInv /\ [Next]_vars => AnswerInv'
<1> SUFFICES ASSUME AnswerInv, EntriesInv, PacketInv, [Next]_vars PROVE AnswerInv'
  OBVIOUS
<1>0. TypeInv /\ PacketTypes
  BY DEF EntriesInv, PacketInv
<1>1. CASE SignalShutdown \/ SignalFlag \/ SignalEarly
  BY <1>1, AnswerSignals
<1>2. CASE Main
  BY <1>2, AnswerMain, AnswerCreate, AnswerJoin DEF Main
<1>3. ASSUME NEW c \in Clients, Accept(c) \/ Sigpipe(c) \/ HeapAbort(c) PROVE AnswerInv'
  BY <1>0, <1>3, AnswerAccept, AnswerKill DEF Sigpipe, HeapAbort
<1>4. ASSUME NEW c \in Clients, Recv(c) \/ Lock(c) PROVE AnswerInv'
  BY <1>0, <1>4, AnswerWaiting, AnswerForeign DEF Recv
<1>5. ASSUME NEW c \in Clients, Run(c) PROVE AnswerInv'
  BY <1>0, <1>5, AnswerWaiting, AnswerOpenData, AnswerOpenRead, AnswerIoctl, AnswerReads,
     AnswerCloses, AnswerWrite DEF Run
<1>6. CASE UNCHANGED vars
  <2>1. UNCHANGED <<device, pc, data_fd, my_file_read, from, resp, f_pos, overrun, fds, stray,
                    main_pc, accept_fd>>
    BY <1>6 DEF vars, mainvars, locals, history, reading
  <2> QED BY <2>1, AnswerQuiet DEF AnswerInv, Domains, AcceptReserves
<1> QED BY <1>1, <1>2, <1>3, <1>4, <1>5, <1>6 DEF Next

(* Only a thread whose read has returned 0 counts as answered. *)
LEMMA AnsweredAtEnd ==
  ASSUME [Next]_vars, NEW c \in answered' \ answered
  PROVE  c \in Clients /\ pc[c] \in Reading /\ AtEnd(c)
<1>1. ASSUME NEW d \in Clients, Run(d)
      PROVE  \/ answered' \subseteq answered
             \/ answered' = answered \cup {d} /\ pc[d] \in Reading /\ AtEnd(d)
  <2>1. CASE OpenData(d) \/ Loop(d) \/ Extend(d) \/ Write(d) \/ OpenRead(d) \/ Ioctl(d)
    BY <2>1 DEF OpenData, Loop, Extend, Write, OpenRead, OpenReadAt, Ioctl, history, reading
  <2>2. CASE CloseRead(d) \/ Finish(d) \/ Wrap(d) \/ CloseClient(d)
    BY <2>2 DEF CloseRead, Finish, Wrap, CloseClient, CloseStep, history, reading
  <2>3. CASE SeekRead(d) \/ ReadBack(d)
    BY <2>3 DEF SeekRead, ReadBack, Relay, AtEnd, reading, Reading
  <2> QED BY <1>1, <2>1, <2>2, <2>3 DEF Run
<1>2. ASSUME NEW d \in Clients, Accept(d) \/ Recv(d) \/ Lock(d) \/ Sigpipe(d) \/ HeapAbort(d)
      PROVE  answered' = answered
  BY <1>2 DEF Accept, Recv, RecvFrom, RecvEnds, RelayForeign, Lock, Sigpipe, HeapAbort, Kill,
              history, reading
<1>3. CASE Main
  BY <1>3 DEF Main, Start, StartFails, MainTop, AcceptFails, Create, Reap, ReapDone, Exit, Join,
              JoinDone, MainGoto, reading
<1>4. CASE SignalShutdown \/ SignalFlag \/ SignalEarly \/ UNCHANGED vars
  BY <1>4 DEF SignalShutdown, SignalFlag, SignalEarly, vars, history, reading
<1> QED BY <1>1, <1>2, <1>3, <1>4 DEF Next

(* What a thread that reads the end has sent are the contents from where    *)
(* it began: its thread has closed no descriptor of another's, and no line  *)
(* it had still to read was pushed out (handle_connection, :166-:188).      *)
LEMMA AnswerEnds ==
  ASSUME AnswerInv, ~stray, NEW c \in Clients \ overrun, pc[c] \in Reading, AtEnd(c)
  PROVE  resp[c] = SubSeq(Dev!Contents, from[c] + 1, Len(Dev!Contents))
<1> DEFINE C == Dev!Contents
<1>1. PICK file : Sent(c, file) /\ Dev!ReadAt(f_pos[file], BufferSize) = << >>
  <2>1. Answering(c)
    BY DEF AnswerInv
  <2>2. CASE pc[c] = "readback"
    <3>1. Sent(c, ReadFile(c)) /\ File(ReadFd(c)) = ReadFile(c)
      BY <2>1, <2>2, OwnFile DEF Answering
    <3> QED BY <3>1 DEF AtEnd
  <2>3. CASE pc[c] = "seekread"
    <3>1. Sent(c, DataFile(c)) /\ File(ReadFd(c)) = DataFile(c)
      BY <2>1, <2>3, OwnFile DEF Answering
    <3> QED BY <3>1 DEF AtEnd
  <2> QED BY <2>2, <2>3 DEF Reading
<1>2. from[c] \in Nat /\ DeviceTypes /\ C \in Seq(Bytes)
  BY ContentsShape DEF AnswerInv, Answering, DeviceTypes
<1>3. PICK p \in 0 .. Len(C) : p = f_pos[file]
  BY <1>1, <1>2 DEF Sent
<1>4. PICK m \in p .. Len(C) :
        Dev!ReadAt(p, BufferSize) = SubSeq(C, p + 1, m) /\ (m = p => p = Len(C))
  BY <1>2, <1>3, ReadAtShape, SocketAssumption DEF DeviceTypes
<1>5. m = p
  <2>1. SubSeq(C, p + 1, m) = << >>
    BY <1>1, <1>3, <1>4
  <2>2. C \in Seq(Bytes) /\ p \in Nat /\ m \in Nat /\ p <= m /\ m <= Len(C)
    BY <1>2, <1>3, <1>4
  <2> HIDE DEF C
  <2>3. Len(SubSeq(C, p + 1, m)) = m - p
    BY ONLY <2>2
  <2>4. Len(<< >>) = 0
    OBVIOUS
  <2> QED BY <2>1, <2>2, <2>3, <2>4
<1> QED BY <1>1, <1>3, <1>4, <1>5 DEF Sent

-----------------------------------------------------------------------------
(* The client's own line: the last command that a packet completes.        *)

(* A later position of the set has a higher rank. *)
LEMMA RankStrict ==
  ASSUME NEW P \in SUBSET Nat, IsFiniteSet(P), NEW i \in Nat, NEW j \in P, i < j
  PROVE  Rank(P, i) \in Nat /\ Rank(P, j) \in Nat /\ Rank(P, i) < Rank(P, j)
<1>1. Upto(P, i) \in SUBSET Upto(P, j) /\ Upto(P, j) \in SUBSET P /\ j \in Upto(P, j) \ Upto(P, i)
  <2>1. ASSUME NEW k \in P, k <= i PROVE k <= j
    <3>1. k \in Nat
      OBVIOUS
    <3> QED BY <2>1, <3>1
  <2>2. j \in Nat /\ ~(j <= i) /\ j <= j
    OBVIOUS
  <2> QED BY ONLY <2>1, <2>2, j \in P DEF Upto
<1>2. IsFiniteSet(Upto(P, j))
  BY <1>1, FS_Subset
<1>3. /\ IsFiniteSet(Upto(P, i)) /\ Cardinality(Upto(P, i)) <= Cardinality(Upto(P, j))
      /\ (Cardinality(Upto(P, j)) = Cardinality(Upto(P, i)) => Upto(P, j) = Upto(P, i))
  BY <1>1, <1>2, FS_Subset
<1>4. Cardinality(Upto(P, i)) \in Nat /\ Cardinality(Upto(P, j)) \in Nat
  BY <1>2, <1>3, FS_CardinalityType
<1> QED BY <1>1, <1>3, <1>4 DEF Rank

(* The last command of s ends at its last newline b and begins behind the   *)
(* newline before it, if there is one.                                      *)
EndsLast(s, a, b) ==
  /\ \A j \in NewlinesIn(s) : j <= b
  /\ \A j \in NewlinesIn(s) : j < b => j <= a
  /\ a = 0 \/ a \in NewlinesIn(s)
  /\ a < b

(* Such a and b exist for bytes with a newline. *)
LEMMA LastCommand ==
  ASSUME NEW S, NEW s \in Seq(S), NewlinesIn(s) # {}
  PROVE  /\ Len(Dev!Ends(s)) \in Nat \ {0}
         /\ \E a \in 0 .. Len(s), b \in NewlinesIn(s) :
              EndsLast(s, a, b) /\ Dev!Commands(s)[Len(Dev!Ends(s))] = SubSeq(s, a + 1, b)
<1> DEFINE P == NewlinesIn(s)
<1>1. /\ P \in SUBSET Nat /\ IsFiniteSet(P) /\ P \in SUBSET (1 .. Len(s)) /\ Len(s) \in Nat
      /\ Len(Dev!Ends(s)) = Cardinality(P) /\ Cardinality(P) \in Nat
  BY NewlinesFinite DEF NewlinesIn
<1>2. PICK n \in Nat \ {0} : n = Len(Dev!Ends(s)) /\ n = Cardinality(P)
  <2>1. Cardinality(P) # 0
    BY <1>1, FS_EmptySet
  <2> QED BY <1>1, <2>1
<1>3. PICK h \in Nat : h = n - 1 /\ h < n
  <2>1. n - 1 \in Nat /\ n - 1 < n
    OBVIOUS
  <2> QED BY <2>1
<1>4. /\ Cut(s, n) \in P /\ Rank(P, Cut(s, n)) = n
      /\ Cut(s, h) \in 0 .. Len(s) /\ Rank(P, Cut(s, h)) = h /\ (h # 0 => Cut(s, h) \in P)
  <2>1. n \in 0 .. Len(Dev!Ends(s)) /\ h \in 0 .. Len(Dev!Ends(s))
    BY <1>2, <1>3
  <2> QED BY <1>2, <2>1, CutRanks
<1>5. PICK a \in Nat : a = Cut(s, h)
  BY <1>1, <1>4
<1>6. PICK b \in P : b = Cut(s, n)
  BY <1>4
<1>7. a = 0 \/ a \in P
  BY <1>4, <1>5 DEF Cut
<1>8. Beyond(P, b) = {}
  BY <1>1, <1>2, <1>4, <1>6, RankLast
<1>9. \A j \in P : j <= b
  <2>1. \A j \in P : j \in Nat /\ b \in Nat /\ ~(j > b)
    BY <1>1, <1>8 DEF Beyond
  <2> QED BY <2>1
<1>10. ASSUME NEW j \in P, j < b PROVE j <= a
  <2> SUFFICES ASSUME a < j PROVE FALSE
    BY <1>1, <1>10
  <2>1. Rank(P, a) < Rank(P, j) /\ Rank(P, j) \in Nat /\ Rank(P, a) = h
    BY <1>1, <1>4, <1>5, RankStrict
  <2>2. Rank(P, j) < Rank(P, b) /\ Rank(P, b) = n
    BY <1>1, <1>4, <1>6, <1>10, RankStrict
  <2> QED BY <1>3, <2>1, <2>2
<1>11. a < b
  <2>1. a \in Nat /\ b \in Nat
    BY <1>1
  <2>2. ASSUME b < a PROVE FALSE
    <3>1. a \in P
      BY <1>7, <2>1, <2>2
    <3> QED BY <1>9, <2>1, <2>2, <3>1
  <2>3. a # b
    BY <1>3, <1>4, <1>5, <1>6
  <2> QED BY <2>1, <2>2, <2>3
<1>12. Dev!Commands(s)[n] = SubSeq(s, a + 1, b)
  <2>1. n \in 1 .. Len(Dev!Ends(s))
    BY <1>2
  <2>2. Dev!Commands(s)[n] = SubSeq(s, (IF n = 1 THEN 0 ELSE Dev!Ends(s)[n - 1]) + 1, Dev!Ends(s)[n])
    BY <2>1 DEF Dev!Commands
  <2>3. (IF n = 1 THEN 0 ELSE Dev!Ends(s)[n - 1]) = a
    BY <1>3, <1>5 DEF Cut
  <2>4. Dev!Ends(s)[n] = b
    BY <1>6 DEF Cut
  <2> QED BY <2>2, <2>3, <2>4
<1> QED BY <1>1, <1>2, <1>4, <1>5, <1>7, <1>9, <1>10, <1>11, <1>12 DEF EndsLast

(* The last command of a packet is how the last command ends that the packet *)
(* completes together with the bytes that waited.                            *)
LEMMA LastCommandOfBoth ==
  ASSUME NEW S, NEW t \in Seq(S), NEW p \in Seq(S),
         NEW a \in 0 .. Len(p), NEW b \in NewlinesIn(p), EndsLast(p, a, b),
         NEW c \in 0 .. Len(t \o p), NEW d \in NewlinesIn(t \o p), EndsLast(t \o p, c, d)
  PROVE  d = Len(t) + b /\ c <= Len(t) + a
<1> DEFINE s == t \o p
<1>1. /\ s \in Seq(S) /\ Len(s) = Len(t) + Len(p) /\ Len(t) \in Nat /\ Len(p) \in Nat
      /\ \A i \in 1 .. Len(p) : s[Len(t) + i] = p[i]
  OBVIOUS
<1> HIDE DEF s
<1>2. \A i \in NewlinesIn(p) : Len(t) + i \in NewlinesIn(s)
  BY <1>1 DEF NewlinesIn
<1>3. \A i \in NewlinesIn(s) : i > Len(t) => i - Len(t) \in NewlinesIn(p)
  <2> SUFFICES ASSUME NEW i \in NewlinesIn(s), i > Len(t) PROVE i - Len(t) \in NewlinesIn(p)
    OBVIOUS
  <2>1. i \in 1 .. Len(s) /\ s[i] = NL
    BY DEF NewlinesIn
  <2>2. PICK k \in 1 .. Len(p) : k = i - Len(t) /\ i = Len(t) + k
    <3>1. i - Len(t) \in 1 .. Len(p) /\ i = Len(t) + (i - Len(t))
      BY <1>1, <2>1
    <3> QED BY <3>1
  <2> QED BY <1>1, <2>1, <2>2 DEF NewlinesIn
<1>4. a \in Nat /\ b \in Nat \ {0} /\ c \in Nat /\ d \in NewlinesIn(s) /\ d \in Nat
  BY <1>1 DEF NewlinesIn, s
<1>5. EndsLast(s, c, d)
  BY DEF s
<1>6. Len(t) + b <= d
  BY <1>2, <1>5 DEF EndsLast
<1>7. d - Len(t) <= b
  BY <1>1, <1>3, <1>4, <1>6 DEF EndsLast
<1>8. d = Len(t) + b
  <2>1. PICK l \in Nat : l = Len(t) /\ l + b <= d /\ d - l <= b
    BY <1>1, <1>6, <1>7
  <2>2. d = l + b
    BY ONLY <1>4, <2>1
  <2> QED BY <2>1, <2>2
<1>9. ASSUME c > Len(t) + a PROVE FALSE
  <2>1. c \in NewlinesIn(s) /\ c > Len(t) /\ c < d
    BY <1>1, <1>4, <1>5, <1>9 DEF EndsLast
  <2>2. c - Len(t) \in NewlinesIn(p)
    BY <1>3, <2>1
  <2>3. c - Len(t) < b
    BY <1>1, <1>4, <1>8, <2>1
  <2>4. c - Len(t) <= a
    BY <2>2, <2>3 DEF EndsLast
  <2> QED BY <1>1, <1>4, <1>9, <2>4
<1> QED BY <1>1, <1>4, <1>8, <1>9

(* Where sequences are found in others, element by element. *)
LEMMA WithinElements ==
  ASSUME NEW S, NEW t \in Seq(S), NEW s \in Seq(S), NEW i \in Nat, i + Len(t) <= Len(s),
         \A k \in 1 .. Len(t) : s[i + k] = t[k]
  PROVE  Within(t, s)
<1>1. i \in 0 .. Len(s) - Len(t)
  OBVIOUS
<1>2. SubSeq(s, i + 1, i + Len(t)) = t
  OBVIOUS
<1> QED BY <1>1, <1>2 DEF Within

(* And back: where such a place is. *)
LEMMA ElementsWithin ==
  ASSUME NEW S, NEW t \in Seq(S), NEW s \in Seq(S), Within(t, s)
  PROVE  \E i \in Nat : i + Len(t) <= Len(s) /\ \A k \in 1 .. Len(t) : s[i + k] = t[k]
<1>1. PICK i \in 0 .. Len(s) - Len(t) : SubSeq(s, i + 1, i + Len(t)) = t
  BY DEF Within
<1>2. i \in Nat /\ i + Len(t) <= Len(s)
  OBVIOUS
<1>3. ASSUME NEW k \in 1 .. Len(t) PROVE s[i + k] = t[k]
  <2>1. SubSeq(s, i + 1, i + Len(t))[k] = s[i + k]
    BY <1>2
  <2> QED BY <1>1, <2>1
<1> QED BY <1>2, <1>3

(* What is found in a sequence is found in one that begins with it. *)
LEMMA WithinGrows ==
  ASSUME NEW S, NEW t \in Seq(S), NEW s \in Seq(S), NEW u \in Seq(S), Within(t, s), Starts(s, u)
  PROVE  Within(t, u)
<1>1. PICK i \in Nat : i + Len(t) <= Len(s) /\ \A k \in 1 .. Len(t) : s[i + k] = t[k]
  BY ElementsWithin
<1>2. i + Len(t) <= Len(u)
  BY <1>1 DEF Starts
<1>3. ASSUME NEW k \in 1 .. Len(t) PROVE u[i + k] = t[k]
  <2>1. i + k \in 1 .. Len(s)
    BY <1>1
  <2> QED BY <1>1, <2>1 DEF Starts
<1> QED BY <1>2, <1>3, WithinElements

(* The end of a sequence ends with its last element. *)
LEMMA EndOfSequence ==
  ASSUME NEW S, NEW all \in Seq(S), NEW f \in 1 .. Len(all)
  PROVE  /\ all[Len(all)] \in S
         /\ \E front \in Seq(S) : SubSeq(all, f, Len(all)) = Append(front, all[Len(all)])
<1>1. PICK n \in Nat : n = Len(all) - 1 /\ Len(all) = n + 1 /\ f <= n + 1
  <2>1. PICK m \in Nat : m = Len(all)
    OBVIOUS
  <2>2. m - 1 \in Nat /\ m = (m - 1) + 1 /\ f <= m
    BY <2>1
  <2> QED BY <2>1, <2>2
<1>2. SubSeq(all, f, n) \in Seq(S) /\ all[n + 1] \in S
  BY <1>1
<1>3. SubSeq(all, f, n + 1) = Append(SubSeq(all, f, n), all[n + 1])
  BY <1>1
<1> QED BY <1>1, <1>2, <1>3

(* t is how s ends. *)
Closes(t, s) == \E l \in Nat : Len(s) = l + Len(t) /\ \A k \in 1 .. Len(t) : s[l + k] = t[k]

(* The end of a line is found in the contents that end with the line. *)
LEMMA EndOfLine ==
  ASSUME NEW S, NEW F \in Seq(S), NEW line \in Seq(S), NEW t \in Seq(S), Closes(t, line)
  PROVE  Within(t, F \o line)
<1>0. PICK l \in Nat : Len(line) = l + Len(t) /\ \A k \in 1 .. Len(t) : line[l + k] = t[k]
  BY DEF Closes
<1>1. PICK i \in Nat : i = Len(F) + l
  OBVIOUS
<1>2. F \o line \in Seq(S) /\ i + Len(t) <= Len(F \o line)
  BY <1>0, <1>1
<1>3. ASSUME NEW k \in 1 .. Len(t) PROVE (F \o line)[i + k] = t[k]
  <2>1. l + k \in 1 .. Len(line)
    BY <1>0
  <2>2. (F \o line)[Len(F) + (l + k)] = line[l + k]
    BY <2>1
  <2>3. Len(F) + (l + k) = i + k
    BY <1>1
  <2> QED BY <1>0, <2>2, <2>3
<1> QED BY <1>2, <1>3, WithinElements

(* The end of the bytes t, p from c on is that of p from a on. *)
LEMMA EndOfBoth ==
  ASSUME NEW S, NEW t \in Seq(S), NEW p \in Seq(S), NEW a \in Nat, NEW b \in Nat, NEW c \in Nat,
         NEW d \in Nat, a < b, b <= Len(p), d = Len(t) + b, c <= Len(t) + a
  PROVE  Closes(SubSeq(p, a + 1, b), SubSeq(t \o p, c + 1, d))
<1> DEFINE s == t \o p
<1>1. /\ s \in Seq(S) /\ Len(s) = Len(t) + Len(p) /\ Len(t) \in Nat /\ Len(p) \in Nat
      /\ \A i \in 1 .. Len(p) : s[Len(t) + i] = p[i]
  OBVIOUS
<1> HIDE DEF s
<1>2. PICK n \in Nat : n = Len(t)
  BY <1>1
<1>3. PICK l \in Nat : l = (n + a) - c
  <2>1. (n + a) - c \in Nat
    BY <1>2
  <2> QED BY <2>1
<1>4. d <= Len(s) /\ c <= d
  BY <1>1, <1>2
<1>5. /\ SubSeq(s, c + 1, d) \in Seq(S) /\ Len(SubSeq(s, c + 1, d)) = d - c
      /\ \A k \in 1 .. d - c : SubSeq(s, c + 1, d)[k] = s[c + k]
  BY <1>1, <1>4
<1>6. /\ SubSeq(p, a + 1, b) \in Seq(S) /\ Len(SubSeq(p, a + 1, b)) = b - a
      /\ \A k \in 1 .. b - a : SubSeq(p, a + 1, b)[k] = p[a + k]
  OBVIOUS
<1>7. d - c = l + (b - a)
  BY <1>2, <1>3
<1>8. ASSUME NEW k \in 1 .. b - a PROVE SubSeq(s, c + 1, d)[l + k] = SubSeq(p, a + 1, b)[k]
  <2>1. l + k \in 1 .. d - c /\ c + (l + k) = n + (a + k) /\ a + k \in 1 .. Len(p)
    BY <1>2, <1>3
  <2>2. SubSeq(s, c + 1, d)[l + k] = s[c + (l + k)]
    BY <1>5, <2>1
  <2>3. s[n + (a + k)] = p[a + k]
    BY <1>1, <1>2, <2>1
  <2> QED BY <1>6, <2>1, <2>2, <2>3
<1>9. /\ Len(SubSeq(s, c + 1, d)) = l + Len(SubSeq(p, a + 1, b))
      /\ \A k \in 1 .. Len(SubSeq(p, a + 1, b)) :
           SubSeq(s, c + 1, d)[l + k] = SubSeq(p, a + 1, b)[k]
  BY <1>5, <1>6, <1>7, <1>8
<1> QED BY <1>9 DEF s, Closes

(* A write that succeeds leaves the last line of its packet in the contents. *)
LEMMA OwnLineStored ==
  ASSUME DeviceTypes, NEW p \in Seq(Bytes), NewlinesIn(p) # {}, Dev!Write(p)
  PROVE  Last(Dev!Commands(p)) \in Seq(Bytes) /\ Within(Last(Dev!Commands(p)), (Dev!Contents)')
<1> DEFINE s == tail \o p
<1>1. tail \in Seq(Bytes) /\ lines \in Seq(Seq(Bytes)) /\ s \in Seq(Bytes)
  BY DEF DeviceTypes
<1>2. PICK m \in Nat \ {0}, a \in 0 .. Len(p), b \in NewlinesIn(p) :
        m = Len(Dev!Ends(p)) /\ EndsLast(p, a, b) /\ Dev!Commands(p)[m] = SubSeq(p, a + 1, b)
  BY LastCommand
<1>3. NewlinesIn(s) # {}
  <2>1. b \in 1 .. Len(p) /\ p[b] = NL
    BY DEF NewlinesIn
  <2>2. Len(tail) + b \in 1 .. Len(s) /\ s[Len(tail) + b] = NL
    BY <1>1, <2>1
  <2> QED BY <2>2 DEF NewlinesIn
<1>4. PICK n \in Nat \ {0}, c \in 0 .. Len(s), d \in NewlinesIn(s) :
        n = Len(Dev!Ends(s)) /\ EndsLast(s, c, d) /\ Dev!Commands(s)[n] = SubSeq(s, c + 1, d)
  <2> HIDE DEF s
  <2> QED BY <1>1, <1>3, LastCommand
<1>5. d = Len(tail) + b /\ c <= Len(tail) + a
  BY <1>1, <1>2, <1>4, LastCommandOfBoth
<1>6. /\ a \in Nat /\ b \in Nat /\ a < b /\ b <= Len(p) /\ c \in Nat /\ c < d /\ d <= Len(s) /\ d \in Nat
      /\ Len(tail) \in Nat /\ Len(p) \in Nat
  BY <1>1, <1>2, <1>4 DEF EndsLast, NewlinesIn
<1>7. Last(Dev!Commands(p)) = SubSeq(p, a + 1, b) /\ SubSeq(p, a + 1, b) \in Seq(Bytes)
  <2>1. Last(Dev!Commands(p)) = Dev!Commands(p)[m]
    BY <1>2, CommandsType DEF Last
  <2>2. SubSeq(p, a + 1, b) \in Seq(Bytes)
    BY <1>6
  <2> QED BY <1>2, <2>1, <2>2
<1>8. PICK cmds \in Seq(Seq(Bytes)) : cmds = Dev!Commands(s) /\ Len(cmds) = n
  <2> HIDE DEF s
  <2> QED BY <1>1, <1>4, CommandsType
<1>9. PICK all \in Seq(Seq(Bytes)) : /\ all = lines \o SubSeq(Dev!Commands(s), 1, n)
                                    /\ Len(all) \in Nat \ {0}
                                    /\ all[Len(all)] = SubSeq(s, c + 1, d)
  <2> DEFINE whole == lines \o cmds
  <2>1. SubSeq(cmds, 1, n) = cmds
    BY <1>8
  <2>2. whole \in Seq(Seq(Bytes)) /\ Len(whole) \in Nat \ {0} /\ whole[Len(whole)] = cmds[n]
    BY <1>1, <1>8
  <2> QED BY <1>4, <1>8, <2>1, <2>2
<1>10. lines' = Dev!MostRecent(all)
  BY <1>4, <1>9 DEF Dev!Write, Dev!Store
<1>11. PICK f \in Nat \ {0} : f <= Len(all) /\ Dev!MostRecent(all) = SubSeq(all, f, Len(all))
  <2>1. CASE Len(all) > N
    <3>1. Len(all) - N + 1 \in Nat \ {0} /\ Len(all) - N + 1 <= Len(all)
      BY <1>9, <2>1, SocketAssumption
    <3> QED BY <2>1, <3>1 DEF Dev!MostRecent
  <2>2. CASE ~(Len(all) > N)
    <3>1. 1 \in Nat \ {0} /\ 1 <= Len(all)
      BY <1>9
    <3> QED BY <2>2, <3>1 DEF Dev!MostRecent
  <2> QED BY <2>1, <2>2
<1>12. PICK front \in Seq(Seq(Bytes)), line \in Seq(Bytes) :
         lines' = Append(front, line) /\ line = SubSeq(s, c + 1, d)
  <2>1. f \in 1 .. Len(all)
    BY <1>9, <1>11
  <2>2. all[Len(all)] \in Seq(Bytes)
        /\ \E front \in Seq(Seq(Bytes)) : SubSeq(all, f, Len(all)) = Append(front, all[Len(all)])
    BY <2>1, EndOfSequence
  <2> QED BY <1>9, <1>10, <1>11, <2>2
<1>13. /\ (Dev!Contents)' = FlattenSeq(front) \o line
       /\ FlattenSeq(front) \in Seq(Bytes)
  <2>1. (Dev!Contents)' = FlattenSeq(lines')
    BY Zenon DEF Dev!Contents, Dev!FlattenSeq, FlattenSeq
  <2> QED BY <1>12, <2>1, FlattenAppend
<1>14. Within(SubSeq(p, a + 1, b), FlattenSeq(front) \o line)
  <2>1. Closes(SubSeq(p, a + 1, b), line)
    <3>1. Closes(SubSeq(p, a + 1, b), SubSeq(tail \o p, c + 1, d))
      BY <1>1, <1>5, <1>6, EndOfBoth
    <3> QED BY <1>12, <3>1
  <2> QED BY <1>7, <1>12, <1>13, <2>1, EndOfLine
<1> QED BY <1>7, <1>13, <1>14

-----------------------------------------------------------------------------
(* From its lock to the end of its read-back a thread has a line, and as     *)
(* long as nothing has pushed a command out since its write, the last line   *)
(* of its packet is in the contents, which it reads from the start.          *)
Holding == {"lock", "write", "openr", "readback"}

Owns(c) ==
  /\ pc[c] \in Holding => NewlinesIn(packet[c]) # {}
  /\ (~stray /\ pc[c] \in {"openr", "readback"} /\ c \notin overrun) =>
       /\ from[c] = 0 /\ Last(Dev!Commands(packet[c])) \in Seq(Bytes)
       /\ Within(Last(Dev!Commands(packet[c])), Dev!Contents)

OwnInv == \A c \in Clients : Owns(c)

(* What a line is called in the program and in the proofs. *)
LEMMA NewlineIn ==
  ASSUME NEW S, NEW s \in Seq(S)
  PROVE  HasNewline(s) <=> NewlinesIn(s) # {}
BY DEF HasNewline, NewlinesIn, Range

(* A step that leaves the packet of d alone, and does not write. *)
LEMMA OwnsKept ==
  ASSUME DeviceTypes, DeviceTypes', NEW d \in Clients, Owns(d),
         packet'[d] = packet[d], from'[d] = from[d],
         pc'[d] \in Holding => pc[d] \in Holding,
         pc'[d] \in {"openr", "readback"} => pc[d] \in {"openr", "readback"},
         stray => stray', d \in overrun => d \in overrun',
         (pc[d] \in {"openr", "readback"} /\ d \notin overrun') => Starts(Dev!Contents, (Dev!Contents)')
  PROVE  Owns(d)'
<1>1. NewlinesIn(packet[d])' = NewlinesIn(packet[d])
  BY DEF NewlinesIn
<1>2. (Dev!Commands(packet[d]))' = Dev!Commands(packet[d])
  BY DEF Dev!Commands, Dev!Ends, Dev!Cardinality
<1>3. ASSUME ~stray', pc'[d] \in {"openr", "readback"}, d \notin overrun'
      PROVE  /\ from'[d] = 0 /\ Last(Dev!Commands(packet[d])) \in Seq(Bytes)
             /\ Within(Last(Dev!Commands(packet[d])), (Dev!Contents)')
  <2>1. /\ from[d] = 0 /\ Last(Dev!Commands(packet[d])) \in Seq(Bytes)
        /\ Within(Last(Dev!Commands(packet[d])), Dev!Contents)
        /\ Starts(Dev!Contents, (Dev!Contents)')
    BY <1>3 DEF Owns
  <2>2. Dev!Contents \in Seq(Bytes) /\ (Dev!Contents)' \in Seq(Bytes)
    BY ContentsTypes
  <2> QED BY <2>1, <2>2, WithinGrows
<1>4. (Within(Last(Dev!Commands(packet[d])), Dev!Contents))'
        <=> Within(Last((Dev!Commands(packet[d]))'), (Dev!Contents)')
  BY DEF Within, Last
<1>5. (pc[d] \in Holding => NewlinesIn(packet[d]) # {})'
  BY <1>1 DEF Owns
<1>6. ASSUME ~stray', pc'[d] \in {"openr", "readback"}, d \notin overrun'
      PROVE  (/\ from[d] = 0 /\ Last(Dev!Commands(packet[d])) \in Seq(Bytes)
              /\ Within(Last(Dev!Commands(packet[d])), Dev!Contents))'
  BY <1>2, <1>3, <1>4, <1>6 DEF Bytes, Last
<1> QED BY <1>5, <1>6 DEF Owns

(* A step of the thread c that only moves it on, and leaves the device alone. *)
LEMMA OwnsElsewhere ==
  ASSUME OwnInv, DeviceTypes, UNCHANGED <<device, packet, from, overrun>>, stray => stray',
         \A d \in Clients :
           /\ pc'[d] \in Holding => pc[d] \in Holding
           /\ pc'[d] \in {"openr", "readback"} => pc[d] \in {"openr", "readback"}
  PROVE  OwnInv'
<1>1. DeviceTypes' /\ Starts(Dev!Contents, (Dev!Contents)')
  BY SameDevice
<1>2. ASSUME NEW d \in Clients PROVE Owns(d)'
  <2>1. Owns(d)
    BY DEF OwnInv
  <2> QED BY <1>1, <2>1, OwnsKept
<1> QED BY <1>2 DEF OwnInv

(* Steps of main and of the handler, and the end of the process. *)
LEMMA OwnsMain ==
  ASSUME OwnInv, DeviceTypes, TypeInv,
         \/ Main \/ SignalShutdown \/ SignalFlag \/ SignalEarly \/ UNCHANGED vars
         \/ \E c \in Clients : Accept(c) \/ Sigpipe(c) \/ HeapAbort(c)
  PROVE  OwnInv'
<1>1. CASE SignalShutdown \/ SignalFlag \/ SignalEarly \/ UNCHANGED vars
  <2>1. UNCHANGED <<device, packet, from, overrun, stray, pc>>
    BY <1>1 DEF SignalShutdown, SignalFlag, SignalEarly, vars, locals, history, reading
  <2> QED BY <2>1, OwnsElsewhere
<1>2. CASE Main
  <2>1. UNCHANGED <<device, packet, from, overrun>>
    BY <1>2 DEF Main, Start, StartFails, MainTop, AcceptFails, Create, Reap, ReapDone, Exit, Join,
                JoinDone, MainGoto, locals, reading
  <2>2. stray => stray'
    BY <1>2 DEF Main, Start, StartFails, MainTop, AcceptFails, Create, Reap, ReapDone, Exit, Join,
                JoinDone, MainGoto, Close
  <2>3. \A d \in Clients : pc'[d] = pc[d] \/ pc'[d] \in {"open", "refused"}
    BY <1>2 DEF Main, Start, StartFails, MainTop, AcceptFails, Create, Reap, ReapDone, Exit, Join,
                JoinDone, Goto, TypeInv
  <2> QED BY <2>1, <2>2, <2>3, OwnsElsewhere DEF Holding
<1>3. ASSUME NEW c \in Clients, Accept(c) \/ Sigpipe(c) \/ HeapAbort(c) PROVE OwnInv'
  <2>1. UNCHANGED <<device, packet, from, overrun, stray>>
    BY <1>3 DEF Accept, Sigpipe, HeapAbort, Kill, locals, history, reading
  <2>2. \A d \in Clients : pc'[d] = pc[d] \/ pc'[d] \in {"accepted", "none", "killed"}
    BY <1>3 DEF Accept, Sigpipe, HeapAbort, Kill, TypeInv
  <2> QED BY <2>1, <2>2, OwnsElsewhere DEF Holding
<1> QED BY <1>1, <1>2, <1>3

(* What recv brings reaches the lock only with a newline. *)
LEMMA OwnsRecv ==
  ASSUME OwnInv, DeviceTypes, TypeInv, PacketTypes, PacketTypes', Domains, NEW c \in Clients,
         NEW d \in Clients, NEW chunk \in Chunks, RecvFrom(c, d, chunk)
  PROVE  OwnInv'
<1>1. UNCHANGED <<device, from, overrun, stray>>
  BY DEF RecvFrom, history, reading
<1>2. DeviceTypes' /\ Starts(Dev!Contents, (Dev!Contents)')
  BY <1>1, SameDevice
<1>3. ASSUME NEW e \in Clients \ {c} PROVE Owns(e)'
  <2>1. packet'[e] = packet[e] /\ pc'[e] = pc[e] /\ Owns(e)
    BY DEF RecvFrom, Goto, OwnInv, TypeInv, PacketTypes
  <2> QED BY <1>1, <1>2, <2>1, OwnsKept
<1>4. Owns(c)'
  <2>1. pc'[c] \notin {"openr", "readback"} /\ (pc'[c] \in Holding => HasNewline(packet'[c]))
    BY DEF RecvFrom, Goto, TypeInv, Holding, PacketTypes
  <2>2. packet'[c] \in Seq(Bytes)
    BY DEF PacketTypes, Bytes
  <2>3. pc'[c] \in Holding => NewlinesIn(packet'[c]) # {}
    BY <2>1, <2>2, NewlineIn
  <2>4. (NewlinesIn(packet[c]))' = NewlinesIn(packet'[c])
    BY DEF NewlinesIn
  <2> QED BY <2>1, <2>3, <2>4 DEF Owns
<1> QED BY <1>3, <1>4 DEF OwnInv

(* The write of c stores its last line, and notes whom it harms. *)
LEMMA OwnsWrite ==
  ASSUME OwnInv, AnswerInv, TypeInv, PacketTypes, NEW c \in Clients, Write(c)
  PROVE  OwnInv'
<1>1. pc[c] = "write" /\ pc'[c] \in {"openr", "finish"} /\ \A d \in Clients \ {c} : pc'[d] = pc[d]
  BY DEF Write, Goto, TypeInv
<1>2. UNCHANGED <<packet, from, stray>> /\ NoteReaders
  BY DEF Write, locals
<1>3. Domains /\ DeviceTypes /\ packet[c] \in Seq(Bytes)
  BY DEF AnswerInv, PacketTypes
<1>4. Dev!Write(packet[c]) \/ Dev!FailedWrite(packet[c]) \/ UNCHANGED device
  BY DEF Write, WriteSucceeds, WriteFails
<1>5. DeviceTypes'
  BY <1>3, <1>4, StoreTypes, SameDevice
<1>6. ASSUME NEW d \in Clients \ {c} PROVE Owns(d)'
  <2>1. d \in overrun => d \in overrun'
    BY <1>2 DEF NoteReaders
  <2>2. (pc[d] \in {"openr", "readback"} /\ d \notin overrun') => Starts(Dev!Contents, (Dev!Contents)')
    BY <1>2, <1>3, <1>5, ContentsGrow DEF NoteReaders, Readers
  <2> QED BY <1>1, <1>2, <1>3, <1>5, <2>1, <2>2, OwnsKept DEF OwnInv
<1>7. Owns(c)'
  <2>1. NewlinesIn(packet[c]) # {}
    BY <1>1 DEF OwnInv, Owns, Holding
  <2>2. ASSUME ~stray, pc'[c] = "openr"
        PROVE  /\ from[c] = 0 /\ Last(Dev!Commands(packet[c])) \in Seq(Bytes)
               /\ Within(Last(Dev!Commands(packet[c])), (Dev!Contents)')
    <3>1. File(data_fd[c]) = DataFile(c) /\ from[c] = 0
      BY <1>1, <2>2, OwnFile DEF AnswerInv, Answering, Silent, Serving
    <3>2. Dev!Write(packet[c])
      BY <1>1, <2>2, <3>1 DEF Write, WriteSucceeds, WriteFails, Goto, TypeInv, DataFile
    <3> QED BY <1>3, <2>1, <3>1, <3>2, OwnLineStored
  <2>3. (NewlinesIn(packet[c]))' = NewlinesIn(packet[c])
    BY <1>2 DEF NewlinesIn
  <2>4. (Dev!Commands(packet[c]))' = Dev!Commands(packet[c])
    BY <1>2 DEF Dev!Commands, Dev!Ends, Dev!Cardinality
  <2>5. (Within(Last(Dev!Commands(packet[c])), Dev!Contents))'
          <=> Within(Last((Dev!Commands(packet[c]))'), (Dev!Contents)')
    BY DEF Within, Last
  <2>6. (pc[c] \in Holding => NewlinesIn(packet[c]) # {})'
    BY <2>1, <2>3
  <2>7. ASSUME ~stray', pc'[c] \in {"openr", "readback"}
        PROVE  (/\ from[c] = 0 /\ Last(Dev!Commands(packet[c])) \in Seq(Bytes)
                /\ Within(Last(Dev!Commands(packet[c])), Dev!Contents))'
    BY <1>1, <1>2, <2>2, <2>4, <2>5, <2>7 DEF Bytes, Last
  <2> QED BY <2>6, <2>7 DEF Owns
<1> QED BY <1>6, <1>7 DEF OwnInv

(* Any other step of a thread. *)
LEMMA OwnsThread ==
  ASSUME OwnInv, AnswerInv, TypeInv, PacketTypes, PacketTypes', NEW c \in Clients,
         Recv(c) \/ Lock(c) \/ Run(c)
  PROVE  OwnInv'
<1>0. Domains /\ DeviceTypes
  BY DEF AnswerInv
<1>1. CASE Recv(c)
  <2>1. CASE \E d \in Clients, chunk \in Chunks : RecvFrom(c, d, chunk)
    BY <1>0, <2>1, OwnsRecv
  <2>2. CASE RecvEnds(c) \/ \E d \in Clients, chunk \in Chunks : RelayForeign(c, d, chunk)
    <3>1. UNCHANGED <<device, packet, from, overrun, stray>>
      BY <2>2 DEF RecvEnds, RelayForeign, locals, history, reading
    <3>2. \A d \in Clients : pc'[d] = pc[d] \/ pc'[d] = "finish"
      BY <2>2 DEF RecvEnds, RelayForeign, Goto, TypeInv
    <3> QED BY <1>0, <3>1, <3>2, OwnsElsewhere DEF Holding
  <2> QED BY <1>1, <2>1, <2>2 DEF Recv
<1>2. CASE Lock(c) \/ OpenData(c) \/ Loop(c) \/ Extend(c) \/ OpenRead(c) \/ Wrap(c)
  <2>1. UNCHANGED <<device, packet, from, overrun, stray>>
    BY <1>2 DEF Lock, OpenData, Loop, Extend, OpenRead, OpenReadAt, Wrap, locals, history, reading
  <2>2. \A d \in Clients :
          \/ pc'[d] = pc[d] \/ pc'[d] \in {"loop", "wrap", "recv", "finish", "closec"}
          \/ pc[d] = "lock" /\ pc'[d] = "write"
          \/ pc[d] = "openr" /\ pc'[d] = "readback"
    BY <1>2 DEF Lock, OpenData, Loop, Extend, OpenRead, OpenReadAt, Wrap, Goto, TypeInv
  <2> QED BY <1>0, <2>1, <2>2, OwnsElsewhere DEF Holding
<1>3. CASE SeekRead(c) \/ ReadBack(c) \/ CloseRead(c) \/ CloseClient(c)
  <2>1. UNCHANGED <<device, packet, from, overrun>>
    BY <1>3 DEF SeekRead, ReadBack, Relay, CloseRead, CloseClient, CloseStep, locals, history, reading
  <2>2. stray => stray'
    BY <1>3 DEF SeekRead, ReadBack, Relay, CloseRead, CloseClient, CloseStep, Close, history
  <2>3. \A d \in Clients : pc'[d] = pc[d] \/ pc'[d] \in {"finish", "close", "dead"}
    BY <1>3 DEF SeekRead, ReadBack, Relay, CloseRead, CloseClient, CloseStep, Goto, TypeInv
  <2> QED BY <1>0, <2>1, <2>2, <2>3, OwnsElsewhere DEF Holding
<1>4. CASE Ioctl(c) \/ Finish(c)
  <2>1. UNCHANGED device /\ \A d \in Clients \ {c} :
          /\ packet'[d] = packet[d] /\ from'[d] = from[d] /\ pc'[d] = pc[d]
          /\ d \in overrun => d \in overrun'
    BY <1>0, <1>4 DEF Ioctl, Finish, Goto, TypeInv, PacketTypes, Domains, locals
  <2>2. stray => stray'
    BY <1>4 DEF Ioctl, Finish, Close
  <2>3. pc'[c] \in {"seekread", "finish", "wrap"}
    BY <1>4 DEF Ioctl, Finish, Goto, TypeInv
  <2>4. DeviceTypes' /\ Starts(Dev!Contents, (Dev!Contents)')
    BY <1>0, <2>1, SameDevice
  <2>5. ASSUME NEW d \in Clients \ {c} PROVE Owns(d)'
    <3>1. Owns(d)
      BY DEF OwnInv
    <3> QED BY <1>0, <2>1, <2>2, <2>4, <3>1, OwnsKept
  <2>6. Owns(c)'
    BY <2>3 DEF Owns, Holding
  <2> QED BY <2>5, <2>6 DEF OwnInv
<1>5. CASE Write(c)
  BY <1>5, OwnsWrite
<1> QED BY <1>1, <1>2, <1>3, <1>4, <1>5 DEF Run

(* At the start nobody holds a line. *)
LEMMA OwnInit == Init => OwnInv
BY DEF Init, OwnInv, Owns, Holding

(* Every step keeps the invariant. *)
LEMMA OwnNext ==
  OwnInv /\ AnswerInv /\ EntriesInv /\ PacketInv /\ PacketInv' /\ [Next]_vars => OwnInv'
<1> SUFFICES ASSUME OwnInv, AnswerInv, EntriesInv, PacketInv, PacketInv', [Next]_vars PROVE OwnInv'
  OBVIOUS
<1>1. TypeInv /\ PacketTypes /\ PacketTypes' /\ DeviceTypes
  BY DEF EntriesInv, PacketInv, AnswerInv
<1>2. ASSUME NEW c \in Clients, Recv(c) \/ Lock(c) \/ Run(c) PROVE OwnInv'
  BY <1>1, <1>2, OwnsThread
<1> QED BY <1>1, <1>2, OwnsMain DEF Next

(* So the last line of its packet is in what a thread has sent. *)
LEMMA OwnEnds ==
  ASSUME AnswerInv, OwnInv, ~stray, NEW c \in Clients \ overrun, pc[c] = "readback", AtEnd(c)
  PROVE  from[c] = 0 /\ Within(Last(Dev!Commands(packet[c])), resp[c])
<1> DEFINE C == Dev!Contents
<1>1. /\ from[c] = 0 /\ Last(Dev!Commands(packet[c])) \in Seq(Bytes)
      /\ Within(Last(Dev!Commands(packet[c])), C)
  BY DEF OwnInv, Owns
<1>2. resp[c] = SubSeq(C, from[c] + 1, Len(C))
  BY AnswerEnds DEF Reading
<1>3. C \in Seq(Bytes)
  BY ContentsShape DEF AnswerInv, DeviceTypes
<1>4. resp[c] = C
  <2>1. resp[c] = SubSeq(C, 1, Len(C))
    BY <1>1, <1>2
  <2> HIDE DEF C
  <2> QED BY <1>3, <2>1
<1> QED BY <1>1, <1>4

(* A thread that has read to the end has sent the contents of the device    *)
(* ("then send entire file contents back to client", :85), whatever the     *)
(* other threads write meanwhile, and among them the last line it wrote     *)
(* itself, as long as no write has pushed a command out in between.         *)
THEOREM AnswerAlwaysContents == Spec => AnswerIsContents
<1> DEFINE Answered == \A c \in answered' \ (answered \cup overrun) : ~stray =>
             /\ resp[c] = SubSeq(Dev!Contents, from[c] + 1, Len(Dev!Contents))
             /\ pc[c] = "readback" => from[c] = 0 /\ Within(Last(Dev!Commands(packet[c])), resp[c])
<1>1. AnswerInv /\ OwnInv /\ [Next]_vars => Answered
  <2> SUFFICES ASSUME AnswerInv, OwnInv, [Next]_vars, ~stray,
                      NEW c \in answered' \ (answered \cup overrun)
               PROVE  /\ resp[c] = SubSeq(Dev!Contents, from[c] + 1, Len(Dev!Contents))
                      /\ pc[c] = "readback" =>
                           from[c] = 0 /\ Within(Last(Dev!Commands(packet[c])), resp[c])
    OBVIOUS
  <2>1. c \in Clients \ overrun /\ pc[c] \in Reading /\ AtEnd(c)
    BY AnsweredAtEnd
  <2> QED BY <2>1, AnswerEnds, OwnEnds
<1>2. AnswerIsContents <=> [][Answered]_vars
  BY DEF AnswerIsContents
<1> HIDE DEF Answered
<1> QED BY <1>1, <1>2, AnswerInit, AnswerNext, OwnInit, OwnNext, EntriesHold, PacketHolds, PTL DEF Spec
=============================================================================
