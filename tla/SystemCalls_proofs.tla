--------------------------- MODULE SystemCalls_proofs ---------------------------
(***************************************************************************)
(* Proofs about the system call examples for every set of calls and every  *)
(* set of operations that may fail.                                        *)
(***************************************************************************)
EXTENDS SystemCalls, TLAPS

Ends == CommandEnd \cup {OwnExit}

TypeInv ==
  /\ call \in Calls \cup {NULL}
  /\ op \in [Calls -> {"exec", "redirect", "system", NULL}]
  /\ at \in {"idle", "open", "fork", "wait"}
  /\ returned \in [Calls -> BOOLEAN \cup {NULL}]
  /\ open_fds \subseteq Calls
  /\ buffered \in BOOLEAN
  /\ child \in [Calls -> Alive \cup Ends]
  /\ reaped \subseteq Calls /\ inherited \subseteq Calls
  /\ file \in [Calls -> SUBSET {"command", "parent"}]

(* Where the parent is in the call under way: it has a child from its fork *)
(* on, and it has neither waited for it nor returned.                      *)
CallUnderWay ==
  /\ call = NULL <=> at = "idle"
  /\ call # NULL =>
       /\ op[call] \in {"exec", "redirect"}
       /\ returned[call] = NULL /\ call \notin reaped
       /\ at = "open" => op[call] = "redirect"
       /\ at \in {"open", "fork"} <=> child[call] = "none"

(* What has not begun has left no trace. *)
Untouched ==
  \A c \in Calls : op[c] = NULL => child[c] = "none" /\ returned[c] = NULL /\ c \notin reaped

(* A child that has been waited for has ended. *)
ReapedEnded == \A c \in reaped : child[c] \in Ends

(* What a result says of the child, one implication for each result. *)
ResultsTell ==
  \A c \in Calls :
    /\ returned[c] = TRUE => c \in reaped /\ child[c] = "command exits 0"
    /\ returned[c] = FALSE => ~(c \in reaped /\ child[c] = "command exits 0")

(* Only a command's end puts something in the file, and then only what the *)
(* command has printed; what exit writes goes with a status of its own.    *)
FileFollowsChild ==
  \A c \in Calls :
    /\ child[c] \in Alive => file[c] = {}
    /\ op[c] = "redirect" /\ child[c] \in {"command exits 0", "command exits 1"}
         => file[c] = {"command"}

Inv ==
  /\ TypeInv /\ CallUnderWay /\ Untouched /\ ReapedEnded
  /\ ResultsTell /\ FileFollowsChild
-----------------------------------------------------------------------------
(* Success tells an exit with 0 from every other end. *)
LEMMA SuccessTells ==
  ASSUME NEW end
  PROVE  /\ Success(end) \in BOOLEAN
         /\ end = "command exits 0" => Success(end) = TRUE
         /\ end \in Ends /\ end # "command exits 0" => Success(end) = FALSE
<1>1. Success(end) \in BOOLEAN
  BY DEF Success
<1>2. end = "command exits 0" => Success(end) = TRUE
  BY Zenon DEF Success
<1>3. ASSUME end \in Ends, end # "command exits 0"
      PROVE  Success(end) = FALSE
  <2>1. end \notin {"command exits 0", "child exits 0"}
    BY <1>3 DEF Ends, CommandEnd, OwnExit
  <2>2. ~Success(end)
    BY <2>1 DEF Success
  <2>3. QED
    BY <2>2
<1>4. QED
  BY <1>1, <1>2, <1>3

(* A return sets the result of the call under way and no other. *)
LEMMA ReturnSets ==
  ASSUME TypeInv, call \in Calls, NEW result \in BOOLEAN, Return(result)
  PROVE  /\ returned' \in [Calls -> BOOLEAN \cup {NULL}]
         /\ returned'[call] = result
         /\ \A c \in Calls \ {call} : returned'[c] = returned[c]
         /\ call' = NULL /\ at' = "idle"
BY DEF TypeInv, Return

(* A redirect adds to the file of one call and leaves the others alone. *)
LEMMA RedirectedAdds ==
  ASSUME TypeInv, NEW c \in Calls, NEW what \in SUBSET {"command", "parent"}, Redirected(c, what)
  PROVE  /\ file' \in [Calls -> SUBSET {"command", "parent"}]
         /\ op[c] = "redirect" => file'[c] = file[c] \cup what
         /\ op[c] # "redirect" => file'[c] = file[c]
         /\ \A d \in Calls \ {c} : file'[d] = file[d]
BY DEF TypeInv, Redirected

(* Before the first call nothing is open, and there is no child. *)
LEMMA InvInit == Init => Inv
BY NullAssumption
   DEF Init, Inv, TypeInv, Alive, CallUnderWay, Untouched, ReapedEnded, ResultsTell,
       FileFollowsChild

(* What is printed between calls touches none of them. *)
LEMMA InvStdio ==
  ASSUME Inv, Stdio
  PROVE  Inv'
<1>. USE NullAssumption DEF Inv
<1>1. TypeInv'
  BY DEF TypeInv, Stdio
<1>2. CallUnderWay' /\ Untouched'
  BY DEF CallUnderWay, Untouched, Stdio
<1>3. ReapedEnded' /\ ResultsTell'
  BY DEF ReapedEnded, ResultsTell, Stdio
<1>4. FileFollowsChild'
  BY DEF FileFollowsChild, Stdio
<1>5. QED
  BY <1>1, <1>2, <1>3, <1>4

(* system waits for its child by itself, or fails and there is none. *)
LEMMA InvDoSystem ==
  ASSUME Inv, NEW c \in Calls, DoSystem(c)
  PROVE  Inv'
<1>. USE NullAssumption DEF Inv
<1>1. CASE \E end \in CommandEnd :
             /\ child' = [child EXCEPT ![c] = end] /\ reaped' = reaped \cup {c}
             /\ returned' = [returned EXCEPT ![c] = Success(end)]
  <2>. PICK end \in CommandEnd :
         /\ child' = [child EXCEPT ![c] = end] /\ reaped' = reaped \cup {c}
         /\ returned' = [returned EXCEPT ![c] = Success(end)]
    BY <1>1
  <2>. /\ end \in Ends /\ Success(end) \in BOOLEAN
       /\ end = "command exits 0" => Success(end) = TRUE
       /\ end # "command exits 0" => Success(end) = FALSE
    BY SuccessTells DEF Ends
  <2>1. TypeInv'
    BY DEF TypeInv, DoSystem
  <2>2. CallUnderWay' /\ Untouched'
    BY DEF CallUnderWay, Untouched, TypeInv, DoSystem
  <2>3. ReapedEnded' /\ ResultsTell'
    <3>1. c \in reaped' /\ child'[c] = end /\ returned'[c] = Success(end)
      BY DEF TypeInv
    <3>2. \A d \in Calls \ {c} :
            child'[d] = child[d] /\ returned'[d] = returned[d] /\ (d \in reaped' <=> d \in reaped)
      BY DEF TypeInv
    <3>3. ReapedEnded'
      BY <3>1 DEF ReapedEnded, TypeInv
    <3>4. ResultsTell'
      BY <3>1, <3>2 DEF ResultsTell
    <3>5. QED
      BY <3>3, <3>4
  <2>4. FileFollowsChild'
    BY DEF FileFollowsChild, Untouched, TypeInv, Alive, DoSystem
  <2>5. QED
    BY <2>1, <2>2, <2>3, <2>4
<1>2. CASE returned' = [returned EXCEPT ![c] = FALSE] /\ UNCHANGED <<child, reaped>>
  <2>1. TypeInv'
    BY <1>2 DEF TypeInv, DoSystem
  <2>2. CallUnderWay' /\ Untouched'
    BY DEF CallUnderWay, Untouched, TypeInv, DoSystem
  <2>3. ReapedEnded' /\ ResultsTell'
    BY <1>2 DEF ReapedEnded, ResultsTell, Untouched, TypeInv, DoSystem
  <2>4. FileFollowsChild'
    BY <1>2 DEF FileFollowsChild, TypeInv, DoSystem
  <2>5. QED
    BY <2>1, <2>2, <2>3, <2>4
<1>3. QED
  BY <1>1, <1>2 DEF DoSystem

(* A call begins with no trace of its own. *)
LEMMA InvBegin ==
  ASSUME Inv, NEW c \in Calls, NEW o \in {"exec", "redirect"}, Begin(c, o)
  PROVE  Inv'
<1>. USE NullAssumption DEF Inv
<1>1. TypeInv'
  BY DEF TypeInv, Begin
<1>2. CallUnderWay' /\ Untouched'
  BY DEF CallUnderWay, Untouched, TypeInv, Begin
<1>3. ReapedEnded' /\ ResultsTell'
  BY DEF ReapedEnded, ResultsTell, Begin
<1>4. FileFollowsChild'
  BY DEF FileFollowsChild, Untouched, TypeInv, Begin
<1>5. QED
  BY <1>1, <1>2, <1>3, <1>4

(* The output file is opened, or the call returns false. *)
LEMMA InvOpenOutput ==
  ASSUME Inv, OpenOutput
  PROVE  Inv'
<1>. USE NullAssumption DEF Inv
<1>1. call \in Calls
  BY DEF TypeInv, CallUnderWay, OpenOutput
<1>2. CASE open_fds' = open_fds \cup {call} /\ Continue("fork")
  <2>1. TypeInv'
    BY <1>1, <1>2 DEF TypeInv, OpenOutput, Continue
  <2>2. CallUnderWay' /\ Untouched'
    BY <1>2 DEF CallUnderWay, Untouched, OpenOutput, Continue
  <2>3. ReapedEnded' /\ ResultsTell'
    BY <1>2 DEF ReapedEnded, ResultsTell, OpenOutput, Continue
  <2>4. FileFollowsChild'
    BY DEF FileFollowsChild, OpenOutput
  <2>5. QED
    BY <2>1, <2>2, <2>3, <2>4
<1>3. CASE Return(FALSE) /\ UNCHANGED open_fds
  <2>1. TypeInv'
    BY <1>1, <1>3, ReturnSets DEF TypeInv, OpenOutput
  <2>2. CallUnderWay' /\ Untouched'
    BY <1>1, <1>3, ReturnSets DEF CallUnderWay, Untouched, OpenOutput
  <2>3. ReapedEnded' /\ ResultsTell'
    BY <1>1, <1>3, ReturnSets DEF ReapedEnded, ResultsTell, CallUnderWay, OpenOutput
  <2>4. FileFollowsChild'
    BY DEF FileFollowsChild, OpenOutput
  <2>5. QED
    BY <2>1, <2>2, <2>3, <2>4
<1>4. QED
  BY <1>2, <1>3 DEF OpenOutput

(* fork closes the file in the parent, or leaves it open and returns false. *)
LEMMA InvFork ==
  ASSUME Inv, Fork
  PROVE  Inv'
<1>. USE NullAssumption DEF Inv
<1>1. call \in Calls
  BY DEF TypeInv, CallUnderWay, Fork
<1>2. CASE child' = [child EXCEPT ![call] = "forked"] /\ open_fds' = open_fds \ {call}
           /\ inherited' = (IF buffered THEN inherited \cup {call} ELSE inherited)
           /\ Continue("wait")
  <2>1. TypeInv'
    BY <1>1, <1>2 DEF TypeInv, Alive, Fork, Continue
  <2>2. CallUnderWay' /\ Untouched'
    BY <1>2 DEF CallUnderWay, Untouched, TypeInv, Fork, Continue
  <2>3. ReapedEnded' /\ ResultsTell'
    BY <1>2 DEF ReapedEnded, ResultsTell, CallUnderWay, TypeInv, Fork, Continue
  <2>4. FileFollowsChild'
    BY DEF FileFollowsChild, CallUnderWay, TypeInv, Alive, Fork
  <2>5. QED
    BY <2>1, <2>2, <2>3, <2>4
<1>3. CASE Return(FALSE) /\ UNCHANGED <<open_fds, child, inherited>>
  <2>1. TypeInv'
    BY <1>1, <1>3, ReturnSets DEF TypeInv, Fork
  <2>2. CallUnderWay' /\ Untouched'
    BY <1>1, <1>3, ReturnSets DEF CallUnderWay, Untouched, Fork
  <2>3. ReapedEnded' /\ ResultsTell'
    BY <1>1, <1>3, ReturnSets DEF ReapedEnded, ResultsTell, CallUnderWay, Fork
  <2>4. FileFollowsChild'
    BY <1>3 DEF FileFollowsChild, Fork
  <2>5. QED
    BY <2>1, <2>2, <2>3, <2>4
<1>4. QED
  BY <1>2, <1>3 DEF Fork

(* The parent takes the end of the child, or waitpid fails. *)
LEMMA InvWaitPid ==
  ASSUME Inv, WaitPid
  PROVE  Inv'
<1>. USE NullAssumption DEF Inv
<1>1. call \in Calls
  BY DEF TypeInv, CallUnderWay, WaitPid
<1>2. CASE child[call] \notin Alive /\ reaped' = reaped \cup {call}
           /\ Return(Success(child[call]))
  <2>. child[call] \in Ends /\ Success(child[call]) \in BOOLEAN
    BY <1>1, <1>2, SuccessTells DEF TypeInv
  <2>1. TypeInv'
    BY <1>1, ReturnSets DEF TypeInv, WaitPid
  <2>2. CallUnderWay' /\ Untouched'
    BY <1>1, ReturnSets DEF CallUnderWay, Untouched, WaitPid
  <2>3. ReapedEnded' /\ ResultsTell'
    BY <1>1, <1>2, SuccessTells, ReturnSets DEF ReapedEnded, ResultsTell, WaitPid
  <2>4. FileFollowsChild'
    BY DEF FileFollowsChild, WaitPid
  <2>5. QED
    BY <2>1, <2>2, <2>3, <2>4
<1>3. CASE Return(FALSE) /\ UNCHANGED reaped
  <2>1. TypeInv'
    BY <1>1, <1>3, ReturnSets DEF TypeInv, WaitPid
  <2>2. CallUnderWay' /\ Untouched'
    BY <1>1, <1>3, ReturnSets DEF CallUnderWay, Untouched, WaitPid
  <2>3. ReapedEnded' /\ ResultsTell'
    BY <1>1, <1>3, ReturnSets DEF ReapedEnded, ResultsTell, CallUnderWay, WaitPid
  <2>4. FileFollowsChild'
    BY DEF FileFollowsChild, WaitPid
  <2>5. QED
    BY <2>1, <2>2, <2>3, <2>4
<1>4. QED
  BY <1>2, <1>3 DEF WaitPid

(* A step of a child that has not ended leaves the parent's part of the    *)
(* invariant as it is, wherever the child goes: nobody has waited for it,  *)
(* and no result has been true for it.                                     *)
LEMMA ChildStep ==
  ASSUME Inv, NEW c \in Calls, UNCHANGED parent, TypeInv', FileFollowsChild',
         child[c] \in {"forked", "ready", "running"}, child'[c] # "none",
         \A d \in Calls \ {c} : child'[d] = child[d]
  PROVE  Inv'
<1>. USE NullAssumption DEF Inv, parent, TypeInv
<1>1. child[c] \notin Ends /\ c \notin reaped
  BY DEF ReapedEnded, Ends, CommandEnd, OwnExit
<1>2. CallUnderWay' /\ Untouched'
  BY DEF CallUnderWay, Untouched
<1>3. ReapedEnded' /\ ResultsTell'
  BY <1>1 DEF ReapedEnded, ResultsTell
<1>4. QED
  BY <1>2, <1>3

(* dup2 moves the child on, or ends it with a status of its own. *)
LEMMA InvDup2 ==
  ASSUME Inv, NEW c \in Calls, Dup2(c)
  PROVE  Inv'
<1>. USE NullAssumption DEF Inv
<1>1. /\ child[c] = "forked" /\ child'[c] \in {"ready", OwnExit}
      /\ \A d \in Calls \ {c} : child'[d] = child[d]
      /\ UNCHANGED <<parent, file>>
  BY DEF Dup2, Becomes, TypeInv
<1>2. TypeInv'
  BY DEF TypeInv, Alive, Ends, Dup2, Becomes, parent
<1>3. QED
  BY <1>1, <1>2, ChildStep DEF FileFollowsChild, parent, Alive, OwnExit

(* execv turns the child into the command, or the child exits; its exit    *)
(* adds what it has inherited to the file, with a status no result is      *)
(* true for.                                                               *)
LEMMA InvExecv ==
  ASSUME Inv, NEW c \in Calls, Execv(c)
  PROVE  Inv'
<1>. USE NullAssumption DEF Inv
<1>1. /\ child[c] \in {"forked", "ready"} /\ child'[c] \in {"running", OwnExit}
      /\ \A d \in Calls \ {c} : child'[d] = child[d]
      /\ UNCHANGED parent
  BY DEF Execv, ExecvFails, Becomes, TypeInv
<1>2. CASE Becomes(c, "running") /\ UNCHANGED file
  <2>1. TypeInv'
    BY <1>2 DEF TypeInv, Alive, Execv, Becomes, parent
  <2>2. QED
    BY <1>1, <1>2, ChildStep DEF FileFollowsChild, parent, Alive, Becomes, TypeInv
<1>3. CASE ExecvFails(c)
  <2>. DEFINE what == IF c \in inherited THEN {"parent"} ELSE {}
  <2>1. what \in SUBSET {"command", "parent"} /\ Redirected(c, what)
    BY <1>3 DEF ExecvFails
  <2>2. TypeInv'
    BY <1>1, <1>3, RedirectedAdds DEF TypeInv, Ends, ExecvFails, Becomes, parent
  <2>3. /\ child'[c] = OwnExit
        /\ \A d \in Calls \ {c} : file'[d] = file[d]
    BY <1>3, RedirectedAdds DEF ExecvFails, Becomes, TypeInv
  <2>4. QED
    BY <1>1, <2>2, <2>3, ChildStep DEF FileFollowsChild, parent, Alive, OwnExit
<1>4. QED
  BY <1>2, <1>3 DEF Execv

(* The command prints and ends, or a signal ends it before. *)
LEMMA InvCommandEnds ==
  ASSUME Inv, NEW c \in Calls, CommandEnds(c)
  PROVE  Inv'
<1>. USE NullAssumption DEF Inv
<1>1. PICK end \in CommandEnd :
        /\ Becomes(c, end)
        /\ Redirected(c, IF end # "signal" THEN {"command"} ELSE {})
  BY DEF CommandEnds
<1>. DEFINE what == IF end # "signal" THEN {"command"} ELSE {}
<1>2. what \in SUBSET {"command", "parent"} /\ Redirected(c, what)
  BY <1>1
<1>3. TypeInv'
  BY RedirectedAdds DEF TypeInv, Ends, CommandEnds, Becomes, parent
<1>4. /\ child[c] = "running" /\ child'[c] = end
      /\ \A d \in Calls \ {c} : child'[d] = child[d] /\ file'[d] = file[d]
      /\ op[c] = "redirect" => file'[c] = file[c] \cup what
      /\ UNCHANGED parent
  BY <1>1, RedirectedAdds DEF CommandEnds, Becomes, TypeInv
<1>5. end \in Ends
  BY DEF Ends
<1>6. FileFollowsChild'
  BY <1>4 DEF FileFollowsChild, parent, Alive, CommandEnd
<1>7. QED
  BY <1>3, <1>4, <1>6, ChildStep DEF CommandEnd

(* Every step keeps the invariant. *)
LEMMA InvNext == Inv /\ [Next]_vars => Inv'
<1>. SUFFICES ASSUME Inv, [Next]_vars
              PROVE  Inv'
  OBVIOUS
<1>1. CASE Stdio
  BY <1>1, InvStdio
<1>2. ASSUME NEW c \in Calls, DoSystem(c)
      PROVE  Inv'
  BY <1>2, InvDoSystem
<1>3. ASSUME NEW c \in Calls, NEW o \in {"exec", "redirect"}, Begin(c, o)
      PROVE  Inv'
  BY <1>3, InvBegin
<1>4. CASE OpenOutput \/ Fork \/ WaitPid
  BY <1>4, InvOpenOutput, InvFork, InvWaitPid
<1>5. ASSUME NEW c \in Calls, Dup2(c) \/ Execv(c) \/ CommandEnds(c)
      PROVE  Inv'
  BY <1>5, InvDup2, InvExecv, InvCommandEnds
<1>6. CASE UNCHANGED vars
  BY <1>6
     DEF Inv, TypeInv, CallUnderWay, Untouched, ReapedEnded, ResultsTell,
         FileFollowsChild, vars
<1>7. QED
  BY <1>1, <1>2, <1>3, <1>4, <1>5, <1>6 DEF Next

(* The invariant holds in every state that can be reached. *)
LEMMA InvHolds == Spec => []Inv
BY InvInit, InvNext, PTL DEF Spec

-----------------------------------------------------------------------------
(* do_system, do_exec and do_exec_redirect: a call returns true exactly if *)
(* it has waited for its command and the command has exited with 0,        *)
(* however the calls and the children are interleaved and whatever fails.  *)
THEOREM TrueOnlyIfExecuted == Spec => []TrueIffExecuted
<1>1. Inv => TrueIffExecuted
  <2>. SUFFICES ASSUME Inv, NEW c \in Calls, returned[c] # NULL
                PROVE  returned[c] <=> c \in reaped /\ child[c] = "command exits 0"
    BY DEF TrueIffExecuted
  <2>1. returned[c] \in BOOLEAN
    BY DEF Inv, TypeInv
  <2>2. QED
    BY <2>1, Zenon DEF Inv, ResultsTell
<1>2. QED
  BY <1>1, InvHolds, PTL

(* do_exec_redirect and stdio: when a redirect has returned true its file  *)
(* holds what the command printed, and nothing the parent had buffered.    *)
THEOREM OutputIsOnlyTheCommands == Spec => []OutputIsCommands
<1>1. Inv => OutputIsCommands
  BY DEF Inv, ResultsTell, FileFollowsChild, OutputIsCommands
<1>2. QED
  BY <1>1, InvHolds, PTL
=============================================================================
