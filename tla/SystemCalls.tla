------------------------------ MODULE SystemCalls ------------------------------
(***************************************************************************)
(* examples/systemcalls/systemcalls.c: a process that calls do_exec,       *)
(* do_exec_redirect and do_system one after the other, and the children    *)
(* that the first two fork.  A child inherits the bytes its parent has     *)
(* printed and stdio has not written yet; exit writes them out, execv does *)
(* away with them.  The kernel, stdio and system are outside the           *)
(* repository.                                                             *)
(***************************************************************************)
EXTENDS Naturals

CONSTANTS
  Calls,      \* the calls the process makes, also the names of their children
  NULL,
  Faults      \* what may fail: "open", "fork", "dup2", "execv", "waitpid", "system"

ASSUME NullAssumption ==
  NULL \notin Calls /\ NULL \notin BOOLEAN /\ NULL \notin {"exec", "redirect", "system"}

VARIABLES
  call,       \* the call under way, or NULL
  op,         \* which of the functions each call is of
  at,         \* where the parent is in it
  returned,   \* the result of each call, NULL before it returns
  open_fds,   \* the calls whose output file is open in the parent
  buffered,   \* whether the parent's stdio holds bytes it has printed
  child,      \* the state of each child, or how it ended
  reaped,     \* the calls whose child's end has been waited for
  inherited,  \* the calls whose child has a copy of buffered bytes
  file        \* what each call's output file holds

vars == <<call, op, at, returned, open_fds, buffered, child, reaped, inherited, file>>
parent == <<call, op, at, returned, open_fds, buffered, reaped, inherited>>

(* How a child may end: with an exit of the command, with a signal, or by  *)
(* itself before the command has run; the low eight bits of exit(-1) are   *)
(* left.  Until then it is not waited for.                                 *)
CommandEnd == {"command exits 0", "command exits 1", "signal"}
OwnExit == "child exits 255"
Alive == {"none", "forked", "ready", "running"}

Init ==
  /\ call = NULL /\ at = "idle"
  /\ op = [c \in Calls |-> NULL] /\ returned = [c \in Calls |-> NULL]
  /\ open_fds = {} /\ buffered = FALSE
  /\ child = [c \in Calls |-> "none"] /\ reaped = {} /\ inherited = {}
  /\ file = [c \in Calls |-> {}]

-----------------------------------------------------------------------------
(* The parent. *)

(* Between calls the process prints, or stdio writes what it holds. *)
Stdio ==
  /\ call = NULL
  /\ buffered' = ~buffered
  /\ UNCHANGED <<call, op, at, returned, open_fds, child, reaped, inherited, file>>

(* A call of do_exec ("exec") or do_exec_redirect ("redirect"). *)
Begin(c, o) ==
  /\ call = NULL /\ op[c] = NULL
  /\ call' = c /\ op' = [op EXCEPT ![c] = o]
  /\ at' = IF o = "redirect" THEN "open" ELSE "fork"
  /\ UNCHANGED <<returned, open_fds, buffered, child, reaped, inherited, file>>

Continue(place) == at' = place /\ UNCHANGED <<call, returned>>

Return(result) ==
  /\ returned' = [returned EXCEPT ![call] = result]
  /\ call' = NULL /\ at' = "idle"

(* Mutant of Success: WEXITSTATUS without WIFEXITED. *)
SuccessByStatus(end) == end \in {"command exits 0", "child exits 0", "signal"}

(* status is that of an exit with 0: WIFEXITED and WEXITSTATUS. *)
Success(end) == end \in {"command exits 0", "child exits 0"}

(* do_system: system forks, runs and waits by itself; its result is -1 or a *)
(* wait status, which is 0 only for an exit with 0.                         *)
DoSystem(c) ==
  /\ call = NULL /\ op[c] = NULL
  /\ op' = [op EXCEPT ![c] = "system"]
  /\ \/ \E end \in CommandEnd :
          /\ child' = [child EXCEPT ![c] = end] /\ reaped' = reaped \cup {c}
          /\ returned' = [returned EXCEPT ![c] = Success(end)]
     \/ /\ "system" \in Faults
        /\ returned' = [returned EXCEPT ![c] = FALSE]
        /\ UNCHANGED <<child, reaped>>
  /\ UNCHANGED <<call, at, open_fds, buffered, inherited, file>>

(* open(outputfile, O_WRONLY|O_TRUNC|O_CREAT, 0644) *)
OpenOutput ==
  /\ at = "open"
  /\ \/ open_fds' = open_fds \cup {call} /\ Continue("fork")
     \/ "open" \in Faults /\ Return(FALSE) /\ UNCHANGED open_fds
  /\ UNCHANGED <<op, buffered, child, reaped, inherited, file>>

(* fork, and close(fd) in the parent: when it fails, against the comment at *)
(* systemcalls.c:69, the output file stays open.                            *)
Fork ==
  /\ at = "fork"
  /\ \/ /\ child' = [child EXCEPT ![call] = "forked"]
        /\ inherited' = IF buffered THEN inherited \cup {call} ELSE inherited
        /\ open_fds' = open_fds \ {call}
        /\ Continue("wait")
     \/ "fork" \in Faults /\ Return(FALSE) /\ UNCHANGED <<open_fds, child, inherited>>
  /\ UNCHANGED <<op, buffered, reaped, file>>

(* waitpid: the child's end, or an error such as a signal's. *)
WaitPid ==
  /\ at = "wait"
  /\ \/ /\ child[call] \notin Alive
        /\ reaped' = reaped \cup {call}
        /\ Return(Success(child[call]))
     \/ "waitpid" \in Faults /\ Return(FALSE) /\ UNCHANGED reaped
  /\ UNCHANGED <<op, open_fds, buffered, child, inherited, file>>

-----------------------------------------------------------------------------
(* The child.  "ready" is the state after a dup2. *)

Becomes(c, state) == child' = [child EXCEPT ![c] = state]

Output(c, what) == file' = [file EXCEPT ![c] = @ \cup what]

(* dup2(fd, STDOUT_FILENO): when it fails, what exit writes goes elsewhere. *)
Dup2(c) ==
  /\ child[c] = "forked" /\ op[c] = "redirect"
  /\ \/ Becomes(c, "ready")
     \/ "dup2" \in Faults /\ Becomes(c, OwnExit)
  /\ UNCHANGED <<parent, file>>

Redirected(c, what) ==
  file' = IF op[c] = "redirect" THEN [file EXCEPT ![c] = @ \cup what] ELSE file

(* Mutant of ExecvFails: the child ends with 0. *)
ExecvFailsWithZero(c) ==
  /\ "execv" \in Faults
  /\ Becomes(c, "child exits 0")
  /\ Redirected(c, {"parent"})

(* exit(-1), which writes the bytes inherited to the standard output. *)
ExecvFails(c) ==
  /\ "execv" \in Faults
  /\ Becomes(c, OwnExit)
  /\ Redirected(c, IF c \in inherited THEN {"parent"} ELSE {})

Execv(c) ==
  /\ child[c] = IF op[c] = "redirect" THEN "ready" ELSE "forked"
  /\ \/ Becomes(c, "running") /\ UNCHANGED file
     \/ ExecvFails(c)
  /\ UNCHANGED parent

(* The command prints and ends, or is ended before. *)
CommandEnds(c) ==
  /\ child[c] = "running"
  /\ \E end \in CommandEnd :
       /\ Becomes(c, end)
       /\ Redirected(c, IF end # "signal" THEN {"command"} ELSE {})
  /\ UNCHANGED parent

Next ==
  \/ Stdio
  \/ \E c \in Calls : DoSystem(c) \/ \E o \in {"exec", "redirect"} : Begin(c, o)
  \/ OpenOutput \/ Fork \/ WaitPid
  \/ \E c \in Calls : Dup2(c) \/ Execv(c) \/ CommandEnds(c)

Spec == Init /\ [][Next]_vars

-----------------------------------------------------------------------------
(* A call returns true exactly if its command has run and exited with 0 and  *)
(* the call has waited for it ("true if the command ... were executed        *)
(* successfully", systemcalls.c:28): an execv that fails, a status other     *)
(* than 0, a signal and an interrupted wait all make it false.               *)
TrueIffExecuted ==
  \A c \in Calls : returned[c] # NULL =>
    (returned[c] <=> c \in reaped /\ child[c] = "command exits 0")

(* The output file of a redirect that returned true holds what the command  *)
(* printed and nothing the parent had printed before the fork.              *)
OutputIsCommands ==
  \A c \in Calls : op[c] = "redirect" /\ returned[c] = TRUE => file[c] = {"command"}
=============================================================================
