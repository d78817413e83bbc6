------------------------------- MODULE KeyPipe -------------------------------
(***************************************************************************)
(* How a key gets to systemd-cryptsetup or cryptsetup: activate and        *)
(* addKeyToLUKS2Container of crypt.go make a FIFO, start the child process *)
(* with its path, open it for writing, write the key, close it and wait.   *)
(*                                                                         *)
(* The caller, the child and the goroutines that forward the child's       *)
(* output run concurrently.  The FIFO is the kernel's: opening one end     *)
(* blocks until the other end is opened too, and writing without a reader  *)
(* fails.  A key is shorter than the FIFO's buffer, so writing never       *)
(* blocks.                                                                 *)
(***************************************************************************)
EXTENDS Integers

CONSTANTS
  MaxLines,   \* bound on the lines of output the child writes
  EarlyExit   \* whether the child may exit before it opens the FIFO

ASSUME KeyPipeAssumption == MaxLines \in Nat /\ EarlyExit \in BOOLEAN

VARIABLES
  fn,        \* the function that runs: "activate" or "addKey"
  caller,    \* its program counter
  child,     \* the child process
  fifo,      \* the FIFO's buffer: "empty", "key", or "eof" once closed
  dir,       \* whether the temporary directory with the FIFO exists
  lines,     \* lines the child has still to write
  pending,   \* lines in the child's output pipe that nobody has read
  done,      \* the goroutine that forwards the output has finished
  lost,      \* history: output was thrown away
  outcome    \* "none", "ok", "exit" (the child failed) or "error"

pipeVars == <<fn, caller, child, fifo, dir, lines, pending, done, lost, outcome>>

Exited == {"success", "failure", "killed"}

PipeInit ==
  /\ fn \in {"activate", "addKey"}
  /\ caller = "mkFifo" /\ child = "none" /\ fifo = "empty" /\ dir = FALSE
  /\ lines \in 0 .. MaxLines /\ pending = 0 /\ done = FALSE /\ lost = FALSE
  /\ outcome = "none"
-----------------------------------------------------------------------------
(* The caller                                                              *)

\* Mutant: the FIFO is not removed.
MutPipeReturn(r) == caller' = "returned" /\ outcome' = r /\ UNCHANGED dir

\* The function returns, with the deferred cleanupFifo.
PipeReturn(r) == caller' = "returned" /\ outcome' = r /\ dir' = FALSE

\* mkFifo removes the directory when Mkfifo fails.
MkFifo ==
  /\ caller = "mkFifo"
  /\ \/ caller' = "start" /\ dir' = TRUE /\ UNCHANGED outcome
     \/ PipeReturn("error")
  /\ UNCHANGED <<fn, child, fifo, lines, pending, done, lost>>

Start ==
  /\ caller = "start"
  /\ \/ caller' = "open" /\ child' = "running" /\ UNCHANGED <<dir, outcome>>
     \/ PipeReturn("error") /\ UNCHANGED child
  /\ UNCHANGED <<fn, fifo, lines, pending, done, lost>>

\* Opening the write end succeeds together with the child's open.
OpenFile ==
  /\ caller = "open" /\ child = "opening"
  /\ caller' = "write" /\ child' = "reading"
  /\ UNCHANGED <<fn, fifo, dir, lines, pending, done, lost, outcome>>

\* Mutant: the child is not killed.
MutKill == UNCHANGED child

\* cmd.Process.Kill().
Kill == child' = IF child \in Exited THEN child ELSE "killed"

OpenFileFails ==
  /\ caller = "open"
  /\ Kill
  /\ PipeReturn("error")
  /\ UNCHANGED <<fn, fifo, lines, pending, done, lost>>

\* Mutant: the FIFO is not closed when writing fails.
MutWrite ==
  /\ caller = "write"
  /\ \/ child \notin Exited /\ fifo' = "key" /\ caller' = "close"
     \/ caller' = "waitFailed" /\ UNCHANGED fifo
  /\ UNCHANGED <<fn, child, dir, lines, pending, done, lost, outcome>>

\* f.Write fails when the child has no read end any more.
Write ==
  /\ caller = "write"
  /\ \/ /\ child \notin Exited
        /\ fifo' = "key" /\ caller' = "close"
     \/ /\ fifo' = "eof" /\ caller' = "waitFailed"  \* f.Close()
  /\ UNCHANGED <<fn, child, dir, lines, pending, done, lost, outcome>>

(***************************************************************************)
(* cmd.Wait: it returns when the child has exited.  It closes the output   *)
(* pipes of activate, whatever is left in them; those of addKey belong to  *)
(* the exec package, which reads them to the end first.                    *)
(***************************************************************************)
Wait(r) ==
  /\ child \in Exited
  /\ fn = "addKey" => done
  /\ lost' = (lost \/ pending > 0)
  /\ pending' = 0
  /\ PipeReturn(r)

WaitAfterFailedWrite ==
  /\ caller = "waitFailed"
  /\ Wait("error")
  /\ UNCHANGED <<fn, child, fifo, lines, done>>

\* f.Close() leaves the key in the FIFO for the child to read.
Close ==
  /\ caller = "close" /\ caller' = "drain"
  /\ UNCHANGED <<fn, child, fifo, dir, lines, pending, done, lost, outcome>>

\* Mutant: cmd.Wait without receiving from done first.
MutDrained == TRUE

\* The two receives from done in activate.
Drained == fn = "activate" => done

\* The end of the function when the key was written.
WaitForChild ==
  /\ caller = "drain" /\ Drained
  /\ Wait(IF child = "success" THEN "ok" ELSE "exit")
  /\ UNCHANGED <<fn, child, fifo, lines, done>>

\* A goroutine reads a line, or finishes at the end of the output.
Forward ==
  /\ child # "none" /\ caller # "returned" /\ ~ done
  /\ \/ pending > 0 /\ pending' = pending - 1 /\ UNCHANGED done
     \/ pending = 0 /\ child \in Exited /\ done' = TRUE /\ UNCHANGED pending
  /\ UNCHANGED <<fn, caller, child, fifo, dir, lines, lost, outcome>>
-----------------------------------------------------------------------------
(* The child (external)                                                    *)

ChildOpens ==
  /\ child = "running" /\ dir
  /\ child' = "opening"
  /\ UNCHANGED <<fn, caller, fifo, dir, lines, pending, done, lost, outcome>>

\* The key, or the end of file of a FIFO that was closed without one.
ChildReads ==
  /\ child = "reading" /\ fifo # "empty"
  /\ child' = IF fifo = "key" THEN "hasKey" ELSE "noKey"
  /\ UNCHANGED <<fn, caller, fifo, dir, lines, pending, done, lost, outcome>>

ChildWrites ==
  /\ child \notin Exited \cup {"none", "opening"} /\ lines > 0
  /\ lines' = lines - 1 /\ pending' = pending + 1
  /\ UNCHANGED <<fn, caller, child, fifo, dir, done, lost, outcome>>

(***************************************************************************)
(* It succeeds with the key only, or may find that there is nothing to do  *)
(* before it opens the FIFO.                                               *)
(***************************************************************************)
ChildExits ==
  /\ lines = 0
  /\ \/ child = "hasKey" /\ child' \in {"success", "failure"}
     \/ child = "noKey" /\ child' = "failure"
     \/ child = "running" /\ (EarlyExit \/ ~ dir) /\ child' \in {"success", "failure"}
  /\ UNCHANGED <<fn, caller, fifo, dir, lines, pending, done, lost, outcome>>

\* It may fail, or be killed, before it reads the key.
ChildDies ==
  /\ child = "reading" /\ lines = 0
  /\ child' = "failure"
  /\ UNCHANGED <<fn, caller, fifo, dir, lines, pending, done, lost, outcome>>
-----------------------------------------------------------------------------
Caller ==
  \/ MkFifo \/ Start \/ OpenFile \/ OpenFileFails \/ Write \/ WaitAfterFailedWrite
  \/ Close \/ WaitForChild

Child == ChildOpens \/ ChildReads \/ ChildWrites \/ ChildExits

PipeNext == Caller \/ Forward \/ Child \/ ChildDies

(***************************************************************************)
(* Every process that can run does.  Neither OpenFileFails nor ChildDies   *)
(* is forced to happen.                                                    *)
(***************************************************************************)
PipeFairness ==
  /\ WF_pipeVars(MkFifo \/ Start \/ OpenFile \/ Write \/ WaitAfterFailedWrite \/ Close \/ WaitForChild)
  /\ WF_pipeVars(Forward)
  /\ WF_pipeVars(Child)

PipeSpec == PipeInit /\ [][PipeNext]_pipeVars /\ PipeFairness
-----------------------------------------------------------------------------
\* The type invariant; the FIFO and its directory are there while the function runs, and no longer.
PipeTypeOK ==
  /\ fn \in {"activate", "addKey"}
  /\ caller \in {"mkFifo", "start", "open", "write", "close", "drain", "waitFailed", "returned"}
  /\ child \in {"none", "running", "opening", "reading", "hasKey", "noKey"} \cup Exited
  /\ fifo \in {"empty", "key", "eof"}
  /\ lines \in 0 .. MaxLines /\ pending \in 0 .. MaxLines
  /\ dir = (caller \notin {"mkFifo", "returned"})
  /\ done \in BOOLEAN /\ lost \in BOOLEAN
  /\ outcome \in {"none", "ok", "exit", "error"}

(***************************************************************************)
(* Unless writing the key failed, what systemd-cryptsetup says is          *)
(* forwarded completely: activate receives twice from done before cmd.Wait *)
(* closes the pipes.                                                       *)
(***************************************************************************)
OutputForwarded == outcome \in {"ok", "exit"} => ~ lost

(***************************************************************************)
(* A function that returned leaves no child behind that waits for the key: *)
(* "If we fail to open the write end, the read end will be blocked in      *)
(* open()", hence the Kill.                                                *)
(***************************************************************************)
NoChildLeftBlocked == caller = "returned" ~> child \in Exited \cup {"none"}

(***************************************************************************)
(* The functions return, so that an error of the child gets to the         *)
(* fallback: "If activation with the TPM sealed key object fails, this     *)
(* function will attempt to activate it with the fallback recovery key     *)
(* instead."                                                               *)
(***************************************************************************)
CallReturns == caller = "start" ~> caller = "returned"
=============================================================================
