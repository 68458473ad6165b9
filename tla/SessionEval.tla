------------------------------ MODULE SessionEval ------------------------------
(***************************************************************************)
(* One session (go/session.go): the evals that share it, each with its      *)
(* output readers and the goroutine that watches its client's connection,   *)
(* the interrupts sent to it, and the interpreter at the other end of the   *)
(* pipes and of the control socket.                                         *)
(*                                                                         *)
(* The interpreter does what the embedded runtimes do with a signal (an      *)
(* interrupt byte, or SIGINT for R): it aborts the statement it finds, is    *)
(* dropped when there is none, and may be lost.  Both output streams end an  *)
(* eval with the same sentinel and are one stream here.                      *)
(***************************************************************************)
EXTENDS Sequences, Naturals

CONSTANTS
    Eval,     \* calls of execute, each for a client connection
    User,     \* `repld interrupt` requests
    NoEval

ASSUME EvalsDistinct == NoEval \notin Eval /\ Eval \cap User = {}

Interrupter == Eval \cup User

VARIABLES
    pc,        \* where an execute stands
    result,    \* what it returned, and whose status line said so
    sem,       \* the holder of s.sem
    busy,      \* s.busySince # 0
    dead,      \* s.dead
    killed,    \* Session.kill was called
    proc,      \* "running" or "exited"
    held,      \* a process the code has started has the output pipes open
    cur,       \* the eval the interpreter works on
    phase,     \* and how far it is with it
    sentinel,  \* the sentinel of cur waits in the pipes
    wire,      \* status lines written to the control socket, not yet read
    ctrlLines, \* s.ctrlLines
    signal,    \* a byte or SIGINT the interpreter has not taken yet
    cancelled, \* evals whose ctx is cancelled: client gone, or handler returned
    int,       \* where an interrupt stands
    aim,       \* history: the eval that was busy when an interrupt began
    overtaken  \* history: evals that drained while a line was on the wire

vars == <<pc, result, sem, busy, dead, killed, proc, held, cur, phase, sentinel,
          wire, ctrlLines, signal, cancelled, int, aim, overtaken>>

Process == <<killed, proc, held, cur, phase, sentinel>>
Control == <<wire, ctrlLines, signal>>
Past    == <<aim, overtaken>>
Watch   == <<cancelled, int, Past>>

\* Of a status line, OK or ERR, all that matters is the eval it is about.
Status(e) == [of |-> e, says |-> "status"]
NoLine(r) == [of |-> NoEval, says |-> r]

\* execute has returned, or its deferred calls are all that is left.
Goto(e, l) == pc' = [pc EXCEPT ![e] = l]
Return(e, r) == result' = [result EXCEPT ![e] = r]
EvalDone(e) == pc[e] = "done"

\* The process is gone with what it was doing; what it wrote is still to be read,
\* and a child of it may have the pipes.
ProcessExits ==
    /\ proc' = "exited" /\ held' \in BOOLEAN
    /\ cur' = NoEval /\ phase' = "idle" /\ signal' = FALSE

\* A signal to a process that is gone is sent in vain.
Signal == signal' = (proc = "running")

Init ==
    /\ pc = [e \in Eval |-> "new"]
    /\ result = [e \in Eval |-> NoLine("none")]
    /\ sem = NoEval /\ busy = FALSE /\ dead = FALSE
    /\ killed = FALSE /\ proc = "running" /\ held = FALSE
    /\ cur = NoEval /\ phase = "idle" /\ sentinel = FALSE
    /\ wire = <<>> /\ ctrlLines = <<>> /\ signal = FALSE
    /\ cancelled = {}
    /\ int = [i \in Interrupter |-> "off"]
    /\ aim = [i \in Interrupter |-> NoEval]
    /\ overtaken = {}
-----------------------------------------------------------------------------
(* execute and executeRaw *)

Call(e) ==
    /\ pc[e] = "new"
    /\ Goto(e, "queued")
    /\ UNCHANGED <<result, sem, busy, dead, Process, Control, Watch>>

Take(e) ==
    /\ pc[e] = "queued" /\ sem = NoEval
    /\ sem' = e
    /\ Goto(e, "taken")
    /\ UNCHANGED <<result, busy, dead, Process, Control, Watch>>

\* The other ready case of the same select, when both are.
GiveUp(e) ==
    /\ pc[e] = "queued" /\ e \in cancelled
    /\ Return(e, NoLine("cancelled"))
    /\ Goto(e, "done")
    /\ UNCHANGED <<sem, busy, dead, Process, Control, Watch>>

RefuseDead(e) ==
    /\ pc[e] = "taken" /\ dead
    /\ Return(e, NoLine("died"))
    /\ sem' = NoEval
    /\ Goto(e, "done")
    /\ UNCHANGED <<busy, dead, Process, Control, Watch>>

\* Mutant of SpawnWatcher: dead was looked at before the sem was taken.
SpawnWatcherUnchecked(e) ==
    /\ pc[e] = "taken"
    /\ int' = [int EXCEPT ![e] = "spawned"]
    /\ Goto(e, "mark")
    /\ UNCHANGED <<result, sem, busy, dead, Process, Control, cancelled, Past>>

SpawnWatcher(e) ==
    /\ pc[e] = "taken" /\ ~dead
    /\ int' = [int EXCEPT ![e] = "spawned"]
    /\ Goto(e, "mark")
    /\ UNCHANGED <<result, sem, busy, dead, Process, Control, cancelled, Past>>

MarkBusy(e) ==
    /\ pc[e] = "mark"
    /\ busy' = TRUE
    /\ Goto(e, "write")
    /\ UNCHANGED <<result, sem, dead, Process, Control, Watch>>

\* The code and the sentinel statement reach the interpreter's stdin.  What is on
\* the wire by then has escaped the drain, which empties ctrlLines and does not
\* wait for the goroutine that fills it.
Send(e) ==
    /\ pc[e] = "write" /\ proc = "running"
    /\ cur' = e /\ phase' = "read"
    /\ overtaken' = IF wire = <<>> THEN overtaken ELSE overtaken \cup {e}
    /\ Goto(e, "scan")
    /\ UNCHANGED <<result, sem, busy, dead, killed, proc, held, sentinel, wire, signal,
                   cancelled, int, aim>>

\* Mutant of Write: what an earlier eval left in ctrlLines stays there.
WriteUndrained(e) ==
    /\ Send(e)
    /\ UNCHANGED ctrlLines

\* Drain ctrlLines of what earlier evals stranded, then write.
Write(e) ==
    /\ Send(e)
    /\ ctrlLines' = <<>>

\* A kill has closed stdin, or cmd.Wait has.
WriteFails(e) ==
    /\ pc[e] = "write" /\ (proc = "exited" \/ killed)
    /\ Return(e, NoLine("write"))
    /\ Goto(e, "clear")
    /\ UNCHANGED <<sem, busy, dead, Process, Control, Watch>>

\* Mutant of ScanEnds: the status line ends the eval, not the sentinel.
ScanEndsAtStatus(e) ==
    /\ pc[e] = "scan" /\ (sentinel \/ ctrlLines # <<>>)
    /\ sentinel' = FALSE
    /\ Goto(e, "status")
    /\ UNCHANGED <<result, sem, busy, dead, killed, proc, held, cur, phase, Control, Watch>>

ScanEnds(e) ==
    /\ pc[e] = "scan" /\ sentinel
    /\ sentinel' = FALSE
    /\ Goto(e, "status")
    /\ UNCHANGED <<result, sem, busy, dead, killed, proc, held, cur, phase, Control, Watch>>

\* Nobody has the pipes open any more: neither the interpreter nor its children.
ScanHitsEOF(e) ==
    /\ pc[e] = "scan" /\ ~sentinel /\ proc = "exited" /\ ~held
    /\ dead' = TRUE
    /\ Return(e, NoLine("died"))
    /\ Goto(e, "clear")
    /\ UNCHANGED <<sem, busy, Process, Control, Watch>>

TakeStatus(e) ==
    /\ pc[e] = "status" /\ ctrlLines # <<>>
    /\ Return(e, Status(Head(ctrlLines)))
    /\ ctrlLines' = Tail(ctrlLines)
    /\ Goto(e, "clear")
    /\ UNCHANGED <<sem, busy, dead, Process, wire, signal, Watch>>

\* ctrlLines is closed, for all was read or a kill has closed the socket: no error
\* to report.
StatusEOF(e) ==
    /\ pc[e] = "status" /\ ctrlLines = <<>> /\ proc = "exited" /\ (wire = <<>> \/ killed)
    /\ Return(e, NoLine("nil"))
    /\ Goto(e, "clear")
    /\ UNCHANGED <<sem, busy, dead, Process, Control, Watch>>

\* The bounded wait is over; a line may come after it.
StatusTimesOut(e) ==
    /\ pc[e] = "status" /\ ctrlLines = <<>>
    /\ Return(e, NoLine("interrupted"))
    /\ Goto(e, "clear")
    /\ UNCHANGED <<sem, busy, dead, Process, Control, Watch>>

\* Mutant of ClearBusy: the deferred reset of busySince is missing.
ClearBusyForgets(e) ==
    /\ pc[e] = "clear"
    /\ Goto(e, "release")
    /\ UNCHANGED <<result, sem, busy, dead, Process, Control, Watch>>

ClearBusy(e) ==
    /\ pc[e] = "clear"
    /\ busy' = FALSE
    /\ Goto(e, "release")
    /\ UNCHANGED <<result, sem, dead, Process, Control, Watch>>

\* evalDone is closed, which decides a watcher that waits; the sem is given back.
Release(e) ==
    /\ pc[e] = "release"
    /\ int' = [int EXCEPT ![e] = IF @ = "parked" THEN "off" ELSE @]
    /\ sem' = NoEval
    /\ Goto(e, "done")
    /\ UNCHANGED <<result, busy, dead, Process, Control, cancelled, Past>>
-----------------------------------------------------------------------------
(* The watcher of an eval, and interrupt *)

\* The client disconnects, or the handler has returned and cancels its ctx, which
\* is left out when nobody looks at that any more.
Cancel(e) ==
    /\ e \notin cancelled /\ pc[e] # "new"
    /\ EvalDone(e) => int[e] # "off"
    /\ cancelled' = cancelled \cup {e}
    /\ int' = [int EXCEPT ![e] = IF @ = "parked" THEN "aim" ELSE @]
    /\ UNCHANGED <<pc, result, sem, busy, dead, Process, Control, Past>>

\* Mutant of Look: a ctx that was cancelled before the select is not noticed.
LookParks(e) ==
    /\ int[e] = "spawned"
    /\ int' = [int EXCEPT ![e] = IF EvalDone(e) THEN "off" ELSE "parked"]
    /\ UNCHANGED <<pc, result, sem, busy, dead, Process, Control, cancelled, Past>>

\* The watcher reaches its select: what is ready is taken, else it waits.
Look(e) ==
    /\ int[e] = "spawned"
    /\ \E l \in {"aim", "off", "parked"} :
          /\ l = "aim" => e \in cancelled
          /\ l = "off" => EvalDone(e)
          /\ l = "parked" => e \notin cancelled /\ ~EvalDone(e)
          /\ int' = [int EXCEPT ![e] = l]
    /\ UNCHANGED <<pc, result, sem, busy, dead, Process, Control, cancelled, Past>>

Ask(u) ==
    /\ int[u] = "off" /\ aim[u] = NoEval
    /\ int' = [int EXCEPT ![u] = "aim"]
    /\ UNCHANGED <<pc, result, sem, busy, dead, Process, Control, cancelled, Past>>

\* No interrupt for a dead session or an idle one; else the first signal.
Aim(i) ==
    /\ int[i] = "aim"
    /\ \/ /\ dead \/ ~busy
          /\ int' = [int EXCEPT ![i] = "off"]
          /\ UNCHANGED <<signal, aim>>
       \/ /\ ~dead /\ busy
          /\ int' = [int EXCEPT ![i] = "polling"]
          /\ aim' = [aim EXCEPT ![i] = sem]
          /\ Signal
    /\ UNCHANGED <<pc, result, sem, busy, dead, Process, wire, ctrlLines, cancelled, overtaken>>

Poll(i) ==
    /\ int[i] = "polling" /\ ~busy
    /\ int' = [int EXCEPT ![i] = "off"]
    /\ UNCHANGED <<pc, result, sem, busy, dead, Process, Control, cancelled, Past>>

Resend(i) ==
    /\ int[i] = "polling" /\ busy
    /\ Signal
    /\ UNCHANGED <<pc, result, sem, busy, dead, Process, wire, ctrlLines, Watch>>

\* Mutant of Deadline: the session is given up but its process is not killed.
DeadlineMarks(i) ==
    /\ int[i] = "polling"
    /\ dead' = TRUE
    /\ int' = [int EXCEPT ![i] = "off"]
    /\ UNCHANGED <<pc, result, sem, busy, Process, Control, cancelled, Past>>

Deadline(i) ==
    /\ int[i] = "polling"
    /\ ProcessExits /\ dead' = TRUE
    /\ int' = [int EXCEPT ![i] = "off"]
    /\ UNCHANGED <<pc, result, sem, busy, killed, sentinel, wire, ctrlLines, cancelled, Past>>
-----------------------------------------------------------------------------
(* The interpreter and the control socket's reader *)

Works(l) == proc = "running" /\ phase = l
Says     == wire' = Append(wire, cur)
Moves(l) == phase' = l /\ UNCHANGED <<killed, proc, held, cur>>
GoSide   == <<pc, result, sem, busy, dead, Watch>>

\* The runtime's function is entered, and its handler of interrupts installed.
Enter ==
    /\ Works("read")
    /\ Moves("code")
    /\ UNCHANGED <<GoSide, sentinel, Control>>

\* OK is sent with the handler still installed, ERR when it is done with the code.
Report ==
    /\ Works("code") /\ Says
    /\ Moves("ok") \/ Moves("over")
    /\ UNCHANGED <<GoSide, sentinel, ctrlLines, signal>>

\* The sentinel statement, the next one in stdin, has run or was aborted.
EndsWith(printed) ==
    /\ Works("ok") \/ Works("over")
    /\ sentinel' = printed
    /\ phase' = "idle" /\ cur' = NoEval
    /\ UNCHANGED <<killed, proc, held>>

PrintSentinel ==
    /\ EndsWith(TRUE)
    /\ UNCHANGED <<GoSide, Control>>

\* Before the handler is installed the signal aborts the statement with no
\* report; then the code; after OK was sent, what is left of the handled part,
\* so that ERR is sent as well; at last the sentinel statement.
Hear ==
    /\ proc = "running" /\ signal
    /\ signal' = FALSE
    /\ \/ Works("read") /\ Moves("over") /\ UNCHANGED <<wire, sentinel>>
       \/ Works("code") /\ Moves("over") /\ Says /\ UNCHANGED sentinel
       \/ Works("ok") /\ Moves("over") /\ Says /\ UNCHANGED sentinel
       \/ EndsWith(FALSE) /\ UNCHANGED wire
       \/ UNCHANGED <<Process, wire>>
    /\ UNCHANGED <<GoSide, ctrlLines>>

Deliver ==
    /\ wire # <<>>
    /\ ctrlLines' = Append(ctrlLines, Head(wire))
    /\ wire' = Tail(wire)
    /\ UNCHANGED <<GoSide, Process, signal>>

Leaves ==
    /\ proc = "running"
    /\ ProcessExits
    /\ UNCHANGED <<GoSide, killed, sentinel, wire, ctrlLines>>

\* The last process that inherited the pipes is gone, if it ever goes.
HeirsLeave ==
    /\ held
    /\ held' = FALSE
    /\ UNCHANGED <<GoSide, killed, proc, cur, phase, sentinel, Control>>

Crash == Leaves

\* close, restart or the reaper: Session.kill marks, then the process leaves.
Kill ==
    /\ ~dead
    /\ dead' = TRUE /\ killed' = TRUE
    /\ UNCHANGED <<pc, result, sem, busy, proc, held, cur, phase, sentinel, Control, Watch>>

KillEnds == killed /\ Leaves

Idle == (\A e \in Eval : EvalDone(e)) /\ UNCHANGED vars
-----------------------------------------------------------------------------
ExecuteStep(e) ==
    \/ Take(e) \/ GiveUp(e) \/ RefuseDead(e) \/ SpawnWatcher(e) \/ MarkBusy(e)
    \/ Write(e) \/ WriteFails(e) \/ ScanEnds(e) \/ ScanHitsEOF(e)
    \/ TakeStatus(e) \/ StatusEOF(e) \/ StatusTimesOut(e) \/ ClearBusy(e) \/ Release(e)

InterruptStep(i) == Aim(i) \/ Poll(i) \/ Deadline(i)

Next ==
    \/ \E e \in Eval : Call(e) \/ ExecuteStep(e) \/ Cancel(e) \/ Look(e)
    \/ \E u \in User : Ask(u)
    \/ \E i \in Interrupter : InterruptStep(i) \/ Resend(i)
    \/ Enter \/ Report \/ PrintSentinel \/ Hear \/ Deliver
    \/ Crash \/ HeirsLeave \/ Kill \/ KillEnds \/ Idle

Spec == Init /\ [][Next]_vars

\* Goroutines are scheduled, timers fire, a killed process leaves, the runtime
\* reads stdin and prints the sentinel.  The code itself need not end (no
\* fairness of Report), nor an interrupt byte have an effect (none of Hear).
Fairness ==
    /\ \A e \in Eval : WF_vars(ExecuteStep(e)) /\ WF_vars(Look(e))
    /\ \A i \in Interrupter : WF_vars(InterruptStep(i))
    /\ WF_vars(Enter) /\ WF_vars(PrintSentinel) /\ WF_vars(Deliver) /\ WF_vars(KillEnds)

FairSpec == Spec /\ Fairness
-----------------------------------------------------------------------------
(* Types and safety *)

\* The shape of the state; a session is busy only while an eval holds its sem,
\* so that an interrupt that finds it busy has an eval to end.
TypeOK ==
    /\ pc \in [Eval -> {"new", "queued", "taken", "mark", "write", "scan", "status",
                        "clear", "release", "done"}]
    /\ result \in [Eval -> [of : Eval \cup {NoEval}, says : {"none", "status", "cancelled",
                   "died", "write", "nil", "interrupted"}]]
    /\ sem \in Eval \cup {NoEval} /\ busy \in BOOLEAN /\ dead \in BOOLEAN
    /\ killed \in BOOLEAN /\ proc \in {"running", "exited"} /\ held \in BOOLEAN /\ cur \in Eval \cup {NoEval}
    /\ phase \in {"idle", "read", "code", "ok", "over"} /\ sentinel \in BOOLEAN
    /\ wire \in Seq(Eval) /\ ctrlLines \in Seq(Eval) /\ signal \in BOOLEAN
    /\ cancelled \subseteq Eval
    /\ int \in [Interrupter -> {"off", "spawned", "parked", "aim", "polling"}]
    /\ aim \in [Interrupter -> Eval \cup {NoEval}] /\ overtaken \subseteq Eval
    /\ busy => sem # NoEval
    /\ \A i \in Interrupter : int[i] = "polling" => aim[i] # NoEval

\* Code is written to an interpreter that has finished the eval before, with
\* nothing of it left in the pipes: an eval is never taken to be over by the
\* sentinel of another, interrupts and aborted statements notwithstanding.
CleanStart ==
    [][\A e \in Eval : pc[e] = "write" /\ pc'[e] = "scan"
                       => phase = "idle" /\ cur = NoEval /\ ~sentinel]_vars

\* An eval returns the status of another only if a line of that was still on the
\* socket when it drained.  Nor does that happen by itself: an interrupt has made
\* a runtime send two lines for one eval, or an eval had waited its two seconds in
\* vain, and returned as interrupted.
OwnStatus ==
    /\ \A e \in Eval : result[e].of \notin {NoEval, e} => e \in overtaken
    /\ overtaken # {} => \/ \E i \in Interrupter : aim[i] # NoEval
                         \/ \E e \in Eval : result[e].says = "interrupted"
-----------------------------------------------------------------------------
(* What the session promises its callers *)

ServiceAt(e) ==
    CASE pc[e] \in {"new", "done"} -> "out"
      [] pc[e] \in {"queued", "taken"} -> "waiting"
      [] pc[e] \in {"mark", "write"} -> "admitted"
      [] pc[e] \in {"scan", "status"} -> "running"
      [] OTHER -> IF result[e].says = "write" THEN "admitted" ELSE "running"

Service == INSTANCE EvalService WITH
    Client    <- Eval,
    Session   <- {1},
    NoSession <- 0,
    at        <- [e \in Eval |-> ServiceAt(e)],
    on        <- [e \in Eval |-> IF ServiceAt(e) = "out" THEN 0 ELSE 1],
    dead      <- IF dead THEN {1} ELSE {},
    gone      <- IF proc = "exited" THEN {1} ELSE {}

\* execute, its readers, its watcher and the interrupts of others implement the
\* service: whatever they do, one eval at a time has the interpreter, none is
\* let in once the session is dead, and one whose code cannot be written is
\* turned away only because the session is lost.
ImplementsService == Service!Spec
-----------------------------------------------------------------------------
(* Liveness *)

\* An interrupt that finds an eval in flight ends it, even if every signal is
\* lost and the code would run for ever: the deadline kills the process, and
\* the readers see EOF.  It does not reach what the code itself has started: a
\* child that outlives the interpreter keeps the pipes open, and the eval waits
\* for it.
InterruptEnds ==
    \A e \in Eval :
        (\E i \in Interrupter : int[i] = "polling" /\ aim[i] = e)
          ~> pc[e] = "done" \/ held

\* SKILL.md:48, "client death interrupts eval": a client that disconnects once
\* its code was sent ends its eval, whether its watcher had reached its select
\* by then or not.  (The watcher's one interrupt may be spent before that: one
\* that comes between the sem and busySince finds the session idle, and then
\* nothing ends the eval.)
DisconnectEnds ==
    \A e \in Eval :
        e \in cancelled /\ pc[e] = "scan" /\ int[e] # "off" ~> pc[e] = "done" \/ held
-----------------------------------------------------------------------------
(* What the documentation promises and the code does not keep *)

\* architecture.md:77, Session.interrupt "aborts an in-flight eval, then resends
\* [...] until the eval returns or a grace deadline kills the session": it does
\* not kill once the eval it was for has returned.
KillsOnlyWhileItRuns ==
    [][\A i \in Interrupter :
          int[i] = "polling" /\ proc = "running" /\ proc' = "exited" /\ int'[i] = "off"
            => pc[aim[i]] # "done"]_vars
=============================================================================
