------------------------------- MODULE Handshake -------------------------------
(***************************************************************************)
(* Session.start (go/session.go): the daemon launches an interpreter, runs   *)
(* an empty statement and, unless the launch has loaded the runtime, the one *)
(* that loads it, each under a timeout, and waits for the runtime to dial    *)
(* back to a loopback socket, where any other process may connect as well.   *)
(* Three kinds of goroutine meet here: start, the accept loop and one        *)
(* `authed` per connection.                                                  *)
(***************************************************************************)
EXTENDS Naturals

CONSTANTS
    Stray,   \* connections to the listener that do not know the token
    Runtime, \* the runtime's dial-back
    NoPeer

Peer == Stray \cup {Runtime}

ASSUME PeersDistinct == Runtime \notin Stray /\ NoPeer \notin Peer

VARIABLES
    pc,        \* where start stands; "reap" waits for the readers after a timeout
    stmt,      \* the statement executeRaw was last called with: 1 or 2
    proc,      \* the process start launched: "running" or "exited"
    launcher,  \* it runs the interpreter as a child of its own
    preload,   \* BootstrapStmt() = "": the runtime is loaded by the launch (Python)
    interp,    \* what the interpreter is at
    said,      \* sentinels it has printed
    conn,      \* what became of a connection
    acc,       \* where acceptControl stands; "done" closes controlReady
    listening, \* ln is open
    late,      \* the accept deadline has passed
    won,       \* the channel of capacity 1 an authenticated connection is sent to
    control,   \* s.controlConn
    cause      \* history: what may make a start fail

vars == <<pc, stmt, proc, launcher, preload, interp, said, conn, acc, listening, late, won,
          control, cause>>

Starter  == <<pc, stmt>>
Child    == <<proc, launcher, preload, interp, said>>
Acceptor == <<acc, listening, late, won, control>>

Init ==
    /\ pc = "run" /\ stmt = 1
    /\ proc = "running" /\ interp = "starting" /\ said = 0
    /\ launcher \in BOOLEAN /\ preload \in BOOLEAN
    /\ conn = [p \in Peer |-> "none"]
    /\ acc = "accept" /\ listening = TRUE /\ late = FALSE
    /\ won = NoPeer /\ control = NoPeer
    /\ cause = {}
-----------------------------------------------------------------------------
(* start and executeRaw with a timeout *)

\* The empty statement has run; the runtime is sent if the launch has not loaded it.
\* Writing to a process that has exited fails.
Started ==
    /\ pc = "run" /\ stmt = 1 /\ said >= 1
    /\ stmt' = IF preload THEN 1 ELSE 2
    /\ pc' = IF preload THEN "wait" ELSE IF proc = "exited" THEN "kill" ELSE pc
    /\ UNCHANGED <<Child, conn, Acceptor, cause>>

Bootstrapped ==
    /\ pc = "run" /\ stmt = 2 /\ said = 2
    /\ pc' = "wait"
    /\ UNCHANGED <<stmt, Child, conn, Acceptor, cause>>

ReadersSeeEOF ==
    /\ pc = "run" /\ said < stmt /\ interp = "gone"
    /\ pc' = "kill"
    /\ UNCHANGED <<stmt, Child, conn, Acceptor, cause>>

\* Mutant of TimesOut: only the first statement is under a timeout.
TimesOutFirst ==
    /\ pc = "run" /\ stmt = 1
    /\ pc' = "reap"
    /\ proc' = "exited"
    /\ interp' = IF launcher THEN interp ELSE "gone"
    /\ cause' = cause \cup {"timeout"}
    /\ UNCHANGED <<stmt, launcher, preload, said, conn, Acceptor>>

\* The timer: the process is killed, which does not reach a child of it.
TimesOut ==
    /\ pc = "run"
    /\ pc' = "reap"
    /\ proc' = "exited"
    /\ interp' = IF launcher THEN interp ELSE "gone"
    /\ cause' = cause \cup {"timeout"}
    /\ UNCHANGED <<stmt, launcher, preload, said, conn, Acceptor>>

\* Mutant of Reaped: start does not wait for the readers.
ReapedAtOnce ==
    /\ pc = "reap"
    /\ pc' = "kill"
    /\ UNCHANGED <<stmt, Child, conn, Acceptor, cause>>

\* <-doneCh: both readers are done, by the sentinel or by the end of the pipes.
Reaped ==
    /\ pc = "reap" /\ (said >= stmt \/ interp = "gone")
    /\ pc' = "kill"
    /\ UNCHANGED <<stmt, Child, conn, Acceptor, cause>>

\* Mutant of Ready: without a control channel start fails, and kills nothing.
ReadyUnkilled ==
    /\ pc = "wait" /\ acc = "done"
    /\ pc' = IF control # NoPeer THEN "ok" ELSE "failed"
    /\ listening' = FALSE
    /\ UNCHANGED <<stmt, Child, conn, acc, late, won, control, cause>>

\* <-controlReady; start's deferred ln.Close() runs when it returns.
Ready ==
    /\ pc = "wait" /\ acc = "done"
    /\ pc' = IF control # NoPeer THEN "ok" ELSE "kill"
    /\ listening' = (listening /\ control = NoPeer)
    /\ UNCHANGED <<stmt, Child, conn, acc, late, won, control, cause>>

Reset(c) == [p \in Peer |-> IF c[p] = "backlog" THEN "closed" ELSE c[p]]

\* kill waits for the process, closes what it finds in s.controlConn; start fails.
Kill ==
    /\ pc = "kill"
    /\ pc' = "failed"
    /\ proc' = "exited"
    /\ interp' = IF launcher THEN interp ELSE "gone"
    /\ listening' = FALSE
    /\ conn' = Reset([p \in Peer |-> IF p = control THEN "closed" ELSE conn[p]])
    /\ UNCHANGED <<stmt, launcher, preload, said, acc, late, won, control, cause>>
-----------------------------------------------------------------------------
(* The interpreter, and the other processes of the host *)

RunEmpty ==
    /\ interp = "starting" /\ ~preload
    /\ interp' = "ready" /\ said' = 1
    /\ UNCHANGED <<Starter, proc, launcher, preload, conn, Acceptor, cause>>

\* The runtime connects, or is refused, and goes on without a control channel.
Dial ==
    /\ IF preload THEN interp = "starting" ELSE interp = "ready" /\ stmt = 2
    /\ interp' = "dialled"
    /\ conn' = [conn EXCEPT ![Runtime] = IF listening THEN "backlog" ELSE "closed"]
    /\ UNCHANGED <<Starter, proc, launcher, preload, said, Acceptor, cause>>

SendToken ==
    /\ interp = "dialled"
    /\ interp' = "authenticated"
    /\ UNCHANGED <<Starter, proc, launcher, preload, said, conn, Acceptor, cause>>

\* The statement that loads the runtime ends, or the empty one that follows the launch.
Loaded ==
    /\ interp = "authenticated"
    /\ interp' = "loaded" /\ said' = said + 1
    /\ UNCHANGED <<Starter, proc, launcher, preload, conn, Acceptor, cause>>

\* It has run all it was sent, and reads on.
AtPrompt == interp \in {"ready", "loaded"} /\ said >= stmt

\* It reads the end of stdin, which kill closes, or cmd.Wait once what start has
\* launched is gone.
EndOfInput ==
    /\ proc = "exited" /\ AtPrompt
    /\ interp' = "gone"
    /\ UNCHANGED <<Starter, proc, launcher, preload, said, conn, Acceptor, cause>>

\* It ends by itself: a bad flag, an error in a startup file.
Exit ==
    /\ interp # "gone"
    /\ interp' = "gone" /\ proc' = "exited"
    /\ cause' = cause \cup {"exit"}
    /\ UNCHANGED <<Starter, launcher, preload, said, conn, Acceptor>>

Knock(p) ==
    /\ p \in Stray /\ conn[p] = "none" /\ listening
    /\ conn' = [conn EXCEPT ![p] = "backlog"]
    /\ UNCHANGED <<Starter, Child, Acceptor, cause>>
-----------------------------------------------------------------------------
(* acceptControl *)

\* Mutant of Accept: the loop ends after the first connection.
AcceptOnce(p) ==
    /\ acc = "accept" /\ listening /\ ~late /\ conn[p] = "backlog"
    /\ conn' = [conn EXCEPT ![p] = "authing"]
    /\ acc' = "final"
    /\ UNCHANGED <<Starter, Child, listening, late, won, control, cause>>

Accept(p) ==
    /\ acc = "accept" /\ listening /\ ~late /\ conn[p] = "backlog"
    /\ conn' = [conn EXCEPT ![p] = "authing"]
    /\ acc' = "peek"
    /\ UNCHANGED <<Starter, Child, listening, late, won, control, cause>>

\* The deadline has passed, or a winner has closed ln.
AcceptFails ==
    /\ acc = "accept" /\ (late \/ ~listening)
    /\ acc' = "final"
    /\ UNCHANGED <<Starter, Child, conn, listening, late, won, control, cause>>

\* Mutant of Peek: the winner is left in the channel.
PeekKeeps ==
    /\ acc \in {"peek", "final"}
    /\ acc' = IF won = NoPeer /\ acc = "peek" THEN "accept" ELSE "done"
    /\ control' = won
    /\ conn' = [p \in Peer |-> IF p = won THEN "control" ELSE conn[p]]
    /\ UNCHANGED <<Starter, Child, listening, late, won, cause>>

\* The two selects: a winner ends the loop, and after it none is waited for.
Peek ==
    /\ acc \in {"peek", "final"}
    /\ acc' = IF won = NoPeer /\ acc = "peek" THEN "accept" ELSE "done"
    /\ control' = won /\ won' = NoPeer
    /\ conn' = [p \in Peer |-> IF p = won THEN "control" ELSE conn[p]]
    /\ UNCHANGED <<Starter, Child, listening, late, cause>>

\* Mutant of Verify: any line will do.
VerifyAny(p) ==
    /\ conn[p] = "authing" /\ ~late
    /\ conn' = [conn EXCEPT ![p] = "verified"]
    /\ UNCHANGED <<Starter, Child, Acceptor, cause>>

Verify(p) ==
    /\ conn[p] = "authing" /\ ~late
    /\ p = Runtime /\ interp \in {"authenticated", "loaded"}
    /\ conn' = [conn EXCEPT ![p] = "verified"]
    /\ UNCHANGED <<Starter, Child, Acceptor, cause>>

\* A wrong line, a hang-up, nothing in two seconds, or the deadline.
Reject(p) ==
    /\ conn[p] = "authing"
    /\ p = Runtime => late \/ interp \in {"dialled", "gone"}
    /\ conn' = [conn EXCEPT ![p] = "closed"]
    /\ cause' = IF p = Runtime THEN cause \cup {"slow"} ELSE cause
    /\ UNCHANGED <<Starter, Child, Acceptor>>

Win(p) ==
    /\ conn[p] = "verified"
    /\ IF won = NoPeer
       THEN /\ won' = p /\ listening' = FALSE
            /\ conn' = Reset([conn EXCEPT ![p] = "won"])
       ELSE /\ conn' = [conn EXCEPT ![p] = "closed"]
            /\ UNCHANGED <<won, listening>>
    /\ UNCHANGED <<Starter, Child, acc, late, control, cause>>

Deadline ==
    /\ ~late
    /\ late' = TRUE
    /\ cause' = IF acc = "done" THEN cause ELSE cause \cup {"deadline"}
    /\ UNCHANGED <<Starter, Child, conn, acc, listening, won, control>>

Returned == pc \in {"ok", "failed"} /\ UNCHANGED vars
-----------------------------------------------------------------------------
StartStep  == Started \/ Bootstrapped \/ ReadersSeeEOF \/ Reaped \/ Ready \/ Kill
AcceptStep == (\E p \in Peer : Accept(p)) \/ AcceptFails \/ Peek

Next ==
    \/ StartStep \/ TimesOut
    \/ RunEmpty \/ Dial \/ SendToken \/ Loaded \/ Exit \/ EndOfInput
    \/ AcceptStep \/ Deadline
    \/ \E p \in Peer : Knock(p) \/ Verify(p) \/ Reject(p) \/ Win(p)
    \/ Returned

Spec == Init /\ [][Next]_vars

\* Goroutines are scheduled and the three timers fire (a read deadline makes an
\* unfinished authentication end).  The interpreter may hang at any point, except
\* that one at its prompt notices the end of its input.
Fairness ==
    /\ WF_vars(StartStep) /\ WF_vars(TimesOut)
    /\ WF_vars(AcceptStep) /\ WF_vars(Deadline) /\ WF_vars(EndOfInput)
    /\ \A p \in Peer : WF_vars(Verify(p) \/ Reject(p)) /\ WF_vars(Win(p))

FairSpec == Spec /\ Fairness
-----------------------------------------------------------------------------
(* Properties *)

TypeOK ==
    /\ pc \in {"run", "reap", "wait", "kill", "ok", "failed"} /\ stmt \in 1..2
    /\ proc \in {"running", "exited"} /\ launcher \in BOOLEAN /\ preload \in BOOLEAN
    /\ interp \in {"starting", "ready", "dialled", "authenticated", "loaded", "gone"}
    /\ said \in 0..2
    /\ conn \in [Peer -> {"none", "backlog", "authing", "verified", "won", "control", "closed"}]
    /\ acc \in {"accept", "peek", "final", "done"}
    /\ listening \in BOOLEAN /\ late \in BOOLEAN
    /\ won \in Peer \cup {NoPeer} /\ control \in Peer \cup {NoPeer}
    /\ won # NoPeer => conn[won] = "won"
    /\ control # NoPeer => acc = "done"
    /\ cause \subseteq {"timeout", "exit", "slow", "deadline"}

\* A start that succeeds has the runtime's own connection for its control
\* channel, still open, whatever else connected and in whichever order.
OkHasControl == pc = "ok" => control = Runtime /\ conn[Runtime] = "control"

\* Connections of other processes never make a start fail: it fails only if the
\* interpreter ends, hangs past a timeout, or does not authenticate in time.
FailsForCause == pc = "failed" => cause # {}

\* A start that fails has ended what it launched.  All it may leave is an
\* interpreter that was a child of that, and this one has run whatever it was sent
\* and waits for more: kill reaches it only through its stdin, which is of no use
\* as long as it is at work.
LeavesOnlyIdle ==
    pc = "failed" => proc = "exited" /\ (interp = "gone" \/ (launcher /\ AtPrompt))
-----------------------------------------------------------------------------
(* Liveness *)

\* start returns, unless the statement that timed out runs on in a child of the
\* process that was killed and keeps the pipes open.
StartReturns ==
    <>(pc \in {"ok", "failed"}) \/ <>[](launcher /\ interp # "gone" /\ pc = "reap")

\* A start that fails leaves no interpreter behind for long, whoever launched it.
FailedIsGone == pc = "failed" ~> interp = "gone"
=============================================================================
