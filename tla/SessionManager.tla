----------------------------- MODULE SessionManager -----------------------------
(***************************************************************************)
(* The daemon's session manager (go/manager.go) together with the request   *)
(* handlers of go/daemon.go that drive it.  Every connection is a goroutine *)
(* that serves one request; the owner reaper and the daemon's own shutdown  *)
(* run beside them.  One action is one critical section of m.mu, or one     *)
(* step between two of them: that is where another goroutine can run.       *)
(*                                                                         *)
(* What one eval does inside its interpreter is abstracted here to its      *)
(* outcome (SessionEval has the detail): it returns, reports an error, or   *)
(* loses the process.  Sessions are numbered in the order of newSession.    *)
(***************************************************************************)
EXTENDS Integers

CONSTANTS
    Key,          \* sessionKey values, identified with their String()
    Conn,         \* client connections; each carries one request
    Owner,        \* owner processes a session may be leased to
    Ops,          \* the requests clients send in this instance
    Reaper, Main, \* the goroutine of reapLoop and the one of serveDaemon
    NoConn, NoOwner,
    MaxSession    \* bound: interpreters started in one behaviour

Actor   == Conn \cup {Reaper, Main}
Session == 1..MaxSession
NoSession == 0

\* "file" is an eval of a file with an explicit exe, "label" one that carries
\* RequireExisting (no exe and no --lang, hence an unknown language).
EvalOps   == {"eval", "file", "fresh", "label"}
TargetOps == {"interrupt", "close", "free"}

ASSUME ActorsDistinct == Reaper \notin Conn /\ Main \notin Conn /\ Reaper # Main
ASSUME NullsDistinct  == NoConn \notin Conn /\ NoOwner \notin Owner
ASSUME BoundIsNat     == MaxSession \in Nat
ASSUME OpsKnown       == Ops \subseteq EvalOps \cup TargetOps \cup {"stop"}

VARIABLES
    sessions,   \* m.sessions
    lastErrors, \* the keys m.lastErrors has an entry for
    flight,     \* the singleflight group: the leader of the call in progress
    made,       \* how many sessions newSession has returned
    proc,       \* the interpreter process of a session
    dead,       \* the sessions whose dead flag is set
    owner,      \* ownerPID of a session
    sem,        \* the holder of a session's sem
    gone,       \* owner processes that have exited
    pc,         \* where a goroutine stands
    ses,        \* the local variable sess of a goroutine
    req,        \* the request a connection carries
    existed,    \* the local variable existed of handleStreamingEval
    err,        \* the local variable err of handleStreamingEval, by its kind
    reapKeys,   \* the local variable dead of reapDeadOwners
    doomed,     \* the local variable sessions of shutdown, what is left of it
    cleared     \* history: what the last restart of a request took out of the map

vars == <<sessions, lastErrors, flight, made, proc, dead, owner, sem, gone, pc,
          ses, req, existed, err, reapKeys, doomed, cleared>>

Map   == <<sessions, lastErrors>>
World == <<made, proc, dead, owner, sem, gone>>
Local == <<req, existed, err, cleared>>
Loops == <<reapKeys, doomed>>

ConnPC == {"new", "require", "existed", "restart", "restartKill", "get", "join",
           "wait", "reread", "flightKill", "flightDelete", "start", "starting",
           "startKill", "finish", "got", "checked", "acquire",
           "write", "run", "errored", "record", "done", "target",
           "close", "closeKill", "free", "interrupt", "interrupting", "intDelete"}
ReaperPC == {"scan", "reap", "reapKill"}
MainPC   == {"serve", "shutdown", "shutKilling", "shutKill", "down"}

\* Where Session.kill is being executed, and where its caller continues.
Killing == {"restartKill", "flightKill", "startKill", "closeKill", "reapKill", "shutKill"}
AfterKill(l) == CASE l = "restartKill" -> "get"
                  [] l = "flightKill"  -> "flightDelete"
                  [] l = "startKill"   -> "finish"
                  [] l = "closeKill"   -> "done"
                  [] l = "reapKill"    -> "reap"
                  [] l = "shutKill"    -> "shutKilling"

\* The body of the function passed to sf.Do is running.
InFlight == {"reread", "flightKill", "flightDelete", "start", "starting",
             "startKill", "finish"}

Alive(s)      == s \notin dead
Running(s)    == proc[s] = "running"
Registered(s) == \E k \in Key : sessions[k] = s

Request == [op : Ops, key : Key, id : Session \cup {NoSession},
            owner : Owner \cup {NoOwner}]
NoRequest == [op |-> "none"]

\* The goroutine is at l, and the daemon process has not exited under it.
At(a, l) == pc[Main] # "down" /\ pc[a] = l
Goto(a, l) == pc' = [pc EXCEPT ![a] = l]
Unregister(k) == sessions' = [sessions EXCEPT ![k] = NoSession]
ForgetError(k) == lastErrors' = lastErrors \ {k}
KeyOf(c) == req[c].key
-----------------------------------------------------------------------------
Init ==
    /\ sessions = [k \in Key |-> NoSession]
    /\ lastErrors = {}
    /\ flight = [k \in Key |-> NoConn]
    /\ made = 0
    /\ proc = [s \in Session |-> "none"]
    /\ dead = {}
    /\ owner = [s \in Session |-> NoOwner]
    /\ sem = [s \in Session |-> NoConn]
    /\ gone = {}
    /\ pc = [a \in Actor |-> CASE a = Reaper -> "scan"
                               [] a = Main -> "serve"
                               [] OTHER -> "new"]
    /\ ses = [a \in Actor |-> NoSession]
    /\ req = [c \in Conn |-> NoRequest]
    /\ existed = [c \in Conn |-> FALSE]
    /\ err = [c \in Conn |-> "nil"]
    /\ reapKeys = {}
    /\ doomed = {}
    /\ cleared = [c \in Conn |-> NoSession]
-----------------------------------------------------------------------------
(* Requests *)

FirstStep(op) == CASE op = "label" -> "require"
                   [] op = "fresh" -> "restart"
                   [] op \in {"eval", "file"} -> "existed"
                   [] OTHER -> op

\* handleConn has read a request.  A client that targets a session by id took
\* the id from the `sessions` listing, so it is the id of a registered session.
Arrive(c, op, k, id, o) ==
    /\ At(c, "new")
    /\ id # NoSession => op \in TargetOps /\ Registered(id)
    /\ o # NoOwner => op \in EvalOps
    /\ op # "stop"
    /\ req' = [req EXCEPT ![c] = [op |-> op, key |-> k, id |-> id, owner |-> o]]
    /\ Goto(c, IF id = NoSession THEN FirstStep(op) ELSE "target")
    /\ UNCHANGED <<Map, flight, World, ses, existed, err, Loops, cleared>>

\* RequireExisting: no live session, no eval.
RequireExisting(c) ==
    /\ At(c, "require")
    /\ LET s == sessions[KeyOf(c)]
       IN Goto(c, IF s # NoSession /\ Alive(s) THEN "existed" ELSE "done")
    /\ UNCHANGED <<Map, flight, World, ses, Local, Loops>>

HasLiveSession(c) ==
    /\ At(c, "existed")
    /\ LET s == sessions[KeyOf(c)]
       IN existed' = [existed EXCEPT ![c] = s # NoSession /\ Alive(s)]
    /\ Goto(c, "get")
    /\ UNCHANGED <<Map, flight, World, ses, req, err, cleared, Loops>>

\* Mutant of Restart: the kill of what it removed is forgotten.
RestartForgets(c) ==
    /\ At(c, "restart")
    /\ LET k == KeyOf(c) IN
       /\ cleared' = [cleared EXCEPT ![c] = sessions[k]]
       /\ Unregister(k)
       /\ ForgetError(k)
    /\ Goto(c, "get")
    /\ existed' = [existed EXCEPT ![c] = FALSE]
    /\ UNCHANGED <<flight, World, ses, req, err, Loops>>

\* The critical section of restart; the kill of what it removed follows.
Restart(c) ==
    /\ At(c, "restart")
    /\ LET k == KeyOf(c) IN
       /\ ses' = [ses EXCEPT ![c] = sessions[k]]
       /\ cleared' = [cleared EXCEPT ![c] = sessions[k]]
       /\ Goto(c, IF sessions[k] = NoSession THEN "get" ELSE "restartKill")
       /\ Unregister(k)
       /\ ForgetError(k)
    /\ existed' = [existed EXCEPT ![c] = FALSE]
    /\ UNCHANGED <<flight, World, req, err, Loops>>
-----------------------------------------------------------------------------
(* Session.kill, whoever calls it *)

KillMark(a) ==
    /\ pc[Main] # "down" /\ pc[a] \in Killing /\ Alive(ses[a])
    /\ dead' = dead \cup {ses[a]}
    /\ UNCHANGED <<Map, flight, made, proc, owner, sem, gone, pc, ses, Local, Loops>>

\* The process has left: on its own, or by the TERM and KILL that follow.
KillReap(a) ==
    /\ pc[Main] # "down" /\ pc[a] \in Killing /\ ~Alive(ses[a])
    /\ proc' = [proc EXCEPT ![ses[a]] = "exited"]
    /\ Goto(a, AfterKill(pc[a]))
    /\ ses' = [ses EXCEPT ![a] = NoSession]
    /\ UNCHANGED <<Map, flight, made, dead, owner, sem, gone, Local, Loops>>
-----------------------------------------------------------------------------
(* getOrCreate *)

FastPath(c) ==
    /\ At(c, "get")
    /\ LET s == sessions[KeyOf(c)] IN
       IF s # NoSession /\ Alive(s)
       THEN ses' = [ses EXCEPT ![c] = s] /\ Goto(c, "got")
       ELSE Goto(c, "join") /\ UNCHANGED ses
    /\ UNCHANGED <<Map, flight, World, Local, Loops>>

\* Mutant of Join: no singleflight, every caller runs the body.
JoinAlone(c) ==
    /\ At(c, "join")
    /\ flight' = [flight EXCEPT ![KeyOf(c)] = c]
    /\ Goto(c, "reread")
    /\ UNCHANGED <<Map, World, ses, Local, Loops>>

\* sf.Do: lead the call for this key, or wait for the one in progress.
Join(c) ==
    /\ At(c, "join")
    /\ LET k == KeyOf(c) IN
       IF flight[k] = NoConn
       THEN flight' = [flight EXCEPT ![k] = c] /\ Goto(c, "reread")
       ELSE Goto(c, "wait") /\ UNCHANGED flight
    /\ UNCHANGED <<Map, World, ses, Local, Loops>>

\* The leader looks again; what it finds decides the rest of the body.
Reread(c) ==
    /\ At(c, "reread")
    /\ LET s == sessions[KeyOf(c)] IN
       \/ /\ s # NoSession /\ Alive(s)
          /\ ses' = [ses EXCEPT ![c] = s]
          /\ Goto(c, "finish")
       \/ /\ s = NoSession \/ ~Alive(s)
          /\ IF req[c].op = "label"
             THEN Goto(c, "finish") /\ UNCHANGED ses
             ELSE /\ ses' = [ses EXCEPT ![c] = s]
                  /\ Goto(c, IF s = NoSession THEN "start" ELSE "flightKill")
    /\ UNCHANGED <<Map, flight, World, Local, Loops>>

FlightDelete(c) ==
    /\ At(c, "flightDelete")
    /\ Unregister(KeyOf(c))
    /\ Goto(c, "start")
    /\ UNCHANGED <<lastErrors, flight, World, ses, Local, Loops>>

\* newSession and cmd.Start
Start(c) ==
    /\ At(c, "start")
    /\ made < MaxSession
    /\ made' = made + 1
    /\ ses' = [ses EXCEPT ![c] = made + 1]
    /\ proc' = [proc EXCEPT ![made + 1] = "running"]
    /\ Goto(c, "starting")
    /\ UNCHANGED <<Map, flight, dead, owner, sem, gone, Local, Loops>>

\* start fails before there is a process: no such exe, no pipe, no listener.
StartRefused(c) ==
    /\ At(c, "start")
    /\ Goto(c, "finish")
    /\ UNCHANGED <<Map, flight, World, ses, Local, Loops>>

\* Mutant of StartFails: start returns its error without killing.
StartFailsRunning(c) ==
    /\ At(c, "starting")
    /\ ses' = [ses EXCEPT ![c] = NoSession]
    /\ Goto(c, "finish")
    /\ UNCHANGED <<Map, flight, World, Local, Loops>>

\* Early exit, startup timeout or no handshake: start kills what it launched.
StartFails(c) ==
    /\ At(c, "starting")
    /\ Goto(c, "startKill")
    /\ UNCHANGED <<Map, flight, World, ses, Local, Loops>>

\* start returns (startup output drained, runtime loaded, control channel
\* accepted) and the session enters the map.
Register(c) ==
    /\ At(c, "starting")
    /\ Running(ses[c])
    /\ sessions' = [sessions EXCEPT ![KeyOf(c)] = ses[c]]
    /\ owner' = [owner EXCEPT ![ses[c]] = req[c].owner]
    /\ Goto(c, "finish")
    /\ UNCHANGED <<lastErrors, flight, made, proc, dead, sem, gone, ses, Local, Loops>>

\* The connections that share the result of c's call.
Callers(c) == {c} \cup {q \in Conn : pc[q] = "wait" /\ KeyOf(q) = KeyOf(c)}

\* The call returns: every caller gets its session, or its error.
ShareResult(c, who) ==
    /\ At(c, "finish")
    /\ flight' = [flight EXCEPT ![KeyOf(c)] = NoConn]
    /\ ses' = [a \in Actor |-> IF a \in who THEN ses[c] ELSE ses[a]]
    /\ pc' = [a \in Actor |-> IF a \notin who THEN pc[a]
                              ELSE IF ses[c] = NoSession THEN "done" ELSE "got"]
    /\ err' = [q \in Conn |-> IF q \in who /\ ses[c] = NoSession THEN "start" ELSE err[q]]
    /\ UNCHANGED <<Map, World, req, existed, cleared, Loops>>

Finish(c) == ShareResult(c, Callers(c))
-----------------------------------------------------------------------------
(* handleStreamingEval once it has a session *)

\* The runtime is asked whether the session is stale (staleReasons).
CheckStale(c) ==
    /\ At(c, "got") /\ existed[c]
    /\ Goto(c, "acquire")
    /\ UNCHANGED <<Map, flight, World, ses, Local, Loops>>

\* Not an existing session, no reason to restart it, or a reason only to warn.
Proceed(c) ==
    /\ At(c, "got") \/ At(c, "checked")
    /\ existed' = [existed EXCEPT ![c] = FALSE]
    /\ Goto(c, "acquire")
    /\ UNCHANGED <<Map, flight, World, ses, req, err, cleared, Loops>>

\* A file run restarts a session that is stale.
RestartStale(c) ==
    /\ At(c, "got") \/ At(c, "checked")
    /\ existed[c] /\ req[c].op = "file"
    /\ Goto(c, "restart")
    /\ UNCHANGED <<Map, flight, World, ses, Local, Loops>>

\* execute is over for c: a stale check ignores how it ended.
Conclude(c, e) ==
    IF existed[c]
    THEN Goto(c, "checked") /\ UNCHANGED err
    ELSE /\ err' = [err EXCEPT ![c] = e]
         /\ Goto(c, IF e = "nil" THEN "done" ELSE "errored")

Release(c) == sem' = [sem EXCEPT ![ses[c]] = NoConn]

\* The sem is taken, and the session is not dead.
Acquire(c) ==
    /\ At(c, "acquire")
    /\ sem[ses[c]] = NoConn /\ Alive(ses[c])
    /\ sem' = [sem EXCEPT ![ses[c]] = c]
    /\ Goto(c, "write")
    /\ UNCHANGED <<Map, flight, made, proc, dead, owner, gone, ses, Local, Loops>>

\* Mutant of AcquireDead: the early return leaves the sem taken.
AcquireDeadKeepsSem(c) ==
    /\ At(c, "acquire")
    /\ sem[ses[c]] = NoConn /\ ~Alive(ses[c])
    /\ sem' = [sem EXCEPT ![ses[c]] = c]
    /\ Conclude(c, "died")
    /\ UNCHANGED <<Map, flight, made, proc, dead, owner, gone, ses, req, existed, cleared, Loops>>

\* execute finds the session dead and gives the sem back.
AcquireDead(c) ==
    /\ At(c, "acquire")
    /\ sem[ses[c]] = NoConn /\ ~Alive(ses[c])
    /\ Conclude(c, "died")
    /\ UNCHANGED <<Map, flight, World, ses, req, existed, cleared, Loops>>

\* The client disconnected while its eval was queued.
AcquireCancelled(c) ==
    /\ At(c, "acquire")
    /\ Conclude(c, "cancelled")
    /\ UNCHANGED <<Map, flight, World, ses, req, existed, cleared, Loops>>

\* Mutant of Write: the sem is given back before the code is run.
WriteReleases(c) ==
    /\ At(c, "write")
    /\ Running(ses[c])
    /\ Release(c)
    /\ Goto(c, "run")
    /\ UNCHANGED <<Map, flight, made, proc, dead, owner, gone, ses, Local, Loops>>

\* The code is written to stdin.
Write(c) ==
    /\ At(c, "write")
    /\ Running(ses[c])
    /\ Goto(c, "run")
    /\ UNCHANGED <<Map, flight, World, ses, Local, Loops>>

\* cmd.Wait has closed the stdin pipe of a process that exited, or a kill has:
\* the write fails, and nothing sets dead.
WriteFails(c) ==
    /\ At(c, "write")
    /\ ~Running(ses[c]) \/ ~Alive(ses[c])
    /\ Release(c)
    /\ Conclude(c, "write")
    /\ UNCHANGED <<Map, flight, made, proc, dead, owner, gone, ses, req, existed, cleared, Loops>>

\* The interpreter has reported OK, or an error of the code (interrupts
\* included); it may have exited since.
EvalReturns(c) ==
    /\ At(c, "run")
    /\ Release(c)
    /\ \E e \in {"nil", "eval"} : Conclude(c, e)
    /\ UNCHANGED <<Map, flight, made, proc, dead, owner, gone, ses, req, existed, cleared, Loops>>

\* Mutant of EvalDies: EOF is reported but dead is not set.
EvalDiesUnmarked(c) ==
    /\ At(c, "run")
    /\ ~Running(ses[c])
    /\ Release(c)
    /\ Conclude(c, "died")
    /\ UNCHANGED <<Map, flight, made, proc, dead, owner, gone, ses, req, existed, cleared, Loops>>

\* The stdout reader hits EOF and marks the session dead.
EvalDies(c) ==
    /\ At(c, "run")
    /\ ~Running(ses[c])
    /\ dead' = dead \cup {ses[c]}
    /\ Release(c)
    /\ Conclude(c, "died")
    /\ UNCHANGED <<Map, flight, made, proc, owner, gone, ses, req, existed, cleared, Loops>>

\* The client disconnected and the grace of the interrupt ran out.  Its polls
\* may have missed the end of the eval when another began at once.
GraceKill(c) ==
    /\ pc[Main] # "down" /\ pc[c] \in {"write", "run", "checked", "errored", "record", "done"}
    /\ req[c].op \in EvalOps /\ ses[c] # NoSession
    /\ sem[ses[c]] # NoConn
    /\ proc' = [proc EXCEPT ![ses[c]] = "exited"]
    /\ dead' = dead \cup {ses[c]}
    /\ UNCHANGED <<Map, flight, made, owner, sem, gone, pc, ses, Local, Loops>>

\* remove deletes whatever the key holds by now.
Remove(c) ==
    /\ At(c, "errored") /\ ~Alive(ses[c])
    /\ Unregister(KeyOf(c))
    /\ Goto(c, "record")
    /\ UNCHANGED <<lastErrors, flight, World, ses, Local, Loops>>

\* recordError, after remove or with the session alive.
RecordError(c) ==
    /\ At(c, "record") \/ (At(c, "errored") /\ Alive(ses[c]))
    /\ lastErrors' = lastErrors \cup {KeyOf(c)}
    /\ Goto(c, "done")
    /\ UNCHANGED <<sessions, flight, World, ses, Local, Loops>>
-----------------------------------------------------------------------------
(* interrupt, close and free *)

\* targetKey: an id is resolved to a key, and only the key is kept.
Target(c) ==
    /\ At(c, "target")
    /\ LET id == req[c].id IN
       \/ \E k \in Key : /\ sessions[k] = id
                         /\ req' = [req EXCEPT ![c].key = k]
                         /\ Goto(c, req[c].op)
       \/ ~Registered(id) /\ Goto(c, "done") /\ UNCHANGED req
    /\ UNCHANGED <<Map, flight, World, ses, existed, err, cleared, Loops>>

\* The critical section of close, for a connection and for the reaper.
TakeOut(a, k, next, none) ==
    /\ ses' = [ses EXCEPT ![a] = sessions[k]]
    /\ Goto(a, IF sessions[k] = NoSession THEN none ELSE next)
    /\ Unregister(k)
    /\ ForgetError(k)

\* Mutant of Close: what the map holds is killed without a test for nil.
CloseUntested(c) ==
    /\ At(c, "close")
    /\ TakeOut(c, KeyOf(c), "closeKill", "closeKill")
    /\ UNCHANGED <<flight, World, Local, Loops>>

Close(c) ==
    /\ At(c, "close")
    /\ TakeOut(c, KeyOf(c), "closeKill", "done")
    /\ UNCHANGED <<flight, World, Local, Loops>>

Free(c) ==
    /\ At(c, "free")
    /\ LET s == sessions[KeyOf(c)]
       IN owner' = [x \in Session |-> IF x = s THEN NoOwner ELSE owner[x]]
    /\ Goto(c, "done")
    /\ UNCHANGED <<Map, flight, made, proc, dead, sem, gone, ses, Local, Loops>>

\* No session, a dead one or an idle one: nothing to interrupt.
Interrupt(c) ==
    /\ At(c, "interrupt")
    /\ LET s == sessions[KeyOf(c)]
       IN IF s # NoSession /\ Alive(s) /\ sem[s] # NoConn
          THEN ses' = [ses EXCEPT ![c] = s] /\ Goto(c, "interrupting")
          ELSE Goto(c, "done") /\ UNCHANGED ses
    /\ UNCHANGED <<Map, flight, World, Local, Loops>>

\* A poll sees the session idle.
InterruptSeen(c) ==
    /\ At(c, "interrupting")
    /\ sem[ses[c]] = NoConn
    /\ Goto(c, IF Alive(ses[c]) THEN "done" ELSE "intDelete")
    /\ UNCHANGED <<Map, flight, World, ses, Local, Loops>>

\* No poll did before the grace deadline.
InterruptKill(c) ==
    /\ At(c, "interrupting")
    /\ proc' = [proc EXCEPT ![ses[c]] = "exited"]
    /\ dead' = dead \cup {ses[c]}
    /\ Goto(c, "intDelete")
    /\ UNCHANGED <<Map, flight, made, owner, sem, gone, ses, Local, Loops>>

InterruptDelete(c) ==
    /\ At(c, "intDelete")
    /\ Unregister(KeyOf(c))
    /\ Goto(c, "done")
    /\ UNCHANGED <<lastErrors, flight, World, ses, Local, Loops>>
-----------------------------------------------------------------------------
(* reapLoop *)

Leased(k) == sessions[k] # NoSession /\ owner[sessions[k]] \in gone

\* One tick: the keys are collected under the lock, then it is given up.
Scan ==
    /\ At(Reaper, "scan")
    /\ reapKeys' = {k \in Key : Leased(k)}
    /\ reapKeys' # {}
    /\ Goto(Reaper, "reap")
    /\ UNCHANGED <<Map, flight, World, ses, Local, doomed>>

Reap(k) ==
    /\ At(Reaper, "reap")
    /\ k \in reapKeys
    /\ reapKeys' = reapKeys \ {k}
    /\ TakeOut(Reaper, k, "reapKill", "reap")
    /\ UNCHANGED <<flight, World, Local, doomed>>

\* Mutant of Rest: the loop ends with its first reap.
RestForGood ==
    /\ At(Reaper, "reap")
    /\ reapKeys = {}
    /\ UNCHANGED vars

Rest ==
    /\ At(Reaper, "reap")
    /\ reapKeys = {}
    /\ Goto(Reaper, "scan")
    /\ UNCHANGED <<Map, flight, World, ses, Local, Loops>>
-----------------------------------------------------------------------------
(* The end of serveDaemon: the accept loop broke, on `stop` or idleness *)

Stop ==
    /\ "stop" \in Ops
    /\ At(Main, "serve")
    /\ Goto(Main, "shutdown")
    /\ UNCHANGED <<Map, flight, World, ses, Local, Loops>>

Shutdown ==
    /\ At(Main, "shutdown")
    /\ doomed' = {sessions[k] : k \in Key} \ {NoSession}
    /\ sessions' = [k \in Key |-> NoSession]
    /\ Goto(Main, "shutKilling")
    /\ UNCHANGED <<lastErrors, flight, World, ses, Local, reapKeys>>

ShutdownNext(s) ==
    /\ At(Main, "shutKilling")
    /\ s \in doomed
    /\ doomed' = doomed \ {s}
    /\ ses' = [ses EXCEPT ![Main] = s]
    /\ Goto(Main, "shutKill")
    /\ UNCHANGED <<Map, flight, World, Local, reapKeys>>

\* The process exits, and every handler with it.
Exit ==
    /\ At(Main, "shutKilling")
    /\ doomed = {}
    /\ Goto(Main, "down")
    /\ UNCHANGED <<Map, flight, World, ses, Local, Loops>>
-----------------------------------------------------------------------------
(* The environment *)

\* An interpreter exits or is killed from outside the daemon.
Crash(s) ==
    /\ pc[Main] # "down"
    /\ proc[s] = "running"
    /\ proc' = [proc EXCEPT ![s] = "exited"]
    /\ UNCHANGED <<Map, flight, made, dead, owner, sem, gone, pc, ses, Local, Loops>>

OwnerExits(o) ==
    /\ pc[Main] # "down"
    /\ gone' = gone \cup {o}
    /\ UNCHANGED <<Map, flight, made, proc, dead, owner, sem, pc, ses, Local, Loops>>

\* The daemon has exited, or waits for a connection that does not come.
Quiet ==
    /\ pc[Main] = "down" \/ \A c \in Conn : pc[c] = "done"
    /\ UNCHANGED vars
-----------------------------------------------------------------------------
CreateStep(c) ==
    \/ FastPath(c) \/ Join(c) \/ Reread(c) \/ FlightDelete(c) \/ Start(c)
    \/ StartRefused(c) \/ StartFails(c) \/ Register(c) \/ Finish(c)

EvalStep(c) ==
    \/ RequireExisting(c) \/ HasLiveSession(c) \/ Restart(c)
    \/ CheckStale(c) \/ Proceed(c) \/ RestartStale(c)
    \/ Acquire(c) \/ AcquireDead(c) \/ Write(c) \/ WriteFails(c)
    \/ EvalReturns(c) \/ EvalDies(c) \/ Remove(c) \/ RecordError(c)

TargetStep(c) ==
    \/ Target(c) \/ Close(c) \/ Free(c)
    \/ Interrupt(c) \/ InterruptSeen(c) \/ InterruptKill(c) \/ InterruptDelete(c)

KillStep(a) == KillMark(a) \/ KillReap(a)

ReaperStep == Scan \/ Rest \/ (\E k \in Key : Reap(k)) \/ KillStep(Reaper)
MainStep == Shutdown \/ Exit \/ (\E s \in Session : ShutdownNext(s)) \/ KillStep(Main)
HandlerStep(c) == CreateStep(c) \/ EvalStep(c) \/ TargetStep(c) \/ KillStep(c)

ClientStep(c) ==
    \/ \E op \in Ops, k \in Key, id \in Session \cup {NoSession}, o \in Owner \cup {NoOwner} :
          Arrive(c, op, k, id, o)
    \/ AcquireCancelled(c)
    \/ GraceKill(c)

Next ==
    \/ \E c \in Conn : HandlerStep(c)
    \/ \E c \in Conn : ClientStep(c)
    \/ ReaperStep
    \/ MainStep
    \/ Stop
    \/ \E s \in Session : Crash(s)
    \/ \E o \in Owner : OwnerExits(o)
    \/ Quiet

Spec == Init /\ [][Next]_vars

\* Goroutines are scheduled, evals and kills end, the reaper's ticker ticks.
\* Clients need not send, nor interpreters or owners exit.
Fairness ==
    /\ \A c \in Conn : WF_vars(HandlerStep(c))
    /\ WF_vars(ReaperStep)
    /\ WF_vars(MainStep)

FairSpec == Spec /\ Fairness
-----------------------------------------------------------------------------
(* Types, with the goroutines that hold a session *)

Holding == Killing \cup {"starting", "got", "checked", "acquire",
                         "write", "run", "errored", "record", "interrupting"}

DataTypes ==
    /\ sessions \in [Key -> Session \cup {NoSession}]
    /\ lastErrors \subseteq Key
    /\ flight \in [Key -> Conn \cup {NoConn}]
    /\ made \in 0..MaxSession
    /\ proc \in [Session -> {"none", "running", "exited"}]
    /\ dead \subseteq Session
    /\ owner \in [Session -> Owner \cup {NoOwner}]
    /\ sem \in [Session -> Conn \cup {NoConn}]
    /\ gone \subseteq Owner
    /\ existed \in [Conn -> BOOLEAN]
    /\ err \in [Conn -> {"nil", "start", "eval", "died", "write", "cancelled"}]
    /\ reapKeys \subseteq Key
    /\ doomed \subseteq Session
    /\ cleared \in [Conn -> Session \cup {NoSession}]

ControlTypes ==
    /\ pc \in [Actor -> ConnPC \cup ReaperPC \cup MainPC]
    /\ pc[Reaper] \in ReaperPC /\ pc[Main] \in MainPC
    /\ ses \in [Actor -> Session \cup {NoSession}]
    /\ \A a \in Actor : pc[a] \in Holding => ses[a] # NoSession
    /\ req \in [Conn -> Request \cup {NoRequest}]
    /\ \A c \in Conn : /\ pc[c] \in ConnPC
                       /\ pc[c] # "new" => req[c] \in Request
                       /\ pc[c] = "target" => req[c].op \in TargetOps

\* The shape of the state; a goroutine that goes on to use its sess has one
\* (close, restart and the flight test it for nil before they kill).
TypeOK == DataTypes /\ ControlTypes
-----------------------------------------------------------------------------
(* Safety *)

\* Somebody can still reach s: the map, the goroutine that creates it, or one
\* that is committed to kill it.
Accounted(s) ==
    \/ Registered(s)
    \/ \E a \in Actor : pc[a] \in Killing \cup {"starting"} /\ ses[a] = s
    \/ s \in doomed

KeepsEntries ==
    \A k \in Key : sessions[k] # NoSession /\ sessions'[k] # NoSession
                   => sessions'[k] = sessions[k]

\* getOrCreate never registers a session over another one: singleflight, the
\* second look at the map and the delete of a dead entry leave the key empty,
\* however many evals, restarts, closes and reaps of the key interleave.
NeverOverwritten == [][KeepsEntries]_vars

Evicts == \E c \in Conn : pc[c] \in {"errored", "intDelete"} /\ pc'[c] # pc[c]

LosesOnlyEvicted ==
    \A s \in Session :
        Running(s) /\ Accounted(s) /\ ~Accounted(s)' => ~Running(s)' \/ Evicts

\* Whatever takes a session out of the manager's hands stops its interpreter
\* first: only the two unconditional deletes (an eval's `remove` after its
\* session died, an interrupt's after its kill) can let go of a running one.
LostOnlyByEviction == [][LosesOnlyEvicted]_vars

\* Code sent with --fresh (or by a file run that found its session stale) never
\* reaches the interpreter its own restart removed, although the call it joins
\* in singleflight may still hand that session out.
ClearedNeverRuns ==
    \A c \in Conn : pc[c] \in {"write", "run"} /\ cleared[c] # NoSession
                     => ses[c] # cleared[c]

\* When an eval has answered that its interpreter died, that session is not
\* what the next call of the key gets.
DiedIsUnregistered ==
    \A c \in Conn : pc[c] \in {"record", "done"} /\ err[c] = "died"
                     => sessions[KeyOf(c)] # ses[c]

\* Nobody waits for somebody who waits: the call that callers of getOrCreate wait
\* for is led by a connection at work on that key, and a sem is held by one that
\* writes to that session or awaits its answer, whichever way the evals before it
\* came to their ends.
WaitsAreShort ==
    /\ \A c \in Conn : pc[c] = "wait" =>
            \E d \in Conn : flight[KeyOf(c)] = d /\ KeyOf(d) = KeyOf(c) /\ pc[d] \in InFlight
    /\ \A s \in Session : sem[s] # NoConn =>
            \E d \in Conn : sem[s] = d /\ ses[d] = s /\ pc[d] \in {"write", "run"}
-----------------------------------------------------------------------------
(* What the sessions promise the handlers *)

ServiceAt(c) ==
    CASE pc[c] = "acquire" -> "waiting"
      [] pc[c] = "write"   -> "admitted"
      [] pc[c] = "run"     -> "running"
      [] OTHER             -> "out"

Service == INSTANCE EvalService WITH
    Client    <- Conn,
    at        <- [c \in Conn |-> ServiceAt(c)],
    on        <- [c \in Conn |-> IF ServiceAt(c) = "out" THEN NoSession ELSE ses[c]],
    gone      <- {s \in Session : proc[s] = "exited"}

\* The handlers see of execute what EvalService says, and no more: with all the
\* sessions of the daemon, their kills and restarts, an interpreter still serves
\* one connection at a time, and a session marked dead lets no other in.
ImplementsService == Service!Spec
-----------------------------------------------------------------------------
(* Liveness *)

\* Every request is answered, or the daemon exits: nobody waits for ever for
\* a call in flight, for a sem, or for an interrupt.
RequestsAnswered ==
    \A c \in Conn : pc[c] # "new" ~> pc[c] = "done" \/ pc[Main] = "down"

\* A registered session whose owner has exited does not stay registered with
\* that owner.
DeadOwnersReaped ==
    \A k \in Key, s \in Session :
        sessions[k] = s /\ owner[s] \in gone
          ~> sessions[k] # s \/ owner[s] = NoOwner \/ pc[Main] = "down"
-----------------------------------------------------------------------------
(* What the documentation promises and the code does not keep *)

\* README.md:13, "Code is executed in long-lived sessions so state [...]
\* persist between calls": a running interpreter stays within reach.
NothingOrphaned == \A s \in Session : Running(s) => Accounted(s)

\* session.go:184-186, a session every eval of which fails must not "stay alive
\* and keep being reused (no self-heal)": after an eval found its interpreter
\* gone, the key does not hold the same session.
LostInterpreterIsUnregistered ==
    \A c \in Conn : pc[c] = "done" /\ err[c] \in {"died", "write"}
                     => sessions[KeyOf(c)] # ses[c]
=============================================================================
