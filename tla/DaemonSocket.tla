----------------------------- MODULE DaemonSocket -----------------------------
(***************************************************************************)
(* Which daemon process a client reaches: `connect` and `startDaemon`       *)
(* (go/main.go), `listenExclusive` and `serveDaemon` (go/daemon.go).        *)
(* Several processes work on one file, the socket path, and none of them    *)
(* holds a lock: every system call on the path is a step of its own.        *)
(*                                                                         *)
(* A daemon binds at most once, so that it also names the inode it binds.   *)
(* What it does with a request is left to SessionManager.                   *)
(***************************************************************************)
EXTENDS Naturals

CONSTANTS
    Daemon,     \* daemon processes that may be started
    Foreground, \* those a user starts with `repld daemon`; the others are for clients
    Client,     \* invocations of repld that start a daemon when there is none
    NoOne,      \* the path does not exist
    Leftover    \* a socket that a daemon of an earlier time left behind

ASSUME ForegroundIsDaemon == Foreground \subseteq Daemon
ASSUME PathsDistinct == NoOne \notin Daemon /\ Leftover \notin Daemon /\ NoOne # Leftover

VARIABLES
    path,     \* what the socket path names
    up,       \* daemons whose listener is open
    pc,       \* where a daemon stands in serveDaemon
    attempt,  \* the loop variable of its listenExclusive
    at,       \* where a client stands
    peer      \* the daemon a client's connection leads to

vars == <<path, up, pc, attempt, at, peer>>

Starting == {"bind", "bound", "ping", "remove"}
Ending   == {"unlink", "close", "shutdown", "cleanup", "exit"}
LastAttempt == 2

Goto(d, l) == pc' = [pc EXCEPT ![d] = l]

Init ==
    /\ path \in {NoOne, Leftover}
    /\ up = {}
    /\ pc = [d \in Daemon |-> "off"]
    /\ attempt = [d \in Daemon |-> 0]
    /\ at = [c \in Client |-> "new"]
    /\ peer = [c \in Client |-> NoOne]
-----------------------------------------------------------------------------
(* Clients: connect, and run after it *)

Invoke(c) ==
    /\ at[c] = "new"
    /\ at' = [at EXCEPT ![c] = "first"]
    /\ UNCHANGED <<path, up, pc, attempt, peer>>

Dial(c) ==
    /\ at[c] \in {"first", "again"}
    /\ path \in up
    /\ at' = [at EXCEPT ![c] = "sent"]
    /\ peer' = [peer EXCEPT ![c] = path]
    /\ UNCHANGED <<path, up, pc, attempt>>

\* Only the first attempt starts a daemon; the others just dial.
StartDaemon(c, d) ==
    /\ at[c] = "first" /\ path \notin up
    /\ d \notin Foreground /\ pc[d] = "off"
    /\ Goto(d, "bind")
    /\ at' = [at EXCEPT ![c] = "again"]
    /\ UNCHANGED <<path, up, attempt, peer>>

\* After 15 attempts, 8 seconds: longer than a daemon takes to start or to fail.
GiveUp(c) ==
    /\ at[c] = "again" /\ path \notin up
    /\ \A d \in Daemon : pc[d] \notin Starting
    /\ at' = [at EXCEPT ![c] = "gaveUp"]
    /\ UNCHANGED <<path, up, pc, attempt, peer>>

Answer(c) ==
    /\ at[c] = "handled"
    /\ at' = [at EXCEPT ![c] = "answered"]
    /\ UNCHANGED <<path, up, pc, attempt, peer>>
-----------------------------------------------------------------------------
(* listenExclusive *)

\* `repld daemon`
Launch(d) ==
    /\ d \in Foreground /\ pc[d] = "off"
    /\ Goto(d, "bind")
    /\ UNCHANGED <<path, up, attempt, at, peer>>

\* bind(2) of net.Listen fails when the path exists, whatever is there.
Bind(d) ==
    /\ pc[d] = "bind"
    /\ IF path = NoOne
       THEN path' = d /\ Goto(d, "bound")
       ELSE Goto(d, "ping") /\ UNCHANGED path
    /\ UNCHANGED <<up, attempt, at, peer>>

\* listen(2) of net.Listen: until then the path refuses connections.
Listen(d) ==
    /\ pc[d] = "bound"
    /\ up' = up \cup {d}
    /\ Goto(d, "serve")
    /\ UNCHANGED <<path, attempt, at, peer>>

\* Mutant of Ping: the last attempt removes the path as well.
PingRemovesAtLast(d) ==
    /\ pc[d] = "ping"
    /\ LET last == path \notin up /\ attempt[d] = LastAttempt
       IN path' = IF last THEN NoOne ELSE path
    /\ Goto(d, IF path \in up \/ attempt[d] = LastAttempt THEN "refused" ELSE "remove")
    /\ UNCHANGED <<up, attempt, at, peer>>

\* A daemon answers, or this one may try again, or it has tried enough.
Ping(d) ==
    /\ pc[d] = "ping"
    /\ Goto(d, IF path \in up \/ attempt[d] = LastAttempt THEN "refused" ELSE "remove")
    /\ UNCHANGED <<path, up, attempt, at, peer>>

\* os.Remove, of what the path names by now.
Remove(d) ==
    /\ pc[d] = "remove"
    /\ path' = NoOne
    /\ attempt' = [attempt EXCEPT ![d] = @ + 1]
    /\ Goto(d, "bind")
    /\ UNCHANGED <<up, at, peer>>
-----------------------------------------------------------------------------
(* serveDaemon *)

Accept(d, c) ==
    /\ d \in up /\ pc[d] \in {"serve", "unlink", "close"}
    /\ at[c] = "sent" /\ peer[c] = d
    /\ at' = [at EXCEPT ![c] = "handled"]
    /\ UNCHANGED <<path, up, pc, attempt, peer>>

\* A `stop`, or nothing was asked for as long as --idle-timeout.
Watchdog(d) ==
    /\ pc[d] = "serve"
    /\ Goto(d, "unlink")
    /\ UNCHANGED <<path, up, attempt, at, peer>>

\* ln.Close unlinks the path first, whatever it names, then closes the socket.
Unlink(d) ==
    /\ pc[d] = "unlink"
    /\ path' = NoOne
    /\ Goto(d, "close")
    /\ UNCHANGED <<up, attempt, at, peer>>

\* The connections of d that stand at one of `where` break.
Lose(d, where) ==
    at' = [c \in Client |-> IF at[c] \in where /\ peer[c] = d THEN "lost" ELSE at[c]]

\* Mutant of Close: the accept loop goes on with what waits in the backlog.
CloseKeepsBacklog(d) ==
    /\ pc[d] = "close"
    /\ up' = up \ {d}
    /\ Goto(d, "shutdown")
    /\ UNCHANGED <<path, attempt, at, peer>>

Close(d) ==
    /\ pc[d] = "close"
    /\ up' = up \ {d}
    /\ Lose(d, {"sent"})
    /\ Goto(d, "shutdown")
    /\ UNCHANGED <<path, attempt, peer>>

\* manager.shutdown takes up to seven seconds for each session.
Shutdown(d) ==
    /\ pc[d] = "shutdown"
    /\ Goto(d, "cleanup")
    /\ UNCHANGED <<path, up, attempt, at, peer>>

\* os.Remove again; then the process exits under the handlers that still run.
Cleanup(d) ==
    /\ pc[d] = "cleanup"
    /\ path' = NoOne
    /\ Lose(d, {"handled"})
    /\ Goto(d, "exit")
    /\ UNCHANGED <<up, attempt, peer>>

Crash(d) ==
    /\ pc[d] \notin {"off", "refused", "exit"}
    /\ up' = up \ {d}
    /\ Lose(d, {"sent", "handled"})
    /\ Goto(d, "exit")
    /\ UNCHANGED <<path, attempt, peer>>

\* Everybody has what he asked for.
Settled ==
    /\ \A c \in Client : at[c] \in {"answered", "lost", "gaveUp"}
    /\ \A d \in Daemon : pc[d] \in {"off", "serve", "refused", "exit"}
    /\ UNCHANGED vars
-----------------------------------------------------------------------------
ClientStep(c) ==
    \/ Dial(c) \/ GiveUp(c) \/ Answer(c)
    \/ \E d \in Daemon : StartDaemon(c, d) \/ Accept(d, c)

DaemonStep(d) ==
    \/ Bind(d) \/ Listen(d) \/ Ping(d) \/ Remove(d)
    \/ Unlink(d) \/ Close(d) \/ Shutdown(d) \/ Cleanup(d)

Next ==
    \/ \E c \in Client : Invoke(c) \/ ClientStep(c)
    \/ \E d \in Daemon : Launch(d) \/ DaemonStep(d) \/ Watchdog(d) \/ Crash(d)
    \/ Settled

Spec == Init /\ [][Next]_vars

\* Processes are scheduled, requests end; nobody need stop or crash a daemon.
Fairness ==
    /\ \A c \in Client : WF_vars(ClientStep(c))
    /\ \A d \in Daemon : WF_vars(DaemonStep(d))

FairSpec == Spec /\ Fairness
-----------------------------------------------------------------------------
(* Properties *)

\* The shape of the state; a daemon with an open listener is one that serves or
\* has not yet closed it, and no connection waits for a listener that is closed.
TypeOK ==
    /\ path \in Daemon \cup {NoOne, Leftover}
    /\ up \subseteq Daemon
    /\ pc \in [Daemon -> Starting \cup Ending \cup {"off", "serve", "refused"}]
    /\ attempt \in [Daemon -> 0..LastAttempt]
    /\ at \in [Client -> {"new", "first", "again", "sent", "handled", "answered",
                          "lost", "gaveUp"}]
    /\ peer \in [Client -> Daemon \cup {NoOne}]
    /\ \A d \in Daemon : d \in up <=> pc[d] \in {"serve", "unlink", "close"}
    /\ \A c \in Client : at[c] = "sent" => peer[c] \in up

\* No daemon has begun to end, or crashed.
Undisturbed == \A d \in Daemon : pc[d] \notin Ending

\* However many daemons start at once, over a leftover socket or none, and
\* whoever's socket they remove, no client finds that all have given up: the
\* last to remove the path has an attempt left to bind it.  Only a daemon that
\* ends breaks this.
NobodyTurnedAway == Undisturbed => \A c \in Client : at[c] \notin {"gaveUp", "lost"}

\* A client whose first dial fails is answered by the daemon it starts, or by
\* one that started beside it, as long as none ends.
StartersConverge ==
    []Undisturbed => \A c \in Client : at[c] = "first" ~> at[c] = "answered"
=============================================================================
