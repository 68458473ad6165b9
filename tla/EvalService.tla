------------------------------ MODULE EvalService ------------------------------
(***************************************************************************)
(* What the sessions of the daemon promise to those that call execute on     *)
(* them, said without semaphores, readers, watchers or goroutines:           *)
(* a session serves one call at a time, admits none once it is marked dead,  *)
(* and gives code only to a process that runs.                               *)
(*                                                                         *)
(* SessionEval implements it with the inside of one session, SessionManager  *)
(* with all sessions and the requests that share them: each is shown to      *)
(* refine it, so what one leaves out the other may rely on.                  *)
(***************************************************************************)
CONSTANTS
    Client,   \* callers of execute
    Session,
    NoSession

VARIABLES
    at,   \* where the call of a client stands
    on,   \* the session it is for
    dead, \* sessions that admit no more calls
    gone  \* sessions whose process has exited

vars == <<at, on, dead, gone>>

Served(c) == at[c] \in {"admitted", "running"}

Init ==
    /\ at = [c \in Client |-> "out"]
    /\ on = [c \in Client |-> NoSession]
    /\ dead = {} /\ gone = {}

Call(c, s) ==
    /\ at[c] = "out"
    /\ at' = [at EXCEPT ![c] = "waiting"] /\ on' = [on EXCEPT ![c] = s]
    /\ UNCHANGED <<dead, gone>>

Admit(c) ==
    /\ at[c] = "waiting" /\ on[c] \notin dead
    /\ \A d \in Client : Served(d) => on[d] # on[c]
    /\ at' = [at EXCEPT ![c] = "admitted"]
    /\ UNCHANGED <<on, dead, gone>>

Begin(c) ==
    /\ at[c] = "admitted" /\ on[c] \notin gone
    /\ at' = [at EXCEPT ![c] = "running"]
    /\ UNCHANGED <<on, dead, gone>>

\* The call is over: its client has left the queue, the session was found dead
\* or could not be written to, or the code has run or lost its process, by which
\* the session is marked.
Answer(c) ==
    /\ at[c] # "out"
    /\ at[c] = "admitted" => on[c] \in dead \cup gone
    /\ at' = [at EXCEPT ![c] = "out"] /\ on' = [on EXCEPT ![c] = NoSession]
    /\ \/ dead' = dead
       \/ on[c] \in gone /\ dead' = dead \cup {on[c]}
    /\ UNCHANGED gone

\* The process exits, by itself or killed, and the session is found out or
\* marked before.
Lose(s) ==
    /\ \/ dead' = dead \cup {s} /\ gone' \in {gone, gone \cup {s}}
       \/ dead' = dead /\ gone' = gone \cup {s}
    /\ UNCHANGED <<at, on>>

Next ==
    \/ \E c \in Client : (\E s \in Session : Call(c, s)) \/ Admit(c) \/ Begin(c) \/ Answer(c)
    \/ \E s \in Session : Lose(s)

Spec == Init /\ [][Next]_vars
-----------------------------------------------------------------------------
\* One call at a time is served by a session.
OneAtATime ==
    \A c, d \in Client : Served(c) /\ Served(d) /\ on[c] = on[d] => c = d
=============================================================================
