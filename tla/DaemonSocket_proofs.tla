-------------------------- MODULE DaemonSocket_proofs --------------------------
(***************************************************************************)
(* Proofs about DaemonSocket, for any number of daemons and clients: types,  *)
(* and that daemons which start at once do not all give up.                  *)
(***************************************************************************)
EXTENDS DaemonSocket, TLAPS

\* A daemon that is about to remove the path has an attempt left.
HasRetry == \A d \in Daemon : pc[d] = "remove" => attempt[d] < LastAttempt

\* What stands at the path while nobody has ended: the leftover, until one
\* removes it; nothing, while the last to remove it has yet to bind; or a
\* daemon that listens or is about to.
SomeoneBinds ==
    Undisturbed =>
        /\ path = Leftover => \A d \in Daemon : /\ pc[d] \in {"off", "bind", "ping", "remove"}
                                              /\ attempt[d] = 0
        /\ path = NoOne => \/ \A d \in Daemon : pc[d] = "off"
                           \/ \E d \in Daemon : pc[d] = "bind"
        /\ path \in Daemon => pc[path] \in {"bound", "serve"}

\* A client dials again only after it has started a daemon.
StartedOne ==
    \A c \in Client : at[c] \in {"again", "gaveUp"} => \E d \in Daemon : pc[d] # "off"

IInv == TypeOK /\ HasRetry /\ SomeoneBinds /\ StartedOne /\ NobodyTurnedAway
-----------------------------------------------------------------------------
\* The state keeps its shape.
LEMMA TypeStep ==
    ASSUME TypeOK, HasRetry, [Next]_vars
    PROVE  TypeOK' /\ HasRetry'
<1> USE PathsDistinct DEF TypeOK, HasRetry, Starting, Ending, LastAttempt, Goto
<1>1. ASSUME NEW c \in Client, Invoke(c) \/ Dial(c) \/ GiveUp(c) \/ Answer(c)
      PROVE  TypeOK' /\ HasRetry'
    BY <1>1 DEF Invoke, Dial, GiveUp, Answer
<1>2. ASSUME NEW c \in Client, NEW d \in Daemon, StartDaemon(c, d) \/ Accept(d, c)
      PROVE  TypeOK' /\ HasRetry'
    BY <1>2 DEF StartDaemon, Accept
<1>3. ASSUME NEW d \in Daemon, Launch(d) \/ Bind(d) \/ Listen(d) \/ Ping(d) \/ Watchdog(d)
      PROVE  TypeOK' /\ HasRetry'
    <2>1. CASE Launch(d) BY <2>1 DEF Launch
    <2>2. CASE Bind(d) BY <2>2 DEF Bind
    <2>3. CASE Listen(d) BY <2>3 DEF Listen
    <2>4. CASE Ping(d) BY <2>4 DEF Ping
    <2>5. CASE Watchdog(d) BY <2>5 DEF Watchdog
    <2> QED BY <1>3, <2>1, <2>2, <2>3, <2>4, <2>5
<1>4. ASSUME NEW d \in Daemon, Remove(d)
      PROVE  TypeOK' /\ HasRetry'
    BY <1>4 DEF Remove
<1>5. ASSUME NEW d \in Daemon, Unlink(d) \/ Shutdown(d)
      PROVE  TypeOK' /\ HasRetry'
    BY <1>5 DEF Unlink, Shutdown
<1>6. ASSUME NEW d \in Daemon, Close(d) \/ Cleanup(d) \/ Crash(d)
      PROVE  TypeOK' /\ HasRetry'
    <2>1. CASE Close(d) BY <2>1 DEF Close, Lose
    <2>2. CASE Cleanup(d) BY <2>2 DEF Cleanup, Lose
    <2>3. CASE Crash(d) BY <2>3 DEF Crash, Lose
    <2> QED BY <1>6, <2>1, <2>2, <2>3
<1>7. CASE Settled \/ UNCHANGED vars
    BY <1>7 DEF Settled, vars
<1> QED BY <1>1, <1>2, <1>3, <1>4, <1>5, <1>6, <1>7 DEF Next, ClientStep, DaemonStep

\* Undisturbed, somebody listens, or is on the way.
LEMMA BindsStep ==
    ASSUME TypeOK, HasRetry, SomeoneBinds, [Next]_vars
    PROVE  SomeoneBinds'
<1> USE PathsDistinct DEF TypeOK, HasRetry, SomeoneBinds, Undisturbed, Starting, Ending,
                          LastAttempt, Goto
<1>1. ASSUME NEW c \in Client, Invoke(c) \/ Dial(c) \/ GiveUp(c) \/ Answer(c)
      PROVE  SomeoneBinds'
    BY <1>1 DEF Invoke, Dial, GiveUp, Answer
<1>2. ASSUME NEW c \in Client, NEW d \in Daemon, StartDaemon(c, d)
      PROVE  SomeoneBinds'
    BY <1>2 DEF StartDaemon
<1>3. ASSUME NEW c \in Client, NEW d \in Daemon, Accept(d, c)
      PROVE  SomeoneBinds'
    BY <1>3 DEF Accept
<1>4. ASSUME NEW d \in Daemon, Launch(d) PROVE SomeoneBinds'
    BY <1>4 DEF Launch
<1>5. ASSUME NEW d \in Daemon, Bind(d) PROVE SomeoneBinds'
    BY <1>5 DEF Bind
<1>6. ASSUME NEW d \in Daemon, Listen(d) PROVE SomeoneBinds'
    BY <1>6 DEF Listen
<1>7. ASSUME NEW d \in Daemon, Ping(d) PROVE SomeoneBinds'
    BY <1>7 DEF Ping
<1>8. ASSUME NEW d \in Daemon, Remove(d) PROVE SomeoneBinds'
    BY <1>8 DEF Remove
<1>9. ASSUME NEW d \in Daemon, Watchdog(d) \/ Unlink(d) \/ Shutdown(d)
      PROVE  SomeoneBinds'
    BY <1>9 DEF Watchdog, Unlink, Shutdown
<1>10. ASSUME NEW d \in Daemon, Close(d) \/ Cleanup(d) \/ Crash(d)
       PROVE  SomeoneBinds'
    BY <1>10 DEF Close, Cleanup, Crash
<1>11. CASE Settled \/ UNCHANGED vars
    BY <1>11 DEF Settled, vars
<1> QED
    BY <1>1, <1>2, <1>3, <1>4, <1>5, <1>6, <1>7, <1>8, <1>9, <1>10, <1>11
       DEF Next, ClientStep, DaemonStep

LEMMA StartedStep ==
    ASSUME TypeOK, StartedOne, [Next]_vars
    PROVE  StartedOne'
<1> USE DEF TypeOK, StartedOne, Goto
<1>1. ASSUME NEW c \in Client, Invoke(c) \/ Dial(c) \/ GiveUp(c) \/ Answer(c)
      PROVE  StartedOne'
    BY <1>1 DEF Invoke, Dial, GiveUp, Answer
<1>2. ASSUME NEW c \in Client, NEW d \in Daemon, StartDaemon(c, d) \/ Accept(d, c)
      PROVE  StartedOne'
    BY <1>2 DEF StartDaemon, Accept
<1>3. ASSUME NEW d \in Daemon, Launch(d) \/ DaemonStep(d) \/ Watchdog(d) \/ Crash(d)
      PROVE  StartedOne'
    <2>1. /\ pc'[d] # "off"
          /\ \A c \in Client : at'[c] \in {"again", "gaveUp"} => at[c] \in {"again", "gaveUp"}
        BY <1>3 DEF Launch, DaemonStep, Watchdog, Crash, Bind, Listen, Ping, Remove, Unlink,
                    Close, Shutdown, Cleanup, Lose
    <2> QED BY <2>1
<1>4. CASE Settled \/ UNCHANGED vars
    BY <1>4 DEF Settled, vars
<1> QED BY <1>1, <1>2, <1>3, <1>4 DEF Next, ClientStep

\* A client gives up only when it finds nobody, and is lost only to one that ends.
LEMMA TurnedAwayStep ==
    ASSUME IInv, [Next]_vars
    PROVE  NobodyTurnedAway'
<1> USE PathsDistinct DEF IInv, TypeOK, NobodyTurnedAway, Undisturbed, Starting, Ending, Goto
<1>1. ASSUME NEW c \in Client, Invoke(c) \/ Dial(c) \/ Answer(c)
      PROVE  NobodyTurnedAway'
    BY <1>1 DEF Invoke, Dial, Answer
<1>2. ASSUME NEW c \in Client, GiveUp(c)
      PROVE  NobodyTurnedAway'
    <2>1. UNCHANGED pc /\ path \notin up /\ \A d \in Daemon : pc[d] \notin Starting
        BY <1>2 DEF GiveUp
    <2>2. PICK d \in Daemon : pc[d] # "off"
        BY <1>2 DEF GiveUp, StartedOne
    <2>3. ASSUME Undisturbed PROVE FALSE
        <3>1. pc[d] \in {"serve", "refused"}
            BY <2>1, <2>2, <2>3
        <3>2. path # Leftover /\ path # NoOne
            BY <2>1, <2>2, <2>3, <3>1 DEF SomeoneBinds
        <3>3. path \in Daemon /\ pc[path] = "serve"
            BY <2>1, <2>3, <3>2 DEF SomeoneBinds
        <3> QED BY <2>1, <3>3
    <2> QED BY <2>1, <2>3
<1>3. ASSUME NEW c \in Client, NEW d \in Daemon, StartDaemon(c, d) \/ Accept(d, c)
      PROVE  NobodyTurnedAway'
    BY <1>3 DEF StartDaemon, Accept
<1>4. ASSUME NEW d \in Daemon, Launch(d) \/ Bind(d) \/ Listen(d) \/ Ping(d) \/ Remove(d)
      PROVE  NobodyTurnedAway'
    BY <1>4 DEF Launch, Bind, Listen, Ping, Remove
<1>5. ASSUME NEW d \in Daemon,
             Watchdog(d) \/ Unlink(d) \/ Close(d) \/ Shutdown(d) \/ Cleanup(d) \/ Crash(d)
      PROVE  NobodyTurnedAway'
    <2>1. pc'[d] \in Ending
        BY <1>5 DEF Watchdog, Unlink, Close, Shutdown, Cleanup, Crash
    <2> QED BY <2>1
<1>6. CASE Settled \/ UNCHANGED vars
    BY <1>6 DEF Settled, vars
<1> QED BY <1>1, <1>2, <1>3, <1>4, <1>5, <1>6 DEF Next, ClientStep, DaemonStep

\* The invariant holds.
THEOREM Invariance == Spec => []IInv
<1>1. Init => IInv
    BY PathsDistinct
       DEF Init, IInv, TypeOK, HasRetry, SomeoneBinds, StartedOne, NobodyTurnedAway, LastAttempt
<1>2. IInv /\ [Next]_vars => IInv'
    BY TypeStep, BindsStep, StartedStep, TurnedAwayStep DEF IInv
<1> QED BY <1>1, <1>2, PTL DEF Spec

\* The state keeps its shape: who listens is known from where it stands, and no
\* connection waits for a listener that is closed.
THEOREM Typing == Spec => []TypeOK
<1>1. IInv => TypeOK BY DEF IInv
<1> QED BY Invariance, <1>1, PTL

\* Three attempts are enough for any number of daemons that start at once.
THEOREM StartersSuffice == Spec => []NobodyTurnedAway
<1>1. IInv => NobodyTurnedAway BY DEF IInv
<1> QED BY Invariance, <1>1, PTL
=============================================================================
