------------------------ MODULE SessionManager_refines ------------------------
(***************************************************************************)
(* Proof that the manager with all its sessions implements EvalService, and  *)
(* that nobody in it waits for somebody who waits, for any keys,             *)
(* connections, owners, requests and number of sessions.                     *)
(***************************************************************************)
EXTENDS SessionManager_proofs

\* A connection that is executing has the sem of its session.
SemIsHeld == \A c \in Conn : pc[c] \in {"write", "run"} => sem[ses[c]] = c

\* Sessions that newSession has returned had a process, and no others.
MadeIsLaunched == \A s \in Session : s <= made <=> proc[s] # "none"

RInv == IInv /\ SemIsHeld /\ MadeIsLaunched

\* Where a connection stands inside execute, and what a service calls gone.
InExecute == {"acquire", "write", "run"}
Exited == {s \in Session : proc[s] = "exited"}

\* A step that concerns no connection inside execute.
Calm ==
    /\ sem' = sem
    /\ \A c \in Conn : pc[c] \in InExecute \/ pc'[c] \in InExecute
                        => pc'[c] = pc[c] /\ ses'[c] = ses[c]

\* A step after which at most one session is lost that was not.
LosesOne ==
    \/ dead' = dead /\ Exited' = Exited
    \/ \E s \in Session :
          \/ dead' = dead \cup {s} /\ Exited' \in {Exited, Exited \cup {s}}
          \/ dead' = dead /\ Exited' = Exited \cup {s}
-----------------------------------------------------------------------------
\* A goroutine outside execute that moves on outside of it.
LEMMA CalmMove ==
    ASSUME TypeOK, NEW a \in Actor, NEW l, pc' = [pc EXCEPT ![a] = l],
           pc[a] \notin InExecute, l \notin InExecute, sem' = sem,
           ses' = ses \/ \E s : ses' = [ses EXCEPT ![a] = s]
    PROVE  Calm
    BY Actors DEF TypeOK, ControlTypes, Calm

\* The steps of a connection that are no part of execute.
LEMMA ConnAside ==
    ASSUME TypeOK, NEW c \in Conn,
           \/ CreateStep(c) \/ TargetStep(c)
           \/ RequireExisting(c) \/ HasLiveSession(c) \/ Restart(c) \/ RestartStale(c)
           \/ Remove(c) \/ RecordError(c)
    PROVE  Calm
<1> USE Actors DEF At, Goto, InExecute, World
<1>1. CASE FastPath(c) BY <1>1, CalmMove DEF FastPath
<1>2. CASE Join(c) BY <1>2, CalmMove DEF Join
<1>3. CASE Reread(c) BY <1>3, CalmMove DEF Reread
<1>4. CASE FlightDelete(c) BY <1>4, CalmMove DEF FlightDelete
<1>5. CASE Start(c) BY <1>5, CalmMove DEF Start
<1>6. CASE StartRefused(c) BY <1>6, CalmMove DEF StartRefused
<1>7. CASE StartFails(c) BY <1>7, CalmMove DEF StartFails
<1>8. CASE Register(c) BY <1>8, CalmMove DEF Register
<1>9. CASE Finish(c)
    BY <1>9 DEF Finish, ShareResult, Callers, Calm
<1>10. CASE TargetStep(c)
    <2>1. CASE Target(c)
        <3>1. req[c].op \notin InExecute
            BY <2>1 DEF TypeOK, ControlTypes, Target, TargetOps
        <3> QED BY <2>1, <3>1, CalmMove DEF Target
    <2>2. CASE Close(c) BY <2>2, CalmMove DEF Close, TakeOut
    <2>3. CASE Free(c) BY <2>3, CalmMove DEF Free
    <2>4. CASE Interrupt(c) BY <2>4, CalmMove DEF Interrupt
    <2>5. CASE InterruptSeen(c) BY <2>5, CalmMove DEF InterruptSeen
    <2>6. CASE InterruptKill(c) BY <2>6, CalmMove DEF InterruptKill
    <2>7. CASE InterruptDelete(c) BY <2>7, CalmMove DEF InterruptDelete
    <2> QED BY <1>10, <2>1, <2>2, <2>3, <2>4, <2>5, <2>6, <2>7 DEF TargetStep
<1>11. CASE RequireExisting(c) BY <1>11, CalmMove DEF RequireExisting
<1>12. CASE HasLiveSession(c) BY <1>12, CalmMove DEF HasLiveSession
<1>13. CASE Restart(c) BY <1>13, CalmMove DEF Restart
<1>14. CASE RestartStale(c) BY <1>14, CalmMove DEF RestartStale
<1>15. CASE Remove(c) BY <1>15, CalmMove DEF Remove
<1>16. CASE RecordError(c) BY <1>16, CalmMove DEF RecordError
<1> QED
    BY <1>1, <1>2, <1>3, <1>4, <1>5, <1>6, <1>7, <1>8, <1>9, <1>10, <1>11, <1>12, <1>13,
       <1>14, <1>15, <1>16 DEF CreateStep

\* The steps of kill, of the loops, of the environment, and requests that arrive.
LEMMA OthersAside ==
    ASSUME TypeOK,
           \/ \E a \in Actor : KillStep(a)
           \/ ReaperStep \/ MainStep \/ Stop \/ Quiet \/ UNCHANGED vars
           \/ (\E s \in Session : Crash(s)) \/ (\E o \in Owner : OwnerExits(o))
           \/ (\E c \in Conn : GraceKill(c))
           \/ (\E c \in Conn, op \in Ops, k \in Key, id \in Session \cup {NoSession},
                  o \in Owner \cup {NoOwner} : Arrive(c, op, k, id, o))
    PROVE  Calm
<1> USE Actors DEF At, Goto, InExecute, World
<1>1. ASSUME NEW a \in Actor, KillStep(a) PROVE Calm
    <2>1. CASE KillMark(a) BY <2>1 DEF KillMark, Calm
    <2>2. CASE KillReap(a)
        <3>1. pc[a] \in Killing /\ AfterKill(pc[a]) \notin Holding
            BY <2>2, KillingPCs DEF KillReap
        <3>2. pc[a] \notin InExecute /\ AfterKill(pc[a]) \notin InExecute
            BY <3>1 DEF Killing, Holding
        <3> QED BY <2>2, <3>2, CalmMove DEF KillReap
    <2> QED BY <1>1, <2>1, <2>2 DEF KillStep
<1>2. CASE Scan \/ Rest
    BY <1>2, CalmMove DEF Scan, Rest
<1>3. ASSUME NEW k \in Key, Reap(k) PROVE Calm
    BY <1>3, CalmMove DEF Reap, TakeOut
<1>4. CASE Shutdown \/ Exit \/ Stop
    BY <1>4, CalmMove DEF Shutdown, Exit, Stop
<1>5. ASSUME NEW s \in Session, ShutdownNext(s) PROVE Calm
    BY <1>5, CalmMove DEF ShutdownNext
<1>6. CASE Quiet \/ UNCHANGED vars
    BY <1>6 DEF Quiet, vars, Calm
<1>7. ASSUME NEW s \in Session, Crash(s) PROVE Calm
    BY <1>7 DEF Crash, Calm
<1>8. ASSUME NEW o \in Owner, OwnerExits(o) PROVE Calm
    BY <1>8 DEF OwnerExits, Calm
<1>9. ASSUME NEW c \in Conn, GraceKill(c) PROVE Calm
    BY <1>9 DEF GraceKill, Calm
<1>10. ASSUME NEW c \in Conn, NEW op \in Ops, NEW k \in Key, NEW id \in Session \cup {NoSession},
              NEW o \in Owner \cup {NoOwner}, Arrive(c, op, k, id, o)
       PROVE  Calm
    <2>1. (IF id = NoSession THEN FirstStep(op) ELSE "target") \notin InExecute
        BY OpsKnown DEF FirstStep, EvalOps, TargetOps
    <2> QED BY <1>10, <2>1, CalmMove DEF Arrive
<1> QED
    BY <1>1, <1>2, <1>3, <1>4, <1>5, <1>6, <1>7, <1>8, <1>9, <1>10 DEF ReaperStep, MainStep
-----------------------------------------------------------------------------
\* Which sessions have run, and which are lost

LEMMA OneExits ==
    ASSUME TypeOK, NEW s \in Session, proc' = [proc EXCEPT ![s] = "exited"]
    PROVE  Exited' = Exited \cup {s}
    BY DEF TypeOK, DataTypes, Exited

\* A session is made with its process, and no process was there before.
LEMMA LaunchedStep ==
    ASSUME TypeOK, OnlyMade, MadeIsLaunched, [Next]_vars
    PROVE  MadeIsLaunched'
<1> USE BoundIsNat, Actors DEF Session, MadeIsLaunched
<1>0. made \in 0..MaxSession /\ proc \in [Session -> {"none", "running", "exited"}]
    BY DEF TypeOK, DataTypes
<1>1. ASSUME NEW c \in Conn, Start(c) PROVE MadeIsLaunched'
    BY <1>0, <1>1 DEF Start
<1>2. ASSUME NEW s \in Session, s <= made, made' = made,
             proc' = proc \/ proc' = [proc EXCEPT ![s] = "exited"]
      PROVE  MadeIsLaunched'
    BY <1>0, <1>2
<1>3. ASSUME UNCHANGED <<made, proc>> PROVE MadeIsLaunched'
    BY <1>3
<1>4. ASSUME NEW a \in Actor, ses[a] # NoSession
      PROVE  ses[a] \in Session /\ ses[a] <= made
    BY <1>4 DEF TypeOK, ControlTypes, OnlyMade
<1>5. ASSUME NEW a \in Actor, KillStep(a) PROVE MadeIsLaunched'
    <2>1. pc[a] \in Holding
        BY <1>5 DEF KillStep, KillMark, KillReap, Holding
    <2>2. ses[a] \in Session /\ ses[a] <= made
        BY <2>1, <1>4, HolderHolds, NullSession
    <2>3. made' = made /\ (proc' = proc \/ proc' = [proc EXCEPT ![ses[a]] = "exited"])
        BY <1>5 DEF KillStep, KillMark, KillReap
    <2> HIDE DEF MadeIsLaunched
    <2> QED BY <1>2, <2>2, <2>3
<1>6. ASSUME NEW c \in Conn, InterruptKill(c) \/ GraceKill(c) PROVE MadeIsLaunched'
    <2>1. ses[c] # NoSession
        BY <1>6, HolderHolds, NullSession DEF InterruptKill, GraceKill, At, Holding
    <2>2. ses[c] \in Session /\ ses[c] <= made
        BY <2>1, <1>4
    <2>3. made' = made /\ proc' = [proc EXCEPT ![ses[c]] = "exited"]
        BY <1>6 DEF InterruptKill, GraceKill
    <2> HIDE DEF MadeIsLaunched
    <2> QED BY <1>2, <2>2, <2>3
<1>7. ASSUME NEW s \in Session, Crash(s) PROVE MadeIsLaunched'
    BY <1>0, <1>7 DEF Crash
<1>8. ASSUME NEW c \in Conn, CreateStep(c), ~Start(c) PROVE UNCHANGED <<made, proc>>
    BY <1>8 DEF CreateStep, FastPath, Join, Reread, FlightDelete, StartRefused, StartFails,
                Register, Finish, ShareResult, World
<1>9. ASSUME NEW c \in Conn, EvalStep(c) PROVE UNCHANGED <<made, proc>>
    BY <1>9 DEF EvalStep, RequireExisting, HasLiveSession, Restart, CheckStale, Proceed,
                RestartStale, Acquire, AcquireDead, Write, WriteFails, EvalReturns,
                EvalDies, Remove, RecordError, World
<1>10. ASSUME NEW c \in Conn, TargetStep(c), ~InterruptKill(c) PROVE UNCHANGED <<made, proc>>
    BY <1>10 DEF TargetStep, Target, Close, Free, Interrupt, InterruptSeen, InterruptDelete,
                 World
<1>11. ASSUME \/ Scan \/ Rest \/ Shutdown \/ Exit \/ Stop \/ Quiet \/ UNCHANGED vars
              \/ \E k \in Key : Reap(k)
              \/ \E s \in Session : ShutdownNext(s)
              \/ \E o \in Owner : OwnerExits(o)
       PROVE  UNCHANGED <<made, proc>>
    BY <1>11 DEF Scan, Rest, Shutdown, Exit, Stop, Quiet, vars, Reap, ShutdownNext,
                 OwnerExits, World
<1>12. ASSUME NEW c \in Conn, ClientStep(c), ~GraceKill(c) PROVE UNCHANGED <<made, proc>>
    BY <1>12 DEF ClientStep, Arrive, AcquireCancelled, World
<1> HIDE DEF MadeIsLaunched
<1>13. ASSUME NEW c \in Conn, HandlerStep(c) \/ ClientStep(c) PROVE MadeIsLaunched'
    BY <1>1, <1>3, <1>5, <1>6, <1>8, <1>9, <1>10, <1>12, <1>13 DEF HandlerStep, TargetStep, ClientStep
<1> QED
    BY <1>3, <1>5, <1>7, <1>11, <1>13 DEF Next, ReaperStep, MainStep
-----------------------------------------------------------------------------
\* Who has the sem

LEMMA SemIsHeldStep ==
    ASSUME TypeOK, SemIsHeld, [Next]_vars
    PROVE  SemIsHeld'
<1> USE Actors DEF SemIsHeld, At, Goto, World
<1>0. /\ pc \in [Actor -> ConnPC \cup ReaperPC \cup MainPC]
      /\ ses \in [Actor -> Session \cup {NoSession}]
      /\ sem \in [Session -> Conn \cup {NoConn}]
    BY DEF TypeOK, ControlTypes, DataTypes
<1>1. ASSUME Calm PROVE SemIsHeld'
    BY <1>1 DEF Calm, InExecute
<1>2. ASSUME NEW c \in Conn, CheckStale(c) \/ Proceed(c) PROVE SemIsHeld'
    BY <1>0, <1>2 DEF CheckStale, Proceed
<1>3. ASSUME NEW c \in Conn, Acquire(c) PROVE SemIsHeld'
    <2>1. ses[c] \in Session
        BY <1>3, HolderHolds DEF Acquire, Holding
    <2>2. \A d \in Conn : pc[d] \in {"write", "run"} => ses[d] # ses[c]
        BY <1>3, NullsDistinct DEF Acquire
    <2> QED BY <1>0, <1>3, <2>1, <2>2 DEF Acquire
<1>4. ASSUME NEW c \in Conn, AcquireDead(c) \/ AcquireCancelled(c) PROVE SemIsHeld'
    BY <1>0, <1>4 DEF AcquireDead, AcquireCancelled, Conclude
<1>5. ASSUME NEW c \in Conn, Write(c) PROVE SemIsHeld'
    BY <1>0, <1>5 DEF Write
<1>6. ASSUME NEW c \in Conn, WriteFails(c) \/ EvalReturns(c) \/ EvalDies(c)
      PROVE  SemIsHeld'
    <2>1. pc[c] \in {"write", "run"} /\ Release(c) /\ ses' = ses
        BY <1>6 DEF WriteFails, EvalReturns, EvalDies
    <2>2. \E l \in {"checked", "done", "errored"} : pc' = [pc EXCEPT ![c] = l]
        BY <1>6 DEF WriteFails, EvalReturns, EvalDies, Conclude
    <2>3. ses[c] \in Session
        BY <2>1, HolderHolds DEF Holding
    <2>4. \A d \in Conn : d # c /\ pc[d] \in {"write", "run"} => ses[d] # ses[c]
        BY <2>1
    <2> QED BY <1>0, <2>1, <2>2, <2>3, <2>4 DEF Release
<1> HIDE DEF SemIsHeld, At, Goto, World
<1>7. ASSUME NEW c \in Conn, HandlerStep(c) PROVE SemIsHeld'
    BY <1>1, <1>2, <1>3, <1>4, <1>5, <1>6, <1>7, ConnAside, OthersAside DEF HandlerStep, EvalStep
<1>8. ASSUME NEW c \in Conn, ClientStep(c) PROVE SemIsHeld'
    BY <1>1, <1>4, <1>8, OthersAside DEF ClientStep
<1> QED
    <2>1. CASE \/ ReaperStep \/ MainStep \/ Stop \/ Quiet \/ UNCHANGED vars
               \/ (\E s \in Session : Crash(s)) \/ (\E o \in Owner : OwnerExits(o))
        BY <1>1, <2>1, OthersAside
    <2> QED BY <1>7, <1>8, <2>1 DEF Next

\* The invariant that the refinement needs.
LEMMA Refining == Spec => []RInv
<1>1. Init => SemIsHeld /\ MadeIsLaunched
    <2> SUFFICES ASSUME Init PROVE SemIsHeld /\ MadeIsLaunched
        OBVIOUS
    <2>1. \A c \in Conn : pc[c] = "new"
        BY Actors DEF Init
    <2>2. SemIsHeld
        BY <2>1 DEF SemIsHeld
    <2>3. \A s \in Session : ~(s <= 0) /\ proc[s] = "none"
        BY BoundIsNat DEF Init, Session
    <2> QED BY <2>2, <2>3 DEF Init, MadeIsLaunched
<1>2. IInv /\ SemIsHeld /\ MadeIsLaunched /\ [Next]_vars => SemIsHeld' /\ MadeIsLaunched'
    BY SemIsHeldStep, LaunchedStep DEF IInv
<1> QED BY Invariance, <1>1, <1>2, PTL DEF Spec, RInv
-----------------------------------------------------------------------------
\* What a step outside execute loses

LEMMA LosesStep ==
    ASSUME RInv,
           \/ \E c \in Conn : \/ CreateStep(c) \/ TargetStep(c)
                             \/ RequireExisting(c) \/ HasLiveSession(c) \/ Restart(c)
                             \/ RestartStale(c) \/ Remove(c) \/ RecordError(c)
                             \/ GraceKill(c)
                             \/ \E op \in Ops, k \in Key, id \in Session \cup {NoSession},
                                   o \in Owner \cup {NoOwner} : Arrive(c, op, k, id, o)
           \/ \E a \in Actor : KillStep(a)
           \/ Scan \/ Rest \/ Shutdown \/ Exit \/ Stop \/ Quiet \/ UNCHANGED vars
           \/ \E k \in Key : Reap(k)
           \/ \E s \in Session : ShutdownNext(s) \/ Crash(s)
           \/ \E o \in Owner : OwnerExits(o)
    PROVE  LosesOne
<1> USE Actors
<1>0. TypeOK /\ MadeIsLaunched /\ proc \in [Session -> {"none", "running", "exited"}]
    BY DEF RInv, IInv, TypeOK, DataTypes
<1>1. ASSUME UNCHANGED <<dead, proc>> PROVE LosesOne
    BY <1>1 DEF LosesOne, Exited
<1>2. ASSUME NEW s \in Session, dead' = dead \/ dead' = dead \cup {s},
             proc' = [proc EXCEPT ![s] = "exited"]
      PROVE  LosesOne
    BY <1>0, <1>2, OneExits DEF LosesOne
<1>3. ASSUME NEW c \in Conn, Start(c) PROVE LosesOne
    <2>1. \A s \in Session : proc'[s] = "exited" <=> proc[s] = "exited"
        BY <1>0, <1>3, BoundIsNat DEF Start, MadeIsLaunched, Session, TypeOK, DataTypes
    <2> QED BY <1>3, <2>1 DEF Start, LosesOne, Exited
<1>4. ASSUME NEW c \in Conn, CreateStep(c), ~Start(c) PROVE UNCHANGED <<dead, proc>>
    BY <1>4 DEF CreateStep, FastPath, Join, Reread, FlightDelete, StartRefused, StartFails,
                Register, Finish, ShareResult, World
<1>5. ASSUME NEW c \in Conn, \/ RequireExisting(c) \/ HasLiveSession(c) \/ Restart(c)
                            \/ RestartStale(c) \/ Remove(c) \/ RecordError(c)
      PROVE  UNCHANGED <<dead, proc>>
    BY <1>5 DEF RequireExisting, HasLiveSession, Restart, RestartStale, Remove, RecordError,
                World
<1>6. ASSUME NEW c \in Conn, TargetStep(c), ~InterruptKill(c) PROVE UNCHANGED <<dead, proc>>
    BY <1>6 DEF TargetStep, Target, Close, Free, Interrupt, InterruptSeen, InterruptDelete,
                World
<1>7. ASSUME NEW c \in Conn, InterruptKill(c) \/ GraceKill(c) PROVE LosesOne
    <2>1. ses[c] \in Session
        BY <1>0, <1>7, HolderHolds DEF InterruptKill, GraceKill, At, Holding, TypeOK, ControlTypes
    <2>2. dead' = dead \cup {ses[c]} /\ proc' = [proc EXCEPT ![ses[c]] = "exited"]
        BY <1>7 DEF InterruptKill, GraceKill
    <2> QED BY <1>2, <2>1, <2>2
<1>8. ASSUME NEW a \in Actor, KillStep(a) PROVE LosesOne
    <2>1. ses[a] \in Session
        BY <1>0, <1>8, HolderHolds DEF KillStep, KillMark, KillReap, Holding
    <2>2. CASE KillMark(a)
        BY <2>1, <2>2 DEF KillMark, LosesOne, Exited
    <2>3. CASE KillReap(a)
        BY <1>2, <2>1, <2>3 DEF KillReap
    <2> QED BY <1>8, <2>2, <2>3 DEF KillStep
<1>9. ASSUME NEW s \in Session, Crash(s) PROVE LosesOne
    BY <1>2, <1>9 DEF Crash
<1>10. ASSUME \/ Scan \/ Rest \/ Shutdown \/ Exit \/ Stop \/ Quiet \/ UNCHANGED vars
              \/ \E k \in Key : Reap(k)
              \/ \E s \in Session : ShutdownNext(s)
              \/ \E o \in Owner : OwnerExits(o)
       PROVE  UNCHANGED <<dead, proc>>
    BY <1>10 DEF Scan, Rest, Shutdown, Exit, Stop, Quiet, vars, Reap, ShutdownNext,
                 OwnerExits, World
<1>11. ASSUME NEW c \in Conn, NEW op \in Ops, NEW k \in Key, NEW id \in Session \cup {NoSession},
              NEW o \in Owner \cup {NoOwner}, Arrive(c, op, k, id, o)
       PROVE  UNCHANGED <<dead, proc>>
    BY <1>11 DEF Arrive, World
<1>12. ASSUME NEW c \in Conn, CreateStep(c) \/ TargetStep(c) PROVE LosesOne
    BY <1>1, <1>3, <1>4, <1>6, <1>7, <1>12
<1> QED
    BY <1>1, <1>5, <1>7, <1>8, <1>9, <1>10, <1>11, <1>12
-----------------------------------------------------------------------------
(* Each step is one of the service, or none *)

LEMMA CalmStep ==
    ASSUME Calm, LosesOne
    PROVE  [Service!Next]_(Service!vars)
<1> DEFINE at == [c \in Conn |-> ServiceAt(c)]
           on == [c \in Conn |-> IF ServiceAt(c) = "out" THEN NoSession ELSE ses[c]]
<1>1. \A c \in Conn : /\ ServiceAt(c)' = ServiceAt(c)
                      /\ ServiceAt(c) # "out" => ses'[c] = ses[c]
    BY DEF Calm, InExecute, ServiceAt
<1>2. at' = at /\ on' = on
    BY <1>1
<1>3. CASE dead' = dead /\ Exited' = Exited
    BY <1>2, <1>3 DEF Service!vars, Exited
<1>4. ASSUME NEW s \in Session,
             \/ dead' = dead \cup {s} /\ Exited' \in {Exited, Exited \cup {s}}
             \/ dead' = dead /\ Exited' = Exited \cup {s}
      PROVE  Service!Next
    <2>1. Service!Lose(s)
        BY <1>2, <1>4 DEF Service!Lose, Exited
    <2> QED BY <2>1 DEF Service!Next
<1> QED BY <1>3, <1>4 DEF LosesOne

\* A step of execute: its connection moves on, keeping its session.
LEMMA ExecuteMove ==
    ASSUME RInv, NEW c \in Conn, NEW l, pc' = [pc EXCEPT ![c] = l], ses' = ses,
           proc' = proc,
           \/ ServiceAt(c) = "out" /\ l = "acquire" /\ dead' = dead /\ ses[c] \in Session
           \/ /\ pc[c] = "acquire" /\ l = "write" /\ dead' = dead
              /\ ses[c] \notin dead /\ sem[ses[c]] = NoConn
           \/ pc[c] = "write" /\ l = "run" /\ dead' = dead /\ proc[ses[c]] # "exited"
           \/ /\ pc[c] \in InExecute /\ l \notin InExecute
              /\ pc[c] = "write" => ses[c] \in dead \cup Exited
              /\ dead' = dead \/ (ses[c] \in Exited /\ dead' = dead \cup {ses[c]})
    PROVE  Service!Next
<1> DEFINE at == [d \in Conn |-> ServiceAt(d)]
           on == [d \in Conn |-> IF ServiceAt(d) = "out" THEN NoSession ELSE ses[d]]
<1>0. pc \in [Actor -> ConnPC \cup ReaperPC \cup MainPC] /\ c \in Actor
    BY Actors DEF RInv, IInv, TypeOK, ControlTypes
<1>1. \A d \in Conn : d # c => ServiceAt(d)' = ServiceAt(d) /\ ses'[d] = ses[d]
    BY <1>0, Actors DEF ServiceAt
<1>2. /\ at' = [at EXCEPT ![c] = ServiceAt(c)']
      /\ on' = [on EXCEPT ![c] = IF ServiceAt(c)' = "out" THEN NoSession ELSE ses[c]]
    BY <1>1
<1>3. UNCHANGED Exited
    BY DEF Exited
<1>4. CASE ServiceAt(c) = "out" /\ l = "acquire" /\ dead' = dead /\ ses[c] \in Session
    <2>1. ServiceAt(c)' = "waiting"
        BY <1>0, <1>4 DEF ServiceAt
    <2>2. at[c] = "out" /\ at' = [at EXCEPT ![c] = "waiting"]
        BY <1>2, <1>4, <2>1
    <2>3. PICK s \in Session : s = ses[c]
        BY <1>4
    <2>4. on' = [on EXCEPT ![c] = s]
        BY <1>2, <2>1, <2>3
    <2>5. Service!Call(c, s)
        BY <1>3, <1>4, <2>2, <2>4 DEF Service!Call, Exited
    <2> QED BY <2>5 DEF Service!Next
<1>5. CASE /\ pc[c] = "acquire" /\ l = "write" /\ dead' = dead
           /\ ses[c] \notin dead /\ sem[ses[c]] = NoConn
    <2>1. ServiceAt(c) = "waiting" /\ ServiceAt(c)' = "admitted"
        BY <1>0, <1>5 DEF ServiceAt
    <2>2. \A d \in Conn : ServiceAt(d) \in {"admitted", "running"} => ses[d] # ses[c]
        BY <1>5, NullsDistinct DEF ServiceAt, RInv, SemIsHeld
    <2>3. Service!Admit(c)
        BY <1>2, <1>3, <1>5, <2>1, <2>2 DEF Service!Admit, Service!Served, Exited
    <2> QED BY <2>3 DEF Service!Next
<1>6. CASE pc[c] = "write" /\ l = "run" /\ dead' = dead /\ proc[ses[c]] # "exited"
    <2>1. ServiceAt(c) = "admitted" /\ ServiceAt(c)' = "running"
        BY <1>0, <1>6 DEF ServiceAt
    <2>2. Service!Begin(c)
        BY <1>2, <1>3, <1>6, <2>1 DEF Service!Begin, Exited
    <2> QED BY <2>2 DEF Service!Next
<1>7. CASE /\ pc[c] \in InExecute /\ l \notin InExecute
           /\ pc[c] = "write" => ses[c] \in dead \cup Exited
           /\ dead' = dead \/ (ses[c] \in Exited /\ dead' = dead \cup {ses[c]})
    <2>1. ServiceAt(c)' = "out"
        BY <1>0, <1>7 DEF ServiceAt, InExecute
    <2>2. ServiceAt(c) # "out" /\ (ServiceAt(c) = "admitted" <=> pc[c] = "write")
        BY <1>7 DEF ServiceAt, InExecute
    <2>3. Service!Answer(c)
        BY <1>2, <1>3, <1>7, <2>1, <2>2 DEF Service!Answer, Exited
    <2> QED BY <2>3 DEF Service!Next
<1> QED BY <1>4, <1>5, <1>6, <1>7

\* The manager's handlers, with all the sessions, removals and kills of the
\* daemon, implement the service.
THEOREM Implements == Spec => ImplementsService
<1>1. Init => Service!Init
    <2> SUFFICES ASSUME Init PROVE Service!Init
        OBVIOUS
    <2>1. \A c \in Conn : ServiceAt(c) = "out"
        BY Actors DEF Init, ServiceAt
    <2>2. dead = {} /\ {s \in Session : proc[s] = "exited"} = {}
        BY DEF Init
    <2> QED BY <2>1, <2>2 DEF Service!Init
<1>2. ASSUME RInv, [Next]_vars
      PROVE  [Service!Next]_(Service!vars)
    <2>0. TypeOK
        BY <1>2 DEF RInv, IInv
    <2>1. ASSUME NEW c \in Conn, CheckStale(c) \/ Proceed(c)
          PROVE  Service!Next
        <3>1. ServiceAt(c) = "out" /\ ses[c] \in Session
            BY <2>0, <2>1, HolderHolds, Actors DEF CheckStale, Proceed, At, ServiceAt, Holding
        <3>2. pc' = [pc EXCEPT ![c] = "acquire"] /\ UNCHANGED <<ses, proc, dead>>
            BY <2>1 DEF CheckStale, Proceed, Goto, World
        <3> QED BY <1>2, <3>1, <3>2, ExecuteMove
    <2>2. ASSUME NEW c \in Conn, Acquire(c)
          PROVE  Service!Next
        BY <1>2, <2>2, ExecuteMove DEF Acquire, At, Goto, Alive
    <2>3. ASSUME NEW c \in Conn, NEW e, Conclude(c, e)
          PROVE  \E l \in {"checked", "done", "errored"} : pc' = [pc EXCEPT ![c] = l]
        BY <2>3 DEF Conclude, Goto
    <2>4. ASSUME NEW c \in Conn, pc[c] \in {"write", "run"}, ~Running(ses[c])
          PROVE  ses[c] \in Exited
        <3>1. ses[c] \in Session /\ ses[c] <= made
            BY <1>2, <2>0, <2>4, HolderHolds, Actors DEF Holding, RInv, IInv, OnlyMade
        <3> QED
            BY <1>2, <2>0, <2>4, <3>1
               DEF RInv, MadeIsLaunched, Running, Exited, TypeOK, DataTypes
    <2>5. ASSUME NEW c \in Conn, AcquireDead(c) \/ AcquireCancelled(c)
          PROVE  Service!Next
        <3>1. /\ pc[c] = "acquire" /\ UNCHANGED <<ses, proc, dead>>
              /\ \E l \in {"checked", "done", "errored"} : pc' = [pc EXCEPT ![c] = l]
            BY <2>3, <2>5 DEF AcquireDead, AcquireCancelled, At, World
        <3> QED BY <1>2, <3>1, ExecuteMove DEF InExecute
    <2>6. ASSUME NEW c \in Conn, Write(c)
          PROVE  Service!Next
        BY <1>2, <2>6, ExecuteMove DEF Write, At, Goto, Running, World
    <2>7. ASSUME NEW c \in Conn, WriteFails(c)
          PROVE  Service!Next
        <3>1. /\ pc[c] = "write" /\ UNCHANGED <<ses, proc, dead>>
              /\ \E l \in {"checked", "done", "errored"} : pc' = [pc EXCEPT ![c] = l]
            BY <2>3, <2>7 DEF WriteFails, At
        <3>2. ses[c] \in dead \cup Exited
            BY <2>4, <2>7, <3>1 DEF WriteFails, Alive
        <3> QED BY <1>2, <3>1, <3>2, ExecuteMove DEF InExecute
    <2>8. ASSUME NEW c \in Conn, EvalReturns(c)
          PROVE  Service!Next
        <3>1. /\ pc[c] = "run" /\ UNCHANGED <<ses, proc, dead>>
              /\ \E l \in {"checked", "done", "errored"} : pc' = [pc EXCEPT ![c] = l]
            BY <2>3, <2>8 DEF EvalReturns, At
        <3> QED BY <1>2, <3>1, ExecuteMove DEF InExecute
    <2>9. ASSUME NEW c \in Conn, EvalDies(c)
          PROVE  Service!Next
        <3>1. /\ pc[c] = "run" /\ UNCHANGED <<ses, proc>> /\ dead' = dead \cup {ses[c]}
              /\ \E l \in {"checked", "done", "errored"} : pc' = [pc EXCEPT ![c] = l]
            BY <2>3, <2>9 DEF EvalDies, At
        <3>2. ses[c] \in Exited
            BY <2>4, <2>9, <3>1 DEF EvalDies
        <3> QED BY <1>2, <3>1, <3>2, ExecuteMove DEF InExecute
    <2>10. ASSUME NEW c \in Conn, HandlerStep(c) \/ ClientStep(c)
           PROVE  [Service!Next]_(Service!vars)
        <3>1. CASE EvalStep(c) \/ AcquireCancelled(c)
            BY <1>2, <2>0, <2>1, <2>2, <2>5, <2>6, <2>7, <2>8, <2>9, <3>1, CalmStep,
               ConnAside, LosesStep DEF EvalStep
        <3>2. CASE CreateStep(c) \/ TargetStep(c)
            BY <1>2, <2>0, <3>2, CalmStep, ConnAside, LosesStep
        <3>3. CASE KillStep(c)
            BY <1>2, <2>0, <3>3, CalmStep, OthersAside, LosesStep, Actors
        <3>4. CASE ClientStep(c) /\ ~AcquireCancelled(c)
            BY <1>2, <2>0, <3>4, CalmStep, OthersAside, LosesStep DEF ClientStep
        <3> QED BY <2>10, <3>1, <3>2, <3>3, <3>4 DEF HandlerStep
    <2>11. CASE \/ ReaperStep \/ MainStep \/ Stop \/ Quiet \/ UNCHANGED vars
                \/ (\E s \in Session : Crash(s)) \/ (\E o \in Owner : OwnerExits(o))
        <3>1. Calm
            BY <2>0, <2>11, OthersAside
        <3>2. LosesOne
            BY <1>2, <2>11, LosesStep, Actors DEF ReaperStep, MainStep
        <3> QED BY <3>1, <3>2, CalmStep
    <2> QED BY <1>2, <2>10, <2>11 DEF Next
<1> QED BY Refining, <1>1, <1>2, PTL DEF Spec, ImplementsService, Service!Spec
-----------------------------------------------------------------------------
(* Who waits for whom *)

\* Whom a call of singleflight names leads it, and those that wait wait for one.
CallIsLed ==
    /\ \A k \in Key : flight[k] # NoConn =>
            \E d \in Conn : flight[k] = d /\ KeyOf(d) = k /\ pc[d] \in InFlight
    /\ \A c \in Conn : pc[c] = "wait" => flight[KeyOf(c)] # NoConn

\* Whom a sem names is executing on that session.
SemIsBacked ==
    \A s \in Session : sem[s] # NoConn =>
        \E d \in Conn : sem[s] = d /\ ses[d] = s /\ pc[d] \in {"write", "run"}

\* A step by which no call begins or ends, and none is waited for anew.
NoCall ==
    /\ flight' = flight
    /\ \A c \in Conn :
          /\ pc[c] \in InFlight => pc'[c] \in InFlight /\ req'[c] = req[c]
          /\ pc'[c] = "wait" => pc[c] = "wait" /\ req'[c] = req[c]

LEMMA NoCallMove ==
    ASSUME TypeOK, NEW a \in Actor, NEW l, pc' = [pc EXCEPT ![a] = l], flight' = flight,
           l # "wait", pc[a] \in InFlight => l \in InFlight,
           req' = req \/ (pc[a] \notin InFlight /\ \E r : req' = [req EXCEPT ![a] = r])
    PROVE  NoCall
    BY DEF TypeOK, ControlTypes, NoCall

\* The steps of a connection other than those of singleflight.
LEMMA ConnNoCall ==
    ASSUME TypeOK, NEW c \in Conn, HandlerStep(c), ~Join(c), ~Finish(c), ~KillStep(c)
    PROVE  NoCall
<1> USE Actors DEF At, Goto, InFlight, World, Local, Map
<1>1. CASE CreateStep(c)
    BY <1>1, NoCallMove
    DEF CreateStep, FastPath, Reread, FlightDelete, Start, StartRefused, StartFails, Register
<1>2. CASE EvalStep(c)
    <2>1. CASE RequireExisting(c) \/ HasLiveSession(c) \/ Restart(c)
        BY <2>1, NoCallMove DEF RequireExisting, HasLiveSession, Restart
    <2>2. CASE CheckStale(c) \/ Proceed(c) \/ RestartStale(c) \/ Acquire(c) \/ Write(c)
        BY <2>2, NoCallMove DEF CheckStale, Proceed, RestartStale, Acquire, Write
    <2>3. CASE AcquireDead(c) \/ WriteFails(c) \/ EvalReturns(c) \/ EvalDies(c)
        BY <2>3, NoCallMove DEF AcquireDead, WriteFails, EvalReturns, EvalDies, Conclude
    <2>4. CASE Remove(c) \/ RecordError(c)
        BY <2>4, NoCallMove DEF Remove, RecordError
    <2> QED BY <1>2, <2>1, <2>2, <2>3, <2>4 DEF EvalStep
<1>3. CASE TargetStep(c)
    <2>1. CASE Target(c)
        <3>1. req[c].op \notin InFlight /\ req[c].op # "wait"
            BY <2>1 DEF TypeOK, ControlTypes, Target, TargetOps
        <3> QED BY <2>1, <3>1, NoCallMove DEF Target
    <2>2. CASE Close(c) \/ Free(c)
        BY <2>2, NoCallMove DEF Close, TakeOut, Free
    <2>3. CASE Interrupt(c) \/ InterruptSeen(c) \/ InterruptKill(c) \/ InterruptDelete(c)
        BY <2>3, NoCallMove DEF Interrupt, InterruptSeen, InterruptKill, InterruptDelete
    <2> QED BY <1>3, <2>1, <2>2, <2>3 DEF TargetStep
<1> QED BY <1>1, <1>2, <1>3 DEF HandlerStep

LEMMA OthersNoCall ==
    ASSUME TypeOK,
           \/ \E a \in Actor : KillStep(a)
           \/ \E c \in Conn : ClientStep(c)
           \/ ReaperStep \/ MainStep \/ Stop \/ Quiet \/ UNCHANGED vars
           \/ (\E s \in Session : Crash(s)) \/ (\E o \in Owner : OwnerExits(o))
    PROVE  NoCall
<1> USE Actors DEF At, Goto, InFlight, World, Local, Map
<1>1. ASSUME NEW a \in Actor, KillStep(a) PROVE NoCall
    <2>1. CASE KillMark(a) BY <2>1 DEF KillMark, NoCall
    <2>2. CASE KillReap(a)
        <3>1. AfterKill(pc[a]) # "wait" /\ (pc[a] \in InFlight => AfterKill(pc[a]) \in InFlight)
            BY <2>2 DEF KillReap, Killing, AfterKill
        <3> QED BY <2>2, <3>1, NoCallMove DEF KillReap
    <2> QED BY <1>1, <2>1, <2>2 DEF KillStep
<1>2. ASSUME NEW c \in Conn, ClientStep(c) PROVE NoCall
    <2>1. ASSUME NEW op \in Ops, NEW k \in Key, NEW id \in Session \cup {NoSession},
                 NEW o \in Owner \cup {NoOwner}, Arrive(c, op, k, id, o)
          PROVE  NoCall
        <3>1. (IF id = NoSession THEN FirstStep(op) ELSE "target") # "wait"
            BY OpsKnown DEF FirstStep, EvalOps, TargetOps
        <3> QED BY <2>1, <3>1, NoCallMove DEF Arrive
    <2>2. CASE AcquireCancelled(c)
        BY <2>2, NoCallMove DEF AcquireCancelled, Conclude
    <2>3. CASE GraceKill(c)
        BY <2>3 DEF GraceKill, NoCall
    <2> QED BY <1>2, <2>1, <2>2, <2>3 DEF ClientStep
<1>3. CASE Scan \/ Rest \/ Shutdown \/ Exit \/ Stop
    BY <1>3, NoCallMove DEF Scan, Rest, Shutdown, Exit, Stop
<1>4. ASSUME NEW k \in Key, Reap(k) PROVE NoCall
    BY <1>4, NoCallMove DEF Reap, TakeOut
<1>5. ASSUME NEW s \in Session, ShutdownNext(s) PROVE NoCall
    BY <1>5, NoCallMove DEF ShutdownNext
<1>6. CASE Quiet \/ UNCHANGED vars
    BY <1>6 DEF Quiet, vars, NoCall
<1>7. CASE (\E s \in Session : Crash(s)) \/ (\E o \in Owner : OwnerExits(o))
    BY <1>7 DEF Crash, OwnerExits, NoCall
<1> QED BY <1>1, <1>2, <1>3, <1>4, <1>5, <1>6, <1>7 DEF ReaperStep, MainStep

\* A call keeps its leader, and those that wait for it are let go with it.
LEMMA CallIsLedStep ==
    ASSUME TypeOK, LeaderIsNamed, CallIsLed, [Next]_vars
    PROVE  CallIsLed'
<1>0. /\ pc \in [Actor -> ConnPC \cup ReaperPC \cup MainPC] /\ Conn \subseteq Actor
      /\ flight \in [Key -> Conn \cup {NoConn}]
    BY Actors DEF TypeOK, ControlTypes, DataTypes
<1>1. CASE NoCall
    BY <1>0, <1>1 DEF NoCall, CallIsLed, KeyOf
<1>2. ASSUME NEW c \in Conn, Join(c) PROVE CallIsLed'
    <2> DEFINE k == KeyOf(c)
    <2>1. k \in Key /\ req' = req /\ pc[c] = "join"
        BY <1>2, KeyIsTyped DEF Join, At, Local
    <2>2. CASE flight[k] = NoConn
        <3>1. /\ flight' = [flight EXCEPT ![k] = c]
              /\ pc' = [pc EXCEPT ![c] = "reread"]
              /\ \A a : KeyOf(a)' = KeyOf(a)
            BY <1>2, <2>1, <2>2 DEF Join, Goto, KeyOf
        <3>2. ASSUME NEW h \in Key, flight'[h] # NoConn
              PROVE  \E d \in Conn : flight'[h] = d /\ KeyOf(d)' = h /\ pc'[d] \in InFlight
            <4>1. CASE h = k
                BY <1>0, <2>1, <3>1, <4>1 DEF InFlight
            <4>2. CASE h # k
                <5>1. PICK d \in Conn : flight[h] = d /\ KeyOf(d) = h /\ pc[d] \in InFlight
                    BY <1>0, <2>1, <3>1, <3>2, <4>2 DEF CallIsLed
                <5>2. d # c
                    BY <2>1, <5>1 DEF InFlight
                <5> QED BY <1>0, <2>1, <3>1, <4>2, <5>1, <5>2
            <4> QED BY <4>1, <4>2
        <3>3. ASSUME NEW q \in Conn, pc'[q] = "wait" PROVE flight'[KeyOf(q)'] # NoConn
            <4>1. pc[q] = "wait" /\ KeyOf(q) \in Key
                BY <1>0, <3>1, <3>3, KeyIsTyped
            <4> QED BY <1>0, <2>1, <3>1, <4>1, NullsDistinct DEF CallIsLed
        <3> QED BY <3>2, <3>3 DEF CallIsLed
    <2>3. CASE flight[k] # NoConn
        BY <1>0, <1>2, <2>1, <2>3 DEF Join, At, Goto, CallIsLed, KeyOf, InFlight
    <2> QED BY <2>2, <2>3
<1>3. ASSUME NEW c \in Conn, Finish(c) PROVE CallIsLed'
    <2> DEFINE k == KeyOf(c)
               out(a) == a = c \/ (a \in Conn /\ pc[a] = "wait" /\ KeyOf(a) = k)
    <2>1. k \in Key /\ req' = req /\ pc[c] = "finish" /\ flight[k] = c
        BY <1>3, KeyIsTyped DEF Finish, ShareResult, At, LeaderIsNamed, InFlight
    <2>2. /\ flight' = [flight EXCEPT ![k] = NoConn]
          /\ \A a \in Actor : IF out(a) THEN pc'[a] \in {"done", "got"} ELSE pc'[a] = pc[a]
        BY <1>0, <1>3 DEF Finish, ShareResult, Callers
    <2>3. ASSUME NEW h \in Key, flight'[h] # NoConn
          PROVE  \E d \in Conn : flight'[h] = d /\ KeyOf(d)' = h /\ pc'[d] \in InFlight
        <3>1. h # k /\ flight'[h] = flight[h]
            BY <1>0, <2>1, <2>2, <2>3
        <3>2. PICK d \in Conn : flight[h] = d /\ KeyOf(d) = h /\ pc[d] \in InFlight
            BY <2>3, <3>1 DEF CallIsLed
        <3>3. ~out(d)
            BY <3>1, <3>2 DEF InFlight
        <3>4. pc'[d] = pc[d] /\ KeyOf(d)' = h
            BY <1>0, <2>1, <2>2, <3>2, <3>3 DEF KeyOf
        <3> QED BY <3>1, <3>2, <3>4
    <2>4. ASSUME NEW q \in Conn, pc'[q] = "wait" PROVE flight'[KeyOf(q)'] # NoConn
        <3>1. ~out(q) /\ pc[q] = "wait"
            BY <1>0, <2>2, <2>4
        <3>2. KeyOf(q)' = KeyOf(q) /\ KeyOf(q) # k /\ KeyOf(q) \in Key
            BY <2>1, <3>1, KeyIsTyped DEF KeyOf
        <3> QED BY <1>0, <2>2, <3>1, <3>2 DEF CallIsLed
    <2> QED BY <2>3, <2>4 DEF CallIsLed
<1> QED BY <1>1, <1>2, <1>3, ConnNoCall, OthersNoCall, Actors DEF Next, HandlerStep, CreateStep

\* A sem is given back by whoever holds it, before it leaves its session.
LEMMA SemIsBackedStep ==
    ASSUME TypeOK, SemIsBacked, [Next]_vars
    PROVE  SemIsBacked'
<1> USE Actors DEF SemIsBacked, At, Goto, World
<1>0. /\ pc \in [Actor -> ConnPC \cup ReaperPC \cup MainPC]
      /\ ses \in [Actor -> Session \cup {NoSession}]
      /\ sem \in [Session -> Conn \cup {NoConn}]
    BY DEF TypeOK, ControlTypes, DataTypes
<1>1. ASSUME Calm PROVE SemIsBacked'
    BY <1>1 DEF Calm, InExecute
<1>2. ASSUME NEW c \in Conn, CheckStale(c) \/ Proceed(c) \/ AcquireDead(c) \/ AcquireCancelled(c)
      PROVE  SemIsBacked'
    BY <1>0, <1>2 DEF CheckStale, Proceed, AcquireDead, AcquireCancelled, Conclude
<1>3. ASSUME NEW c \in Conn, Acquire(c) PROVE SemIsBacked'
    <2>1. ses[c] \in Session
        BY <1>3, HolderHolds DEF Acquire, Holding
    <2> QED BY <1>0, <1>3, <2>1 DEF Acquire
<1>4. ASSUME NEW c \in Conn, Write(c) PROVE SemIsBacked'
    BY <1>0, <1>4 DEF Write
<1>5. ASSUME NEW c \in Conn, WriteFails(c) \/ EvalReturns(c) \/ EvalDies(c)
      PROVE  SemIsBacked'
    <2>1. pc[c] \in {"write", "run"} /\ Release(c) /\ ses' = ses
        BY <1>5 DEF WriteFails, EvalReturns, EvalDies
    <2>2. \E l : pc' = [pc EXCEPT ![c] = l]
        BY <1>5 DEF WriteFails, EvalReturns, EvalDies, Conclude
    <2>3. ses[c] \in Session
        BY <2>1, HolderHolds DEF Holding
    <2> QED BY <1>0, <2>1, <2>2, <2>3 DEF Release
<1> HIDE DEF SemIsBacked, At, Goto, World
<1>6. ASSUME NEW c \in Conn, HandlerStep(c) PROVE SemIsBacked'
    BY <1>1, <1>2, <1>3, <1>4, <1>5, <1>6, ConnAside, OthersAside DEF HandlerStep, EvalStep
<1>7. ASSUME NEW c \in Conn, ClientStep(c) PROVE SemIsBacked'
    BY <1>1, <1>2, <1>7, OthersAside DEF ClientStep
<1> QED
    <2>1. CASE \/ ReaperStep \/ MainStep \/ Stop \/ Quiet \/ UNCHANGED vars
               \/ (\E s \in Session : Crash(s)) \/ (\E o \in Owner : OwnerExits(o))
        BY <1>1, <2>1, OthersAside
    <2> QED BY <1>6, <1>7, <2>1 DEF Next

\* Waiting never goes in a circle, nor to one that will not go on: who waits, waits
\* for a connection that starts an interpreter or executes, which waits for nobody.
THEOREM NoCircle == Spec => []WaitsAreShort
<1>1. Init => CallIsLed /\ SemIsBacked
    <2> SUFFICES ASSUME Init PROVE CallIsLed /\ SemIsBacked
        OBVIOUS
    <2>1. \A c \in Conn : pc[c] = "new"
        BY Actors DEF Init
    <2> QED BY <2>1 DEF Init, CallIsLed, SemIsBacked
<1>2. IInv /\ CallIsLed /\ SemIsBacked /\ [Next]_vars => CallIsLed' /\ SemIsBacked'
    BY CallIsLedStep, SemIsBackedStep DEF IInv
<1>3. IInv /\ CallIsLed /\ SemIsBacked => WaitsAreShort
    <2> SUFFICES ASSUME TypeOK, CallIsLed, SemIsBacked PROVE WaitsAreShort
        BY DEF IInv
    <2>1. \A c \in Conn : pc[c] = "wait" => KeyOf(c) \in Key
        BY KeyIsTyped
    <2> QED BY <2>1 DEF WaitsAreShort, CallIsLed, SemIsBacked
<1> QED BY Invariance, <1>1, <1>2, <1>3, PTL DEF Spec

\* What the service promises holds of the manager's sessions.
THEOREM OneEvalPerSession == Spec => []Service!OneAtATime
<1>1. RInv => Service!OneAtATime
    <2> SUFFICES ASSUME RInv, NEW c \in Conn, NEW d \in Conn, ServiceAt(c) \in {"admitted", "running"},
                        ServiceAt(d) \in {"admitted", "running"}, ses[c] = ses[d]
                 PROVE  c = d
        BY DEF Service!OneAtATime, Service!Served
    <2>1. pc[c] \in {"write", "run"} /\ pc[d] \in {"write", "run"}
        BY DEF ServiceAt
    <2> QED BY <2>1 DEF RInv, SemIsHeld
<1> QED BY Refining, <1>1, PTL
===============================================================================
