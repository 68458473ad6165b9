------------------------ MODULE SessionManager_proofs ------------------------
(***************************************************************************)
(* Proofs about SessionManager, for any keys, connections, owners, requests *)
(* and number of sessions.  One invariant, IInv, carries all of them.       *)
(***************************************************************************)
EXTENDS SessionManager, TLAPS

\* The goroutine that runs the body of the call for a key is the one the
\* singleflight group names.
LeaderIsNamed ==
    \A c \in Conn : pc[c] \in InFlight => flight[KeyOf(c)] = c

\* While a leader creates a session its key is empty; while it kills a dead one
\* the key holds that one or nothing.
LeaderOwnsKey ==
    \A c \in Conn :
        /\ pc[c] \in {"start", "starting", "startKill"} => sessions[KeyOf(c)] = NoSession
        /\ pc[c] = "flightKill" => sessions[KeyOf(c)] \in {NoSession, ses[c]}
        /\ pc[c] = "flightDelete" => \/ sessions[KeyOf(c)] = NoSession
                                    \/ ~Running(sessions[KeyOf(c)])

\* Nobody holds a session that newSession has not returned.
OnlyMade ==
    /\ \A k \in Key : sessions[k] <= made
    /\ \A a \in Actor : ses[a] <= made
    /\ \A s \in doomed : s <= made

\* A session being started is its creator's alone.
StartingIsPrivate ==
    \A c \in Conn : pc[c] = "starting" =>
        /\ \A k \in Key : sessions[k] # ses[c]
        /\ \A a \in Actor \ {c} : ses[a] # ses[c]
        /\ ses[c] \notin doomed

NothingDoomedYet == pc[Main] \in {"serve", "shutdown"} => doomed = {}

\* "died" is what an eval reports last, about a session marked dead.
DiedIsMarked ==
    \A c \in Conn : err[c] = "died" =>
        pc[c] \in {"errored", "record", "done"} /\ ses[c] \in dead

\* What a restart removed is dead once its kill is over.
ClearedIsDead ==
    \A c \in Conn : cleared[c] # NoSession =>
        IF pc[c] = "restartKill" THEN ses[c] = cleared[c]
                                 ELSE cleared[c] \in dead

IInv ==
    /\ TypeOK
    /\ LeaderIsNamed /\ LeaderOwnsKey
    /\ OnlyMade /\ StartingIsPrivate /\ NothingDoomedYet
    /\ DiedIsMarked /\ DiedIsUnregistered
    /\ ClearedIsDead /\ ClearedNeverRuns
-----------------------------------------------------------------------------
(* Types *)

\* The absent session is not a session.
LEMMA NullSession == NoSession \notin Session
    BY BoundIsNat DEF NoSession, Session

\* The reaper and the main goroutine are actors, and no connection is one of them.
LEMMA Actors ==
    /\ Reaper \in Actor /\ Main \in Actor
    /\ \A c \in Conn : c \in Actor /\ c # Reaper /\ c # Main
    BY ActorsDistinct DEF Actor

\* A goroutine whose pc is in Holding has a session.
LEMMA HolderHolds ==
    ASSUME TypeOK, NEW a \in Actor, pc[a] \in Holding
    PROVE  ses[a] \in Session
    BY DEF TypeOK, ControlTypes

\* A connection that has read its request has a key the map is defined on.
LEMMA KeyIsTyped ==
    ASSUME TypeOK, NEW c \in Conn, pc[c] # "new"
    PROVE  KeyOf(c) \in Key /\ sessions[KeyOf(c)] \in Session \cup {NoSession}
    BY DEF TypeOK, ControlTypes, DataTypes, KeyOf, Request

\* A kill continues in the goroutine that runs it, no longer holding the session.
LEMMA KillingPCs ==
    ASSUME NEW l \in Killing
    PROVE  /\ AfterKill(l) \notin Holding
           /\ l \in ConnPC => AfterKill(l) \in ConnPC /\ AfterKill(l) # "target"
           /\ l \in ReaperPC => AfterKill(l) \in ReaperPC
           /\ l \in MainPC => AfterKill(l) \in MainPC
           /\ l # "new" /\ l \in Holding
    BY DEF Killing, AfterKill, Holding, ConnPC, ReaperPC, MainPC

\* Where a goroutine that may hold a session, or need not, can be sent.
LEMMA ConnGoes ==
    ASSUME TypeOK, NEW c \in Conn, pc[c] # "new",
           NEW l \in ConnPC \ {"target"}, pc' = [pc EXCEPT ![c] = l],
           NEW s \in Session \cup {NoSession},
           \/ ses' = [ses EXCEPT ![c] = s] /\ (l \in Holding => s # NoSession)
           \/ ses' = ses /\ l \notin Holding,
           req' = req
    PROVE  ControlTypes'
    BY Actors DEF TypeOK, ControlTypes

\* A connection that moves on with the session it has, or with none.
LEMMA ConnStays ==
    ASSUME TypeOK, NEW c \in Conn, pc[c] # "new",
           NEW l \in ConnPC \ {"target"}, pc' = [pc EXCEPT ![c] = l],
           l \in Holding => pc[c] \in Holding, UNCHANGED <<ses, req>>
    PROVE  ControlTypes'
    BY Actors DEF TypeOK, ControlTypes

\* A move of the reaper or of the main goroutine.
LEMMA LoopGoes ==
    ASSUME TypeOK, NEW a \in {Reaper, Main},
           NEW l, l \in (IF a = Reaper THEN ReaperPC ELSE MainPC),
           pc' = [pc EXCEPT ![a] = l],
           NEW s \in Session \cup {NoSession}, ses' = [ses EXCEPT ![a] = s],
           l \in Holding => s # NoSession, req' = req
    PROVE  ControlTypes'
    BY Actors, ActorsDistinct DEF TypeOK, ControlTypes

\* The initial state has the types.
LEMMA InitTypes == Init => TypeOK
<1> SUFFICES ASSUME Init PROVE TypeOK
    OBVIOUS
<1>1. DataTypes
    BY BoundIsNat DEF Init, DataTypes
<1>2. ControlTypes
    <2>1. pc \in [Actor -> ConnPC \cup ReaperPC \cup MainPC]
        BY DEF Init, ConnPC, ReaperPC, MainPC
    <2>2. pc[Reaper] = "scan" /\ pc[Main] = "serve" /\ \A c \in Conn : pc[c] = "new"
        BY Actors, ActorsDistinct DEF Init
    <2>3. \A a \in Actor : pc[a] \in {"scan", "serve", "new"}
        BY DEF Init
    <2>4. \A a \in Actor : pc[a] \notin Holding
        BY <2>3 DEF Holding, Killing
    <2>5. QED
        BY <2>1, <2>2, <2>4 DEF Init, ControlTypes, ConnPC, ReaperPC, MainPC
<1>3. QED
    BY <1>1, <1>2 DEF TypeOK

\* Every step keeps the types.
LEMMA NextTypes == TypeOK /\ [Next]_vars => TypeOK'
<1> SUFFICES ASSUME TypeOK, [Next]_vars PROVE TypeOK'
    OBVIOUS
<1> USE DEF Map, World, Local, Loops
<1>1. ASSUME NEW c \in Conn, NEW op \in Ops, NEW k \in Key, NEW id \in Session \cup {NoSession},
             NEW o \in Owner \cup {NoOwner}, Arrive(c, op, k, id, o)
      PROVE  TypeOK'
    <2> DEFINE l == IF id = NoSession THEN FirstStep(op) ELSE "target"
    <2>1. l \in ConnPC \ {"new"} /\ l \notin Holding /\ (l = "target" => op \in TargetOps)
        BY <1>1, OpsKnown
           DEF Arrive, FirstStep, EvalOps, TargetOps, ConnPC, Holding, Killing
    <2> HIDE DEF l
    <2>2. pc' = [pc EXCEPT ![c] = l] /\ UNCHANGED ses
        BY <1>1 DEF Arrive, Goto, l
    <2>3. req' = [req EXCEPT ![c] = [op |-> op, key |-> k, id |-> id, owner |-> o]]
        BY <1>1 DEF Arrive
    <2>4. [op |-> op, key |-> k, id |-> id, owner |-> o] \in Request
        BY DEF Request
    <2>5. ControlTypes'
        BY <2>1, <2>2, <2>3, <2>4, Actors DEF TypeOK, ControlTypes
    <2>6. DataTypes'
        BY <1>1 DEF Arrive, TypeOK, DataTypes
    <2>7. QED
        BY <2>5, <2>6 DEF TypeOK
<1>2. ASSUME NEW c \in Conn, RequireExisting(c) PROVE TypeOK'
    <2>1. pc[c] # "new" /\ KeyOf(c) \in Key
        BY <1>2, KeyIsTyped DEF RequireExisting, At
    <2>2. ControlTypes'
        BY <1>2, <2>1, ConnStays DEF RequireExisting, At, Goto, ConnPC, Holding, Killing
    <2>3. DataTypes'
        BY <1>2, <2>1 DEF RequireExisting, TypeOK, DataTypes
    <2>4. QED
        BY <2>2, <2>3 DEF TypeOK
<1>3. ASSUME NEW c \in Conn, HasLiveSession(c) PROVE TypeOK'
    <2>1. pc[c] # "new" /\ KeyOf(c) \in Key
        BY <1>3, KeyIsTyped DEF HasLiveSession, At
    <2>2. ControlTypes'
        BY <1>3, <2>1, ConnStays DEF HasLiveSession, At, Goto, ConnPC, Holding, Killing
    <2>3. DataTypes'
        BY <1>3, <2>1 DEF HasLiveSession, TypeOK, DataTypes
    <2>4. QED
        BY <2>2, <2>3 DEF TypeOK
<1>4. ASSUME NEW c \in Conn, Restart(c) PROVE TypeOK'
    <2>1. pc[c] # "new" /\ KeyOf(c) \in Key
        BY <1>4, KeyIsTyped DEF Restart, At
    <2>2. ControlTypes'
        <3> DEFINE s == sessions[KeyOf(c)]
                   l == IF s = NoSession THEN "get" ELSE "restartKill"
        <3>1. pc' = [pc EXCEPT ![c] = l] /\ ses' = [ses EXCEPT ![c] = s] /\ req' = req
            BY <1>4 DEF Restart, Goto, TakeOut
        <3>2. l \in ConnPC \ {"target"} /\ (l \in Holding => s # NoSession)
            BY DEF ConnPC, Holding, Killing
        <3>3. s \in Session \cup {NoSession}
            BY <2>1, KeyIsTyped
        <3> HIDE DEF s, l
        <3>4. QED
            BY <2>1, <3>1, <3>2, <3>3, ConnGoes
    <2>3. DataTypes'
        BY <1>4, <2>1 DEF Restart, TypeOK, DataTypes, Unregister, ForgetError
    <2>4. QED
        BY <2>2, <2>3 DEF TypeOK
<1>5. ASSUME NEW c \in Conn, FastPath(c) PROVE TypeOK'
    <2>1. pc[c] # "new" /\ KeyOf(c) \in Key
        BY <1>5, KeyIsTyped DEF FastPath, At
    <2>2. ControlTypes'
        <3> DEFINE s == sessions[KeyOf(c)]
        <3>1. PICK l \in ConnPC \ {"target"} :
                 /\ pc' = [pc EXCEPT ![c] = l]
                 /\ \/ ses' = [ses EXCEPT ![c] = s] /\ (l \in Holding => s # NoSession)
                    \/ ses' = ses /\ l \notin Holding
            BY <1>5 DEF FastPath, Goto, ConnPC, Holding, Killing
        <3>2. s \in Session \cup {NoSession} /\ req' = req
            BY <1>5, <2>1, KeyIsTyped DEF FastPath
        <3>3. QED
            BY <2>1, <3>1, <3>2, ConnGoes
    <2>3. DataTypes'
        BY <1>5, <2>1 DEF FastPath, TypeOK, DataTypes
    <2>4. QED
        BY <2>2, <2>3 DEF TypeOK
<1>6. ASSUME NEW c \in Conn, Join(c) PROVE TypeOK'
    <2>1. pc[c] # "new" /\ KeyOf(c) \in Key
        BY <1>6, KeyIsTyped DEF Join, At
    <2>2. ControlTypes'
        BY <1>6, <2>1, ConnStays DEF Join, At, Goto, ConnPC, Holding, Killing
    <2>3. DataTypes'
        BY <1>6, <2>1 DEF Join, TypeOK, DataTypes
    <2>4. QED
        BY <2>2, <2>3 DEF TypeOK
<1>7. ASSUME NEW c \in Conn, Reread(c) PROVE TypeOK'
    <2>1. pc[c] # "new" /\ KeyOf(c) \in Key
        BY <1>7, KeyIsTyped DEF Reread, At
    <2>2. ControlTypes'
        <3> DEFINE s == sessions[KeyOf(c)]
        <3>1. PICK l \in ConnPC \ {"target"} :
                 /\ pc' = [pc EXCEPT ![c] = l]
                 /\ \/ ses' = [ses EXCEPT ![c] = s] /\ (l \in Holding => s # NoSession)
                    \/ ses' = ses /\ l \notin Holding
            BY <1>7 DEF Reread, Goto, ConnPC, Holding, Killing
        <3>2. s \in Session \cup {NoSession} /\ req' = req
            BY <1>7, <2>1, KeyIsTyped DEF Reread
        <3>3. QED
            BY <2>1, <3>1, <3>2, ConnGoes
    <2>3. DataTypes'
        BY <1>7, <2>1 DEF Reread, TypeOK, DataTypes
    <2>4. QED
        BY <2>2, <2>3 DEF TypeOK
<1>8. ASSUME NEW c \in Conn, FlightDelete(c) PROVE TypeOK'
    <2>1. pc[c] # "new" /\ KeyOf(c) \in Key
        BY <1>8, KeyIsTyped DEF FlightDelete, At
    <2>2. ControlTypes'
        BY <1>8, <2>1, ConnStays
           DEF FlightDelete, At, Goto, ConnPC, Holding, Killing, Unregister
    <2>3. DataTypes'
        BY <1>8, <2>1 DEF FlightDelete, TypeOK, DataTypes, Unregister
    <2>4. QED
        BY <2>2, <2>3 DEF TypeOK
<1>9. ASSUME NEW c \in Conn, StartRefused(c) PROVE TypeOK'
    <2>1. pc[c] # "new" /\ KeyOf(c) \in Key
        BY <1>9, KeyIsTyped DEF StartRefused, At
    <2>2. ControlTypes'
        BY <1>9, <2>1, ConnStays DEF StartRefused, At, Goto, ConnPC, Holding, Killing
    <2>3. DataTypes'
        BY <1>9, <2>1 DEF StartRefused, TypeOK, DataTypes
    <2>4. QED
        BY <2>2, <2>3 DEF TypeOK
<1>10. ASSUME NEW c \in Conn, StartFails(c) PROVE TypeOK'
    <2>1. pc[c] # "new" /\ KeyOf(c) \in Key /\ ses[c] \in Session /\ pc[c] \in Holding
        BY <1>10, KeyIsTyped, HolderHolds, Actors DEF StartFails, At, Holding
    <2>2. ControlTypes'
        BY <1>10, <2>1, ConnStays DEF StartFails, At, Goto, ConnPC, Holding, Killing
    <2>3. DataTypes'
        BY <1>10, <2>1 DEF StartFails, TypeOK, DataTypes
    <2>4. QED
        BY <2>2, <2>3 DEF TypeOK
<1>11. ASSUME NEW c \in Conn, Register(c) PROVE TypeOK'
    <2>1. pc[c] # "new" /\ KeyOf(c) \in Key /\ ses[c] \in Session /\ pc[c] \in Holding
        BY <1>11, KeyIsTyped, HolderHolds, Actors DEF Register, At, Holding
    <2>2. ControlTypes'
        BY <1>11, <2>1, ConnStays DEF Register, At, Goto, ConnPC, Holding, Killing
    <2>3. DataTypes'
        BY <1>11, <2>1 DEF Register, TypeOK, DataTypes, ControlTypes, Request
    <2>4. QED
        BY <2>2, <2>3 DEF TypeOK
<1>12. ASSUME NEW c \in Conn, CheckStale(c) PROVE TypeOK'
    <2>1. pc[c] # "new" /\ KeyOf(c) \in Key /\ ses[c] \in Session /\ pc[c] \in Holding
        BY <1>12, KeyIsTyped, HolderHolds, Actors DEF CheckStale, At, Holding
    <2>2. ControlTypes'
        BY <1>12, <2>1, ConnStays DEF CheckStale, At, Goto, ConnPC, Holding, Killing
    <2>3. DataTypes'
        BY <1>12, <2>1 DEF CheckStale, TypeOK, DataTypes
    <2>4. QED
        BY <2>2, <2>3 DEF TypeOK
<1>13. ASSUME NEW c \in Conn, Proceed(c) PROVE TypeOK'
    <2>1. pc[c] # "new" /\ KeyOf(c) \in Key /\ ses[c] \in Session /\ pc[c] \in Holding
        BY <1>13, KeyIsTyped, HolderHolds, Actors DEF Proceed, At, Holding
    <2>2. ControlTypes'
        BY <1>13, <2>1, ConnStays DEF Proceed, At, Goto, ConnPC, Holding, Killing
    <2>3. DataTypes'
        BY <1>13, <2>1 DEF Proceed, TypeOK, DataTypes
    <2>4. QED
        BY <2>2, <2>3 DEF TypeOK
<1>14. ASSUME NEW c \in Conn, RestartStale(c) PROVE TypeOK'
    <2>1. pc[c] # "new" /\ KeyOf(c) \in Key /\ ses[c] \in Session /\ pc[c] \in Holding
        BY <1>14, KeyIsTyped, HolderHolds, Actors DEF RestartStale, At, Holding
    <2>2. ControlTypes'
        BY <1>14, <2>1, ConnStays DEF RestartStale, At, Goto, ConnPC, Holding, Killing
    <2>3. DataTypes'
        BY <1>14, <2>1 DEF RestartStale, TypeOK, DataTypes
    <2>4. QED
        BY <2>2, <2>3 DEF TypeOK
<1>15. ASSUME NEW c \in Conn, Acquire(c) PROVE TypeOK'
    <2>1. pc[c] # "new" /\ KeyOf(c) \in Key /\ ses[c] \in Session /\ pc[c] \in Holding
        BY <1>15, KeyIsTyped, HolderHolds, Actors DEF Acquire, At, Holding
    <2>2. ControlTypes'
        BY <1>15, <2>1, ConnStays DEF Acquire, At, Goto, ConnPC, Holding, Killing
    <2>3. DataTypes'
        BY <1>15, <2>1 DEF Acquire, TypeOK, DataTypes
    <2>4. QED
        BY <2>2, <2>3 DEF TypeOK
<1>16. ASSUME NEW c \in Conn, AcquireDead(c) PROVE TypeOK'
    <2>1. pc[c] # "new" /\ KeyOf(c) \in Key /\ ses[c] \in Session /\ pc[c] \in Holding
        BY <1>16, KeyIsTyped, HolderHolds, Actors DEF AcquireDead, At, Holding
    <2>2. ControlTypes'
        BY <1>16, <2>1, ConnStays
           DEF AcquireDead, At, Goto, ConnPC, Holding, Killing, Conclude
    <2>3. DataTypes'
        BY <1>16, <2>1 DEF AcquireDead, TypeOK, DataTypes, Conclude
    <2>4. QED
        BY <2>2, <2>3 DEF TypeOK
<1>17. ASSUME NEW c \in Conn, AcquireCancelled(c) PROVE TypeOK'
    <2>1. pc[c] # "new" /\ KeyOf(c) \in Key /\ ses[c] \in Session /\ pc[c] \in Holding
        BY <1>17, KeyIsTyped, HolderHolds, Actors DEF AcquireCancelled, At, Holding
    <2>2. ControlTypes'
        BY <1>17, <2>1, ConnStays
           DEF AcquireCancelled, At, Goto, ConnPC, Holding, Killing, Conclude
    <2>3. DataTypes'
        BY <1>17, <2>1 DEF AcquireCancelled, TypeOK, DataTypes, Conclude
    <2>4. QED
        BY <2>2, <2>3 DEF TypeOK
<1>18. ASSUME NEW c \in Conn, Write(c) \/ WriteFails(c) PROVE TypeOK'
    <2>1. pc[c] # "new" /\ KeyOf(c) \in Key /\ ses[c] \in Session /\ pc[c] \in Holding
        BY <1>18, KeyIsTyped, HolderHolds, Actors DEF Write, WriteFails, Release, At, Holding
    <2>2. ControlTypes'
        BY <1>18, <2>1, ConnStays
           DEF Write, WriteFails, Release, At, Goto, ConnPC, Holding, Killing, Conclude
    <2>3. DataTypes'
        BY <1>18, <2>1 DEF Write, WriteFails, Release, TypeOK, DataTypes, Conclude
    <2>4. QED
        BY <2>2, <2>3 DEF TypeOK
<1>19. ASSUME NEW c \in Conn, EvalReturns(c) PROVE TypeOK'
    <2>1. pc[c] # "new" /\ KeyOf(c) \in Key /\ ses[c] \in Session /\ pc[c] \in Holding
        BY <1>19, KeyIsTyped, HolderHolds, Actors DEF EvalReturns, At, Holding
    <2>2. ControlTypes'
        BY <1>19, <2>1, ConnStays
           DEF EvalReturns, At, Goto, ConnPC, Holding, Killing, Conclude, Release
    <2>3. DataTypes'
        BY <1>19, <2>1 DEF EvalReturns, TypeOK, DataTypes, Conclude, Release
    <2>4. QED
        BY <2>2, <2>3 DEF TypeOK
<1>20. ASSUME NEW c \in Conn, EvalDies(c) PROVE TypeOK'
    <2>1. pc[c] # "new" /\ KeyOf(c) \in Key /\ ses[c] \in Session /\ pc[c] \in Holding
        BY <1>20, KeyIsTyped, HolderHolds, Actors DEF EvalDies, At, Holding
    <2>2. ControlTypes'
        BY <1>20, <2>1, ConnStays
           DEF EvalDies, At, Goto, ConnPC, Holding, Killing, Conclude, Release
    <2>3. DataTypes'
        BY <1>20, <2>1 DEF EvalDies, TypeOK, DataTypes, Conclude, Release
    <2>4. QED
        BY <2>2, <2>3 DEF TypeOK
<1>21. ASSUME NEW c \in Conn, GraceKill(c) PROVE TypeOK'
    <2>1. ses[c] \in Session
        BY <1>21, Actors DEF GraceKill, TypeOK, ControlTypes
    <2>2. ControlTypes'
        BY <1>21 DEF GraceKill, TypeOK, ControlTypes
    <2>3. DataTypes'
        BY <1>21, <2>1 DEF GraceKill, TypeOK, DataTypes
    <2>4. QED
        BY <2>2, <2>3 DEF TypeOK
<1>22. ASSUME NEW c \in Conn, Remove(c) PROVE TypeOK'
    <2>1. pc[c] # "new" /\ KeyOf(c) \in Key /\ ses[c] \in Session /\ pc[c] \in Holding
        BY <1>22, KeyIsTyped, HolderHolds, Actors DEF Remove, At, Holding
    <2>2. ControlTypes'
        BY <1>22, <2>1, ConnStays DEF Remove, At, Goto, ConnPC, Holding, Killing, Unregister
    <2>3. DataTypes'
        BY <1>22, <2>1 DEF Remove, TypeOK, DataTypes, Unregister
    <2>4. QED
        BY <2>2, <2>3 DEF TypeOK
<1>23. ASSUME NEW c \in Conn, RecordError(c) PROVE TypeOK'
    <2>1. pc[c] # "new" /\ KeyOf(c) \in Key /\ ses[c] \in Session /\ pc[c] \in Holding
        BY <1>23, KeyIsTyped, HolderHolds, Actors DEF RecordError, At, Holding
    <2>2. ControlTypes'
        BY <1>23, <2>1, ConnStays DEF RecordError, At, Goto, ConnPC, Holding, Killing
    <2>3. DataTypes'
        BY <1>23, <2>1 DEF RecordError, TypeOK, DataTypes
    <2>4. QED
        BY <2>2, <2>3 DEF TypeOK
<1>24. ASSUME NEW c \in Conn, Close(c) PROVE TypeOK'
    <2>1. pc[c] # "new" /\ KeyOf(c) \in Key
        BY <1>24, KeyIsTyped DEF Close, At
    <2>2. ControlTypes'
        <3> DEFINE s == sessions[KeyOf(c)]
                   l == IF s = NoSession THEN "done" ELSE "closeKill"
        <3>1. pc' = [pc EXCEPT ![c] = l] /\ ses' = [ses EXCEPT ![c] = s] /\ req' = req
            BY <1>24 DEF Close, Goto, TakeOut
        <3>2. l \in ConnPC \ {"target"} /\ (l \in Holding => s # NoSession)
            BY DEF ConnPC, Holding, Killing
        <3>3. s \in Session \cup {NoSession}
            BY <2>1, KeyIsTyped
        <3> HIDE DEF s, l
        <3>4. QED
            BY <2>1, <3>1, <3>2, <3>3, ConnGoes
    <2>3. DataTypes'
        BY <1>24, <2>1 DEF Close, TypeOK, DataTypes, TakeOut, Unregister, ForgetError
    <2>4. QED
        BY <2>2, <2>3 DEF TypeOK
<1>25. ASSUME NEW c \in Conn, Free(c) PROVE TypeOK'
    <2>1. pc[c] # "new" /\ KeyOf(c) \in Key
        BY <1>25, KeyIsTyped DEF Free, At
    <2>2. ControlTypes'
        BY <1>25, <2>1, ConnStays DEF Free, At, Goto, ConnPC, Holding, Killing
    <2>3. DataTypes'
        BY <1>25, <2>1 DEF Free, TypeOK, DataTypes
    <2>4. QED
        BY <2>2, <2>3 DEF TypeOK
<1>26. ASSUME NEW c \in Conn, Interrupt(c) PROVE TypeOK'
    <2>1. pc[c] # "new" /\ KeyOf(c) \in Key
        BY <1>26, KeyIsTyped DEF Interrupt, At
    <2>2. ControlTypes'
        <3> DEFINE s == sessions[KeyOf(c)]
        <3>1. PICK l \in ConnPC \ {"target"} :
                 /\ pc' = [pc EXCEPT ![c] = l]
                 /\ \/ ses' = [ses EXCEPT ![c] = s] /\ (l \in Holding => s # NoSession)
                    \/ ses' = ses /\ l \notin Holding
            BY <1>26 DEF Interrupt, Goto, ConnPC, Holding, Killing
        <3>2. s \in Session \cup {NoSession} /\ req' = req
            BY <1>26, <2>1, KeyIsTyped DEF Interrupt
        <3>3. QED
            BY <2>1, <3>1, <3>2, ConnGoes
    <2>3. DataTypes'
        BY <1>26, <2>1 DEF Interrupt, TypeOK, DataTypes
    <2>4. QED
        BY <2>2, <2>3 DEF TypeOK
<1>27. ASSUME NEW c \in Conn, InterruptSeen(c) PROVE TypeOK'
    <2>1. pc[c] # "new" /\ KeyOf(c) \in Key /\ ses[c] \in Session /\ pc[c] \in Holding
        BY <1>27, KeyIsTyped, HolderHolds, Actors DEF InterruptSeen, At, Holding
    <2>2. ControlTypes'
        BY <1>27, <2>1, ConnStays DEF InterruptSeen, At, Goto, ConnPC, Holding, Killing
    <2>3. DataTypes'
        BY <1>27, <2>1 DEF InterruptSeen, TypeOK, DataTypes
    <2>4. QED
        BY <2>2, <2>3 DEF TypeOK
<1>28. ASSUME NEW c \in Conn, InterruptKill(c) PROVE TypeOK'
    <2>1. pc[c] # "new" /\ KeyOf(c) \in Key /\ ses[c] \in Session /\ pc[c] \in Holding
        BY <1>28, KeyIsTyped, HolderHolds, Actors DEF InterruptKill, At, Holding
    <2>2. ControlTypes'
        BY <1>28, <2>1, ConnStays DEF InterruptKill, At, Goto, ConnPC, Holding, Killing
    <2>3. DataTypes'
        BY <1>28, <2>1 DEF InterruptKill, TypeOK, DataTypes
    <2>4. QED
        BY <2>2, <2>3 DEF TypeOK
<1>29. ASSUME NEW c \in Conn, InterruptDelete(c) PROVE TypeOK'
    <2>1. pc[c] # "new" /\ KeyOf(c) \in Key
        BY <1>29, KeyIsTyped DEF InterruptDelete, At
    <2>2. ControlTypes'
        BY <1>29, <2>1, ConnStays
           DEF InterruptDelete, At, Goto, ConnPC, Holding, Killing, Unregister
    <2>3. DataTypes'
        BY <1>29, <2>1 DEF InterruptDelete, TypeOK, DataTypes, Unregister
    <2>4. QED
        BY <2>2, <2>3 DEF TypeOK
<1>30. ASSUME NEW c \in Conn, Start(c) PROVE TypeOK'
    <2>1. pc[c] # "new" /\ made + 1 \in Session /\ made + 1 # NoSession
        BY <1>30, BoundIsNat DEF Start, At, TypeOK, DataTypes, Session, NoSession
    <2>2. ControlTypes'
        BY <1>30, <2>1, ConnGoes DEF Start, Goto, ConnPC, Holding, Killing
    <2>3. DataTypes'
        BY <1>30, <2>1, BoundIsNat DEF Start, TypeOK, DataTypes, Session
    <2>4. QED
        BY <2>2, <2>3 DEF TypeOK
<1>31. ASSUME NEW c \in Conn, Finish(c) PROVE TypeOK'
    <2>1. pc[c] = "finish" /\ ses[c] \in Session \cup {NoSession} /\ KeyOf(c) \in Key
        BY <1>31, KeyIsTyped, Actors DEF Finish, ShareResult, At, TypeOK, ControlTypes
    <2>2. \A q \in Callers(c) : q \in Conn /\ pc[q] \in {"finish", "wait"}
        BY <2>1 DEF Callers
    <2>3. \A a \in Actor : \/ pc'[a] = pc[a] /\ ses'[a] = ses[a]
                          \/ /\ a \in Callers(c) /\ ses'[a] = ses[c]
                             /\ pc'[a] = IF ses[c] = NoSession THEN "done" ELSE "got"
        BY <1>31 DEF Finish, ShareResult
    <2>4. pc' \in [Actor -> ConnPC \cup ReaperPC \cup MainPC] /\ ses' \in [Actor -> Session \cup {NoSession}]
        BY <1>31, <2>1 DEF Finish, ShareResult, TypeOK, ControlTypes, ConnPC
    <2>5. ControlTypes'
        BY <1>31, <2>2, <2>3, <2>4, Actors
           DEF Finish, ShareResult, TypeOK, ControlTypes, ConnPC, Holding, Killing
    <2>6. DataTypes'
        BY <1>31, <2>1 DEF Finish, ShareResult, TypeOK, DataTypes
    <2>7. QED
        BY <2>5, <2>6 DEF TypeOK
<1>32. ASSUME NEW c \in Conn, Target(c) PROVE TypeOK'
    <2>1. req[c] \in Request /\ req[c].op \in TargetOps
        BY <1>32 DEF Target, At, TypeOK, ControlTypes
    <2>2. PICK l \in TargetOps \cup {"done"} : pc' = [pc EXCEPT ![c] = l]
        BY <1>32, <2>1 DEF Target, Goto
    <2>3. \/ req' = req
          \/ \E k \in Key : req' = [req EXCEPT ![c] = [req[c] EXCEPT !.key = k]]
        BY <1>32 DEF Target
    <2>4. \A k \in Key : [req[c] EXCEPT !.key = k] \in Request
        BY <2>1 DEF Request
    <2>5. l \in ConnPC \ {"target"} /\ l \notin Holding /\ UNCHANGED ses
        BY <1>32, <2>2 DEF Target, TargetOps, ConnPC, Holding, Killing
    <2>6. ControlTypes'
        BY <2>1, <2>2, <2>3, <2>4, <2>5, Actors DEF TypeOK, ControlTypes
    <2>7. DataTypes'
        BY <1>32 DEF Target, TypeOK, DataTypes
    <2>8. QED
        BY <2>6, <2>7 DEF TypeOK
<1>33. ASSUME NEW a \in Actor, KillMark(a) PROVE TypeOK'
    <2>1. ses[a] \in Session
        BY <1>33, HolderHolds DEF KillMark, Holding
    <2>2. QED
        BY <1>33, <2>1 DEF KillMark, TypeOK, DataTypes, ControlTypes
<1>34. ASSUME NEW a \in Actor, KillReap(a) PROVE TypeOK'
    <2>1. ses[a] \in Session /\ pc[a] \in Killing
        BY <1>34, HolderHolds DEF KillReap, Holding
    <2>2. DataTypes'
        BY <1>34, <2>1 DEF KillReap, TypeOK, DataTypes
    <2>3. pc' = [pc EXCEPT ![a] = AfterKill(pc[a])] /\ ses' = [ses EXCEPT ![a] = NoSession] /\ req' = req
        BY <1>34 DEF KillReap, Goto
    <2>4. CASE a \in Conn
        <3>1. pc[a] # "new" /\ AfterKill(pc[a]) \in ConnPC \ {"target"} /\ AfterKill(pc[a]) \notin Holding
            BY <2>1, <2>4, KillingPCs DEF TypeOK, ControlTypes
        <3> DEFINE l == AfterKill(pc[a])
        <3>2. l \in ConnPC \ {"target"} /\ l \notin Holding /\ pc' = [pc EXCEPT ![a] = l]
            BY <2>3, <3>1
        <3> DEFINE n == NoSession
        <3>3. n \in Session \cup {NoSession} /\ ses' = [ses EXCEPT ![a] = n]
            BY <2>3
        <3> HIDE DEF l, n
        <3>4. QED
            BY <2>2, <2>3, <2>4, <3>1, <3>2, <3>3, ConnGoes DEF TypeOK
    <2>5. CASE a \in {Reaper, Main}
        <3>1. AfterKill(pc[a]) \in IF a = Reaper THEN ReaperPC ELSE MainPC
            BY <2>1, <2>5, KillingPCs DEF TypeOK, ControlTypes
        <3>2. AfterKill(pc[a]) \notin Holding
            BY <2>1, KillingPCs
        <3> DEFINE l == AfterKill(pc[a])
        <3>3. pc' = [pc EXCEPT ![a] = l]
            BY <2>3
        <3> DEFINE n == NoSession
        <3>4. n \in Session \cup {NoSession} /\ ses' = [ses EXCEPT ![a] = n]
            BY <2>3
        <3> HIDE DEF l, n
        <3>5. l \in (IF a = Reaper THEN ReaperPC ELSE MainPC) /\ l \notin Holding
            BY <3>1, <3>2 DEF l
        <3>6. QED
            BY <2>2, <2>3, <2>5, <3>3, <3>4, <3>5, LoopGoes DEF TypeOK
    <2>6. QED
        BY <2>2, <2>4, <2>5 DEF TypeOK, Actor
<1>35. ASSUME Scan PROVE TypeOK'
    <2>1. ControlTypes'
        BY <1>35, LoopGoes, NullSession, Actors, ActorsDistinct
           DEF Scan, At, Goto, TypeOK, ControlTypes, DataTypes, ReaperPC, Holding, Killing
    <2>2. DataTypes'
        BY <1>35 DEF Scan, TypeOK, DataTypes
    <2>3. QED
        BY <2>1, <2>2 DEF TypeOK
<1>36. ASSUME NEW k \in Key, Reap(k) PROVE TypeOK'
    <2>1. ControlTypes'
        BY <1>36, LoopGoes, NullSession, Actors, ActorsDistinct
           DEF Reap, At, Goto, TypeOK, ControlTypes, DataTypes, ReaperPC, Holding,
               Killing, TakeOut, Unregister, ForgetError
    <2>2. DataTypes'
        BY <1>36 DEF Reap, TypeOK, DataTypes, TakeOut, Unregister, ForgetError
    <2>3. QED
        BY <2>1, <2>2 DEF TypeOK
<1>37. ASSUME Rest PROVE TypeOK'
    <2>1. ControlTypes'
        BY <1>37, LoopGoes, NullSession, Actors, ActorsDistinct
           DEF Rest, At, Goto, TypeOK, ControlTypes, DataTypes, ReaperPC, Holding, Killing
    <2>2. DataTypes'
        BY <1>37 DEF Rest, TypeOK, DataTypes
    <2>3. QED
        BY <2>1, <2>2 DEF TypeOK
<1>38. ASSUME Stop PROVE TypeOK'
    <2>1. ControlTypes'
        BY <1>38, LoopGoes, NullSession, Actors, ActorsDistinct
           DEF Stop, At, Goto, TypeOK, ControlTypes, DataTypes, MainPC, Holding, Killing
    <2>2. DataTypes'
        BY <1>38 DEF Stop, TypeOK, DataTypes
    <2>3. QED
        BY <2>1, <2>2 DEF TypeOK
<1>39. ASSUME Shutdown PROVE TypeOK'
    <2>1. ControlTypes'
        BY <1>39, LoopGoes, NullSession, Actors, ActorsDistinct
           DEF Shutdown, At, Goto, TypeOK, ControlTypes, DataTypes, MainPC, Holding, Killing
    <2>2. DataTypes'
        BY <1>39 DEF Shutdown, TypeOK, DataTypes
    <2>3. QED
        BY <2>1, <2>2 DEF TypeOK
<1>40. ASSUME NEW s \in Session, ShutdownNext(s) PROVE TypeOK'
    <2>1. ControlTypes'
        BY <1>40, LoopGoes, NullSession, Actors, ActorsDistinct
           DEF ShutdownNext, At, Goto, TypeOK, ControlTypes, DataTypes, MainPC, Holding,
               Killing
    <2>2. DataTypes'
        BY <1>40 DEF ShutdownNext, TypeOK, DataTypes
    <2>3. QED
        BY <2>1, <2>2 DEF TypeOK
<1>41. ASSUME Exit PROVE TypeOK'
    <2>1. ControlTypes'
        BY <1>41, LoopGoes, NullSession, Actors, ActorsDistinct
           DEF Exit, At, Goto, TypeOK, ControlTypes, DataTypes, MainPC, Holding, Killing
    <2>2. DataTypes'
        BY <1>41 DEF Exit, TypeOK, DataTypes
    <2>3. QED
        BY <2>1, <2>2 DEF TypeOK
<1>42. ASSUME NEW s \in Session, Crash(s) PROVE TypeOK'
    BY <1>42 DEF Crash, TypeOK, DataTypes, ControlTypes
<1>43. ASSUME NEW o \in Owner, OwnerExits(o) PROVE TypeOK'
    BY <1>43 DEF OwnerExits, TypeOK, DataTypes, ControlTypes
<1>44. CASE UNCHANGED vars
    BY <1>44 DEF vars, TypeOK, DataTypes, ControlTypes
<1>45. QED
    BY <1>1, <1>2, <1>3, <1>4, <1>5, <1>6, <1>7, <1>8, <1>9, <1>10, <1>11, <1>12, <1>13,
       <1>14, <1>15, <1>16, <1>17, <1>18, <1>19, <1>20, <1>21, <1>22, <1>23, <1>24,
       <1>25, <1>26, <1>27, <1>28, <1>29, <1>30, <1>31, <1>32, <1>33, <1>34, <1>35,
       <1>36, <1>37, <1>38, <1>39, <1>40, <1>41, <1>42, <1>43, <1>44
       DEF Next, HandlerStep, ClientStep, ReaperStep, MainStep, CreateStep, EvalStep,
           TargetStep,
           KillStep, Quiet, Actor

\* Every reachable state is well typed; a goroutine that uses its session has one.
THEOREM Typing == Spec => []TypeOK
    BY InitTypes, NextTypes, PTL DEF Spec
-----------------------------------------------------------------------------
(* Singleflight *)

\* Join and Finish keep the leader and the flight's entry together.
LEMMA LeaderNamedStep == TypeOK /\ LeaderIsNamed /\ [Next]_vars => LeaderIsNamed'
<1> SUFFICES ASSUME TypeOK /\ LeaderIsNamed, [Next]_vars PROVE LeaderIsNamed'
    OBVIOUS
<1> USE DEF Map, World, Local, Loops
<1>1. ASSUME NEW c \in Conn,
             RequireExisting(c) \/ HasLiveSession(c) \/ Restart(c) \/ FastPath(c) \/
             CheckStale(c) \/ Proceed(c) \/ RestartStale(c)
      PROVE LeaderIsNamed'
    BY <1>1, Actors
       DEF RequireExisting, HasLiveSession, Restart, Unregister, ForgetError, FastPath,
           CheckStale, Proceed, RestartStale, At, Goto, KeyOf, InFlight, TypeOK, ControlTypes,
           LeaderIsNamed
<1>2. ASSUME NEW c \in Conn,
             Acquire(c) \/ AcquireDead(c) \/ AcquireCancelled(c) \/ Write(c) \/ WriteFails(c) \/
             GraceKill(c)
      PROVE LeaderIsNamed'
    BY <1>2, Actors
       DEF Acquire, AcquireDead, Conclude, AcquireCancelled, Write, WriteFails, Release, GraceKill, At,
           Goto,
           KeyOf, InFlight, TypeOK, ControlTypes, LeaderIsNamed
<1>3. ASSUME NEW c \in Conn,
             EvalReturns(c) \/ EvalDies(c) \/ Remove(c) \/ RecordError(c) \/ Close(c) \/
             Free(c)
      PROVE LeaderIsNamed'
    BY <1>3, Actors
       DEF EvalReturns, Conclude, Release, EvalDies, Remove, Unregister, RecordError, Close,
           TakeOut, ForgetError, Free, At, Goto, KeyOf, InFlight, TypeOK, ControlTypes,
           LeaderIsNamed
<1>4. ASSUME NEW c \in Conn,
             Interrupt(c) \/ InterruptSeen(c) \/ InterruptKill(c) \/ InterruptDelete(c)
      PROVE LeaderIsNamed'
    BY <1>4, Actors
       DEF Interrupt, InterruptSeen, InterruptKill, InterruptDelete, Unregister, At, Goto,
           KeyOf, InFlight, TypeOK, ControlTypes, LeaderIsNamed
<1>5. ASSUME NEW c \in Conn, Target(c) PROVE LeaderIsNamed'
    BY <1>5, Actors
       DEF Target, At, Goto, KeyOf, InFlight, TypeOK, ControlTypes, LeaderIsNamed, TargetOps
<1>6. ASSUME NEW c \in Conn,
             Reread(c) \/ FlightDelete(c) \/ Start(c) \/ StartRefused(c) \/ StartFails(c) \/
             Register(c)
      PROVE LeaderIsNamed'
    BY <1>6, Actors
       DEF Reread, FlightDelete, Unregister, Start, StartRefused, StartFails, Register, At,
           Goto, KeyOf, InFlight, TypeOK, ControlTypes, LeaderIsNamed
<1>7. ASSUME NEW c \in Conn, Join(c) PROVE LeaderIsNamed'
    BY <1>7, Actors, NullsDistinct, KeyIsTyped
       DEF Join, At, Goto, KeyOf, InFlight, TypeOK, ControlTypes, LeaderIsNamed, DataTypes
<1>8. ASSUME NEW c \in Conn, Finish(c) PROVE LeaderIsNamed'
    BY <1>8, Actors
       DEF Finish, ShareResult, Callers, At, Goto, KeyOf, InFlight, TypeOK, ControlTypes,
           LeaderIsNamed
<1>9. ASSUME NEW c \in Conn, NEW op \in Ops, NEW k \in Key, NEW id \in Session \cup {NoSession},
             NEW o \in Owner \cup {NoOwner}, Arrive(c, op, k, id, o)
      PROVE LeaderIsNamed'
    <2>1. (IF id = NoSession THEN FirstStep(op) ELSE "target") \notin InFlight
        BY OpsKnown DEF FirstStep, EvalOps, TargetOps, InFlight
    <2>2. QED
        BY <1>9, <2>1, Actors
           DEF Arrive, At, Goto, KeyOf, TypeOK, ControlTypes, LeaderIsNamed
<1>10. ASSUME NEW a \in Actor, KillReap(a) PROVE LeaderIsNamed'
    <2>1. AfterKill(pc[a]) \in InFlight => pc[a] \in InFlight
        BY <1>10 DEF KillReap, Killing, AfterKill, InFlight
    <2>2. QED
        BY <1>10, <2>1, Actors
           DEF KillReap, Goto, KeyOf, TypeOK, ControlTypes, LeaderIsNamed
<1>11. ASSUME NEW a \in Actor, KillMark(a) PROVE LeaderIsNamed'
    BY <1>11, Actors
       DEF KillMark, At, Goto, KeyOf, InFlight, TypeOK, ControlTypes, LeaderIsNamed
<1>12. ASSUME NEW k \in Key, Reap(k) PROVE LeaderIsNamed'
    BY <1>12, Actors
       DEF Reap, TakeOut, Unregister, ForgetError, At, Goto, KeyOf, InFlight, TypeOK,
           ControlTypes, LeaderIsNamed
<1>13. ASSUME NEW s \in Session, ShutdownNext(s) PROVE LeaderIsNamed'
    BY <1>13, Actors
       DEF ShutdownNext, At, Goto, KeyOf, InFlight, TypeOK, ControlTypes, LeaderIsNamed
<1>14. ASSUME NEW s \in Session, Crash(s) PROVE LeaderIsNamed'
    BY <1>14, Actors
       DEF Crash, At, Goto, KeyOf, InFlight, TypeOK, ControlTypes, LeaderIsNamed
<1>15. ASSUME NEW o \in Owner, OwnerExits(o) PROVE LeaderIsNamed'
    BY <1>15, Actors
       DEF OwnerExits, At, Goto, KeyOf, InFlight, TypeOK, ControlTypes, LeaderIsNamed
<1>16. ASSUME Scan \/ Rest \/ Stop \/ Shutdown \/ Exit PROVE LeaderIsNamed'
    BY <1>16, Actors
       DEF Scan, Rest, Stop, Shutdown, Exit, At, Goto, KeyOf, InFlight, TypeOK,
           ControlTypes,
           LeaderIsNamed
<1>17. CASE UNCHANGED vars
    BY <1>17, Actors
       DEF vars, At, Goto, KeyOf, InFlight, TypeOK, ControlTypes, LeaderIsNamed
<1>18. QED
    BY <1>1, <1>2, <1>3, <1>4, <1>5, <1>6, <1>7, <1>8, <1>9, <1>10, <1>11, <1>12, <1>13,
       <1>14,
       <1>15, <1>16, <1>17
       DEF Next, HandlerStep, ClientStep, ReaperStep, MainStep, CreateStep, EvalStep,
           TargetStep,
           KillStep, Quiet, Actor

\* Only the leader registers, so nobody fills the key while it creates.
LEMMA LeaderOwnsStep ==
    TypeOK /\ LeaderIsNamed /\ LeaderOwnsKey /\ OnlyMade /\ [Next]_vars
    => LeaderOwnsKey'
<1> SUFFICES ASSUME TypeOK /\ LeaderIsNamed /\ LeaderOwnsKey /\ OnlyMade, [Next]_vars PROVE LeaderOwnsKey'
    OBVIOUS
<1> USE DEF Map, World, Local, Loops
<1>1. ASSUME NEW c \in Conn,
             RequireExisting(c) \/ HasLiveSession(c) \/ FastPath(c) \/ Join(c) \/
             CheckStale(c) \/ Proceed(c) \/ RestartStale(c)
      PROVE LeaderOwnsKey'
    BY <1>1, Actors
       DEF RequireExisting, HasLiveSession, FastPath, Join, CheckStale, Proceed,
           RestartStale,
           At, Goto, KeyOf, Running, TypeOK, ControlTypes, DataTypes, LeaderOwnsKey
<1>2. ASSUME NEW c \in Conn,
             Restart(c) \/ FlightDelete(c) \/ Remove(c) \/ Close(c) \/ InterruptDelete(c)
      PROVE LeaderOwnsKey'
    BY <1>2, Actors, KeyIsTyped
       DEF Restart, Unregister, ForgetError, FlightDelete, Remove, Close, TakeOut,
           InterruptDelete, At, Goto, KeyOf, Running, TypeOK, ControlTypes, DataTypes,
           LeaderOwnsKey
<1>3. ASSUME NEW c \in Conn,
             Acquire(c) \/ AcquireDead(c) \/ AcquireCancelled(c) \/ Write(c) \/ WriteFails(c)
      PROVE LeaderOwnsKey'
    BY <1>3, Actors
       DEF Acquire, AcquireDead, Conclude, AcquireCancelled, Write, WriteFails, Release, At, Goto, KeyOf,
           Running, TypeOK, ControlTypes, DataTypes, LeaderOwnsKey
<1>4. ASSUME NEW c \in Conn,
             GraceKill(c) \/ InterruptKill(c)
      PROVE LeaderOwnsKey'
    BY <1>4, Actors, KeyIsTyped, NullSession
       DEF GraceKill, InterruptKill, At, Goto, KeyOf, Running, TypeOK, ControlTypes,
           DataTypes,
           LeaderOwnsKey
<1>5. ASSUME NEW c \in Conn,
             EvalReturns(c) \/ EvalDies(c) \/ RecordError(c) \/ Free(c)
      PROVE LeaderOwnsKey'
    BY <1>5, Actors
       DEF EvalReturns, Conclude, Release, EvalDies, RecordError, Free, At, Goto, KeyOf,
           Running, TypeOK, ControlTypes, DataTypes, LeaderOwnsKey
<1>6. ASSUME NEW c \in Conn,
             Interrupt(c) \/ InterruptSeen(c)
      PROVE LeaderOwnsKey'
    BY <1>6, Actors
       DEF Interrupt, InterruptSeen, At, Goto, KeyOf, Running, TypeOK, ControlTypes,
           DataTypes,
           LeaderOwnsKey
<1>7. ASSUME NEW c \in Conn, Target(c) PROVE LeaderOwnsKey'
    BY <1>7, Actors
       DEF Target, At, Goto, KeyOf, Running, TypeOK, ControlTypes, DataTypes, LeaderOwnsKey,
           TargetOps
<1>8. ASSUME NEW c \in Conn, Reread(c) PROVE LeaderOwnsKey'
    BY <1>8, Actors, KeyIsTyped
       DEF Reread, At, Goto, KeyOf, Running, TypeOK, ControlTypes, DataTypes, LeaderOwnsKey
<1>9. ASSUME NEW c \in Conn, Start(c) PROVE LeaderOwnsKey'
    BY <1>9, Actors, KeyIsTyped, NullSession, BoundIsNat
       DEF Start, At, Goto, KeyOf, Running, TypeOK, ControlTypes, DataTypes, LeaderOwnsKey,
           OnlyMade, Session
<1>10. ASSUME NEW c \in Conn,
             StartRefused(c) \/ StartFails(c)
      PROVE LeaderOwnsKey'
    BY <1>10, Actors
       DEF StartRefused, StartFails, At, Goto, KeyOf, Running, TypeOK, ControlTypes,
           DataTypes,
           LeaderOwnsKey
<1>11. ASSUME NEW c \in Conn, Register(c) PROVE LeaderOwnsKey'
    BY <1>11, Actors, KeyIsTyped
       DEF Register, At, Goto, KeyOf, Running, TypeOK, ControlTypes, DataTypes,
           LeaderOwnsKey,
           LeaderIsNamed, InFlight
<1>12. ASSUME NEW c \in Conn, Finish(c) PROVE LeaderOwnsKey'
    BY <1>12, Actors
       DEF Finish, ShareResult, Callers, At, Goto, KeyOf, Running, TypeOK, ControlTypes,
           DataTypes, LeaderOwnsKey
<1>13. ASSUME Shutdown PROVE LeaderOwnsKey'
    BY <1>13, Actors, KeyIsTyped
       DEF Shutdown, At, Goto, KeyOf, Running, TypeOK, ControlTypes, DataTypes,
           LeaderOwnsKey
<1>14. ASSUME NEW c \in Conn, NEW op \in Ops, NEW k \in Key, NEW id \in Session \cup {NoSession},
             NEW o \in Owner \cup {NoOwner}, Arrive(c, op, k, id, o)
      PROVE LeaderOwnsKey'
    <2>1. (IF id = NoSession THEN FirstStep(op) ELSE "target")
             \notin {"start", "starting", "startKill", "flightKill", "flightDelete"}
        BY OpsKnown DEF FirstStep, EvalOps, TargetOps
    <2>2. QED
        BY <1>14, <2>1, Actors
           DEF Arrive, At, Goto, KeyOf, Running, TypeOK, ControlTypes, LeaderOwnsKey
<1>15. ASSUME NEW a \in Actor, KillReap(a) PROVE LeaderOwnsKey'
    <2>1. /\ AfterKill(pc[a]) \notin {"start", "starting", "startKill", "flightKill"}
          /\ AfterKill(pc[a]) = "flightDelete" => pc[a] = "flightKill"
        BY <1>15 DEF KillReap, Killing, AfterKill
    <2>2. QED
        BY <1>15, <2>1, Actors, KeyIsTyped, NullSession
           DEF KillReap, Goto, KeyOf, Running, TypeOK, ControlTypes, DataTypes,
               LeaderOwnsKey
<1>16. ASSUME NEW a \in Actor, KillMark(a) PROVE LeaderOwnsKey'
    BY <1>16, Actors
       DEF KillMark, At, Goto, KeyOf, Running, TypeOK, ControlTypes, DataTypes,
           LeaderOwnsKey
<1>17. ASSUME NEW k \in Key, Reap(k) PROVE LeaderOwnsKey'
    BY <1>17, Actors
       DEF Reap, TakeOut, Unregister, ForgetError, At, Goto, KeyOf, Running, TypeOK,
           ControlTypes, DataTypes, LeaderOwnsKey
<1>18. ASSUME NEW s \in Session, ShutdownNext(s) PROVE LeaderOwnsKey'
    BY <1>18, Actors
       DEF ShutdownNext, At, Goto, KeyOf, Running, TypeOK, ControlTypes, DataTypes,
           LeaderOwnsKey
<1>19. ASSUME NEW s \in Session, Crash(s) PROVE LeaderOwnsKey'
    BY <1>19, Actors
       DEF Crash, At, Goto, KeyOf, Running, TypeOK, ControlTypes, DataTypes, LeaderOwnsKey
<1>20. ASSUME NEW o \in Owner, OwnerExits(o) PROVE LeaderOwnsKey'
    BY <1>20, Actors
       DEF OwnerExits, At, Goto, KeyOf, Running, TypeOK, ControlTypes, DataTypes,
           LeaderOwnsKey
<1>21. ASSUME Scan \/ Rest \/ Stop \/ Exit PROVE LeaderOwnsKey'
    BY <1>21, Actors
       DEF Scan, Rest, Stop, Exit, At, Goto, KeyOf, Running, TypeOK, ControlTypes,
           DataTypes,
           LeaderOwnsKey
<1>22. CASE UNCHANGED vars
    BY <1>22, Actors
       DEF vars, At, Goto, KeyOf, Running, TypeOK, ControlTypes, DataTypes,
           LeaderOwnsKey
<1>23. QED
    BY <1>1, <1>2, <1>3, <1>4, <1>5, <1>6, <1>7, <1>8, <1>9, <1>10, <1>11, <1>12, <1>13,
       <1>14,
       <1>15, <1>16, <1>17, <1>18, <1>19, <1>20, <1>21, <1>22
       DEF Next, HandlerStep, ClientStep, ReaperStep, MainStep, CreateStep, EvalStep,
           TargetStep,
           KillStep, Quiet, Actor

\* Session numbers come from newSession alone.
LEMMA OnlyMadeStep == TypeOK /\ OnlyMade /\ [Next]_vars => OnlyMade'
<1> SUFFICES ASSUME TypeOK /\ OnlyMade, [Next]_vars PROVE OnlyMade'
    OBVIOUS
<1> USE DEF Map, World, Local, Loops
<1>1. ASSUME NEW c \in Conn,
             RequireExisting(c) \/ HasLiveSession(c) \/ Join(c) \/ StartRefused(c) \/
             StartFails(c) \/ CheckStale(c) \/ Proceed(c) \/ RestartStale(c)
      PROVE OnlyMade'
    BY <1>1, Actors, BoundIsNat, KeyIsTyped
       DEF RequireExisting, HasLiveSession, Join, StartRefused, StartFails, CheckStale,
           Proceed, RestartStale, At, Goto, NoSession, TypeOK, ControlTypes, DataTypes,
           OnlyMade
<1>2. ASSUME NEW c \in Conn,
             Restart(c) \/ FlightDelete(c)
      PROVE OnlyMade'
    BY <1>2, Actors, BoundIsNat, KeyIsTyped
       DEF Restart, Unregister, ForgetError, FlightDelete, At, Goto, NoSession, TypeOK,
           ControlTypes, DataTypes, OnlyMade
<1>3. ASSUME NEW c \in Conn,
             FastPath(c) \/ Reread(c)
      PROVE OnlyMade'
    BY <1>3, Actors, BoundIsNat, KeyIsTyped
       DEF FastPath, Reread, At, Goto, NoSession, TypeOK, ControlTypes, DataTypes, OnlyMade
<1>4. ASSUME NEW c \in Conn, Register(c) PROVE OnlyMade'
    BY <1>4, Actors, BoundIsNat, KeyIsTyped
       DEF Register, At, Goto, NoSession, TypeOK, ControlTypes, DataTypes, OnlyMade
<1>5. ASSUME NEW c \in Conn,
             Acquire(c) \/ AcquireDead(c) \/ AcquireCancelled(c) \/ Write(c) \/ WriteFails(c) \/
             GraceKill(c) \/ EvalReturns(c) \/ EvalDies(c) \/ Remove(c) \/ RecordError(c) \/
             Close(c) \/ Free(c) \/ Target(c)
      PROVE OnlyMade'
    BY <1>5, Actors, BoundIsNat, KeyIsTyped
       DEF Acquire, AcquireDead, Conclude, AcquireCancelled, Write, WriteFails, GraceKill,
           EvalReturns, Release, EvalDies, Remove, Unregister, RecordError, Close, TakeOut,
           ForgetError, Free, Target, At, Goto, NoSession, TypeOK, ControlTypes, DataTypes,
           OnlyMade
<1>6. ASSUME NEW c \in Conn,
             Interrupt(c) \/ InterruptSeen(c) \/ InterruptKill(c) \/ InterruptDelete(c)
      PROVE OnlyMade'
    BY <1>6, Actors, BoundIsNat, KeyIsTyped
       DEF Interrupt, InterruptSeen, InterruptKill, InterruptDelete, Unregister, At, Goto,
           NoSession, TypeOK, ControlTypes, DataTypes, OnlyMade
<1>7. ASSUME NEW c \in Conn, Start(c) PROVE OnlyMade'
    <2>1. made \in Int /\ made' = made + 1 /\ UNCHANGED <<sessions, doomed>>
        BY <1>7, BoundIsNat DEF Start, TypeOK, DataTypes
    <2>2. ses' = [ses EXCEPT ![c] = made + 1] /\ ses \in [Actor -> Session \cup {NoSession}]
        BY <1>7 DEF Start, TypeOK, ControlTypes
    <2>3. \A s \in Session \cup {NoSession} : s \in Int
        BY BoundIsNat DEF Session, NoSession
    <2>4. \A s \in Session \cup {NoSession} : s <= made => s <= made'
        BY <2>1, <2>3
    <2>5. \A a \in Actor : ses'[a] <= made'
        BY <2>1, <2>2, <2>4 DEF OnlyMade
    <2>6. sessions \in [Key -> Session \cup {NoSession}] /\ doomed \subseteq Session
        BY DEF TypeOK, DataTypes
    <2>7. QED
        BY <2>1, <2>4, <2>5, <2>6 DEF OnlyMade
<1>8. ASSUME NEW c \in Conn, Finish(c) PROVE OnlyMade'
    BY <1>8, Actors, BoundIsNat
       DEF Finish, ShareResult, Callers, At, Goto, NoSession, TypeOK, ControlTypes,
           DataTypes,
           OnlyMade
<1>9. ASSUME Shutdown PROVE OnlyMade'
    BY <1>9, Actors, BoundIsNat
       DEF Shutdown, At, Goto, NoSession, TypeOK, ControlTypes, DataTypes, OnlyMade
<1>10. ASSUME NEW a \in Actor, KillReap(a) PROVE OnlyMade'
    BY <1>10, BoundIsNat, NullSession
       DEF KillReap, NoSession, TypeOK, ControlTypes, DataTypes, OnlyMade
<1>11. ASSUME NEW c \in Conn, NEW op \in Ops, NEW k \in Key, NEW id \in Session \cup {NoSession},
             NEW o \in Owner \cup {NoOwner}, Arrive(c, op, k, id, o)
      PROVE OnlyMade'
    BY <1>11, Actors, BoundIsNat
       DEF Arrive, At, Goto, NoSession, TypeOK, ControlTypes, DataTypes, OnlyMade
<1>12. ASSUME NEW a \in Actor, KillMark(a) PROVE OnlyMade'
    BY <1>12, Actors, BoundIsNat
       DEF KillMark, At, Goto, NoSession, TypeOK, ControlTypes, DataTypes, OnlyMade
<1>13. ASSUME NEW k \in Key, Reap(k) PROVE OnlyMade'
    BY <1>13, Actors, BoundIsNat
       DEF Reap, TakeOut, Unregister, ForgetError, At, Goto, NoSession, TypeOK,
           ControlTypes,
           DataTypes, OnlyMade
<1>14. ASSUME NEW s \in Session, ShutdownNext(s) PROVE OnlyMade'
    BY <1>14, Actors, BoundIsNat
       DEF ShutdownNext, At, Goto, NoSession, TypeOK, ControlTypes, DataTypes, OnlyMade
<1>15. ASSUME NEW s \in Session, Crash(s) PROVE OnlyMade'
    BY <1>15, Actors, BoundIsNat
       DEF Crash, At, Goto, NoSession, TypeOK, ControlTypes, DataTypes, OnlyMade
<1>16. ASSUME NEW o \in Owner, OwnerExits(o) PROVE OnlyMade'
    BY <1>16, Actors, BoundIsNat
       DEF OwnerExits, At, Goto, NoSession, TypeOK, ControlTypes, DataTypes, OnlyMade
<1>17. ASSUME Scan \/ Rest \/ Stop \/ Exit PROVE OnlyMade'
    BY <1>17, Actors, BoundIsNat
       DEF Scan, Rest, Stop, Exit, At, Goto, NoSession, TypeOK, ControlTypes, DataTypes,
           OnlyMade
<1>18. CASE UNCHANGED vars
    BY <1>18, Actors, BoundIsNat
       DEF vars, At, Goto, NoSession, TypeOK, ControlTypes, DataTypes, OnlyMade
<1>19. QED
    BY <1>1, <1>2, <1>3, <1>4, <1>5, <1>6, <1>7, <1>8, <1>9, <1>10, <1>11, <1>12, <1>13,
       <1>14,
       <1>15, <1>16, <1>17, <1>18
       DEF Next, HandlerStep, ClientStep, ReaperStep, MainStep, CreateStep, EvalStep,
           TargetStep,
           KillStep, Quiet, Actor

\* shutdown's list is empty until shutdown takes the map.
LEMMA DoomedStep == TypeOK /\ NothingDoomedYet /\ [Next]_vars => NothingDoomedYet'
<1> SUFFICES ASSUME TypeOK /\ NothingDoomedYet, [Next]_vars PROVE NothingDoomedYet'
    OBVIOUS
<1> USE DEF Map, World, Local, Loops
<1>1. ASSUME NEW c \in Conn,
             RequireExisting(c) \/ HasLiveSession(c) \/ Restart(c) \/ FastPath(c) \/
             Join(c) \/ Reread(c) \/ FlightDelete(c) \/ StartRefused(c) \/ StartFails(c) \/
             CheckStale(c) \/ Proceed(c) \/ RestartStale(c) \/ Register(c) \/ Start(c) \/
             Finish(c)
      PROVE NothingDoomedYet'
    BY <1>1, Actors, ActorsDistinct
       DEF RequireExisting, HasLiveSession, Restart, Unregister, ForgetError, FastPath,
           Join,
           Reread, FlightDelete, StartRefused, StartFails, CheckStale, Proceed, RestartStale,
           Register, Start, Finish, ShareResult, Callers, At, Goto, TypeOK, ControlTypes,
           NothingDoomedYet
<1>2. ASSUME NEW c \in Conn,
             Acquire(c) \/ AcquireDead(c) \/ AcquireCancelled(c) \/ Write(c) \/ WriteFails(c) \/
             GraceKill(c) \/ EvalReturns(c) \/ EvalDies(c) \/ Remove(c) \/ RecordError(c) \/
             Close(c) \/ Free(c) \/ Target(c) \/ Interrupt(c) \/ InterruptSeen(c) \/
             InterruptKill(c) \/ InterruptDelete(c)
      PROVE NothingDoomedYet'
    BY <1>2, Actors, ActorsDistinct
       DEF Acquire, AcquireDead, Conclude, AcquireCancelled, Write, WriteFails, GraceKill,
           EvalReturns, Release, EvalDies, Remove, Unregister, RecordError, Close, TakeOut,
           ForgetError, Free, Target, Interrupt, InterruptSeen, InterruptKill, InterruptDelete,
           At, Goto, TypeOK, ControlTypes, NothingDoomedYet
<1>3. ASSUME NEW a \in Actor, KillReap(a) PROVE NothingDoomedYet'
    <2>1. pc[a] \notin {"serve", "shutdown"} /\ AfterKill(pc[a]) \notin {"serve", "shutdown"}
        BY <1>3 DEF KillReap, Killing, AfterKill
    <2>2. QED
        BY <1>3, <2>1, Actors DEF KillReap, Goto, TypeOK, ControlTypes, NothingDoomedYet
<1>4. ASSUME NEW c \in Conn, NEW op \in Ops, NEW k \in Key, NEW id \in Session \cup {NoSession},
             NEW o \in Owner \cup {NoOwner}, Arrive(c, op, k, id, o)
      PROVE NothingDoomedYet'
    BY <1>4, Actors, ActorsDistinct
       DEF Arrive, At, Goto, TypeOK, ControlTypes, NothingDoomedYet
<1>5. ASSUME NEW a \in Actor, KillMark(a) PROVE NothingDoomedYet'
    BY <1>5, Actors, ActorsDistinct
       DEF KillMark, At, Goto, TypeOK, ControlTypes, NothingDoomedYet
<1>6. ASSUME NEW k \in Key, Reap(k) PROVE NothingDoomedYet'
    BY <1>6, Actors, ActorsDistinct
       DEF Reap, TakeOut, Unregister, ForgetError, At, Goto, TypeOK, ControlTypes,
           NothingDoomedYet
<1>7. ASSUME NEW s \in Session, ShutdownNext(s) PROVE NothingDoomedYet'
    BY <1>7, Actors, ActorsDistinct
       DEF ShutdownNext, At, Goto, TypeOK, ControlTypes, NothingDoomedYet
<1>8. ASSUME NEW s \in Session, Crash(s) PROVE NothingDoomedYet'
    BY <1>8, Actors, ActorsDistinct
       DEF Crash, At, Goto, TypeOK, ControlTypes, NothingDoomedYet
<1>9. ASSUME NEW o \in Owner, OwnerExits(o) PROVE NothingDoomedYet'
    BY <1>9, Actors, ActorsDistinct
       DEF OwnerExits, At, Goto, TypeOK, ControlTypes, NothingDoomedYet
<1>10. ASSUME Scan \/ Rest \/ Stop \/ Shutdown \/ Exit PROVE NothingDoomedYet'
    BY <1>10, Actors, ActorsDistinct
       DEF Scan, Rest, Stop, Shutdown, Exit, At, Goto, TypeOK, ControlTypes,
           NothingDoomedYet
<1>11. CASE UNCHANGED vars
    BY <1>11, Actors, ActorsDistinct
       DEF vars, At, Goto, TypeOK, ControlTypes, NothingDoomedYet
<1>12. QED
    BY <1>1, <1>2, <1>3, <1>4, <1>5, <1>6, <1>7, <1>8, <1>9, <1>10, <1>11
       DEF Next, HandlerStep, ClientStep, ReaperStep, MainStep, CreateStep, EvalStep,
           TargetStep,
           KillStep, Quiet, Actor

\* A new session is published by Register and by nothing else.
LEMMA StartingStep ==
    TypeOK /\ OnlyMade /\ StartingIsPrivate /\ [Next]_vars
    => StartingIsPrivate'
<1> SUFFICES ASSUME TypeOK /\ OnlyMade /\ StartingIsPrivate, [Next]_vars PROVE StartingIsPrivate'
    OBVIOUS
<1> USE DEF Map, World, Local, Loops
<1>1. ASSUME NEW c \in Conn, Start(c) PROVE StartingIsPrivate'
    <2>1. /\ made \in Int /\ made' = made + 1 /\ UNCHANGED <<sessions, doomed>>
          /\ ses' = [ses EXCEPT ![c] = made + 1] /\ pc' = [pc EXCEPT ![c] = "starting"]
        BY <1>1, BoundIsNat DEF Start, Goto, TypeOK, DataTypes
    <2>2. /\ \A k \in Key : sessions[k] \in Session \cup {NoSession} /\ sessions[k] <= made
          /\ \A a \in Actor : ses[a] \in Session \cup {NoSession} /\ ses[a] <= made
          /\ \A s \in doomed : s \in Session /\ s <= made
        BY DEF TypeOK, DataTypes, ControlTypes, OnlyMade
    <2>3. \A s \in Session \cup {NoSession} : s <= made => s # made + 1
        BY <2>1, BoundIsNat DEF Session, NoSession
    <2>4. \A s \in doomed : s # made + 1
        BY <2>2, <2>3
    <2>5. \A d \in Conn : pc[d] = "starting" => ses[d] # made + 1
        BY <2>2, <2>3, Actors
    <2>6. \A d \in Conn : pc'[d] = "starting" => d = c \/ (d # c /\ pc[d] = "starting" /\ ses'[d] = ses[d])
        BY <2>1, Actors DEF TypeOK, ControlTypes
    <2>7. \A a \in Actor : IF a = c THEN ses'[a] = made + 1 ELSE ses'[a] = ses[a]
        BY <2>1, Actors DEF TypeOK, ControlTypes
    <2>8. QED
        BY <2>1, <2>2, <2>3, <2>4, <2>5, <2>6, <2>7, Actors DEF StartingIsPrivate
<1>2. ASSUME NEW c \in Conn, NEW op \in Ops, NEW k \in Key, NEW id \in Session \cup {NoSession},
             NEW o \in Owner \cup {NoOwner}, Arrive(c, op, k, id, o)
      PROVE StartingIsPrivate'
    <2>1. (IF id = NoSession THEN FirstStep(op) ELSE "target") # "starting"
        BY OpsKnown DEF FirstStep, EvalOps, TargetOps
    <2>2. QED
        BY <1>2, <2>1, Actors DEF Arrive, Goto, TypeOK, ControlTypes, StartingIsPrivate
<1>3. ASSUME NEW a \in Actor, KillReap(a) PROVE StartingIsPrivate'
    <2>1. AfterKill(pc[a]) # "starting" /\ pc[a] \in Killing
        BY <1>3 DEF KillReap, Killing, AfterKill
    <2>2. \A d \in Conn : pc[d] = "starting" => ses[d] # NoSession
        BY HolderHolds, Actors, NullSession DEF Holding
    <2>3. QED
        BY <1>3, <2>1, <2>2, Actors
           DEF KillReap, Goto, TypeOK, ControlTypes, StartingIsPrivate
<1>4. ASSUME NEW c \in Conn,
             RequireExisting(c) \/ HasLiveSession(c) \/ Join(c) \/ StartRefused(c) \/
             StartFails(c) \/ CheckStale(c) \/ Proceed(c) \/ RestartStale(c)
      PROVE StartingIsPrivate'
    BY <1>4, Actors
       DEF RequireExisting, HasLiveSession, Join, StartRefused, StartFails, CheckStale,
           Proceed, RestartStale, At, Goto, TypeOK, ControlTypes, DataTypes, StartingIsPrivate
<1>5. ASSUME NEW c \in Conn, Restart(c) PROVE StartingIsPrivate'
    BY <1>5, Actors, KeyIsTyped, HolderHolds, NullSession
       DEF Restart, Unregister, ForgetError, At, Goto, TypeOK, ControlTypes, DataTypes,
           StartingIsPrivate, Holding
<1>6. ASSUME NEW c \in Conn, FlightDelete(c) PROVE StartingIsPrivate'
    BY <1>6, Actors, KeyIsTyped, HolderHolds, NullSession
       DEF FlightDelete, Unregister, At, Goto, TypeOK, ControlTypes, DataTypes,
           StartingIsPrivate, Holding
<1>7. ASSUME NEW c \in Conn, FastPath(c) PROVE StartingIsPrivate'
    BY <1>7, Actors, KeyIsTyped, HolderHolds, NullSession
       DEF FastPath, At, Goto, TypeOK, ControlTypes, DataTypes, StartingIsPrivate, Holding
<1>8. ASSUME NEW c \in Conn, Reread(c) PROVE StartingIsPrivate'
    BY <1>8, Actors, KeyIsTyped, HolderHolds, NullSession
       DEF Reread, At, Goto, TypeOK, ControlTypes, DataTypes, StartingIsPrivate, Holding
<1>9. ASSUME NEW c \in Conn, Register(c) PROVE StartingIsPrivate'
    BY <1>9, Actors, KeyIsTyped, HolderHolds, NullSession
       DEF Register, At, Goto, TypeOK, ControlTypes, DataTypes, StartingIsPrivate, Holding
<1>10. ASSUME NEW c \in Conn, Finish(c) PROVE StartingIsPrivate'
    BY <1>10, Actors, KeyIsTyped, HolderHolds, NullSession
       DEF Finish, ShareResult, Callers, At, Goto, TypeOK, ControlTypes, DataTypes,
           StartingIsPrivate, Holding
<1>11. ASSUME NEW c \in Conn,
             Acquire(c) \/ AcquireDead(c) \/ AcquireCancelled(c) \/ Write(c) \/ WriteFails(c) \/
             GraceKill(c)
      PROVE StartingIsPrivate'
    BY <1>11, Actors
       DEF Acquire, AcquireDead, Conclude, AcquireCancelled, Write, WriteFails, Release, GraceKill, At,
           Goto,
           TypeOK, ControlTypes, DataTypes, StartingIsPrivate
<1>12. ASSUME NEW c \in Conn,
             EvalReturns(c) \/ EvalDies(c) \/ RecordError(c) \/ Free(c)
      PROVE StartingIsPrivate'
    BY <1>12, Actors
       DEF EvalReturns, Conclude, Release, EvalDies, RecordError, Free, At, Goto, TypeOK,
           ControlTypes, DataTypes, StartingIsPrivate
<1>13. ASSUME NEW c \in Conn, Target(c) PROVE StartingIsPrivate'
    BY <1>13, Actors
       DEF Target, At, Goto, TypeOK, ControlTypes, DataTypes, StartingIsPrivate, TargetOps
<1>14. ASSUME NEW c \in Conn,
             Remove(c) \/ InterruptDelete(c)
      PROVE StartingIsPrivate'
    BY <1>14, Actors, KeyIsTyped, HolderHolds, NullSession
       DEF Remove, Unregister, InterruptDelete, At, Goto, TypeOK, ControlTypes, DataTypes,
           StartingIsPrivate, Holding
<1>15. ASSUME NEW c \in Conn, Close(c) PROVE StartingIsPrivate'
    BY <1>15, Actors, KeyIsTyped, HolderHolds, NullSession
       DEF Close, TakeOut, Unregister, ForgetError, At, Goto, TypeOK, ControlTypes,
           DataTypes,
           StartingIsPrivate, Holding
<1>16. ASSUME NEW c \in Conn, Interrupt(c) PROVE StartingIsPrivate'
    BY <1>16, Actors, KeyIsTyped
       DEF Interrupt, At, Goto, TypeOK, ControlTypes, DataTypes, StartingIsPrivate
<1>17. ASSUME NEW c \in Conn,
             InterruptSeen(c) \/ InterruptKill(c)
      PROVE StartingIsPrivate'
    BY <1>17, Actors
       DEF InterruptSeen, InterruptKill, At, Goto, TypeOK, ControlTypes, DataTypes,
           StartingIsPrivate
<1>18. ASSUME NEW k \in Key, Reap(k) PROVE StartingIsPrivate'
    BY <1>18, Actors, HolderHolds, NullSession
       DEF Reap, TakeOut, Unregister, ForgetError, At, Goto, TypeOK, ControlTypes,
           DataTypes,
           StartingIsPrivate, Holding
<1>19. ASSUME Shutdown PROVE StartingIsPrivate'
    BY <1>19, Actors, HolderHolds, NullSession
       DEF Shutdown, At, Goto, TypeOK, ControlTypes, DataTypes, StartingIsPrivate, Holding
<1>20. ASSUME NEW a \in Actor, KillMark(a) PROVE StartingIsPrivate'
    BY <1>20, Actors
       DEF KillMark, At, Goto, TypeOK, ControlTypes, DataTypes, StartingIsPrivate
<1>21. ASSUME NEW s \in Session, ShutdownNext(s) PROVE StartingIsPrivate'
    BY <1>21, Actors
       DEF ShutdownNext, At, Goto, TypeOK, ControlTypes, DataTypes, StartingIsPrivate
<1>22. ASSUME NEW s \in Session, Crash(s) PROVE StartingIsPrivate'
    BY <1>22, Actors
       DEF Crash, At, Goto, TypeOK, ControlTypes, DataTypes, StartingIsPrivate
<1>23. ASSUME NEW o \in Owner, OwnerExits(o) PROVE StartingIsPrivate'
    BY <1>23, Actors
       DEF OwnerExits, At, Goto, TypeOK, ControlTypes, DataTypes, StartingIsPrivate
<1>24. ASSUME Scan \/ Rest \/ Stop \/ Exit PROVE StartingIsPrivate'
    BY <1>24, Actors
       DEF Scan, Rest, Stop, Exit, At, Goto, TypeOK, ControlTypes, DataTypes,
           StartingIsPrivate
<1>25. CASE UNCHANGED vars
    BY <1>25, Actors DEF vars, At, Goto, TypeOK, ControlTypes, DataTypes, StartingIsPrivate
<1>26. QED
    BY <1>1, <1>2, <1>3, <1>4, <1>5, <1>6, <1>7, <1>8, <1>9, <1>10, <1>11, <1>12, <1>13,
       <1>14,
       <1>15, <1>16, <1>17, <1>18, <1>19, <1>20, <1>21, <1>22, <1>23, <1>24, <1>25
       DEF Next, HandlerStep, ClientStep, ReaperStep, MainStep, CreateStep, EvalStep,
           TargetStep,
           KillStep, Quiet, Actor

\* An eval that ends in `died` leaves dead set, and dead is never reset.
LEMMA DiedMarkedStep == TypeOK /\ DiedIsMarked /\ [Next]_vars => DiedIsMarked'
<1> SUFFICES ASSUME TypeOK /\ DiedIsMarked, [Next]_vars PROVE DiedIsMarked'
    OBVIOUS
<1> USE DEF Map, World, Local, Loops
<1>1. ASSUME NEW c \in Conn, NEW op \in Ops, NEW k \in Key, NEW id \in Session \cup {NoSession},
             NEW o \in Owner \cup {NoOwner}, Arrive(c, op, k, id, o)
      PROVE DiedIsMarked'
    <2>1. (IF id = NoSession THEN FirstStep(op) ELSE "target")
             \notin {"errored", "record", "done"} /\ pc[c] = "new"
        BY <1>1, OpsKnown DEF Arrive, At, FirstStep, EvalOps, TargetOps
    <2>2. QED
        BY <1>1, <2>1, Actors
           DEF Arrive, Goto, KeyOf, TypeOK, ControlTypes, DataTypes, DiedIsMarked
<1>2. ASSUME NEW a \in Actor, KillReap(a) PROVE DiedIsMarked'
    <2>1. pc[a] \notin {"errored", "record", "done"}
        BY <1>2 DEF KillReap, Killing
    <2>2. AfterKill(pc[a]) \notin {"errored", "record"}
        BY <1>2 DEF KillReap, Killing, AfterKill
    <2>3. QED
        BY <1>2, <2>1, <2>2, Actors
           DEF KillReap, Goto, KeyOf, TypeOK, ControlTypes, DataTypes, DiedIsMarked
<1>3. ASSUME NEW c \in Conn,
             RequireExisting(c) \/ HasLiveSession(c) \/ Restart(c) \/ FastPath(c) \/
             Join(c) \/ Reread(c) \/ FlightDelete(c) \/ Start(c) \/ StartRefused(c) \/
             StartFails(c) \/ Register(c) \/ CheckStale(c) \/ Proceed(c) \/ RestartStale(c)
      PROVE DiedIsMarked'
    BY <1>3, Actors
       DEF RequireExisting, HasLiveSession, Restart, Unregister, ForgetError, FastPath,
           Join,
           Reread, FlightDelete, Start, StartRefused, StartFails, Register, CheckStale,
           Proceed, RestartStale, At, Goto, TypeOK, ControlTypes, DataTypes, DiedIsMarked
<1>4. ASSUME NEW c \in Conn, Finish(c) PROVE DiedIsMarked'
    BY <1>4, Actors
       DEF Finish, ShareResult, Callers, At, Goto, TypeOK, ControlTypes, DataTypes,
           DiedIsMarked
<1>5. ASSUME NEW c \in Conn, AcquireDead(c) PROVE DiedIsMarked'
    BY <1>5, Actors
       DEF AcquireDead, Conclude, At, Goto, TypeOK, ControlTypes, DataTypes, DiedIsMarked,
           Alive
<1>6. ASSUME NEW c \in Conn, EvalReturns(c) PROVE DiedIsMarked'
    BY <1>6, Actors
       DEF EvalReturns, Conclude, Release, At, Goto, TypeOK, ControlTypes, DataTypes,
           DiedIsMarked
<1>7. ASSUME NEW c \in Conn, EvalDies(c) PROVE DiedIsMarked'
    BY <1>7, Actors
       DEF EvalDies, Conclude, Release, At, Goto, TypeOK, ControlTypes, DataTypes,
           DiedIsMarked
<1>8. ASSUME NEW c \in Conn,
             Acquire(c) \/ AcquireCancelled(c) \/ Write(c) \/ WriteFails(c) \/ GraceKill(c)
      PROVE DiedIsMarked'
    BY <1>8, Actors
       DEF Acquire, AcquireCancelled, Conclude, Write, WriteFails, Release, GraceKill, At, Goto, TypeOK,
           ControlTypes, DataTypes, DiedIsMarked
<1>9. ASSUME NEW c \in Conn,
             RecordError(c) \/ Free(c) \/ Target(c)
      PROVE DiedIsMarked'
    BY <1>9, Actors
       DEF RecordError, Free, Target, At, Goto, TypeOK, ControlTypes, DataTypes,
           DiedIsMarked
<1>10. ASSUME NEW c \in Conn,
             Remove(c) \/ InterruptDelete(c) \/ Close(c) \/ Interrupt(c)
      PROVE DiedIsMarked'
    BY <1>10, Actors
       DEF Remove, Unregister, InterruptDelete, Close, TakeOut, ForgetError, Interrupt, At,
           Goto, TypeOK, ControlTypes, DataTypes, DiedIsMarked
<1>11. ASSUME NEW c \in Conn,
             InterruptSeen(c) \/ InterruptKill(c)
      PROVE DiedIsMarked'
    BY <1>11, Actors
       DEF InterruptSeen, InterruptKill, At, Goto, TypeOK, ControlTypes, DataTypes,
           DiedIsMarked
<1>12. ASSUME NEW a \in Actor, KillMark(a) PROVE DiedIsMarked'
    BY <1>12, Actors
       DEF KillMark, At, Goto, TypeOK, ControlTypes, DataTypes, DiedIsMarked
<1>13. ASSUME NEW k \in Key, Reap(k) PROVE DiedIsMarked'
    BY <1>13, Actors
       DEF Reap, TakeOut, Unregister, ForgetError, At, Goto, TypeOK, ControlTypes,
           DataTypes,
           DiedIsMarked
<1>14. ASSUME NEW s \in Session, ShutdownNext(s) PROVE DiedIsMarked'
    BY <1>14, Actors
       DEF ShutdownNext, At, Goto, TypeOK, ControlTypes, DataTypes, DiedIsMarked
<1>15. ASSUME NEW s \in Session, Crash(s) PROVE DiedIsMarked'
    BY <1>15, Actors
       DEF Crash, At, Goto, TypeOK, ControlTypes, DataTypes, DiedIsMarked
<1>16. ASSUME NEW o \in Owner, OwnerExits(o) PROVE DiedIsMarked'
    BY <1>16, Actors
       DEF OwnerExits, At, Goto, TypeOK, ControlTypes, DataTypes, DiedIsMarked
<1>17. ASSUME Scan \/ Rest \/ Stop \/ Shutdown \/ Exit PROVE DiedIsMarked'
    BY <1>17, Actors
       DEF Scan, Rest, Stop, Shutdown, Exit, At, Goto, TypeOK, ControlTypes, DataTypes,
           DiedIsMarked
<1>18. CASE UNCHANGED vars
    BY <1>18, Actors DEF vars, At, Goto, TypeOK, ControlTypes, DataTypes, DiedIsMarked
<1>19. QED
    BY <1>1, <1>2, <1>3, <1>4, <1>5, <1>6, <1>7, <1>8, <1>9, <1>10, <1>11, <1>12, <1>13,
       <1>14,
       <1>15, <1>16, <1>17, <1>18
       DEF Next, HandlerStep, ClientStep, ReaperStep, MainStep, CreateStep, EvalStep,
           TargetStep,
           KillStep, Quiet, Actor

\* After remove the key is empty or holds a session registered since.
LEMMA DiedUnregisteredStep ==
    TypeOK /\ StartingIsPrivate /\ DiedIsMarked /\ DiedIsUnregistered /\ [Next]_vars
    => DiedIsUnregistered'
<1> SUFFICES ASSUME TypeOK /\ StartingIsPrivate /\ DiedIsMarked /\ DiedIsUnregistered, [Next]_vars PROVE DiedIsUnregistered'
    OBVIOUS
<1> USE DEF Map, World, Local, Loops
<1>1. ASSUME NEW c \in Conn, NEW op \in Ops, NEW k \in Key, NEW id \in Session \cup {NoSession},
             NEW o \in Owner \cup {NoOwner}, Arrive(c, op, k, id, o)
      PROVE DiedIsUnregistered'
    <2>1. pc[c] = "new" /\ UNCHANGED <<sessions, ses, err>>
        BY <1>1 DEF Arrive, At
    <2>2. err[c] # "died"
        BY <2>1 DEF DiedIsMarked
    <2>3. QED
        BY <1>1, <2>1, <2>2, Actors
           DEF Arrive, Goto, KeyOf, TypeOK, ControlTypes, DataTypes, DiedIsUnregistered
<1>2. ASSUME NEW a \in Actor, KillReap(a) PROVE DiedIsUnregistered'
    <2>1. pc[a] \notin {"errored", "record", "done"}
        BY <1>2 DEF KillReap, Killing
    <2>2. \A c \in Conn : err[c] = "died" => c # a
        BY <2>1 DEF DiedIsMarked
    <2>3. QED
        BY <1>2, <2>2, Actors
           DEF KillReap, Goto, KeyOf, TypeOK, ControlTypes, DataTypes,
               DiedIsUnregistered
<1>3. ASSUME NEW c \in Conn,
             RequireExisting(c) \/ HasLiveSession(c) \/ Join(c) \/ StartRefused(c) \/
             StartFails(c) \/ CheckStale(c) \/ Proceed(c) \/ RestartStale(c)
      PROVE DiedIsUnregistered'
    BY <1>3, Actors
       DEF RequireExisting, HasLiveSession, Join, StartRefused, StartFails, CheckStale,
           Proceed, RestartStale, At, Goto, KeyOf, TypeOK, ControlTypes, DataTypes,
           DiedIsMarked, DiedIsUnregistered
<1>4. ASSUME NEW c \in Conn, Restart(c) PROVE DiedIsUnregistered'
    BY <1>4, Actors, KeyIsTyped, NullSession
       DEF Restart, Unregister, ForgetError, At, Goto, KeyOf, TypeOK, ControlTypes,
           DataTypes,
           DiedIsMarked, DiedIsUnregistered
<1>5. ASSUME NEW c \in Conn, FlightDelete(c) PROVE DiedIsUnregistered'
    BY <1>5, Actors, KeyIsTyped, NullSession
       DEF FlightDelete, Unregister, At, Goto, KeyOf, TypeOK, ControlTypes, DataTypes,
           DiedIsMarked, DiedIsUnregistered
<1>6. ASSUME NEW c \in Conn,
             FastPath(c) \/ Reread(c) \/ Start(c)
      PROVE DiedIsUnregistered'
    BY <1>6, Actors
       DEF FastPath, Reread, Start, At, Goto, KeyOf, TypeOK, ControlTypes, DataTypes,
           DiedIsMarked, DiedIsUnregistered
<1>7. ASSUME NEW c \in Conn, Register(c) PROVE DiedIsUnregistered'
    BY <1>7, Actors, KeyIsTyped
       DEF Register, At, Goto, KeyOf, TypeOK, ControlTypes, DataTypes, DiedIsMarked,
           DiedIsUnregistered, StartingIsPrivate
<1>8. ASSUME NEW c \in Conn, Finish(c) PROVE DiedIsUnregistered'
    BY <1>8, Actors
       DEF Finish, ShareResult, Callers, At, Goto, KeyOf, TypeOK, ControlTypes, DataTypes,
           DiedIsMarked, DiedIsUnregistered
<1>9. ASSUME NEW c \in Conn,
             Acquire(c) \/ AcquireCancelled(c) \/ Write(c) \/ WriteFails(c) \/ GraceKill(c)
      PROVE DiedIsUnregistered'
    BY <1>9, Actors
       DEF Acquire, AcquireCancelled, Conclude, Write, WriteFails, Release, GraceKill, At, Goto, KeyOf,
           TypeOK,
           ControlTypes, DataTypes, DiedIsMarked, DiedIsUnregistered
<1>10. ASSUME NEW c \in Conn, AcquireDead(c) PROVE DiedIsUnregistered'
    BY <1>10, Actors
       DEF AcquireDead, Conclude, At, Goto, KeyOf, TypeOK, ControlTypes, DataTypes,
           DiedIsMarked, DiedIsUnregistered
<1>11. ASSUME NEW c \in Conn, EvalReturns(c) PROVE DiedIsUnregistered'
    BY <1>11, Actors
       DEF EvalReturns, Conclude, Release, At, Goto, KeyOf, TypeOK, ControlTypes, DataTypes,
           DiedIsMarked, DiedIsUnregistered
<1>12. ASSUME NEW c \in Conn, EvalDies(c) PROVE DiedIsUnregistered'
    BY <1>12, Actors
       DEF EvalDies, Conclude, Release, At, Goto, KeyOf, TypeOK, ControlTypes, DataTypes,
           DiedIsMarked, DiedIsUnregistered
<1>13. ASSUME NEW c \in Conn, RecordError(c) PROVE DiedIsUnregistered'
    BY <1>13, Actors
       DEF RecordError, At, Goto, KeyOf, TypeOK, ControlTypes, DataTypes, DiedIsMarked,
           DiedIsUnregistered, Alive
<1>14. ASSUME NEW c \in Conn,
             Free(c) \/ Target(c)
      PROVE DiedIsUnregistered'
    BY <1>14, Actors
       DEF Free, Target, At, Goto, KeyOf, TypeOK, ControlTypes, DataTypes, DiedIsMarked,
           DiedIsUnregistered
<1>15. ASSUME NEW c \in Conn,
             Remove(c) \/ InterruptDelete(c)
      PROVE DiedIsUnregistered'
    BY <1>15, Actors, KeyIsTyped, NullSession
       DEF Remove, Unregister, InterruptDelete, At, Goto, KeyOf, TypeOK, ControlTypes,
           DataTypes, DiedIsMarked, DiedIsUnregistered
<1>16. ASSUME NEW c \in Conn, Close(c) PROVE DiedIsUnregistered'
    BY <1>16, Actors, KeyIsTyped, NullSession
       DEF Close, TakeOut, Unregister, ForgetError, At, Goto, KeyOf, TypeOK, ControlTypes,
           DataTypes, DiedIsMarked, DiedIsUnregistered
<1>17. ASSUME NEW c \in Conn, Interrupt(c) PROVE DiedIsUnregistered'
    BY <1>17, Actors
       DEF Interrupt, At, Goto, KeyOf, TypeOK, ControlTypes, DataTypes, DiedIsMarked,
           DiedIsUnregistered
<1>18. ASSUME NEW c \in Conn,
             InterruptSeen(c) \/ InterruptKill(c)
      PROVE DiedIsUnregistered'
    BY <1>18, Actors
       DEF InterruptSeen, InterruptKill, At, Goto, KeyOf, TypeOK, ControlTypes, DataTypes,
           DiedIsMarked, DiedIsUnregistered
<1>19. ASSUME NEW k \in Key, Reap(k) PROVE DiedIsUnregistered'
    BY <1>19, Actors, NullSession
       DEF Reap, TakeOut, Unregister, ForgetError, At, Goto, KeyOf, TypeOK, ControlTypes,
           DataTypes, DiedIsMarked, DiedIsUnregistered
<1>20. ASSUME Shutdown PROVE DiedIsUnregistered'
    BY <1>20, Actors, KeyIsTyped, NullSession
       DEF Shutdown, At, Goto, KeyOf, TypeOK, ControlTypes, DataTypes, DiedIsMarked,
           DiedIsUnregistered
<1>21. ASSUME NEW a \in Actor, KillMark(a) PROVE DiedIsUnregistered'
    BY <1>21, Actors
       DEF KillMark, At, Goto, KeyOf, TypeOK, ControlTypes, DataTypes, DiedIsMarked,
           DiedIsUnregistered
<1>22. ASSUME NEW s \in Session, ShutdownNext(s) PROVE DiedIsUnregistered'
    BY <1>22, Actors
       DEF ShutdownNext, At, Goto, KeyOf, TypeOK, ControlTypes, DataTypes, DiedIsMarked,
           DiedIsUnregistered
<1>23. ASSUME NEW s \in Session, Crash(s) PROVE DiedIsUnregistered'
    BY <1>23, Actors
       DEF Crash, At, Goto, KeyOf, TypeOK, ControlTypes, DataTypes, DiedIsMarked,
           DiedIsUnregistered
<1>24. ASSUME NEW o \in Owner, OwnerExits(o) PROVE DiedIsUnregistered'
    BY <1>24, Actors
       DEF OwnerExits, At, Goto, KeyOf, TypeOK, ControlTypes, DataTypes, DiedIsMarked,
           DiedIsUnregistered
<1>25. ASSUME Scan \/ Rest \/ Stop \/ Exit PROVE DiedIsUnregistered'
    BY <1>25, Actors
       DEF Scan, Rest, Stop, Exit, At, Goto, KeyOf, TypeOK, ControlTypes, DataTypes,
           DiedIsMarked, DiedIsUnregistered
<1>26. CASE UNCHANGED vars
    BY <1>26, Actors
       DEF vars, At, Goto, KeyOf, TypeOK, ControlTypes, DataTypes, DiedIsMarked,
           DiedIsUnregistered
<1>27. QED
    BY <1>1, <1>2, <1>3, <1>4, <1>5, <1>6, <1>7, <1>8, <1>9, <1>10, <1>11, <1>12, <1>13,
       <1>14,
       <1>15, <1>16, <1>17, <1>18, <1>19, <1>20, <1>21, <1>22, <1>23, <1>24, <1>25, <1>26
       DEF Next, HandlerStep, ClientStep, ReaperStep, MainStep, CreateStep, EvalStep,
           TargetStep,
           KillStep, Quiet, Actor

\* restart returns only after kill has marked what it removed.
LEMMA ClearedDeadStep == TypeOK /\ ClearedIsDead /\ [Next]_vars => ClearedIsDead'
<1> SUFFICES ASSUME TypeOK /\ ClearedIsDead, [Next]_vars PROVE ClearedIsDead'
    OBVIOUS
<1> USE DEF Map, World, Local, Loops
<1>1. ASSUME NEW c \in Conn, NEW op \in Ops, NEW k \in Key, NEW id \in Session \cup {NoSession},
             NEW o \in Owner \cup {NoOwner}, Arrive(c, op, k, id, o)
      PROVE ClearedIsDead'
    <2>1. (IF id = NoSession THEN FirstStep(op) ELSE "target") \notin {"restartKill", "write", "run"}
             /\ pc[c] = "new"
        BY <1>1, OpsKnown DEF Arrive, At, FirstStep, EvalOps, TargetOps
    <2>2. QED
        BY <1>1, <2>1, Actors
           DEF Arrive, Goto, TypeOK, ControlTypes, DataTypes, ClearedIsDead
<1>2. ASSUME NEW a \in Actor, KillReap(a) PROVE ClearedIsDead'
    <2>1. AfterKill(pc[a]) \notin {"restartKill", "write", "run"} /\ pc[a] \notin {"write", "run"}
        BY <1>2 DEF KillReap, Killing, AfterKill
    <2>2. QED
        BY <1>2, <2>1, Actors
           DEF KillReap, Alive, Goto, TypeOK, ControlTypes, DataTypes, ClearedIsDead
<1>3. ASSUME NEW c \in Conn, Restart(c) PROVE ClearedIsDead'
    BY <1>3, Actors, KeyIsTyped, NullSession
       DEF Restart, Unregister, ForgetError, At, Goto, TypeOK, ControlTypes, DataTypes,
           ClearedIsDead
<1>4. ASSUME NEW c \in Conn,
             RequireExisting(c) \/ HasLiveSession(c) \/ Join(c) \/ StartRefused(c) \/
             StartFails(c) \/ CheckStale(c) \/ Proceed(c) \/ RestartStale(c)
      PROVE ClearedIsDead'
    BY <1>4, Actors
       DEF RequireExisting, HasLiveSession, Join, StartRefused, StartFails, CheckStale,
           Proceed, RestartStale, At, Goto, TypeOK, ControlTypes, DataTypes, ClearedIsDead
<1>5. ASSUME NEW c \in Conn,
             FlightDelete(c) \/ FastPath(c) \/ Reread(c) \/ Start(c) \/ Register(c)
      PROVE ClearedIsDead'
    BY <1>5, Actors
       DEF FlightDelete, Unregister, FastPath, Reread, Start, Register, At, Goto, TypeOK,
           ControlTypes, DataTypes, ClearedIsDead
<1>6. ASSUME NEW c \in Conn, Finish(c) PROVE ClearedIsDead'
    BY <1>6, Actors
       DEF Finish, ShareResult, Callers, At, Goto, TypeOK, ControlTypes, DataTypes,
           ClearedIsDead
<1>7. ASSUME NEW c \in Conn, Acquire(c) PROVE ClearedIsDead'
    BY <1>7, Actors
       DEF Acquire, At, Goto, TypeOK, ControlTypes, DataTypes, ClearedIsDead
<1>8. ASSUME NEW c \in Conn,
             AcquireCancelled(c) \/ Write(c) \/ WriteFails(c) \/ GraceKill(c) \/ AcquireDead(c)
      PROVE ClearedIsDead'
    BY <1>8, Actors
       DEF AcquireCancelled, Conclude, Write, WriteFails, Release, GraceKill, AcquireDead, At, Goto, TypeOK,
           ControlTypes, DataTypes, ClearedIsDead
<1>9. ASSUME NEW c \in Conn, EvalReturns(c) PROVE ClearedIsDead'
    BY <1>9, Actors
       DEF EvalReturns, Conclude, Release, At, Goto, TypeOK, ControlTypes, DataTypes,
           ClearedIsDead
<1>10. ASSUME NEW c \in Conn, EvalDies(c) PROVE ClearedIsDead'
    BY <1>10, Actors
       DEF EvalDies, Conclude, Release, At, Goto, TypeOK, ControlTypes, DataTypes,
           ClearedIsDead
<1>11. ASSUME NEW c \in Conn,
             RecordError(c) \/ Free(c)
      PROVE ClearedIsDead'
    BY <1>11, Actors
       DEF RecordError, Free, At, Goto, TypeOK, ControlTypes, DataTypes, ClearedIsDead
<1>12. ASSUME NEW c \in Conn, Target(c) PROVE ClearedIsDead'
    BY <1>12, Actors
       DEF Target, At, Goto, TypeOK, ControlTypes, DataTypes, ClearedIsDead, TargetOps
<1>13. ASSUME NEW c \in Conn,
             Remove(c) \/ InterruptDelete(c) \/ Close(c) \/ Interrupt(c)
      PROVE ClearedIsDead'
    BY <1>13, Actors
       DEF Remove, Unregister, InterruptDelete, Close, TakeOut, ForgetError, Interrupt, At,
           Goto, TypeOK, ControlTypes, DataTypes, ClearedIsDead
<1>14. ASSUME NEW c \in Conn,
             InterruptSeen(c) \/ InterruptKill(c)
      PROVE ClearedIsDead'
    BY <1>14, Actors
       DEF InterruptSeen, InterruptKill, At, Goto, TypeOK, ControlTypes, DataTypes,
           ClearedIsDead
<1>15. ASSUME NEW a \in Actor, KillMark(a) PROVE ClearedIsDead'
    BY <1>15, Actors
       DEF KillMark, At, Goto, TypeOK, ControlTypes, DataTypes, ClearedIsDead
<1>16. ASSUME NEW k \in Key, Reap(k) PROVE ClearedIsDead'
    BY <1>16, Actors
       DEF Reap, TakeOut, Unregister, ForgetError, At, Goto, TypeOK, ControlTypes,
           DataTypes,
           ClearedIsDead
<1>17. ASSUME NEW s \in Session, ShutdownNext(s) PROVE ClearedIsDead'
    BY <1>17, Actors
       DEF ShutdownNext, At, Goto, TypeOK, ControlTypes, DataTypes, ClearedIsDead
<1>18. ASSUME NEW s \in Session, Crash(s) PROVE ClearedIsDead'
    BY <1>18, Actors
       DEF Crash, At, Goto, TypeOK, ControlTypes, DataTypes, ClearedIsDead
<1>19. ASSUME NEW o \in Owner, OwnerExits(o) PROVE ClearedIsDead'
    BY <1>19, Actors
       DEF OwnerExits, At, Goto, TypeOK, ControlTypes, DataTypes, ClearedIsDead
<1>20. ASSUME Scan \/ Rest \/ Stop \/ Shutdown \/ Exit PROVE ClearedIsDead'
    BY <1>20, Actors
       DEF Scan, Rest, Stop, Shutdown, Exit, At, Goto, TypeOK, ControlTypes, DataTypes,
           ClearedIsDead
<1>21. CASE UNCHANGED vars
    BY <1>21, Actors DEF vars, At, Goto, TypeOK, ControlTypes, DataTypes, ClearedIsDead
<1>22. QED
    BY <1>1, <1>2, <1>3, <1>4, <1>5, <1>6, <1>7, <1>8, <1>9, <1>10, <1>11, <1>12, <1>13,
       <1>14,
       <1>15, <1>16, <1>17, <1>18, <1>19, <1>20, <1>21
       DEF Next, HandlerStep, ClientStep, ReaperStep, MainStep, CreateStep, EvalStep,
           TargetStep,
           KillStep, Quiet, Actor

\* execute refuses a dead session, so a cleared one never runs again.
LEMMA ClearedRunsStep ==
    TypeOK /\ ClearedIsDead /\ ClearedNeverRuns /\ [Next]_vars
    => ClearedNeverRuns'
<1> SUFFICES ASSUME TypeOK /\ ClearedIsDead /\ ClearedNeverRuns, [Next]_vars PROVE ClearedNeverRuns'
    OBVIOUS
<1> USE DEF Map, World, Local, Loops
<1>1. ASSUME NEW c \in Conn, NEW op \in Ops, NEW k \in Key, NEW id \in Session \cup {NoSession},
             NEW o \in Owner \cup {NoOwner}, Arrive(c, op, k, id, o)
      PROVE ClearedNeverRuns'
    <2>1. (IF id = NoSession THEN FirstStep(op) ELSE "target") \notin {"restartKill", "write", "run"}
             /\ pc[c] = "new"
        BY <1>1, OpsKnown DEF Arrive, At, FirstStep, EvalOps, TargetOps
    <2>2. QED
        BY <1>1, <2>1, Actors
           DEF Arrive, Goto, TypeOK, ControlTypes, DataTypes, ClearedNeverRuns
<1>2. ASSUME NEW a \in Actor, KillReap(a) PROVE ClearedNeverRuns'
    <2>1. AfterKill(pc[a]) \notin {"restartKill", "write", "run"} /\ pc[a] \notin {"write", "run"}
        BY <1>2 DEF KillReap, Killing, AfterKill
    <2>2. QED
        BY <1>2, <2>1, Actors
           DEF KillReap, Alive, Goto, TypeOK, ControlTypes, DataTypes, ClearedNeverRuns
<1>3. ASSUME NEW c \in Conn, Restart(c) PROVE ClearedNeverRuns'
    BY <1>3, Actors, KeyIsTyped, NullSession
       DEF Restart, Unregister, ForgetError, At, Goto, TypeOK, ControlTypes, DataTypes,
           ClearedNeverRuns
<1>4. ASSUME NEW c \in Conn,
             RequireExisting(c) \/ HasLiveSession(c) \/ Join(c) \/ StartRefused(c) \/
             StartFails(c) \/ CheckStale(c) \/ Proceed(c) \/ RestartStale(c)
      PROVE ClearedNeverRuns'
    BY <1>4, Actors
       DEF RequireExisting, HasLiveSession, Join, StartRefused, StartFails, CheckStale,
           Proceed, RestartStale, At, Goto, TypeOK, ControlTypes, DataTypes, ClearedNeverRuns
<1>5. ASSUME NEW c \in Conn,
             FlightDelete(c) \/ FastPath(c) \/ Reread(c) \/ Start(c) \/ Register(c)
      PROVE ClearedNeverRuns'
    BY <1>5, Actors
       DEF FlightDelete, Unregister, FastPath, Reread, Start, Register, At, Goto, TypeOK,
           ControlTypes, DataTypes, ClearedNeverRuns
<1>6. ASSUME NEW c \in Conn, Finish(c) PROVE ClearedNeverRuns'
    BY <1>6, Actors
       DEF Finish, ShareResult, Callers, At, Goto, TypeOK, ControlTypes, DataTypes,
           ClearedNeverRuns
<1>7. ASSUME NEW c \in Conn, Acquire(c) PROVE ClearedNeverRuns'
    BY <1>7, Actors
       DEF Acquire, At, Goto, TypeOK, ControlTypes, DataTypes, ClearedNeverRuns, Alive,
           ClearedIsDead
<1>8. ASSUME NEW c \in Conn,
             AcquireCancelled(c) \/ Write(c) \/ WriteFails(c) \/ GraceKill(c) \/ AcquireDead(c)
      PROVE ClearedNeverRuns'
    BY <1>8, Actors
       DEF AcquireCancelled, Conclude, Write, WriteFails, Release, GraceKill, AcquireDead, At, Goto, TypeOK,
           ControlTypes, DataTypes, ClearedNeverRuns
<1>9. ASSUME NEW c \in Conn, EvalReturns(c) PROVE ClearedNeverRuns'
    BY <1>9, Actors
       DEF EvalReturns, Conclude, Release, At, Goto, TypeOK, ControlTypes, DataTypes,
           ClearedNeverRuns
<1>10. ASSUME NEW c \in Conn, EvalDies(c) PROVE ClearedNeverRuns'
    BY <1>10, Actors
       DEF EvalDies, Conclude, Release, At, Goto, TypeOK, ControlTypes, DataTypes,
           ClearedNeverRuns
<1>11. ASSUME NEW c \in Conn,
             RecordError(c) \/ Free(c)
      PROVE ClearedNeverRuns'
    BY <1>11, Actors
       DEF RecordError, Free, At, Goto, TypeOK, ControlTypes, DataTypes, ClearedNeverRuns
<1>12. ASSUME NEW c \in Conn, Target(c) PROVE ClearedNeverRuns'
    BY <1>12, Actors
       DEF Target, At, Goto, TypeOK, ControlTypes, DataTypes, ClearedNeverRuns, TargetOps
<1>13. ASSUME NEW c \in Conn,
             Remove(c) \/ InterruptDelete(c) \/ Close(c) \/ Interrupt(c)
      PROVE ClearedNeverRuns'
    BY <1>13, Actors
       DEF Remove, Unregister, InterruptDelete, Close, TakeOut, ForgetError, Interrupt, At,
           Goto, TypeOK, ControlTypes, DataTypes, ClearedNeverRuns
<1>14. ASSUME NEW c \in Conn,
             InterruptSeen(c) \/ InterruptKill(c)
      PROVE ClearedNeverRuns'
    BY <1>14, Actors
       DEF InterruptSeen, InterruptKill, At, Goto, TypeOK, ControlTypes, DataTypes,
           ClearedNeverRuns
<1>15. ASSUME NEW a \in Actor, KillMark(a) PROVE ClearedNeverRuns'
    BY <1>15, Actors
       DEF KillMark, At, Goto, TypeOK, ControlTypes, DataTypes, ClearedNeverRuns
<1>16. ASSUME NEW k \in Key, Reap(k) PROVE ClearedNeverRuns'
    BY <1>16, Actors
       DEF Reap, TakeOut, Unregister, ForgetError, At, Goto, TypeOK, ControlTypes,
           DataTypes,
           ClearedNeverRuns
<1>17. ASSUME NEW s \in Session, ShutdownNext(s) PROVE ClearedNeverRuns'
    BY <1>17, Actors
       DEF ShutdownNext, At, Goto, TypeOK, ControlTypes, DataTypes, ClearedNeverRuns
<1>18. ASSUME NEW s \in Session, Crash(s) PROVE ClearedNeverRuns'
    BY <1>18, Actors
       DEF Crash, At, Goto, TypeOK, ControlTypes, DataTypes, ClearedNeverRuns
<1>19. ASSUME NEW o \in Owner, OwnerExits(o) PROVE ClearedNeverRuns'
    BY <1>19, Actors
       DEF OwnerExits, At, Goto, TypeOK, ControlTypes, DataTypes, ClearedNeverRuns
<1>20. ASSUME Scan \/ Rest \/ Stop \/ Shutdown \/ Exit PROVE ClearedNeverRuns'
    BY <1>20, Actors
       DEF Scan, Rest, Stop, Shutdown, Exit, At, Goto, TypeOK, ControlTypes, DataTypes,
           ClearedNeverRuns
<1>21. CASE UNCHANGED vars
    BY <1>21, Actors DEF vars, At, Goto, TypeOK, ControlTypes, DataTypes, ClearedNeverRuns
<1>22. QED
    BY <1>1, <1>2, <1>3, <1>4, <1>5, <1>6, <1>7, <1>8, <1>9, <1>10, <1>11, <1>12, <1>13,
       <1>14,
       <1>15, <1>16, <1>17, <1>18, <1>19, <1>20, <1>21
       DEF Next, HandlerStep, ClientStep, ReaperStep, MainStep, CreateStep, EvalStep,
           TargetStep,
           KillStep, Quiet, Actor

\* The invariant the other theorems rest on holds in every reachable state.
THEOREM Invariance == Spec => []IInv
<1>1. Init => IInv
    <2> SUFFICES ASSUME Init PROVE IInv
        OBVIOUS
    <2>1. TypeOK
        BY InitTypes
    <2>2. /\ \A c \in Conn : pc[c] = "new" /\ err[c] = "nil" /\ cleared[c] = NoSession
          /\ \A a \in Actor : ses[a] = NoSession
          /\ \A k \in Key : sessions[k] = NoSession
          /\ made = 0 /\ doomed = {}
        BY Actors, ActorsDistinct DEF Init
    <2>3. LeaderIsNamed /\ LeaderOwnsKey /\ StartingIsPrivate /\ NothingDoomedYet
        BY <2>2
           DEF LeaderIsNamed, LeaderOwnsKey, StartingIsPrivate, NothingDoomedYet,
               InFlight
    <2>4. OnlyMade
        BY <2>2 DEF OnlyMade, NoSession
    <2>5. DiedIsMarked /\ DiedIsUnregistered /\ ClearedIsDead /\ ClearedNeverRuns
        BY <2>2 DEF DiedIsMarked, DiedIsUnregistered, ClearedIsDead, ClearedNeverRuns
    <2>6. QED
        BY <2>1, <2>3, <2>4, <2>5 DEF IInv
<1>2. IInv /\ [Next]_vars => IInv'
    BY NextTypes, LeaderNamedStep, LeaderOwnsStep, OnlyMadeStep, StartingStep, DoomedStep,
       DiedMarkedStep, DiedUnregisteredStep, ClearedDeadStep, ClearedRunsStep DEF IInv
<1>3. QED
    BY <1>1, <1>2, PTL DEF Spec

\* An eval that reported a death left no dead session behind for the next call.
THEOREM NoDeadLeft == Spec => []DiedIsUnregistered
<1>1. IInv => DiedIsUnregistered
    BY DEF IInv
<1>2. QED
    BY <1>1, Invariance, PTL

\* A restart never runs its code in the session it removed.
THEOREM FreshNotCleared == Spec => []ClearedNeverRuns
<1>1. IInv => ClearedNeverRuns
    BY DEF IInv
<1>2. QED
    BY <1>1, Invariance, PTL
-----------------------------------------------------------------------------
(* What a step may not do *)

\* Register is the only step that fills a key, and its key is empty.
LEMMA EntriesStep == TypeOK /\ LeaderOwnsKey /\ [Next]_vars => KeepsEntries
<1> SUFFICES ASSUME TypeOK /\ LeaderOwnsKey, [Next]_vars PROVE KeepsEntries
    OBVIOUS
<1> USE DEF Map, World, Local, Loops
<1>1. ASSUME NEW c \in Conn,
             RequireExisting(c) \/ HasLiveSession(c) \/ FastPath(c) \/ Join(c) \/
             Reread(c) \/ Start(c) \/ StartRefused(c) \/ StartFails(c) \/ CheckStale(c) \/
             Proceed(c) \/ RestartStale(c)
      PROVE KeepsEntries
    BY <1>1
       DEF RequireExisting, HasLiveSession, FastPath, Join, Reread, Start, StartRefused,
           StartFails, CheckStale, Proceed, RestartStale, At, TypeOK, DataTypes, KeepsEntries
<1>2. ASSUME NEW c \in Conn,
             Restart(c) \/ FlightDelete(c) \/ Remove(c) \/ InterruptDelete(c) \/ Close(c)
      PROVE KeepsEntries
    BY <1>2, KeyIsTyped
       DEF Restart, Unregister, ForgetError, FlightDelete, Remove, InterruptDelete, Close,
           TakeOut, At, TypeOK, DataTypes, KeepsEntries
<1>3. ASSUME NEW c \in Conn, Register(c) PROVE KeepsEntries
    BY <1>3, KeyIsTyped
       DEF Register, At, TypeOK, DataTypes, KeepsEntries, LeaderOwnsKey, KeyOf
<1>4. ASSUME NEW c \in Conn, Finish(c) PROVE KeepsEntries
    BY <1>4
       DEF Finish, ShareResult, Callers, At, TypeOK, DataTypes, KeepsEntries
<1>5. ASSUME NEW c \in Conn,
             Acquire(c) \/ AcquireDead(c) \/ AcquireCancelled(c) \/ Write(c) \/ WriteFails(c) \/
             EvalReturns(c) \/ EvalDies(c) \/ GraceKill(c) \/ RecordError(c) \/ Target(c) \/
             Free(c) \/ Interrupt(c) \/ InterruptSeen(c) \/ InterruptKill(c)
      PROVE KeepsEntries
    BY <1>5
       DEF Acquire, AcquireDead, Conclude, AcquireCancelled, Write, WriteFails, EvalReturns,
           Release,
           EvalDies, GraceKill, RecordError, Target, Free, Interrupt, InterruptSeen,
           InterruptKill, At, TypeOK, DataTypes, KeepsEntries
<1>6. ASSUME NEW c \in Conn, NEW op \in Ops, NEW k \in Key, NEW id \in Session \cup {NoSession},
             NEW o \in Owner \cup {NoOwner}, Arrive(c, op, k, id, o)
      PROVE KeepsEntries
    BY <1>6
       DEF Arrive, At, TypeOK, DataTypes, KeepsEntries
<1>7. ASSUME NEW a \in Actor, KillMark(a) PROVE KeepsEntries
    BY <1>7
       DEF KillMark, At, TypeOK, DataTypes, KeepsEntries
<1>8. ASSUME NEW a \in Actor, KillReap(a) PROVE KeepsEntries
    BY <1>8
       DEF KillReap, At, TypeOK, DataTypes, KeepsEntries
<1>9. ASSUME NEW k \in Key, Reap(k) PROVE KeepsEntries
    BY <1>9
       DEF Reap, TakeOut, Unregister, ForgetError, At, TypeOK, DataTypes, KeepsEntries
<1>10. ASSUME NEW s \in Session, ShutdownNext(s) PROVE KeepsEntries
    BY <1>10
       DEF ShutdownNext, At, TypeOK, DataTypes, KeepsEntries
<1>11. ASSUME NEW s \in Session, Crash(s) PROVE KeepsEntries
    BY <1>11
       DEF Crash, At, TypeOK, DataTypes, KeepsEntries
<1>12. ASSUME NEW o \in Owner, OwnerExits(o) PROVE KeepsEntries
    BY <1>12
       DEF OwnerExits, At, TypeOK, DataTypes, KeepsEntries
<1>13. ASSUME Scan \/ Rest \/ Stop \/ Shutdown \/ Exit PROVE KeepsEntries
    BY <1>13
       DEF Scan, Rest, Stop, Shutdown, Exit, At, TypeOK, DataTypes, KeepsEntries
<1>14. CASE UNCHANGED vars
    BY <1>14 DEF vars, At, TypeOK, DataTypes, KeepsEntries
<1>15. QED
    BY <1>1, <1>2, <1>3, <1>4, <1>5, <1>6, <1>7, <1>8, <1>9, <1>10, <1>11, <1>12, <1>13,
       <1>14
       DEF Next, HandlerStep, ClientStep, ReaperStep, MainStep, CreateStep, EvalStep,
           TargetStep,
           KillStep, Quiet, Actor

\* getOrCreate never replaces a live entry of the map.
THEOREM NoOverwrite == Spec => NeverOverwritten
<1>1. IInv /\ [Next]_vars => [KeepsEntries]_vars
    BY EntriesStep DEF IInv
<1>2. QED
    BY <1>1, Invariance, PTL DEF Spec, NeverOverwritten

\* A step that moves one goroutine, none that starts or kills a session, and
\* leaves the map alone loses no session.
LEMMA NothingLost ==
    ASSUME TypeOK, NEW a \in Actor, pc[a] \notin Killing \cup {"starting"},
           \A b \in Actor : b # a => pc'[b] = pc[b] /\ ses'[b] = ses[b],
           UNCHANGED <<sessions, doomed>>
    PROVE  LosesOnlyEvicted
    BY DEF LosesOnlyEvicted, Accounted, Registered

\* What leaves the map goes to the goroutine that takes it out, which kills it.
LEMMA TakenOut ==
    ASSUME TypeOK, NEW a \in Actor, NEW k \in Key, NEW l \in Killing,
           pc[a] \notin Killing \cup {"starting"},
           \A b \in Actor : b # a => pc'[b] = pc[b] /\ ses'[b] = ses[b],
           sessions' = [sessions EXCEPT ![k] = NoSession],
           sessions[k] # NoSession => pc'[a] = l /\ ses'[a] = sessions[k],
           doomed' = doomed
    PROVE  LosesOnlyEvicted
    BY NullSession DEF LosesOnlyEvicted, Accounted, Registered, TypeOK, DataTypes

\* Every step hands a session it takes out to a goroutine that kills it, or evicts.
LEMMA LossStep ==
    TypeOK /\ LeaderOwnsKey /\ NothingDoomedYet /\ [Next]_vars
    => LosesOnlyEvicted
<1> SUFFICES ASSUME TypeOK /\ LeaderOwnsKey /\ NothingDoomedYet, [Next]_vars PROVE LosesOnlyEvicted
    OBVIOUS
<1> USE DEF Map, World, Local, Loops
<1>1. ASSUME NEW c \in Conn, Restart(c) PROVE LosesOnlyEvicted
    <2>1. pc[c] = "restart" /\ KeyOf(c) \in Key /\ "restartKill" \in Killing
        BY <1>1, KeyIsTyped DEF Restart, At, Killing
    <2>2. /\ sessions' = [sessions EXCEPT ![KeyOf(c)] = NoSession] /\ UNCHANGED doomed
          /\ sessions[KeyOf(c)] # NoSession => pc'[c] = "restartKill" /\ ses'[c] = sessions[KeyOf(c)]
          /\ \A b \in Actor : b # c => pc'[b] = pc[b] /\ ses'[b] = ses[b]
        BY <1>1, Actors DEF Restart, TakeOut, Unregister, Goto, TypeOK, ControlTypes
    <2>3. pc[c] \notin Killing \cup {"starting"}
        BY <2>1 DEF Killing
    <2>4. QED
        BY <2>1, <2>2, <2>3, TakenOut, Actors
<1>2. ASSUME NEW c \in Conn,
             RequireExisting(c) \/ HasLiveSession(c) \/ FastPath(c) \/ Join(c) \/
             Reread(c) \/ Start(c) \/ StartRefused(c) \/ CheckStale(c) \/ Proceed(c) \/
             RestartStale(c)
      PROVE LosesOnlyEvicted
    <2>1. /\ pc[c] \notin Killing \cup {"starting"} /\ UNCHANGED <<sessions, doomed>>
          /\ \A b \in Actor : b # c => pc'[b] = pc[b] /\ ses'[b] = ses[b]
        BY <1>2, Actors
           DEF RequireExisting, HasLiveSession, FastPath, Join, Reread, Start, StartRefused,
               CheckStale, Proceed, RestartStale, At, Goto, Killing, TypeOK, ControlTypes
    <2>2. QED
        BY <2>1, NothingLost, Actors
<1>3. ASSUME NEW c \in Conn, FlightDelete(c) PROVE LosesOnlyEvicted
    <2>1. /\ pc[c] = "flightDelete" /\ KeyOf(c) \in Key /\ UNCHANGED <<ses, doomed, proc>>
          /\ sessions' = [sessions EXCEPT ![KeyOf(c)] = NoSession]
          /\ \A b \in Actor : b # c => pc'[b] = pc[b]
        BY <1>3, KeyIsTyped DEF FlightDelete, At, Goto, Unregister, TypeOK, ControlTypes
    <2>2. sessions[KeyOf(c)] = NoSession \/ ~Running(sessions[KeyOf(c)])
        BY <2>1 DEF LeaderOwnsKey
    <2>3. pc[c] \notin Killing \cup {"starting"}
        BY <2>1 DEF Killing
    <2>4. QED
        BY <2>1, <2>2, <2>3, NullSession
           DEF LosesOnlyEvicted, Accounted, Registered, Running, TypeOK, DataTypes
<1>4. ASSUME NEW c \in Conn, StartFails(c) PROVE LosesOnlyEvicted
    <2>1. pc'[c] = "startKill" /\ "startKill" \in Killing /\ UNCHANGED <<sessions, ses, doomed>>
        BY <1>4, Actors DEF StartFails, Goto, Killing, TypeOK, ControlTypes
    <2>2. \A b \in Actor : b # c => pc'[b] = pc[b]
        BY <1>4 DEF StartFails, Goto, TypeOK, ControlTypes
    <2>3. QED
        BY <2>1, <2>2, Actors DEF LosesOnlyEvicted, Accounted, Registered
<1>5. ASSUME NEW c \in Conn, Register(c) PROVE LosesOnlyEvicted
    <2>1. /\ KeyOf(c) \in Key /\ sessions[KeyOf(c)] = NoSession
          /\ sessions' = [sessions EXCEPT ![KeyOf(c)] = ses[c]] /\ UNCHANGED <<ses, doomed>>
        BY <1>5, KeyIsTyped DEF Register, At, LeaderOwnsKey
    <2>2. \A b \in Actor : b # c => pc'[b] = pc[b]
        BY <1>5 DEF Register, Goto, TypeOK, ControlTypes
    <2>3. \A s \in Session : Registered(s) \/ s = ses[c] => Registered(s)'
        BY <2>1, NullSession DEF Registered, TypeOK, DataTypes
    <2>4. QED
        BY <2>1, <2>2, <2>3 DEF LosesOnlyEvicted, Accounted
<1>6. ASSUME NEW c \in Conn, Finish(c) PROVE LosesOnlyEvicted
    <2>1. \A q \in Callers(c) : pc[q] \in {"finish", "wait"}
        BY <1>6 DEF Finish, ShareResult, At, Callers
    <2>2. \A b \in Actor : b \notin Callers(c) => pc'[b] = pc[b] /\ ses'[b] = ses[b]
        BY <1>6 DEF Finish, ShareResult
    <2>3. UNCHANGED <<sessions, doomed>>
        BY <1>6 DEF Finish, ShareResult
    <2>4. \A b \in Actor : pc[b] \in Killing \cup {"starting"} => pc'[b] = pc[b] /\ ses'[b] = ses[b]
        BY <2>1, <2>2 DEF Killing
    <2>5. QED
        BY <2>3, <2>4 DEF LosesOnlyEvicted, Accounted, Registered
<1>7. ASSUME NEW c \in Conn,
             Acquire(c) \/ AcquireDead(c) \/ AcquireCancelled(c) \/ Write(c) \/ WriteFails(c) \/
             EvalReturns(c) \/ EvalDies(c) \/ GraceKill(c) \/ RecordError(c)
      PROVE LosesOnlyEvicted
    <2>1. /\ pc[c] \notin Killing \cup {"starting"} /\ UNCHANGED <<sessions, doomed>>
          /\ \A b \in Actor : b # c => pc'[b] = pc[b] /\ ses'[b] = ses[b]
        BY <1>7, Actors
           DEF Acquire, AcquireDead, Conclude, AcquireCancelled, Write, WriteFails, EvalReturns,
               Release, EvalDies, GraceKill, RecordError, At, Goto, Killing, TypeOK,
               ControlTypes
    <2>2. QED
        BY <2>1, NothingLost, Actors
<1>8. ASSUME NEW c \in Conn,
             Remove(c) \/ InterruptDelete(c)
      PROVE LosesOnlyEvicted
    <2>1. Evicts
        BY <1>8, Actors DEF Remove, InterruptDelete, At, Goto, Evicts, TypeOK, ControlTypes
    <2>2. QED
        BY <2>1 DEF LosesOnlyEvicted
<1>9. ASSUME NEW c \in Conn, Close(c) PROVE LosesOnlyEvicted
    <2>1. pc[c] = "close" /\ KeyOf(c) \in Key /\ "closeKill" \in Killing
        BY <1>9, KeyIsTyped DEF Close, At, Killing
    <2>2. /\ sessions' = [sessions EXCEPT ![KeyOf(c)] = NoSession] /\ UNCHANGED doomed
          /\ sessions[KeyOf(c)] # NoSession => pc'[c] = "closeKill" /\ ses'[c] = sessions[KeyOf(c)]
          /\ \A b \in Actor : b # c => pc'[b] = pc[b] /\ ses'[b] = ses[b]
        BY <1>9, Actors DEF Close, TakeOut, Unregister, Goto, TypeOK, ControlTypes
    <2>3. pc[c] \notin Killing \cup {"starting"}
        BY <2>1 DEF Killing
    <2>4. QED
        BY <2>1, <2>2, <2>3, TakenOut, Actors
<1>10. ASSUME NEW c \in Conn,
             Target(c) \/ Free(c) \/ Interrupt(c) \/ InterruptSeen(c) \/ InterruptKill(c)
      PROVE LosesOnlyEvicted
    <2>1. /\ pc[c] \notin Killing \cup {"starting"} /\ UNCHANGED <<sessions, doomed>>
          /\ \A b \in Actor : b # c => pc'[b] = pc[b] /\ ses'[b] = ses[b]
        BY <1>10, Actors
           DEF Target, Free, Interrupt, InterruptSeen, InterruptKill, At, Goto, Killing,
               TypeOK, ControlTypes
    <2>2. QED
        BY <2>1, NothingLost, Actors
<1>11. ASSUME NEW c \in Conn, NEW op \in Ops, NEW k \in Key, NEW id \in Session \cup {NoSession},
             NEW o \in Owner \cup {NoOwner}, Arrive(c, op, k, id, o)
      PROVE LosesOnlyEvicted
    <2>1. pc[c] = "new"
        BY <1>11 DEF Arrive, At
    <2>2. /\ pc[c] \notin Killing \cup {"starting"} /\ UNCHANGED <<sessions, doomed>>
          /\ \A b \in Actor : b # c => pc'[b] = pc[b] /\ ses'[b] = ses[b]
        BY <1>11, <2>1 DEF Arrive, Goto, Killing, TypeOK, ControlTypes
    <2>3. QED
        BY <2>2, NothingLost, Actors
<1>12. ASSUME NEW a \in Actor, KillReap(a) PROVE LosesOnlyEvicted
    <2>1. UNCHANGED <<sessions, doomed>> /\ proc' = [proc EXCEPT ![ses[a]] = "exited"]
        BY <1>12 DEF KillReap
    <2>2. \A b \in Actor : b # a => pc'[b] = pc[b] /\ ses'[b] = ses[b]
        BY <1>12 DEF KillReap, Goto, TypeOK, ControlTypes
    <2>3. ASSUME NEW s \in Session, s = ses[a] PROVE ~Running(s)'
        BY <2>1, <2>3 DEF Running, TypeOK, DataTypes
    <2>4. QED
        BY <2>1, <2>2, <2>3 DEF LosesOnlyEvicted, Accounted, Registered
<1>13. ASSUME NEW k \in Key, Reap(k) PROVE LosesOnlyEvicted
    <2>1. pc[Reaper] = "reap" /\ "reapKill" \in Killing
        BY <1>13 DEF Reap, At, Killing
    <2>2. /\ sessions' = [sessions EXCEPT ![k] = NoSession] /\ UNCHANGED doomed
          /\ sessions[k] # NoSession => pc'[Reaper] = "reapKill" /\ ses'[Reaper] = sessions[k]
          /\ \A b \in Actor : b # Reaper => pc'[b] = pc[b] /\ ses'[b] = ses[b]
        BY <1>13, Actors DEF Reap, TakeOut, Unregister, Goto, TypeOK, ControlTypes
    <2>3. pc[Reaper] \notin Killing \cup {"starting"}
        BY <2>1 DEF Killing
    <2>4. QED
        BY <2>1, <2>2, <2>3, TakenOut, Actors
<1>14. ASSUME Shutdown PROVE LosesOnlyEvicted
    <2>1. doomed = {} /\ pc[Main] = "shutdown"
        BY <1>14 DEF Shutdown, At, NothingDoomedYet
    <2>2. doomed' = {sessions[k] : k \in Key} \ {NoSession} /\ UNCHANGED ses
        BY <1>14 DEF Shutdown
    <2>3. \A b \in Actor : b # Main => pc'[b] = pc[b]
        BY <1>14 DEF Shutdown, Goto, TypeOK, ControlTypes
    <2>4. pc[Main] \notin Killing \cup {"starting"}
        BY <2>1 DEF Killing
    <2>5. \A s \in Session : Registered(s) => s \in doomed'
        BY <2>2, NullSession DEF Registered
    <2>6. QED
        BY <2>1, <2>3, <2>2, <2>4, <2>5 DEF LosesOnlyEvicted, Accounted
<1>15. ASSUME NEW s \in Session, ShutdownNext(s) PROVE LosesOnlyEvicted
    <2>1. /\ pc[Main] = "shutKilling" /\ "shutKill" \in Killing
          /\ pc'[Main] = "shutKill" /\ ses'[Main] = s
          /\ UNCHANGED sessions /\ doomed' = doomed \ {s}
        BY <1>15, Actors DEF ShutdownNext, At, Goto, Killing, TypeOK, ControlTypes
    <2>2. \A b \in Actor : b # Main => pc'[b] = pc[b] /\ ses'[b] = ses[b]
        BY <1>15 DEF ShutdownNext, Goto, TypeOK, ControlTypes
    <2>3. pc[Main] \notin Killing \cup {"starting"}
        BY <2>1 DEF Killing
    <2>4. QED
        BY <2>1, <2>2, <2>3, Actors DEF LosesOnlyEvicted, Accounted, Registered
<1>16. ASSUME Scan \/ Rest \/ Stop \/ Exit PROVE LosesOnlyEvicted
    <2>1. PICK a \in {Reaper, Main} :
             /\ pc[a] \notin Killing \cup {"starting"} /\ UNCHANGED <<sessions, doomed>>
             /\ \A b \in Actor : b # a => pc'[b] = pc[b] /\ ses'[b] = ses[b]
        BY <1>16 DEF Scan, Rest, Stop, Exit, At, Goto, Killing, TypeOK, ControlTypes
    <2>2. QED
        BY <2>1, NothingLost, Actors
<1>17. ASSUME NEW a \in Actor, KillMark(a) PROVE LosesOnlyEvicted
    BY <1>17
       DEF KillMark, Accounted, Registered, LosesOnlyEvicted
<1>18. ASSUME NEW s \in Session, Crash(s) PROVE LosesOnlyEvicted
    BY <1>18
       DEF Crash, Accounted, Registered, LosesOnlyEvicted
<1>19. ASSUME NEW o \in Owner, OwnerExits(o) PROVE LosesOnlyEvicted
    BY <1>19
       DEF OwnerExits, Accounted, Registered, LosesOnlyEvicted
<1>20. CASE UNCHANGED vars
    BY <1>20 DEF vars, Accounted, Registered, LosesOnlyEvicted
<1>21. QED
    BY <1>1, <1>2, <1>3, <1>4, <1>5, <1>6, <1>7, <1>8, <1>9, <1>10, <1>11, <1>12, <1>13,
       <1>14,
       <1>15, <1>16, <1>17, <1>18, <1>19, <1>20
       DEF Next, HandlerStep, ClientStep, ReaperStep, MainStep, CreateStep, EvalStep,
           TargetStep,
           KillStep, Quiet, Actor

\* Every session that leaves the manager's hands is killed first, but for the two
\* unconditional deletes.
THEOREM NoLossButEviction == Spec => LostOnlyByEviction
<1>1. IInv /\ [Next]_vars => [LosesOnlyEvicted]_vars
    BY LossStep DEF IInv
<1>2. QED
    BY <1>1, Invariance, PTL DEF Spec, LostOnlyByEviction
=============================================================================
