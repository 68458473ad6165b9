--------------------------- MODULE Handshake_proofs ---------------------------
(***************************************************************************)
(* Proofs about Handshake, for any number of connections of other processes: *)
(* types, the control channel of a start that succeeds, what makes one fail, *)
(* and what that leaves.                                                     *)
(***************************************************************************)
EXTENDS Handshake, TLAPS

\* The runtime dials once, and prints one sentinel for each statement.
DialsOnce == interp \in {"starting", "ready"} => conn[Runtime] = "none"
SaysInOrder ==
    /\ preload => stmt = 1
    /\ interp = "starting" => said = 0
    /\ interp = "ready" => ~preload /\ said = 1
    /\ interp \in {"dialled", "authenticated"} => said = stmt - 1 /\ (preload \/ stmt = 2)

\* A process that exits has its interpreter with it, unless that was a child of it
\* and start has killed it.
ExitsTogether == proc = "exited" => interp = "gone" \/ (launcher /\ pc # "run")

\* start ends when all it has sent was run, or when nobody will.
EndsWhenRun ==
    /\ pc \in {"wait", "kill", "ok", "failed"} => said >= stmt \/ interp = "gone"
    /\ pc = "failed" => proc = "exited"

\* None but the runtime gets past the token.
OnlyRuntime == \A p \in Peer : conn[p] \in {"verified", "won", "control"} => p = Runtime

\* What acceptControl has handed over is open until a kill closes it.
ControlIsOpen ==
    control # NoPeer => control = Runtime /\ (conn[Runtime] = "control" \/ pc = "failed")

\* What makes start give up has a cause ...
GivesUpForCause ==
    /\ pc \in {"reap", "kill", "failed"} => cause # {}
    /\ proc = "exited" \/ interp = "gone" => cause # {}

\* ... and acceptControl comes back with nothing only for one.
EmptyForCause ==
    /\ acc = "done" /\ control = NoPeer => cause # {}
    /\ acc # "done" /\ late => cause # {}
    /\ acc = "final" \/ (acc # "done" /\ ~listening) => won # NoPeer \/ cause # {}

IInv ==
    /\ TypeOK /\ DialsOnce /\ SaysInOrder
    /\ OnlyRuntime /\ ControlIsOpen /\ OkHasControl
    /\ GivesUpForCause /\ EmptyForCause /\ ExitsTogether /\ EndsWhenRun
-----------------------------------------------------------------------------
LEMMA InitHolds == Init => IInv
<1> SUFFICES ASSUME Init PROVE IInv
    OBVIOUS
<1>1. TypeOK
    <2>1. stmt \in 1..2 /\ said \in 0..2
        BY DEF Init
    <2>2. conn \in [Peer -> {"none", "backlog", "authing", "verified", "won", "control",
                            "closed"}]
        BY DEF Init
    <2> QED BY <2>1, <2>2 DEF Init, TypeOK
<1>2. \A p \in Peer : conn[p] = "none"
    BY DEF Init
<1>3. DialsOnce /\ SaysInOrder /\ OnlyRuntime
    BY <1>2 DEF Init, DialsOnce, SaysInOrder, OnlyRuntime, Peer
<1>4. ControlIsOpen /\ OkHasControl /\ GivesUpForCause /\ EmptyForCause /\ ExitsTogether /\ EndsWhenRun
    BY DEF Init, ControlIsOpen, OkHasControl, GivesUpForCause, EmptyForCause, ExitsTogether, EndsWhenRun
<1> QED BY <1>1, <1>3, <1>4 DEF IInv

\* start and the timer
LEMMA StartHolds ==
    ASSUME IInv, StartStep \/ TimesOut
    PROVE  IInv'
<1> USE PeersDistinct
    DEF IInv, TypeOK, DialsOnce, SaysInOrder, OnlyRuntime, ControlIsOpen, OkHasControl,
        GivesUpForCause, EmptyForCause, ExitsTogether, EndsWhenRun, Peer, Child, Acceptor
<1>1. CASE Started BY <1>1 DEF Started
<1>2. CASE Bootstrapped BY <1>2 DEF Bootstrapped
<1>3. CASE ReadersSeeEOF BY <1>3 DEF ReadersSeeEOF
<1>4. CASE TimesOut BY <1>4 DEF TimesOut
<1>5. CASE Reaped BY <1>5 DEF Reaped
<1>6. CASE Ready BY <1>6 DEF Ready
<1>7. CASE Kill
    <2>1. conn' = [p \in Peer |-> IF p = control \/ conn[p] = "backlog" THEN "closed" ELSE conn[p]]
        BY <1>7 DEF Kill, Reset
    <2>2. TypeOK' BY <1>7, <2>1 DEF Kill
    <2>3. (DialsOnce /\ SaysInOrder /\ ExitsTogether /\ EndsWhenRun)' BY <1>7, <2>1 DEF Kill
    <2>4. (OnlyRuntime /\ ControlIsOpen /\ OkHasControl)' BY <1>7, <2>1 DEF Kill
    <2>5. (GivesUpForCause /\ EmptyForCause)' BY <1>7 DEF Kill
    <2> QED BY <2>2, <2>3, <2>4, <2>5
<1> QED BY <1>1, <1>2, <1>3, <1>4, <1>5, <1>6, <1>7 DEF StartStep

\* the interpreter and the other processes
LEMMA WorldHolds ==
    ASSUME IInv, RunEmpty \/ Dial \/ SendToken \/ Loaded \/ Exit \/ EndOfInput
                 \/ (\E p \in Peer : Knock(p))
    PROVE  IInv'
<1> USE PeersDistinct
    DEF IInv, TypeOK, DialsOnce, SaysInOrder, OnlyRuntime, ControlIsOpen, OkHasControl,
        GivesUpForCause, EmptyForCause, ExitsTogether, EndsWhenRun, Peer, Starter, Child, Acceptor
<1>1. CASE RunEmpty BY <1>1 DEF RunEmpty
<1>2. CASE Dial BY <1>2 DEF Dial
<1>3. CASE SendToken BY <1>3 DEF SendToken
<1>4. CASE Loaded BY <1>4 DEF Loaded
<1>5. CASE Exit BY <1>5 DEF Exit
<1>6. CASE EndOfInput BY <1>6 DEF EndOfInput, AtPrompt
<1>7. ASSUME NEW p \in Peer, Knock(p) PROVE IInv'
    BY <1>7 DEF Knock
<1> QED BY <1>1, <1>2, <1>3, <1>4, <1>5, <1>6, <1>7

\* acceptControl and its authenticating goroutines
LEMMA AcceptHolds ==
    ASSUME IInv, \/ AcceptStep \/ Deadline
                 \/ \E p \in Peer : Verify(p) \/ Reject(p) \/ Win(p)
    PROVE  IInv'
<1> USE PeersDistinct
    DEF IInv, TypeOK, DialsOnce, SaysInOrder, OnlyRuntime, ControlIsOpen, OkHasControl,
        GivesUpForCause, EmptyForCause, ExitsTogether, EndsWhenRun, Peer, Starter, Child, Acceptor
<1>1. ASSUME NEW p \in Peer, Accept(p) PROVE IInv'
    BY <1>1 DEF Accept
<1>2. CASE AcceptFails BY <1>2 DEF AcceptFails
<1>3. CASE Peek BY <1>3 DEF Peek
<1>4. CASE Deadline BY <1>4 DEF Deadline
<1>5. ASSUME NEW p \in Peer, Verify(p) PROVE IInv'
    BY <1>5 DEF Verify
<1>6. ASSUME NEW p \in Peer, Reject(p) PROVE IInv'
    BY <1>6 DEF Reject
<1>7. ASSUME NEW p \in Peer, Win(p) PROVE IInv'
    <2>1. p = Runtime /\ won = NoPeer
        BY <1>7 DEF Win
    <2>2. won' = Runtime /\ listening' = FALSE
        BY <1>7, <2>1 DEF Win
    <2>3. conn' = [q \in Peer |-> IF q = Runtime THEN "won"
                                  ELSE IF conn[q] = "backlog" THEN "closed" ELSE conn[q]]
        BY <1>7, <2>1 DEF Win, Reset
    <2>4. conn[Runtime] = "verified"
        BY <1>7, <2>1 DEF Win
    <2>5. UNCHANGED <<Starter, Child, acc, late, control, cause>>
        BY <1>7 DEF Win
    <2>6. TypeOK'
        <3>1. conn' \in [Peer -> {"none", "backlog", "authing", "verified", "won", "control",
                                 "closed"}]
            BY <2>3
        <3>2. conn'[Runtime] = "won" /\ won' \in Peer
            BY <2>2, <2>3
        <3>3. TypeOK
            OBVIOUS
        <3> HIDE DEF IInv, DialsOnce, SaysInOrder, OnlyRuntime, ControlIsOpen, OkHasControl,
                     GivesUpForCause, EmptyForCause, ExitsTogether, EndsWhenRun
        <3>4. UNCHANGED <<pc, stmt, proc, launcher, preload, interp, said, acc, late, control, cause>>
            BY <2>5
        <3>5. listening' \in BOOLEAN /\ (won' # NoPeer => conn'[won'] = "won")
            BY <2>2, <3>2
        <3> QED BY <3>1, <3>2, <3>3, <3>4, <3>5
    <2>7. (DialsOnce /\ SaysInOrder /\ OnlyRuntime)' BY <2>3, <2>4, <2>5
    <2>8. (ControlIsOpen /\ OkHasControl)' BY <2>3, <2>4, <2>5
    <2>9. (GivesUpForCause /\ EmptyForCause /\ ExitsTogether /\ EndsWhenRun)' BY <2>2, <2>5
    <2> QED BY <2>6, <2>7, <2>8, <2>9
<1> QED BY <1>1, <1>2, <1>3, <1>4, <1>5, <1>6, <1>7 DEF AcceptStep

\* The invariant holds.
THEOREM Invariance == Spec => []IInv
<1>1. IInv /\ [Next]_vars => IInv'
    <2> SUFFICES ASSUME IInv, [Next]_vars PROVE IInv'
        OBVIOUS
    <2>1. CASE Returned \/ UNCHANGED vars
        <3>1. TypeOK'
            <4>1. UNCHANGED vars
                BY <2>1 DEF Returned
            <4>2. TypeOK
                BY DEF IInv
            <4> QED BY <4>1, <4>2 DEF vars, TypeOK
        <3>2. (DialsOnce /\ SaysInOrder /\ OnlyRuntime)'
            BY <2>1 DEF Returned, vars, IInv, DialsOnce, SaysInOrder, OnlyRuntime
        <3>3. (ControlIsOpen /\ OkHasControl)'
            BY <2>1 DEF Returned, vars, IInv, ControlIsOpen, OkHasControl
        <3>4. (GivesUpForCause /\ EmptyForCause /\ ExitsTogether /\ EndsWhenRun)'
            BY <2>1 DEF Returned, vars, IInv, GivesUpForCause, EmptyForCause, ExitsTogether, EndsWhenRun
        <3> QED BY <3>1, <3>2, <3>3, <3>4 DEF IInv
    <2> QED BY <2>1, StartHolds, WorldHolds, AcceptHolds DEF Next
<1> QED BY InitHolds, <1>1, PTL DEF Spec

\* The state keeps its shape; in particular a connection that was sent to the
\* channel is open, and controlConn is set only when acceptControl is done.
THEOREM Typing == Spec => []TypeOK
<1>1. IInv => TypeOK BY DEF IInv
<1> QED BY Invariance, <1>1, PTL

\* Whoever else connects, a start that succeeds has the runtime's connection.
THEOREM Connected == Spec => []OkHasControl
<1>1. IInv => OkHasControl BY DEF IInv
<1> QED BY Invariance, <1>1, PTL

\* Strays alone never make a start fail.
THEOREM StraysHarmless == Spec => []FailsForCause
<1>1. IInv => FailsForCause BY DEF IInv, GivesUpForCause, FailsForCause
<1> QED BY Invariance, <1>1, PTL

\* What a start that fails may leave has run all it was sent: start waits for the
\* readers before it kills, also after a timeout.
THEOREM NoneLeft == Spec => []LeavesOnlyIdle
<1>1. IInv => LeavesOnlyIdle
    BY DEF IInv, TypeOK, SaysInOrder, ExitsTogether, EndsWhenRun, LeavesOnlyIdle, AtPrompt
<1> QED BY Invariance, <1>1, PTL
=============================================================================
