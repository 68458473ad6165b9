-------------------------- MODULE SessionEval_proofs --------------------------
(***************************************************************************)
(* Proofs about SessionEval, for any evals and interrupts of other users:    *)
(* types, the clean start of every eval, the status that is its own, and     *)
(* the refinement of EvalService.                                            *)
(***************************************************************************)
EXTENDS SessionEval, TLAPS

\* Where an eval stands while it has the sem.
Holds == {"taken", "mark", "write", "scan", "status", "clear", "release"}

\* The sem names the one eval that is past it.
SemIsHeld == \A e \in Eval : pc[e] \in Holds <=> sem = e

\* busySince is set for the eval that has the sem.
BusyIsHolder == busy => pc[sem] \in {"write", "scan", "status", "clear"}

\* A running interpreter works for the eval that scans its output, and prints
\* the sentinel when it is done with it.
RunsForScan ==
    proc = "running" =>
        /\ (cur = NoEval) <=> (phase = "idle")
        /\ cur # NoEval => pc[cur] = "scan" /\ ~sentinel
        /\ sentinel => sem # NoEval /\ pc[sem] = "scan"

KillIsMarked == killed => dead

\* A write fails only on a session that is lost.
WriteFailsWhenLost ==
    \A e \in Eval : pc[e] \in {"clear", "release"} /\ result[e].says = "write"
                     => dead \/ proc = "exited"

\* Unless the drain of an eval was overtaken, what waits on the control socket, or
\* behind it, is of the eval that waits for it.
LinesOf(e) ==
    /\ \A i \in DOMAIN wire : wire[i] = e
    /\ \A i \in DOMAIN ctrlLines : ctrlLines[i] = e

LinesAreOwn ==
    \A e \in Eval : pc[e] \in {"scan", "status"} => LinesOf(e) \/ e \in overtaken

\* No interrupt has found an eval yet, and none has waited for its status in vain.
Calm ==
    /\ \A i \in Interrupter : aim[i] = NoEval
    /\ \A e \in Eval : result[e].says # "interrupted"

\* A wait that was in vain ends the eval.
VainIsLast ==
    \A e \in Eval : result[e].says = "interrupted" => pc[e] \in {"clear", "release", "done"}

\* The eval at work has had its status sent, and has not taken it.
Reported ==
    phase \in {"ok", "over"} \/ sentinel \/ \E e \in Eval : pc[e] = "status"

\* Until then every status is sent once and taken by its eval, so that nothing is
\* left on the way for the drain of the next.
NoStrands ==
    Calm =>
        /\ ~signal /\ overtaken = {}
        /\ proc = "running" => Len(wire) + Len(ctrlLines) = IF Reported THEN 1 ELSE 0

IInv ==
    /\ TypeOK
    /\ SemIsHeld /\ BusyIsHolder /\ RunsForScan /\ KillIsMarked /\ WriteFailsWhenLost
    /\ LinesAreOwn /\ VainIsLast /\ NoStrands
-----------------------------------------------------------------------------
(* Types *)

\* An interpreter that is not idle works for an eval.
LEMMA Worker ==
    ASSUME TypeOK, RunsForScan, proc = "running", phase # "idle"
    PROVE  cur \in Eval /\ pc[cur] = "scan"
    BY DEF TypeOK, RunsForScan

\* A step keeps the types; that the session is busy only for a holder of the sem
\* needs to know who that is.
LEMMA NextTypes ==
    ASSUME TypeOK, SemIsHeld, BusyIsHolder, RunsForScan, [Next]_vars
    PROVE  TypeOK'
<1> USE EvalsDistinct DEF Process, Control, Watch, Past, Goto, Return, GoSide, Moves, Works,
        EvalDone, NoLine, Interrupter
<1>1. ASSUME NEW e \in Eval, Call(e) \/ Take(e) \/ GiveUp(e) \/ SpawnWatcher(e) \/ MarkBusy(e)
      PROVE  TypeOK'
    <2>1. CASE Call(e) BY <2>1 DEF TypeOK, Call
    <2>2. CASE Take(e) BY <2>2 DEF TypeOK, Take
    <2>3. CASE GiveUp(e) BY <2>3 DEF TypeOK, GiveUp
    <2>4. CASE SpawnWatcher(e) BY <2>4 DEF TypeOK, SpawnWatcher
    <2>5. CASE MarkBusy(e) BY <2>5 DEF TypeOK, MarkBusy, SemIsHeld, Holds
    <2> QED BY <1>1, <2>1, <2>2, <2>3, <2>4, <2>5
<1>2. ASSUME NEW e \in Eval, RefuseDead(e) \/ ClearBusy(e) \/ Release(e)
      PROVE  TypeOK'
    <2> USE DEF SemIsHeld, BusyIsHolder, Holds
    <2>1. CASE RefuseDead(e) BY <2>1 DEF TypeOK, RefuseDead
    <2>2. CASE ClearBusy(e) BY <2>2 DEF TypeOK, ClearBusy
    <2>3. CASE Release(e) BY <2>3 DEF TypeOK, Release
    <2> QED BY <1>2, <2>1, <2>2, <2>3
<1>3. ASSUME NEW e \in Eval, Write(e) \/ WriteFails(e) \/ ScanEnds(e) \/ ScanHitsEOF(e)
      PROVE  TypeOK'
    <2>1. CASE Write(e) BY <2>1 DEF TypeOK, Write, Send
    <2>2. CASE WriteFails(e) BY <2>2 DEF TypeOK, WriteFails
    <2>3. CASE ScanEnds(e) BY <2>3 DEF TypeOK, ScanEnds
    <2>4. CASE ScanHitsEOF(e) BY <2>4 DEF TypeOK, ScanHitsEOF
    <2> QED BY <1>3, <2>1, <2>2, <2>3, <2>4
<1>4. ASSUME NEW e \in Eval, TakeStatus(e) \/ StatusEOF(e) \/ StatusTimesOut(e)
      PROVE  TypeOK'
    <2>1. CASE TakeStatus(e)
        <3>1. Head(ctrlLines) \in Eval /\ Tail(ctrlLines) \in Seq(Eval)
            BY <2>1 DEF TypeOK, TakeStatus
        <3> QED BY <2>1, <3>1 DEF TypeOK, TakeStatus, Status
    <2>2. CASE StatusEOF(e) BY <2>2 DEF TypeOK, StatusEOF
    <2>3. CASE StatusTimesOut(e) BY <2>3 DEF TypeOK, StatusTimesOut
    <2> QED BY <1>4, <2>1, <2>2, <2>3
<1>5. ASSUME NEW e \in Eval, Cancel(e) \/ Look(e)
      PROVE  TypeOK'
    <2>1. CASE Cancel(e) BY <2>1 DEF TypeOK, Cancel
    <2>2. CASE Look(e) BY <2>2 DEF TypeOK, Look
    <2> QED BY <1>5, <2>1, <2>2
<1>6. ASSUME NEW i \in Interrupter, Aim(i) \/ Poll(i) \/ Resend(i) \/ Deadline(i)
      PROVE  TypeOK'
    <2>1. CASE Aim(i)
        <3>1. CASE aim' = aim /\ int' = [int EXCEPT ![i] = "off"]
            BY <2>1, <3>1 DEF TypeOK, Aim
        <3>2. CASE busy /\ aim' = [aim EXCEPT ![i] = sem]
            BY <2>1, <3>2 DEF TypeOK, Aim, Signal
        <3> QED BY <2>1, <3>1, <3>2 DEF Aim
    <2>2. CASE Poll(i) BY <2>2 DEF TypeOK, Poll
    <2>3. CASE Resend(i) BY <2>3 DEF TypeOK, Resend, Signal
    <2>4. CASE Deadline(i) BY <2>4 DEF TypeOK, Deadline, Signal, ProcessExits
    <2> QED BY <1>6, <2>1, <2>2, <2>3, <2>4
<1>7. ASSUME NEW u \in User, Ask(u)
      PROVE  TypeOK'
    BY <1>7 DEF TypeOK, Ask
<1>8. ASSUME Says, proc = "running", phase # "idle"
      PROVE  wire' \in Seq(Eval)
    BY <1>8, Worker DEF TypeOK, Says
<1>9. CASE Enter \/ Report \/ PrintSentinel \/ Hear
    <2>1. CASE Enter BY <2>1 DEF TypeOK, Enter
    <2>2. CASE Report BY <2>2, <1>8 DEF TypeOK, Report
    <2>3. CASE PrintSentinel BY <2>3 DEF TypeOK, PrintSentinel, EndsWith
    <2>4. CASE Hear BY <2>4, <1>8 DEF TypeOK, Hear, EndsWith
    <2> QED BY <1>9, <2>1, <2>2, <2>3, <2>4
<1>10. CASE Deliver
    <2>1. Head(wire) \in Eval /\ Tail(wire) \in Seq(Eval)
        BY <1>10 DEF TypeOK, Deliver
    <2> QED BY <1>10, <2>1 DEF TypeOK, Deliver
<1>11. CASE Crash \/ HeirsLeave \/ Kill \/ KillEnds
    <2>1. CASE Leaves BY <2>1 DEF TypeOK, Leaves, ProcessExits
    <2>2. CASE HeirsLeave BY <2>2 DEF TypeOK, HeirsLeave
    <2>3. CASE Kill BY <2>3 DEF TypeOK, Kill
    <2> QED BY <1>11, <2>1, <2>2, <2>3 DEF Crash, KillEnds
<1>12. CASE UNCHANGED vars
    BY <1>12 DEF TypeOK, vars
<1> QED
    BY <1>1, <1>2, <1>3, <1>4, <1>5, <1>6, <1>7, <1>9, <1>10, <1>11, <1>12
    DEF Next, ExecuteStep, InterruptStep, Idle
-----------------------------------------------------------------------------
(* The other conjuncts *)

\* The steps of the interpreter, of interrupts and of kills move no eval.
LEMMA OtherSteps ==
    ASSUME [Next]_vars
    PROVE  \/ \E e \in Eval : Call(e) \/ ExecuteStep(e)
           \/ UNCHANGED <<pc, result, sem, busy, overtaken>>
<1> USE DEF Process, Control, Watch, Past, GoSide
<1>1. ASSUME NEW e \in Eval, Cancel(e) \/ Look(e)
      PROVE  UNCHANGED <<pc, result, sem, busy, overtaken>>
    BY <1>1 DEF Cancel, Look
<1>2. ASSUME NEW i, Ask(i) \/ Aim(i) \/ Poll(i) \/ Deadline(i) \/ Resend(i)
      PROVE  UNCHANGED <<pc, result, sem, busy, overtaken>>
    BY <1>2 DEF Ask, Aim, Poll, Deadline, Signal, ProcessExits, Resend
<1>3. CASE Enter \/ Report \/ PrintSentinel \/ Hear \/ Deliver
    BY <1>3 DEF Enter, Report, PrintSentinel, Hear, Deliver
<1>4. CASE Crash \/ HeirsLeave \/ Kill \/ KillEnds \/ Idle
    BY <1>4 DEF Crash, Leaves, ProcessExits, HeirsLeave, Kill, KillEnds, Idle, vars
<1> QED
    BY <1>1, <1>2, <1>3, <1>4 DEF Next, InterruptStep, vars

\* The sem goes to the eval that takes it, and is given back at the end.
LEMMA SemIsHeldStep ==
    ASSUME TypeOK, SemIsHeld, [Next]_vars
    PROVE  SemIsHeld'
<1> USE EvalsDistinct DEF SemIsHeld, Holds, Process, Control, Watch, Past, Goto, EvalDone
<1>1. ASSUME NEW e \in Eval, Call(e) \/ Take(e) \/ GiveUp(e) \/ RefuseDead(e) \/ SpawnWatcher(e)
                             \/ MarkBusy(e)
      PROVE  SemIsHeld'
    BY <1>1 DEF TypeOK, Call, Take, GiveUp, RefuseDead, SpawnWatcher, MarkBusy
<1>2. ASSUME NEW e \in Eval, Write(e) \/ WriteFails(e) \/ ScanEnds(e) \/ ScanHitsEOF(e)
      PROVE  SemIsHeld'
    BY <1>2 DEF TypeOK, Write, Send, WriteFails, ScanEnds, ScanHitsEOF
<1>3. ASSUME NEW e \in Eval, TakeStatus(e) \/ StatusEOF(e) \/ StatusTimesOut(e) \/ ClearBusy(e)
                             \/ Release(e)
      PROVE  SemIsHeld'
    BY <1>3 DEF TypeOK, TakeStatus, StatusEOF, StatusTimesOut, ClearBusy, Release
<1>4. CASE UNCHANGED <<pc, sem>>
    BY <1>4
<1> QED
    BY <1>1, <1>2, <1>3, <1>4, OtherSteps DEF ExecuteStep

\* Who is busy has the sem and keeps it until it is not.
LEMMA BusyIsHolderStep ==
    ASSUME TypeOK, SemIsHeld, BusyIsHolder, [Next]_vars
    PROVE  BusyIsHolder'
<1> DEFINE Working == {"write", "scan", "status", "clear"}
<1> USE EvalsDistinct DEF Goto, EvalDone
<1>1. ASSUME busy, NEW e \in Eval
      PROVE  sem \in Eval /\ pc[sem] \in Working /\ (pc[e] \in Holds => sem = e)
    BY <1>1 DEF TypeOK, SemIsHeld, BusyIsHolder
<1>2. ASSUME NEW e \in Eval, NEW l \in Working, pc' = [pc EXCEPT ![e] = l], sem = e, UNCHANGED sem
      PROVE  BusyIsHolder'
    BY <1>2 DEF TypeOK, BusyIsHolder
<1>3. ASSUME NEW e \in Eval, NEW l, pc' = [pc EXCEPT ![e] = l], sem # e, UNCHANGED <<sem, busy>>
      PROVE  BusyIsHolder'
    BY <1>1, <1>3 DEF TypeOK, BusyIsHolder
<1>4. ASSUME NEW e \in Eval, Call(e) \/ GiveUp(e)
      PROVE  BusyIsHolder'
    <2>1. sem # e
        BY <1>4 DEF Call, GiveUp, SemIsHeld, Holds
    <2> QED BY <1>3, <1>4, <2>1 DEF Call, GiveUp
<1>5. ASSUME NEW e \in Eval, Take(e) \/ RefuseDead(e) \/ SpawnWatcher(e)
      PROVE  BusyIsHolder'
    <2>1. ~busy
        BY <1>1, <1>5 DEF Take, RefuseDead, SpawnWatcher, Holds
    <2> QED BY <1>5, <2>1 DEF Take, RefuseDead, SpawnWatcher, BusyIsHolder
<1>6. ASSUME NEW e \in Eval,
             MarkBusy(e) \/ Write(e) \/ WriteFails(e) \/ ScanEnds(e) \/ ScanHitsEOF(e)
             \/ TakeStatus(e) \/ StatusEOF(e) \/ StatusTimesOut(e)
      PROVE  BusyIsHolder'
    <2>1. sem = e
        BY <1>6 DEF MarkBusy, Write, Send, WriteFails, ScanEnds, ScanHitsEOF, TakeStatus, StatusEOF,
                    StatusTimesOut, SemIsHeld, Holds
    <2> QED BY <1>2, <1>6, <2>1 DEF MarkBusy, Write, Send, WriteFails, ScanEnds, ScanHitsEOF,
                    TakeStatus, StatusEOF, StatusTimesOut
<1>7. ASSUME NEW e \in Eval, ClearBusy(e) \/ Release(e)
      PROVE  BusyIsHolder'
    <2>1. ~busy'
        BY <1>1, <1>7 DEF ClearBusy, Release, Holds
    <2> QED BY <2>1 DEF BusyIsHolder
<1>8. CASE UNCHANGED <<pc, sem, busy>>
    BY <1>8 DEF BusyIsHolder
<1> QED
    BY <1>4, <1>5, <1>6, <1>7, <1>8, OtherSteps DEF ExecuteStep

\* The interpreter's own steps, and those of the eval it works for, keep the two together.
LEMMA RunsForScanStep ==
    ASSUME TypeOK, SemIsHeld, RunsForScan, [Next]_vars
    PROVE  RunsForScan'
<1> USE EvalsDistinct DEF Process, Control, Watch, Past, Goto, GoSide, Moves, Works, EvalDone
<1>1. ASSUME proc = "running", NEW e \in Eval, pc[e] \in Holds
      PROVE  /\ cur # NoEval => cur = e /\ pc[e] = "scan" /\ ~sentinel
             /\ sentinel => pc[e] = "scan"
             /\ sem = e
    BY <1>1 DEF TypeOK, SemIsHeld, RunsForScan, Holds
<1>2. ASSUME NEW e \in Eval, pc[e] \in Holds \ {"scan"}, NEW l, pc' = [pc EXCEPT ![e] = l],
             UNCHANGED <<proc, cur, phase, sentinel>>
      PROVE  RunsForScan'
    BY <1>1, <1>2 DEF TypeOK, RunsForScan
<1>3. ASSUME NEW e \in Eval, pc[e] \in {"new", "queued"}, NEW l, pc' = [pc EXCEPT ![e] = l],
             UNCHANGED <<proc, cur, phase, sentinel>>, sem = NoEval \/ UNCHANGED sem
      PROVE  RunsForScan'
    BY <1>3 DEF TypeOK, RunsForScan
<1>4. ASSUME NEW e \in Eval,
             Call(e) \/ Take(e) \/ GiveUp(e) \/ RefuseDead(e) \/ SpawnWatcher(e) \/ MarkBusy(e)
             \/ WriteFails(e) \/ TakeStatus(e) \/ StatusEOF(e) \/ StatusTimesOut(e) \/ ClearBusy(e)
             \/ Release(e)
      PROVE  RunsForScan'
    BY <1>2, <1>3, <1>4 DEF Call, Take, GiveUp, RefuseDead, SpawnWatcher, MarkBusy,
            WriteFails, TakeStatus, StatusEOF, StatusTimesOut, ClearBusy, Release, Holds
<1>5. ASSUME NEW e \in Eval, Write(e)
      PROVE  RunsForScan'
    BY <1>1, <1>5 DEF TypeOK, Write, Send, RunsForScan, Holds
<1>6. ASSUME NEW e \in Eval, ScanEnds(e) \/ ScanHitsEOF(e)
      PROVE  RunsForScan'
    BY <1>1, <1>6 DEF TypeOK, ScanEnds, ScanHitsEOF, RunsForScan, Holds
<1>7. CASE Enter \/ Report \/ PrintSentinel \/ Hear
    <2>1. phase # "idle" /\ proc = "running" => cur \in Eval /\ sem = cur
        BY DEF TypeOK, SemIsHeld, RunsForScan, Holds
    <2>2. CASE Enter BY <2>2 DEF TypeOK, Enter, RunsForScan
    <2>3. CASE Report BY <2>3 DEF TypeOK, Report, RunsForScan
    <2>4. ASSUME NEW b \in BOOLEAN, EndsWith(b), UNCHANGED GoSide
          PROVE  RunsForScan'
        BY <2>1, <2>4 DEF TypeOK, EndsWith, RunsForScan
    <2>5. CASE PrintSentinel BY <2>4, <2>5 DEF PrintSentinel
    <2>6. CASE Hear BY <2>4, <2>6 DEF TypeOK, Hear, RunsForScan
    <2> QED BY <1>7, <2>2, <2>3, <2>5, <2>6
<1>8. ASSUME UNCHANGED <<pc, sem, cur, phase, sentinel, proc>>
      PROVE  RunsForScan'
    BY <1>8 DEF RunsForScan
<1>9. ASSUME NEW i \in Interrupter \cup User, Ask(i) \/ Aim(i) \/ Poll(i) \/ Resend(i)
      PROVE  RunsForScan'
    BY <1>8, <1>9 DEF Ask, Aim, Poll, Resend
<1>10. ASSUME NEW e \in Eval, Cancel(e) \/ Look(e)
       PROVE  RunsForScan'
    BY <1>8, <1>10 DEF Cancel, Look
<1>11. CASE Deliver \/ HeirsLeave \/ Kill \/ UNCHANGED vars
    BY <1>8, <1>11 DEF Deliver, HeirsLeave, Kill, vars
<1>12. ASSUME (\E i : Deadline(i)) \/ Crash \/ KillEnds
       PROVE  RunsForScan'
    BY <1>12 DEF Deadline, Crash, KillEnds, Leaves, ProcessExits, RunsForScan
<1> QED
    BY <1>4, <1>5, <1>6, <1>7, <1>9, <1>10, <1>11, <1>12 DEF Next, ExecuteStep, InterruptStep, Idle

\* kill marks before it does anything else, and no mark is taken back.
LEMMA KillIsMarkedStep ==
    ASSUME KillIsMarked, [Next]_vars
    PROVE  KillIsMarked' /\ (dead => dead') /\ (proc = "exited" => proc' = "exited")
<1> USE DEF KillIsMarked, Process, Control, Watch, Past, GoSide, Moves
<1>1. ASSUME UNCHANGED <<dead, killed, proc>>
      PROVE  KillIsMarked' /\ (dead => dead') /\ (proc = "exited" => proc' = "exited")
    BY <1>1
<1>2. ASSUME NEW e \in Eval, Call(e) \/ ExecuteStep(e) \/ Cancel(e) \/ Look(e)
      PROVE  KillIsMarked' /\ (dead => dead') /\ (proc = "exited" => proc' = "exited")
    <2>1. CASE Call(e) \/ Take(e) \/ GiveUp(e) \/ RefuseDead(e) \/ SpawnWatcher(e) \/ MarkBusy(e)
        BY <2>1 DEF Call, Take, GiveUp, RefuseDead, SpawnWatcher, MarkBusy
    <2>2. CASE Write(e) \/ WriteFails(e) \/ ScanEnds(e) \/ ScanHitsEOF(e)
        BY <2>2 DEF Write, Send, WriteFails, ScanEnds, ScanHitsEOF
    <2>3. CASE TakeStatus(e) \/ StatusEOF(e) \/ StatusTimesOut(e) \/ ClearBusy(e) \/ Release(e)
        BY <2>3 DEF TakeStatus, StatusEOF, StatusTimesOut, ClearBusy, Release
    <2>4. CASE Cancel(e) \/ Look(e)
        BY <2>4 DEF Cancel, Look
    <2> QED BY <1>2, <2>1, <2>2, <2>3, <2>4 DEF ExecuteStep
<1>3. ASSUME NEW i, Ask(i) \/ Aim(i) \/ Poll(i) \/ Resend(i) \/ Deadline(i)
      PROVE  KillIsMarked' /\ (dead => dead') /\ (proc = "exited" => proc' = "exited")
    BY <1>3 DEF Ask, Aim, Poll, Resend, Deadline, Signal, ProcessExits
<1>4. CASE Enter \/ Report \/ PrintSentinel \/ Hear \/ Deliver
    BY <1>4 DEF Enter, Report, PrintSentinel, Hear, EndsWith, Deliver
<1>5. CASE Crash \/ HeirsLeave \/ Kill \/ KillEnds \/ UNCHANGED vars
    BY <1>5 DEF Crash, Leaves, ProcessExits, HeirsLeave, Kill, KillEnds, vars
<1> QED
    BY <1>2, <1>3, <1>4, <1>5 DEF Next, InterruptStep, Idle

\* "write" is the result of an eval only while its session is lost.
LEMMA WriteFailsWhenLostStep ==
    ASSUME TypeOK, KillIsMarked, WriteFailsWhenLost, [Next]_vars
    PROVE  WriteFailsWhenLost'
<1> USE DEF Process, Control, Watch, Past, Goto, Return, NoLine
<1>1. (dead => dead') /\ (proc = "exited" => proc' = "exited")
    BY KillIsMarkedStep
<1>2. ASSUME NEW e \in Eval, NEW l, pc' = [pc EXCEPT ![e] = l], UNCHANGED result,
             l \in {"clear", "release"} => pc[e] \in {"clear", "release"}
      PROVE  WriteFailsWhenLost'
    BY <1>1, <1>2 DEF TypeOK, WriteFailsWhenLost
<1>3. ASSUME NEW e \in Eval, NEW l, pc' = [pc EXCEPT ![e] = l],
             NEW r, result' = [result EXCEPT ![e] = r], r.says # "write" \/ dead \/ proc = "exited"
      PROVE  WriteFailsWhenLost'
    BY <1>1, <1>3 DEF TypeOK, WriteFailsWhenLost
<1>4. ASSUME NEW e \in Eval,
             Call(e) \/ Take(e) \/ SpawnWatcher(e) \/ MarkBusy(e) \/ Write(e) \/ ScanEnds(e)
             \/ ClearBusy(e) \/ Release(e)
      PROVE  WriteFailsWhenLost'
    BY <1>2, <1>4 DEF Call, Take, SpawnWatcher, MarkBusy, Write, Send, ScanEnds, ClearBusy, Release
<1>5. ASSUME NEW e \in Eval, GiveUp(e) \/ RefuseDead(e) \/ ScanHitsEOF(e) \/ StatusEOF(e)
                             \/ StatusTimesOut(e)
      PROVE  WriteFailsWhenLost'
    BY <1>3, <1>5 DEF GiveUp, RefuseDead, ScanHitsEOF, StatusEOF, StatusTimesOut
<1>6. ASSUME NEW e \in Eval, WriteFails(e)
      PROVE  WriteFailsWhenLost'
    BY <1>3, <1>6 DEF WriteFails, KillIsMarked
<1>7. ASSUME NEW e \in Eval, TakeStatus(e)
      PROVE  WriteFailsWhenLost'
    BY <1>3, <1>7 DEF TakeStatus, Status
<1>8. CASE UNCHANGED <<pc, result>>
    BY <1>1, <1>8 DEF WriteFailsWhenLost
<1> QED
    BY <1>4, <1>5, <1>6, <1>7, <1>8, OtherSteps DEF ExecuteStep

\* Between a write whose drain was complete and the status only the eval's own
\* lines are sent.
LEMMA LinesAreOwnStep ==
    ASSUME TypeOK, SemIsHeld, RunsForScan, LinesAreOwn, [Next]_vars
    PROVE  LinesAreOwn'
<1> SUFFICES ASSUME NEW f \in Eval, pc'[f] \in {"scan", "status"}, f \notin overtaken'
             PROVE  LinesOf(f)'
    BY DEF LinesAreOwn
<1> USE DEF Process, Control, Watch, Past, Goto, GoSide, Moves, Works, LinesOf
<1>1. ASSUME pc[f] \in {"scan", "status"}, UNCHANGED <<wire, ctrlLines, overtaken>>
      PROVE  LinesOf(f)'
    BY <1>1 DEF LinesAreOwn
<1>2. ASSUME NEW e \in Eval, NEW l, l \notin {"scan", "status"} \/ pc[e] = "scan",
             pc' = [pc EXCEPT ![e] = l], UNCHANGED <<wire, ctrlLines, overtaken>>
      PROVE  LinesOf(f)'
    BY <1>1, <1>2 DEF TypeOK
<1>3. ASSUME NEW e \in Eval,
             Call(e) \/ Take(e) \/ GiveUp(e) \/ RefuseDead(e) \/ SpawnWatcher(e) \/ MarkBusy(e)
             \/ WriteFails(e) \/ ScanEnds(e) \/ ScanHitsEOF(e)
             \/ StatusEOF(e) \/ StatusTimesOut(e) \/ ClearBusy(e) \/ Release(e)
      PROVE  LinesOf(f)'
    BY <1>2, <1>3 DEF Call, Take, GiveUp, RefuseDead, SpawnWatcher, MarkBusy, WriteFails, ScanEnds,
            ScanHitsEOF, StatusEOF, StatusTimesOut, ClearBusy, Release
<1>4. ASSUME NEW e \in Eval, Write(e)
      PROVE  LinesOf(f)'
    <2>1. CASE f = e
        <3>1. wire = <<>>
            BY <1>4, <2>1 DEF Write, Send
        <3> QED BY <1>4, <3>1 DEF Write, Send
    <2>2. CASE f # e
        <3>1. pc[f] \in {"scan", "status"} /\ pc[e] = "write"
            BY <1>4, <2>2 DEF TypeOK, Write, Send
        <3> QED BY <2>2, <3>1 DEF SemIsHeld, Holds
    <2> QED BY <2>1, <2>2
<1>5. ASSUME NEW e \in Eval, TakeStatus(e)
      PROVE  LinesOf(f)'
    <2>1. f # e /\ pc[f] \in {"scan", "status"}
        BY <1>5 DEF TypeOK, TakeStatus
    <2> QED BY <1>5, <2>1 DEF TakeStatus, SemIsHeld, Holds
<1>6. ASSUME NEW i, Ask(i) \/ Aim(i) \/ Poll(i) \/ Resend(i) \/ Deadline(i) \/ Cancel(i) \/ Look(i)
      PROVE  LinesOf(f)'
    BY <1>1, <1>6 DEF Ask, Aim, Poll, Resend, Deadline, Cancel, Look
<1>7. CASE Enter \/ PrintSentinel \/ Crash \/ HeirsLeave \/ Kill \/ KillEnds \/ UNCHANGED vars
    BY <1>1, <1>7 DEF Enter, PrintSentinel, Crash, Leaves, HeirsLeave, Kill, KillEnds, vars
<1>8. ASSUME Says, proc = "running", phase # "idle", UNCHANGED <<pc, ctrlLines, overtaken>>
      PROVE  LinesOf(f)'
    <2>1. cur = f
        BY <1>8, Worker DEF SemIsHeld, Holds
    <2> QED BY <1>8, <2>1 DEF TypeOK, Says, LinesAreOwn
<1>9. CASE Report
    BY <1>8, <1>9 DEF Report
<1>10. CASE Hear
    BY <1>1, <1>8, <1>10 DEF Hear, EndsWith
<1>11. CASE Deliver
    <2>1. pc[f] \in {"scan", "status"} /\ LinesOf(f)
        BY <1>11 DEF Deliver, LinesAreOwn
    <2> QED BY <1>11, <2>1 DEF TypeOK, Deliver
<1> QED
    BY <1>3, <1>4, <1>5, <1>6, <1>7, <1>9, <1>10, <1>11 DEF Next, ExecuteStep, InterruptStep, Idle

\* A wait in vain is the last thing an eval returns.
LEMMA VainIsLastStep ==
    ASSUME TypeOK, VainIsLast, [Next]_vars
    PROVE  VainIsLast'
<1> USE DEF Goto, Return, NoLine
<1> DEFINE Ended == {"clear", "release", "done"}
<1>1. ASSUME NEW e \in Eval, NEW l, pc' = [pc EXCEPT ![e] = l], UNCHANGED result,
             pc[e] \in Ended => l \in Ended
      PROVE  VainIsLast'
    BY <1>1 DEF TypeOK, VainIsLast
<1>2. ASSUME NEW e \in Eval, NEW l \in Ended, pc' = [pc EXCEPT ![e] = l],
             NEW r, result' = [result EXCEPT ![e] = r]
      PROVE  VainIsLast'
    BY <1>2 DEF TypeOK, VainIsLast
<1>3. ASSUME NEW e \in Eval,
             Call(e) \/ Take(e) \/ SpawnWatcher(e) \/ MarkBusy(e) \/ Write(e) \/ ScanEnds(e)
             \/ ClearBusy(e) \/ Release(e)
      PROVE  VainIsLast'
    BY <1>1, <1>3 DEF Call, Take, SpawnWatcher, MarkBusy, Write, Send, ScanEnds, ClearBusy, Release
<1>4. ASSUME NEW e \in Eval,
             GiveUp(e) \/ RefuseDead(e) \/ WriteFails(e) \/ ScanHitsEOF(e) \/ TakeStatus(e)
             \/ StatusEOF(e) \/ StatusTimesOut(e)
      PROVE  VainIsLast'
    BY <1>2, <1>4 DEF GiveUp, RefuseDead, WriteFails, ScanHitsEOF, TakeStatus, StatusEOF,
            StatusTimesOut
<1>5. CASE UNCHANGED <<pc, result>>
    BY <1>5 DEF VainIsLast
<1> QED
    BY <1>3, <1>4, <1>5, OtherSteps DEF ExecuteStep
\* What is on the way is counted as long as nothing disturbs it.
LEMMA NoStrandsStep ==
    ASSUME TypeOK, SemIsHeld, RunsForScan, VainIsLast, NoStrands, [Next]_vars
    PROVE  NoStrands'
<1> DEFINE Count(n) == Len(wire) + Len(ctrlLines) = n
           AtStatus == \E e \in Eval : pc[e] = "status"
           Goal == /\ ~signal' /\ overtaken' = {}
                   /\ proc' = "running" => Len(wire') + Len(ctrlLines') = IF Reported' THEN 1 ELSE 0
<1> SUFFICES ASSUME Calm' PROVE Goal
    BY DEF NoStrands
<1> USE EvalsDistinct DEF Process, Control, Watch, Past, Goto, Return, GoSide, Moves, Works
<1>1. Calm
    <2>1. \A e \in Eval : result[e].says # "interrupted"
        <3>1. \A e, f \in Eval : \A r : result' = [result EXCEPT ![e] = r] /\ e # f => result'[f] = result[f]
            BY DEF TypeOK
        <3>2. ASSUME NEW f \in Eval, result[f].says = "interrupted"
              PROVE  result'[f] = result[f]
            <4>1. pc[f] \in {"clear", "release", "done"}
                BY <3>2 DEF VainIsLast
            <4>2. ASSUME NEW e \in Eval, GiveUp(e) \/ RefuseDead(e) \/ WriteFails(e) \/ ScanHitsEOF(e)
                         \/ TakeStatus(e) \/ StatusEOF(e) \/ StatusTimesOut(e)
                  PROVE  result'[f] = result[f]
                BY <3>1, <4>1, <4>2 DEF GiveUp, RefuseDead, WriteFails, ScanHitsEOF, TakeStatus,
                        StatusEOF, StatusTimesOut
            <4>3. ASSUME NEW e \in Eval,
                         Call(e) \/ Take(e) \/ SpawnWatcher(e) \/ MarkBusy(e) \/ Write(e)
                         \/ ScanEnds(e) \/ ClearBusy(e) \/ Release(e)
                  PROVE  result'[f] = result[f]
                BY <4>3 DEF Call, Take, SpawnWatcher, MarkBusy, Write, Send, ScanEnds, ClearBusy, Release
            <4> QED BY <4>2, <4>3, OtherSteps DEF ExecuteStep
        <3> QED BY <3>2 DEF Calm
    <2>2. \A i \in Interrupter : aim'[i] = aim[i] \/ aim'[i] # NoEval
        <3>1. CASE UNCHANGED aim
            BY <3>1
        <3>2. ASSUME NEW i \in Interrupter, Aim(i)
              PROVE  \A j \in Interrupter : aim'[j] = aim[j] \/ aim'[j] # NoEval
            BY <3>2 DEF Aim, TypeOK
        <3>3. ASSUME NEW e \in Eval, Call(e) \/ ExecuteStep(e) \/ Cancel(e) \/ Look(e)
              PROVE  UNCHANGED aim
            <4>1. CASE Call(e) \/ Take(e) \/ GiveUp(e) \/ RefuseDead(e) \/ SpawnWatcher(e) \/ MarkBusy(e)
                BY <4>1 DEF Call, Take, GiveUp, RefuseDead, SpawnWatcher, MarkBusy
            <4>2. CASE Write(e) \/ WriteFails(e) \/ ScanEnds(e) \/ ScanHitsEOF(e) \/ Cancel(e) \/ Look(e)
                BY <4>2 DEF Write, Send, WriteFails, ScanEnds, ScanHitsEOF, Cancel, Look
            <4>3. CASE TakeStatus(e) \/ StatusEOF(e) \/ StatusTimesOut(e) \/ ClearBusy(e) \/ Release(e)
                BY <4>3 DEF TakeStatus, StatusEOF, StatusTimesOut, ClearBusy, Release
            <4> QED BY <3>3, <4>1, <4>2, <4>3 DEF ExecuteStep
        <3>4. ASSUME NEW i, Ask(i) \/ Poll(i) \/ Resend(i) \/ Deadline(i)
              PROVE  UNCHANGED aim
            BY <3>4 DEF Ask, Poll, Resend, Deadline
        <3>5. CASE Enter \/ Report \/ PrintSentinel \/ Hear \/ Deliver
            BY <3>5 DEF Enter, Report, PrintSentinel, Hear, Deliver
        <3>6. CASE Crash \/ HeirsLeave \/ Kill \/ KillEnds \/ UNCHANGED vars
            BY <3>6 DEF Crash, Leaves, HeirsLeave, Kill, KillEnds, vars
        <3> QED BY <3>1, <3>2, <3>3, <3>4, <3>5, <3>6 DEF Next, InterruptStep, Idle
    <2> QED BY <2>1, <2>2 DEF Calm
<1>2. ~signal /\ overtaken = {} /\ (proc = "running" => Count(IF Reported THEN 1 ELSE 0))
    BY <1>1 DEF NoStrands
<1>3. Len(wire) \in Nat /\ Len(ctrlLines) \in Nat
    BY DEF TypeOK
<1>4. ASSUME UNCHANGED <<wire, ctrlLines, phase, sentinel, signal, overtaken, proc>>, AtStatus' = AtStatus
      PROVE  Goal
    BY <1>2, <1>4 DEF Reported
<1>5. ASSUME NEW e \in Eval, pc[e] # "status", NEW l, l # "status", pc' = [pc EXCEPT ![e] = l]
      PROVE  AtStatus' = AtStatus
    BY <1>5 DEF TypeOK
<1>6. ASSUME UNCHANGED <<overtaken, signal>>, proc' = "exited"
      PROVE  Goal
    BY <1>2, <1>6
<1>7. ASSUME NEW e \in Eval, pc[e] \in Holds
      PROVE  /\ sem = e /\ \A f \in Eval : pc[f] = "status" => f = e
             /\ proc = "running" /\ pc[e] # "scan" => phase = "idle" /\ ~sentinel
    BY <1>7 DEF TypeOK, SemIsHeld, RunsForScan, Holds
<1> HIDE DEF Goal
<1>8. ASSUME NEW e \in Eval,
             Call(e) \/ Take(e) \/ GiveUp(e) \/ RefuseDead(e) \/ SpawnWatcher(e) \/ MarkBusy(e)
             \/ WriteFails(e) \/ ClearBusy(e) \/ Release(e)
      PROVE  Goal
    <2>1. AtStatus' = AtStatus
        <3> HIDE DEF AtStatus
        <3> QED BY <1>5, <1>8 DEF Call, Take, GiveUp, RefuseDead, SpawnWatcher, MarkBusy, WriteFails,
                ClearBusy, Release
    <2> HIDE DEF AtStatus
    <2> QED BY <1>4, <1>8, <2>1 DEF Call, Take, GiveUp, RefuseDead, SpawnWatcher, MarkBusy,
            WriteFails, ClearBusy, Release
<1>9. ASSUME NEW e \in Eval, Write(e)
      PROVE  Goal
    <2>1. /\ proc = "running" /\ phase = "idle" /\ ~sentinel
          /\ \A f \in Eval : pc[f] # "status"
        BY <1>7, <1>9 DEF Write, Send, Holds
    <2>2. wire = <<>>
        BY <1>2, <1>3, <2>1 DEF TypeOK, Reported
    <2>3. \A f \in Eval : pc'[f] # "status"
        BY <1>9, <2>1 DEF TypeOK, Write, Send
    <2>4. ~Reported'
        BY <1>9, <2>1, <2>3 DEF Write, Send, Reported
    <2>5. wire' = <<>> /\ ctrlLines' = <<>> /\ UNCHANGED <<signal, overtaken>>
        BY <1>9, <2>2 DEF Write, Send
    <2> QED BY <1>2, <2>4, <2>5 DEF Goal
<1>10. ASSUME NEW e \in Eval, ScanEnds(e)
       PROVE  Goal
    <2>1. pc'[e] = "status"
        BY <1>10 DEF TypeOK, ScanEnds
    <2>2. Reported /\ Reported'
        BY <1>10, <2>1 DEF ScanEnds, Reported
    <2> QED BY <1>2, <1>10, <2>2 DEF ScanEnds, Goal
<1>11. ASSUME NEW e \in Eval, ScanHitsEOF(e) \/ StatusEOF(e)
       PROVE  Goal
    BY <1>6, <1>11 DEF ScanHitsEOF, StatusEOF
<1>12. ASSUME NEW e \in Eval, StatusTimesOut(e)
       PROVE  FALSE
    BY <1>12 DEF TypeOK, StatusTimesOut, NoLine, Calm
<1>13. ASSUME NEW e \in Eval, TakeStatus(e)
       PROVE  Goal
    <2>1. pc[e] = "status" /\ Reported
        BY <1>13 DEF TakeStatus, Reported
    <2>2. Len(ctrlLines') = Len(ctrlLines) - 1
        BY <1>13 DEF TypeOK, TakeStatus
    <2>3. proc = "running" => ~Reported'
        <3>1. \A f \in Eval : pc'[f] # "status"
            BY <1>7, <1>13, <2>1 DEF TypeOK, TakeStatus, Holds
        <3>2. proc = "running" => phase = "idle" /\ ~sentinel
            BY <1>7, <2>1 DEF Holds
        <3> QED BY <1>13, <3>1, <3>2 DEF TakeStatus, Reported
    <2> QED BY <1>2, <1>3, <1>13, <2>1, <2>2, <2>3 DEF TakeStatus, Goal
<1>14. ASSUME NEW e \in Eval, Cancel(e) \/ Look(e)
       PROVE  Goal
    BY <1>4, <1>14 DEF Cancel, Look
<1>15. ASSUME NEW i \in Interrupter, Aim(i)
       PROVE  Goal
    <2>1. UNCHANGED signal
        BY <1>15 DEF TypeOK, Aim, Calm
    <2> QED BY <1>4, <1>15, <2>1 DEF Aim
<1>16. ASSUME NEW i \in Interrupter, Resend(i) \/ Deadline(i)
       PROVE  FALSE
    BY <1>1, <1>16 DEF TypeOK, Resend, Deadline, Calm
<1>17. ASSUME NEW i, Ask(i) \/ Poll(i)
       PROVE  Goal
    BY <1>4, <1>17 DEF Ask, Poll
<1>18. CASE Enter
    BY <1>2, <1>18 DEF Enter, Reported, Goal
<1>19. CASE Report
    <2>1. cur \in Eval /\ pc[cur] = "scan" /\ ~sentinel
        BY <1>19, Worker DEF Report, RunsForScan, TypeOK
    <2>2. ~Reported
        BY <1>7, <1>19, <2>1 DEF Report, Reported, Holds
    <2>3. Reported'
        BY <1>19 DEF Report, Reported
    <2>4. Len(wire') = Len(wire) + 1
        BY <1>19 DEF TypeOK, Report, Says
    <2> QED BY <1>2, <1>3, <1>19, <2>2, <2>3, <2>4 DEF Report, Goal
<1>20. CASE PrintSentinel
    BY <1>2, <1>20 DEF PrintSentinel, EndsWith, Reported, Goal
<1>21. CASE Hear
    BY <1>2, <1>21 DEF Hear
<1>22. CASE Deliver
    <2>1. Len(wire') = Len(wire) - 1 /\ Len(ctrlLines') = Len(ctrlLines) + 1
        BY <1>22 DEF TypeOK, Deliver
    <2>2. Reported' = Reported
        BY <1>22 DEF Deliver, Reported
    <2> QED BY <1>2, <1>3, <1>22, <2>1, <2>2 DEF Deliver, Goal
<1>23. CASE Crash \/ KillEnds
    BY <1>2, <1>23 DEF Crash, KillEnds, Leaves, ProcessExits, Goal
<1>24. CASE HeirsLeave \/ Kill \/ UNCHANGED vars
    BY <1>4, <1>24 DEF HeirsLeave, Kill, vars
<1> QED
    BY <1>8, <1>9, <1>10, <1>11, <1>12, <1>13, <1>14, <1>15, <1>16, <1>17, <1>18, <1>19, <1>20,
       <1>21, <1>22, <1>23, <1>24
    DEF Next, ExecuteStep, InterruptStep, Idle
-----------------------------------------------------------------------------
(* Theorems *)

\* The invariant: it holds at the start, and every step keeps it.
THEOREM Invariance == Spec => []IInv
<1>1. Init => IInv
    <2> SUFFICES ASSUME Init PROVE IInv
        OBVIOUS
    <2>1. TypeOK
        <3>1. NoLine("none") \in [of : Eval \cup {NoEval}, says : {"none", "status",
                  "cancelled", "died", "write", "nil", "interrupted"}]
            BY DEF NoLine
        <3>2. wire \in Seq(Eval) /\ ctrlLines \in Seq(Eval)
            BY DEF Init
        <3>3. busy = FALSE /\ \A i \in Interrupter : int[i] # "polling"
            BY DEF Init
        <3> QED BY <3>1, <3>2, <3>3 DEF Init, TypeOK
    <2>2. SemIsHeld /\ BusyIsHolder /\ RunsForScan /\ KillIsMarked
        BY EvalsDistinct DEF Init, SemIsHeld, BusyIsHolder, RunsForScan, KillIsMarked, Holds
    <2>3. WriteFailsWhenLost /\ LinesAreOwn /\ VainIsLast
        BY DEF Init, WriteFailsWhenLost, LinesAreOwn, VainIsLast, NoLine
    <2>4. NoStrands
        BY DEF Init, NoStrands, Reported
    <2> QED BY <2>1, <2>2, <2>3, <2>4 DEF IInv
<1>2. IInv /\ [Next]_vars => IInv'
    BY NextTypes, SemIsHeldStep, BusyIsHolderStep, RunsForScanStep, KillIsMarkedStep,
       WriteFailsWhenLostStep, LinesAreOwnStep, VainIsLastStep, NoStrandsStep DEF IInv
<1> QED BY <1>1, <1>2, PTL DEF Spec

\* The state is well typed, and an interrupt that finds the session busy has an
\* eval to end, for any number of evals and interrupts.
THEOREM Typing == Spec => []TypeOK
<1>1. IInv => TypeOK
    BY DEF IInv
<1> QED BY Invariance, <1>1, PTL

\* Code is written only to an interpreter that has finished the eval before and
\* left no sentinel of it in the pipes.
THEOREM StartsClean == Spec => CleanStart
<1>1. ASSUME IInv, [Next]_vars, NEW e \in Eval, pc[e] = "write", pc'[e] = "scan"
      PROVE  phase = "idle" /\ cur = NoEval /\ ~sentinel
    <2>1. sem = e /\ (proc = "running" => cur = NoEval /\ ~sentinel /\ phase = "idle")
        BY <1>1 DEF IInv, TypeOK, SemIsHeld, RunsForScan, Holds
    <2>2. \E f \in Eval : Call(f) \/ ExecuteStep(f)
        BY <1>1, OtherSteps
    <2>3. Write(e)
        <3> USE DEF Goto
        <3>1. PICK f \in Eval : Call(f) \/ ExecuteStep(f)
            BY <2>2
        <3>2. ASSUME NEW l, l # "scan", pc' = [pc EXCEPT ![f] = l]
              PROVE  FALSE
            BY <1>1, <3>2 DEF IInv, TypeOK
        <3>3. ~(Call(f) \/ Take(f) \/ GiveUp(f) \/ RefuseDead(f) \/ SpawnWatcher(f) \/ MarkBusy(f))
            BY <3>2 DEF Call, Take, GiveUp, RefuseDead, SpawnWatcher, MarkBusy
        <3>4. ~(WriteFails(f) \/ ScanEnds(f) \/ ScanHitsEOF(f) \/ TakeStatus(f) \/ StatusEOF(f)
                \/ StatusTimesOut(f) \/ ClearBusy(f) \/ Release(f))
            BY <3>2 DEF WriteFails, ScanEnds, ScanHitsEOF, TakeStatus, StatusEOF, StatusTimesOut,
                    ClearBusy, Release
        <3>5. Write(f) => f = e
            BY <1>1 DEF IInv, TypeOK, Write, Send
        <3> QED BY <3>1, <3>3, <3>4, <3>5 DEF ExecuteStep
    <2> QED BY <2>1, <2>3 DEF Write, Send
<1>2. IInv /\ [Next]_vars
        => [\A e \in Eval : pc[e] = "write" /\ pc'[e] = "scan"
                              => phase = "idle" /\ cur = NoEval /\ ~sentinel]_vars
    BY <1>1
<1> QED BY Invariance, <1>2, PTL DEF Spec, CleanStart

\* An eval returns the status of another only if its drain was overtaken by a line
\* that was still on the socket, and that takes an interrupt or a wait in vain.
\* The first part is inductive only with the lines that are on their way, the
\* second with their number.
THEOREM StatusIsOwn == Spec => []OwnStatus
<1> DEFINE Own(r, e) == r.of \in {NoEval, e}
           Owned == \A e \in Eval : Own(result[e], e) \/ e \in overtaken
<1>0. \A w, e : Own(NoLine(w), e)
    BY DEF NoLine
<1>1. Init => Owned
    BY <1>0 DEF Init
<1>2. IInv /\ Owned /\ [Next]_vars => Owned'
    <2> SUFFICES ASSUME IInv, Owned, [Next]_vars PROVE Owned'
        OBVIOUS
    <2> USE DEF Goto, Return, Watch, Past
    <2>1. ASSUME NEW e \in Eval, NEW r, Own(r, e) \/ e \in overtaken,
                 result' = [result EXCEPT ![e] = r], UNCHANGED overtaken
          PROVE  Owned'
        BY <2>1 DEF IInv, TypeOK
    <2>2. ASSUME UNCHANGED result, overtaken \subseteq overtaken'
          PROVE  Owned'
        BY <2>2
    <2> HIDE DEF Own, Owned
    <2>3. ASSUME NEW e \in Eval,
                 Call(e) \/ Take(e) \/ SpawnWatcher(e) \/ MarkBusy(e) \/ Write(e) \/ ScanEnds(e)
                 \/ ClearBusy(e) \/ Release(e)
          PROVE  Owned'
        BY <2>2, <2>3 DEF Call, Take, SpawnWatcher, MarkBusy, Write, Send, ScanEnds, ClearBusy, Release
    <2>4. ASSUME NEW e \in Eval,
                 GiveUp(e) \/ RefuseDead(e) \/ WriteFails(e) \/ ScanHitsEOF(e) \/ StatusEOF(e)
                 \/ StatusTimesOut(e)
          PROVE  Owned'
        BY <1>0, <2>1, <2>4 DEF GiveUp, RefuseDead, WriteFails, ScanHitsEOF, StatusEOF, StatusTimesOut
    <2>5. ASSUME NEW e \in Eval, TakeStatus(e)
          PROVE  Owned'
        <3>1. /\ LinesOf(e) \/ e \in overtaken
              /\ ctrlLines \in Seq(Eval) /\ ctrlLines # <<>>
            BY <2>5 DEF IInv, TypeOK, LinesAreOwn, TakeStatus
        <3>2. Own(Status(Head(ctrlLines)), e) \/ e \in overtaken
            BY <3>1 DEF LinesOf, Own, Status
        <3> QED BY <2>1, <2>5, <3>2 DEF TakeStatus
    <2> QED BY <2>2, <2>3, <2>4, <2>5, OtherSteps DEF ExecuteStep
<1>3. IInv /\ Owned => OwnStatus
    BY DEF IInv, NoStrands, Calm, OwnStatus
<1> QED BY Invariance, <1>1, <1>2, <1>3, PTL DEF Spec
-----------------------------------------------------------------------------
(* The refinement of EvalService *)

\* A caller is served by the service while its eval has the sem and is let in.
LEMMA ServedHolds ==
    ASSUME TypeOK, SemIsHeld, NEW e \in Eval, ServiceAt(e) \in {"admitted", "running"}
    PROVE  sem = e /\ pc[e] \in {"mark", "write", "scan", "status", "clear", "release"}
    BY DEF TypeOK, SemIsHeld, ServiceAt, Holds

\* A step of one eval that leaves the place of its call and the session as they are.
LEMMA Stutters ==
    ASSUME \A e \in Eval : ServiceAt(e)' = ServiceAt(e), UNCHANGED <<dead, proc>>
    PROVE  UNCHANGED Service!vars
    BY DEF Service!vars

\* What the other calls see of the step of one.
LEMMA OthersStay ==
    ASSUME TypeOK, NEW e \in Eval, NEW f \in Eval, f # e, NEW l, pc' = [pc EXCEPT ![e] = l],
           result' = result \/ \E r : result' = [result EXCEPT ![e] = r]
    PROVE  ServiceAt(f)' = ServiceAt(f)
<1>1. pc'[f] = pc[f] /\ result'[f] = result[f]
    BY DEF TypeOK
<1> QED BY <1>1 DEF ServiceAt

\* A step of an eval that moves its call in the service.
LEMMA Moved ==
    ASSUME TypeOK, NEW e \in Eval, NEW l, pc' = [pc EXCEPT ![e] = l],
           result' = result \/ \E r : result' = [result EXCEPT ![e] = r],
           UNCHANGED <<dead, proc>>,
           \/ ServiceAt(e)' = ServiceAt(e)
           \/ ServiceAt(e) = "out" /\ ServiceAt(e)' = "waiting"
           \/ /\ ServiceAt(e) = "waiting" /\ ServiceAt(e)' = "admitted" /\ ~dead
              /\ \A f \in Eval : ServiceAt(f) \notin {"admitted", "running"}
           \/ ServiceAt(e) = "admitted" /\ ServiceAt(e)' = "running" /\ proc # "exited"
           \/ /\ ServiceAt(e) # "out" /\ ServiceAt(e)' = "out"
              /\ ServiceAt(e) = "admitted" => dead \/ proc = "exited"
    PROVE  [Service!Next]_(Service!vars)
<1> DEFINE at == [f \in Eval |-> ServiceAt(f)]
           on == [f \in Eval |-> IF ServiceAt(f) = "out" THEN 0 ELSE 1]
<1>1. \A f \in Eval : f # e => ServiceAt(f)' = ServiceAt(f)
    BY OthersStay
<1>2. at' = [at EXCEPT ![e] = ServiceAt(e)']
    BY <1>1
<1>3. on' = [on EXCEPT ![e] = IF ServiceAt(e)' = "out" THEN 0 ELSE 1]
    BY <1>1
<1>4. CASE ServiceAt(e)' = ServiceAt(e)
    BY <1>1, <1>4, Stutters
<1>5. CASE ServiceAt(e) = "out" /\ ServiceAt(e)' = "waiting"
    <2>1. Service!Call(e, 1)
        BY <1>2, <1>3, <1>5 DEF Service!Call
    <2> QED BY <2>1 DEF Service!Next
<1>6. CASE /\ ServiceAt(e) = "waiting" /\ ServiceAt(e)' = "admitted" /\ ~dead
           /\ \A f \in Eval : ServiceAt(f) \notin {"admitted", "running"}
    <2>1. Service!Admit(e)
        BY <1>2, <1>3, <1>6 DEF Service!Admit, Service!Served
    <2> QED BY <2>1 DEF Service!Next
<1>7. CASE ServiceAt(e) = "admitted" /\ ServiceAt(e)' = "running" /\ proc # "exited"
    <2>1. Service!Begin(e)
        BY <1>2, <1>3, <1>7 DEF Service!Begin
    <2> QED BY <2>1 DEF Service!Next
<1>8. CASE /\ ServiceAt(e) # "out" /\ ServiceAt(e)' = "out"
           /\ ServiceAt(e) = "admitted" => dead \/ proc = "exited"
    <2>1. Service!Answer(e)
        BY <1>2, <1>3, <1>8 DEF Service!Answer
    <2> QED BY <2>1 DEF Service!Next
<1> QED BY <1>4, <1>5, <1>6, <1>7, <1>8

\* A step that moves no eval and may lose the session.
LEMMA Lost ==
    ASSUME UNCHANGED <<pc, result>>, dead' \in {dead, TRUE}, proc' \in {proc, "exited"},
           dead \in BOOLEAN, proc \in {"running", "exited"}
    PROVE  [Service!Next]_(Service!vars)
<1>1. \A e \in Eval : ServiceAt(e)' = ServiceAt(e)
    BY DEF ServiceAt
<1>2. CASE UNCHANGED <<dead, proc>>
    BY <1>1, <1>2, Stutters
<1>3. CASE ~(UNCHANGED <<dead, proc>>)
    <2> DEFINE D == IF dead THEN {1} ELSE {}
               G == IF proc = "exited" THEN {1} ELSE {}
    <2>1. UNCHANGED <<[e \in Eval |-> ServiceAt(e)],
                      [e \in Eval |-> IF ServiceAt(e) = "out" THEN 0 ELSE 1]>>
        BY <1>1
    <2>2. {} \cup {1} = {1} /\ {1} \cup {1} = {1}
        OBVIOUS
    <2>3. G' = G \/ G' = G \cup {1}
        BY <2>2
    <2>4. D' = D \cup {1} \/ (D' = D /\ G' = G \cup {1})
        <3>1. CASE dead' BY <2>2, <3>1
        <3>2. CASE ~dead'
            <4>1. dead' = dead
                BY <3>2
            <4>2. proc = "running" /\ proc' = "exited"
                BY <1>3, <4>1
            <4> QED BY <2>2, <4>1, <4>2
        <3> QED BY <3>1, <3>2
    <2>5. Service!Lose(1)
        BY <2>1, <2>3, <2>4 DEF Service!Lose
    <2> QED BY <2>5 DEF Service!Next
<1> QED BY <1>2, <1>3

\* One session implements the service: each step of it is a step of the service
\* or changes nothing of what its callers see.
THEOREM Implements == Spec => ImplementsService
<1>1. Init => Service!Init
    <2> SUFFICES ASSUME Init PROVE Service!Init
        OBVIOUS
    <2>1. \A e \in Eval : ServiceAt(e) = "out"
        BY DEF Init, ServiceAt
    <2> QED BY <2>1 DEF Init, Service!Init
<1>2. ASSUME IInv, [Next]_vars
      PROVE  [Service!Next]_(Service!vars)
    <2> USE DEF Goto, Return
    <2>0. TypeOK /\ dead \in BOOLEAN /\ proc \in {"running", "exited"}
        BY <1>2 DEF IInv, TypeOK
    <2>1. ASSUME NEW e \in Eval, Call(e) \/ Take(e) \/ GiveUp(e) \/ RefuseDead(e) \/ MarkBusy(e)
          PROVE  [Service!Next]_(Service!vars)
        <3> USE DEF Process, Control, Watch, Past
        <3>1. CASE Call(e) BY <2>0, <3>1, Moved DEF TypeOK, Call, ServiceAt
        <3>2. CASE Take(e) BY <2>0, <3>2, Moved DEF TypeOK, Take, ServiceAt
        <3>3. CASE GiveUp(e) BY <2>0, <3>3, Moved DEF TypeOK, GiveUp, ServiceAt
        <3>4. CASE RefuseDead(e) BY <2>0, <3>4, Moved DEF TypeOK, RefuseDead, ServiceAt
        <3>5. CASE MarkBusy(e) BY <2>0, <3>5, Moved DEF TypeOK, MarkBusy, ServiceAt
        <3> QED BY <2>1, <3>1, <3>2, <3>3, <3>4, <3>5
    <2>2. ASSUME NEW e \in Eval, SpawnWatcher(e)
          PROVE  [Service!Next]_(Service!vars)
        <3>1. \A f \in Eval : ServiceAt(f) \notin {"admitted", "running"}
            BY <1>2, <2>2, ServedHolds DEF IInv, SpawnWatcher, SemIsHeld, Holds
        <3>2. ServiceAt(e) = "waiting" /\ ServiceAt(e)' = "admitted"
            BY <2>0, <2>2 DEF TypeOK, SpawnWatcher, ServiceAt
        <3> QED BY <2>0, <2>2, <3>1, <3>2, Moved DEF SpawnWatcher, Process
    <2>3. ASSUME NEW e \in Eval, Write(e)
          PROVE  [Service!Next]_(Service!vars)
        <3>1. ServiceAt(e) = "admitted" /\ ServiceAt(e)' = "running"
            BY <2>0, <2>3 DEF TypeOK, Write, Send, ServiceAt
        <3> QED BY <2>0, <2>3, <3>1, Moved DEF Write, Send
    <2>4. ASSUME NEW e \in Eval, WriteFails(e)
          PROVE  [Service!Next]_(Service!vars)
        <3>1. ServiceAt(e)' = "admitted"
            BY <2>0, <2>4 DEF TypeOK, WriteFails, ServiceAt, NoLine
        <3> QED BY <2>0, <2>4, <3>1, Moved DEF WriteFails, ServiceAt, Process
    <2>5. ASSUME NEW e \in Eval, ScanEnds(e) \/ StatusEOF(e) \/ StatusTimesOut(e) \/ TakeStatus(e)
          PROVE  [Service!Next]_(Service!vars)
        <3> USE DEF Process
        <3>1. ServiceAt(e) = "running"
            BY <2>5 DEF ScanEnds, StatusEOF, StatusTimesOut, TakeStatus, ServiceAt
        <3>2. CASE ScanEnds(e)
            BY <2>0, <3>1, <3>2, Moved DEF TypeOK, ScanEnds, ServiceAt
        <3>3. ASSUME NEW r, result' = [result EXCEPT ![e] = r], r.says # "write",
                     pc' = [pc EXCEPT ![e] = "clear"]
              PROVE  ServiceAt(e)' = "running"
            BY <2>0, <3>3 DEF TypeOK, ServiceAt
        <3>4. NoLine("nil").says # "write" /\ NoLine("interrupted").says # "write"
            BY DEF NoLine
        <3>5. CASE StatusEOF(e)
            BY <2>0, <3>1, <3>3, <3>4, <3>5, Moved DEF StatusEOF
        <3>6. CASE StatusTimesOut(e)
            BY <2>0, <3>1, <3>3, <3>4, <3>6, Moved DEF StatusTimesOut
        <3>7. CASE TakeStatus(e)
            <4>1. \A d : Status(d).says # "write"
                BY DEF Status
            <4> QED BY <2>0, <3>1, <3>3, <3>7, <4>1, Moved DEF TakeStatus
        <3> QED BY <2>5, <3>2, <3>5, <3>6, <3>7
    <2>6. ASSUME NEW e \in Eval, ScanHitsEOF(e)
          PROVE  [Service!Next]_(Service!vars)
        <3>1. \A f \in Eval : f # e => ServiceAt(f)' = ServiceAt(f)
            BY <2>0, <2>6, OthersStay DEF ScanHitsEOF
        <3>2. ServiceAt(e) = "running" /\ ServiceAt(e)' = "running"
            BY <2>0, <2>6 DEF TypeOK, ScanHitsEOF, ServiceAt, NoLine
        <3>3. CASE dead
            BY <2>0, <2>6, <3>1, <3>2, <3>3, Stutters DEF ScanHitsEOF, Process
        <3>4. CASE ~dead
            <4>1. Service!Lose(1)
                BY <2>0, <2>6, <3>1, <3>2, <3>4 DEF ScanHitsEOF, Process, Service!Lose
            <4> QED BY <4>1 DEF Service!Next
        <3> QED BY <3>3, <3>4
    <2>7. ASSUME NEW e \in Eval, ClearBusy(e)
          PROVE  [Service!Next]_(Service!vars)
        <3>1. ServiceAt(e)' = ServiceAt(e)
            BY <2>0, <2>7 DEF TypeOK, ClearBusy, ServiceAt
        <3> QED BY <2>0, <2>7, <3>1, Moved DEF ClearBusy, Process
    <2>8. ASSUME NEW e \in Eval, Release(e)
          PROVE  [Service!Next]_(Service!vars)
        <3>1. ServiceAt(e) # "out" /\ ServiceAt(e)' = "out"
            BY <2>0, <2>8 DEF TypeOK, Release, ServiceAt
        <3>2. ServiceAt(e) = "admitted" => dead \/ proc = "exited"
            BY <1>2, <2>8 DEF IInv, WriteFailsWhenLost, Release, ServiceAt
        <3> QED BY <2>0, <2>8, <3>1, <3>2, Moved DEF Release, Process
    <2>9. ASSUME NEW e \in Eval, Cancel(e) \/ Look(e)
          PROVE  [Service!Next]_(Service!vars)
        BY <2>0, <2>9, Lost DEF Cancel, Look, Process
    <2>10. ASSUME NEW i, Ask(i) \/ Aim(i) \/ Poll(i) \/ Resend(i) \/ Deadline(i)
           PROVE  [Service!Next]_(Service!vars)
        BY <2>0, <2>10, Lost DEF Ask, Aim, Poll, Resend, Deadline, Signal, ProcessExits, Process
    <2>11. CASE Enter \/ Report \/ PrintSentinel \/ Hear \/ Deliver
        <3>1. UNCHANGED <<pc, result, dead, proc>>
            BY <2>11 DEF Enter, Report, PrintSentinel, Hear, EndsWith, Deliver, Moves, GoSide, Process
        <3> QED BY <2>0, <3>1, Lost
    <2>12. CASE Crash \/ HeirsLeave \/ Kill \/ KillEnds \/ UNCHANGED vars
        <3>1. /\ UNCHANGED <<pc, result>>
              /\ dead' \in {dead, TRUE} /\ proc' \in {proc, "exited"}
            BY <2>12 DEF Crash, Leaves, ProcessExits, HeirsLeave, Kill, KillEnds, GoSide, vars
        <3> QED BY <2>0, <3>1, Lost
    <2> QED
        BY <1>2, <2>1, <2>2, <2>3, <2>4, <2>5, <2>6, <2>7, <2>8, <2>9, <2>10, <2>11, <2>12
        DEF Next, ExecuteStep, InterruptStep, Idle
<1> QED BY Invariance, <1>1, <1>2, PTL DEF Spec, ImplementsService, Service!Spec
=============================================================================
