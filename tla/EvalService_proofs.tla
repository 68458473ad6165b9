--------------------------- MODULE EvalService_proofs ---------------------------
(***************************************************************************)
(* What follows from the promise of EvalService alone, and so holds of        *)
(* whatever implements it.                                                    *)
(***************************************************************************)
EXTENDS EvalService, TLAPS

TypeOK ==
    /\ at \in [Client -> {"out", "waiting", "admitted", "running"}]
    /\ on \in [Client -> Session \cup {NoSession}]

\* A session never serves two calls: one that is let in finds it idle, and a
\* call that is served stays on the session it was made for.
THEOREM Exclusion == Spec => []OneAtATime
<1> DEFINE I == TypeOK /\ OneAtATime
<1>1. Init => I
    BY DEF Init, TypeOK, OneAtATime, Served
<1>2. ASSUME I, [Next]_vars
      PROVE  I'
    <2> USE DEF TypeOK
    <2>1. ASSUME NEW c \in Client, NEW s \in Session, Call(c, s)
          PROVE  I'
        BY <1>2, <2>1 DEF Call, OneAtATime, Served
    <2>2. ASSUME NEW c \in Client, Admit(c)
          PROVE  I'
        BY <1>2, <2>2 DEF Admit, OneAtATime, Served
    <2>3. ASSUME NEW c \in Client, Begin(c)
          PROVE  I'
        BY <1>2, <2>3 DEF Begin, OneAtATime, Served
    <2>4. ASSUME NEW c \in Client, Answer(c)
          PROVE  I'
        BY <1>2, <2>4 DEF Answer, OneAtATime, Served
    <2>5. ASSUME NEW s \in Session, Lose(s)
          PROVE  I'
        BY <1>2, <2>5 DEF Lose, OneAtATime, Served
    <2>6. CASE UNCHANGED vars
        BY <1>2, <2>6 DEF vars, OneAtATime, Served
    <2> QED BY <1>2, <2>1, <2>2, <2>3, <2>4, <2>5, <2>6 DEF Next
<1> QED BY <1>1, <1>2, PTL DEF Spec
=============================================================================
