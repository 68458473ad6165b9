--------------------------- MODULE OutputScan_proofs ---------------------------
(***************************************************************************)
(* Proofs about OutputScan, for any sentinel, any size of runes, reads and   *)
(* input: that what is held back is a part of the line, that nothing of the  *)
(* output is lost, repeated or reordered, and what a death reports; and then *)
(* where the scan stops, what it may hold back, and that it cuts no rune.    *)
(***************************************************************************)
EXTENDS OutputScan, SequenceTheorems, FiniteSetTheorems, WellFoundedInduction, TLAPS

\* A non-empty set of natural numbers has a least one.
LEMMA Least ==
    ASSUME NEW T \in SUBSET Nat, T # {}
    PROVE  \E x \in T : \A y \in T : x <= y
<1> DEFINE R == OpToRel(<, Nat)
<1>1. IsWellFoundedOn(R, Nat)
    BY NatLessThanWellFounded
<1>2. \A x, y \in Nat : x < y => <<x, y>> \in R
    BY DEF OpToRel
<1> HIDE DEF R
<1>3. PICK x \in T : \A y \in T : ~(<<y, x>> \in R)
    BY <1>1, WFMin
<1>4. \A y \in T : ~(y < x)
    BY <1>2, <1>3
<1>5. x \in Nat /\ \A y \in T : y \in Nat
    OBVIOUS
<1>6. \A y \in T : x <= y
    BY <1>4, <1>5
<1> QED BY <1>6

\* MaxOf of numbers up to n is the greatest of them.
LEMMA Greatest ==
    ASSUME NEW n \in Nat, NEW S \in SUBSET (0..n), S # {}
    PROVE  MaxOf(S) \in S /\ \A k \in S : k <= MaxOf(S)
<1> DEFINE T == {n - k : k \in S}
<1>1. T \in SUBSET Nat /\ T # {}
    <2>1. \A k \in S : k \in 0..n /\ n - k \in Nat
        OBVIOUS
    <2> QED BY <2>1
<1>2. PICK x \in T : \A y \in T : x <= y
    BY <1>1, Least
<1>3. PICK m \in S : x = n - m
    BY <1>2
<1>4. \A k \in S : k <= m
    <2> TAKE k \in S
    <2>1. n - m <= n - k
        BY <1>2, <1>3
    <2> QED BY <2>1
<1> QED BY <1>3, <1>4 DEF MaxOf
-----------------------------------------------------------------------------
(* Cutting a sequence *)

LEMMA Cut ==
    ASSUME NEW S, NEW s \in Seq(S), NEW n \in 0..Len(s)
    PROVE  /\ Upto(s, n) \in Seq(S) /\ Len(Upto(s, n)) = n
           /\ After(s, n) \in Seq(S) /\ Len(After(s, n)) = Len(s) - n
           /\ Upto(s, n) \o After(s, n) = s
           /\ \A i \in 1..n : Upto(s, n)[i] = s[i]
           /\ \A i \in 1..(Len(s) - n) : After(s, n)[i] = s[n + i]
<1>1. \A i \in 1..Len(s) : s[i] \in S
    BY ElementOfSeq
<1>2. Len(s) \in Nat
    BY LenProperties
<1>3. \A i \in 1..n : s[i] \in S
    BY <1>1, <1>2
<1>4. /\ Upto(s, n) \in Seq(S) /\ Len(Upto(s, n)) = n
      /\ \A i \in 1..n : Upto(s, n)[i] = s[i]
    BY <1>2, <1>3, SubSeqProperties DEF Upto
<1>5. \A i \in (n + 1)..Len(s) : s[i] \in S
    BY <1>1, <1>2
<1>6. /\ After(s, n) \in Seq(S) /\ Len(After(s, n)) = Len(s) - n
      /\ \A i \in 1..(Len(s) - n) : After(s, n)[i] = s[n + i]
    BY <1>2, <1>5, SubSeqProperties DEF After
<1>7. Upto(s, n) \o After(s, n) = s
    <2>1. SubSeq(s, 1, n) \o SubSeq(s, n + 1, Len(s)) = SubSeq(s, 1, Len(s))
        <3>1. /\ 1 \in 1..(Len(s) + 1) /\ n \in (1 - 1)..Len(s) /\ Len(s) \in n..Len(s)
            BY <1>2
        <3> QED BY <3>1, ConcatAdjacentSubSeq, Zenon
    <2>2. SubSeq(s, 1, Len(s)) = s
        BY SubSeqFull
    <2> QED BY <2>1, <2>2 DEF Upto, After
<1> QED BY <1>4, <1>6, <1>7

\* An element may be counted to the left or to the right of a cut.
LEMMA Shift ==
    ASSUME NEW S, NEW a \in Seq(S), NEW x \in S, NEW c \in Seq(S)
    PROVE  Append(a, x) \o c = a \o (<<x>> \o c)
<1>1. PICK b \in Seq(S) : b = <<x>>
    <2>1. <<x>> \in Seq(S)
        OBVIOUS
    <2> QED BY <2>1
<1>2. (a \o b) \o c = a \o (b \o c)
    BY ConcatAssociative
<1>3. Append(a, x) = a \o <<x>>
    BY AppendIsConcat
<1> QED BY <1>1, <1>2, <1>3, Zenon

\* A sequence is cut at one of its elements.
LEMMA CutAt ==
    ASSUME NEW S, NEW s \in Seq(S), NEW i \in 1..Len(s)
    PROVE  s = Append(Upto(s, i - 1), s[i]) \o After(s, i)
<1>1. Len(s) \in Nat /\ s[i] \in S
    BY LenProperties, ElementOfSeq
<1>2. i - 1 \in 0..Len(s) /\ i \in 0..Len(s)
    BY <1>1
<1>3. SubSeq(s, i, Len(s)) = <<s[i]>> \o SubSeq(s, i + 1, Len(s))
    BY <1>1, SubSeqRecursiveFirst
<1>4. After(s, i - 1) = <<s[i]>> \o After(s, i)
    <2>1. i - 1 + 1 = i
        BY <1>1
    <2> QED BY <1>3, <2>1 DEF After
<1>5. s = Upto(s, i - 1) \o After(s, i - 1)
    BY <1>2, Cut
<1>6. Upto(s, i - 1) \in Seq(S) /\ After(s, i) \in Seq(S)
    BY <1>2, Cut
<1>7. PICK a \in Seq(S), x \in S, c \in Seq(S) :
            a = Upto(s, i - 1) /\ x = s[i] /\ c = After(s, i)
    BY <1>1, <1>6
<1>8. Append(a, x) \o c = a \o (<<x>> \o c)
    BY Shift
<1> QED BY <1>4, <1>5, <1>7, <1>8
-----------------------------------------------------------------------------
(* What is held back is a part of the line *)

LEMMA SentinelLen == Len(Sentinel) \in Nat /\ Sentinel \in Seq(Plain)
    BY SentinelIsText, LenProperties

LEMMA TextInLine ==
    ASSUME NEW p \in Seq(Byte)
    PROVE  /\ TextLen(p) \in 0..Len(p)
           /\ Closes(p) => Len(Sentinel) <= TextLen(p)
<1>1. Len(p) \in Nat
    BY LenProperties
<1>2. TextLen(p) \in 0..Len(p)
    <2> DEFINE S == {0} \cup {n \in 1..Len(p) : p[n] # CR}
    <2>1. S \in SUBSET (0..Len(p)) /\ S # {}
        BY <1>1
    <2> HIDE DEF S
    <2>2. MaxOf(S) \in S
        BY <1>1, <2>1, Greatest
    <2> QED BY <2>1, <2>2 DEF TextLen, S
<1>3. Len(Text(p)) = TextLen(p)
    BY <1>2, Cut DEF Text
<1> QED BY <1>2, <1>3 DEF Closes, EndsWith

LEMMA OverlapInLine ==
    ASSUME NEW p \in Seq(Byte)
    PROVE  sentinelOverlap(p) \in 0..Len(p)
<1> DEFINE S == {k \in 0..Len(Sentinel) : EndsWith(p, Upto(Sentinel, k))}
<1>1. Len(p) \in Nat
    BY LenProperties
<1>2. \A k \in 0..Len(Sentinel) : Len(Upto(Sentinel, k)) = k
    BY SentinelLen, Cut
<1>3. EndsWith(p, Upto(Sentinel, 0))
    <2>1. 0 \in 0..Len(Sentinel) /\ Len(p) \in 0..Len(p)
        BY <1>1, SentinelLen
    <2>2. Len(Upto(Sentinel, 0)) = 0 /\ Upto(Sentinel, 0) \in Seq(Plain)
        BY <2>1, SentinelLen, Cut
    <2>3. Len(After(p, Len(p))) = 0 /\ After(p, Len(p)) \in Seq(Byte)
        BY <1>1, <2>1, Cut
    <2>4. Upto(Sentinel, 0) = <<>> /\ After(p, Len(p)) = <<>>
        BY <2>2, <2>3, EmptySeq
    <2> QED BY <1>1, <2>2, <2>4 DEF EndsWith
<1>4. S \in SUBSET (0..Len(Sentinel)) /\ S # {}
    BY <1>3, SentinelLen
<1>5. \A k \in S : k \in 0..Len(p)
    BY <1>1, <1>2, SentinelLen DEF EndsWith
<1> HIDE DEF S
<1>6. MaxOf(S) \in S
    BY <1>4, SentinelLen, Greatest
<1> QED BY <1>5, <1>6 DEF sentinelOverlap, S

LEMMA RuneInLine ==
    ASSUME NEW p \in Seq(Byte)
    PROVE  partialRuneSuffix(p) \in 0..Len(p)
<1> DEFINE S == {0} \cup {k \in 1..(RuneLen - 1) :
                            /\ k <= Len(p) /\ p[Len(p) - k + 1] = Lead
                            /\ \A i \in (Len(p) - k + 2)..Len(p) : p[i] = Cont}
<1>1. Len(p) \in Nat /\ RuneLen \in Nat
    BY LenProperties, SizesAreNat
<1>2. S \in SUBSET (0..Len(p)) /\ S # {}
    BY <1>1
<1> HIDE DEF S
<1>3. MaxOf(S) \in S
    BY <1>1, <1>2, Greatest
<1> QED BY <1>2, <1>3 DEF partialRuneSuffix, S

\* What may not be sent yet is never more than the line.
LEMMA HeldIsInLine ==
    ASSUME NEW p \in Seq(Byte)
    PROVE  holdback(p) \in 0..Len(p)
<1>1. Len(p) \in Nat
    BY LenProperties
<1>2. CASE TextLen(p) < Len(p) /\ Closes(p)
    <2>1. TextLen(p) \in 0..Len(p) /\ Len(Sentinel) <= TextLen(p)
        BY <1>2, TextInLine
    <2>2. holdback(p) = Len(p) - TextLen(p) + Len(Sentinel)
        BY <1>2 DEF holdback
    <2> QED BY <1>1, <2>1, <2>2, SentinelLen
<1>3. CASE ~(TextLen(p) < Len(p) /\ Closes(p))
    <2> DEFINE n == sentinelOverlap(p)
               q == Upto(p, Len(p) - n)
    <2>1. n \in 0..Len(p) /\ Len(p) - n \in 0..Len(p)
        BY <1>1, OverlapInLine
    <2>2. q \in Seq(Byte) /\ Len(q) = Len(p) - n
        BY <2>1, Cut
    <2>3. partialRuneSuffix(q) \in 0..Len(q)
        BY <2>2, RuneInLine
    <2>4. holdback(p) = n + partialRuneSuffix(q)
        BY <1>3 DEF holdback
    <2> HIDE DEF n, q
    <2> QED BY <1>1, <2>1, <2>2, <2>3, <2>4
<1> QED BY <1>2, <1>3
-----------------------------------------------------------------------------
(* The tail *)

\* Where the last n of k elements begin.
Skip(k, n) == IF k > n THEN k - n ELSE 0

LEMMA LastIs ==
    ASSUME NEW S, NEW s \in Seq(S), NEW n \in Nat
    PROVE  /\ Skip(Len(s), n) \in 0..Len(s)
           /\ Last(s, n) \in Seq(S)
           /\ Len(Last(s, n)) = Len(s) - Skip(Len(s), n)
           /\ \A i \in 1..Len(Last(s, n)) : Last(s, n)[i] = s[Skip(Len(s), n) + i]
<1>1. Len(s) \in Nat
    BY LenProperties
<1>2. Skip(Len(s), n) \in 0..Len(s)
    BY <1>1 DEF Skip
<1>3. PICK d \in 0..Len(s) : d = Skip(Len(s), n)
    BY <1>2
<1>4. /\ After(s, d) \in Seq(S) /\ Len(After(s, d)) = Len(s) - d
      /\ \A i \in 1..(Len(s) - d) : After(s, d)[i] = s[d + i]
    BY Cut
<1>5. Last(s, n) = After(s, d)
    BY <1>3 DEF Last, Skip
<1> QED BY <1>2, <1>3, <1>4, <1>5

\* The last n bytes can be kept piece by piece.
LEMMA LastOfLast ==
    ASSUME NEW S, NEW e \in Seq(S), NEW b \in Seq(S), NEW n \in Nat
    PROVE  Last(Last(e, n) \o b, n) = Last(e \o b, n)
<1>1. PICK u \in Seq(S) : u = Last(e, n)
    BY LastIs
<1>2. PICK d \in 0..Len(e) : d = Skip(Len(e), n)
    BY LastIs
<1>3. Len(u) = Len(e) - d /\ \A i \in 1..Len(u) : u[i] = e[d + i]
    BY <1>1, <1>2, LastIs
<1>4. PICK v \in Seq(S) : v = u \o b
    BY ConcatProperties
<1>5. PICK w \in Seq(S) : w = e \o b
    BY ConcatProperties
<1>6. Len(e) \in Nat /\ Len(b) \in Nat /\ Len(u) \in Nat /\ Len(v) \in Nat /\ Len(w) \in Nat
    BY LenProperties
<1>7. /\ Len(v) = Len(u) + Len(b)
      /\ \A i \in 1..Len(v) : v[i] = IF i <= Len(u) THEN u[i] ELSE b[i - Len(u)]
    BY <1>4, ConcatProperties
<1>8. /\ Len(w) = Len(e) + Len(b)
      /\ \A i \in 1..Len(w) : w[i] = IF i <= Len(e) THEN e[i] ELSE b[i - Len(e)]
    BY <1>5, ConcatProperties
<1>9. Len(w) = Len(v) + d
    BY <1>3, <1>6, <1>7, <1>8
<1>10. \A i \in 1..Len(v) : v[i] = w[d + i]
    <2> TAKE i \in 1..Len(v)
    <2>1. d + i \in 1..Len(w)
        BY <1>6, <1>9
    <2>2. CASE i <= Len(u)
        <3>1. i \in 1..Len(u) /\ d + i <= Len(e)
            BY <1>3, <1>6, <2>2
        <3> QED BY <1>3, <1>7, <1>8, <2>1, <2>2, <3>1
    <2>3. CASE ~(i <= Len(u))
        <3>1. ~(d + i <= Len(e)) /\ d + i - Len(e) = i - Len(u)
            BY <1>3, <1>6, <2>3
        <3> QED BY <1>7, <1>8, <2>1, <2>3, <3>1
    <2> QED BY <2>2, <2>3
<1>11. Skip(Len(w), n) = d + Skip(Len(v), n)
    <2>1. CASE Len(e) > n
        <3>1. d = Len(e) - n /\ Len(v) = n + Len(b)
            BY <1>2, <1>3, <1>6, <1>7, <2>1 DEF Skip
        <3> QED BY <1>6, <1>8, <3>1 DEF Skip
    <2>2. CASE ~(Len(e) > n)
        <3>1. d = 0 /\ Len(w) = Len(v)
            BY <1>2, <1>6, <1>9, <2>2 DEF Skip
        <3> QED BY <1>6, <3>1 DEF Skip
    <2> QED BY <2>1, <2>2
<1>12. PICK x \in Seq(S) : x = Last(v, n)
    BY LastIs
<1>13. PICK y \in Seq(S) : y = Last(w, n)
    BY LastIs
<1>14. PICK f \in 0..Len(v) : f = Skip(Len(v), n)
    BY LastIs
<1>15. Len(x) = Len(v) - f /\ \A i \in 1..Len(x) : x[i] = v[f + i]
    BY <1>12, <1>14, LastIs
<1>16. Len(y) = Len(w) - (d + f) /\ \A i \in 1..Len(y) : y[i] = w[(d + f) + i]
    <2>1. PICK g \in 0..Len(w) : g = Skip(Len(w), n)
        BY LastIs
    <2>2. Len(y) = Len(w) - g /\ \A i \in 1..Len(y) : y[i] = w[g + i]
        BY <1>13, <2>1, LastIs
    <2>3. g = d + f
        BY <1>11, <1>14, <2>1
    <2> QED BY <2>2, <2>3
<1>17. Len(x) = Len(y)
    BY <1>6, <1>9, <1>15, <1>16
<1>18. \A i \in 1..Len(x) : x[i] = y[i]
    <2> TAKE i \in 1..Len(x)
    <2>1. f + i \in 1..Len(v) /\ (d + f) + i = d + (f + i)
        BY <1>6, <1>15
    <2> QED BY <1>10, <1>15, <1>16, <1>17, <2>1
<1>19. x = y
    BY <1>17, <1>18, SeqEqual
<1> QED BY <1>1, <1>4, <1>5, <1>12, <1>13, <1>19
LEMMA LastOfEmpty ==
    ASSUME NEW n \in Nat
    PROVE  Last(<<>>, n) = <<>>
<1>1. <<>> \in Seq({}) /\ Len(<<>>) = 0
    BY EmptySeq
<1>2. Last(<<>>, n) \in Seq({}) /\ Len(Last(<<>>, n)) = 0 - Skip(0, n) /\ Skip(0, n) \in 0..0
    BY <1>1, LastIs
<1>3. Len(Last(<<>>, n)) = 0
    BY <1>2
<1> QED BY <1>2, <1>3, EmptySeq
-----------------------------------------------------------------------------
(* The loop *)

\* Sent, held back and not yet looked at are what was read; when the scan is at
\* the end of the pipe nothing is left to send.
Whole ==
    /\ at # "closed" => emitted \o pending \o chunk = input
    /\ at = "eof" => pending = <<>> /\ chunk = <<>>

TailIsLast == tail = Last(emitted, MaxTail)

IInv == TypeOK /\ Whole /\ TailIsLast

\* Concatenation as a name of its own: the provers regroup terms with a name they
\* know nothing of more easily than with \o.
Cat(a, b) == a \o b

LEMMA CatCloses ==
    ASSUME NEW S
    PROVE  \A a, b \in Seq(S) : Cat(a, b) \in Seq(S)
<1> SUFFICES ASSUME NEW a \in Seq(S), NEW b \in Seq(S)
             PROVE  a \o b \in Seq(S)
    BY DEF Cat
<1> QED BY ConcatProperties

LEMMA CatAssociates ==
    ASSUME NEW S
    PROVE  \A a, b, c \in Seq(S) : Cat(Cat(a, b), c) = Cat(a, Cat(b, c))
<1> SUFFICES ASSUME NEW a \in Seq(S), NEW b \in Seq(S), NEW c \in Seq(S)
             PROVE  (a \o b) \o c = a \o (b \o c)
    BY DEF Cat
<1> QED BY ConcatAssociative

\* A line with its newline may be grouped with what was sent before it.
LEMMA Regroup ==
    ASSUME NEW S, NEW e \in Seq(S), NEW p \in Seq(S), NEW u \in Seq(S), NEW n \in Seq(S),
           NEW z \in Seq(S)
    PROVE  Cat(Cat(e, Cat(Cat(p, u), n)), z) = Cat(Cat(e, p), Cat(Cat(u, n), z))
<1>1. \A a, b \in Seq(S) : Cat(a, b) \in Seq(S)
    BY CatCloses
<1>2. \A a, b, c \in Seq(S) : Cat(Cat(a, b), c) = Cat(a, Cat(b, c))
    BY CatAssociates
<1>3. Cat(Cat(p, u), n) = Cat(p, Cat(u, n)) /\ Cat(u, n) \in Seq(S)
    BY <1>1, <1>2
<1>4. Cat(Cat(e, Cat(p, Cat(u, n))), z) = Cat(e, Cat(Cat(p, Cat(u, n)), z))
    BY <1>1, <1>2, <1>3
<1>5. Cat(Cat(p, Cat(u, n)), z) = Cat(p, Cat(Cat(u, n), z))
    BY <1>1, <1>2, <1>3
<1>6. Cat(Cat(e, p), Cat(Cat(u, n), z)) = Cat(e, Cat(p, Cat(Cat(u, n), z)))
    BY <1>1, <1>2, <1>3
<1> QED BY <1>3, <1>4, <1>5, <1>6

\* Whatever is sent, the tail is the last of all that was.
LEMMA Sent ==
    ASSUME TypeOK, TailIsLast, NEW b \in Seq(Byte), send(b)
    PROVE  emitted' \in Seq(Byte) /\ tail' \in Seq(Byte) /\ TailIsLast'
<1>1. emitted' = emitted \o b /\ emitted' \in Seq(Byte)
    BY ConcatProperties DEF TypeOK, send
<1>2. tail' = Last(Last(emitted, MaxTail) \o b, MaxTail)
    BY DEF send, TailIsLast
<1>3. tail' = Last(emitted', MaxTail)
    BY <1>1, <1>2, LastOfLast, SizesAreNat DEF TypeOK
<1> QED BY <1>1, <1>3, LastIs, SizesAreNat DEF TailIsLast

LEMMA ReadStep ==
    ASSUME IInv, Read
    PROVE  IInv'
<1>1. PICK n \in 1..MaxRead : \E c \in [1..n -> Byte] : chunk' = c /\ input' = input \o c
    BY DEF Read
<1>2. chunk' \in Seq(Byte) /\ input' = input \o chunk'
    BY <1>1, SizesAreNat, IsASeq
<1>3. emitted \o pending = input
    <2>1. emitted \o pending \in Seq(Byte)
        BY ConcatProperties DEF IInv, TypeOK
    <2>2. (emitted \o pending) \o <<>> = emitted \o pending
        BY <2>1, ConcatEmptySeq
    <2> QED BY <2>2 DEF IInv, TypeOK, Whole, Read
<1>4. input' \in Seq(Byte)
    BY <1>2, ConcatProperties DEF IInv, TypeOK
<1>5. emitted' \o pending' \o chunk' = input'
    BY <1>2, <1>3 DEF Read
<1> QED BY <1>2, <1>4, <1>5 DEF IInv, TypeOK, Whole, TailIsLast, Read

\* Up to its first newline a chunk ends the line that is pending.
LEMMA LineOf ==
    ASSUME TypeOK, NEW i \in DOMAIN chunk, Newline(i)
    PROVE  /\ pending \o Upto(chunk, i - 1) \in Seq(Byte)
           /\ After(chunk, i) \in Seq(Byte)
           /\ chunk = Append(Upto(chunk, i - 1), NL) \o After(chunk, i)
<1>1. chunk \in Seq(Byte) /\ Len(chunk) \in Nat /\ DOMAIN chunk = 1..Len(chunk)
    BY LenProperties DEF TypeOK
<1>2. i \in 1..Len(chunk) /\ i - 1 \in 0..Len(chunk) /\ i \in 0..Len(chunk)
    BY <1>1
<1>3. Upto(chunk, i - 1) \in Seq(Byte) /\ After(chunk, i) \in Seq(Byte)
    BY <1>1, <1>2, Cut
<1>4. chunk = Append(Upto(chunk, i - 1), chunk[i]) \o After(chunk, i)
    BY <1>1, <1>2, CutAt
<1> QED BY <1>3, <1>4, ConcatProperties DEF TypeOK, Newline

LEMMA CloseStep ==
    ASSUME IInv, CloseLine
    PROVE  IInv'
<1> DEFINE line(i) == pending \o Upto(chunk, i - 1)
<1>1. PICK i \in DOMAIN chunk : /\ Newline(i) /\ Closes(line(i))
                                /\ send(Upto(line(i), TextLen(line(i)) - Len(Sentinel)))
                                /\ chunk' = After(chunk, i) /\ pending' = line(i)
    BY DEF CloseLine
<1>2. line(i) \in Seq(Byte) /\ After(chunk, i) \in Seq(Byte)
    BY <1>1, LineOf DEF IInv
<1> HIDE DEF line
<1>3. TextLen(line(i)) - Len(Sentinel) \in 0..Len(line(i))
    <2>1. TextLen(line(i)) \in 0..Len(line(i)) /\ Len(Sentinel) <= TextLen(line(i))
        BY <1>1, <1>2, TextInLine
    <2>2. Len(line(i)) \in Nat
        BY <1>2, LenProperties
    <2> QED BY <2>1, <2>2, SentinelLen
<1>4. Upto(line(i), TextLen(line(i)) - Len(Sentinel)) \in Seq(Byte)
    BY <1>2, <1>3, Cut
<1>5. emitted' \in Seq(Byte) /\ tail' \in Seq(Byte) /\ TailIsLast'
    BY <1>1, <1>4, Sent DEF IInv
<1> QED BY <1>1, <1>2, <1>5 DEF IInv, TypeOK, Whole, CloseLine

LEMMA LineStep ==
    ASSUME IInv, SendLine
    PROVE  IInv'
<1> DEFINE line(i) == pending \o Upto(chunk, i - 1)
<1>1. PICK i \in DOMAIN chunk : /\ Newline(i) /\ send(Append(line(i), NL))
                                /\ chunk' = After(chunk, i)
    BY DEF SendLine
<1>2. /\ line(i) \in Seq(Byte) /\ After(chunk, i) \in Seq(Byte)
      /\ chunk = Append(Upto(chunk, i - 1), NL) \o After(chunk, i)
    BY <1>1, LineOf DEF IInv
<1>3. NL \in Byte /\ Append(line(i), NL) \in Seq(Byte)
    BY <1>2, AppendProperties DEF Byte
<1>4. emitted' \in Seq(Byte) /\ tail' \in Seq(Byte) /\ TailIsLast'
    BY <1>1, <1>3, Sent DEF IInv
<1>5. emitted' \o pending' \o chunk' = input'
    <2>1. PICK u \in Seq(Byte) : u = Upto(chunk, i - 1)
        <3>1. i \in 1..Len(chunk) /\ Len(chunk) \in Nat
            BY LenProperties DEF IInv, TypeOK
        <3>2. i - 1 \in 0..Len(chunk)
            BY <3>1
        <3> QED BY <3>2, Cut DEF IInv, TypeOK
    <2>2. PICK z \in Seq(Byte) : z = After(chunk, i)
        BY <1>2
    <2>3. PICK n \in Seq(Byte) : n = <<NL>>
        <3>1. <<NL>> \in Seq(Byte)
            BY <1>3
        <3> QED BY <3>1
    <2>4. PICK e \in Seq(Byte), p \in Seq(Byte) : e = emitted /\ p = pending
        BY DEF IInv, TypeOK
    <2>5. Append(line(i), NL) = Cat(Cat(p, u), n) /\ Append(u, NL) = Cat(u, n)
        BY <1>2, <1>3, <2>1, <2>3, <2>4, AppendIsConcat DEF Cat
    <2>6. emitted' = Cat(e, Cat(Cat(p, u), n))
        BY <1>1, <2>4, <2>5 DEF send, Cat
    <2>7. input = Cat(Cat(e, p), Cat(Cat(u, n), z))
        BY <1>2, <2>1, <2>2, <2>4, <2>5 DEF IInv, Whole, SendLine, Cat
    <2>8. Cat(emitted', z) = input
        BY <2>6, <2>7, Regroup
    <2>9. emitted' \o <<>> = emitted'
        BY <1>4, ConcatEmptySeq
    <2> QED BY <1>1, <2>2, <2>8, <2>9 DEF SendLine, Cat
<1> QED BY <1>1, <1>2, <1>4, <1>5, EmptySeq DEF IInv, TypeOK, Whole, SendLine

LEMMA SafeStep ==
    ASSUME IInv, SendSafe
    PROVE  IInv'
<1>1. PICK l \in Seq(Byte) : l = pending \o chunk
    BY ConcatProperties DEF IInv, TypeOK
<1>2. PICK k \in 0..Len(l) : k = Len(l) - holdback(l)
    <2>1. Len(l) \in Nat /\ holdback(l) \in 0..Len(l)
        BY <1>1, HeldIsInLine, LenProperties
    <2> QED BY <2>1
<1>3. Upto(l, k) \in Seq(Byte) /\ After(l, k) \in Seq(Byte) /\ l = Upto(l, k) \o After(l, k)
    BY <1>2, Cut
<1>4. send(Upto(l, k)) /\ pending' = After(l, k) /\ chunk' = <<>>
    BY <1>1, <1>2 DEF SendSafe
<1>5. emitted' \in Seq(Byte) /\ tail' \in Seq(Byte) /\ TailIsLast'
    BY <1>3, <1>4, Sent DEF IInv
<1>6. emitted' \o pending' \o chunk' = input'
    <2>1. emitted' = Cat(emitted, Upto(l, k)) /\ l = Cat(Upto(l, k), After(l, k))
        BY <1>3, <1>4 DEF send, Cat
    <2>2. Cat(emitted', pending') = Cat(emitted, l)
        BY <1>3, <1>4, <2>1, CatAssociates DEF IInv, TypeOK
    <2>3. Cat(Cat(emitted, pending), chunk) = Cat(emitted, Cat(pending, chunk))
        BY CatAssociates DEF IInv, TypeOK
    <2>4. input = Cat(Cat(emitted, pending), chunk) /\ input' = input /\ l = Cat(pending, chunk)
        BY <1>1 DEF IInv, Whole, SendSafe, Cat
    <2>5. Cat(emitted', pending') = input' /\ Cat(emitted', pending') \in Seq(Byte)
        BY <1>3, <1>4, <1>5, <2>2, <2>3, <2>4, CatCloses
    <2> QED BY <1>4, <2>5, ConcatEmptySeq DEF Cat
<1> QED BY <1>3, <1>4, <1>5, <1>6, EmptySeq DEF IInv, TypeOK, Whole, SendSafe

LEMMA EndStep ==
    ASSUME IInv, EOF
    PROVE  IInv'
<1>1. emitted' \in Seq(Byte) /\ tail' \in Seq(Byte) /\ TailIsLast'
    BY Sent DEF IInv, TypeOK, EOF
<1>2. emitted' = emitted \o pending /\ pending' = <<>> /\ chunk = <<>> /\ chunk' = <<>>
    BY DEF EOF, send, IInv, TypeOK
<1>3. input' = emitted' \o <<>> /\ input' \in Seq(Byte)
    BY <1>2 DEF IInv, TypeOK, Whole, EOF
<1>4. emitted' \o <<>> = emitted'
    BY <1>1, ConcatEmptySeq
<1> QED BY <1>1, <1>2, <1>3, <1>4, EmptySeq DEF IInv, TypeOK, Whole, EOF

LEMMA StartsWhole ==
    ASSUME Init
    PROVE  IInv
<1>1. <<>> \in Seq(Byte) /\ <<>> \o <<>> = <<>>
    BY EmptySeq, ConcatEmptySeq
<1>2. Last(<<>>, MaxTail) = <<>>
    BY SizesAreNat, LastOfEmpty
<1> QED BY <1>1, <1>2 DEF Init, IInv, TypeOK, Whole, TailIsLast

LEMMA WholeStep ==
    ASSUME IInv, [Next]_vars
    PROVE  IInv'
<1>1. CASE Read
    BY <1>1, ReadStep
<1>2. CASE CloseLine
    BY <1>2, CloseStep
<1>3. CASE SendLine
    BY <1>3, LineStep
<1>4. CASE SendSafe
    BY <1>4, SafeStep
<1>5. CASE EOF
    BY <1>5, EndStep
<1>6. CASE UNCHANGED vars
    BY <1>6 DEF IInv, TypeOK, Whole, TailIsLast, vars
<1> QED BY <1>1, <1>2, <1>3, <1>4, <1>5, <1>6 DEF Next, Done

\* The inductive invariant of the scan (scanToSentinel, go/session.go): what was
\* sent, held back and not yet looked at is what was read, whatever the sizes of
\* the reads and of the sentinel.
THEOREM Invariance == Spec => []IInv
BY StartsWhole, WholeStep, PTL DEF Spec

\* The scan's state is well typed: above all, holdback never asks for more than
\* the line has, so that no slice of it is out of range.
THEOREM Typing == Spec => []TypeOK
<1>1. IInv => TypeOK
    BY DEF IInv
<1> QED BY <1>1, Invariance, PTL

\* Output reaches the client byte for byte and in order, and a death of the
\* interpreter loses nothing of it, for every output and every division into reads.
THEOREM NothingLost == Spec => []Verbatim
<1>1. IInv => Verbatim
    <2> SUFFICES ASSUME IInv PROVE Verbatim
        OBVIOUS
    <2>1. ASSUME at = "eof" PROVE emitted = input
        <3>1. emitted \o <<>> \o <<>> = input /\ emitted \in Seq(Byte)
            BY <2>1 DEF IInv, TypeOK, Whole
        <3>2. emitted \o <<>> = emitted
            BY <3>1, ConcatEmptySeq
        <3> QED BY <3>1, <3>2
    <2> QED BY <2>1 DEF IInv, Whole, TailIsLast, Verbatim
<1> QED BY <1>1, Invariance, PTL
-----------------------------------------------------------------------------
(* Where the scan stops.  Sequences are compared byte by byte: what was read is   *)
(* looked at by position, whatever reads it came in.                            *)


LEMMA KindsDiffer ==
    /\ NL # CR /\ NL # Lead /\ NL # Cont /\ CR # Lead /\ CR # Cont /\ Lead # Cont
    /\ \A b \in Plain : b # NL /\ b # CR /\ b # Lead /\ b # Cont
<1>1. \A a, b, c : Cardinality({a, b, c}) <= 3
    <2> SUFFICES ASSUME NEW a, NEW b, NEW c PROVE Cardinality({a, b, c}) <= 3
        OBVIOUS
    <2>1. IsFiniteSet({}) /\ Cardinality({}) = 0
        BY FS_EmptySet
    <2>2. IsFiniteSet({a}) /\ Cardinality({a}) = 1
        BY FS_Singleton
    <2>3. IsFiniteSet({a} \cup {b}) /\ Cardinality({a} \cup {b}) <= 2
        BY <2>2, FS_AddElement
    <2>4. Cardinality(({a} \cup {b}) \cup {c}) <= 3
        BY <2>3, FS_AddElement, FS_CardinalityType
    <2>5. ({a} \cup {b}) \cup {c} = {a, b, c}
        OBVIOUS
    <2> QED BY <2>4, <2>5
<1>2. \A a, b, c : {NL, CR, Lead, Cont} # {a, b, c}
    <2> SUFFICES ASSUME NEW a, NEW b, NEW c, {NL, CR, Lead, Cont} = {a, b, c} PROVE FALSE
        OBVIOUS
    <2>1. Cardinality({a, b, c}) <= 3 /\ Cardinality({a, b, c}) = 4
        BY <1>1, KindsDistinct
    <2> QED BY <2>1
<1>3. NL # CR /\ CR # Lead /\ Lead # Cont
    <2>1. /\ NL = CR => {NL, CR, Lead, Cont} = {NL, Lead, Cont}
          /\ CR = Lead => {NL, CR, Lead, Cont} = {NL, CR, Cont}
          /\ Lead = Cont => {NL, CR, Lead, Cont} = {NL, CR, Lead}
        OBVIOUS
    <2> QED BY <1>2, <2>1
<1>4. NL # Lead /\ NL # Cont /\ CR # Cont
    <2>1. /\ NL = Lead => {NL, CR, Lead, Cont} = {NL, CR, Cont}
          /\ NL = Cont => {NL, CR, Lead, Cont} = {NL, CR, Lead}
          /\ CR = Cont => {NL, CR, Lead, Cont} = {NL, CR, Lead}
        OBVIOUS
    <2> QED BY <1>2, <2>1
<1>5. \A b \in Plain : b # NL /\ b # CR /\ b # Lead /\ b # Cont
    <2>1. Plain \cap {NL, CR, Lead, Cont} = {}
        BY KindsDistinct
    <2> QED BY <2>1
<1> QED BY <1>3, <1>4, <1>5
-----------------------------------------------------------------------------
(* Marks: the sentinel and the carriage returns that may follow it *)

Mark(x) == IF x <= Len(Sentinel) THEN Sentinel[x] ELSE CR

\* Between q and e, s reads like the beginning of a closing line's mark.
Marks(s, q, e) == \A x \in 1..(e - q) : s[q + x] = Mark(x)

\* ClosingLine, by position.
Closing(s, j) ==
    /\ s[j] = NL
    /\ \E q \in 0..(j - 1) : Marks(s, q, j - 1) /\ j - 1 - q >= Len(Sentinel)

LEMMA MarkIsText == \A x \in Nat \ {0} : Mark(x) \in Byte /\ Mark(x) # NL
<1> SUFFICES ASSUME NEW x \in Nat \ {0} PROVE Mark(x) \in Byte /\ Mark(x) # NL
    OBVIOUS
<1>1. x <= Len(Sentinel) => Sentinel[x] \in Plain
    <2>1. ASSUME x <= Len(Sentinel) PROVE x \in 1..Len(Sentinel)
        BY <2>1, SentinelLen
    <2> QED BY <2>1, SentinelLen, ElementOfSeq
<1> QED BY <1>1, KindsDiffer DEF Mark, Byte

\* What it is to end with a sequence, byte by byte.
LEMMA EndsWithIs ==
    ASSUME NEW p \in Seq(Byte), NEW s \in Seq(Byte)
    PROVE  EndsWith(p, s) <=> /\ Len(s) <= Len(p)
                              /\ \A x \in 1..Len(s) : p[Len(p) - Len(s) + x] = s[x]
<1>1. Len(p) \in Nat /\ Len(s) \in Nat
    BY LenProperties
<1>2. CASE Len(s) <= Len(p)
    <2>1. PICK d \in 0..Len(p) : d = Len(p) - Len(s)
        BY <1>1, <1>2
    <2>2. PICK a \in Seq(Byte) : a = After(p, d)
        BY Cut
    <2>3. Len(a) = Len(s) /\ \A x \in 1..Len(s) : a[x] = p[d + x]
        <3>1. Len(a) = Len(p) - d /\ \A x \in 1..(Len(p) - d) : a[x] = p[d + x]
            BY <2>2, Cut
        <3>2. Len(p) - d = Len(s)
            BY <1>1, <2>1
        <3> QED BY <3>1, <3>2
    <2>4. a = s <=> \A x \in 1..Len(s) : a[x] = s[x]
        BY <2>3, SeqEqual
    <2> QED BY <1>2, <2>1, <2>2, <2>3, <2>4 DEF EndsWith
<1>3. CASE ~(Len(s) <= Len(p))
    BY <1>3 DEF EndsWith
<1> QED BY <1>2, <1>3

LEMMA SentinelIsBytes == Sentinel \in Seq(Byte) /\ Len(Sentinel) \in Nat \ {0}
<1>1. Sentinel \in Seq(Byte)
    <2>1. \A x \in 1..Len(Sentinel) : Sentinel[x] \in Byte
        BY SentinelLen, ElementOfSeq DEF Byte
    <2> QED BY <2>1, SentinelLen, IsASeq
<1> QED BY <1>1, SentinelIsText, EmptySeq, LenProperties

\* The text of a line is what stands before its last carriage returns.
LEMMA TextIs ==
    ASSUME NEW p \in Seq(Byte)
    PROVE  /\ TextLen(p) \in 0..Len(p)
           /\ TextLen(p) > 0 => p[TextLen(p)] # CR
           /\ \A x \in 1..Len(p) : x > TextLen(p) => p[x] = CR
<1> DEFINE S == {0} \cup {n \in 1..Len(p) : p[n] # CR}
<1>1. Len(p) \in Nat
    BY LenProperties
<1>2. S \in SUBSET (0..Len(p)) /\ S # {}
    BY <1>1
<1> HIDE DEF S
<1>3. MaxOf(S) \in S /\ \A k \in S : k <= MaxOf(S)
    BY <1>1, <1>2, Greatest
<1>4. TextLen(p) \in S /\ \A k \in S : k <= TextLen(p)
    BY <1>3 DEF TextLen, S
<1>5. TextLen(p) \in 0..Len(p)
    BY <1>2, <1>4
<1>6. TextLen(p) > 0 => p[TextLen(p)] # CR
    BY <1>4 DEF S
<1>7. ASSUME NEW x \in 1..Len(p), x > TextLen(p) PROVE p[x] = CR
    <2>1. x \notin S
        BY <1>1, <1>4, <1>5, <1>7
    <2> QED BY <2>1 DEF S
<1> QED BY <1>5, <1>6, <1>7

\* The mark of a closing line ends with it.
LEMMA MarkOfText ==
    ASSUME NEW p \in Seq(Byte), Closes(p)
    PROVE  Marks(p, TextLen(p) - Len(Sentinel), Len(p))
<1>1. PICK n \in Nat, t \in Nat, m \in Nat \ {0} :
            n = Len(p) /\ t = TextLen(p) /\ m = Len(Sentinel) /\ t <= n /\ m <= t
    BY TextIs, TextInLine, SentinelIsBytes, LenProperties
<1>2. \A x \in 1..n : x > t => p[x] = CR
    BY <1>1, TextIs
<1>3. PICK u \in Seq(Byte) : u = Text(p) /\ Len(u) = t /\ \A x \in 1..t : u[x] = p[x]
    <2>1. t \in 0..Len(p)
        BY <1>1
    <2>2. /\ Upto(p, t) \in Seq(Byte) /\ Len(Upto(p, t)) = t
          /\ \A x \in 1..t : Upto(p, t)[x] = p[x]
        BY <2>1, Cut
    <2> QED BY <1>1, <2>2 DEF Text
<1>4. \A x \in 1..m : u[t - m + x] = Sentinel[x]
    <2>1. Sentinel \in Seq(Byte) /\ EndsWith(u, Sentinel)
        BY <1>3, SentinelIsBytes DEF Closes
    <2>2. \A x \in 1..Len(Sentinel) : u[Len(u) - Len(Sentinel) + x] = Sentinel[x]
        BY <2>1, EndsWithIs
    <2> QED BY <1>1, <1>3, <2>2
<1> SUFFICES ASSUME NEW x \in 1..(n - (t - m)) PROVE p[t - m + x] = Mark(x)
    BY <1>1 DEF Marks
<1>5. CASE x <= m
    <2>1. x \in 1..m /\ t - m + x \in 1..t
        BY <1>1, <1>5
    <2> QED BY <1>1, <1>3, <1>4, <1>5, <2>1 DEF Mark
<1>6. CASE ~(x <= m)
    <2>1. t - m + x \in 1..n /\ t - m + x > t
        BY <1>1, <1>6
    <2> QED BY <1>1, <1>2, <1>6, <2>1 DEF Mark
<1> QED BY <1>5, <1>6

\* A line closes the eval if and only if it ends with a whole mark.
LEMMA ClosesIs ==
    ASSUME NEW p \in Seq(Byte)
    PROVE  Closes(p) <=> \E q \in 0..Len(p) : Marks(p, q, Len(p)) /\ Len(p) - q >= Len(Sentinel)
<1>1. PICK n \in Nat, t \in Nat, m \in Nat \ {0} :
            n = Len(p) /\ t = TextLen(p) /\ m = Len(Sentinel) /\ t <= n
    BY TextIs, SentinelIsBytes, LenProperties
<1>2. (t > 0 => p[t] # CR) /\ \A x \in 1..n : x > t => p[x] = CR
    BY <1>1, TextIs
<1>3. PICK u \in Seq(Byte) : u = Text(p) /\ Len(u) = t /\ \A x \in 1..t : u[x] = p[x]
    <2>1. t \in 0..Len(p)
        BY <1>1
    <2>2. /\ Upto(p, t) \in Seq(Byte) /\ Len(Upto(p, t)) = t
          /\ \A x \in 1..t : Upto(p, t)[x] = p[x]
        BY <2>1, Cut
    <2> QED BY <1>1, <2>2 DEF Text
<1>4. \A x \in 1..t : u[x] = p[x]
    BY <1>3
<1>5. Closes(p) <=> m <= t /\ \A x \in 1..m : u[t - m + x] = Sentinel[x]
    <2>1. Closes(p) <=> EndsWith(u, Sentinel)
        BY <1>3 DEF Closes
    <2>2. Sentinel \in Seq(Byte)
        BY SentinelIsBytes
    <2>3. EndsWith(u, Sentinel) <=>
            /\ Len(Sentinel) <= Len(u)
            /\ \A x \in 1..Len(Sentinel) : u[Len(u) - Len(Sentinel) + x] = Sentinel[x]
        BY <2>2, EndsWithIs
    <2> QED BY <1>1, <1>3, <2>1, <2>3
<1>6. Closes(p) <=> m <= t /\ \A x \in 1..m : p[t - m + x] = Sentinel[x]
    <2>1. ASSUME m <= t PROVE \A x \in 1..m : u[t - m + x] = p[t - m + x]
        <3> TAKE x \in 1..m
        <3>1. t - m + x \in 1..t
            BY <2>1
        <3> QED BY <1>4, <3>1
    <2> QED BY <1>5, <2>1
<1>7. ASSUME Closes(p)
      PROVE  \E q \in 0..n : Marks(p, q, n) /\ n - q >= m
    <2>1. t - m \in 0..n /\ n - (t - m) >= m
        BY <1>1, <1>6, <1>7
    <2>2. ASSUME NEW x \in 1..(n - (t - m)) PROVE p[t - m + x] = Mark(x)
        <3>1. CASE x <= m
            <4>1. x \in 1..m
                BY <3>1
            <4> QED BY <1>1, <1>6, <1>7, <3>1, <4>1 DEF Mark
        <3>2. CASE ~(x <= m)
            <4>1. t - m + x \in 1..n /\ t - m + x > t
                BY <2>2, <3>2
            <4> QED BY <1>1, <1>2, <3>2, <4>1 DEF Mark
        <3> QED BY <3>1, <3>2
    <2> QED BY <2>1, <2>2 DEF Marks
<1>8. ASSUME NEW q \in 0..n, Marks(p, q, n), n - q >= m
      PROVE  Closes(p)
    <2>1. \A x \in 1..m : p[q + x] = Sentinel[x]
        <3> TAKE x \in 1..m
        <3>1. x \in 1..(n - q)
            BY <1>8
        <3> QED BY <1>1, <1>8, <3>1 DEF Marks, Mark
    <2>2. \A x \in 1..n : x > q + m => p[x] = CR
        <3> SUFFICES ASSUME NEW x \in 1..n, x > q + m PROVE p[x] = CR
            OBVIOUS
        <3>1. x - q \in 1..(n - q) /\ ~(x - q <= m) /\ q + (x - q) = x
            OBVIOUS
        <3> QED BY <1>1, <1>8, <3>1 DEF Marks, Mark
    <2>3. p[q + m] # CR
        <3>1. Sentinel[m] \in Plain
            BY <1>1, SentinelLen, ElementOfSeq
        <3>2. m \in 1..m
            OBVIOUS
        <3> QED BY <2>1, <3>1, <3>2, KindsDiffer
    <2>4. t = q + m
        <3>1. q + m \in 1..n
            BY <1>8
        <3>2. ~(q + m > t)
            BY <1>2, <2>3, <3>1
        <3>3. ~(t > q + m)
            <4>1. ASSUME t > q + m PROVE t \in 1..n /\ t > 0
                BY <1>1, <4>1
            <4> QED BY <1>2, <2>2, <4>1
        <3> QED BY <3>2, <3>3
    <2>5. t - m = q /\ m <= t
        BY <2>4
    <2> QED BY <1>6, <2>1, <2>5
<1> QED BY <1>1, <1>7, <1>8

LEMMA ClosingIs ==
    ASSUME NEW s \in Seq(Byte), NEW j \in 1..Len(s)
    PROVE  ClosingLine(s, j) <=> Closing(s, j)
<1>1. PICK n \in Nat, m \in Nat \ {0} : n = Len(s) /\ m = Len(Sentinel)
    BY SentinelIsBytes, LenProperties
<1>2. ASSUME NEW k \in 0..(j - 1)
      PROVE  EndsWith(Upto(s, k), Sentinel) <=> m <= k /\ \A x \in 1..m : s[k - m + x] = Sentinel[x]
    <2>1. PICK u \in Seq(Byte) : u = Upto(s, k) /\ Len(u) = k /\ \A x \in 1..k : u[x] = s[x]
        <3>1. k \in 0..Len(s)
            BY <1>1
        <3> QED BY <3>1, Cut
    <2>2. Len(u) = k /\ \A x \in 1..k : u[x] = s[x]
        BY <2>1
    <2>3. EndsWith(u, Sentinel) <=> m <= k /\ \A x \in 1..m : u[k - m + x] = Sentinel[x]
        BY <1>1, <2>2, EndsWithIs, SentinelIsBytes
    <2>4. ASSUME m <= k PROVE \A x \in 1..m : u[k - m + x] = s[k - m + x]
        <3> TAKE x \in 1..m
        <3>1. k - m + x \in 1..k
            BY <2>4
        <3> QED BY <2>2, <3>1
    <2> QED BY <2>1, <2>3, <2>4
<1>3. ASSUME NEW k \in 0..(j - 1), EndsWith(Upto(s, k), Sentinel),
             \A i \in (k + 1)..(j - 1) : s[i] = CR
      PROVE  \E q \in 0..(j - 1) : Marks(s, q, j - 1) /\ j - 1 - q >= m
    <2>1. m <= k /\ \A x \in 1..m : s[k - m + x] = Sentinel[x]
        BY <1>2, <1>3
    <2>2. k - m \in 0..(j - 1) /\ j - 1 - (k - m) >= m
        BY <2>1
    <2>3. ASSUME NEW x \in 1..(j - 1 - (k - m)) PROVE s[k - m + x] = Mark(x)
        <3>1. CASE x <= m
            <4>1. x \in 1..m
                BY <3>1
            <4> QED BY <1>1, <2>1, <3>1, <4>1 DEF Mark
        <3>2. CASE ~(x <= m)
            <4>1. k - m + x \in (k + 1)..(j - 1)
                BY <2>3, <3>2
            <4> QED BY <1>1, <1>3, <3>2, <4>1 DEF Mark
        <3> QED BY <3>1, <3>2
    <2> QED BY <2>2, <2>3 DEF Marks
<1>4. ASSUME NEW q \in 0..(j - 1), Marks(s, q, j - 1), j - 1 - q >= m
      PROVE  \E k \in 0..(j - 1) : /\ EndsWith(Upto(s, k), Sentinel)
                                   /\ \A i \in (k + 1)..(j - 1) : s[i] = CR
    <2>1. q + m \in 0..(j - 1) /\ m <= q + m /\ q + m - m = q
        BY <1>4
    <2>2. \A x \in 1..m : s[q + x] = Sentinel[x]
        <3> TAKE x \in 1..m
        <3>1. x \in 1..(j - 1 - q)
            BY <1>4
        <3> QED BY <1>1, <1>4, <3>1 DEF Marks, Mark
    <2>3. EndsWith(Upto(s, q + m), Sentinel)
        BY <1>2, <2>1, <2>2
    <2>4. ASSUME NEW i \in (q + m + 1)..(j - 1) PROVE s[i] = CR
        <3>1. i - q \in 1..(j - 1 - q) /\ ~(i - q <= m) /\ q + (i - q) = i
            BY <2>4
        <3> QED BY <1>1, <1>4, <3>1 DEF Marks, Mark
    <2> QED BY <2>1, <2>3, <2>4
<1> QED BY <1>1, <1>3, <1>4 DEF ClosingLine, Closing

\* What the end of a line may still turn out to be a mark of is held back.
LEMMA MarksAreHeld ==
    ASSUME NEW p \in Seq(Byte), NEW q \in 0..Len(p), Marks(p, q, Len(p))
    PROVE  Len(p) - q <= holdback(p)
<1>1. PICK n \in Nat, t \in Nat, m \in Nat \ {0} :
            n = Len(p) /\ t = TextLen(p) /\ m = Len(Sentinel) /\ t <= n
    BY TextIs, SentinelIsBytes, LenProperties
<1>2. (t > 0 => p[t] # CR) /\ \A x \in 1..n : x > t => p[x] = CR
    BY <1>1, TextIs
<1>3. \A x \in 1..(n - q) : p[q + x] = Mark(x)
    BY <1>1 DEF Marks
<1>4. \A x \in 1..m : Mark(x) = Sentinel[x] /\ Mark(x) # CR
    <2> TAKE x \in 1..m
    <2>1. Sentinel[x] \in Plain
        BY <1>1, SentinelLen, ElementOfSeq
    <2> QED BY <1>1, <2>1, KindsDiffer DEF Mark
<1>5. CASE n - q <= m
    <2>1. ASSUME t < n, Closes(p) PROVE n - q <= holdback(p)
        <3>1. holdback(p) = n - t + m
            BY <1>1, <2>1 DEF holdback
        <3> QED BY <1>1, <1>5, <3>1
    <2>2. ASSUME ~(t < n /\ Closes(p)) PROVE n - q <= holdback(p)
        <3>1. n - q <= sentinelOverlap(p)
            <4> DEFINE S == {k \in 0..m : EndsWith(p, Upto(Sentinel, k))}
            <4>1. n - q \in 0..m
                BY <1>1, <1>5
            <4>2. PICK k \in 0..m : k = n - q
                BY <4>1
            <4>3. PICK u \in Seq(Byte) : /\ u = Upto(Sentinel, k) /\ Len(u) = k
                                        /\ \A x \in 1..k : u[x] = Sentinel[x]
                <5>1. Sentinel \in Seq(Byte) /\ k \in 0..Len(Sentinel)
                    BY <1>1, SentinelIsBytes
                <5>2. /\ Upto(Sentinel, k) \in Seq(Byte) /\ Len(Upto(Sentinel, k)) = k
                      /\ \A x \in 1..k : Upto(Sentinel, k)[x] = Sentinel[x]
                    BY <5>1, Cut
                <5> QED BY <5>2
            <4>4. k <= n /\ n - k = q
                BY <1>1, <4>2
            <4>5. \A x \in 1..k : p[q + x] = u[x]
                <5> TAKE x \in 1..k
                <5>1. x \in 1..(n - q) /\ x \in 1..m
                    BY <4>2
                <5> QED BY <1>3, <1>4, <4>3, <5>1
            <4>6. EndsWith(p, u)
                <5>1. \A x \in 1..k : p[n - k + x] = u[x]
                    BY <4>4, <4>5
                <5> QED BY <1>1, <4>3, <4>4, <5>1, EndsWithIs
            <4>7. k \in S
                BY <4>3, <4>6
            <4>8. S \in SUBSET (0..m)
                OBVIOUS
            <4>9. sentinelOverlap(p) = MaxOf(S)
                BY <1>1 DEF sentinelOverlap
            <4> HIDE DEF S
            <4> QED BY <1>1, <4>2, <4>7, <4>8, <4>9, Greatest
        <3>2. holdback(p) >= sentinelOverlap(p)
            <4> DEFINE o == sentinelOverlap(p)
                       r == Upto(p, n - o)
            <4>1. o \in 0..n /\ n - o \in 0..n
                BY <1>1, OverlapInLine
            <4>2. r \in Seq(Byte) /\ Len(r) = n - o
                BY <1>1, <4>1, Cut
            <4>3. partialRuneSuffix(r) \in 0..(n - o)
                BY <4>2, RuneInLine
            <4>4. holdback(p) = o + partialRuneSuffix(r)
                BY <1>1, <2>2 DEF holdback
            <4> HIDE DEF o, r
            <4>5. holdback(p) >= o
                BY <4>1, <4>3, <4>4
            <4> QED BY <4>5 DEF o
        <3>3. holdback(p) \in 0..n /\ sentinelOverlap(p) \in 0..n
            BY <1>1, HeldIsInLine, OverlapInLine
        <3> QED BY <1>1, <3>1, <3>2, <3>3
    <2> QED BY <1>1, <2>1, <2>2
<1>6. CASE ~(n - q <= m)
    <2>1. q + m \in 1..n /\ q + m < n
        BY <1>1, <1>6
    <2>2. p[q + m] # CR
        <3>1. m \in 1..(n - q) /\ m \in 1..m
            BY <1>1, <1>6
        <3> QED BY <1>3, <1>4, <3>1
    <2>3. \A x \in 1..n : x > q + m => p[x] = CR
        <3> SUFFICES ASSUME NEW x \in 1..n, x > q + m PROVE p[x] = CR
            OBVIOUS
        <3>1. x - q \in 1..(n - q) /\ ~(x - q <= m) /\ q + (x - q) = x
            BY <1>1
        <3> QED BY <1>1, <1>3, <3>1 DEF Mark
    <2>4. t = q + m
        <3>1. ~(q + m > t)
            BY <1>2, <2>1, <2>2
        <3>2. ~(t > q + m)
            BY <1>1, <1>2, <2>1, <2>3
        <3> QED BY <1>1, <2>1, <3>1, <3>2
    <2>5. Closes(p)
        <3>1. n - q >= m
            BY <1>1, <1>6
        <3> QED BY <1>1, <3>1, ClosesIs
    <2>6. holdback(p) = n - t + m
        BY <1>1, <2>1, <2>4, <2>5 DEF holdback
    <2> QED BY <1>1, <2>4, <2>6
<1> QED BY <1>5, <1>6
-----------------------------------------------------------------------------
(* Where the bytes of the input stand *)

LEMMA Joined ==
    ASSUME NEW a \in Seq(Byte), NEW b \in Seq(Byte)
    PROVE  \E v \in Seq(Byte) :
              /\ v = a \o b /\ Len(v) = Len(a) + Len(b)
              /\ \A x \in 1..Len(v) : v[x] = IF x <= Len(a) THEN a[x] ELSE b[x - Len(a)]
<1>1. PICK v \in Seq(Byte) : v = a \o b
    BY ConcatProperties
<1>2. /\ Len(v) = Len(a) + Len(b)
      /\ \A x \in 1..Len(v) : v[x] = IF x <= Len(a) THEN a[x] ELSE b[x - Len(a)]
    BY <1>1, ConcatProperties
<1> QED BY <1>1, <1>2

LEMMA Pieces ==
    ASSUME NEW e \in Seq(Byte), NEW p \in Seq(Byte), NEW c \in Seq(Byte),
           NEW w, w = e \o p \o c
    PROVE  /\ w \in Seq(Byte) /\ Len(w) = Len(e) + Len(p) + Len(c)
           /\ \A x \in 1..Len(e) : w[x] = e[x]
           /\ \A x \in 1..Len(p) : w[Len(e) + x] = p[x]
           /\ \A x \in 1..Len(c) : w[Len(e) + Len(p) + x] = c[x]
<1>1. Len(e) \in Nat /\ Len(p) \in Nat /\ Len(c) \in Nat
    BY LenProperties
<1>2. PICK v \in Seq(Byte) :
            /\ v = e \o p /\ Len(v) = Len(e) + Len(p)
            /\ \A x \in 1..Len(v) : v[x] = IF x <= Len(e) THEN e[x] ELSE p[x - Len(e)]
    BY Joined
<1>3. /\ w \in Seq(Byte) /\ Len(w) = Len(v) + Len(c)
      /\ \A x \in 1..Len(w) : w[x] = IF x <= Len(v) THEN v[x] ELSE c[x - Len(v)]
    BY <1>2, ConcatProperties
<1>4. ASSUME NEW x \in 1..Len(e) PROVE w[x] = e[x]
    <2>1. x \in 1..Len(v) /\ x \in 1..Len(w) /\ x <= Len(e)
        BY <1>1, <1>2, <1>3
    <2> QED BY <1>2, <1>3, <2>1
<1>5. ASSUME NEW x \in 1..Len(p) PROVE w[Len(e) + x] = p[x]
    <2>1. /\ Len(e) + x \in 1..Len(v) /\ Len(e) + x \in 1..Len(w)
          /\ ~(Len(e) + x <= Len(e)) /\ Len(e) + x - Len(e) = x
        BY <1>1, <1>2, <1>3
    <2> QED BY <1>2, <1>3, <2>1
<1>6. ASSUME NEW x \in 1..Len(c) PROVE w[Len(e) + Len(p) + x] = c[x]
    <2>1. /\ Len(v) + x \in 1..Len(w) /\ ~(Len(v) + x <= Len(v)) /\ Len(v) + x - Len(v) = x
        BY <1>1, <1>2, <1>3
    <2> QED BY <1>2, <1>3, <2>1
<1> QED BY <1>1, <1>2, <1>3, <1>4, <1>5, <1>6

\* The sizes of what was sent, is held back and is not yet looked at.
Sizes(e, p, c) == e = Len(emitted) /\ p = Len(pending) /\ c = Len(chunk)

LEMMA Places ==
    ASSUME TypeOK, Whole, at # "closed"
    PROVE  \E e, p, c \in Nat :
              /\ Sizes(e, p, c) /\ Len(input) = e + p + c
              /\ \A x \in 1..e : input[x] = emitted[x]
              /\ \A x \in 1..p : input[e + x] = pending[x]
              /\ \A x \in 1..c : input[e + p + x] = chunk[x]
<1>1. Len(emitted) \in Nat /\ Len(pending) \in Nat /\ Len(chunk) \in Nat
    BY LenProperties DEF TypeOK
<1>2. /\ Len(input) = Len(emitted) + Len(pending) + Len(chunk)
      /\ \A x \in 1..Len(emitted) : input[x] = emitted[x]
      /\ \A x \in 1..Len(pending) : input[Len(emitted) + x] = pending[x]
      /\ \A x \in 1..Len(chunk) : input[Len(emitted) + Len(pending) + x] = chunk[x]
    <2>1. input = emitted \o pending \o chunk
        BY DEF Whole
    <2>2. emitted \in Seq(Byte) /\ pending \in Seq(Byte) /\ chunk \in Seq(Byte)
        BY DEF TypeOK
    <2> QED BY <2>1, <2>2, Pieces
<1> WITNESS Len(emitted) \in Nat, Len(pending) \in Nat, Len(chunk) \in Nat
<1> QED BY <1>2 DEF Sizes

\* The line that the scan looks at stands in the input behind what was sent.
LEMMA LinePlace ==
    ASSUME TypeOK, Whole, at # "closed", NEW k \in 0..Len(chunk), NEW d \in Seq(Byte),
           Len(d) = k, \A x \in 1..k : d[x] = chunk[x],
           NEW l \in Seq(Byte), l = pending \o d
    PROVE  /\ Len(l) = Len(pending) + k
           /\ \A x \in 1..Len(l) : l[x] = input[Len(emitted) + x]
<1>1. PICK e \in Nat, p \in Nat, c \in Nat :
              /\ Sizes(e, p, c) /\ Len(input) = e + p + c
              /\ \A x \in 1..p : input[e + x] = pending[x]
              /\ \A x \in 1..c : input[e + p + x] = chunk[x]
    BY Places
<1>2. /\ Len(l) = Len(pending) + Len(d)
      /\ \A x \in 1..Len(l) : l[x] = IF x <= Len(pending) THEN pending[x] ELSE d[x - Len(pending)]
    <2>1. PICK v \in Seq(Byte) :
                /\ v = pending \o d /\ Len(v) = Len(pending) + Len(d)
                /\ \A x \in 1..Len(v) :
                      v[x] = IF x <= Len(pending) THEN pending[x] ELSE d[x - Len(pending)]
        BY Joined DEF TypeOK
    <2>2. v = l
        BY <2>1
    <2> QED BY <2>1, <2>2, Zenon
<1>3. /\ e = Len(emitted) /\ p = Len(pending) /\ k = Len(d)
      /\ Len(l) = p + k
      /\ \A x \in 1..(p + k) : l[x] = IF x <= p THEN pending[x] ELSE d[x - p]
    BY <1>1, <1>2 DEF Sizes
<1>4. ASSUME NEW x \in 1..(p + k) PROVE l[x] = input[e + x]
    <2>1. CASE x <= p
        <3>1. x \in 1..p
            BY <2>1
        <3> QED BY <1>1, <1>3, <2>1, <3>1
    <2>2. CASE ~(x <= p)
        <3>1. x - p \in 1..k /\ x - p \in 1..c /\ e + p + (x - p) = e + x
            BY <1>1, <2>2 DEF Sizes
        <3>2. d[x - p] = chunk[x - p]
            BY <3>1
        <3>3. input[e + p + (x - p)] = chunk[x - p]
            BY <1>1, <3>1
        <3> QED BY <1>3, <2>2, <3>1, <3>2, <3>3
    <2> QED BY <2>1, <2>2
<1> QED BY <1>2, <1>3, <1>4
-----------------------------------------------------------------------------
(* Where the scan stops *)

Looked == Len(input) - Len(chunk)

\* Nothing that was sent begins a mark that what is held back goes on with.
NoneBegun ==
    at \in {"read", "split"} =>
        \A q \in 0..(Len(emitted) - 1) : ~Marks(input, q, Len(emitted) + Len(pending))

NoneClosed == \A j \in 1..Looked : Closing(input, j) => at = "closed" /\ j = Looked

\* A scan that stopped has sent what stands before the mark.
ClosedByMark ==
    at = "closed" =>
        /\ Looked \in 1..Len(input) /\ input[Looked] = NL
        /\ Len(emitted) + Len(Sentinel) <= Looked - 1
        /\ Marks(input, Len(emitted), Looked - 1)
        /\ \A x \in 1..Len(emitted) : emitted[x] = input[x]

CInv == IInv /\ NoneBegun /\ NoneClosed /\ ClosedByMark

\* A mark is one whatever follows it, and its beginnings are.
LEMMA MarksShorter ==
    ASSUME NEW s, NEW t, NEW q \in Nat, NEW e \in Nat, NEW f \in Nat, f <= e,
           Marks(s, q, e), \A x \in 1..e : t[x] = s[x]
    PROVE  Marks(t, q, f)
<1> SUFFICES ASSUME NEW x \in 1..(f - q) PROVE t[q + x] = Mark(x)
    BY DEF Marks
<1>1. x \in 1..(e - q) /\ q + x \in 1..e
    OBVIOUS
<1> QED BY <1>1 DEF Marks

\* Reading on does not change what was looked at.
LEMMA ClosingStays ==
    ASSUME NEW s, NEW t, NEW j \in Nat \ {0}, \A x \in 1..j : t[x] = s[x], Closing(t, j)
    PROVE  Closing(s, j)
<1>1. PICK q \in 0..(j - 1) : Marks(t, q, j - 1) /\ j - 1 - q >= Len(Sentinel)
    BY DEF Closing
<1>2. Marks(s, q, j - 1)
    <2>1. \A x \in 1..(j - 1) : s[x] = t[x]
        OBVIOUS
    <2> QED BY <1>1, <2>1, MarksShorter
<1>3. s[j] = NL
    <2>1. j \in 1..j
        OBVIOUS
    <2> QED BY <2>1 DEF Closing
<1> QED BY <1>1, <1>2, <1>3 DEF Closing

LEMMA ClosingAtNewline ==
    ASSUME NEW s, NEW j, s[j] # NL
    PROVE  ~Closing(s, j)
BY DEF Closing

\* What was read stays where it is.
LEMMA ReadsOn ==
    ASSUME TypeOK, Read
    PROVE  /\ chunk' \in Seq(Byte) /\ Len(input') = Len(input) + Len(chunk')
           /\ \A x \in 1..Len(input) : input'[x] = input[x]
<1>1. PICK n \in 1..MaxRead : \E d \in [1..n -> Byte] : chunk' = d /\ input' = input \o d
    BY DEF Read
<1>2. chunk' \in Seq(Byte) /\ input' = input \o chunk'
    BY <1>1, SizesAreNat, IsASeq
<1>3. input \in Seq(Byte) /\ Len(input) \in Nat /\ Len(chunk') \in Nat
    BY <1>2, LenProperties DEF TypeOK
<1>4. PICK v \in Seq(Byte) :
            /\ v = input \o chunk' /\ Len(v) = Len(input) + Len(chunk')
            /\ \A x \in 1..Len(v) : v[x] = IF x <= Len(input) THEN input[x] ELSE chunk'[x - Len(input)]
    BY <1>2, <1>3, Joined
<1>5. \A x \in 1..Len(input) : v[x] = input[x]
    <2> TAKE x \in 1..Len(input)
    <2>1. x \in 1..Len(v) /\ x <= Len(input)
        BY <1>3, <1>4
    <2> QED BY <1>4, <2>1
<1> QED BY <1>2, <1>4, <1>5

LEMMA ReadCloses ==
    ASSUME CInv, Read
    PROVE  NoneBegun' /\ NoneClosed' /\ ClosedByMark'
<1>1. PICK e \in Nat, p \in Nat, c \in Nat : Sizes(e, p, c) /\ Len(input) = e + p + c
    BY Places DEF CInv, IInv, Read
<1>2. c = 0 /\ e = Len(emitted) /\ p = Len(pending)
    BY <1>1, EmptySeq DEF CInv, IInv, TypeOK, Read, Sizes
<1>3. IInv'
    BY ReadStep DEF CInv
<1>4. /\ chunk' \in Seq(Byte) /\ Len(input') = Len(input) + Len(chunk')
      /\ \A x \in 1..Len(input) : input'[x] = input[x]
    BY ReadsOn DEF CInv, IInv
<1>5. Looked' = e + p /\ Looked = e + p /\ Len(input) = e + p
    <2>1. Len(chunk') \in Nat
        BY <1>4, LenProperties
    <2>2. Looked = e + p /\ Len(input) = e + p
        BY <1>1, <1>2 DEF Looked, Sizes
    <2>3. Looked' = Len(input)
        BY <1>4, <2>1, <2>2 DEF Looked
    <2> QED BY <2>2, <2>3
<1>6. emitted' = emitted /\ pending' = pending /\ at = "read" /\ at' = "split"
    BY DEF Read
<1>7. NoneBegun'
    <2> SUFFICES ASSUME NEW q \in 0..(e - 1), Marks(input', q, e + p) PROVE FALSE
        BY <1>2, <1>6 DEF NoneBegun
    <2>1. Marks(input, q, e + p)
        <3>1. \A x \in 1..(e + p) : input[x] = input'[x]
            BY <1>4, <1>5
        <3> QED BY <3>1, MarksShorter
    <2> QED BY <1>2, <1>6, <2>1 DEF CInv, NoneBegun
<1>8. NoneClosed'
    <2> SUFFICES ASSUME NEW j \in 1..(e + p), Closing(input', j) PROVE FALSE
        BY <1>5 DEF NoneClosed
    <2>1. \A x \in 1..j : input'[x] = input[x]
        BY <1>4, <1>5
    <2>2. Closing(input, j)
        BY <2>1, ClosingStays
    <2> QED BY <1>5, <1>6, <2>2 DEF CInv, NoneClosed
<1> QED BY <1>6, <1>7, <1>8 DEF ClosedByMark

\* A newline ends an eval where the line before it does, and no byte of the chunk
\* before it does.
LEMMA NewlineCloses ==
    ASSUME CInv, at = "split", NEW i \in Nat, Newline(i),
           NEW l \in Seq(Byte), l = pending \o Upto(chunk, i - 1), NEW e \in Nat, e = Len(emitted)
    PROVE  /\ i \in 1..Len(chunk) /\ Len(chunk) \in Nat
           /\ Len(l) \in Nat /\ \A x \in 1..Len(l) : l[x] = input[e + x]
           /\ Len(input) = e + Len(l) + 1 + (Len(chunk) - i)
           /\ input[e + Len(l) + 1] = NL
           /\ \A x \in 1..e : input[x] = emitted[x]
           /\ \A j \in 1..(e + Len(l)) : ~Closing(input, j)
           /\ ~Closes(l) => ~Closing(input, e + Len(l) + 1)
<1>1. PICK p \in Nat, c \in Nat :
            /\ Sizes(e, p, c) /\ Len(input) = e + p + c
            /\ \A x \in 1..e : input[x] = emitted[x]
            /\ \A x \in 1..c : input[e + p + x] = chunk[x]
    <2>1. PICK f \in Nat, p \in Nat, c \in Nat :
                /\ Sizes(f, p, c) /\ Len(input) = f + p + c
                /\ \A x \in 1..f : input[x] = emitted[x]
                /\ \A x \in 1..c : input[f + p + x] = chunk[x]
        BY Places DEF CInv, IInv
    <2>2. f = e
        BY <2>1 DEF Sizes
    <2> QED BY <2>1, <2>2
<1>2. c = Len(chunk) /\ p = Len(pending) /\ i \in 1..c
    BY <1>1, LenProperties DEF Sizes, CInv, IInv, TypeOK, Newline
<1>3. l \in Seq(Byte) /\ Len(l) = p + (i - 1) /\ \A x \in 1..Len(l) : l[x] = input[e + x]
    <2>1. PICK k \in 0..Len(chunk) : k = i - 1
        BY <1>2
    <2>2. PICK d \in Seq(Byte) : /\ d = Upto(chunk, k) /\ Len(d) = k
                                /\ \A x \in 1..k : d[x] = chunk[x]
        BY Cut DEF CInv, IInv, TypeOK
    <2>3. l = pending \o d /\ TypeOK /\ Whole /\ at # "closed"
        BY <2>1, <2>2 DEF CInv, IInv
    <2>4. /\ Len(l) = Len(pending) + k
          /\ \A x \in 1..Len(l) : l[x] = input[Len(emitted) + x]
        BY <2>2, <2>3, LinePlace
    <2> QED BY <1>2, <2>1, <2>4
<1>4. PICK n \in Nat : n = Len(l) /\ n = p + (i - 1)
    BY <1>2, <1>3
<1>5. input[e + n + 1] = NL /\ \A x \in 1..(i - 1) : input[e + p + x] # NL
    <2>1. e + n + 1 = e + p + i
        <3>1. n = p + (i - 1)
            BY <1>4
        <3> QED BY <3>1
    <2>2. \A x \in 1..(i - 1) : x \in 1..c
        BY <1>2
    <2> QED BY <1>1, <1>2, <2>1, <2>2 DEF Newline
<1>6. Looked = e + p
    BY <1>1, <1>2 DEF Looked
<1>7. ASSUME NEW j \in 1..(e + n) PROVE ~Closing(input, j)
    <2>1. CASE j <= e + p
        <3>1. j \in 1..Looked
            BY <1>6, <2>1
        <3> QED BY <3>1 DEF CInv, NoneClosed
    <2>2. CASE ~(j <= e + p)
        <3>1. j - (e + p) \in 1..(i - 1) /\ e + p + (j - (e + p)) = j
            BY <1>2, <1>4, <2>2
        <3> QED BY <1>5, <3>1, ClosingAtNewline
    <2> QED BY <2>1, <2>2
<1>8. ASSUME Closing(input, e + n + 1) PROVE Closes(l)
    <2>1. e + n + 1 - 1 = e + n
        BY <1>1
    <2>2. PICK q \in 0..(e + n) : Marks(input, q, e + n) /\ e + n - q >= Len(Sentinel)
        BY <1>8, <2>1 DEF Closing
    <2>3. ~(q < e)
        <3> SUFFICES ASSUME q < e PROVE FALSE
            OBVIOUS
        <3>1. q \in 0..(e - 1) /\ e + p <= e + n
            BY <1>1, <1>2, <1>4
        <3>2. Marks(input, q, e + p)
            BY <1>1, <2>2, <3>1, MarksShorter
        <3> QED BY <1>2, <3>1, <3>2 DEF CInv, NoneBegun
    <2>4. q - e \in 0..n /\ n - (q - e) >= Len(Sentinel)
        BY <1>1, <2>2, <2>3, SentinelIsBytes
    <2>5. ASSUME NEW x \in 1..(n - (q - e)) PROVE l[q - e + x] = Mark(x)
        <3>1. x \in 1..(e + n - q) /\ q - e + x \in 1..n /\ e + (q - e + x) = q + x
            BY <1>1, <2>3, <2>5
        <3>2. l[q - e + x] = input[e + (q - e + x)]
            BY <1>3, <1>4, <3>1
        <3>3. input[q + x] = Mark(x)
            BY <2>2, <3>1 DEF Marks
        <3> QED BY <3>1, <3>2, <3>3
    <2>6. Marks(l, q - e, Len(l)) /\ q - e \in 0..Len(l) /\ Len(l) - (q - e) >= Len(Sentinel)
        BY <1>4, <2>4, <2>5 DEF Marks
    <2> QED BY <1>3, <2>6, ClosesIs
<1>9. i \in 1..Len(chunk) /\ Len(chunk) \in Nat /\ Len(l) \in Nat
    BY <1>2, <1>4
<1>10. Len(input) = e + Len(l) + 1 + (Len(chunk) - i)
    <2>1. n = p + (i - 1)
        BY <1>4
    <2>2. e + p + c = e + n + 1 + (c - i)
        BY <2>1
    <2> QED BY <1>1, <1>2, <1>4, <2>2
<1>11. input[e + Len(l) + 1] = NL /\ \A x \in 1..e : input[x] = emitted[x]
    BY <1>1, <1>4, <1>5
<1>12. \A j \in 1..(e + Len(l)) : ~Closing(input, j)
    BY <1>4, <1>7
<1>13. ~Closes(l) => ~Closing(input, e + Len(l) + 1)
    BY <1>4, <1>8
<1> QED BY <1>3, <1>9, <1>10, <1>11, <1>12, <1>13

LEMMA SendLineCloses ==
    ASSUME CInv, SendLine
    PROVE  NoneBegun' /\ NoneClosed' /\ ClosedByMark'
<1>1. PICK i \in DOMAIN chunk :
            /\ Newline(i) /\ ~Closes(pending \o Upto(chunk, i - 1))
            /\ send(Append(pending \o Upto(chunk, i - 1), NL)) /\ chunk' = After(chunk, i)
    BY DEF SendLine
<1>2. PICK l \in Seq(Byte), e \in Nat, k \in Nat :
            l = pending \o Upto(chunk, i - 1) /\ e = Len(emitted) /\ k = i
    <2>1. pending \o Upto(chunk, i - 1) \in Seq(Byte) /\ Len(emitted) \in Nat /\ i \in Nat
        BY <1>1, LineOf, LenProperties DEF CInv, IInv, TypeOK
    <2> QED BY <2>1
<1>3. /\ k \in 1..Len(chunk) /\ Len(chunk) \in Nat /\ Len(l) \in Nat
      /\ Len(input) = e + Len(l) + 1 + (Len(chunk) - k)
      /\ input[e + Len(l) + 1] = NL
      /\ \A j \in 1..(e + Len(l)) : ~Closing(input, j)
      /\ ~Closing(input, e + Len(l) + 1)
    BY <1>1, <1>2, NewlineCloses DEF SendLine
<1>4. PICK m \in Nat : m = e + Len(l) + 1
    BY <1>3
<1>5. Len(emitted') = m /\ pending' = <<>> /\ input' = input /\ at = "split" /\ at' = "split"
    <2>1. emitted' = emitted \o Append(l, NL)
        BY <1>1, <1>2 DEF send
    <2>2. Append(l, NL) \in Seq(Byte) /\ Len(Append(l, NL)) = Len(l) + 1
        BY AppendProperties DEF Byte
    <2>3. Len(emitted') = e + (Len(l) + 1)
        BY <1>2, <2>1, <2>2, ConcatProperties DEF CInv, IInv, TypeOK
    <2> QED BY <1>3, <1>4, <2>3 DEF SendLine
<1>6. Looked' = m
    <2>1. Len(chunk') = Len(chunk) - k
        <3>1. k \in 0..Len(chunk)
            BY <1>3
        <3>2. Len(After(chunk, k)) = Len(chunk) - k
            BY <3>1, Cut DEF CInv, IInv, TypeOK
        <3> QED BY <1>1, <1>2, <3>2
    <2>2. Len(input') - (Len(chunk) - k) = m
        BY <1>3, <1>4, <1>5
    <2> QED BY <2>1, <2>2 DEF Looked
<1>7. NoneBegun'
    <2> SUFFICES ASSUME NEW q \in 0..(m - 1), Marks(input, q, m) PROVE FALSE
        <3>1. Len(pending') = 0 /\ m + 0 = m
            BY <1>5, EmptySeq
        <3> QED BY <1>5, <3>1 DEF NoneBegun
    <2>1. m - q \in 1..(m - q) /\ m - q \in Nat \ {0} /\ q + (m - q) = m
        OBVIOUS
    <2>2. input[m] = Mark(m - q)
        BY <2>1 DEF Marks
    <2> QED BY <1>3, <1>4, <2>1, <2>2, MarkIsText
<1>8. NoneClosed'
    <2> SUFFICES ASSUME NEW j \in 1..m, Closing(input, j) PROVE FALSE
        BY <1>5, <1>6 DEF NoneClosed
    <2>1. j \in 1..(e + Len(l)) \/ j = e + Len(l) + 1
        BY <1>3, <1>4
    <2> QED BY <1>3, <2>1
<1> QED BY <1>5, <1>7, <1>8 DEF ClosedByMark

LEMMA CloseLineCloses ==
    ASSUME CInv, CloseLine
    PROVE  NoneBegun' /\ NoneClosed' /\ ClosedByMark'
<1> DEFINE line(i) == pending \o Upto(chunk, i - 1)
<1>1. PICK i \in DOMAIN chunk :
            /\ Newline(i) /\ Closes(line(i)) /\ chunk' = After(chunk, i)
            /\ send(Upto(line(i), TextLen(line(i)) - Len(Sentinel)))
    BY DEF CloseLine
<1>2. PICK l \in Seq(Byte), e \in Nat, k \in Nat :
            l = pending \o Upto(chunk, i - 1) /\ e = Len(emitted) /\ k = i
    <2>1. pending \o Upto(chunk, i - 1) \in Seq(Byte) /\ Len(emitted) \in Nat /\ i \in Nat
        BY <1>1, LineOf, LenProperties DEF CInv, IInv, TypeOK
    <2> QED BY <2>1
<1>3. /\ k \in 1..Len(chunk) /\ Len(chunk) \in Nat /\ Len(l) \in Nat
      /\ \A x \in 1..Len(l) : l[x] = input[e + x]
      /\ Len(input) = e + Len(l) + 1 + (Len(chunk) - k)
      /\ input[e + Len(l) + 1] = NL
      /\ \A x \in 1..e : input[x] = emitted[x]
      /\ \A j \in 1..(e + Len(l)) : ~Closing(input, j)
    BY <1>1, <1>2, NewlineCloses DEF CloseLine
<1>4. PICK n \in Nat, m \in Nat, t \in Nat, w \in Nat \ {0} :
            n = Len(l) /\ m = e + n + 1 /\ t = TextLen(l) /\ w = Len(Sentinel) /\ t <= n /\ w <= t
    <2>1. TextLen(l) \in 0..Len(l) /\ Len(Sentinel) <= TextLen(l) /\ Len(Sentinel) \in Nat \ {0}
        BY <1>1, <1>2, TextInLine, SentinelIsBytes
    <2>2. e + Len(l) + 1 \in Nat /\ TextLen(l) \in Nat /\ TextLen(l) <= Len(l)
        BY <1>3, <2>1
    <2> QED BY <1>3, <2>1, <2>2
<1>5. input' = input /\ at' = "closed"
    BY DEF CloseLine
<1>6. Looked' = m /\ m \in 1..Len(input)
    <2>1. Len(chunk') = Len(chunk) - k
        <3>1. k \in 0..Len(chunk)
            BY <1>3
        <3>2. Len(After(chunk, k)) = Len(chunk) - k
            BY <3>1, Cut DEF CInv, IInv, TypeOK
        <3> QED BY <1>1, <1>2, <3>2
    <2>2. Len(input') - (Len(chunk) - k) = m /\ m \in 1..Len(input)
        BY <1>3, <1>4, <1>5
    <2> QED BY <2>1, <2>2 DEF Looked
<1>7. PICK f \in Nat : f = t - w /\ f + w = t
    BY <1>4
<1>8. f + w = t /\ t <= n /\ m = e + n + 1
    BY <1>4, <1>7
<1>9. PICK u \in Seq(Byte) : /\ u = Upto(l, f) /\ Len(u) = f
                            /\ \A x \in 1..f : u[x] = l[x]
    <2>1. f \in 0..Len(l)
        BY <1>4, <1>7
    <2>2. /\ Upto(l, f) \in Seq(Byte) /\ Len(Upto(l, f)) = f
          /\ \A x \in 1..f : Upto(l, f)[x] = l[x]
        BY <2>1, Cut
    <2> QED BY <2>2
<1>10. PICK v \in Seq(Byte) :
            /\ v = emitted' /\ Len(v) = e + f
            /\ \A x \in 1..Len(v) : v[x] = IF x <= e THEN emitted[x] ELSE u[x - e]
    <2>1. emitted' = emitted \o u /\ emitted \in Seq(Byte)
        BY <1>1, <1>2, <1>4, <1>7, <1>9 DEF send, CInv, IInv, TypeOK
    <2>2. PICK v \in Seq(Byte) :
              /\ v = emitted \o u /\ Len(v) = Len(emitted) + Len(u)
              /\ \A x \in 1..Len(v) : v[x] = IF x <= Len(emitted) THEN emitted[x] ELSE u[x - Len(emitted)]
        BY <2>1, Joined
    <2> QED BY <1>2, <1>9, <2>1, <2>2
<1>11. Len(v) = e + f
    BY <1>10
<1>12. \A x \in 1..Len(v) : v[x] = input[x]
    <2> TAKE x \in 1..Len(v)
    <2>1. CASE x <= e
        <3>1. x \in 1..e
            BY <2>1
        <3> QED BY <1>3, <1>10, <2>1, <3>1
    <2>2. CASE ~(x <= e)
        <3>1. x - e \in 1..f /\ x - e \in 1..n /\ e + (x - e) = x
            BY <1>8, <1>11, <2>2
        <3> QED BY <1>3, <1>4, <1>9, <1>10, <2>2, <3>1
    <2> QED BY <2>1, <2>2
<1>13. Marks(input, e + f, m - 1)
    <2> SUFFICES ASSUME NEW x \in 1..(m - 1 - (e + f)) PROVE input[e + f + x] = Mark(x)
        BY DEF Marks
    <2>1. f + x \in 1..n /\ e + f + x = e + (f + x)
        BY <1>8
    <2>2. l[f + x] = Mark(x)
        <3>1. Marks(l, f, n)
            BY <1>1, <1>2, <1>4, <1>7, MarkOfText
        <3>2. x \in 1..(n - f)
            BY <1>4, <1>7
        <3> QED BY <3>1, <3>2 DEF Marks
    <2> QED BY <1>3, <1>4, <2>1, <2>2
<1>14. ClosedByMark'
    <2>1. e + f + w <= m - 1
        BY <1>8
    <2> QED BY <1>3, <1>4, <1>5, <1>6, <1>10, <1>12, <1>13, <2>1 DEF ClosedByMark
<1>15. NoneClosed'
    <2> SUFFICES ASSUME NEW j \in 1..m, Closing(input, j), j # m PROVE FALSE
        BY <1>5, <1>6 DEF NoneClosed
    <2>1. j \in 1..(e + Len(l))
        BY <1>3, <1>4
    <2> QED BY <1>3, <2>1
<1> QED BY <1>5, <1>14, <1>15 DEF NoneBegun

LEMMA SendSafeCloses ==
    ASSUME CInv, SendSafe
    PROVE  NoneBegun' /\ NoneClosed' /\ ClosedByMark'
<1>1. PICK e \in Nat, p \in Nat, c \in Nat :
            /\ Sizes(e, p, c) /\ Len(input) = e + p + c
            /\ \A x \in 1..c : input[e + p + x] = chunk[x]
    BY Places DEF CInv, IInv, SendSafe
<1>2. e = Len(emitted) /\ p = Len(pending) /\ c = Len(chunk)
    BY <1>1 DEF Sizes
<1>3. PICK l \in Seq(Byte) : l = pending \o chunk
    BY ConcatProperties DEF CInv, IInv, TypeOK
<1>4. Len(l) = p + c /\ \A x \in 1..Len(l) : l[x] = input[e + x]
    <2>1. /\ c \in 0..Len(chunk) /\ chunk \in Seq(Byte) /\ Len(chunk) = c
          /\ TypeOK /\ Whole /\ at # "closed" /\ \A x \in 1..c : chunk[x] = chunk[x]
        BY <1>2 DEF CInv, IInv, TypeOK, SendSafe
    <2> QED BY <1>2, <1>3, <2>1, LinePlace
<1>5. PICK h \in Nat, f \in Nat : h = holdback(l) /\ f = Len(l) - h /\ f + h = p + c
    <2>1. holdback(l) \in 0..Len(l) /\ Len(l) \in Nat
        BY HeldIsInLine, LenProperties
    <2> QED BY <1>4, <2>1
<1>6. send(Upto(l, f)) /\ pending' = After(l, f) /\ chunk' = <<>> /\ input' = input /\ at' = "read"
    BY <1>3, <1>5 DEF SendSafe
<1>7. Len(emitted') = e + f /\ Len(pending') = h
    <2>1. f \in 0..Len(l)
        BY <1>4, <1>5
    <2>2. Upto(l, f) \in Seq(Byte) /\ Len(Upto(l, f)) = f /\ Len(After(l, f)) = Len(l) - f
        BY <2>1, Cut
    <2>3. emitted' = emitted \o Upto(l, f) /\ emitted \in Seq(Byte)
        BY <1>6 DEF send, CInv, IInv, TypeOK
    <2>4. Len(emitted') = Len(emitted) + Len(Upto(l, f))
        BY <2>2, <2>3, ConcatProperties
    <2>5. Len(l) - f = h
        BY <1>4, <1>5
    <2> QED BY <1>2, <1>6, <2>2, <2>4, <2>5
<1>8. Looked = e + p /\ Looked' = e + p + c
    <2>1. Looked = e + p
        BY <1>1, <1>2 DEF Looked
    <2>2. Len(chunk') = 0 /\ Len(input') = e + p + c
        BY <1>1, <1>6, EmptySeq
    <2> QED BY <2>1, <2>2 DEF Looked
<1>9. NoneBegun'
    <2>1. f + h = p + c
        BY <1>5
    <2>2. e + f + h = e + p + c
        BY <2>1
    <2> SUFFICES ASSUME NEW q \in 0..(e + f - 1), Marks(input, q, e + p + c) PROVE FALSE
        BY <1>6, <1>7, <2>2 DEF NoneBegun
    <2>3. ~(q < e)
        <3> SUFFICES ASSUME q < e PROVE FALSE
            OBVIOUS
        <3>1. q \in 0..(e - 1) /\ e + p <= e + p + c
            OBVIOUS
        <3>2. Marks(input, q, e + p)
            BY <3>1, MarksShorter
        <3> QED BY <1>2, <3>1, <3>2 DEF CInv, NoneBegun, SendSafe
    <2>4. PICK r \in Nat : r = q - e /\ r < f /\ r <= p + c /\ q = e + r
        BY <2>1, <2>3
    <2>5. Marks(l, r, p + c)
        <3> SUFFICES ASSUME NEW x \in 1..(p + c - r) PROVE l[r + x] = Mark(x)
            BY DEF Marks
        <3>1. r + x \in 1..(p + c) /\ x \in 1..(e + p + c - q) /\ e + (r + x) = q + x
            BY <2>4
        <3>2. input[q + x] = Mark(x)
            BY <3>1 DEF Marks
        <3> QED BY <1>4, <3>1, <3>2
    <2>6. p + c - r <= h
        <3>1. r \in 0..Len(l) /\ Len(l) = p + c
            BY <1>4, <2>4
        <3>2. Marks(l, r, Len(l))
            BY <2>5, <3>1
        <3>3. Len(l) - r <= holdback(l)
            BY <3>1, <3>2, MarksAreHeld
        <3> QED BY <1>5, <3>1, <3>3
    <2> QED BY <2>1, <2>4, <2>6
<1>10. NoneClosed'
    <2> SUFFICES ASSUME NEW j \in 1..(e + p + c), Closing(input, j) PROVE FALSE
        BY <1>6, <1>8 DEF NoneClosed
    <2>1. CASE j <= e + p
        <3>1. j \in 1..Looked /\ at # "closed"
            BY <1>8, <2>1 DEF SendSafe
        <3> QED BY <3>1 DEF CInv, NoneClosed
    <2>2. CASE ~(j <= e + p)
        <3>1. j - (e + p) \in 1..c /\ e + p + (j - (e + p)) = j
            BY <2>2
        <3>2. j - (e + p) \in DOMAIN chunk
            BY <1>2, <3>1, LenProperties DEF CInv, IInv, TypeOK
        <3>3. input[j] # NL
            BY <1>1, <3>1, <3>2 DEF SendSafe
        <3> QED BY <3>3, ClosingAtNewline
    <2> QED BY <2>1, <2>2
<1> QED BY <1>6, <1>9, <1>10 DEF ClosedByMark

\* The inductive invariant of where the scan stops.
THEOREM Stopping == Spec => []CInv
<1>1. Init => CInv
    <2> SUFFICES ASSUME Init PROVE CInv
        OBVIOUS
    <2>1. IInv
        BY StartsWhole
    <2>2. Len(<<>>) = 0
        BY EmptySeq
    <2>3. 0..(0 - 1) = {} /\ 1..(0 - 0) = {}
        OBVIOUS
    <2>4. NoneBegun /\ NoneClosed /\ ClosedByMark
        BY <2>2, <2>3 DEF Init, NoneBegun, NoneClosed, ClosedByMark, Looked
    <2> QED BY <2>1, <2>4 DEF CInv
<1>2. CInv /\ [Next]_vars => CInv'
    <2> SUFFICES ASSUME CInv, [Next]_vars PROVE CInv'
        OBVIOUS
    <2>1. IInv'
        BY WholeStep DEF CInv
    <2>2. NoneBegun' /\ NoneClosed' /\ ClosedByMark'
        <3>1. CASE Read
            BY <3>1, ReadCloses
        <3>2. CASE CloseLine
            BY <3>2, CloseLineCloses
        <3>3. CASE SendLine
            BY <3>3, SendLineCloses
        <3>4. CASE SendSafe
            BY <3>4, SendSafeCloses
        <3>5. CASE EOF
            <4>1. UNCHANGED <<input, chunk>> /\ at = "read" /\ at' = "eof"
                BY <3>5 DEF EOF
            <4> QED BY <4>1 DEF CInv, NoneBegun, NoneClosed, ClosedByMark, Looked
        <3>6. CASE UNCHANGED vars
            BY <3>6 DEF CInv, NoneBegun, NoneClosed, ClosedByMark, Looked, vars
        <3> QED BY <3>1, <3>2, <3>3, <3>4, <3>5, <3>6 DEF Next, Done
    <2> QED BY <2>1, <2>2 DEF CInv
<1> QED BY <1>1, <1>2, PTL DEF Spec

\* The scan stops at the first closing line and at no other, in whatever reads the
\* output comes and whatever the sentinel is, and has then sent what stands before
\* the sentinel, no more and no less.
THEOREM StopsAtMark == Spec => []ClosesExactly
<1>1. CInv => ClosesExactly
    <2> SUFFICES ASSUME CInv PROVE ClosesExactly
        OBVIOUS
    <2>1. input \in Seq(Byte) /\ Len(input) \in Nat /\ Len(chunk) \in Nat /\ Len(emitted) \in Nat
        BY LenProperties DEF CInv, IInv, TypeOK
    <2>2. ASSUME NEW j \in 1..Looked, ClosingLine(input, j)
          PROVE  at = "closed" /\ j = Looked
        <3>1. j \in 1..Len(input)
            BY <2>1 DEF Looked
        <3>2. Closing(input, j)
            BY <2>1, <2>2, <3>1, ClosingIs
        <3> QED BY <3>2 DEF CInv, NoneClosed
    <2>3. ASSUME at = "closed"
          PROVE  /\ ClosingLine(input, Looked)
                 /\ emitted \o Sentinel = Upto(input, Len(emitted) + Len(Sentinel))
                 /\ \A i \in (Len(emitted) + Len(Sentinel) + 1)..(Looked - 1) : input[i] = CR
        <3>1. PICK e \in Nat, m \in Nat \ {0}, k \in Nat, n \in Nat :
                    e = Len(emitted) /\ m = Len(Sentinel) /\ k = Looked /\ n = Len(input)
            BY <2>1, <2>3, SentinelIsBytes DEF CInv, ClosedByMark
        <3>2. /\ k \in 1..n /\ input[k] = NL /\ e + m <= k - 1 /\ Marks(input, e, k - 1)
              /\ \A x \in 1..e : emitted[x] = input[x]
            BY <2>3, <3>1 DEF CInv, ClosedByMark
        <3>3. ClosingLine(input, k)
            <4>1. e \in 0..(k - 1) /\ k - 1 - e >= m
                BY <3>2
            <4>2. Closing(input, k)
                BY <3>1, <3>2, <4>1 DEF Closing
            <4> QED BY <2>1, <3>1, <3>2, <4>2, ClosingIs
        <3>4. emitted \o Sentinel = Upto(input, e + m)
            <4>1. emitted \in Seq(Byte) /\ Sentinel \in Seq(Byte)
                BY SentinelIsBytes DEF CInv, IInv, TypeOK
            <4>2. PICK v \in Seq(Byte) :
                      /\ v = emitted \o Sentinel /\ Len(v) = e + m
                      /\ \A x \in 1..Len(v) : v[x] = IF x <= e THEN emitted[x] ELSE Sentinel[x - e]
                <5>1. PICK v \in Seq(Byte) :
                      /\ v = emitted \o Sentinel /\ Len(v) = Len(emitted) + Len(Sentinel)
                      /\ \A x \in 1..Len(v) : v[x] = IF x <= Len(emitted) THEN emitted[x]
                                               ELSE Sentinel[x - Len(emitted)]
                    BY <4>1, Joined
                <5> QED BY <3>1, <5>1
            <4>3. e + m \in 0..n
                BY <3>2
            <4>4. PICK u \in Seq(Byte) : /\ u = Upto(input, e + m) /\ Len(u) = e + m
                                        /\ \A x \in 1..(e + m) : u[x] = input[x]
                <5>1. PICK g \in 0..Len(input) : g = e + m
                    BY <3>1, <4>3
                <5>2. /\ Upto(input, g) \in Seq(Byte) /\ Len(Upto(input, g)) = g
                      /\ \A x \in 1..g : Upto(input, g)[x] = input[x]
                    BY <2>1, Cut
                <5> QED BY <5>1, <5>2
            <4>5. ASSUME NEW x \in 1..(e + m) PROVE v[x] = u[x]
                <5>1. CASE x <= e
                    <6>1. x \in 1..e
                        BY <5>1
                    <6> QED BY <3>2, <4>2, <4>4, <5>1, <6>1
                <5>2. CASE ~(x <= e)
                    <6>1. x - e \in 1..m /\ x - e <= m /\ x - e \in 1..(k - 1 - e) /\ e + (x - e) = x
                        BY <3>2, <5>2
                    <6>2. input[x] = Sentinel[x - e]
                        BY <3>1, <3>2, <6>1 DEF Marks, Mark
                    <6> QED BY <4>2, <4>4, <5>2, <6>2
                <5> QED BY <5>1, <5>2
            <4>6. v = u
                BY <4>2, <4>4, <4>5, SeqEqual
            <4> QED BY <4>2, <4>4, <4>6
        <3>5. ASSUME NEW i \in (e + m + 1)..(k - 1) PROVE input[i] = CR
            <4>1. i - e \in 1..(k - 1 - e) /\ ~(i - e <= m) /\ e + (i - e) = i
                OBVIOUS
            <4> QED BY <3>1, <3>2, <4>1 DEF Marks, Mark
        <3> QED BY <3>1, <3>3, <3>4, <3>5
    <2> QED BY <2>2, <2>3 DEF ClosesExactly, Looked
<1> QED BY <1>1, Stopping, PTL
-----------------------------------------------------------------------------
(* What is held back, and what is not *)

\* Between q and e, s is the beginning of a rune.
Cuts(s, q, e) ==
    e > q => /\ e - q < RuneLen /\ s[q + 1] = Lead
             /\ \A i \in (q + 2)..e : s[i] = Cont

LEMMA RuneIs ==
    ASSUME NEW p \in Seq(Byte)
    PROVE  /\ partialRuneSuffix(p) \in 0..Len(p)
           /\ Cuts(p, Len(p) - partialRuneSuffix(p), Len(p))
           /\ \A k \in 1..Len(p) : Cuts(p, Len(p) - k, Len(p)) => k <= partialRuneSuffix(p)
<1> DEFINE S == {0} \cup {k \in 1..(RuneLen - 1) :
                            /\ k <= Len(p) /\ p[Len(p) - k + 1] = Lead
                            /\ \A i \in (Len(p) - k + 2)..Len(p) : p[i] = Cont}
<1>1. Len(p) \in Nat /\ RuneLen \in Nat
    BY LenProperties, SizesAreNat
<1>2. S \in SUBSET (0..Len(p)) /\ S # {}
    BY <1>1
<1>3. partialRuneSuffix(p) = MaxOf(S)
    BY DEF partialRuneSuffix
<1>4. partialRuneSuffix(p) \in S /\ \A k \in S : k <= partialRuneSuffix(p)
    <2> HIDE DEF S
    <2> QED BY <1>1, <1>2, <1>3, Greatest
<1>5. PICK k \in S : k = partialRuneSuffix(p)
    BY <1>4
<1>6. Cuts(p, Len(p) - k, Len(p))
    BY <1>1 DEF Cuts
<1>7. ASSUME NEW j \in 1..Len(p), Cuts(p, Len(p) - j, Len(p)) PROVE j \in S
    <2>1. Len(p) > Len(p) - j /\ Len(p) - (Len(p) - j) = j
        BY <1>1
    <2>2. j \in 1..(RuneLen - 1)
        BY <1>1, <1>7, <2>1 DEF Cuts
    <2> QED BY <1>1, <1>7, <2>1, <2>2 DEF Cuts
<1> QED BY <1>2, <1>4, <1>5, <1>6, <1>7

LEMMA OverlapIs ==
    ASSUME NEW p \in Seq(Byte)
    PROVE  /\ sentinelOverlap(p) \in 0..Len(p) /\ sentinelOverlap(p) <= Len(Sentinel)
           /\ Marks(p, Len(p) - sentinelOverlap(p), Len(p))
<1> DEFINE S == {k \in 0..Len(Sentinel) : EndsWith(p, Upto(Sentinel, k))}
<1>1. PICK n \in Nat, m \in Nat \ {0} : n = Len(p) /\ m = Len(Sentinel)
    BY SentinelIsBytes, LenProperties
<1>2. ASSUME NEW k \in 0..m
      PROVE  EndsWith(p, Upto(Sentinel, k)) <=>
                k <= n /\ \A x \in 1..k : p[n - k + x] = Sentinel[x]
    <2>1. PICK u \in Seq(Byte) : /\ u = Upto(Sentinel, k) /\ Len(u) = k
                                 /\ \A x \in 1..k : u[x] = Sentinel[x]
        <3>1. Sentinel \in Seq(Byte) /\ k \in 0..Len(Sentinel)
            BY <1>1, SentinelIsBytes
        <3>2. /\ Upto(Sentinel, k) \in Seq(Byte) /\ Len(Upto(Sentinel, k)) = k
              /\ \A x \in 1..k : Upto(Sentinel, k)[x] = Sentinel[x]
            BY <3>1, Cut
        <3> QED BY <3>2
    <2>2. EndsWith(p, u) <=> k <= n /\ \A x \in 1..k : p[n - k + x] = u[x]
        <3>1. EndsWith(p, u) <=> /\ Len(u) <= Len(p)
                                 /\ \A x \in 1..Len(u) : p[Len(p) - Len(u) + x] = u[x]
            BY EndsWithIs
        <3>2. Len(u) = k
            BY <2>1
        <3> QED BY <1>1, <3>1, <3>2
    <2> QED BY <2>1, <2>2
<1>3. 0 \in S
    <2>1. 0 \in 0..m /\ 0 <= n /\ \A x \in 1..0 : p[n - 0 + x] = Sentinel[x]
        OBVIOUS
    <2> QED BY <1>1, <1>2, <2>1
<1>4. S \in SUBSET (0..m)
    BY <1>1
<1>5. sentinelOverlap(p) = MaxOf(S)
    BY DEF sentinelOverlap
<1>6. PICK k \in S : k = sentinelOverlap(p)
    <2> HIDE DEF S
    <2> QED BY <1>3, <1>4, <1>5, Greatest
<1>7. k \in 0..m /\ k <= n /\ \A x \in 1..k : p[n - k + x] = Sentinel[x]
    BY <1>1, <1>2, <1>4
<1>8. Marks(p, n - k, n)
    <2>1. n - (n - k) = k /\ \A x \in 1..k : x <= m
        BY <1>7
    <2> QED BY <1>1, <1>7, <2>1 DEF Marks, Mark
<1> QED BY <1>1, <1>6, <1>7, <1>8

\* What is held back of a line is the beginning of a rune and, behind it, what may
\* become the mark of a closing line.  With no such mark, no more of the line than
\* the rune it ends in is held back, and no less.
LEMMA HoldbackIs ==
    ASSUME NEW p \in Seq(Byte)
    PROVE  \E k, o \in Nat :
              /\ k + o = holdback(p) /\ k + o <= Len(p)
              /\ Cuts(p, Len(p) - (k + o), Len(p) - o)
              /\ Marks(p, Len(p) - o, Len(p))
              /\ o = 0 => k = partialRuneSuffix(p)
<1>1. PICK n \in Nat, t \in Nat, m \in Nat \ {0} :
            n = Len(p) /\ t = TextLen(p) /\ m = Len(Sentinel) /\ t <= n
    BY TextIs, SentinelIsBytes, LenProperties
<1>2. CASE t < n /\ Closes(p)
    <2>1. m <= t
        BY <1>1, <1>2, TextInLine
    <2>2. PICK o \in Nat : o = n - t + m /\ o <= n /\ n - o = t - m /\ o # 0
        BY <1>1, <2>1
    <2>3. 0 + o = holdback(p)
        BY <1>1, <1>2, <2>2 DEF holdback
    <2>4. Marks(p, n - o, n)
        BY <1>1, <1>2, <2>2, MarkOfText
    <2>5. Cuts(p, n - (0 + o), n - o)
        BY <2>2 DEF Cuts
    <2> WITNESS 0 \in Nat, o \in Nat
    <2> QED BY <1>1, <2>2, <2>3, <2>4, <2>5
<1>3. CASE ~(t < n /\ Closes(p))
    <2>1. PICK o \in Nat : o = sentinelOverlap(p) /\ o <= n /\ Marks(p, n - o, n)
        BY <1>1, OverlapIs
    <2>2. n - o \in 0..Len(p)
        BY <1>1, <2>1
    <2>3. PICK r \in Seq(Byte) : /\ r = Upto(p, n - o) /\ Len(r) = n - o
                                 /\ \A x \in 1..(n - o) : r[x] = p[x]
        <3>1. /\ Upto(p, n - o) \in Seq(Byte) /\ Len(Upto(p, n - o)) = n - o
              /\ \A x \in 1..(n - o) : Upto(p, n - o)[x] = p[x]
            BY <2>2, Cut
        <3> QED BY <3>1
    <2>4. PICK k \in Nat : k = partialRuneSuffix(r) /\ k <= n - o /\ Cuts(r, n - o - k, n - o)
        BY <2>3, RuneIs
    <2>5. k + o = holdback(p)
        <3>1. holdback(p) = o + k
            BY <1>1, <1>3, <2>1, <2>3, <2>4 DEF holdback
        <3> QED BY <3>1
    <2>6. k + o <= n /\ n - (k + o) = n - o - k
        BY <2>1, <2>4
    <2>7. Cuts(p, n - (k + o), n - o)
        <3> SUFFICES ASSUME n - o > n - o - k
                     PROVE  /\ k < RuneLen /\ p[n - o - k + 1] = Lead
                            /\ \A i \in (n - o - k + 2)..(n - o) : p[i] = Cont
            BY <2>1, <2>4, <2>6 DEF Cuts
        <3>1. /\ k < RuneLen /\ r[n - o - k + 1] = Lead
              /\ \A i \in (n - o - k + 2)..(n - o) : r[i] = Cont
            BY <2>1, <2>4 DEF Cuts
        <3>2. n - o - k + 1 \in 1..(n - o) /\ \A i \in (n - o - k + 2)..(n - o) : i \in 1..(n - o)
            BY <2>1, <2>4
        <3> QED BY <2>3, <3>1, <3>2
    <2>8. ASSUME o = 0 PROVE k = partialRuneSuffix(p)
        <3>1. Len(r) = Len(p) /\ \A x \in 1..Len(r) : r[x] = p[x]
            BY <1>1, <2>3, <2>8
        <3>2. r = p
            BY <3>1, SeqEqual
        <3> QED BY <2>4, <3>2
    <2> WITNESS k \in Nat, o \in Nat
    <2> QED BY <1>1, <2>1, <2>5, <2>6, <2>7, <2>8
<1> QED BY <1>2, <1>3
\* What the state Streams is about holds back.
Held(p) ==
    \E k \in 0..Len(p) :
        /\ partialRuneSuffix(Upto(p, k)) = k
        /\ \/ Len(After(p, k)) < Len(Sentinel) /\ After(p, k) = Upto(Sentinel, Len(After(p, k)))
           \/ Text(After(p, k)) = Sentinel

LEMMA HoldbackHeld ==
    ASSUME NEW l \in Seq(Byte), NEW r \in Seq(Byte), Len(r) = holdback(l),
           \A x \in 1..Len(r) : r[x] = l[Len(l) - Len(r) + x]
    PROVE  Held(r)
<1>1. PICK n \in Nat, m \in Nat \ {0} : n = Len(l) /\ m = Len(Sentinel)
    BY SentinelIsBytes, LenProperties
<1>2. PICK k \in Nat, o \in Nat :
            /\ k + o = Len(r) /\ k + o <= n
            /\ Cuts(l, n - (k + o), n - o) /\ Marks(l, n - o, n)
    <2>1. PICK k \in Nat, o \in Nat :
            /\ k + o = holdback(l) /\ k + o <= Len(l)
            /\ Cuts(l, Len(l) - (k + o), Len(l) - o) /\ Marks(l, Len(l) - o, Len(l))
        BY HoldbackIs
    <2> QED BY <1>1, <2>1
<1>3. \A x \in 1..(k + o) : r[x] = l[n - (k + o) + x]
    BY <1>1, <1>2
<1>4. k \in 0..Len(r) /\ Len(r) - k = o
    BY <1>2
<1>5. PICK a \in Seq(Byte) : a = Upto(r, k) /\ Len(a) = k /\ \A x \in 1..k : a[x] = r[x]
    <2>1. /\ Upto(r, k) \in Seq(Byte) /\ Len(Upto(r, k)) = k
          /\ \A x \in 1..k : Upto(r, k)[x] = r[x]
        BY <1>4, Cut
    <2> QED BY <2>1
<1>6. PICK b \in Seq(Byte) : b = After(r, k) /\ Len(b) = o /\ \A x \in 1..o : b[x] = r[k + x]
    <2>1. /\ After(r, k) \in Seq(Byte) /\ Len(After(r, k)) = Len(r) - k
          /\ \A x \in 1..(Len(r) - k) : After(r, k)[x] = r[k + x]
        BY <1>4, Cut
    <2> QED BY <1>4, <2>1
<1>7. partialRuneSuffix(a) = k
    <2>1. PICK g \in Nat : g = partialRuneSuffix(a) /\ g <= k
        BY <1>5, RuneIs
    <2>2. CASE k = 0
        BY <2>1, <2>2
    <2>3. CASE k > 0
        <3>1. /\ k < RuneLen /\ l[n - (k + o) + 1] = Lead
              /\ \A i \in (n - (k + o) + 2)..(n - o) : l[i] = Cont
            <4>1. n - o > n - (k + o) /\ n - o - (n - (k + o)) = k
                BY <1>2, <2>3
            <4> QED BY <1>2, <4>1 DEF Cuts
        <3>2. a[1] = Lead
            <4>1. 1 \in 1..k /\ 1 \in 1..(k + o)
                BY <2>3
            <4> QED BY <1>3, <1>5, <3>1, <4>1
        <3>3. ASSUME NEW i \in 2..k PROVE a[i] = Cont
            <4>1. i \in 1..k /\ i \in 1..(k + o) /\ n - (k + o) + i \in (n - (k + o) + 2)..(n - o)
                BY <1>2
            <4> QED BY <1>3, <1>5, <3>1, <4>1
        <3>4. Cuts(a, 0, k)
            BY <3>1, <3>2, <3>3 DEF Cuts
        <3>5. k \in 1..Len(a) /\ Len(a) - k = 0
            BY <1>5, <2>3
        <3>6. k <= partialRuneSuffix(a)
            BY <1>5, <3>4, <3>5, RuneIs
        <3> QED BY <2>1, <3>6
    <2> QED BY <2>2, <2>3
<1>8. ASSUME NEW x \in 1..o PROVE b[x] = Mark(x)
    <2>1. k + x \in 1..(k + o) /\ n - (k + o) + (k + x) = n - o + x /\ x \in 1..(n - (n - o))
        BY <1>2
    <2>2. l[n - o + x] = Mark(x)
        BY <1>2, <2>1 DEF Marks
    <2> QED BY <1>3, <1>6, <2>1, <2>2
<1>9. CASE o < m
    <2>1. PICK u \in Seq(Byte) : /\ u = Upto(Sentinel, o) /\ Len(u) = o
                                 /\ \A x \in 1..o : u[x] = Sentinel[x]
        <3>1. Sentinel \in Seq(Byte) /\ o \in 0..Len(Sentinel)
            BY <1>1, <1>9, SentinelIsBytes
        <3>2. /\ Upto(Sentinel, o) \in Seq(Byte) /\ Len(Upto(Sentinel, o)) = o
              /\ \A x \in 1..o : Upto(Sentinel, o)[x] = Sentinel[x]
            BY <3>1, Cut
        <3> QED BY <3>2
    <2>2. \A x \in 1..o : b[x] = u[x]
        <3> TAKE x \in 1..o
        <3>1. Mark(x) = Sentinel[x]
            BY <1>1, <1>9 DEF Mark
        <3> QED BY <1>8, <2>1, <3>1
    <2>3. b = u
        BY <1>6, <2>1, <2>2, SeqEqual
    <2> QED BY <1>1, <1>4, <1>5, <1>6, <1>7, <1>9, <2>1, <2>3 DEF Held
<1>10. CASE ~(o < m)
    <2>1. PICK t \in Nat : t = TextLen(b) /\ t <= o
        BY <1>6, TextIs
    <2>2. (t > 0 => b[t] # CR) /\ \A x \in 1..o : x > t => b[x] = CR
        BY <1>6, <2>1, TextIs
    <2>3. \A x \in 1..m : b[x] = Sentinel[x]
        <3> TAKE x \in 1..m
        <3>1. x \in 1..o
            BY <1>10
        <3> QED BY <1>1, <1>8, <3>1 DEF Mark
    <2>4. \A x \in 1..o : x > m => b[x] = CR
        BY <1>1, <1>8 DEF Mark
    <2>5. b[m] # CR /\ m \in 1..o
        <3>1. Sentinel[m] \in Plain
            BY <1>1, SentinelLen, ElementOfSeq
        <3> QED BY <1>10, <2>3, <3>1, KindsDiffer
    <2>6. t = m
        <3>1. ~(m > t)
            BY <2>2, <2>5
        <3>2. ~(t > m)
            BY <2>1, <2>2, <2>4
        <3> QED BY <3>1, <3>2
    <2>7. PICK u \in Seq(Byte) : u = Upto(b, m) /\ Len(u) = m /\ \A x \in 1..m : u[x] = b[x]
        <3>1. m \in 0..Len(b)
            BY <1>6, <2>5
        <3>2. /\ Upto(b, m) \in Seq(Byte) /\ Len(Upto(b, m)) = m
              /\ \A x \in 1..m : Upto(b, m)[x] = b[x]
            BY <3>1, Cut
        <3> QED BY <3>2
    <2>8. u = Sentinel
        <3>1. \A x \in 1..m : u[x] = Sentinel[x]
            BY <2>3, <2>7
        <3> QED BY <1>1, <2>7, <3>1, SentinelIsBytes, SeqEqual
    <2>9. Text(b) = Sentinel
        BY <2>1, <2>6, <2>7, <2>8 DEF Text
    <2> QED BY <1>4, <1>5, <1>6, <1>7, <2>9 DEF Held
<1> QED BY <1>9, <1>10

\* While the scan waits for more it holds back nothing but the beginning of a rune
\* and what may become the mark of a closing line.
THEOREM NothingWithheld == Spec => []Streams
<1>1. Init => Streams
    <2> SUFFICES ASSUME Init PROVE Held(pending)
        BY DEF Streams, Held
    <2>1. PICK g \in Seq(Byte) : g = pending /\ Len(g) = 0
        BY EmptySeq DEF Init
    <2>2. \A u \in Seq(Byte) : Len(u) = 0 => u = g
        BY <2>1, SeqEqual
    <2>3. /\ Upto(g, 0) \in Seq(Byte) /\ Len(Upto(g, 0)) = 0
          /\ After(g, 0) \in Seq(Byte) /\ Len(After(g, 0)) = 0
        <3>1. 0 \in 0..Len(g)
            BY <2>1
        <3>2. Len(After(g, 0)) = Len(g) - 0
            BY <3>1, Cut
        <3>3. /\ Upto(g, 0) \in Seq(Byte) /\ Len(Upto(g, 0)) = 0
              /\ After(g, 0) \in Seq(Byte)
            BY <3>1, Cut
        <3> QED BY <2>1, <3>2, <3>3
    <2>4. Upto(Sentinel, 0) \in Seq(Byte) /\ Len(Upto(Sentinel, 0)) = 0
        <3>1. 0 \in 0..Len(Sentinel) /\ Sentinel \in Seq(Byte)
            BY SentinelIsBytes
        <3> QED BY <3>1, Cut
    <2>5. Upto(g, 0) = g /\ After(g, 0) = g /\ Upto(Sentinel, 0) = g
        BY <2>2, <2>3, <2>4
    <2>6. partialRuneSuffix(g) = 0
        <3>1. partialRuneSuffix(g) \in 0..Len(g)
            BY RuneIs
        <3> QED BY <2>1, <3>1
    <2>7. 0 \in 0..Len(g) /\ Len(g) < Len(Sentinel)
        BY <2>1, SentinelIsBytes
    <2>8. After(g, 0) = Upto(Sentinel, Len(After(g, 0)))
        BY <2>3, <2>5
    <2>9. Held(g)
        BY <2>5, <2>6, <2>7, <2>8 DEF Held
    <2> QED BY <2>1, <2>9
<1>2. TypeOK /\ Streams /\ [Next]_vars => Streams'
    <2> SUFFICES ASSUME TypeOK, Streams, [Next]_vars, at' = "read" PROVE Held(pending')
        BY DEF Streams, Held
    <2>1. CASE SendSafe
        <3>1. PICK l \in Seq(Byte) : l = pending \o chunk
            BY ConcatProperties DEF TypeOK
        <3>2. PICK f \in 0..Len(l) : f = Len(l) - holdback(l) /\ Len(l) - f = holdback(l)
            <4>1. Len(l) \in Nat /\ holdback(l) \in 0..Len(l)
                BY HeldIsInLine, LenProperties
            <4> QED BY <4>1
        <3>3. pending' = After(l, f)
            BY <2>1, <3>1, <3>2 DEF SendSafe
        <3>4. /\ pending' \in Seq(Byte) /\ Len(pending') = Len(l) - f
              /\ \A x \in 1..(Len(l) - f) : pending'[x] = l[f + x]
            BY <3>3, Cut
        <3>5. Len(l) - Len(pending') = f /\ Len(pending') = holdback(l)
            <4>1. Len(l) \in Nat /\ Len(l) - (Len(l) - f) = f
                BY LenProperties
            <4> QED BY <3>2, <3>4, <4>1
        <3>6. \A x \in 1..Len(pending') : pending'[x] = l[Len(l) - Len(pending') + x]
            BY <3>4, <3>5
        <3> QED BY <3>4, <3>5, <3>6, HoldbackHeld
    <2>2. CASE UNCHANGED <<at, pending>>
        BY <2>2 DEF Streams, Held
    <2>3. CASE SendLine
        BY <2>3 DEF SendLine
    <2> QED BY <2>1, <2>2, <2>3 DEF Next, Read, CloseLine, EOF, Done, vars
<1> QED BY <1>1, <1>2, Typing, PTL DEF Spec
-----------------------------------------------------------------------------
(* No chunk ends inside a rune *)

\* The last byte of the beginning of a rune is one that only runes have.
LEMMA RuneEnds ==
    ASSUME NEW p \in Seq(Byte), partialRuneSuffix(p) > 0
    PROVE  Len(p) > 0 /\ p[Len(p)] \in {Lead, Cont}
<1>1. PICK k \in Nat, n \in Nat : k = partialRuneSuffix(p) /\ n = Len(p) /\ k <= n /\ k > 0
    BY RuneIs, LenProperties
<1>2. p[n - k + 1] = Lead /\ \A i \in (n - k + 2)..n : p[i] = Cont
    <2>1. Cuts(p, n - k, n) /\ n > n - k
        BY <1>1, RuneIs
    <2> QED BY <2>1 DEF Cuts
<1>3. CASE k = 1
    <2>1. n - k + 1 = n
        BY <1>3
    <2> QED BY <1>1, <1>2, <2>1
<1>4. CASE ~(k = 1)
    <2>1. n \in (n - k + 2)..n
        BY <1>1, <1>4
    <2> QED BY <1>1, <1>2, <2>1
<1> QED BY <1>3, <1>4

\* A rune that begins in the first of two pieces and ends the second goes through
\* all of it; one that begins in the second is its own.
LEMMA RuneSpans ==
    ASSUME NEW a \in Seq(Byte), NEW b \in Seq(Byte), NEW v \in Seq(Byte)
    PROVE  Len(b) > 0 /\ v = a \o b /\ partialRuneSuffix(v) > 0
           => \/ partialRuneSuffix(b) > 0
              \/ partialRuneSuffix(a) > 0 /\ b[1] = Cont
<1>1. SUFFICES ASSUME Len(b) > 0, v = a \o b, partialRuneSuffix(v) > 0
               PROVE  \/ partialRuneSuffix(b) > 0
                      \/ partialRuneSuffix(a) > 0 /\ b[1] = Cont
    OBVIOUS
<1>2. PICK k \in Nat, n \in Nat, c \in Nat :
            /\ k = partialRuneSuffix(v) /\ n = Len(a) /\ c = Len(b) /\ c > 0
            /\ Len(v) = n + c /\ k <= n + c /\ k > 0
    <2>1. Len(v) = Len(a) + Len(b)
        BY <1>1, ConcatProperties
    <2>2. partialRuneSuffix(v) \in 0..Len(v)
        BY RuneIs
    <2>3. Len(a) \in Nat /\ Len(b) \in Nat
        BY LenProperties
    <2> QED BY <1>1, <2>1, <2>2, <2>3
<1>3. c > 0 /\ k <= n + c /\ k > 0
    BY <1>2
<1>4. /\ \A x \in 1..n : v[x] = a[x]
      /\ \A x \in 1..c : v[n + x] = b[x]
    <2>1. PICK w \in Seq(Byte) :
              /\ w = a \o b /\ Len(w) = Len(a) + Len(b)
              /\ \A x \in 1..Len(w) : w[x] = IF x <= Len(a) THEN a[x] ELSE b[x - Len(a)]
        BY Joined
    <2>2. \A x \in 1..(n + c) : v[x] = IF x <= n THEN a[x] ELSE b[x - n]
        BY <1>1, <1>2, <2>1
    <2>3. ASSUME NEW x \in 1..n PROVE v[x] = a[x]
        <3>1. x \in 1..(n + c) /\ x <= n
            BY <1>2
        <3> QED BY <2>2, <3>1
    <2>4. ASSUME NEW x \in 1..c PROVE v[n + x] = b[x]
        <3>1. n + x \in 1..(n + c) /\ ~(n + x <= n) /\ n + x - n = x
            BY <1>3
        <3> QED BY <2>2, <3>1
    <2> QED BY <2>3, <2>4
<1>5. /\ k < RuneLen /\ v[n + c - k + 1] = Lead
      /\ \A i \in (n + c - k + 2)..(n + c) : v[i] = Cont
    <2>1. Cuts(v, n + c - k, n + c)
        <3>1. Cuts(v, Len(v) - partialRuneSuffix(v), Len(v))
            BY RuneIs
        <3> QED BY <1>2, <3>1
    <2>2. n + c > n + c - k /\ n + c - (n + c - k) = k
        BY <1>3
    <2> QED BY <2>1, <2>2 DEF Cuts
<1>6. CASE k <= c
    <2>1. b[c - k + 1] = Lead
        <3>1. c - k + 1 \in 1..c /\ n + (c - k + 1) = n + c - k + 1
            BY <1>2, <1>6
        <3> QED BY <1>4, <1>5, <3>1
    <2>2. ASSUME NEW i \in (c - k + 2)..c PROVE b[i] = Cont
        <3>1. i \in 1..c /\ n + i \in (n + c - k + 2)..(n + c)
            BY <1>2, <1>6
        <3> QED BY <1>4, <1>5, <3>1
    <2>3. Cuts(b, c - k, c)
        <3>1. c - (c - k) = k
            BY <1>2
        <3> QED BY <1>5, <2>1, <2>2, <3>1 DEF Cuts
    <2>4. k \in 1..Len(b) /\ Cuts(b, Len(b) - k, Len(b))
        BY <1>2, <1>6, <2>3
    <2>5. PICK g \in Nat : g = partialRuneSuffix(b) /\ k <= g
        <3>1. /\ partialRuneSuffix(b) \in 0..Len(b)
              /\ \A j \in 1..Len(b) : Cuts(b, Len(b) - j, Len(b)) => j <= partialRuneSuffix(b)
            BY RuneIs
        <3> QED BY <2>4, <3>1
    <2> QED BY <1>2, <2>5
<1>7. CASE ~(k <= c)
    <2>1. PICK j \in Nat : j = k - c /\ j > 0 /\ j <= n /\ j < k /\ n + c - k = n - j
                        /\ n + c - k + 2 <= n - j + 2
        BY <1>3, <1>7
    <2>2. a[n - j + 1] = Lead
        <3>1. n - j + 1 \in 1..n
            BY <2>1
        <3> QED BY <1>4, <1>5, <2>1, <3>1
    <2>3. ASSUME NEW i \in (n - j + 2)..n PROVE a[i] = Cont
        <3>1. i \in 1..n /\ i \in (n + c - k + 2)..(n + c)
            BY <2>1
        <3> QED BY <1>4, <1>5, <3>1
    <2>4. j < RuneLen
        BY <1>5, <2>1, SizesAreNat
    <2>5. Cuts(a, n - j, n)
        <3>1. n - (n - j) = j
            BY <2>1
        <3> QED BY <2>2, <2>3, <2>4, <3>1 DEF Cuts
    <2>6. j \in 1..Len(a) /\ Cuts(a, Len(a) - j, Len(a))
        BY <1>2, <2>1, <2>5
    <2>7. PICK g \in Nat : g = partialRuneSuffix(a) /\ j <= g
        BY <2>6, RuneIs
    <2>8. b[1] = Cont
        <3>1. 1 \in 1..c /\ n + 1 \in (n + c - k + 2)..(n + c)
            BY <1>2, <1>7
        <3> QED BY <1>4, <1>5, <3>1
    <2> QED BY <2>1, <2>7, <2>8
<1> QED BY <1>6, <1>7

\* The line that SendSafe looks at is all of the input that was not sent.
LEMMA SafePlace ==
    ASSUME CInv, SendSafe
    PROVE  \E l \in Seq(Byte), e \in Nat :
              /\ e = Len(emitted) /\ Len(input) = e + Len(l)
              /\ \A x \in 1..Len(l) : l[x] = input[e + x]
              /\ emitted' = emitted \o Upto(l, Len(l) - holdback(l))
              /\ (Len(l) = 0 => e = Len(input)) /\ input' = input
<1>1. PICK e \in Nat, p \in Nat, c \in Nat : Sizes(e, p, c) /\ Len(input) = e + p + c
    BY Places DEF CInv, IInv, SendSafe
<1>2. PICK l \in Seq(Byte) : l = pending \o chunk
    BY ConcatProperties DEF CInv, IInv, TypeOK
<1>3. Len(l) = p + c /\ \A x \in 1..Len(l) : l[x] = input[e + x]
    <2>1. /\ c \in 0..Len(chunk) /\ chunk \in Seq(Byte) /\ Len(chunk) = c
          /\ TypeOK /\ Whole /\ at # "closed" /\ \A x \in 1..c : chunk[x] = chunk[x]
        BY <1>1 DEF CInv, IInv, TypeOK, SendSafe, Sizes
    <2>2. Len(l) = Len(pending) + c /\ \A x \in 1..Len(l) : l[x] = input[Len(emitted) + x]
        BY <1>2, <2>1, LinePlace
    <2> QED BY <1>1, <2>2 DEF Sizes
<1>4. emitted' = emitted \o Upto(l, Len(l) - holdback(l)) /\ input' = input
    BY <1>2 DEF SendSafe, send
<1>5. e = Len(emitted) /\ Len(input) = e + Len(l)
    BY <1>1, <1>3 DEF Sizes
<1>6. Len(l) = 0 => e = Len(input)
    BY <1>1, <1>3
<1> QED BY <1>3, <1>4, <1>5, <1>6

LEMMA SafeWhole ==
    ASSUME CInv, RunesWhole, SendSafe, partialRuneSuffix(emitted') > 0
    PROVE  Len(emitted') < Len(input) /\ input[Len(emitted') + 1] # Cont
<1>1. PICK l \in Seq(Byte), e \in Nat :
            /\ e = Len(emitted) /\ Len(input) = e + Len(l)
            /\ \A x \in 1..Len(l) : l[x] = input[e + x]
            /\ emitted' = emitted \o Upto(l, Len(l) - holdback(l))
            /\ Len(l) = 0 => e = Len(input)
    BY SafePlace
<1>2. PICK n \in Nat, h \in Nat, f \in Nat :
            n = Len(l) /\ h = holdback(l) /\ h <= n /\ f = n - h /\ f + h = n
    <2>1. Len(l) \in Nat /\ holdback(l) \in 0..Len(l)
        BY HeldIsInLine, LenProperties
    <2> QED BY <2>1
<1>3. PICK k \in Nat, o \in Nat :
            /\ k + o = h /\ k + o <= n
            /\ Cuts(l, n - (k + o), n - o) /\ Marks(l, n - o, n)
            /\ o = 0 => k = partialRuneSuffix(l)
    <2>1. PICK k \in Nat, o \in Nat :
            /\ k + o = holdback(l) /\ k + o <= Len(l)
            /\ Cuts(l, Len(l) - (k + o), Len(l) - o) /\ Marks(l, Len(l) - o, Len(l))
            /\ o = 0 => k = partialRuneSuffix(l)
        BY HoldbackIs
    <2> QED BY <1>2, <2>1
<1>4. h <= n /\ f + h = n /\ k + o = h
    BY <1>2, <1>3
<1>5. PICK u \in Seq(Byte) : u = Upto(l, f) /\ Len(u) = f /\ \A x \in 1..f : u[x] = l[x]
    <2>1. f \in 0..Len(l)
        BY <1>2
    <2>2. /\ Upto(l, f) \in Seq(Byte) /\ Len(Upto(l, f)) = f
          /\ \A x \in 1..f : Upto(l, f)[x] = l[x]
        BY <2>1, Cut
    <2> QED BY <2>2
<1>6. emitted \in Seq(Byte) /\ emitted' = emitted \o u /\ at = "split"
    BY <1>1, <1>2, <1>5 DEF CInv, IInv, TypeOK, SendSafe
<1>7. Len(emitted') = e + f
    <2>1. Len(emitted') = Len(emitted) + Len(u)
        BY <1>6, ConcatProperties
    <2> QED BY <1>1, <1>5, <2>1
<1>8. CASE h > 0
    <2>1. f + 1 \in 1..n /\ e + f < e + n
        BY <1>4, <1>8
    <2>2. l[f + 1] # Cont
        <3>1. CASE k > 0
            <4>1. n - o > n - (k + o) /\ n - (k + o) = f
                BY <1>4, <3>1
            <4>2. l[f + 1] = Lead
                BY <1>3, <4>1 DEF Cuts
            <4> QED BY <4>2, KindsDiffer
        <3>2. CASE ~(k > 0)
            <4>1. o > 0 /\ n - o = f /\ 1 \in 1..(n - f)
                BY <1>4, <1>8, <3>2
            <4>2. l[f + 1] = Mark(1)
                BY <1>3, <4>1 DEF Marks
            <4>3. Mark(1) = Sentinel[1] /\ Sentinel[1] \in Plain
                <5>1. 1 \in 1..Len(Sentinel)
                    BY SentinelIsBytes
                <5> QED BY <5>1, SentinelLen, ElementOfSeq DEF Mark
            <4> QED BY <4>2, <4>3, KindsDiffer
        <3> QED BY <3>1, <3>2
    <2>3. l[f + 1] = input[e + (f + 1)]
        <3>1. f + 1 \in 1..Len(l)
            BY <1>2, <2>1
        <3> QED BY <1>1, <3>1
    <2>4. Len(input) = e + n
        BY <1>1, <1>2
    <2>5. e + (f + 1) = e + f + 1
        OBVIOUS
    <2> QED BY <1>7, <2>1, <2>2, <2>3, <2>4, <2>5
<1>9. CASE ~(h > 0)
    <2>1. o = 0 /\ k = 0 /\ f = n
        BY <1>4, <1>9
    <2>2. u = l
        BY <1>2, <1>5, <2>1, SeqEqual
    <2>3. ~(partialRuneSuffix(l) > 0)
        BY <1>3, <2>1
    <2>4. PICK v \in Seq(Byte) : v = emitted' /\ v = emitted \o l
        BY <1>6, <2>2, ConcatProperties
    <2>5. CASE n > 0
        <3>1. Len(l) > 0
            BY <1>2, <2>5
        <3>2. partialRuneSuffix(emitted) > 0 /\ l[1] = Cont
            BY <1>6, <2>3, <2>4, <3>1, RuneSpans
        <3>3. input[e + 1] # Cont
            BY <1>1, <1>6, <3>2 DEF RunesWhole
        <3>4. l[1] = input[e + 1]
            <4>1. 1 \in 1..Len(l)
                BY <1>2, <2>5
            <4> QED BY <1>1, <4>1
        <3> QED BY <3>2, <3>3, <3>4
    <2>6. CASE ~(n > 0)
        <3>1. Len(l) = 0
            BY <1>2, <2>6
        <3>2. v = emitted
            <4>1. Len(v) = Len(emitted)
                BY <1>1, <1>7, <2>1, <2>4, <2>6
            <4>2. \A x \in 1..Len(v) : v[x] = emitted[x]
                BY <1>6, <2>4, <4>1, ConcatProperties
            <4> QED BY <1>6, <4>1, <4>2, SeqEqual
        <3>3. Len(emitted) < Len(input)
            BY <1>6, <2>4, <3>2 DEF RunesWhole
        <3> QED BY <1>1, <3>1, <3>3
    <2> QED BY <2>5, <2>6
<1> QED BY <1>8, <1>9

\* No chunk ends inside a rune that the next byte goes on with, wherever the reads
\* cut the output.
THEOREM NoRuneIsCut == Spec => []RunesWhole
<1>1. Init => RunesWhole
    <2> SUFFICES ASSUME Init PROVE ~(partialRuneSuffix(emitted) > 0)
        BY DEF RunesWhole
    <2>1. emitted \in Seq(Byte) /\ Len(emitted) = 0
        BY EmptySeq DEF Init
    <2>2. partialRuneSuffix(emitted) \in 0..Len(emitted)
        BY <2>1, RuneIs
    <2> QED BY <2>1, <2>2
<1>2. CInv /\ CInv' /\ RunesWhole /\ [Next]_vars => RunesWhole'
    <2> SUFFICES ASSUME CInv, CInv', RunesWhole, [Next]_vars,
                        at' # "eof", partialRuneSuffix(emitted') > 0
                 PROVE  Len(emitted') < Len(input') /\ input'[Len(emitted') + 1] # Cont
        BY DEF RunesWhole
    <2>1. CASE Read
        <3>1. /\ Len(input') = Len(input) + Len(chunk') /\ chunk' \in Seq(Byte)
              /\ \A x \in 1..Len(input) : input'[x] = input[x]
            BY <2>1, ReadsOn DEF CInv, IInv
        <3>2. emitted' = emitted /\ at = "read"
            BY <2>1 DEF Read
        <3>3. Len(emitted) < Len(input) /\ input[Len(emitted) + 1] # Cont
            BY <3>2 DEF RunesWhole
        <3>4. Len(emitted) \in Nat /\ Len(input) \in Nat /\ Len(chunk') \in Nat
            BY <3>1, LenProperties DEF CInv, IInv, TypeOK
        <3>5. Len(emitted) + 1 \in 1..Len(input) /\ Len(emitted) < Len(input) + Len(chunk')
            BY <3>3, <3>4
        <3> QED BY <3>1, <3>2, <3>3, <3>5
    <2>2. CASE CloseLine
        <3>1. PICK e \in Nat, m \in Nat \ {0}, g \in Nat :
                 /\ e = Len(emitted') /\ m = Len(Sentinel) /\ g = Looked'
                 /\ g \in 1..Len(input') /\ e + m <= g - 1 /\ Marks(input', e, g - 1)
            <4>1. at' = "closed" /\ Len(emitted') \in Nat
                BY <2>2, LenProperties DEF CloseLine, CInv, IInv, TypeOK
            <4>2. /\ Looked' \in 1..Len(input') /\ Len(emitted') + Len(Sentinel) <= Looked' - 1
                  /\ Marks(input', Len(emitted'), Looked' - 1)
                BY <4>1 DEF CInv, ClosedByMark
            <4>3. Looked' \in Nat
                BY <4>2
            <4> QED BY <4>1, <4>2, <4>3, SentinelIsBytes
        <3>2. e < Len(input')
            <4>1. Len(input') \in Nat
                BY LenProperties DEF CInv, IInv, TypeOK
            <4> QED BY <3>1, <4>1
        <3>3. 1 \in 1..(g - 1 - e) /\ 1 \in 1..m /\ 1 <= m
            BY <3>1
        <3>4. input'[e + 1] = Sentinel[1]
            BY <3>1, <3>3 DEF Marks, Mark
        <3>5. Sentinel[1] \in Plain
            BY <3>1, <3>3, SentinelLen, ElementOfSeq
        <3> QED BY <3>1, <3>2, <3>4, <3>5, KindsDiffer
    <2>3. CASE SendLine
        <3>1. PICK i \in DOMAIN chunk :
                 Newline(i) /\ send(Append(pending \o Upto(chunk, i - 1), NL))
            BY <2>3 DEF SendLine
        <3>2. PICK l \in Seq(Byte) : l = pending \o Upto(chunk, i - 1)
            BY <3>1, LineOf DEF CInv, IInv
        <3>3. PICK b \in Seq(Byte) : b = Append(l, NL) /\ Len(b) = Len(l) + 1 /\ b[Len(b)] = NL
            <4>1. NL \in Byte
                BY DEF Byte
            <4>2. /\ Append(l, NL) \in Seq(Byte) /\ Len(Append(l, NL)) = Len(l) + 1
                  /\ Append(l, NL)[Len(l) + 1] = NL
                BY <4>1, AppendProperties
            <4> QED BY <4>2
        <3>4. PICK v \in Seq(Byte) : /\ v = emitted \o b /\ Len(v) = Len(emitted) + Len(b)
                                     /\ v[Len(v)] = NL
            <4>1. PICK v \in Seq(Byte) :
                     /\ v = emitted \o b /\ Len(v) = Len(emitted) + Len(b)
                     /\ \A x \in 1..Len(v) :
                           v[x] = IF x <= Len(emitted) THEN emitted[x] ELSE b[x - Len(emitted)]
                BY Joined DEF CInv, IInv, TypeOK
            <4>2. Len(emitted) \in Nat /\ Len(l) \in Nat
                BY LenProperties DEF CInv, IInv, TypeOK
            <4>3. /\ Len(v) \in 1..Len(v) /\ ~(Len(v) <= Len(emitted))
                  /\ Len(v) - Len(emitted) = Len(b)
                BY <3>3, <4>1, <4>2
            <4> QED BY <3>3, <4>1, <4>3
        <3>5. emitted' = v
            BY <3>1, <3>2, <3>3, <3>4 DEF send
        <3>6. NL \in {Lead, Cont}
            BY <3>4, <3>5, RuneEnds
        <3> QED BY <3>6, KindsDiffer
    <2>4. CASE SendSafe
        <3>1. input' = input
            BY <2>4 DEF SendSafe
        <3> QED BY <2>4, <3>1, SafeWhole
    <2>5. CASE UNCHANGED vars
        BY <2>5 DEF RunesWhole, vars
    <2>6. CASE EOF
        BY <2>6 DEF EOF
    <2> QED BY <2>1, <2>2, <2>3, <2>4, <2>5, <2>6 DEF Next, Done
<1> QED BY <1>1, <1>2, Stopping, PTL DEF Spec
=============================================================================
