------------------------------ MODULE OutputScan ------------------------------
(***************************************************************************)
(* Session.scanToSentinel (go/session.go): one goroutine that streams what  *)
(* the interpreter prints during an eval, read by read, and must recognise  *)
(* the line that closes the eval wherever the reads cut it, without ever     *)
(* printing a part of it and without cutting a UTF-8 sequence in two.        *)
(*                                                                         *)
(* A byte is one of a few kinds: the two that end lines, the first and the   *)
(* later bytes of a rune, and the plain ones, of which the sentinel is made. *)
(***************************************************************************)
EXTENDS Sequences, Integers, FiniteSets

CONSTANTS
    NL, CR,     \* '\n' and '\r'
    Lead, Cont, \* the first byte of a rune of RuneLen bytes, and the others
    RuneLen,
    Plain,      \* the other bytes
    Sentinel,   \* the session's sentinel
    MaxTail,    \* maxTail: bytes kept for the message about a death
    MaxRead,    \* bound: bytes in one read
    MaxInput    \* bound: bytes the interpreter prints

Byte == Plain \cup {NL, CR, Lead, Cont}

ASSUME KindsDistinct  == Cardinality({NL, CR, Lead, Cont}) = 4 /\ Plain \cap {NL, CR, Lead, Cont} = {}
ASSUME SentinelIsText == Sentinel \in Seq(Plain) /\ Sentinel # <<>>
ASSUME SizesAreNat    == RuneLen \in Nat /\ MaxTail \in Nat /\ MaxRead \in Nat /\ MaxInput \in Nat

VARIABLES
    at,      \* "read": blocked in r.Read; "split": a chunk is being cut into
             \* lines; "closed" and "eof": returned
    chunk,   \* what is left of the bytes last read
    pending, \* the bytes of the current line that were not emitted
    emitted, \* history: everything sent to the client so far
    tail,    \* buf, the last maxTail bytes of it
    input    \* history: everything read from the pipe so far

vars == <<at, chunk, pending, emitted, tail, input>>

Upto(s, n)  == SubSeq(s, 1, n)
After(s, n) == SubSeq(s, n + 1, Len(s))
EndsWith(p, s) == Len(s) <= Len(p) /\ After(p, Len(p) - Len(s)) = s
MaxOf(S) == CHOOSE m \in S : \A k \in S : k <= m
-----------------------------------------------------------------------------
(* What of a line may be sent *)

\* bytes.TrimRight(p, "\r"), by its length.
TextLen(p) == MaxOf({0} \cup {n \in 1..Len(p) : p[n] # CR})
Text(p)    == Upto(p, TextLen(p))

Closes(line) == EndsWith(Text(line), Sentinel)

\* The longest beginning of the sentinel that p ends with.
sentinelOverlap(p) ==
    MaxOf({k \in 0..Len(Sentinel) : EndsWith(p, Upto(Sentinel, k))})

\* The bytes of a rune at the end of p that is not complete.
partialRuneSuffix(p) ==
    MaxOf({0} \cup {k \in 1..(RuneLen - 1) :
                       /\ k <= Len(p) /\ p[Len(p) - k + 1] = Lead
                       /\ \A i \in (Len(p) - k + 2)..Len(p) : p[i] = Cont})

\* Mutants of holdback: no regard for runes; none for carriage returns that
\* may stand between the sentinel and its newline; all of the line.
holdbackRuneless(p) ==
    IF Closes(p) THEN Len(p) - TextLen(p) + Len(Sentinel) ELSE sentinelOverlap(p)
holdbackNoReturns(p) ==
    LET n == sentinelOverlap(p) IN n + partialRuneSuffix(Upto(p, Len(p) - n))
holdbackLine(p) == Len(p)

holdback(p) ==
    IF TextLen(p) < Len(p) /\ Closes(p)
    THEN Len(p) - TextLen(p) + Len(Sentinel)
    ELSE LET n == sentinelOverlap(p) IN n + partialRuneSuffix(Upto(p, Len(p) - n))

Last(s, n) == After(s, IF Len(s) > n THEN Len(s) - n ELSE 0)

send(b) ==
    /\ emitted' = emitted \o b
    /\ tail' = Last(tail \o b, MaxTail)
-----------------------------------------------------------------------------
(* The loop *)

Init ==
    /\ at = "read"
    /\ chunk = <<>> /\ pending = <<>> /\ emitted = <<>> /\ tail = <<>> /\ input = <<>>

Read ==
    /\ at = "read"
    /\ \E n \in 1..MaxRead : \E c \in [1..n -> Byte] :
          /\ Len(input) + n <= MaxInput
          /\ chunk' = c
          /\ input' = input \o c
    /\ at' = "split"
    /\ UNCHANGED <<pending, emitted, tail>>

\* The position of the first newline in the chunk.
Newline(i) == i \in DOMAIN chunk /\ chunk[i] = NL /\ \A j \in 1..(i - 1) : chunk[j] # NL

\* A line that closes the eval: what it holds before the sentinel is output, and
\* the bytes that were read behind it are dropped.
CloseLine ==
    /\ at = "split"
    /\ \E i \in DOMAIN chunk :
          LET line == pending \o Upto(chunk, i - 1) IN
          /\ Newline(i) /\ Closes(line)
          /\ send(Upto(line, TextLen(line) - Len(Sentinel)))
          /\ chunk' = After(chunk, i)
          /\ pending' = line
    /\ at' = "closed"
    /\ UNCHANGED input

\* Mutant of SendLine: pending is not reset.
SendLineKeeps ==
    /\ at = "split"
    /\ \E i \in DOMAIN chunk :
          LET line == pending \o Upto(chunk, i - 1) IN
          /\ Newline(i) /\ ~Closes(line)
          /\ send(Append(line, NL))
          /\ chunk' = After(chunk, i)
    /\ UNCHANGED <<at, input, pending>>

SendLine ==
    /\ at = "split"
    /\ \E i \in DOMAIN chunk :
          LET line == pending \o Upto(chunk, i - 1) IN
          /\ Newline(i) /\ ~Closes(line)
          /\ send(Append(line, NL))
          /\ chunk' = After(chunk, i)
    /\ pending' = <<>>
    /\ UNCHANGED <<at, input>>

\* Mutant of SendSafe: the bytes of the read are looked at again.
SendSafeTwice ==
    /\ at = "split" /\ \A i \in DOMAIN chunk : chunk[i] # NL
    /\ LET line == pending \o chunk
           safe == Len(line) - holdback(line)
       IN send(Upto(line, safe)) /\ pending' = After(line, safe)
    /\ at' = "read"
    /\ UNCHANGED <<input, chunk>>

\* The chunk has no newline left: what cannot be a part of the sentinel is sent.
SendSafe ==
    /\ at = "split" /\ \A i \in DOMAIN chunk : chunk[i] # NL
    /\ LET line == pending \o chunk
           safe == Len(line) - holdback(line)
       IN send(Upto(line, safe)) /\ pending' = After(line, safe)
    /\ chunk' = <<>>
    /\ at' = "read"
    /\ UNCHANGED input

\* The pipe is closed: the interpreter, and all that had it open, are gone.
EOF ==
    /\ at = "read"
    /\ send(pending)
    /\ pending' = <<>>
    /\ at' = "eof"
    /\ UNCHANGED <<chunk, input>>

Done == at \in {"closed", "eof"} /\ UNCHANGED vars

Next == Read \/ CloseLine \/ SendLine \/ SendSafe \/ EOF \/ Done

Spec == Init /\ [][Next]_vars
-----------------------------------------------------------------------------
(* Properties *)

TypeOK ==
    /\ at \in {"read", "split", "closed", "eof"}
    /\ chunk \in Seq(Byte) /\ pending \in Seq(Byte)
    /\ emitted \in Seq(Byte) /\ tail \in Seq(Byte) /\ input \in Seq(Byte)
    /\ at = "read" => chunk = <<>>

\* Output reaches the client byte for byte, in order: what was sent, what is
\* held back and what is not looked at yet make up what was read, and a
\* death loses nothing of it.  At the end the sentinel has been taken out.
Verbatim ==
    /\ at # "closed" => emitted \o pending \o chunk = input
    /\ at = "eof" => emitted = input /\ tail = Last(emitted, MaxTail)

\* A line of s that ends at j closes an eval: the sentinel stands at its end,
\* carriage returns apart.
ClosingLine(s, j) ==
    /\ s[j] = NL
    /\ \E k \in 0..(j - 1) : /\ EndsWith(Upto(s, k), Sentinel)
                             /\ \A i \in (k + 1)..(j - 1) : s[i] = CR

\* The scan stops at the first closing line, wherever the reads cut it, and
\* at no other; what has been sent by then is the output before its sentinel.
ClosesExactly ==
    LET seen == Len(input) - Len(chunk) IN
    /\ \A j \in 1..seen : ClosingLine(input, j) => at = "closed" /\ j = seen
    /\ at = "closed" =>
          /\ ClosingLine(input, seen)
          /\ emitted \o Sentinel = Upto(input, Len(emitted) + Len(Sentinel))
          /\ \A i \in (Len(emitted) + Len(Sentinel) + 1)..(seen - 1) : input[i] = CR

\* Every chunk becomes a JSON string of its own: none ends inside a rune that
\* the next byte goes on with.
RunesWhole ==
    /\ at # "eof" /\ partialRuneSuffix(emitted) > 0
    => Len(emitted) < Len(input) /\ input[Len(emitted) + 1] # Cont

\* Output is not withheld: while the scan waits for more, for example at a
\* prompt with no newline, it holds back only what may become the sentinel of
\* a closing line, and the rune it would cut.
Streams ==
    at = "read" =>
        \E k \in 0..Len(pending) :
            /\ partialRuneSuffix(Upto(pending, k)) = k
            /\ LET rest == After(pending, k) IN
               \/ Len(rest) < Len(Sentinel) /\ rest = Upto(Sentinel, Len(rest))
               \/ Text(rest) = Sentinel
=============================================================================
