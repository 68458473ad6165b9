-------------------------- MODULE CommandLine_proofs --------------------------
(***************************************************************************)
(* Proofs about CommandLine, for any tokens with any attributes, any command *)
(* lines, languages of interpreters and contents of PATH: that the scan is   *)
(* well typed, that every token arrives where its one reading sends it, and  *)
(* that an eval and a command that describe one session are for one key.     *)
(***************************************************************************)
EXTENDS CommandLine, SequenceTheorems, FiniteSetTheorems, TLAPS

\* What a command line may say: its tokens, what stands behind an "=", nothing.
Text == Token \cup {Attr[t].inline : t \in Token} \cup {None}
Role == {"fileArg", "marker", "file", "own", "native", "value", "fwd", "exe", "sub", "subArg", "dropped"}

Parsed == [exe : Text, lang : Text, session : Text, mode : {None, "eval", "print"},
           code : Text, file : Text, fileArgs : Seq(Token), fwd : Seq(Token),
           sub : Text, subArgs : Seq(Token)]

Target == [exe : Text, id : Text, lang : Text, session : Text, fwd : Seq(Token)]

\* What a scan ends in.
Complete == {"parsed", "target", "byId", "targeted", "daemonWide"} \cup Evals

\* The position of the scan is that of the first token without a reading; what
\* a subcommand is given is shorter than the command line.
Scanning ==
    /\ role \in Seq(Role)
    /\ at = "parse" => i = Len(role) + 1 /\ p.sub = None /\ p.subArgs = <<>>
    /\ at \in Complete => Len(role) = Len(argv)
    /\ p.sub # None => Len(p.subArgs) < Len(argv)
    /\ at = "target" => p.sub # None /\ i <= Len(p.subArgs) + 1

TInv == TypeOK /\ p \in Parsed /\ tg \in Target /\ Scanning /\ \E e \in EvalLines : wish = e.wish
-----------------------------------------------------------------------------
(* Sequences *)

LEMMA RestIs ==
    ASSUME NEW X, NEW s \in Seq(X), NEW k \in 1..(Len(s) + 1)
    PROVE  /\ Rest(s, k) \in Seq(X) /\ Len(Rest(s, k)) = Len(s) - k + 1
           /\ \A j \in 1..(Len(s) - k + 1) : Rest(s, k)[j] = s[k + j - 1]
<1>1. Len(s) \in Nat
    BY LenProperties
<1>2. \A j \in k..Len(s) : s[j] \in X
    BY <1>1, ElementOfSeq
<1>3. k \in Int /\ Len(s) \in Int
    BY <1>1
<1>4. /\ SubSeq(s, k, Len(s)) \in Seq(X)
      /\ Len(SubSeq(s, k, Len(s))) = IF k <= Len(s) THEN Len(s) - k + 1 ELSE 0
      /\ \A j \in 1..(Len(s) - k + 1) : SubSeq(s, k, Len(s))[j] = s[k + j - 1]
    BY ONLY <1>2, <1>3, SubSeqProperties
<1> QED BY <1>1, <1>4 DEF Rest

\* The roles of the tokens that a subcommand, or a file behind "--", takes with it.
LEMMA Filled ==
    ASSUME NEW R \in Seq(Role), NEW n \in Nat, NEW r \in Role
    PROVE  LET R2 == R \o [k \in 1..n |-> r]
           IN  /\ R2 \in Seq(Role) /\ Len(R2) = Len(R) + n
               /\ \A k \in 1..Len(R) : R2[k] = R[k]
               /\ \A k \in (Len(R) + 1)..(Len(R) + n) : R2[k] = r
<1> DEFINE f == [k \in 1..n |-> r]
<1>1. f \in [1..n -> Role] /\ \A k \in 1..n : f[k] = r
    OBVIOUS
<1> HIDE DEF f
<1>2. f \in Seq(Role)
    BY <1>1, SeqDef
<1>3. Len(f) = n /\ Len(R) \in Nat
    BY <1>1, <1>2, LenProperties
<1>4. R \o f \in Seq(Role) /\ Len(R \o f) = Len(R) + n
    BY <1>2, <1>3, ConcatProperties
<1>5. \A k \in 1..(Len(R) + n) : (R \o f)[k] = IF k <= Len(R) THEN R[k] ELSE f[k - Len(R)]
    BY <1>2, <1>3, ConcatProperties
<1>6. \A k \in 1..Len(R) : (R \o f)[k] = R[k]
    BY <1>3, <1>5
<1>7. ASSUME NEW k \in (Len(R) + 1)..(Len(R) + n)
      PROVE  (R \o f)[k] = r
    <2>1. k \in 1..(Len(R) + n) /\ ~(k <= Len(R)) /\ k - Len(R) \in 1..n
        BY <1>3
    <2> QED BY <1>1, <1>5, <2>1
<1> QED BY <1>4, <1>6, <1>7 DEF f

LEMMA Appended ==
    ASSUME NEW X, NEW s \in Seq(X), NEW x \in X
    PROVE  /\ Append(s, x) \in Seq(X) /\ Len(Append(s, x)) = Len(s) + 1
           /\ \A k \in 1..Len(s) : Append(s, x)[k] = s[k]
           /\ Append(s, x)[Len(s) + 1] = x
<1>1. Len(s) \in Nat
    BY LenProperties
<1> QED BY <1>1, AppendProperties
-----------------------------------------------------------------------------
(* Types *)

LEMMA TextTypes == None \in Text /\ Token \subseteq Text
    BY DEF Text

LEMMA AttrIs ==
    ASSUME NEW t \in Token
    PROVE  /\ Attr[t].dash \in BOOLEAN /\ Attr[t].eq \in BOOLEAN /\ Attr[t].regular \in BOOLEAN
           /\ Attr[t].plus \in BOOLEAN /\ Attr[t].idLike \in BOOLEAN
           /\ Attr[t].inline \in Text
           /\ Attr[t].sub \in {None, "session", "daemon"}
    BY TokenAttrs DEF Text

LEMMA NotEmpty ==
    ASSUME NEW t \in Token, Attr[t].regular \/ Attr[t].sub # None \/ Attr[t].idLike
    PROVE  t # None
<1> SUFFICES ASSUME t = None PROVE FALSE
    OBVIOUS
<1>1. ~Attr[None].regular /\ Attr[None].sub = None /\ ~Attr[None].idLike
    BY TokenAttrs
<1> QED BY <1>1

LEMMA TokenAt ==
    ASSUME NEW s \in Seq(Token), NEW k \in 1..Len(s)
    PROVE  s[k] \in Token
    BY ElementOfSeq

\* The value of a flag is a token or stands behind its "=".
LEMMA ValueIs ==
    ASSUME NEW s \in Seq(Token), NEW k \in 1..Len(s), HasValue(s, k)
    PROVE  ValueOf(s, k) \in Text /\ k + Width(s, k) <= Len(s) + 1 /\ Width(s, k) \in {1, 2}
<1>1. Len(s) \in Nat /\ s[k] \in Token
    BY LenProperties, TokenAt
<1>2. CASE Attr[s[k]].eq
    BY <1>1, <1>2, AttrIs DEF ValueOf, Width, Text
<1>3. CASE ~Attr[s[k]].eq
    <2>1. k < Len(s) /\ k + 1 \in 1..Len(s)
        BY <1>1, <1>3 DEF HasValue
    <2>2. s[k + 1] \in Token
        BY <2>1, TokenAt
    <2> QED BY <1>1, <1>3, <2>1, <2>2 DEF ValueOf, Width, Text
<1> QED BY <1>2, <1>3

LEMMA InitTypes == Init => TInv
<1> SUFFICES ASSUME Init PROVE TInv
    OBVIOUS
<1> USE TextTypes
<1>1. argv \in Seq(Token) /\ Len(argv) \in Nat
    BY LinesDescribe, LenProperties DEF Init
<1>2. <<>> \in Seq(Token) /\ <<>> \in Seq(Role) /\ Len(<<>>) = 0
    BY EmptySeq
<1>3. p \in Parsed /\ tg \in Target
    BY <1>2 DEF Init, NoParsed, NoTarget, Parsed, Target
<1>4. TypeOK
    BY <1>1, <1>2 DEF Init, TypeOK, NoParsed
<1>5. Scanning
    BY <1>1, <1>2 DEF Init, Scanning, NoParsed, Complete, Evals
<1> QED BY <1>3, <1>4, <1>5 DEF TInv, Init

\* What every step of parseArgs may rely on.
LEMMA AtToken ==
    ASSUME TInv, More
    PROVE  /\ T \in Token /\ i \in 1..Len(argv) /\ Len(argv) \in Nat /\ argv \in Seq(Token)
           /\ i = Len(role) + 1 /\ role \in Seq(Role) /\ Len(role) \in Nat
           /\ p \in Parsed /\ p.sub = None /\ p.subArgs = <<>> /\ at = "parse"
<1>1. argv \in Seq(Token) /\ role \in Seq(Role) /\ Len(argv) \in Nat /\ Len(role) \in Nat
    BY LenProperties DEF TInv, TypeOK, Scanning
<1>2. i \in 1..Len(argv)
    BY <1>1 DEF TInv, TypeOK, More
<1> QED BY <1>1, <1>2, TokenAt DEF TInv, Scanning, More, T

\* A step that reads one token and stays in parseArgs.
LEMMA ReadsOne ==
    ASSUME TInv, More, NEW r \in Role, As(r), Stay, UNCHANGED <<argv, tg, wish>>,
           p' \in Parsed, p'.sub = None, p'.subArgs = <<>>,
           p'.mode = p.mode, p'.code = p.code, p'.fileArgs # <<>> => p'.file # None
    PROVE  TInv'
<1>1. role' \in Seq(Role) /\ Len(role') = Len(role) + 1
    BY AtToken, Appended DEF As
<1>2. i' = i + 1 /\ at' = "parse" /\ i' \in 1..(Len(argv) + 1)
    BY AtToken DEF As, Stay
<1>3. TypeOK'
    BY <1>1, <1>2, AtToken DEF TInv, TypeOK, Parsed
<1>4. Scanning'
    BY <1>1, <1>2, AtToken DEF Scanning, Complete, Evals
<1> QED BY <1>3, <1>4 DEF TInv

LEMMA StopTypes ==
    ASSUME TInv, NEW how \in {"usage", "missing"}, Stops(how)
    PROVE  TInv'
<1>1. TypeOK'
    BY DEF TInv, TypeOK, Stops
<1>2. Scanning'
    BY DEF TInv, Scanning, Stops, Complete, Evals
<1> QED BY <1>1, <1>2 DEF TInv, Stops

LEMMA WordTypes ==
    ASSUME TInv, FileArg \/ Fresh \/ ForwardFlag \/ FileWord \/ ExeWord \/ ForwardWord
    PROVE  TInv'
<1> USE TextTypes
<1>1. More
    BY DEF FileArg, Fresh, ForwardFlag, FileWord, ExeWord, ForwardWord, Flag, Word
<1>2. T \in Token /\ p \in Parsed /\ p.sub = None /\ p.subArgs = <<>> /\ T \in Text
    BY <1>1, AtToken
<1>3. CASE FileArg
    <2>1. p' = [p EXCEPT !.fileArgs = Append(@, T)] /\ Append(p.fileArgs, T) \in Seq(Token)
        BY <1>2, <1>3, AppendProperties DEF FileArg, Set, Parsed
    <2>2. p' \in Parsed /\ p'.sub = None /\ p'.subArgs = <<>> /\ p'.mode = p.mode /\ p'.code = p.code
          /\ p'.file # None
        BY <1>2, <1>3, <2>1 DEF FileArg, Parsed
    <2> QED BY <1>1, <1>3, <2>2, ReadsOne DEF FileArg, Set, Role
<1>4. CASE Fresh
    BY <1>1, <1>2, <1>4, ReadsOne DEF Fresh, Set, TInv, TypeOK, Role
<1>5. CASE ForwardFlag \/ ForwardWord
    <2>1. p' = [p EXCEPT !.fwd = Append(@, T)] /\ Append(p.fwd, T) \in Seq(Token)
        BY <1>2, <1>5, AppendProperties DEF ForwardFlag, ForwardWord, Forwards, Set, Parsed
    <2>2. p' \in Parsed /\ p'.sub = None /\ p'.subArgs = <<>> /\ p'.mode = p.mode /\ p'.code = p.code
          /\ p'.fileArgs = p.fileArgs /\ p'.file = p.file
        BY <1>2, <2>1 DEF Parsed
    <2>3. As("fwd") /\ Stay /\ UNCHANGED <<argv, tg, wish>>
        BY <1>5 DEF ForwardFlag, ForwardWord, Forwards, Set
    <2> QED BY <1>1, <2>2, <2>3, ReadsOne DEF TInv, TypeOK, Role
<1>6. CASE FileWord
    <2>1. p' = [p EXCEPT !.file = T] /\ p.fileArgs = <<>>
        BY <1>6 DEF FileWord, Word, Set, TInv, TypeOK
    <2>2. p' \in Parsed /\ p'.sub = None /\ p'.subArgs = <<>> /\ p'.mode = p.mode /\ p'.code = p.code
          /\ p'.fileArgs = <<>>
        BY <1>2, <2>1 DEF Parsed
    <2>3. \E r \in Role : As(r)
        BY <1>6 DEF FileWord, OrDropped, Role
    <2> QED BY <1>1, <1>6, <2>2, <2>3, ReadsOne DEF FileWord, Set
<1>7. CASE ExeWord
    <2>1. p' = [p EXCEPT !.exe = T]
        BY <1>7 DEF ExeWord, Set
    <2>2. p' \in Parsed /\ p'.sub = None /\ p'.subArgs = <<>> /\ p'.mode = p.mode /\ p'.code = p.code
          /\ p'.fileArgs = p.fileArgs /\ p'.file = p.file
        BY <1>2, <2>1 DEF Parsed
    <2>3. \E r \in Role : As(r)
        BY <1>7 DEF ExeWord, OrDropped, Role
    <2> QED BY <1>1, <1>7, <2>2, <2>3, ReadsOne DEF ExeWord, Set, TInv, TypeOK
<1> QED BY <1>3, <1>4, <1>5, <1>6, <1>7

LEMMA FlagTypes ==
    ASSUME TInv, TakeFlag
    PROVE  TInv'
<1> USE TextTypes
<1> DEFINE mode == ModeFor(p, A.name)
           n == Width(argv, i)
<1>1. More /\ p.file = None
    BY DEF TakeFlag, Flag
<1>2. T \in Token /\ p \in Parsed /\ p.sub = None /\ p.subArgs = <<>> /\ i \in 1..Len(argv)
      /\ argv \in Seq(Token) /\ role \in Seq(Role) /\ i = Len(role) + 1 /\ Len(argv) \in Nat
    BY <1>1, AtToken
<1>3. CASE ~HasValue(argv, i)
    <2>1. Stops("usage")
        BY <1>3 DEF TakeFlag
    <2> QED BY <2>1, StopTypes
<1>4. CASE HasValue(argv, i)
    <2>1. ValueOf(argv, i) \in Text /\ i + n <= Len(argv) + 1 /\ n \in {1, 2}
        BY <1>2, <1>4, ValueIs
    <2>2. mode \in {None, "eval", "print"}
        BY DEF ModeFor
    <2>3. /\ i' = i + n /\ at' = "parse" /\ UNCHANGED <<argv, tg, wish>>
          /\ role' = LET r == Append(role, IF mode # None THEN "native" ELSE "own")
                     IN IF n = 1 THEN r ELSE Append(r, "value")
          /\ p' = CASE mode # None -> [p EXCEPT !.mode = mode, !.code = ValueOf(argv, i)]
                    [] A.name = "lang" /\ mode = None -> [p EXCEPT !.lang = ValueOf(argv, i)]
                    [] A.name = "session" /\ mode = None -> [p EXCEPT !.session = ValueOf(argv, i)]
                    [] OTHER -> p
        BY <1>1, <1>4 DEF TakeFlag, Set, Stay, More
    <2>4. role' \in Seq(Role) /\ Len(role') = Len(role) + n
        <3>1. PICK r \in Seq(Role) : /\ r = Append(role, IF mode # None THEN "native" ELSE "own")
                                     /\ Len(r) = Len(role) + 1
            <4>1. (IF mode # None THEN "native" ELSE "own") \in Role
                BY DEF Role
            <4> QED BY <1>2, <4>1, Appended
        <3>2. Append(r, "value") \in Seq(Role) /\ Len(Append(r, "value")) = Len(r) + 1
            BY Appended DEF Role
        <3>3. Len(role) \in Nat
            BY <1>2, LenProperties
        <3> QED BY <2>1, <2>3, <3>1, <3>2, <3>3
    <2> HIDE DEF mode, n
    <2>5. /\ p' \in Parsed /\ p'.sub = None /\ p'.subArgs = <<>> /\ p'.file = p.file
          /\ p'.fileArgs = p.fileArgs /\ p'.mode \in {None, "eval", "print"}
          /\ p'.mode = None => p'.code = p.code /\ p.mode = None
        BY <1>2, <2>1, <2>2, <2>3 DEF Parsed
    <2>6. TypeOK'
        <3>1. i' \in 1..(Len(argv') + 1) /\ Len(role') <= Len(argv')
            BY <1>2, <2>1, <2>3, <2>4
        <3>2. p'.fwd \in Seq(Token) /\ p'.fileArgs \in Seq(Token) /\ p'.subArgs \in Seq(Token)
            BY <2>5 DEF Parsed
        <3>3. at' = "parse" /\ argv' \in Seq(Token)
            BY <1>2, <2>3
        <3>4. p'.fileArgs # <<>> => p'.file # None
            BY <2>5 DEF TInv, TypeOK
        <3>5. p'.mode \in {None, "eval", "print"} /\ (p'.mode = None => p'.code = None)
            BY <2>5 DEF TInv, TypeOK
        <3>6. p'.sub = None
            BY <2>5
        <3> QED BY <3>1, <3>2, <3>3, <3>4, <3>5, <3>6 DEF TypeOK
    <2>7. Scanning'
        BY <1>2, <2>1, <2>3, <2>4, <2>5 DEF Scanning, Complete, Evals
    <2> QED BY <2>3, <2>5, <2>6, <2>7 DEF TInv
<1> QED BY <1>3, <1>4

LEMMA MarkerTypes ==
    ASSUME TInv, Marker
    PROVE  TInv'
<1> USE TextTypes
<1>1. More /\ p.file = None
    BY DEF Marker
<1>2. T \in Token /\ p \in Parsed /\ p.sub = None /\ p.subArgs = <<>> /\ i \in 1..Len(argv)
      /\ argv \in Seq(Token) /\ role \in Seq(Role) /\ i = Len(role) + 1 /\ Len(argv) \in Nat
      /\ Len(role) \in Nat
    BY <1>1, AtToken
<1>3. CASE Stops("usage") \/ Stops("missing")
    BY <1>3, StopTypes
<1>4. CASE ~(Stops("usage") \/ Stops("missing"))
    <2>1. /\ i # Len(argv) /\ Attr[argv[i + 1]].regular
          /\ p' = [p EXCEPT !.file = argv[i + 1], !.fileArgs = Rest(argv, i + 2)]
          /\ role' = Append(Append(role, "marker"), "file") \o [k \in 1..(Len(argv) - i - 1) |-> "fileArg"]
          /\ i' = Len(argv) + 1 /\ at' = "parsed" /\ UNCHANGED <<argv, tg, wish>>
        BY <1>4 DEF Marker, Set
    <2>2. i + 1 \in 1..Len(argv) /\ argv[i + 1] \in Token /\ argv[i + 1] # None
        <3>1. i + 1 \in 1..Len(argv)
            BY <1>2, <2>1
        <3> QED BY <1>2, <2>1, <3>1, TokenAt, NotEmpty
    <2>3. Rest(argv, i + 2) \in Seq(Token)
        BY <1>2, <2>2, RestIs
    <2>4. role' \in Seq(Role) /\ Len(role') = Len(argv)
        <3> DEFINE r == Append(Append(role, "marker"), "file")
        <3>1. r \in Seq(Role) /\ Len(r) = Len(role) + 2
            <4>1. /\ Append(role, "marker") \in Seq(Role)
                  /\ Len(Append(role, "marker")) = Len(role) + 1
                BY <1>2, Appended DEF Role
            <4>2. "file" \in Role
                BY DEF Role
            <4>3. /\ Append(Append(role, "marker"), "file") \in Seq(Role)
                  /\ Len(Append(Append(role, "marker"), "file")) = Len(Append(role, "marker")) + 1
                BY <4>1, <4>2, Appended
            <4> QED BY <1>2, <4>1, <4>3
        <3>2. Len(argv) - i - 1 \in Nat /\ "fileArg" \in Role
            BY <1>2, <2>2 DEF Role
        <3> QED BY <1>2, <2>1, <3>1, <3>2, Filled
    <2>5. /\ p' \in Parsed /\ p'.sub = None /\ p'.subArgs = <<>> /\ p'.file # None
          /\ p'.mode = p.mode /\ p'.code = p.code
        BY <1>2, <2>1, <2>2, <2>3 DEF Parsed
    <2>6. TypeOK'
        <3>1. i' \in 1..(Len(argv') + 1) /\ Len(role') <= Len(argv')
            BY <1>2, <2>1, <2>4
        <3>2. p'.fwd \in Seq(Token) /\ p'.fileArgs \in Seq(Token) /\ p'.subArgs \in Seq(Token)
            BY <2>5 DEF Parsed
        <3>3. at' = "parsed" /\ argv' \in Seq(Token)
            BY <1>2, <2>1
        <3>5. p'.mode \in {None, "eval", "print"} /\ (p'.mode = None => p'.code = None)
            BY <2>5 DEF TInv, TypeOK
        <3> QED BY <2>5, <3>1, <3>2, <3>3, <3>5 DEF TypeOK
    <2>7. Scanning'
        BY <1>2, <2>1, <2>4, <2>5 DEF Scanning, Complete, Evals
    <2> QED BY <2>1, <2>5, <2>6, <2>7 DEF TInv
<1> QED BY <1>3, <1>4

LEMMA SubTypes ==
    ASSUME TInv, SubWord
    PROVE  TInv'
<1> USE TextTypes
<1>1. More /\ p.file = None
    BY DEF SubWord, Word
<1>2. T \in Token /\ p \in Parsed /\ i \in 1..Len(argv)
      /\ argv \in Seq(Token) /\ role \in Seq(Role) /\ i = Len(role) + 1 /\ Len(argv) \in Nat
      /\ Len(role) \in Nat
    BY <1>1, AtToken
<1>3. /\ p.mode = None /\ p.fwd = <<>> /\ A.sub # None
      /\ p' = [p EXCEPT !.sub = T, !.subArgs = Rest(argv, i + 1)]
      /\ role' = Append(role, "sub") \o [k \in 1..(Len(argv) - i) |-> "subArg"]
      /\ i' = Len(argv) + 1 /\ at' = "parsed" /\ UNCHANGED <<argv, tg, wish>>
    BY DEF SubWord, IsSub, Plain, Set
<1>4. Rest(argv, i + 1) \in Seq(Token) /\ Len(Rest(argv, i + 1)) = Len(argv) - i
    <2>1. i + 1 \in 1..(Len(argv) + 1)
        BY <1>2
    <2> QED BY <1>2, <2>1, RestIs
<1>5. role' \in Seq(Role) /\ Len(role') = Len(argv)
    <2>1. PICK r \in Seq(Role) : r = Append(role, "sub") /\ Len(r) = Len(role) + 1
        <3>1. "sub" \in Role
            BY DEF Role
        <3> QED BY <1>2, <3>1, Appended
    <2>2. Len(argv) - i \in Nat /\ "subArg" \in Role
        BY <1>2 DEF Role
    <2> QED BY <1>2, <1>3, <2>1, <2>2, Filled
<1>6. /\ p' \in Parsed /\ p'.sub = T /\ p'.subArgs = Rest(argv, i + 1) /\ p'.file = None
      /\ p'.mode = None /\ p'.code = p.code /\ p'.fwd = <<>> /\ p'.fileArgs = p.fileArgs
    BY <1>1, <1>2, <1>3, <1>4 DEF Parsed
<1>7. TypeOK'
    <2>1. i' \in 1..(Len(argv') + 1) /\ Len(role') <= Len(argv')
        BY <1>2, <1>3, <1>5
    <2>2. p'.fwd \in Seq(Token) /\ p'.fileArgs \in Seq(Token) /\ p'.subArgs \in Seq(Token)
        BY <1>6 DEF Parsed
    <2>3. at' = "parsed" /\ argv' \in Seq(Token)
        BY <1>2, <1>3
    <2>4. p'.mode = None /\ p'.code = None /\ p'.fwd = <<>> /\ p'.file = None /\ p'.fileArgs = <<>>
        BY <1>1, <1>3, <1>6 DEF TInv, TypeOK
    <2> QED BY <2>1, <2>2, <2>3, <2>4 DEF TypeOK
<1>8. Scanning'
    BY <1>2, <1>3, <1>4, <1>5, <1>6 DEF Scanning, Complete, Evals
<1> QED BY <1>3, <1>6, <1>7, <1>8 DEF TInv

LEMMA EndTypes ==
    ASSUME TInv, ParseEnds
    PROVE  TInv'
<1>1. /\ i > Len(argv) /\ at = "parse" /\ at' = "parsed" /\ UNCHANGED <<argv, i, p, tg, wish, role>>
    BY DEF ParseEnds, Stops
<1>2. TypeOK'
    BY <1>1 DEF TInv, TypeOK
<1>3. Len(argv) \in Nat /\ Len(role) \in Nat
    BY LenProperties DEF TInv, TypeOK, Scanning
<1>4. Scanning'
    BY <1>1, <1>3 DEF TInv, TypeOK, Scanning, Complete, Evals
<1> QED BY <1>1, <1>2, <1>4 DEF TInv

\* What every step of parseTarget may rely on.
LEMMA AtTarget ==
    ASSUME TInv, at = "target"
    PROVE  /\ p \in Parsed /\ tg \in Target /\ argv \in Seq(Token) /\ p.subArgs \in Seq(Token)
           /\ Len(p.subArgs) \in Nat /\ Len(argv) \in Nat /\ Len(p.subArgs) < Len(argv)
           /\ p.sub # None /\ i \in 1..(Len(p.subArgs) + 1)
           /\ i <= Len(p.subArgs) => S \in Token
<1>1. argv \in Seq(Token) /\ p.subArgs \in Seq(Token)
    BY DEF TInv, TypeOK
<1>2. Len(argv) \in Nat /\ Len(p.subArgs) \in Nat
    BY <1>1, LenProperties
<1>3. i \in 1..(Len(p.subArgs) + 1)
    BY <1>2 DEF TInv, TypeOK, Scanning
<1>4. i <= Len(p.subArgs) => p.subArgs[i] \in Token
    BY <1>1, <1>2, <1>3, TokenAt
<1> QED BY <1>1, <1>2, <1>3, <1>4 DEF TInv, Scanning, S

LEMMA AimTypes ==
    ASSUME TInv, at = "target", NEW t \in Target, NEW n \in {1, 2},
           i + n <= Len(p.subArgs) + 1, Aim(t, n)
    PROVE  TInv'
<1>1. tg' = t /\ i' = i + n /\ UNCHANGED <<argv, p, at, wish, role>>
    BY DEF Aim
<1>2. i' \in 1..(Len(argv) + 1) /\ i' <= Len(p.subArgs) + 1
    BY <1>1, AtTarget
<1>3. TypeOK'
    BY <1>1, <1>2 DEF TInv, TypeOK
<1>4. Scanning'
    BY <1>1, <1>2 DEF TInv, Scanning, Complete, Evals
<1> QED BY <1>1, <1>3, <1>4 DEF TInv

LEMMA TargetTypes ==
    ASSUME TInv, TargetWord \/ TargetFlag
    PROVE  TInv'
<1> USE TextTypes
<1>1. at = "target" /\ i <= Len(p.subArgs)
    BY DEF TargetWord, TargetFlag, InTarget
<1>2. S \in Token /\ i \in 1..Len(p.subArgs) /\ p.subArgs \in Seq(Token) /\ tg \in Target
    BY <1>1, AtTarget
<1>3. Append(tg.fwd, S) \in Seq(Token)
    BY <1>2, AppendProperties DEF Target
<1>4. [tg EXCEPT !.fwd = Append(@, S)] \in Target
    BY <1>2, <1>3 DEF Target
<1>5. i + 1 <= Len(p.subArgs) + 1
    BY <1>1, AtTarget
<1>6. CASE TargetWord
    <2>1. PICK t : /\ t \in {[tg EXCEPT !.id = S], [tg EXCEPT !.exe = S], [tg EXCEPT !.fwd = Append(@, S)]}
                   /\ Aim(t, 1)
        BY <1>6 DEF TargetWord
    <2>2. t \in Target
        BY <1>2, <1>4, <2>1 DEF Target
    <2> QED BY <1>1, <1>5, <2>1, <2>2, AimTypes
<1>7. CASE TargetFlag
    <2> DEFINE v == IF HasValue(p.subArgs, i) THEN ValueOf(p.subArgs, i) ELSE None
               n == Width(p.subArgs, i)
    <2>1. v \in Text
        BY <1>2, ValueIs
    <2>2. n \in {1, 2} /\ i + n <= Len(p.subArgs) + 1
        BY <1>1, <1>2, AtTarget DEF Width
    <2>3. \/ Aim([tg EXCEPT !.session = v], n) \/ Aim([tg EXCEPT !.lang = v], n)
          \/ Aim(tg, n) \/ Aim([tg EXCEPT !.fwd = Append(@, S)], 1)
        BY <1>7 DEF TargetFlag
    <2> HIDE DEF v, n
    <2>4. [tg EXCEPT !.session = v] \in Target /\ [tg EXCEPT !.lang = v] \in Target
        BY <1>2, <2>1 DEF Target
    <2> QED BY <1>1, <1>2, <1>4, <1>5, <2>2, <2>3, <2>4, AimTypes
<1> QED BY <1>6, <1>7

\* What is sent, or that nothing is.
LEMMA SendTypes ==
    ASSUME TInv, at \in Complete,
           NEW how \in Evals \cup {"byId", "targeted", "daemonWide", "usage"},
           at' = how, UNCHANGED <<argv, i, p, tg, wish, role>>
    PROVE  TInv'
<1>1. TypeOK'
    BY DEF TInv, TypeOK, Evals
<1>2. Scanning'
    BY DEF TInv, Scanning, Complete, Evals
<1> QED BY <1>1, <1>2 DEF TInv

LEMMA Sending ==
    ASSUME TargetEnds \/ DaemonWide \/ SendEval
    PROVE  /\ at \in {"target", "parsed"} /\ UNCHANGED <<argv, i, p, tg, wish, role>>
           /\ at' \in Evals \cup {"byId", "targeted", "daemonWide", "usage"}
<1>1. CASE TargetEnds
    BY <1>1 DEF TargetEnds, Sends
<1>2. CASE DaemonWide
    BY <1>2 DEF DaemonWide, Sends
<1>3. CASE SendEval
    BY <1>3 DEF SendEval, Sends, Stops, Evals
<1> QED BY <1>1, <1>2, <1>3

LEMMA BeginTypes ==
    ASSUME TInv, BeginTarget
    PROVE  TInv'
<1> USE TextTypes
<1>1. /\ at = "parsed" /\ at' = "target" /\ p.sub # None /\ i' = 1
      /\ tg' = [NoTarget EXCEPT !.lang = p.lang, !.session = p.session]
      /\ UNCHANGED <<argv, p, wish, role>>
    BY DEF BeginTarget
<1>2. tg' \in Target
    <2>1. <<>> \in Seq(Token)
        BY EmptySeq
    <2> QED BY <1>1, <2>1 DEF TInv, Parsed, Target, NoTarget
<1>3. Len(argv) \in Nat /\ Len(p.subArgs) \in Nat
    BY LenProperties DEF TInv, TypeOK
<1>4. TypeOK'
    BY <1>1, <1>3 DEF TInv, TypeOK
<1>5. Scanning'
    BY <1>1, <1>3 DEF TInv, Scanning, Complete, Evals
<1> QED BY <1>1, <1>2, <1>4, <1>5 DEF TInv

LEMMA NextTypes ==
    ASSUME TInv, NextCommand
    PROVE  TInv'
<1> USE TextTypes
<1>1. /\ argv' \in TargetLines(wish) /\ wish # NoWish /\ wish' = wish
      /\ i' = 1 /\ p' = NoParsed /\ tg' = NoTarget /\ at' = "parse" /\ role' = <<>>
    BY DEF NextCommand
<1>2. argv' \in Seq(Token)
    BY <1>1, LinesDescribe DEF TInv
<1>3. Len(argv') \in Nat /\ <<>> \in Seq(Token) /\ <<>> \in Seq(Role) /\ Len(<<>>) = 0
    BY <1>2, LenProperties, EmptySeq
<1>4. p' \in Parsed /\ tg' \in Target
    BY <1>1, <1>3 DEF NoParsed, NoTarget, Parsed, Target
<1>5. TypeOK'
    BY <1>1, <1>2, <1>3 DEF TypeOK, NoParsed
<1>6. Scanning'
    BY <1>1, <1>3 DEF Scanning, NoParsed, Complete, Evals
<1> QED BY <1>1, <1>4, <1>5, <1>6 DEF TInv

\* The invariant that the other proofs rest on: where the scan is, and of what
\* types are its results.
THEOREM Invariance == Spec => []TInv
<1>1. TInv /\ [Next]_vars => TInv'
    <2> SUFFICES ASSUME TInv, [Next]_vars PROVE TInv'
        OBVIOUS
    <2>1. CASE FileArg \/ Fresh \/ ForwardFlag \/ FileWord \/ ExeWord \/ ForwardWord
        BY <2>1, WordTypes
    <2>2. CASE TakeFlag \/ Marker \/ SubWord \/ ParseEnds
        BY <2>2, FlagTypes, MarkerTypes, SubTypes, EndTypes
    <2>3. CASE BeginTarget \/ TargetWord \/ TargetFlag \/ NextCommand
        BY <2>3, BeginTypes, TargetTypes, NextTypes
    <2>4. CASE TargetEnds \/ DaemonWide \/ SendEval
        <3>1. at \in Complete
            BY <2>4, Sending DEF Complete
        <3> QED BY <2>4, <3>1, Sending, SendTypes
    <2>5. CASE Ended \/ UNCHANGED vars
        BY <2>5 DEF Ended, vars, TInv, TypeOK, Scanning, Complete, Evals
    <2> QED BY <2>1, <2>2, <2>3, <2>4, <2>5 DEF Next
<1> QED BY <1>1, InitTypes, PTL DEF Spec

\* The scan never runs past the command line, a mode comes with its code, and a
\* subcommand is taken only where nothing else was asked for, for any tokens.
THEOREM Typing == Spec => []TypeOK
BY Invariance, PTL DEF TInv
-----------------------------------------------------------------------------
(* Every token arrives *)

Taken(r, R) == {k \in 1..Len(R) : R[k] = r}

\* Arrives, of any roles and any command line.
ArrivesIn(s, r, R, a) ==
    /\ Len(s) = Cardinality(Taken(r, R))
    /\ \A k \in Taken(r, R) : s[Cardinality({j \in Taken(r, R) : j <= k})] = a[k]

LEMMA ArrivesIs == \A s, r : Arrives(s, r) <=> ArrivesIn(s, r, role, argv)
BY DEF Arrives, ArrivesIn, Taken

LEMMA TakenIsFinite ==
    ASSUME NEW R \in Seq(Role), NEW r
    PROVE  IsFiniteSet(Taken(r, R)) /\ Cardinality(Taken(r, R)) \in Nat
<1>1. Len(R) \in Nat
    BY LenProperties
<1>2. IsFiniteSet(1..Len(R))
    BY <1>1, FS_Interval
<1>3. Taken(r, R) \in SUBSET (1..Len(R))
    BY DEF Taken
<1>4. IsFiniteSet(Taken(r, R))
    BY <1>2, <1>3, FS_Subset
<1> QED BY <1>4, FS_CardinalityType

\* Nothing has arrived if nothing was sent.
LEMMA NoneTaken ==
    ASSUME NEW R \in Seq(Role), NEW r, NEW a, ArrivesIn(<<>>, r, R, a)
    PROVE  \A k \in 1..Len(R) : R[k] # r
<1>1. Len(<<>>) = 0
    BY EmptySeq
<1>2. Taken(r, R) = {}
    BY <1>1, TakenIsFinite, FS_EmptySet DEF ArrivesIn
<1> QED BY <1>2 DEF Taken

\* Tokens taken for something else do not matter.
LEMMA OthersTaken ==
    ASSUME NEW R \in Seq(Role), NEW R2 \in Seq(Role), NEW r, NEW a, NEW s, Len(R) <= Len(R2),
           \A k \in 1..Len(R) : R2[k] = R[k],
           \A k \in (Len(R) + 1)..Len(R2) : R2[k] # r,
           ArrivesIn(s, r, R, a)
    PROVE  ArrivesIn(s, r, R2, a)
<1>1. Len(R) \in Nat /\ Len(R2) \in Nat
    BY LenProperties
<1>2. Taken(r, R2) = Taken(r, R)
    <2>1. ASSUME NEW k \in 1..Len(R2)
          PROVE  R2[k] = r <=> k \in 1..Len(R) /\ R[k] = r
        <3>1. k \in 1..Len(R) \/ k \in (Len(R) + 1)..Len(R2)
            BY <1>1
        <3> QED BY <3>1, <1>1
    <2> QED BY <1>1, <2>1 DEF Taken
<1> QED BY <1>2 DEF ArrivesIn

\* The next token goes to the end of what has arrived.
LEMMA OneMore ==
    ASSUME NEW R \in Seq(Role), NEW r \in Role, NEW a \in Seq(Token), NEW s \in Seq(Token),
           Len(R) + 1 <= Len(a), ArrivesIn(s, r, R, a)
    PROVE  ArrivesIn(Append(s, a[Len(R) + 1]), r, Append(R, r), a)
<1> DEFINE n == Len(R) + 1
           R2 == Append(R, r)
           s2 == Append(s, a[n])
           C(k) == Cardinality({j \in Taken(r, R) : j <= k})
<1>1. Len(R) \in Nat /\ Len(a) \in Nat /\ Len(s) \in Nat /\ a[n] \in Token
    BY LenProperties, TokenAt
<1>2. R2 \in Seq(Role) /\ Len(R2) = n /\ R2[n] = r /\ \A k \in 1..Len(R) : R2[k] = R[k]
    BY Appended
<1>3. Len(s2) = Len(s) + 1 /\ s2[Len(s) + 1] = a[n] /\ \A k \in 1..Len(s) : s2[k] = s[k]
    BY <1>1, Appended
<1> HIDE DEF R2, s2
<1>4. Taken(r, R2) = Taken(r, R) \cup {n} /\ n \notin Taken(r, R)
    BY <1>1, <1>2 DEF Taken
<1>5. Cardinality(Taken(r, R2)) = Len(s) + 1
    <2>1. IsFiniteSet(Taken(r, R)) /\ Cardinality(Taken(r, R)) = Len(s)
        BY TakenIsFinite DEF ArrivesIn
    <2>2. Cardinality(Taken(r, R) \cup {n})
             = IF n \in Taken(r, R) THEN Cardinality(Taken(r, R)) ELSE Cardinality(Taken(r, R)) + 1
        BY <2>1, FS_AddElement
    <2> QED BY <1>4, <2>1, <2>2
<1>6. ASSUME NEW k \in Taken(r, R2)
      PROVE  s2[Cardinality({j \in Taken(r, R2) : j <= k})] = a[k]
    <2>1. CASE k = n
        <3>1. {j \in Taken(r, R2) : j <= k} = Taken(r, R2)
            BY <1>1, <1>4, <2>1 DEF Taken
        <3> QED BY <1>3, <1>5, <2>1, <3>1
    <2>2. CASE k # n
        <3>1. k \in Taken(r, R) /\ k \in 1..Len(R)
            BY <1>4, <2>2 DEF Taken
        <3>2. {j \in Taken(r, R2) : j <= k} = {j \in Taken(r, R) : j <= k}
            BY <1>1, <1>4, <3>1
        <3>3. C(k) \in 1..Len(s)
            <4>1. {j \in Taken(r, R) : j <= k} \in SUBSET Taken(r, R)
                OBVIOUS
            <4>2. /\ IsFiniteSet({j \in Taken(r, R) : j <= k})
                  /\ C(k) <= Cardinality(Taken(r, R))
                BY <4>1, TakenIsFinite, FS_Subset
            <4>3. k \in {j \in Taken(r, R) : j <= k}
                BY <1>1, <3>1
            <4>4. C(k) # 0 /\ C(k) \in Nat
                BY <4>2, <4>3, FS_EmptySet, FS_CardinalityType
            <4> QED BY <1>1, <4>2, <4>4 DEF ArrivesIn
        <3> QED BY <1>3, <3>1, <3>2, <3>3 DEF ArrivesIn
    <2> QED BY <2>1, <2>2
<1>7. Len(s2) = Cardinality(Taken(r, R2))
    BY <1>3, <1>5
<1>8. ArrivesIn(s2, r, R2, a)
    BY <1>6, <1>7 DEF ArrivesIn
<1> QED BY <1>8 DEF s2, R2

\* All the rest goes where a subcommand, or a file behind "--", sends it.
LEMMA AllTheRest ==
    ASSUME NEW a \in Seq(Token), NEW R2 \in Seq(Role), NEW r, NEW n \in 0..Len(a),
           Len(R2) = Len(a), \A k \in 1..n : R2[k] # r,
           \A k \in (n + 1)..Len(a) : R2[k] = r
    PROVE  ArrivesIn(Rest(a, n + 1), r, R2, a)
<1>1. Len(a) \in Nat
    BY LenProperties
<1>2. Taken(r, R2) = (n + 1)..Len(a)
    <2>1. \A k \in 1..Len(a) : k \in 1..n \/ k \in (n + 1)..Len(a)
        BY <1>1
    <2> QED BY <1>1, <2>1 DEF Taken
<1>3. /\ Len(Rest(a, n + 1)) = Len(a) - n
      /\ \A j \in 1..(Len(a) - n) : Rest(a, n + 1)[j] = a[n + j]
    <2>1. n + 1 \in 1..(Len(a) + 1)
        BY <1>1
    <2>2. /\ Len(Rest(a, n + 1)) = Len(a) - (n + 1) + 1
          /\ \A j \in 1..(Len(a) - (n + 1) + 1) : Rest(a, n + 1)[j] = a[(n + 1) + j - 1]
        BY <2>1, RestIs
    <2>3. Len(a) - (n + 1) + 1 = Len(a) - n /\ \A j \in Int : (n + 1) + j - 1 = n + j
        BY <1>1
    <2> QED BY <2>2, <2>3
<1>4. Cardinality((n + 1)..Len(a)) = Len(a) - n
    <2>1. n + 1 \in Int /\ Len(a) \in Int /\ Len(a) - (n + 1) + 1 = Len(a) - n
        BY <1>1
    <2>2. Cardinality((n + 1)..Len(a)) = IF n + 1 > Len(a) THEN 0 ELSE Len(a) - (n + 1) + 1
        BY <2>1, FS_Interval
    <2> QED BY <1>1, <2>1, <2>2
<1>5. ASSUME NEW k \in (n + 1)..Len(a)
      PROVE  Rest(a, n + 1)[Cardinality({j \in (n + 1)..Len(a) : j <= k})] = a[k]
    <2>1. {j \in (n + 1)..Len(a) : j <= k} = (n + 1)..k
        BY <1>1
    <2>2. Cardinality((n + 1)..k) = k - n
        <3>1. n + 1 \in Int /\ k \in Int
            BY <1>1
        <3> QED BY <1>1, <3>1, FS_Interval
    <2>3. k - n \in 1..(Len(a) - n) /\ n + (k - n) = k
        BY <1>1
    <2> QED BY <1>3, <2>1, <2>2, <2>3
<1> QED BY <1>2, <1>3, <1>4, <1>5 DEF ArrivesIn

\* The inductive form of ForwardsVerbatim: an exe that was taken is known.
SeparableIn(q, R, a) ==
    /\ ArrivesIn(q.fwd, "fwd", R, a) /\ ArrivesIn(q.fileArgs, "fileArg", R, a)
    /\ ArrivesIn(q.subArgs, "subArg", R, a)
    /\ \A j, k \in 1..Len(R) : R[j] = "exe" /\ R[k] = "own" => k < j
    /\ q.exe = None => \A k \in 1..Len(R) : R[k] # "exe"

Separable == SeparableIn(p, role, argv)

LEMMA SeparableAppend ==
    ASSUME NEW q \in Parsed, NEW q2 \in Parsed, NEW R \in Seq(Role), NEW r \in Role,
           NEW a \in Seq(Token), Len(R) + 1 <= Len(a), SeparableIn(q, R, a),
           q2.fwd = IF r = "fwd" THEN Append(q.fwd, a[Len(R) + 1]) ELSE q.fwd,
           q2.fileArgs = IF r = "fileArg" THEN Append(q.fileArgs, a[Len(R) + 1]) ELSE q.fileArgs,
           q2.subArgs = q.subArgs, r # "subArg",
           r = "own" => q.exe = None,
           q2.exe = None => q.exe = None /\ r # "exe"
    PROVE  SeparableIn(q2, Append(R, r), a)
<1> DEFINE R2 == Append(R, r)
<1>1. Len(R) \in Nat
    BY LenProperties
<1>2. R2 \in Seq(Role) /\ Len(R2) = Len(R) + 1 /\ R2[Len(R) + 1] = r /\ \A k \in 1..Len(R) : R2[k] = R[k]
    BY Appended
<1>3. \A k \in 1..Len(R2) : k \in 1..Len(R) \/ k = Len(R) + 1
    BY <1>1, <1>2
<1>4. ASSUME NEW x, x # r, NEW s, ArrivesIn(s, x, R, a)
      PROVE  ArrivesIn(s, x, R2, a)
    <2>1. Len(R) <= Len(R2) /\ \A k \in (Len(R) + 1)..Len(R2) : R2[k] # x
        BY <1>1, <1>2, <1>4
    <2> HIDE DEF R2
    <2> QED BY <1>2, <1>4, <2>1, OthersTaken
<1>5. ASSUME NEW s \in Seq(Token), ArrivesIn(s, r, R, a)
      PROVE  ArrivesIn(Append(s, a[Len(R) + 1]), r, R2, a)
    BY <1>5, OneMore
<1> HIDE DEF R2
<1>6. q.fwd \in Seq(Token) /\ q.fileArgs \in Seq(Token)
    BY DEF Parsed
<1>7. ArrivesIn(q2.fwd, "fwd", R2, a)
    BY <1>4, <1>5, <1>6 DEF SeparableIn
<1>8. ArrivesIn(q2.fileArgs, "fileArg", R2, a)
    BY <1>4, <1>5, <1>6 DEF SeparableIn
<1>9. ArrivesIn(q2.subArgs, "subArg", R2, a)
    BY <1>4 DEF SeparableIn
<1>10. ASSUME NEW j \in 1..Len(R2), NEW k \in 1..Len(R2), R2[j] = "exe", R2[k] = "own"
       PROVE  k < j
    <2>1. CASE j \in 1..Len(R) /\ k \in 1..Len(R)
        BY <1>2, <1>10, <2>1 DEF SeparableIn
    <2>2. CASE j = Len(R) + 1 /\ k \in 1..Len(R)
        BY <1>1, <2>2
    <2>3. CASE j \in 1..Len(R) /\ k = Len(R) + 1
        BY <1>2, <1>10, <2>3 DEF SeparableIn
    <2>4. CASE j = Len(R) + 1 /\ k = Len(R) + 1
        BY <1>10, <2>4
    <2> QED BY <1>3, <2>1, <2>2, <2>3, <2>4
<1>11. q2.exe = None => \A k \in 1..Len(R2) : R2[k] # "exe"
    BY <1>2, <1>3 DEF SeparableIn
<1> QED BY <1>7, <1>8, <1>9, <1>10, <1>11 DEF SeparableIn, R2

LEMMA SeparableFill ==
    ASSUME NEW q \in Parsed, NEW q2 \in Parsed, NEW R \in Seq(Role), NEW r \in {"fileArg", "subArg"},
           NEW a \in Seq(Token), Len(R) <= Len(a), SeparableIn(q, R, a),
           q2.fwd = q.fwd, q2.exe = q.exe, q.fileArgs = <<>>, q.subArgs = <<>>,
           q2.fileArgs = IF r = "fileArg" THEN Rest(a, Len(R) + 1) ELSE <<>>,
           q2.subArgs = IF r = "subArg" THEN Rest(a, Len(R) + 1) ELSE <<>>
    PROVE  SeparableIn(q2, R \o [k \in 1..(Len(a) - Len(R)) |-> r], a)
<1> DEFINE n == Len(a) - Len(R)
           R2 == R \o [k \in 1..n |-> r]
<1>1. Len(R) \in Nat /\ Len(a) \in Nat /\ n \in Nat /\ Len(R) + n = Len(a) /\ r \in Role
    BY LenProperties DEF Role
<1>2. /\ R2 \in Seq(Role) /\ Len(R2) = Len(a)
      /\ \A k \in 1..Len(R) : R2[k] = R[k]
      /\ \A k \in (Len(R) + 1)..Len(a) : R2[k] = r
    <2> HIDE DEF n
    <2>1. /\ R2 \in Seq(Role) /\ Len(R2) = Len(R) + n
          /\ \A k \in 1..Len(R) : R2[k] = R[k]
          /\ \A k \in (Len(R) + 1)..(Len(R) + n) : R2[k] = r
        BY <1>1, Filled
    <2> QED BY <1>1, <2>1
<1> HIDE DEF R2
<1>3. \A k \in 1..Len(R2) : k \in 1..Len(R) \/ k \in (Len(R) + 1)..Len(a)
    BY <1>1, <1>2
<1>4. ASSUME NEW x, x # r, NEW s, ArrivesIn(s, x, R, a)
      PROVE  ArrivesIn(s, x, R2, a)
    <2>1. Len(R) <= Len(R2) /\ \A k \in (Len(R) + 1)..Len(R2) : R2[k] # x
        BY <1>1, <1>2, <1>4
    <2> QED BY <1>2, <1>4, <2>1, OthersTaken
<1>5. ArrivesIn(<<>>, r, R, a)
    BY DEF SeparableIn
<1>6. ArrivesIn(Rest(a, Len(R) + 1), r, R2, a)
    <2>1. Len(R) \in 0..Len(a) /\ \A k \in 1..Len(R) : R2[k] # r
        BY <1>1, <1>2, <1>5, NoneTaken
    <2> QED BY <1>2, <2>1, AllTheRest
<1>7. /\ ArrivesIn(q2.fwd, "fwd", R2, a) /\ ArrivesIn(q2.fileArgs, "fileArg", R2, a)
      /\ ArrivesIn(q2.subArgs, "subArg", R2, a)
    BY <1>4, <1>6 DEF SeparableIn
<1>8. ASSUME NEW k \in 1..Len(R2), R2[k] \in {"exe", "own"}
      PROVE  k \in 1..Len(R) /\ R2[k] = R[k]
    BY <1>2, <1>3, <1>8
<1> QED BY <1>7, <1>8 DEF SeparableIn, R2

\* A step that reads one token.
LEMMA SeparableRead ==
    ASSUME TInv, Separable, More, NEW r \in Role, As(r), argv' = argv, p' \in Parsed,
           p'.fwd = IF r = "fwd" THEN Append(p.fwd, T) ELSE p.fwd,
           p'.fileArgs = IF r = "fileArg" THEN Append(p.fileArgs, T) ELSE p.fileArgs,
           p'.subArgs = p.subArgs, r # "subArg",
           r = "own" => p.exe = None,
           p'.exe = None => p.exe = None /\ r # "exe"
    PROVE  Separable'
<1>1. Len(role) + 1 <= Len(argv) /\ T = argv[Len(role) + 1] /\ role \in Seq(Role)
      /\ argv \in Seq(Token) /\ p \in Parsed
    BY AtToken DEF T
<1>2. SeparableIn(p', Append(role, r), argv)
    BY <1>1, SeparableAppend DEF Separable
<1> QED BY <1>2 DEF Separable, As

LEMMA SeparableWord ==
    ASSUME TInv, TInv', Separable, FileArg \/ Fresh \/ ForwardFlag \/ FileWord \/ ExeWord \/ ForwardWord
    PROVE  Separable'
<1>1. More /\ p \in Parsed /\ p' \in Parsed
    BY DEF FileArg, Fresh, ForwardFlag, FileWord, ExeWord, ForwardWord, Flag, Word, TInv
<1>2. CASE FileArg
    <2>1. p' = [p EXCEPT !.fileArgs = Append(@, T)] /\ argv' = argv /\ As("fileArg")
        BY <1>2 DEF FileArg, Set
    <2> QED BY <1>1, <2>1, SeparableRead DEF Parsed, Role
<1>3. CASE Fresh
    <2>1. p' = p /\ argv' = argv /\ As("own") /\ p.exe = None
        BY <1>3 DEF Fresh, Set
    <2> QED BY <1>1, <2>1, SeparableRead DEF Role
<1>4. CASE ForwardFlag \/ ForwardWord
    <2>1. p' = [p EXCEPT !.fwd = Append(@, T)] /\ argv' = argv /\ As("fwd")
        BY <1>4 DEF ForwardFlag, ForwardWord, Forwards, Set
    <2> QED BY <1>1, <2>1, SeparableRead DEF Parsed, Role
<1>5. CASE FileWord
    <2>1. p' = [p EXCEPT !.file = T] /\ argv' = argv /\ (As("dropped") \/ As("file"))
        BY <1>5 DEF FileWord, Set, OrDropped
    <2> QED BY <1>1, <2>1, SeparableRead DEF Parsed, Role
<1>6. CASE ExeWord
    <2>1. p' = [p EXCEPT !.exe = T] /\ argv' = argv /\ p.exe = None
          /\ As(IF T = None THEN "dropped" ELSE "exe")
        BY <1>6 DEF ExeWord, Set, OrDropped, IsExe
    <2>2. /\ p'.fwd = p.fwd /\ p'.fileArgs = p.fileArgs /\ p'.subArgs = p.subArgs /\ p'.exe = T
        BY <1>1, <2>1 DEF Parsed
    <2>3. CASE T = None
        <3>1. As("dropped")
            BY <2>1, <2>3
        <3> QED BY <1>1, <2>1, <2>2, <3>1, SeparableRead DEF Role
    <2>4. CASE T # None
        <3>1. As("exe")
            BY <2>1, <2>4
        <3> QED BY <1>1, <2>1, <2>2, <2>4, <3>1, SeparableRead DEF Role
    <2> QED BY <2>3, <2>4
<1> QED BY <1>2, <1>3, <1>4, <1>5, <1>6

LEMMA SeparableFlag ==
    ASSUME TInv, TInv', Separable, TakeFlag
    PROVE  Separable'
<1> DEFINE mode == ModeFor(p, A.name)
           n == Width(argv, i)
           r == IF mode # None THEN "native" ELSE "own"
<1>1. More /\ p \in Parsed /\ p' \in Parsed
    BY DEF TakeFlag, Flag, TInv
<1>2. i \in 1..Len(argv) /\ argv \in Seq(Token) /\ role \in Seq(Role) /\ i = Len(role) + 1
      /\ Len(argv) \in Nat /\ Len(role) \in Nat
    BY <1>1, AtToken
<1>3. CASE ~HasValue(argv, i)
    BY <1>3 DEF TakeFlag, Stops, Separable
<1>4. CASE HasValue(argv, i)
    <2>1. /\ argv' = argv
          /\ role' = IF n = 1 THEN Append(role, r) ELSE Append(Append(role, r), "value")
          /\ p' = CASE mode # None -> [p EXCEPT !.mode = mode, !.code = ValueOf(argv, i)]
                    [] A.name = "lang" /\ mode = None -> [p EXCEPT !.lang = ValueOf(argv, i)]
                    [] A.name = "session" /\ mode = None -> [p EXCEPT !.session = ValueOf(argv, i)]
                    [] OTHER -> p
        BY <1>4 DEF TakeFlag, Set
    <2>2. mode # None \/ p.exe = None
        BY DEF TakeFlag, IsOwn
    <2>3. r \in Role /\ r # "subArg" /\ r # "fwd" /\ r # "fileArg" /\ r # "exe" /\ (r = "own" => p.exe = None)
        BY <2>2 DEF Role
    <2>4. i + n <= Len(argv) + 1 /\ n \in {1, 2}
        BY <1>2, <1>4, ValueIs
    <2> HIDE DEF mode, n, r
    <2>5. p'.fwd = p.fwd /\ p'.fileArgs = p.fileArgs /\ p'.subArgs = p.subArgs /\ p'.exe = p.exe
        BY <1>1, <2>1 DEF Parsed
    <2>6. SeparableIn(p', Append(role, r), argv)
        <3>1. Len(role) + 1 <= Len(argv)
            BY <1>2
        <3> QED BY <1>1, <1>2, <2>3, <2>5, <3>1, SeparableAppend DEF Separable
    <2>7. CASE n = 1
        BY <2>1, <2>6, <2>7 DEF Separable
    <2>8. CASE n = 2
        <3>1. /\ Append(role, r) \in Seq(Role) /\ Len(Append(role, r)) + 1 <= Len(argv)
              /\ "value" \in Role
            BY <1>2, <2>3, <2>4, <2>8, Appended DEF Role
        <3>2. SeparableIn(p', Append(Append(role, r), "value"), argv)
            BY <1>1, <1>2, <2>6, <3>1, SeparableAppend
        <3> QED BY <2>1, <2>8, <3>2 DEF Separable
    <2> QED BY <2>4, <2>7, <2>8
<1> QED BY <1>3, <1>4

LEMMA SeparableMarker ==
    ASSUME TInv, TInv', Separable, Marker
    PROVE  Separable'
<1>1. More /\ p.file = None /\ p \in Parsed /\ p' \in Parsed
    BY DEF Marker, TInv
<1>2. i \in 1..Len(argv) /\ argv \in Seq(Token) /\ role \in Seq(Role) /\ i = Len(role) + 1
      /\ Len(argv) \in Nat /\ Len(role) \in Nat /\ p.subArgs = <<>> /\ p.fileArgs = <<>>
    BY <1>1, AtToken DEF TInv, TypeOK
<1>3. CASE Stops("usage") \/ Stops("missing")
    BY <1>3 DEF Stops, Separable
<1>4. CASE ~(Stops("usage") \/ Stops("missing"))
    <2> DEFINE R1 == Append(role, "marker")
               R2 == Append(R1, "file")
    <2>1. /\ i # Len(argv) /\ argv' = argv
          /\ p' = [p EXCEPT !.file = argv[i + 1], !.fileArgs = Rest(argv, i + 2)]
          /\ role' = R2 \o [k \in 1..(Len(argv) - i - 1) |-> "fileArg"]
        BY <1>4 DEF Marker, Set
    <2>2. R1 \in Seq(Role) /\ Len(R1) = Len(role) + 1 /\ SeparableIn(p, R1, argv)
        <3>1. "marker" \in Role /\ Len(role) + 1 <= Len(argv)
            BY <1>2 DEF Role
        <3> QED BY <1>1, <1>2, <3>1, Appended, SeparableAppend DEF Separable
    <2> HIDE DEF R1
    <2>3. R2 \in Seq(Role) /\ Len(R2) = Len(role) + 2 /\ SeparableIn(p, R2, argv)
        <3>1. "file" \in Role /\ Len(R1) + 1 <= Len(argv)
            BY <1>2, <2>1, <2>2 DEF Role
        <3>2. R2 \in Seq(Role) /\ Len(R2) = Len(R1) + 1
            BY <2>2, <3>1, Appended
        <3> QED BY <1>1, <1>2, <2>2, <3>1, <3>2, SeparableAppend
    <2> HIDE DEF R2
    <2>4. /\ Len(argv) - i - 1 = Len(argv) - Len(R2) /\ Len(R2) <= Len(argv) /\ i + 2 = Len(R2) + 1
        BY <1>2, <2>1, <2>3
    <2>5. /\ p'.fwd = p.fwd /\ p'.exe = p.exe /\ p'.subArgs = <<>>
          /\ p'.fileArgs = Rest(argv, Len(R2) + 1)
        BY <1>1, <1>2, <2>1, <2>4 DEF Parsed
    <2>6. SeparableIn(p', R2 \o [k \in 1..(Len(argv) - Len(R2)) |-> "fileArg"], argv)
        BY <1>1, <1>2, <2>3, <2>4, <2>5, SeparableFill
    <2> QED BY <2>1, <2>4, <2>6 DEF Separable
<1> QED BY <1>3, <1>4

LEMMA SeparableSub ==
    ASSUME TInv, TInv', Separable, SubWord
    PROVE  Separable'
<1> DEFINE R1 == Append(role, "sub")
<1>1. More /\ p.file = None /\ p \in Parsed /\ p' \in Parsed
    BY DEF SubWord, Word, TInv
<1>2. i \in 1..Len(argv) /\ argv \in Seq(Token) /\ role \in Seq(Role) /\ i = Len(role) + 1
      /\ Len(argv) \in Nat /\ Len(role) \in Nat /\ p.subArgs = <<>> /\ p.fileArgs = <<>>
    BY <1>1, AtToken DEF TInv, TypeOK
<1>3. /\ argv' = argv /\ p' = [p EXCEPT !.sub = T, !.subArgs = Rest(argv, i + 1)]
      /\ role' = R1 \o [k \in 1..(Len(argv) - i) |-> "subArg"]
    BY DEF SubWord, Set
<1>4. R1 \in Seq(Role) /\ Len(R1) = Len(role) + 1 /\ SeparableIn(p, R1, argv)
    <2>1. "sub" \in Role /\ Len(role) + 1 <= Len(argv)
        BY <1>2 DEF Role
    <2> QED BY <1>1, <1>2, <2>1, Appended, SeparableAppend DEF Separable
<1> HIDE DEF R1
<1>5. Len(argv) - i = Len(argv) - Len(R1) /\ Len(R1) <= Len(argv) /\ i = Len(R1)
    BY <1>2, <1>4
<1>6. /\ p'.fwd = p.fwd /\ p'.exe = p.exe /\ p'.fileArgs = <<>>
      /\ p'.subArgs = Rest(argv, Len(R1) + 1)
    BY <1>1, <1>2, <1>3, <1>5 DEF Parsed
<1>7. SeparableIn(p', R1 \o [k \in 1..(Len(argv) - Len(R1)) |-> "subArg"], argv)
    BY <1>1, <1>2, <1>4, <1>5, <1>6, SeparableFill
<1> QED BY <1>3, <1>5, <1>7 DEF Separable

\* Before the scan nothing has been taken.
LEMMA SeparableNothing == \A a : SeparableIn(NoParsed, <<>>, a)
<1>1. Len(<<>>) = 0 /\ \A r : Taken(r, <<>>) = {}
    BY EmptySeq DEF Taken
<1>2. Cardinality({}) = 0
    BY FS_EmptySet
<1>3. \A r, a : ArrivesIn(<<>>, r, <<>>, a)
    BY <1>1, <1>2 DEF ArrivesIn
<1> QED BY <1>1, <1>3 DEF SeparableIn, NoParsed

\* README.md:59: every token has one reading and arrives where that sends it,
\* complete and in order, and no flag behind the exe is repld's own, for any
\* command line whatever.
THEOREM Separates == Spec => []ForwardsVerbatim
<1>1. Init => Separable
    BY SeparableNothing DEF Init, Separable
<1>2. TInv /\ TInv' /\ Separable /\ [Next]_vars => Separable'
    <2> SUFFICES ASSUME TInv, TInv', Separable, [Next]_vars PROVE Separable'
        OBVIOUS
    <2>1. CASE FileArg \/ Fresh \/ ForwardFlag \/ FileWord \/ ExeWord \/ ForwardWord
        BY <2>1, SeparableWord
    <2>2. CASE TakeFlag \/ Marker \/ SubWord
        BY <2>2, SeparableFlag, SeparableMarker, SeparableSub
    <2>3. CASE UNCHANGED <<p, role, argv>>
        BY <2>3 DEF Separable
    <2>4. CASE ParseEnds \/ BeginTarget \/ TargetWord \/ TargetFlag
        <3>1. UNCHANGED <<p, role, argv>>
            BY <2>4 DEF ParseEnds, Stops, BeginTarget, TargetWord, TargetFlag, Aim
        <3> QED BY <2>3, <3>1
    <2>5. CASE TargetEnds \/ DaemonWide \/ SendEval
        BY <2>3, <2>5, Sending
    <2>6. CASE NextCommand
        <3>1. p' = NoParsed /\ role' = <<>>
            BY <2>6 DEF NextCommand
        <3>2. SeparableIn(NoParsed, <<>>, argv')
            BY SeparableNothing
        <3> QED BY <3>1, <3>2 DEF Separable
    <2>7. CASE Ended \/ UNCHANGED vars
        BY <2>3, <2>7 DEF Ended, vars
    <2> QED BY <2>1, <2>2, <2>4, <2>5, <2>6, <2>7 DEF Next
<1>3. TInv /\ Separable => ForwardsVerbatim
    <2> SUFFICES ASSUME TInv, Separable PROVE ForwardsVerbatim
        OBVIOUS
    <2>1. Arrives(p.fwd, "fwd") /\ Arrives(p.fileArgs, "fileArg") /\ Arrives(p.subArgs, "subArg")
        BY ArrivesIs DEF Separable, SeparableIn
    <2>2. at \notin {"parse", "usage", "missing"} => Len(role) = Len(argv)
        BY DEF TInv, TypeOK, Scanning, Complete
    <2> QED BY <2>1, <2>2 DEF ForwardsVerbatim, Separable, SeparableIn
<1> QED BY <1>1, <1>2, <1>3, Invariance, PTL DEF Spec
-----------------------------------------------------------------------------
(* One session, one key *)

\* The key of a described session, however much of it a command line says.
KeyOf(w) == KeyFor(w.lang, w.label, AbsExe[w.exe])

\* x, if a flag up to b has said it.
Told(V, b, n, x) == IF Gives(argv, V, 1, b, n) THEN x ELSE None

\* The scan is in the own flags that reach to b.
InFlags(V, b) ==
    /\ p.exe = None /\ Plain /\ p.file = None /\ (i <= b => i \notin V)
    /\ p.lang = Told(V, i - 1, "lang", wish.lang)
    /\ p.session = Told(V, i - 1, "session", wish.label)

\* It has heard all that the description says.
Heard(V, m, x) ==
    /\ p.exe = IF x > m THEN wish.exe ELSE None
    /\ p.lang = Told(V, m, "lang", wish.lang) /\ p.session = Told(V, m, "session", wish.label)

\* An eval: behind the description the scan takes no subcommand any more.
EvalAt(V, m, x) ==
    /\ EvalReading(argv, V, m, x, wish)
    /\ at = "parse" => /\ i <= m + 1 => InFlags(V, m)
                       /\ i > m + 1 => Heard(V, m, x)
                       /\ i <= x + 1 => Plain /\ p.file = None
                       /\ i > x + 1 => p.file # None \/ ~Plain
    /\ at = "parsed" => p.sub = None /\ Heard(V, m, x)
    /\ at \in Evals => key = KeyOf(wish)
    /\ at \in {"parse", "parsed", "usage", "missing"} \cup Evals

\* The exe that parseTarget has found, if no word was taken for an id.
FoundExe(V, m, b) ==
    IF \E k \in (m + 1)..b : k \notin V /\ ~Attr[argv[k]].dash THEN wish.exe ELSE None

\* A command for a session.
CommandAt(V, m) ==
    /\ CommandReading(argv, V, m, wish) /\ made = KeyOf(wish)
    /\ at = "parse" => i <= m /\ InFlags(V, m - 1)
    /\ at = "parsed" => /\ p.sub = argv[m] /\ p.subArgs = Rest(argv, m + 1)
                        /\ p.lang = Told(V, m - 1, "lang", wish.lang)
                        /\ p.session = Told(V, m - 1, "session", wish.label)
    /\ at = "target" => /\ p.subArgs = Rest(argv, m + 1)
                        /\ i <= Len(p.subArgs) => m + i \notin V
                        /\ tg.lang = Told(V, m + i - 1, "lang", wish.lang)
                        /\ tg.session = Told(V, m + i - 1, "session", wish.label)
                        /\ tg.id = None => tg.exe = FoundExe(V, m, m + i - 1)
    /\ at = "targeted" => key = KeyOf(wish)
    /\ at \in {"parse", "parsed", "target", "byId", "targeted"}

Aimed ==
    wish # NoWish => \E V \in SUBSET (1..Len(argv)), m \in 0..Len(argv) :
                         (\E x \in 0..Len(argv) : EvalAt(V, m, x)) \/ CommandAt(V, m)

\* A description that says enough leads to the key of its session.
LEMMA EnoughIsKey ==
    ASSUME NEW w, NEW e \in BOOLEAN, NEW l \in BOOLEAN, NEW b \in BOOLEAN, Enough(w, e, l, b),
           e => w.exe # None,
           NEW exe, exe = IF e THEN w.exe ELSE None,
           NEW told, told = IF l THEN w.lang ELSE None,
           NEW label, label = IF b THEN w.label ELSE None
    PROVE  LET lang == Or(told, IF exe = None THEN None ELSE LangForExe[exe])
           IN  /\ KeyFor(lang, label, resolveExeStr(exe, lang)) = KeyOf(w)
               /\ lang # None \/ label # None
<1> DEFINE lang == Or(told, IF exe = None THEN None ELSE LangForExe[exe])
<1>1. CASE w.label # None
    BY <1>1 DEF Enough, KeyFor, KeyOf
<1>2. CASE w.label = None
    <2>1. /\ w.lang # None /\ (e \/ (w.lang \in Lang /\ w.exe = DefaultExe(w.lang)))
          /\ l \/ (e /\ LangForExe[w.exe] = w.lang)
        BY <1>2 DEF Enough
    <2>2. lang = w.lang
        BY <2>1 DEF Or
    <2>3. label = None
        BY <1>2
    <2>4. resolveExeStr(exe, w.lang) = AbsExe[w.exe]
        <3>1. CASE e
            BY <3>1 DEF resolveExeStr
        <3>2. CASE ~e
            <4>1. w.exe # None
                BY <2>1, <3>2 DEF DefaultExe, Lang, None
            <4> QED BY <2>1, <3>2, <4>1 DEF resolveExeStr
        <3> QED BY <3>1, <3>2
    <2> QED BY <1>2, <2>1, <2>2, <2>3, <2>4 DEF KeyOf
<1> QED BY <1>1, <1>2

\* What a longer part of the line says.
LEMMA GivesMore ==
    ASSUME NEW s, NEW V, NEW b \in Nat, NEW n
    PROVE  Gives(s, V, 1, b + 1, n) <=> Gives(s, V, 1, b, n) \/ (b + 1 \notin V /\ IsFlag(s, b + 1, {n}))
<1>1. \A k : k \in 1..(b + 1) <=> k \in 1..b \/ k = b + 1
    OBVIOUS
<1> QED BY <1>1 DEF Gives

LEMMA ToldMore ==
    ASSUME NEW V, NEW b \in Nat, NEW n, NEW x
    PROVE  Told(V, b + 1, n, x) = IF b + 1 \notin V /\ IsFlag(argv, b + 1, {n}) THEN x ELSE Told(V, b, n, x)
BY GivesMore DEF Told

LEMMA ToldHere ==
    ASSUME NEW V, NEW k \in Nat \ {0}, NEW n, NEW x
    PROVE  Told(V, k, n, x) = IF k \notin V /\ IsFlag(argv, k, {n}) THEN x ELSE Told(V, k - 1, n, x)
<1> DEFINE c == k - 1
<1>1. c \in Nat /\ c + 1 = k
    OBVIOUS
<1> HIDE DEF c
<1>2. Told(V, c + 1, n, x) = IF c + 1 \notin V /\ IsFlag(argv, c + 1, {n}) THEN x ELSE Told(V, c, n, x)
    BY <1>1, ToldMore
<1> QED BY <1>1, <1>2 DEF c

LEMMA ToldNothing ==
    ASSUME NEW V, NEW n, NEW x
    PROVE  Told(V, 0, n, x) = None
BY DEF Told, Gives

\* A flag that takes the next token is followed by its value, and any other by a
\* flag or a word.
LEMMA AfterFlag ==
    ASSUME NEW s, NEW V, NEW a \in Nat, NEW b \in Nat, NEW names, Splits(s, V, a, b, names),
           NEW k \in a..b, k \notin V
    PROVE  /\ TakesNext(s, k, names) => k < b /\ k + 1 \in V /\ (k + 2 <= b => k + 2 \notin V)
           /\ ~TakesNext(s, k, names) /\ k < b => k + 1 \notin V
<1>1. a <= b /\ (k = b => ~TakesNext(s, k, names))
    BY DEF Splits
<1>2. k < b => (k + 1 \in V <=> TakesNext(s, k, names))
    <2> HAVE k < b
    <2>1. k + 1 \in a..b /\ a < k + 1 /\ (k + 1) - 1 = k
        OBVIOUS
    <2>2. k + 1 \in V <=> a < k + 1 /\ (k + 1) - 1 \notin V /\ TakesNext(s, (k + 1) - 1, names)
        BY <2>1 DEF Splits
    <2> QED BY <2>1, <2>2
<1>3. k + 2 <= b /\ k + 1 \in V => k + 2 \notin V
    <2> HAVE k + 2 <= b /\ k + 1 \in V
    <2>1. k + 2 \in a..b /\ (k + 2) - 1 = k + 1
        OBVIOUS
    <2>2. k + 2 \in V => (k + 2) - 1 \notin V
        BY <2>1 DEF Splits
    <2> QED BY <2>1, <2>2
<1> QED BY <1>1, <1>2, <1>3

\* The steps of parseArgs.
Scan ==
    FileArg \/ Marker \/ TakeFlag \/ Fresh \/ ForwardFlag \/ FileWord \/ ExeWord \/ SubWord \/ ForwardWord

\* None of repld's own flags is an eval flag of a language.
LEMMA OwnIsNoMode == \A q : \A n \in OwnNames \cup {"fresh"} : ModeFor(q, n) = None
BY DEF OwnNames, ModeFor, EvalNames, PrintNames

\* A step among the own flags takes one of them, with its value.
LEMMA FlagStep ==
    ASSUME TInv, NEW V, NEW b \in 0..Len(argv), OwnFlags(argv, V, b, wish),
           at = "parse", i <= b, InFlags(V, b), Scan
    PROVE  /\ at' = "parse" /\ i' <= b + 1 /\ InFlags(V, b)'
           /\ UNCHANGED <<argv, tg, key, wish, made>>
<1>1. i \in 1..Len(argv) /\ More /\ Len(argv) \in Nat /\ p \in Parsed /\ T = argv[i] /\ b \in Nat /\ i \in 1..b
    <2>1. Len(argv) \in Nat
        BY LenProperties DEF TInv, TypeOK
    <2> QED BY <2>1 DEF TInv, TypeOK, More, T
<1>2. /\ p.exe = None /\ p.mode = None /\ p.fwd = <<>> /\ p.file = None /\ i \notin V
    BY DEF InFlags, Plain
<1>3. A.dash /\ A.name \in OwnNames \cup {"fresh"} /\ Says(argv, i, wish)
    BY <1>1, <1>2 DEF OwnFlags, IsFlag, A, T
<1>4. /\ TakesNext(argv, i, OwnNames) => i < b /\ i + 1 \in V /\ (i + 2 <= b => i + 2 \notin V)
      /\ ~TakesNext(argv, i, OwnNames) /\ i < b => i + 1 \notin V
    BY <1>1, <1>2, AfterFlag DEF OwnFlags
<1>5. ModeFor(p, A.name) = None
    BY <1>3, OwnIsNoMode
<1>6. TakeFlag \/ Fresh
    <2>1. ~FileArg /\ ~Marker /\ ~FileWord /\ ~ExeWord /\ ~SubWord /\ ~ForwardWord
        BY <1>2, <1>3 DEF FileArg, Marker, IsMarker, FileWord, ExeWord, SubWord, ForwardWord, Word
    <2>2. ~ForwardFlag
        BY <1>2, <1>3 DEF ForwardFlag, IsOwn
    <2> QED BY <2>1, <2>2 DEF Scan
<1>7. i - 1 \in Nat /\ (i - 1) + 1 = i
    BY <1>1
<1>8. CASE Fresh
    <2>1. A.name = "fresh" /\ p' = p /\ i' = i + 1 /\ at' = "parse" /\ UNCHANGED <<argv, tg, key, wish, made>>
        BY <1>8 DEF Fresh, Set, As, Stay, Flag, More
    <2>2. ~TakesNext(argv, i, OwnNames)
        BY <1>1, <2>1 DEF TakesNext, IsFlag, OwnNames, A
    <2>3. ASSUME NEW n \in {"lang", "session"}, NEW v PROVE Told(V, i, n, v) = Told(V, i - 1, n, v)
        <3>1. ~IsFlag(argv, i, {n})
            BY <1>1, <2>1 DEF IsFlag, A
        <3> QED BY <1>1, <1>7, <3>1, ToldHere
    <2>4. i' - 1 = i /\ i' <= b + 1 /\ (i' <= b => i' \notin V)
        BY <1>1, <1>4, <2>1, <2>2
    <2>5. InFlags(V, b)'
        BY <1>2, <2>1, <2>3, <2>4 DEF InFlags, Told, Plain
    <2> QED BY <2>1, <2>4, <2>5
<1>9. CASE TakeFlag
    <2>1. A.name \in OwnNames
        BY <1>5, <1>9 DEF TakeFlag, IsOwn
    <2>2. TakesNext(argv, i, OwnNames) <=> ~A.eq
        BY <1>1, <1>3, <2>1 DEF TakesNext, IsFlag, A
    <2>3. HasValue(argv, i) /\ Width(argv, i) = IF A.eq THEN 1 ELSE 2
        BY <1>1, <1>4, <2>2 DEF HasValue, Width, A
    <2>4. /\ i' = i + Width(argv, i) /\ at' = "parse" /\ UNCHANGED <<argv, tg, key, wish, made>>
          /\ p' = CASE A.name = "lang" -> [p EXCEPT !.lang = ValueOf(argv, i)]
                    [] A.name = "session" -> [p EXCEPT !.session = ValueOf(argv, i)]
                    [] OTHER -> p
        BY <1>5, <1>9, <2>3 DEF TakeFlag, Set, Stay, Flag, More
    <2>5. /\ A.name = "lang" => ValueOf(argv, i) = wish.lang
          /\ A.name = "session" => ValueOf(argv, i) = wish.label
        BY <1>1, <1>3 DEF Says, A
    <2>6. /\ p'.exe = None /\ p'.mode = None /\ p'.fwd = <<>> /\ p'.file = None
          /\ p'.lang = IF A.name = "lang" THEN wish.lang ELSE p.lang
          /\ p'.session = IF A.name = "session" THEN wish.label ELSE p.session
        BY <1>1, <1>2, <2>4, <2>5 DEF Parsed
    <2>7. ASSUME NEW n, NEW v
          PROVE  Told(V, i, n, v) = IF A.name = n THEN v ELSE Told(V, i - 1, n, v)
        <3>1. IsFlag(argv, i, {n}) <=> A.name = n
            BY <1>1, <1>3 DEF IsFlag, A
        <3> QED BY <1>1, <1>2, <3>1, ToldHere
    <2>8. ASSUME ~A.eq, NEW n, NEW v
          PROVE  Told(V, i + 1, n, v) = Told(V, i, n, v)
        <3>1. i + 1 \in V /\ i \in Nat
            BY <1>1, <1>4, <2>2, <2>8
        <3> QED BY <3>1, ToldMore
    <2>9. \A n, v : Told(V, i' - 1, n, v) = IF A.name = n THEN v ELSE Told(V, i - 1, n, v)
        <3>1. CASE A.eq
            BY <1>1, <2>3, <2>4, <2>7, <3>1
        <3>2. CASE ~A.eq
            <4>1. i' - 1 = i + 1
                BY <1>1, <2>3, <2>4, <3>2
            <4> QED BY <2>7, <2>8, <3>2, <4>1
        <3> QED BY <3>1, <3>2
    <2>10. i' <= b + 1 /\ (i' <= b => i' \notin V)
        BY <1>1, <1>4, <2>2, <2>3, <2>4
    <2>11. p'.lang = Told(V, i' - 1, "lang", wish.lang) /\ p'.session = Told(V, i' - 1, "session", wish.label)
        BY <2>6, <2>9 DEF InFlags
    <2>12. InFlags(V, b)'
        BY <2>4, <2>6, <2>10, <2>11 DEF InFlags, Told, Plain
    <2> QED BY <2>4, <2>10, <2>12
<1> QED BY <1>6, <1>8, <1>9

\* A step behind the description of an eval: nothing there names a session, an
\* interpreter or a subcommand.
LEMMA TailStep ==
    ASSUME TInv, NEW V, NEW m \in 0..Len(argv), NEW x \in 0..Len(argv), EvalReading(argv, V, m, x, wish),
           More, x < i, p.exe = IF x > m THEN wish.exe ELSE None,
           i = x + 1 => Plain /\ p.file = None, i > x + 1 => p.file # None \/ ~Plain, Scan
    PROVE  /\ p'.exe = p.exe /\ p'.lang = p.lang /\ p'.session = p.session
           /\ UNCHANGED <<argv, tg, key, wish, made>>
           /\ \/ at' = "parse" /\ i' > i /\ (p'.file # None \/ ~Plain')
              \/ at' = "parsed" /\ p'.sub = None
              \/ at' \in {"usage", "missing"}
<1>1. /\ i \in 1..Len(argv) /\ Len(argv) \in Nat /\ p \in Parsed /\ p.sub = None
      /\ at = "parse" /\ T = argv[i]
    BY AtToken DEF T
<1>2. m \in Nat /\ x \in Nat /\ x \in {m, m + 1}
    BY <1>1 DEF EvalReading
<1>3. /\ x > m => wish.exe # None
      /\ x > m /\ i = x + 1 => T # None /\ (A.dash \/ A.sub = None)
      /\ x = m /\ i = x + 1 => A.dash /\ ~IsFlag(argv, i, OwnNames \cup {"fresh"})
      /\ x = m => ~IsFlag(argv, i, {"lang", "session"})
    <2>1. i = x + 1 => x < Len(argv) /\ argv[x + 1] = T /\ Attr[argv[x + 1]] = A
        BY <1>1, <1>2 DEF A
    <2>2. x = m => i \in (x + 1)..Len(argv) /\ x < Len(argv)
        BY <1>1, <1>2
    <2> QED BY <1>1, <2>1, <2>2 DEF EvalReading, IsWord
<1>4. Plain /\ p.file = None <=> i = x + 1
    BY <1>1, <1>2
<1>5. CASE FileArg
    <2>1. p' = [p EXCEPT !.fileArgs = Append(@, T)] /\ p.file # None /\ i' = i + 1 /\ at' = "parse"
          /\ UNCHANGED <<argv, tg, key, wish, made>>
        BY <1>1, <1>5 DEF FileArg, Set, As, Stay
    <2> QED BY <1>1, <2>1 DEF Parsed
<1>6. CASE Marker
    <2>1. CASE at' = "parsed"
        <3>1. p' = [p EXCEPT !.file = argv[i + 1], !.fileArgs = Rest(argv, i + 2)]
              /\ UNCHANGED <<argv, tg, key, wish, made>>
            BY <1>6, <2>1 DEF Marker, Set, Stops
        <3> QED BY <1>1, <2>1, <3>1 DEF Parsed
    <2>2. CASE at' # "parsed"
        BY <1>6, <2>2 DEF Marker, Stops
    <2> QED BY <2>1, <2>2
<1>7. CASE TakeFlag
    <2> DEFINE mode == ModeFor(p, A.name)
    <2>1. CASE ~HasValue(argv, i)
        BY <1>7, <2>1 DEF TakeFlag, Stops
    <2>2. CASE HasValue(argv, i)
        <3>1. /\ i' = i + Width(argv, i) /\ at' = "parse" /\ UNCHANGED <<argv, tg, key, wish, made>>
              /\ p' = CASE mode # None -> [p EXCEPT !.mode = mode, !.code = ValueOf(argv, i)]
                        [] A.name = "lang" /\ mode = None -> [p EXCEPT !.lang = ValueOf(argv, i)]
                        [] A.name = "session" /\ mode = None -> [p EXCEPT !.session = ValueOf(argv, i)]
                        [] OTHER -> p
              /\ A.dash /\ (mode # None \/ (A.name \in OwnNames /\ p.exe = None))
            BY <1>1, <1>7, <2>2 DEF TakeFlag, Set, Stay, Flag, IsOwn
        <3>2. i' > i
            BY <1>1, <3>1 DEF Width
        <3> HIDE DEF mode
        <3>3. CASE mode # None
            <4>1. p' = [p EXCEPT !.mode = mode, !.code = ValueOf(argv, i)]
                BY <3>1, <3>3
            <4>2. p'.mode # None /\ p'.exe = p.exe /\ p'.lang = p.lang /\ p'.session = p.session
                BY <1>1, <3>3, <4>1 DEF Parsed
            <4> QED BY <3>1, <3>2, <4>2 DEF Plain
        <3>4. CASE mode = None
            <4>1. A.name \in OwnNames /\ x = m
                BY <1>2, <1>3, <3>1, <3>4
            <4>2. A.name \notin {"lang", "session"} /\ i # x + 1
                BY <1>1, <1>3, <3>1, <4>1 DEF IsFlag, A
            <4>3. p' = p
                BY <3>1, <3>4, <4>2
            <4> QED BY <1>4, <3>1, <3>2, <4>2, <4>3 DEF Plain
        <3> QED BY <3>3, <3>4
    <2> QED BY <2>1, <2>2
<1>8. CASE Fresh
    <2>1. A.dash /\ A.name = "fresh" /\ p.exe = None /\ p' = p /\ i' = i + 1 /\ at' = "parse"
          /\ UNCHANGED <<argv, tg, key, wish, made>>
        BY <1>1, <1>8 DEF Fresh, Flag, Set, As, Stay
    <2>2. x = m /\ i # x + 1
        BY <1>1, <1>2, <1>3, <2>1 DEF IsFlag, A
    <2> QED BY <1>1, <1>4, <2>1, <2>2 DEF Plain
<1>9. CASE ForwardFlag \/ ForwardWord
    <2>1. p' = [p EXCEPT !.fwd = Append(@, T)] /\ i' = i + 1 /\ at' = "parse"
          /\ UNCHANGED <<argv, tg, key, wish, made>>
        BY <1>1, <1>9 DEF ForwardFlag, ForwardWord, Forwards, Set, As, Stay
    <2>2. p'.fwd # <<>> /\ p'.exe = p.exe /\ p'.lang = p.lang /\ p'.session = p.session
        <3>1. Append(p.fwd, T) # <<>>
            <4>1. p.fwd \in Seq(Token) /\ T \in Token
                BY <1>1, AtToken DEF Parsed
            <4> QED BY <4>1, AppendProperties
        <3> QED BY <1>1, <2>1, <3>1 DEF Parsed
    <2> QED BY <1>1, <2>1, <2>2 DEF Plain
<1>10. CASE FileWord
    <2>1. p' = [p EXCEPT !.file = T] /\ i' = i + 1 /\ at' = "parse" /\ p.exe # None /\ p.file = None
          /\ UNCHANGED <<argv, tg, key, wish, made>>
        BY <1>1, <1>10 DEF FileWord, Word, IsFile, Set, OrDropped, As, Stay
    <2>2. /\ p'.file = T /\ p'.mode = p.mode /\ p'.fwd = p.fwd
          /\ p'.exe = p.exe /\ p'.lang = p.lang /\ p'.session = p.session
        BY <1>1, <2>1 DEF Parsed
    <2>3. i = x + 1 => T # None
        BY <1>2, <1>3, <2>1
    <2> QED BY <1>1, <1>4, <2>1, <2>2, <2>3 DEF Plain
<1>11. CASE ExeWord \/ SubWord
    <2>1. ~A.dash /\ Plain /\ p.file = None
        BY <1>11 DEF ExeWord, SubWord, Word, IsExe, IsSub
    <2>2. x > m
        BY <1>2, <1>3, <1>4, <2>1
    <2>3. p.exe # None /\ A.sub = None
        BY <1>3, <1>4, <2>1, <2>2
    <2> QED BY <1>11, <2>3 DEF ExeWord, SubWord, IsExe, IsSub
<1> QED BY <1>5, <1>6, <1>7, <1>8, <1>9, <1>10, <1>11 DEF Scan

\* The step that takes the exe of an eval.
LEMMA ExeStep ==
    ASSUME TInv, NEW V, NEW m \in 0..Len(argv), NEW x \in 0..Len(argv), EvalReading(argv, V, m, x, wish),
           at = "parse", x = m + 1, i = x, InFlags(V, m), Scan
    PROVE  /\ at' = "parse" /\ i' = x + 1 /\ p' = [p EXCEPT !.exe = wish.exe]
           /\ UNCHANGED <<argv, tg, key, wish, made>>
<1>1. More /\ Len(argv) \in Nat /\ x \in Nat /\ T = argv[x]
    BY LenProperties DEF TInv, TypeOK, EvalReading, More, T
<1>2. ~A.dash /\ A.sub = None /\ T # None /\ T = wish.exe
    BY <1>1 DEF EvalReading, IsWord, A
<1>3. Plain /\ p.exe = None /\ p.file = None
    BY DEF InFlags
<1>4. ExeWord
    <2>1. ~FileArg /\ ~TakeFlag /\ ~Fresh /\ ~ForwardFlag
        BY <1>2, <1>3 DEF FileArg, TakeFlag, Fresh, ForwardFlag, Flag
    <2>2. ~Marker /\ ~FileWord /\ ~SubWord /\ ~ForwardWord
        BY <1>2, <1>3 DEF Marker, IsMarker, FileWord, IsFile, SubWord, IsSub, ForwardWord, IsExe
    <2> QED BY <2>1, <2>2 DEF Scan
<1> QED BY <1>1, <1>2, <1>4 DEF ExeWord, Set, OrDropped, As, Stay

\* A step of parseArgs on the command line of an eval.
LEMMA EvalScan ==
    ASSUME TInv, TInv', NEW V, NEW m \in 0..Len(argv), NEW x \in 0..Len(argv), EvalAt(V, m, x), More, Scan
    PROVE  EvalAt(V, m, x)' /\ wish' = wish /\ argv' = argv
<1>1. /\ i \in 1..Len(argv) /\ Len(argv) \in Nat /\ p \in Parsed /\ at = "parse"
    BY AtToken
<1>2. m \in Nat /\ x \in Nat /\ x \in {m, m + 1} /\ EvalReading(argv, V, m, x, wish)
    BY <1>1 DEF EvalAt, EvalReading
<1>3. CASE i <= m
    <2>1. InFlags(V, m) /\ OwnFlags(argv, V, m, wish)
        BY <1>1, <1>2, <1>3 DEF EvalAt, EvalReading
    <2>2. at' = "parse" /\ i' <= m + 1 /\ InFlags(V, m)' /\ argv' = argv /\ wish' = wish
        BY <1>1, <1>3, <2>1, FlagStep
    <2>3. i' \in Nat
        BY LenProperties DEF TInv, TypeOK
    <2>4. ~(i' > m + 1) /\ ~(i' > x + 1)
        BY <1>1, <1>2, <2>2, <2>3
    <2>5. Plain' /\ p'.file = None
        BY <2>2 DEF InFlags
    <2> QED BY <1>2, <2>2, <2>4, <2>5 DEF EvalAt, Evals
<1>4. CASE i = m + 1 /\ x = m + 1
    <2>1. InFlags(V, m)
        BY <1>1, <1>2, <1>4 DEF EvalAt
    <2>2. /\ at' = "parse" /\ i' = x + 1 /\ p' = [p EXCEPT !.exe = wish.exe]
          /\ argv' = argv /\ wish' = wish
        BY <1>1, <1>2, <1>4, <2>1, ExeStep
    <2>3. /\ p'.exe = wish.exe /\ p'.lang = p.lang /\ p'.session = p.session /\ p'.mode = p.mode
          /\ p'.fwd = p.fwd /\ p'.file = p.file
        BY <1>1, <2>2 DEF Parsed
    <2>4. i - 1 = m /\ x > m /\ ~(i' <= m + 1) /\ ~(i' > x + 1)
        BY <1>2, <1>4, <2>2
    <2>5. Heard(V, m, x)'
        BY <2>1, <2>2, <2>3, <2>4 DEF InFlags, Heard, Told
    <2>6. Plain' /\ p'.file = None
        BY <2>1, <2>3 DEF InFlags, Plain
    <2> QED BY <1>2, <2>2, <2>4, <2>5, <2>6 DEF EvalAt, Evals
<1>5. CASE x < i
    <2>1. Heard(V, m, x)
        <3>1. CASE i = m + 1
            <4>1. x = m /\ i - 1 = m /\ InFlags(V, m)
                BY <1>1, <1>2, <1>5, <3>1 DEF EvalAt
            <4> QED BY <1>2, <4>1 DEF InFlags, Heard
        <3>2. CASE i > m + 1
            BY <1>1, <3>2 DEF EvalAt
        <3> QED BY <1>1, <1>2, <1>5, <3>1, <3>2
    <2>2. /\ i = x + 1 => Plain /\ p.file = None
          /\ i > x + 1 => p.file # None \/ ~Plain
        BY <1>1, <1>2 DEF EvalAt
    <2>3. /\ p'.exe = p.exe /\ p'.lang = p.lang /\ p'.session = p.session
          /\ argv' = argv /\ wish' = wish
          /\ \/ at' = "parse" /\ i' > i /\ (p'.file # None \/ ~Plain')
             \/ at' = "parsed" /\ p'.sub = None
             \/ at' \in {"usage", "missing"}
        BY <1>2, <1>5, <2>1, <2>2, TailStep DEF Heard
    <2>4. Heard(V, m, x)'
        BY <2>1, <2>3 DEF Heard, Told
    <2>5. i' > i => i' > x + 1 /\ i' > m + 1 /\ ~(i' <= m + 1) /\ ~(i' <= x + 1)
        <3>1. i' \in Nat
            BY LenProperties DEF TInv, TypeOK
        <3> QED BY <1>1, <1>2, <1>5, <3>1
    <2> QED BY <1>2, <2>3, <2>4, <2>5 DEF EvalAt, Evals
<1> QED BY <1>1, <1>2, <1>3, <1>4, <1>5

\* The end of the scan, and what main sends for an eval.
LEMMA EvalSent ==
    ASSUME TInv, NEW V, NEW m \in 0..Len(argv), NEW x \in 0..Len(argv), EvalAt(V, m, x),
           ParseEnds \/ BeginTarget \/ TargetWord \/ TargetFlag \/ TargetEnds \/ DaemonWide \/ SendEval
    PROVE  EvalAt(V, m, x)' /\ wish' = wish /\ argv' = argv
<1>1. Len(argv) \in Nat /\ i \in Nat /\ p \in Parsed
    BY LenProperties DEF TInv, TypeOK
<1>2. m \in Nat /\ x \in Nat /\ x \in {m, m + 1} /\ EvalReading(argv, V, m, x, wish)
    BY <1>1 DEF EvalAt, EvalReading
<1>3. CASE ParseEnds
    <2>1. at = "parse" /\ i > Len(argv) /\ at' = "parsed" /\ p' = p /\ argv' = argv /\ wish' = wish
        BY <1>3 DEF ParseEnds, Stops
    <2>2. p.sub = None
        BY <2>1 DEF TInv, Scanning
    <2>3. Heard(V, m, x)
        <3>1. CASE i = m + 1
            <4>1. x = m /\ i - 1 = m /\ InFlags(V, m)
                BY <1>1, <1>2, <2>1, <3>1 DEF EvalAt
            <4> QED BY <1>2, <4>1 DEF InFlags, Heard
        <3>2. CASE i > m + 1
            BY <1>1, <2>1, <3>2 DEF EvalAt
        <3> QED BY <1>1, <1>2, <2>1, <3>1, <3>2
    <2>4. Heard(V, m, x)'
        BY <2>1, <2>3 DEF Heard, Told
    <2> QED BY <1>2, <2>1, <2>2, <2>4 DEF EvalAt, Evals
<1>4. CASE SendEval
    <2>1. /\ at = "parsed" /\ argv' = argv /\ wish' = wish /\ at' \in Evals \cup {"usage"}
          /\ at' \in Evals => LET l == resolveLang(p) IN key' = KeyFor(l, p.session, resolveExeStr(p.exe, l))
        BY <1>4 DEF SendEval, Sends, Stops, Evals
    <2>2. Heard(V, m, x)
        BY <2>1 DEF EvalAt
    <2> DEFINE e == x > m
               l == Gives(argv, V, 1, m, "lang")
               b == Gives(argv, V, 1, m, "session")
    <2>3. e \in BOOLEAN /\ l \in BOOLEAN /\ b \in BOOLEAN
        BY <1>2 DEF Gives
    <2>4. Enough(wish, e, l, b) /\ (e => wish.exe # None)
        BY <1>2 DEF EvalReading, IsWord
    <2>5. /\ p.exe = (IF e THEN wish.exe ELSE None) /\ p.lang = (IF l THEN wish.lang ELSE None)
          /\ p.session = (IF b THEN wish.label ELSE None)
        BY <2>2 DEF Heard, Told
    <2> HIDE DEF e, l, b
    <2>6. LET lang == Or(p.lang, IF p.exe = None THEN None ELSE LangForExe[p.exe])
          IN  KeyFor(lang, p.session, resolveExeStr(p.exe, lang)) = KeyOf(wish)
        BY <2>3, <2>4, <2>5, EnoughIsKey
    <2>7. at' \in Evals => key' = KeyOf(wish)
        BY <2>1, <2>6 DEF resolveLang
    <2>8. KeyOf(wish)' = KeyOf(wish)
        BY <2>1 DEF KeyOf
    <2> QED BY <1>2, <2>1, <2>7, <2>8 DEF EvalAt, Evals
<1>5. CASE ~(ParseEnds \/ SendEval)
    <2>1. p.sub = None \/ at # "parsed"
        BY DEF EvalAt
    <2>2. at # "target"
        BY DEF EvalAt, Evals
    <2> QED BY <1>5, <2>1, <2>2 DEF BeginTarget, TargetWord, TargetFlag, InTarget, TargetEnds, DaemonWide
<1> QED BY <1>3, <1>4, <1>5

\* A step of parseArgs on the command line of a command.
LEMMA CommandScan ==
    ASSUME TInv, TInv', NEW V, NEW m \in 0..Len(argv), CommandAt(V, m), More, Scan
    PROVE  CommandAt(V, m)' /\ wish' = wish /\ argv' = argv
<1>1. /\ i \in 1..Len(argv) /\ Len(argv) \in Nat /\ p \in Parsed /\ at = "parse" /\ T = argv[i]
    BY AtToken DEF T
<1>2. /\ m \in 1..Len(argv) /\ CommandReading(argv, V, m, wish) /\ made = KeyOf(wish)
      /\ i <= m /\ InFlags(V, m - 1) /\ OwnFlags(argv, V, m - 1, wish)
    BY <1>1 DEF CommandAt, CommandReading
<1>3. CASE i <= m - 1
    <2> DEFINE b == m - 1
    <2>1. b \in 0..Len(argv) /\ i <= b /\ b + 1 = m
        BY <1>1, <1>2, <1>3
    <2>2. InFlags(V, b) /\ OwnFlags(argv, V, b, wish)
        BY <1>2
    <2> HIDE DEF b
    <2>3. /\ at' = "parse" /\ i' <= m /\ InFlags(V, b)' /\ argv' = argv /\ wish' = wish /\ made' = made
        BY <1>1, <2>1, <2>2, FlagStep
    <2>4. InFlags(V, m - 1)' /\ KeyOf(wish)' = KeyOf(wish)
        BY <2>3 DEF b, InFlags, KeyOf
    <2> QED BY <1>2, <2>3, <2>4 DEF CommandAt
<1>4. CASE i = m
    <2>1. ~A.dash /\ T # None /\ A.sub # None
        BY <1>1, <1>2, <1>4 DEF CommandReading, IsWord, A, None
    <2>2. Plain /\ p.exe = None /\ p.file = None
        BY <1>2 DEF InFlags
    <2>3. ~FileArg /\ ~TakeFlag /\ ~Fresh /\ ~ForwardFlag
        BY <2>1, <2>2 DEF FileArg, TakeFlag, Fresh, ForwardFlag, Flag
    <2>4. ~Marker /\ ~FileWord /\ ~ExeWord /\ ~ForwardWord
        BY <2>1, <2>2 DEF Marker, IsMarker, FileWord, IsFile, ExeWord, IsExe, ForwardWord, IsSub
    <2>5. SubWord
        BY <2>3, <2>4 DEF Scan
    <2>6. /\ at' = "parsed" /\ p' = [p EXCEPT !.sub = T, !.subArgs = Rest(argv, i + 1)]
          /\ argv' = argv /\ wish' = wish /\ made' = made
        BY <2>5 DEF SubWord, Set
    <2>7. /\ p'.sub = argv'[m] /\ p'.subArgs = Rest(argv, m + 1)' /\ p'.lang = p.lang /\ p'.session = p.session
        BY <1>1, <1>4, <2>6 DEF Parsed, Rest
    <2>8. /\ p'.lang = Told(V, m - 1, "lang", wish.lang)' /\ p'.session = Told(V, m - 1, "session", wish.label)'
          /\ KeyOf(wish)' = KeyOf(wish)
        BY <1>2, <1>4, <2>6, <2>7 DEF InFlags, Told, KeyOf
    <2> QED BY <1>2, <2>6, <2>7, <2>8 DEF CommandAt
<1> QED BY <1>1, <1>2, <1>3, <1>4

\* The word at b is the exe, a value or a flag is not.
LEMMA FoundHere ==
    ASSUME NEW V, NEW m \in Nat, NEW k \in Nat, k > m
    PROVE  FoundExe(V, m, k) = IF k \notin V /\ ~Attr[argv[k]].dash THEN wish.exe ELSE FoundExe(V, m, k - 1)
<1>1. \A j : j \in (m + 1)..k <=> j \in (m + 1)..(k - 1) \/ j = k
    OBVIOUS
<1> QED BY <1>1 DEF FoundExe

\* What parseTarget sees of the command line, and what follows it.
LEMMA AtSubArg ==
    ASSUME TInv, NEW V, NEW m \in 0..Len(argv), CommandAt(V, m), at = "target"
    PROVE  LET k == m + i
           IN  /\ CommandReading(argv, V, m, wish) /\ m \in 1..Len(argv) /\ Len(argv) \in Nat
               /\ Len(p.subArgs) = Len(argv) - m /\ i \in 1..(Len(argv) - m + 1)
               /\ \A j \in 1..(Len(argv) - m) : p.subArgs[j] = argv[m + j]
               /\ k <= Len(argv) => k \in (m + 1)..Len(argv) /\ k \notin V /\ S = argv[k]
<1>1. /\ CommandReading(argv, V, m, wish) /\ p.subArgs = Rest(argv, m + 1)
      /\ argv \in Seq(Token) /\ Len(argv) \in Nat /\ (i <= Len(p.subArgs) => m + i \notin V)
    BY LenProperties DEF TInv, TypeOK, CommandAt
<1>2. m \in 1..Len(argv) /\ m + 1 \in 1..(Len(argv) + 1)
    BY <1>1 DEF CommandReading
<1>3. /\ Len(p.subArgs) = Len(argv) - (m + 1) + 1
      /\ \A j \in 1..(Len(argv) - (m + 1) + 1) : p.subArgs[j] = argv[m + 1 + j - 1]
    BY <1>1, <1>2, RestIs
<1>4. Len(p.subArgs) = Len(argv) - m /\ \A j \in 1..(Len(argv) - m) : p.subArgs[j] = argv[m + j]
    <2>1. \A j \in 1..(Len(argv) - m) : m + 1 + j - 1 = m + j /\ j \in 1..(Len(argv) - (m + 1) + 1)
        BY <1>1, <1>2
    <2> QED BY <1>1, <1>2, <1>3, <2>1
<1>5. i \in 1..(Len(argv) - m + 1)
    BY <1>4, AtTarget
<1>6. m + i <= Len(argv) => /\ m + i \in (m + 1)..Len(argv) /\ m + i \notin V /\ p.subArgs[i] = argv[m + i]
    <2> HAVE m + i <= Len(argv)
    <2>1. i \in 1..(Len(argv) - m) /\ i <= Len(p.subArgs) /\ m + i \in (m + 1)..Len(argv)
        BY <1>1, <1>2, <1>4, <1>5
    <2> QED BY <1>1, <1>4, <2>1
<1> QED BY <1>1, <1>2, <1>4, <1>5, <1>6 DEF S

LEMMA CommandBegins ==
    ASSUME TInv, TInv', NEW V, NEW m \in 0..Len(argv), CommandAt(V, m), BeginTarget
    PROVE  CommandAt(V, m)' /\ wish' = wish /\ argv' = argv
<1>1. /\ at = "parsed" /\ at' = "target" /\ i' = 1 /\ tg' = [NoTarget EXCEPT !.lang = p.lang, !.session = p.session]
      /\ UNCHANGED <<argv, p, wish, made>>
    BY DEF BeginTarget
<1>2. /\ CommandReading(argv, V, m, wish) /\ p.subArgs = Rest(argv, m + 1) /\ made = KeyOf(wish)
      /\ p.lang = Told(V, m - 1, "lang", wish.lang) /\ p.session = Told(V, m - 1, "session", wish.label)
      /\ argv \in Seq(Token) /\ Len(argv) \in Nat /\ m \in 1..Len(argv)
    BY <1>1, LenProperties DEF TInv, TypeOK, CommandAt, CommandReading
<1>3. tg'.lang = p.lang /\ tg'.session = p.session /\ tg'.exe = None
    BY <1>1 DEF NoTarget
<1>4. ASSUME NEW n, NEW v PROVE Told(V, m + i' - 1, n, v) = Told(V, m - 1, n, v)
    <2>1. m + i' - 1 = m /\ m \in Nat \ {0} /\ ~IsFlag(argv, m, {n})
        BY <1>1, <1>2 DEF CommandReading, IsWord, IsFlag
    <2> QED BY <2>1, ToldHere
<1>5. FoundExe(V, m, m + i' - 1) = None
    <2>1. (m + 1)..(m + i' - 1) = {}
        BY <1>1, <1>2
    <2> QED BY <2>1 DEF FoundExe
<1>6. i' <= Len(p.subArgs) => m + i' \notin V
    <2> HAVE i' <= Len(p.subArgs)
    <2>1. Len(p.subArgs) = Len(argv) - (m + 1) + 1
        <3>1. m + 1 \in 1..(Len(argv) + 1)
            BY <1>2
        <3> QED BY <1>2, <3>1, RestIs
    <2>2. m + 1 \in (m + 1)..Len(argv)
        BY <1>1, <1>2, <2>1
    <2>3. Splits(argv, V, m + 1, Len(argv), {"session", "lang", "trace"})
        BY <1>2 DEF CommandReading
    <2>4. m + 1 \in V => m + 1 < m + 1
        BY <2>2, <2>3 DEF Splits
    <2> QED BY <1>1, <1>2, <2>4
<1>7. tg'.lang = Told(V, m + i' - 1, "lang", wish.lang) /\ tg'.session = Told(V, m + i' - 1, "session", wish.label)
    BY <1>2, <1>3, <1>4
<1>8. (KeyOf(wish))' = KeyOf(wish) /\ tg'.exe = FoundExe(V, m, m + i' - 1)
    BY <1>1, <1>3, <1>5 DEF KeyOf
<1> QED BY <1>1, <1>2, <1>6, <1>7, <1>8 DEF CommandAt, Told, FoundExe, Rest

\* A step of parseTarget: the invariant is that of the position behind it.
LEMMA AimedOn ==
    ASSUME TInv, NEW V, NEW m \in 0..Len(argv), CommandAt(V, m), InTarget,
           NEW t, NEW n \in {1, 2}, Aim(t, n), m + i + n <= Len(argv) => m + i + n \notin V,
           t.lang = Told(V, m + i + n - 1, "lang", wish.lang),
           t.session = Told(V, m + i + n - 1, "session", wish.label),
           t.id = None => t.exe = FoundExe(V, m, m + i + n - 1)
    PROVE  CommandAt(V, m)' /\ wish' = wish /\ argv' = argv
<1>1. /\ at = "target" /\ tg' = t /\ i' = i + n /\ UNCHANGED <<argv, p, at, key, wish, made>>
    BY DEF InTarget, Aim
<1>2. /\ m \in 1..Len(argv) /\ Len(argv) \in Nat /\ Len(p.subArgs) = Len(argv) - m
      /\ i \in 1..(Len(argv) - m + 1)
    BY <1>1, AtSubArg
<1>3. i' <= Len(p.subArgs) => m + i' \notin V
    <2> HAVE i' <= Len(p.subArgs)
    <2>1. m + i + n <= Len(argv) /\ m + i' = m + i + n
        BY <1>1, <1>2
    <2> QED BY <2>1
<1>4. m + i' - 1 = m + i + n - 1
    BY <1>1, <1>2
<1>5. /\ tg'.lang = Told(V, m + i' - 1, "lang", wish.lang)
      /\ tg'.session = Told(V, m + i' - 1, "session", wish.label)
      /\ tg'.id = None => tg'.exe = FoundExe(V, m, m + i' - 1)
    BY <1>1, <1>4
<1>6. CommandReading(argv, V, m, wish) /\ made = KeyOf(wish) /\ p.subArgs = Rest(argv, m + 1)
    BY <1>1 DEF CommandAt
<1>7. (KeyOf(wish))' = KeyOf(wish)
    BY <1>1 DEF KeyOf
<1> QED BY <1>1, <1>3, <1>5, <1>6, <1>7 DEF CommandAt, Told, FoundExe, Rest

LEMMA CommandWord ==
    ASSUME TInv, NEW V, NEW m \in 0..Len(argv), CommandAt(V, m), TargetWord
    PROVE  CommandAt(V, m)' /\ wish' = wish /\ argv' = argv
<1> DEFINE k == m + i
<1>1. at = "target" /\ InTarget /\ i <= Len(p.subArgs) /\ ~Attr[S].dash /\ tg \in Target
    BY DEF TargetWord, InTarget, TInv
<1>2. /\ CommandReading(argv, V, m, wish) /\ m \in 1..Len(argv) /\ Len(argv) \in Nat
      /\ i \in 1..(Len(argv) - m) /\ k \in (m + 1)..Len(argv) /\ k \notin V /\ S = argv[k]
    <2>1. Len(p.subArgs) = Len(argv) - m /\ Len(argv) \in Nat /\ m \in 1..Len(argv)
          /\ i \in 1..(Len(argv) - m + 1)
        BY <1>1, AtSubArg
    <2>2. k <= Len(argv)
        BY <1>1, <2>1
    <2> QED BY <1>1, <2>1, <2>2, AtSubArg
<1>3. k \in Nat \ {0} /\ m \in Nat /\ k > m /\ k - 1 = m + i - 1 /\ m + i + 1 - 1 = k
      /\ m + 1 \in Nat /\ Len(argv) \in Nat
    BY <1>2
<1> HIDE DEF k
<1>4. S = wish.exe /\ S # None
    BY <1>1, <1>2 DEF CommandReading
<1>5. k + 1 <= Len(argv) => k + 1 \notin V
    <2>1. ~TakesNext(argv, k, {"session", "lang", "trace"})
        BY <1>1, <1>2 DEF TakesNext, IsFlag
    <2>2. Splits(argv, V, m + 1, Len(argv), {"session", "lang", "trace"})
        BY <1>2 DEF CommandReading
    <2>3. k < Len(argv) => k + 1 \notin V
        BY <1>2, <1>3, <2>1, <2>2, AfterFlag
    <2> QED BY <1>2, <1>3, <2>3
<1>6. ASSUME NEW n, NEW v PROVE Told(V, k, n, v) = Told(V, k - 1, n, v)
    <2>1. ~IsFlag(argv, k, {n})
        BY <1>1, <1>2 DEF IsFlag
    <2> QED BY <1>3, <2>1, ToldHere
<1>7. FoundExe(V, m, k) = wish.exe /\ FoundExe(V, m, k - 1) \in {None, wish.exe}
    <2>1. FoundExe(V, m, k) = wish.exe
        BY <1>1, <1>2, <1>3, FoundHere
    <2> QED BY <2>1 DEF FoundExe
<1>8. /\ tg.lang = Told(V, k - 1, "lang", wish.lang) /\ tg.session = Told(V, k - 1, "session", wish.label)
      /\ tg.id = None => tg.exe = FoundExe(V, m, k - 1)
    BY <1>1, <1>3 DEF CommandAt
<1> DEFINE t == CASE tg.id = None /\ tg.exe = None /\ Attr[S].idLike -> [tg EXCEPT !.id = S]
                  [] tg.exe = None /\ S # None /\ ~(tg.id = None /\ Attr[S].idLike) -> [tg EXCEPT !.exe = S]
                  [] OTHER -> [tg EXCEPT !.fwd = Append(@, S)]
<1>9. Aim(t, 1)
    BY DEF TargetWord
<1>10. t.lang = tg.lang /\ t.session = tg.session /\ (t.id = None => t.exe = wish.exe)
    <2>1. CASE tg.id = None /\ tg.exe = None /\ Attr[S].idLike
        BY <1>1, <1>4, <2>1 DEF Target
    <2>2. CASE tg.exe = None /\ ~(tg.id = None /\ Attr[S].idLike)
        <3>1. t = [tg EXCEPT !.exe = S]
            BY <1>4, <2>2
        <3> QED BY <1>1, <1>4, <3>1 DEF Target
    <2>3. CASE tg.exe # None
        <3>1. t = [tg EXCEPT !.fwd = Append(@, S)]
            BY <2>3
        <3>2. tg.id = None => tg.exe = wish.exe
            BY <1>7, <1>8, <2>3
        <3> QED BY <1>1, <3>1, <3>2 DEF Target
    <2> QED BY <2>1, <2>2, <2>3
<1> HIDE DEF t
<1>11. /\ t.lang = Told(V, m + i + 1 - 1, "lang", wish.lang)
       /\ t.session = Told(V, m + i + 1 - 1, "session", wish.label)
       /\ t.id = None => t.exe = FoundExe(V, m, m + i + 1 - 1)
    BY <1>3, <1>6, <1>7, <1>8, <1>10
<1>12. m + i + 1 <= Len(argv) => m + i + 1 \notin V
    BY <1>5 DEF k
<1> QED BY <1>1, <1>9, <1>11, <1>12, AimedOn

LEMMA CommandFlag ==
    ASSUME TInv, NEW V, NEW m \in 0..Len(argv), CommandAt(V, m), TargetFlag
    PROVE  CommandAt(V, m)' /\ wish' = wish /\ argv' = argv
<1> DEFINE k == m + i
           v == IF HasValue(p.subArgs, i) THEN ValueOf(p.subArgs, i) ELSE None
           n == Width(p.subArgs, i)
           names == {"session", "lang", "trace"}
           name == Attr[S].name
<1>1. at = "target" /\ InTarget /\ i <= Len(p.subArgs) /\ Attr[S].dash /\ tg \in Target
    BY DEF TargetFlag, InTarget, TInv
<1>2. /\ CommandReading(argv, V, m, wish) /\ m \in 1..Len(argv) /\ Len(argv) \in Nat
      /\ Len(p.subArgs) = Len(argv) - m /\ \A j \in 1..(Len(argv) - m) : p.subArgs[j] = argv[m + j]
      /\ i \in 1..(Len(argv) - m + 1)
    BY <1>1, AtSubArg
<1>3. k \in (m + 1)..Len(argv) /\ k \notin V /\ S = argv[k] /\ p.subArgs[i] = argv[k]
    <2>1. k <= Len(argv) /\ i \in 1..(Len(argv) - m)
        BY <1>1, <1>2
    <2> QED BY <1>1, <1>2, <2>1, AtSubArg
<1>4. k \in Nat \ {0} /\ m \in Nat /\ k > m /\ k - 1 = m + i - 1 /\ m + i + 1 - 1 = k /\ m + i + 2 - 1 = k + 1
      /\ m + 1 \in Nat /\ (i < Len(p.subArgs) <=> k < Len(argv))
    BY <1>1, <1>2, <1>3
<1>5. Says(argv, k, wish) /\ Splits(argv, V, m + 1, Len(argv), names)
    BY <1>1, <1>2, <1>3 DEF CommandReading
<1> HIDE DEF k
<1>6. TakesNext(argv, k, names) <=> name \in names /\ ~Attr[S].eq
    BY <1>1, <1>3 DEF TakesNext, IsFlag
<1>7. /\ TakesNext(argv, k, names) => k < Len(argv) /\ k + 1 \in V /\ (k + 2 <= Len(argv) => k + 2 \notin V)
      /\ ~TakesNext(argv, k, names) /\ k < Len(argv) => k + 1 \notin V
    BY <1>2, <1>3, <1>4, <1>5, AfterFlag
<1>8. ASSUME NEW q, NEW y PROVE Told(V, k, q, y) = IF name = q THEN y ELSE Told(V, k - 1, q, y)
    <2>1. IsFlag(argv, k, {q}) <=> name = q
        BY <1>1, <1>3 DEF IsFlag
    <2>2. k \in Nat \ {0} /\ k \notin V
        BY <1>3, <1>4
    <2>3. Told(V, k, q, y) = IF k \notin V /\ IsFlag(argv, k, {q}) THEN y ELSE Told(V, k - 1, q, y)
        BY <2>2, ToldHere
    <2> QED BY <2>1, <2>2, <2>3
<1>9. ASSUME k + 1 \in V, NEW q, NEW y PROVE Told(V, k + 1, q, y) = Told(V, k, q, y)
    <2>1. k \in Nat
        BY <1>4
    <2>2. Told(V, k + 1, q, y) = IF k + 1 \notin V /\ IsFlag(argv, k + 1, {q}) THEN y ELSE Told(V, k, q, y)
        BY <2>1, ToldMore
    <2> QED BY <1>9, <2>2
<1>10. FoundExe(V, m, k) = FoundExe(V, m, k - 1) /\ (k + 1 \in V => FoundExe(V, m, k + 1) = FoundExe(V, m, k))
    <2>1. FoundExe(V, m, k) = FoundExe(V, m, k - 1)
        BY <1>1, <1>3, <1>4, FoundHere
    <2>2. k + 1 \in Nat /\ k + 1 > m /\ (k + 1) - 1 = k
        BY <1>4
    <2>3. k + 1 \in V => FoundExe(V, m, k + 1) = FoundExe(V, m, (k + 1) - 1)
        BY <1>4, <2>2, FoundHere
    <2> QED BY <2>1, <2>2, <2>3
<1>11. /\ tg.lang = Told(V, k - 1, "lang", wish.lang) /\ tg.session = Told(V, k - 1, "session", wish.label)
       /\ tg.id = None => tg.exe = FoundExe(V, m, k - 1)
    BY <1>1, <1>4 DEF CommandAt
<1>12. CASE name \notin names
    <2>1. Aim([tg EXCEPT !.fwd = Append(@, S)], 1)
        BY <1>12 DEF TargetFlag
    <2> DEFINE t == [tg EXCEPT !.fwd = Append(@, S)]
    <2>2. t.lang = tg.lang /\ t.session = tg.session /\ t.id = tg.id /\ t.exe = tg.exe
        BY <1>1 DEF Target
    <2>3. Aim(t, 1)
        BY <2>1
    <2> HIDE DEF t
    <2>4. /\ t.lang = Told(V, k, "lang", wish.lang) /\ t.session = Told(V, k, "session", wish.label)
          /\ t.id = None => t.exe = FoundExe(V, m, k)
        BY <1>8, <1>10, <1>11, <1>12, <2>2
    <2>5. k + 1 <= Len(argv) => k + 1 \notin V
        BY <1>2, <1>4, <1>6, <1>7, <1>12
    <2>6. /\ t.lang = Told(V, m + i + 1 - 1, "lang", wish.lang)
          /\ t.session = Told(V, m + i + 1 - 1, "session", wish.label)
          /\ t.id = None => t.exe = FoundExe(V, m, m + i + 1 - 1)
        BY <1>4, <2>4
    <2>7. m + i + 1 <= Len(argv) => m + i + 1 \notin V
        BY <2>5 DEF k
    <2> QED BY <1>1, <2>3, <2>6, <2>7, AimedOn
<1>13. CASE name \in names
    <2>1. HasValue(p.subArgs, i) /\ n = IF Attr[S].eq THEN 1 ELSE 2
        BY <1>3, <1>4, <1>6, <1>7, <1>13 DEF HasValue, Width
    <2>2. ValueOf(p.subArgs, i) = ValueOf(argv, k)
        <3>1. CASE Attr[S].eq
            BY <1>3, <3>1 DEF ValueOf
        <3>2. CASE ~Attr[S].eq
            <4>1. i + 1 \in 1..(Len(argv) - m) /\ m + (i + 1) = k + 1
                BY <1>2, <1>4, <1>6, <1>7, <1>13, <3>2 DEF k
            <4>2. p.subArgs[i + 1] = argv[k + 1]
                BY <1>2, <4>1
            <4> QED BY <1>3, <3>2, <4>2 DEF ValueOf
        <3> QED BY <3>1, <3>2
    <2>3. /\ name = "lang" => v = wish.lang
          /\ name = "session" => v = wish.label
        BY <1>3, <1>5, <2>1, <2>2 DEF Says
    <2> DEFINE t == CASE name = "session" -> [tg EXCEPT !.session = v]
                      [] name = "lang" -> [tg EXCEPT !.lang = v]
                      [] OTHER -> tg
    <2>4. Aim(t, n)
        BY <1>13 DEF TargetFlag
    <2>5. /\ t.lang = (IF name = "lang" THEN wish.lang ELSE tg.lang)
          /\ t.session = (IF name = "session" THEN wish.label ELSE tg.session)
          /\ t.id = tg.id /\ t.exe = tg.exe
        BY <1>1, <2>3 DEF Target
    <2> HIDE DEF t, v
    <2>6. /\ t.lang = Told(V, k, "lang", wish.lang) /\ t.session = Told(V, k, "session", wish.label)
          /\ t.id = None => t.exe = FoundExe(V, m, k)
        BY <1>8, <1>10, <1>11, <2>5
    <2>7. CASE Attr[S].eq
        <3>1. n = 1 /\ (k + 1 <= Len(argv) => k + 1 \notin V)
            BY <1>2, <1>4, <1>6, <1>7, <2>1, <2>7
        <3> HIDE DEF n
        <3>2. /\ t.lang = Told(V, m + i + 1 - 1, "lang", wish.lang)
              /\ t.session = Told(V, m + i + 1 - 1, "session", wish.label)
              /\ t.id = None => t.exe = FoundExe(V, m, m + i + 1 - 1)
            BY <1>4, <2>6
        <3>3. m + i + 1 <= Len(argv) => m + i + 1 \notin V
            BY <3>1 DEF k
        <3> QED BY <1>1, <2>4, <3>1, <3>2, <3>3, AimedOn
    <2>8. CASE ~Attr[S].eq
        <3>1. n = 2 /\ k + 1 \in V /\ (k + 2 <= Len(argv) => k + 2 \notin V)
            BY <1>2, <1>4, <1>6, <1>7, <1>13, <2>1, <2>8
        <3> HIDE DEF n
        <3>2. /\ t.lang = Told(V, m + i + 2 - 1, "lang", wish.lang)
              /\ t.session = Told(V, m + i + 2 - 1, "session", wish.label)
              /\ t.id = None => t.exe = FoundExe(V, m, m + i + 2 - 1)
            BY <1>4, <1>9, <1>10, <2>6, <3>1
        <3>3. m + i + 2 <= Len(argv) => m + i + 2 \notin V
            BY <3>1 DEF k
        <3> QED BY <1>1, <2>4, <3>1, <3>2, <3>3, AimedOn
    <2> QED BY <2>7, <2>8
<1> QED BY <1>12, <1>13

\* What main sends for a command; the scan does not end without a subcommand.
LEMMA CommandSent ==
    ASSUME TInv, NEW V, NEW m \in 0..Len(argv), CommandAt(V, m),
           ParseEnds \/ TargetEnds \/ DaemonWide \/ SendEval
    PROVE  CommandAt(V, m)' /\ wish' = wish /\ argv' = argv
<1>1. CommandReading(argv, V, m, wish) /\ made = KeyOf(wish) /\ m \in 1..Len(argv) /\ Len(argv) \in Nat
    BY LenProperties DEF TInv, TypeOK, CommandAt, CommandReading
<1>2. CASE ParseEnds
    <2>1. i > Len(argv) /\ i <= m /\ i \in Nat
        BY <1>1, <1>2 DEF ParseEnds, CommandAt, TInv, TypeOK
    <2> QED BY <1>1, <2>1
<1>3. CASE DaemonWide \/ SendEval
    <2>1. p.sub = argv[m] /\ argv[m] # None /\ Attr[argv[m]].sub = "session"
        BY <1>1, <1>3 DEF DaemonWide, SendEval, CommandAt, CommandReading, IsWord
    <2> QED BY <1>3, <2>1 DEF DaemonWide, SendEval
<1>4. CASE TargetEnds
    <2>1. at = "target" /\ i > Len(p.subArgs) /\ UNCHANGED <<argv, i, p, tg, wish, made, role>>
        BY <1>4 DEF TargetEnds, Sends
    <2>2. m + i - 1 = Len(argv)
        <3>1. Len(p.subArgs) = Len(argv) - m /\ i \in 1..(Len(argv) - m + 1)
            BY <2>1, AtSubArg
        <3> QED BY <1>1, <2>1, <3>1
    <2>3. CASE tg.id # None
        <3>1. at' = "byId" /\ (KeyOf(wish))' = KeyOf(wish)
            BY <1>4, <2>1, <2>3 DEF TargetEnds, Sends, KeyOf
        <3> QED BY <1>1, <2>1, <3>1 DEF CommandAt
    <2>4. CASE tg.id = None
        <3> DEFINE e == \E k \in (m + 1)..Len(argv) : k \notin V /\ ~Attr[argv[k]].dash
                   l == Gives(argv, V, 1, Len(argv), "lang")
                   b == Gives(argv, V, 1, Len(argv), "session")
        <3>1. e \in BOOLEAN /\ l \in BOOLEAN /\ b \in BOOLEAN
            BY DEF Gives
        <3>2. Enough(wish, e, l, b) /\ (e => wish.exe # None)
            BY <1>1 DEF CommandReading
        <3>3. tg.exe = (IF e THEN wish.exe ELSE None)
            BY <2>1, <2>2, <2>4 DEF CommandAt, FoundExe
        <3>4. tg.lang = (IF l THEN wish.lang ELSE None) /\ tg.session = (IF b THEN wish.label ELSE None)
            BY <2>1, <2>2 DEF CommandAt, Told
        <3> HIDE DEF e, l, b
        <3> DEFINE lang == Or(tg.lang, IF tg.exe = None THEN None ELSE LangForExe[tg.exe])
        <3>5. KeyFor(lang, tg.session, resolveExeStr(tg.exe, lang)) = KeyOf(wish)
            BY <3>1, <3>2, <3>3, <3>4, EnoughIsKey
        <3>6. at' = "targeted" /\ key' = KeyFor(lang, tg.session, resolveExeStr(tg.exe, lang))
            BY <1>4, <2>4 DEF TargetEnds, Sends
        <3>7. (KeyOf(wish))' = KeyOf(wish)
            BY <2>1 DEF KeyOf
        <3> QED BY <1>1, <2>1, <3>5, <3>6, <3>7 DEF CommandAt
    <2> QED BY <2>3, <2>4
<1> QED BY <1>2, <1>3, <1>4

\* Before its first step a scan has heard nothing, and needs to hear nothing yet.
LEMMA AimedFirst == Init => Aimed
<1> SUFFICES ASSUME Init, wish # NoWish
             PROVE  \E V \in SUBSET (1..Len(argv)), m \in 0..Len(argv), x \in 0..Len(argv) : EvalAt(V, m, x)
    BY DEF Aimed
<1>1. PICK e \in EvalLines : argv = e.argv /\ wish = e.wish
    BY DEF Init
<1>2. PICK V \in SUBSET (1..Len(argv)), m \in 0..Len(argv), x \in 0..Len(argv) :
            EvalReading(argv, V, m, x, wish)
    BY <1>1, LinesDescribe
<1>3. Len(argv) \in Nat
    BY <1>1, LinesDescribe, LenProperties
<1>4. i = 1 /\ p = NoParsed /\ at = "parse"
    BY DEF Init
<1>5. m \in Nat /\ x \in Nat /\ x \in {m, m + 1}
    BY <1>2, <1>3 DEF EvalReading
<1>6. i <= m => i \notin V
    <2>1. Splits(argv, V, 1, m, OwnNames)
        BY <1>2 DEF EvalReading, OwnFlags
    <2>2. 1 <= m => 1 \in 1..m
        BY <1>5
    <2>3. 1 <= m /\ 1 \in V => 1 < 1
        BY <2>1, <2>2 DEF Splits
    <2> QED BY <1>4, <2>3
<1>7. InFlags(V, m)
    <2>1. i - 1 = 0
        BY <1>4
    <2>2. Told(V, i - 1, "lang", wish.lang) = None /\ Told(V, i - 1, "session", wish.label) = None
        BY <2>1, ToldNothing
    <2> QED BY <1>4, <1>6, <2>2 DEF InFlags, Plain, NoParsed
<1>8. Plain /\ p.file = None
    BY <1>7 DEF InFlags
<1>9. ~(i > m + 1) /\ ~(i > x + 1)
    BY <1>4, <1>5
<1>10. EvalAt(V, m, x)
    BY <1>2, <1>4, <1>7, <1>8, <1>9 DEF EvalAt, Evals
<1> QED BY <1>10

\* The next command line describes the session of the eval before it.
LEMMA AimedNext ==
    ASSUME TInv, wish # NoWish, NEW V, NEW m \in 0..Len(argv), NEW x \in 0..Len(argv), EvalAt(V, m, x), NextCommand
    PROVE  Aimed'
<1>1. /\ at \in Evals /\ argv' \in TargetLines(wish) /\ made' = key /\ wish' = wish
      /\ i' = 1 /\ p' = NoParsed /\ at' = "parse"
    BY DEF NextCommand
<1>2. argv' \in Seq(Token) /\ Len(argv') \in Nat
    BY <1>1, LinesDescribe, LenProperties DEF TInv
<1>3. PICK V1 \in SUBSET (1..Len(argv')), m1 \in 1..Len(argv') : CommandReading(argv', V1, m1, wish)
    BY <1>1, LinesDescribe DEF TInv
<1>4. made' = KeyOf(wish) /\ (KeyOf(wish))' = KeyOf(wish)
    BY <1>1 DEF EvalAt, KeyOf
<1>5. i' <= m1 - 1 => i' \notin V1
    <2>1. Splits(argv', V1, 1, m1 - 1, OwnNames)
        BY <1>3 DEF CommandReading, OwnFlags
    <2>2. 1 <= m1 - 1 => 1 \in 1..(m1 - 1)
        BY <1>2, <1>3
    <2>3. 1 <= m1 - 1 /\ 1 \in V1 => 1 < 1
        BY <2>1, <2>2 DEF Splits
    <2> QED BY <1>1, <2>3
<1>6. \A n : ~Gives(argv', V1, 1, i' - 1, n)
    <2>1. 1..(i' - 1) = {}
        BY <1>1
    <2> QED BY <2>1 DEF Gives
<1>7. InFlags(V1, m1 - 1)'
    BY <1>1, <1>5, <1>6 DEF InFlags, Plain, NoParsed, Told
<1>8. CommandAt(V1, m1)'
    <2>1. i' <= m1
        BY <1>1, <1>2, <1>3
    <2> QED BY <1>1, <1>3, <1>4, <1>7, <2>1 DEF CommandAt
<1>9. m1 \in 0..Len(argv')
    BY <1>2, <1>3
<1> QED BY <1>8, <1>9 DEF Aimed

\* A step that neither reads nor sends.
LEMMA AimedStays ==
    ASSUME Aimed, UNCHANGED vars
    PROVE  Aimed'
<1>1. UNCHANGED <<argv, i, p, tg, at, key, wish, made>>
    BY DEF vars
<1>2. ASSUME NEW V, NEW m, NEW x, EvalAt(V, m, x) PROVE EvalAt(V, m, x)'
    BY <1>1, <1>2 DEF EvalAt, InFlags, Heard, Told, Plain, KeyOf
<1>3. ASSUME NEW V, NEW m, CommandAt(V, m) PROVE CommandAt(V, m)'
    BY <1>1, <1>3 DEF CommandAt, InFlags, FoundExe, Told, Plain, KeyOf, Rest
<1> QED BY <1>1, <1>2, <1>3 DEF Aimed

LEMMA AimedStep == TInv /\ TInv' /\ Aimed /\ [Next]_vars => Aimed'
<1> SUFFICES ASSUME TInv, TInv', Aimed, [Next]_vars PROVE Aimed'
    OBVIOUS
<1>1. CASE Ended \/ UNCHANGED vars
    BY <1>1, AimedStays DEF Ended
<1>2. CASE ~(Ended \/ UNCHANGED vars) /\ wish = NoWish
    <2>1. wish' = wish
        BY <1>2 DEF Next, vars, FileArg, Marker, TakeFlag, Fresh, ForwardFlag, FileWord, ExeWord, SubWord,
            ForwardWord, ParseEnds, BeginTarget, TargetWord, TargetFlag, TargetEnds, DaemonWide, SendEval,
            NextCommand, Set, Stops, Forwards, Aim, Sends
    <2> QED BY <1>2, <2>1 DEF Aimed
<1>3. CASE ~(Ended \/ UNCHANGED vars) /\ wish # NoWish
    <2>1. PICK V \in SUBSET (1..Len(argv)), m \in 0..Len(argv) :
                (\E x \in 0..Len(argv) : EvalAt(V, m, x)) \/ CommandAt(V, m)
        BY <1>3 DEF Aimed
    <2>2. Scan => More
        BY DEF Scan, FileArg, Marker, TakeFlag, Fresh, ForwardFlag, Flag, FileWord, ExeWord, SubWord, ForwardWord, Word
    <2>3. ASSUME NEW x \in 0..Len(argv), EvalAt(V, m, x) PROVE Aimed'
        <3>1. CASE NextCommand
            BY <1>3, <2>3, <3>1, AimedNext
        <3>2. CASE ~NextCommand
            <4>1. EvalAt(V, m, x)' /\ wish' = wish /\ argv' = argv
                BY <1>3, <2>2, <2>3, <3>2, EvalScan, EvalSent DEF Next, Scan
            <4> QED BY <2>1, <4>1 DEF Aimed
        <3> QED BY <3>1, <3>2
    <2>4. ASSUME CommandAt(V, m) PROVE Aimed'
        <3>1. ~NextCommand
            BY <2>4 DEF CommandAt, NextCommand, Evals
        <3>2. CommandAt(V, m)' /\ wish' = wish /\ argv' = argv
            BY <1>3, <2>2, <2>4, <3>1, CommandScan, CommandSent, CommandBegins, CommandWord, CommandFlag DEF Next, Scan
        <3> QED BY <2>1, <3>2 DEF Aimed
    <2> QED BY <2>1, <2>3, <2>4
<1> QED BY <1>1, <1>2, <1>3

\* A command that describes a session as an eval did, whichever way and whichever
\* of exe, language and label it leaves to be inferred, is for the key of that eval.
THEOREM OneKey == Spec => []SameSession
<1>1. TInv /\ Aimed => SameSession
    <2> SUFFICES ASSUME Aimed, at = "targeted", wish # NoWish PROVE key = made
        BY DEF SameSession
    <2>1. PICK V \in SUBSET (1..Len(argv)), m \in 0..Len(argv) :
                (\E x \in 0..Len(argv) : EvalAt(V, m, x)) \/ CommandAt(V, m)
        BY DEF Aimed
    <2>2. \A x : ~EvalAt(V, m, x)
        BY DEF EvalAt, Evals
    <2> QED BY <2>1, <2>2 DEF CommandAt
<1> QED BY <1>1, AimedFirst, AimedStep, Invariance, PTL DEF Spec
=============================================================================
