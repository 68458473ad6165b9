------------------------------ MODULE CommandLine ------------------------------
(***************************************************************************)
(* How a command line becomes a request for a session (go/main.go parseArgs  *)
(* and parseTarget, go/config.go, go/manager.go key): the scan of argv token *)
(* by token, the language and the interpreter it means, and the key both an  *)
(* eval and a later `repld close`, `interrupt`, ... are sent for.            *)
(*                                                                         *)
(* A token is a value with the attributes the scan looks at.  One behaviour  *)
(* is one command line, or an eval followed by a command for its session.    *)
(***************************************************************************)
EXTENDS Sequences, Integers, FiniteSets

CONSTANTS
    Token,        \* what argv may hold
    Attr,         \* its attributes: [dash, name, eq, inline, regular, sub, plus, idLike]
    LangForExe,   \* langForExe, of a token taken for an interpreter's name
    AbsExe,       \* absExe, as the client's cwd and PATH have it
    EvalLines,    \* command lines of evals, with the session each describes
    TargetLines(_), \* command lines for a session described like that
    NoWish        \* a command line that describes no session

None == ""

\* dash, name, eq, inline: "--name=inline"; regular: a file of that name exists;
\* sub: a subcommand, for one session or for the daemon.  "" is an empty token.
ASSUME TokenAttrs ==
    /\ Attr \in [Token -> [dash : BOOLEAN, name : STRING, eq : BOOLEAN, inline : STRING,
                           regular : BOOLEAN, sub : {None, "session", "daemon"},
                           plus : BOOLEAN, idLike : BOOLEAN]]
    /\ None \in Token => ~Attr[None].regular /\ Attr[None].sub = None /\ ~Attr[None].idLike

\* The langs table of config.go; an unknown language takes both spellings.
Lang == {"julia", "python", "r", "wolfram"}
EvalNames(l)  == CASE l \in {"julia", "r"} -> {"e", "eval"}
                   [] l = "python"         -> {"c", "command"}
                   [] l = "wolfram"        -> {}
                   [] OTHER                -> {"e", "eval", "c", "command"}
PrintNames(l) == CASE l \in {"python", "r"} -> {}
                   [] l = "wolfram"         -> {"c", "code"}
                   [] OTHER                 -> {"E", "print"}
DefaultExe(l) == CASE l = "julia"   -> "julia"   [] l = "python" -> "python3"
                   [] l = "wolfram" -> "wolframscript" [] l = "r" -> "R"
OwnNames == {"socket", "lang", "session", "trace", "owner-pid"}

VARIABLES
    argv, i,  \* os.Args[1:] and the position of the scan
    p,        \* parsed
    tg,       \* subTarget, once there is a subcommand
    at,       \* "parse", "target", or how the command line ended
    key,      \* the key the request is for
    wish,     \* history: the session the command line describes
    made,     \* history: the key of the eval before it
    role      \* history: what each token was taken for

vars == <<argv, i, p, tg, at, key, wish, made, role>>

NoParsed == [exe |-> None, lang |-> None, session |-> None, mode |-> None, code |-> None,
             file |-> None, fileArgs |-> <<>>, fwd |-> <<>>, sub |-> None, subArgs |-> <<>>]
NoTarget == [exe |-> None, id |-> None, lang |-> None, session |-> None, fwd |-> <<>>]
NoKey    == [label |-> None, lang |-> None, exe |-> None]

Or(a, b) == IF a # None THEN a ELSE b
Rest(s, k) == SubSeq(s, k, Len(s))

\* evalModeFor, with what is known of the language so far.
resolveLang(q) == Or(q.lang, IF q.exe = None THEN None ELSE LangForExe[q.exe])
ModeFor(q, n) == CASE n \in EvalNames(resolveLang(q))  -> "eval"
                   [] n \in PrintNames(resolveLang(q)) -> "print"
                   [] OTHER -> None

Init ==
    /\ \E e \in EvalLines : argv = e.argv /\ wish = e.wish
    /\ i = 1 /\ p = NoParsed /\ tg = NoTarget /\ at = "parse"
    /\ key = NoKey /\ made = NoKey /\ role = <<>>
-----------------------------------------------------------------------------
(* parseArgs *)

T    == argv[i]
A    == Attr[T]
More == at = "parse" /\ i <= Len(argv)
Set(q) == p' = q /\ UNCHANGED <<argv, tg, key, wish, made>>
As(r)  == role' = Append(role, r) /\ i' = i + 1
Stay   == at' = at

Stops(how) ==
    /\ at' = how
    /\ UNCHANGED <<argv, i, p, tg, key, wish, made, role>>

FileArg ==
    /\ More /\ p.file # None
    /\ Set([p EXCEPT !.fileArgs = Append(@, T)]) /\ As("fileArg") /\ Stay

IsMarker == T = "--" /\ p.exe # None /\ p.mode = None

\* "--": the next token is the file, and all that follows its arguments.
Marker ==
    /\ More /\ p.file = None /\ IsMarker
    /\ IF i = Len(argv) THEN Stops("usage")
       ELSE IF ~Attr[argv[i + 1]].regular THEN Stops("missing")
       ELSE /\ Set([p EXCEPT !.file = argv[i + 1], !.fileArgs = Rest(argv, i + 2)])
            /\ role' = Append(Append(role, "marker"), "file") \o [k \in 1..(Len(argv) - i - 1) |-> "fileArg"]
            /\ i' = Len(argv) + 1 /\ at' = "parsed"

Flag == More /\ p.file = None /\ A.dash /\ ~IsMarker

\* Mutant of IsOwn: repld's own flags are taken behind the exe as well.
IsOwnAnywhere(n) == n \in OwnNames

IsOwn(n) == n \in OwnNames /\ p.exe = None

\* consumeFlagValue, in either loop: the value, or its absence.
HasValue(s, k) == Attr[s[k]].eq \/ k < Len(s)
ValueOf(s, k)  == IF Attr[s[k]].eq THEN Attr[s[k]].inline ELSE s[k + 1]
Width(s, k)    == IF Attr[s[k]].eq \/ k = Len(s) THEN 1 ELSE 2

TakeFlag ==
    /\ Flag
    /\ LET mode == ModeFor(p, A.name)
           n == Width(argv, i) IN
       /\ mode # None \/ IsOwn(A.name)
       /\ IF ~HasValue(argv, i) THEN Stops("usage")
          ELSE /\ Set(CASE mode # None -> [p EXCEPT !.mode = mode, !.code = ValueOf(argv, i)]
                        [] A.name = "lang" /\ mode = None -> [p EXCEPT !.lang = ValueOf(argv, i)]
                        [] A.name = "session" /\ mode = None -> [p EXCEPT !.session = ValueOf(argv, i)]
                        [] OTHER -> p)
               /\ role' = LET r == Append(role, IF mode # None THEN "native" ELSE "own")
                          IN IF n = 1 THEN r ELSE Append(r, "value")
               /\ i' = i + n /\ Stay

Fresh ==
    /\ Flag /\ ModeFor(p, A.name) = None /\ A.name = "fresh" /\ p.exe = None
    /\ Set(p) /\ As("own") /\ Stay

Forwards == Set([p EXCEPT !.fwd = Append(@, T)]) /\ As("fwd") /\ Stay

ForwardFlag ==
    /\ Flag /\ ModeFor(p, A.name) = None /\ ~IsOwn(A.name)
    /\ ~(A.name = "fresh" /\ p.exe = None)
    /\ Forwards

Word == More /\ p.file = None /\ ~A.dash
Plain == p.mode = None /\ p.fwd = <<>>

\* A program file; one that does not exist only if no switch came before.
IsFile == p.exe # None /\ p.mode = None /\ A.sub = None /\ (A.regular \/ (Plain /\ ~A.plus))
IsExe  == p.exe = None /\ Plain /\ A.sub = None

\* Mutant of IsSub: a subcommand's name is one behind other switches too.
IsSubAnywhere == A.sub # None

IsSub  == Plain /\ A.sub # None

\* An empty word in either place is dropped: the field stays empty.
OrDropped(r) == As(IF T = None THEN "dropped" ELSE r)
FileWord == Word /\ IsFile /\ Set([p EXCEPT !.file = T]) /\ OrDropped("file") /\ Stay
ExeWord  == Word /\ IsExe /\ Set([p EXCEPT !.exe = T]) /\ OrDropped("exe") /\ Stay

SubWord ==
    /\ Word /\ IsSub
    /\ Set([p EXCEPT !.sub = T, !.subArgs = Rest(argv, i + 1)])
    /\ role' = Append(role, "sub") \o [k \in 1..(Len(argv) - i) |-> "subArg"]
    /\ i' = Len(argv) + 1 /\ at' = "parsed"

ForwardWord == Word /\ ~IsFile /\ ~IsExe /\ ~IsSub /\ Forwards

ParseEnds == at = "parse" /\ i > Len(argv) /\ Stops("parsed")
-----------------------------------------------------------------------------
(* parseTarget, and main *)

BeginTarget ==
    /\ at = "parsed" /\ p.sub # None /\ Attr[p.sub].sub = "session"
    /\ tg' = [NoTarget EXCEPT !.lang = p.lang, !.session = p.session]
    /\ i' = 1 /\ at' = "target"
    /\ UNCHANGED <<argv, p, key, wish, made, role>>

S == p.subArgs[i]
Aim(t, n) == tg' = t /\ i' = i + n /\ UNCHANGED <<argv, p, at, key, wish, made, role>>
InTarget == at = "target" /\ i <= Len(p.subArgs)

TargetWord ==
    /\ InTarget /\ ~Attr[S].dash
    /\ Aim(CASE tg.id = None /\ tg.exe = None /\ Attr[S].idLike -> [tg EXCEPT !.id = S]
             [] tg.exe = None /\ S # None /\ ~(tg.id = None /\ Attr[S].idLike) -> [tg EXCEPT !.exe = S]
             [] OTHER -> [tg EXCEPT !.fwd = Append(@, S)], 1)

\* A flag at the end of the line without a value clears what it names.
TargetFlag ==
    /\ InTarget /\ Attr[S].dash
    /\ LET v == IF HasValue(p.subArgs, i) THEN ValueOf(p.subArgs, i) ELSE None
           n == Width(p.subArgs, i)
       IN \/ Attr[S].name = "session" /\ Aim([tg EXCEPT !.session = v], n)
          \/ Attr[S].name = "lang" /\ Aim([tg EXCEPT !.lang = v], n)
          \/ Attr[S].name = "trace" /\ Aim(tg, n)
          \/ /\ Attr[S].name \notin {"session", "lang", "trace"}
             /\ Aim([tg EXCEPT !.fwd = Append(@, S)], 1)

resolveExeStr(exe, l) ==
    LET named == IF exe = None /\ l \in Lang THEN DefaultExe(l) ELSE exe
    IN IF named = None THEN None ELSE AbsExe[named]

\* SessionManager.key; one directory, hence one cwd.
KeyFor(l, session, exe) ==
    IF session # None THEN [NoKey EXCEPT !.label = session]
    ELSE [NoKey EXCEPT !.lang = l,
                       !.exe = IF exe = None /\ l \in Lang THEN DefaultExe(l) ELSE exe]

Sends(how, k) ==
    /\ at' = how /\ key' = k
    /\ UNCHANGED <<argv, i, p, tg, wish, made, role>>

\* sessions, stop, daemon.
DaemonWide == at = "parsed" /\ p.sub # None /\ Attr[p.sub].sub = "daemon" /\ Sends("daemonWide", NoKey)

\* Mutant of TargetEnds: the language is not inferred from the exe.
TargetEndsUninferred ==
    /\ at = "target" /\ i > Len(p.subArgs)
    /\ IF tg.id # None THEN Sends("byId", NoKey)
       ELSE Sends("targeted", KeyFor(tg.lang, tg.session, resolveExeStr(tg.exe, tg.lang)))

TargetEnds ==
    /\ at = "target" /\ i > Len(p.subArgs)
    /\ LET l == Or(tg.lang, IF tg.exe = None THEN None ELSE LangForExe[tg.exe])
       IN IF tg.id # None THEN Sends("byId", NoKey)
          ELSE Sends("targeted", KeyFor(l, tg.session, resolveExeStr(tg.exe, l)))

\* main: what is sent; with none of these, the code is read from stdin, unless
\* that is a terminal.
SendEval ==
    /\ at = "parsed" /\ p.sub = None
    /\ LET l == resolveLang(p)
           k == KeyFor(l, p.session, resolveExeStr(p.exe, l))
       IN CASE l = None /\ p.session = None -> Stops("usage")
            [] p.mode # None                -> Sends("eval", k)
            [] p.file # None                -> Sends("evalFile", k)
            [] OTHER                        -> \/ Sends("launch", k) /\ p.fwd # <<>>
                                               \/ Sends("stdin", k) /\ p.fwd = <<>>
                                               \/ Stops("usage") /\ p.fwd = <<>>

Evals == {"eval", "evalFile", "launch", "stdin"}

\* The next command line of the same user, for the session it has just used.
NextCommand ==
    /\ at \in Evals /\ wish # NoWish
    /\ argv' \in TargetLines(wish)
    /\ made' = key
    /\ i' = 1 /\ p' = NoParsed /\ tg' = NoTarget /\ at' = "parse" /\ key' = NoKey /\ role' = <<>>
    /\ UNCHANGED wish

Ended == at \notin {"parse", "parsed", "target"} /\ UNCHANGED vars

Next ==
    \/ FileArg \/ Marker \/ TakeFlag \/ Fresh \/ ForwardFlag
    \/ FileWord \/ ExeWord \/ SubWord \/ ForwardWord \/ ParseEnds
    \/ BeginTarget \/ TargetWord \/ TargetFlag \/ TargetEnds \/ DaemonWide
    \/ SendEval \/ NextCommand \/ Ended

Spec == Init /\ [][Next]_vars
-----------------------------------------------------------------------------
(* Descriptions of a session: w is a record [exe, lang, label].  V are the     *)
(* positions of the values of flags.                                          *)

IsFlag(s, k, names)    == Attr[s[k]].dash /\ Attr[s[k]].name \in names
TakesNext(s, k, names) == IsFlag(s, k, names) /\ ~Attr[s[k]].eq

\* V splits s[a..b] into flags with their values and words.
Splits(s, V, a, b, names) ==
    /\ \A k \in a..b : k \in V <=> a < k /\ k - 1 \notin V /\ TakesNext(s, k - 1, names)
    /\ a <= b /\ b \notin V => ~TakesNext(s, b, names)

\* What the flag at k says is true of w.
Says(s, k, w) ==
    /\ Attr[s[k]].name = "lang" => ValueOf(s, k) = w.lang
    /\ Attr[s[k]].name = "session" => ValueOf(s, k) = w.label

Gives(s, V, a, b, n) == \E k \in a..b : k \notin V /\ IsFlag(s, k, {n})

OwnFlags(s, V, b, w) ==
    /\ Splits(s, V, 1, b, OwnNames)
    /\ \A k \in 1..b : k \notin V => IsFlag(s, k, OwnNames \cup {"fresh"}) /\ Says(s, k, w)

IsWord(t) == ~Attr[t].dash /\ t # None

\* A label is enough; else the language and the interpreter must be known, one
\* from the other if need be.
Enough(w, exe, lang, label) ==
    IF w.label # None THEN label
    ELSE /\ w.lang # None
         /\ exe \/ (w.lang \in Lang /\ w.exe = DefaultExe(w.lang))
         /\ lang \/ (exe /\ LangForExe[w.exe] = w.lang)

\* An eval: own flags up to m, the exe, if any, at x = m + 1, and then what the
\* user wants of the interpreter, which is no subcommand, and without an exe begins
\* with a switch and says no more of the session.
EvalReading(s, V, m, x, w) ==
    /\ OwnFlags(s, V, m, w) /\ x \in {m, m + 1} /\ x <= Len(s)
    /\ x > m => IsWord(s[x]) /\ Attr[s[x]].sub = None /\ s[x] = w.exe
    /\ x > m /\ x < Len(s) => s[x + 1] # None /\ (Attr[s[x + 1]].dash \/ Attr[s[x + 1]].sub = None)
    /\ x = m /\ x < Len(s) => /\ Attr[s[x + 1]].dash /\ ~IsFlag(s, x + 1, OwnNames \cup {"fresh"})
                              /\ \A k \in (x + 1)..Len(s) : ~IsFlag(s, k, {"lang", "session"})
    /\ Enough(w, x > m, Gives(s, V, 1, m, "lang"), Gives(s, V, 1, m, "session"))

\* A command: own flags, the subcommand at m, then flags and the exe in any order.
\* Flags other than those of parseTarget take no value there.
CommandReading(s, V, m, w) ==
    /\ m \in 1..Len(s) /\ OwnFlags(s, V, m - 1, w)
    /\ m \notin V /\ IsWord(s[m]) /\ Attr[s[m]].sub = "session"
    /\ Splits(s, V, m + 1, Len(s), {"session", "lang", "trace"})
    /\ \A k \in (m + 1)..Len(s) : k \notin V =>
            IF Attr[s[k]].dash THEN Says(s, k, w) ELSE s[k] = w.exe /\ s[k] # None
    /\ Enough(w, \E k \in (m + 1)..Len(s) : k \notin V /\ ~Attr[s[k]].dash,
              Gives(s, V, 1, Len(s), "lang"), Gives(s, V, 1, Len(s), "session"))

\* An eval that has a wish, and the commands that follow it, describe one session.
ASSUME LinesDescribe ==
    \A e \in EvalLines :
        /\ e.argv \in Seq(Token)
        /\ e.wish # NoWish =>
            /\ \E V \in SUBSET (1..Len(e.argv)), m, x \in 0..Len(e.argv) :
                    EvalReading(e.argv, V, m, x, e.wish)
            /\ \A s \in TargetLines(e.wish) :
                    /\ s \in Seq(Token)
                    /\ \E V \in SUBSET (1..Len(s)), m \in 1..Len(s) : CommandReading(s, V, m, e.wish)
-----------------------------------------------------------------------------
(* Properties *)

TypeOK ==
    /\ argv \in Seq(Token) /\ i \in 1..(Len(argv) + 1)
    /\ at \in {"parse", "parsed", "target", "usage", "missing", "byId", "targeted", "daemonWide"}
              \cup Evals
    /\ p.mode \in {None, "eval", "print"} /\ (p.mode = None => p.code = None)
    /\ p.fwd \in Seq(Token) /\ p.fileArgs \in Seq(Token) /\ p.subArgs \in Seq(Token)
    /\ p.fileArgs # <<>> => p.file # None
    /\ p.sub # None => p.mode = None /\ p.fwd = <<>> /\ p.file = None
    /\ Len(role) <= Len(argv)

\* s are the tokens of argv that were taken for r, in their order: the n-th of
\* them is the n-th of s.
Arrives(s, r) ==
    LET taken == {k \in 1..Len(role) : role[k] = r}
    IN /\ Len(s) = Cardinality(taken)
       /\ \A k \in taken : s[Cardinality({j \in taken : j <= k})] = argv[k]

\* README.md:59, the command line is separable: every token has one reading; those
\* meant for the interpreter, the script or the subcommand arrive there complete
\* and in order; behind the exe no flag is repld's own, so that a flag is either
\* a native eval flag of the language or forwarded verbatim.
ForwardsVerbatim ==
    /\ Arrives(p.fwd, "fwd") /\ Arrives(p.fileArgs, "fileArg") /\ Arrives(p.subArgs, "subArg")
    /\ at \notin {"parse", "usage", "missing"} => Len(role) = Len(argv)
    /\ \A j, k \in 1..Len(role) : role[j] = "exe" /\ role[k] = "own" => k < j

\* A command that describes a session as the eval before it did (by its exe, by
\* its language, by its label; flags before or behind, with "=" or without)
\* is for the key of that eval, unless the exe reads like a session id.
SameSession == at = "targeted" /\ wish # NoWish => key = made
=============================================================================
