----------------------------- MODULE MCCommandLine -----------------------------
(* CommandLine with a few tokens of each kind: every command line of up to four *)
(* of them, and evals followed by a command for the session they used.          *)
EXTENDS CommandLine

Basic == [dash |-> FALSE, name |-> "", eq |-> FALSE, inline |-> "", regular |-> FALSE,
          sub |-> "", plus |-> FALSE, idLike |-> FALSE]
Dash(n)      == [Basic EXCEPT !.dash = TRUE, !.name = n]
DashEq(n, v) == [Dash(n) EXCEPT !.eq = TRUE, !.inline = v]

Exes == {"julia", "python3", "pypy", "weird"}
Words == Exes \cup {"", "x", "s", "close", "stop", "file", "+1", "python"}
Flags == {"-e", "-c", "-E=x", "--session", "--session=s", "--session=", "--lang",
          "--lang=julia", "--lang=python", "--fresh", "--project", "--trace=x", "--"}

MCToken == Words \cup Flags
MCAttr == [t \in MCToken |->
    CASE t = "pypy"  -> [Basic EXCEPT !.idLike = TRUE]
      [] t = "close" -> [Basic EXCEPT !.sub = "session"]
      [] t = "stop"  -> [Basic EXCEPT !.sub = "daemon"]
      [] t = "file"  -> [Basic EXCEPT !.regular = TRUE]
      [] t = "+1"    -> [Basic EXCEPT !.plus = TRUE]
      [] t = "-e" -> Dash("e") [] t = "-c" -> Dash("c") [] t = "-E=x" -> DashEq("E", "x")
      [] t = "--session" -> Dash("session") [] t = "--session=s" -> DashEq("session", "s")
      [] t = "--session=" -> DashEq("session", "")
      [] t = "--lang" -> Dash("lang") [] t = "--lang=julia" -> DashEq("lang", "julia")
      [] t = "--lang=python" -> DashEq("lang", "python")
      [] t = "--fresh" -> Dash("fresh") [] t = "--project" -> Dash("project")
      [] t = "--trace=x" -> DashEq("trace", "x")
      [] t = "--" -> Dash("")
      [] OTHER -> Basic]

MCLangForExe == [t \in MCToken |-> CASE t = "julia" -> "julia"
                                     [] t \in {"python3", "python"} -> "python"
                                     [] OTHER -> ""]
\* What PATH resolves to; a name it does not have is left alone.
MCAbsExe == [t \in MCToken |-> CASE t = "julia" -> "/bin/julia"
                                 [] t = "python3" -> "/bin/python3"
                                 [] OTHER -> t]

\* A session described by an exe, a language (known from the exe or stated) or a
\* label; the default interpreter may be left out.
LangFlag(l) == {<<>>} \cup {f \in {<<"--lang", l>>, <<"--lang=julia">>, <<"--lang=python">>} :
                               Len(f) = 2 \/ MCAttr[f[1]].inline = l}
SessionFlag(l) == IF l = "s" THEN {<<"--session", "s">>, <<"--session=s">>}
                             ELSE {<<>>, <<"--session=">>}
Wish == [exe : Exes, lang : {"julia", "python"}, label : {"", "s"}]

\* The words and flags that may describe w: [its label, its language, its exe].
ExeWords(w) == {<<w.exe>>} \cup IF w.label = "s" \/ w.exe \in {"julia", "python3"} THEN {<<>>} ELSE {}
Describes(w, l, x) ==
    \/ w.label = "s"
    \/ MCLangForExe[w.exe] = w.lang /\ (x # <<>> \/ l # <<>>)
    \/ MCLangForExe[w.exe] = "" /\ x # <<>> /\ l # <<>>

Described(w) == UNION {{<<s, l, x>> : s \in SessionFlag(w.label)} :
                       <<l, x>> \in {d \in LangFlag(w.lang) \X ExeWords(w) : Describes(w, d[1], d[2])}}

\* What an eval asks of the interpreter.
Asks(w) == LET code == IF w.lang = "julia" THEN <<"-e", "x">> ELSE <<"-c", "x">>
           IN {<<>>, code, <<"--project">> \o code}

MCTargetLines(w) ==
    UNION {{<<"close">> \o d[1] \o d[2] \o d[3], <<"close">> \o d[3] \o d[2] \o d[1],
            d[1] \o d[2] \o <<"close">> \o d[3], d[2] \o <<"close">> \o d[3] \o d[1],
            d[1] \o <<"close", "--fresh">> \o d[3] \o d[2]} :
           d \in Described(w)}

MCEvals(w) == {h \o c : h \in UNION {{d[1] \o d[2] \o d[3], d[2] \o d[1] \o d[3]} : d \in Described(w)},
                        c \in Asks(w)}

NoSuchWish == [none |-> TRUE]
\* A part of the tokens is enough for the command lines of every shape.
Mixed == MCToken \ {"pypy", "weird", "python", "s", "python3", "--lang=python", "--lang", "--session="}
MCEvalLines ==
    {[argv |-> a, wish |-> NoSuchWish] : a \in UNION {[1..n -> Mixed] : n \in 0..4}}
    \cup UNION {{[argv |-> a, wish |-> w] : a \in MCEvals(w)} : w \in Wish}
=============================================================================
