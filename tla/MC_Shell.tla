------------------------------ MODULE MC_Shell ------------------------------
EXTENDS Shell

\* The tree: two names at the top, a directory d holding one file.
MCPaths == {"a", "b", "d", "d/f"}
MCParentOf == [p \in MCPaths |-> IF p = "d/f" THEN "d" ELSE "/"]
MCInitKinds == {[p \in MCPaths |-> IF p = "b" THEN "none"
                                   ELSE IF p = "d" THEN "dir" ELSE "reg"]}
\* a is longer than BUF_SIZE, so cp reads twice; d/f is longer than a,
\* so a copy over it must truncate.
MCInitData == {[p \in MCPaths |-> CASE p = "a"   -> <<1, 2, 1>>
                                    [] p = "d/f" -> <<2, 2, 2, 2>>
                                    [] OTHER     -> <<>>]}

Ln(c, a, long) == [cmd |-> c, args |-> a, nl |-> TRUE, long |-> long]

\* Lines: copies to a new file, over a longer file, from a directory, into
\* a directory; rm of a file and of a directory; ls; an empty line, an
\* unknown command and an over-long line.
MCLines == {Ln("cp", <<"a", "b">>, FALSE), Ln("cp", <<"a", "d/f">>, FALSE),
            Ln("cp", <<"d", "b">>, FALSE), Ln("cp", <<"a", "d">>, FALSE),
            Ln("rm", <<"d">>, FALSE), Ln("rm", <<"a">>, FALSE),
            Ln("ls", <<"d">>, FALSE), Ln("", <<>>, FALSE),
            Ln("x", <<>>, FALSE), Ln("ls", <<>>, TRUE)}

\* Inputs of up to MaxLines lines.  The last line ends without a newline,
\* or with one (EndsWithNewline).
NoNl(l) == [l EXCEPT !.nl = FALSE]
InputsOf(n, endNl) ==
    UNION {{[i \in 1 .. k |-> IF i = k /\ ~endNl THEN NoNl(s[i]) ELSE s[i]]
             : s \in [1 .. k -> MCLines]} : k \in 1 .. n}
MaxLines == 3
MCInputs == InputsOf(MaxLines, FALSE)
MCInputsNl == InputsOf(MaxLines, TRUE)
MCInputsBoth == MCInputs \cup MCInputsNl
=============================================================================
