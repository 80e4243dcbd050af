----------------------------- MODULE MCFileTree -----------------------------
(* Two processes, a root with the program and a directory, which holds a   *)
(* file and an empty directory of the same name.                           *)
EXTENDS FileTree

CONSTANTS p1, p2

MCProcs == {p1, p2}

\* The first process opens, takes and lists directories; the second one
\* browses the same tree.
MCMaxCalls == [p \in MCProcs |->
    IF p = p1 THEN [open |-> 1, again |-> 1, get |-> 0, set |-> 1, read |-> 3]
    ELSE [open |-> 1, again |-> 0, get |-> 1, set |-> 0, read |-> 0]]

MCMaxTotal == [p \in MCProcs |-> IF p = p1 THEN 5 ELSE 1]

MCEntries ==
    [d \in {2, 11, 14} |->
        IF d = 2 THEN <<[name |-> "main.out", inum |-> 12], [name |-> "dir", inum |-> 11]>>
        ELSE IF d = 11 THEN <<[name |-> "text", inum |-> 13], [name |-> "dir", inum |-> 14]>>
        ELSE <<>>]

Path(abs, comps, slash) == [abs |-> abs, comps |-> comps, slash |-> slash]

MCPaths == [p \in MCProcs |->
    IF p = p1 THEN {Path(TRUE, <<>>, FALSE),
                    Path(FALSE, <<"dir", "dir">>, FALSE),
                    Path(TRUE, <<"dir">>, TRUE)}
    ELSE {Path(FALSE, <<"dir", "..", "dir">>, FALSE)}]
=============================================================================
