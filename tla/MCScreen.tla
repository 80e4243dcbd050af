------------------------------ MODULE MCScreen ------------------------------
(* A process that prints and the echo of keys that interrupts it, on a      *)
(* screen of two rows of three columns; the process prints enough to scroll *)
(* it several times.                                                        *)
EXTENDS Screen

CONSTANTS p1, p2

MCPrinters == {p1, p2}
MCHandlers == {p2}
MCSymbols == {LF, CR, " ", "-", "x", "a", "b", "c"} \cup {HEX[v] : v \in 1..16}

Piece(kind, arg) == [kind |-> kind, arg |-> arg]
Numbers == {-16, -1, 0, 9, 10, 31, 100}

MCCalls == [p \in MCPrinters |->
    IF p = p1 THEN {<<Piece(kind, x)>> : kind \in {"d", "x"}, x \in Numbers}
                   \cup {<<Piece("s", <<>>)>>,
                         <<Piece("char", "a"), Piece("s", <<LF, "b", CR, "c">>)>>}
    ELSE {<<Piece("char", "c")>>, <<Piece("char", LF)>>}]

MCMaxCalls == [p \in MCPrinters |-> 2]
=============================================================================
