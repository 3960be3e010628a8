--------------------------- MODULE MCLogTransform ---------------------------
(***************************************************************************)
(* Raw traces fed to LogTransform, made of up to five pieces: text, a      *)
(* carriage return, a line feed, an SGR sequence, and the start and end    *)
(* markers of section "k" as the runner writes them: the marker, the       *)
(* carriage return that ends the control part of the line, and ESC[0K.     *)
(***************************************************************************)
EXTENDS LogTransform

MCDirectives ==
    ("S" :> [dir |-> "section_start", time |-> 1, key |-> "k"]) @@
    ("E" :> [dir |-> "section_end", time |-> 2, key |-> "k"])

EraseLine == <<ESC, "[", "0", "K">>

Pieces == {<<"a">>, <<CR>>, <<LF>>, <<"S", CR>> \o EraseLine, <<"E", CR>> \o EraseLine,
           <<ESC, "[", "1", "m">>}

TracesOf(n) == UNION {{FlattenSeq(p) : p \in [1..i -> Pieces]} : i \in 0..n}

MCTraces == TracesOf(5)

\* a raw line that is a lone carriage return: an empty line of a log
\* written with CR LF line ends (a Windows runner)
HasBlankCRLine(raw) == \E n \in 1..Len(SplitLines(raw)) : SplitLines(raw)[n] = <<CR>>

\* the traces whose lines are never a lone carriage return
MCTracesLF == {raw \in MCTraces : ~HasBlankCRLine(raw)}

=============================================================================
