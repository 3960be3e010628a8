---------------------------- MODULE MCAnsiParser ----------------------------
(***************************************************************************)
(* Lines fed to AnsiParser for model checking.  A line is built from up to *)
(* two pieces; each piece is plain text or an escape sequence.             *)
(***************************************************************************)
EXTENDS AnsiParser

\* a piece: ESC [ followed by the characters of s
Csi(s) == <<ESC, "[">> \o s

\* lines of up to two pieces
LinesOf(pieces) == {<<>>} \cup pieces \cup {p \o q : p, q \in pieces}

\* CI output as runners write it: text and well-formed sequences (reset,
\* bold, faint, 21, erase-in-line, two codes, bright and extended colours)
WellFormedPieces ==
    {<<"a">>, Csi(<<"m">>), Csi(<<"1", "m">>), Csi(<<"2", "m">>),
     Csi(<<"2", "1", "m">>), Csi(<<"0", "K">>), Csi(<<"1", ";", "2", "m">>),
     Csi(<<"9", "1", "m">>), Csi(<<"3", "8", ";", "5", ";", "9", "m">>)}

WellFormedLines == LinesOf(WellFormedPieces)

\* a sequence cut off by the end of the line
UnterminatedLines == LinesOf({<<"a">>, Csi(<<"1">>)})

=============================================================================
