----------------------------- MODULE AnsiParser -----------------------------
(***************************************************************************)
(* An ansi.Parser instance (src/ci/ansi.ts): it keeps #finalStyle across   *)
(* appendLine calls.  The state machine feeds it lines and keeps the       *)
(* carried style, the last line and the spans returned for it.             *)
(***************************************************************************)
EXTENDS AnsiSgr

CONSTANTS
    Lines,     \* the lines appendLine may be given
    MaxLines   \* bound on the number of appendLine calls

ASSUME MaxLines \in Nat


VARIABLES
    style,   \* #finalStyle
    line,    \* the last line given to appendLine
    spans,   \* the spans appendLine returned for it
    count    \* appendLine calls so far (bounded by MaxLines)

vars == <<style, line, spans, count>>

Init ==
    /\ style = DefaultStyle
    /\ line = <<>>
    /\ spans = <<>>
    /\ count = 0

\* appendLine(text)
AppendLine(text) ==
    /\ count < MaxLines
    /\ LET result == ParseLine(text, style)
       IN  /\ spans' = result[1]
           /\ style' = result[2]
    /\ line' = text
    /\ count' = count + 1

Next == \E text \in Lines : AppendLine(text)

Spec == Init /\ [][Next]_vars

-----------------------------------------------------------------------------
(* Properties                                                              *)

\* a Color: a named colour or a packed 24-bit RGB value
IsColor(c) ==
    \/ c - NamedFlag \in 0..7
    \/ c - (NamedFlag + BrightFlag) \in 0..7
    \/ c \in {DefaultBackground, DefaultForeground}
    \/ c \in Nat /\ c < 2^24

IsStyle(s) ==
    /\ DOMAIN s = {"bg", "fg", "attrs", "font"}
    /\ IsColor(s.bg) /\ IsColor(s.fg)
    /\ s.attrs \subseteq AttrNames
    /\ s.font \in 0..9

TypeOK ==
    /\ IsStyle(style)
    /\ count \in 0..MaxLines
    /\ \A k \in 1..Len(spans) :
          /\ IsStyle(spans[k].style)
          /\ spans[k].offset \in 0..Len(line)
          /\ spans[k].escape \in BOOLEAN

\* Spec, Span: the spans #parseLine returns for a line are contiguous and
\* non-overlapping and together cover the whole line, escape spans included.
SpansTileLine ==
    count > 0 =>
      /\ \A k \in 1..Len(spans) : spans[k].length \in Nat
      /\ spans[1].offset = 0
      /\ \A k \in 2..Len(spans) :
            spans[k].offset = spans[k - 1].offset + spans[k - 1].length
      /\ spans[Len(spans)].offset + spans[Len(spans)].length = Len(line)

=============================================================================
