---------------------------- MODULE LogTransform ----------------------------
(***************************************************************************)
(* AnsiDecorationProvider.provideDecorationsForPrettifiedAnsi              *)
(* (src/ci/ansi_decoration_provider.ts): splits a raw job trace into       *)
(* lines, extracts section markers from the control part of each line,     *)
(* runs one fresh ansi.Parser over the displayed part of every line, and   *)
(* builds the decoration ranges (in post-strip columns), the filtered text *)
(* and the running marker.                                                 *)
(*                                                                         *)
(* A section marker section_start:<time>:<key> or section_end:<time>:<key> *)
(* is one character of the trace, a key of Directives that gives its kind, *)
(* time and key; every other character is a one-letter string or ESC.      *)
(* The function is synchronous (its async body never awaits), so one       *)
(* call is one step.                                                       *)
(***************************************************************************)
EXTENDS AnsiSgr

CONSTANTS
    Directives,   \* marker character -> [dir, time, key]
    Traces,       \* the raw traces the function may be given
    NoEnd,        \* the absent endLine / endTime of an open section
    NoResult      \* no call made yet

CR == "\r"
LF == "\n"

\* rawJobTrace.split('\n')
SplitLines(raw) ==
    LET Step(lines, c) ==
            IF c = LF THEN Append(lines, <<>>)
            ELSE [lines EXCEPT ![Len(lines)] = Append(@, c)]
    IN  FoldLeft(Step, <<<<>>>>, raw)

\* rawLine.lastIndexOf('\r', from): a negative from searches offset 0 only
LastIndexOfCR(text, from) ==
    LET found == {i \in 0..(IF from < 0 THEN 0 ELSE from) :
                     i < Len(text) /\ text[i + 1] = CR}
    IN  IF found = {} THEN -1 ELSE Max(found)

\* text.substring(a, b): the arguments are swapped when a > b
JsSubstring(text, a, b) ==
    IF a > b THEN Substring(text, b, a) ELSE Substring(text, a, b)

\* crIndex: the last carriage return before the line's final character
CrIndex(rawLine) == LastIndexOfCR(rawLine, Len(rawLine) - 2)

\* parseSectionDirective(rawLine, dir, crIndex): the first marker of kind
\* dir, if it lies before crIndex
ParseSectionDirective(rawLine, dir, crIndex) ==
    LET at == {i \in 0..(Len(rawLine) - 1) :
                 rawLine[i + 1] \in DOMAIN Directives
                 /\ Directives[rawLine[i + 1]].dir = dir}
    IN  IF at # {} /\ Min(at) < crIndex THEN {Directives[rawLine[Min(at) + 1]]}
                                        ELSE {}

\* if (sectionStart) sections.set(key, {...sectionStart, endLine, endTime})
CloseSection(sections, endTag, lineNumber) ==
    IF endTag.key \in DOMAIN sections
      THEN [sections EXCEPT ![endTag.key] =
               [@ EXCEPT !.endLine = lineNumber - 1, !.endTime = endTag.time]]
      ELSE sections

\* sections.set(startTag.key, {startLine, startTime})
OpenSection(sections, startTag, lineNumber) ==
    (startTag.key :> [startLine |-> lineNumber, startTime |-> startTag.time,
                      endLine |-> NoEnd, endTime |-> NoEnd]) @@ sections

\* if (crIndex !== -1): the start marker of the line, then its end marker
UpdateSections(sections, rawLine, crIndex, lineNumber) ==
    LET starts == ParseSectionDirective(rawLine, "section_start", crIndex)
        ends == ParseSectionDirective(rawLine, "section_end", crIndex)
        opened == IF starts = {} THEN sections
                  ELSE OpenSection(sections, CHOOSE t \in starts : TRUE, lineNumber)
    IN  CASE crIndex = -1 -> sections
          [] ends = {}    -> opened
          [] OTHER        -> CloseSection(opened, CHOOSE t \in ends : TRUE, lineNumber)

\* faulty variant: escape spans are not added to totalEscapeLength
LineStepNoEscapeTotal(acc, s, line, lineNumber) ==
    IF s.escape THEN acc
    ELSE [acc EXCEPT !.decorations = @ \cup
                       {[style |-> s.style, line |-> lineNumber,
                         from |-> s.offset, to |-> s.offset + s.length]},
                     !.chunks = @ \o Substring(line, s.offset, s.offset + s.length)]

\* The spans.forEach callback: an escape span adds its length to
\* totalEscapeLength; every other span gives one range in post-strip
\* columns, keyed by its style, and its text to the filtered text.
LineStep(acc, s, line, lineNumber) ==
    IF s.escape THEN [acc EXCEPT !.total = @ + s.length]
    ELSE [acc EXCEPT !.decorations = @ \cup
                       {[style |-> s.style, line |-> lineNumber,
                         from |-> s.offset - acc.total,
                         to |-> s.offset + s.length - acc.total]},
                     !.chunks = @ \o Substring(line, s.offset, s.offset + s.length)]

\* totalEscapeLength starts at 0 for every line
LineSpans(spans, line, lineNumber) ==
    LET Step(acc, s) == LineStep(acc, s, line, lineNumber)
    IN  FoldLeft(Step, [total |-> 0, decorations |-> {}, chunks |-> <<>>], spans)

\* one iteration of the for loop over the lines
RenderLine(acc, rawLine, lineNumber, lineCount) ==
    LET crIndex == CrIndex(rawLine)
        lineEndIndex == IF Len(rawLine) > 0 /\ rawLine[Len(rawLine)] = CR
                          THEN Len(rawLine) - 1 ELSE Len(rawLine)
        line == JsSubstring(rawLine, crIndex + 1, lineEndIndex)
        parsed == ParseLine(line, acc.style)
        out == LineSpans(parsed[1], line, lineNumber)
        newline == IF lineNumber < lineCount - 1 \/ Len(line) > 0 THEN <<LF>> ELSE <<>>
    IN  [sections |-> UpdateSections(acc.sections, rawLine, crIndex, lineNumber),
         style |-> parsed[2],
         decorations |-> acc.decorations \cup out.decorations,
         filtered |-> acc.filtered \o out.chunks \o newline]

\* faulty variant: the running marker one line higher
RunningLineOneUp(lines) ==
    IF Len(lines[Len(lines)]) > 0 THEN Len(lines) - 1 ELSE Len(lines) - 2

\* the line of the running marker: past the last line when that line is
\* not empty, else on it
RunningLine(lines) ==
    IF Len(lines[Len(lines)]) > 0 THEN Len(lines) ELSE Len(lines) - 1

\* provideDecorationsForPrettifiedAnsi(rawJobTrace, isRunning)
Render(raw, isRunning) ==
    LET lines == SplitLines(raw)
        lineCount == Len(lines)
        Step(acc, n) == RenderLine(acc, lines[n + 1], n, lineCount)
        done == FoldLeft(Step, [sections |-> <<>>, style |-> DefaultStyle,
                                decorations |-> {}, filtered |-> <<>>],
                         [i \in 1..lineCount |-> i - 1])
    IN  [raw |-> raw, isRunning |-> isRunning,
         sections |-> done.sections, decorations |-> done.decorations,
         filtered |-> done.filtered,
         running |-> IF isRunning THEN {[line |-> RunningLine(lines), column |-> 0]} ELSE {}]

-----------------------------------------------------------------------------

VARIABLE result   \* the value the call returned

Init == result = NoResult

\* A call keeps nothing from an earlier one (it makes a new Parser, new maps
\* and a new text buffer), so one call from the initial state stands for
\* every call.
ProvideDecorationsForPrettifiedAnsi(raw, isRunning) ==
    /\ result = NoResult
    /\ result' = Render(raw, isRunning)

Next == \E raw \in Traces, isRunning \in BOOLEAN :
            ProvideDecorationsForPrettifiedAnsi(raw, isRunning)

Spec == Init /\ [][Next]_result

-----------------------------------------------------------------------------
(* Properties                                                              *)

TypeOK ==
    \/ result = NoResult
    \/ /\ result.isRunning \in BOOLEAN
       /\ \A k \in DOMAIN result.sections :
            /\ result.sections[k].startLine \in Nat
            /\ result.sections[k].endLine \in Int \cup {NoEnd}
       /\ \A d \in result.decorations : {d.line, d.from, d.to} \subseteq Int
       /\ result.running \subseteq [line : Nat, column : {0}]

\* The lines of a document as VS Code's text model splits them: CR LF, a
\* lone CR and a lone LF each end a line.
DocumentLines(text) ==
    LET Step(acc, c) ==
            CASE c = LF /\ acc.afterCR -> [acc EXCEPT !.afterCR = FALSE]
              [] c \in {CR, LF}         -> [lines |-> Append(acc.lines, <<>>),
                                            afterCR |-> c = CR]
              [] OTHER                  -> [lines |-> [acc.lines EXCEPT
                                                 ![Len(acc.lines)] = Append(@, c)],
                                            afterCR |-> FALSE]
    IN  FoldLeft(Step, [lines |-> <<<<>>>>, afterCR |-> FALSE], text).lines

\* the lines of the rendered job-log document, whose content is the
\* filtered text
FilteredLines == DocumentLines(result.filtered)

\* Spec 4.2: the decoration ranges are in post-strip columns.  Every column
\* of every line of the document VS Code shows for the filtered text is
\* covered by exactly one decoration range of that line, and no range
\* reaches outside its line, so each style is drawn over the very text its
\* span held (escape bytes stripped, lines numbered as the editor numbers
\* them).
RangesTileFilteredText ==
    result # NoResult =>
      LET FL == FilteredLines
          decos == result.decorations
      IN  /\ \A d \in decos : /\ d.line < Len(FL)
                              /\ 0 <= d.from /\ d.from <= d.to
                              /\ d.to <= Len(FL[d.line + 1])
          /\ \A n \in 0..(Len(FL) - 1) : \A c \in 0..(Len(FL[n + 1]) - 1) :
                \E d \in decos :
                   /\ d.line = n /\ d.from <= c /\ c < d.to
                   /\ \A e \in decos : (e.line = n /\ e.from <= c /\ c < e.to) => e = d

=============================================================================
