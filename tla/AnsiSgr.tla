------------------------------- MODULE AnsiSgr -------------------------------
(***************************************************************************)
(* The SGR escape-sequence parser of src/ci/ansi.ts (class Parser), as    *)
(* operators: #parseLine, #applyCodes, #convert8BitColor and their data.   *)
(*                                                                         *)
(* A line is a sequence of characters; ESC stands for the byte 0x1b and    *)
(* every other character is a one-letter string.  Offsets are JavaScript   *)
(* string offsets (0-based); Ch(text, i) reads one.  Math.min() of nothing *)
(* is Infinity in the code: it is the number Infinity below, far above any *)
(* offset of a modelled line, with Infinity - Infinity = NaN.              *)
(***************************************************************************)
EXTENDS Integers, Sequences, SequencesExt, Bitwise

CONSTANTS
    ESC,              \* the escape character 0x1b
    NaN,              \* JavaScript NaN
    DoubleUnderline   \* ParserOptions.doubleUnderline

ASSUME DoubleUnderline \in BOOLEAN

Infinity == 1000000

Undefined == "undefined"

\* text[i] / text.codePointAt(i) of a JavaScript string
Ch(text, i) == IF 0 <= i /\ i < Len(text) THEN text[i + 1] ELSE Undefined

\* a - b and a + 1 on the numbers the scan produces
JsSub(a, b) ==
    CASE a = Infinity /\ b = Infinity -> NaN
      [] a = Infinity                 -> Infinity
      [] OTHER                        -> a - b

JsInc(a) == IF a = Infinity THEN Infinity ELSE a + 1

\* text.substring(from, to) for from <= to
Substring(text, from, to) ==
    LET end == IF to > Len(text) THEN Len(text) ELSE to
    IN  SubSeq(text, from + 1, end)

\* text.indexOf('\x1b', position), -1 replaced by text.length (parseLine)
NextEscOffset(text, position) ==
    LET found == {i \in position..(Len(text) - 1) : text[i + 1] = ESC}
    IN  IF found = {} THEN Len(text) ELSE Min(found)

\* indexOf(input, delimeters, position): Math.min over the delimiters found,
\* which is Infinity (not -1) when none is found
IndexOfAny(text, delims, position) ==
    LET found == {i \in position..(Len(text) - 1) : text[i + 1] \in delims}
    IN  IF found = {} THEN Infinity ELSE Min(found)

-----------------------------------------------------------------------------
(* Colours and styles (ColorFlags, NamedColor, AttributeFlags, Style)      *)

NamedFlag == 2^24
BrightFlag == 2^25

Named(n) == NamedFlag | n
\* faulty variant: ColorFlags.Bright without ColorFlags.Named
BrightNamedNoNamed(n) == BrightFlag | n

BrightNamed(n) == (NamedFlag | BrightFlag) | n
Rgb(r, g, b) == ((r * 2^16) | (g * 2^8)) | b

DefaultBackground == NamedFlag | 240
DefaultForeground == NamedFlag | 241

AttrNames == {"Bold", "Faint", "Italic", "Underline", "SlowBlink", "RapidBlink",
              "Inverse", "Conceal", "CrossedOut", "Fraktur", "DoubleUnderline",
              "Proportional", "Framed", "Encircled", "Overlined", "Superscript",
              "Subscript"}

DefaultStyle == [bg |-> DefaultBackground, fg |-> DefaultForeground,
                 attrs |-> {}, font |-> 0]

\* A span: the style snapshot, its offset and length, and whether it is an
\* escape sequence (AttributeFlags.EscapeSequence).
\* faulty variant: an escape span ends before its terminator
\* (length: commandOffset - index)
MkSpanEscapeShort(style, offset, length, escape) ==
    [style |-> style, offset |-> offset,
     length |-> IF escape THEN length - 1 ELSE length, escape |-> escape]

MkSpan(style, offset, length, escape) ==
    [style |-> style, offset |-> offset, length |-> length, escape |-> escape]

-----------------------------------------------------------------------------
(* #applyCodes                                                             *)

\* the attribute flags each code sets and clears
AttrOn ==
    (1 :> {"Bold"}) @@ (2 :> {"Faint"}) @@ (3 :> {"Italic"}) @@
    (4 :> {"Underline"}) @@ (5 :> {"SlowBlink"}) @@ (6 :> {"RapidBlink"}) @@
    (7 :> {"Inverse"}) @@ (8 :> {"Conceal"}) @@ (9 :> {"CrossedOut"}) @@
    (20 :> {"Fraktur"}) @@
    (21 :> IF DoubleUnderline THEN {"DoubleUnderline"} ELSE {}) @@
    (26 :> {"Proportional"}) @@ (51 :> {"Framed"}) @@ (52 :> {"Encircled"}) @@
    (53 :> {"Overlined"}) @@ (73 :> {"Superscript"}) @@ (74 :> {"Subscript"}) @@
    [c \in {22, 23, 24, 25, 27, 28, 29, 50, 54, 55} |-> {}]

AttrOff ==
    (1 :> {"Faint"}) @@ (2 :> {"Bold"}) @@ (3 :> {"Fraktur"}) @@
    (4 :> {"DoubleUnderline"}) @@ (5 :> {"RapidBlink"}) @@ (6 :> {"SlowBlink"}) @@
    (20 :> {"Italic"}) @@
    (21 :> IF DoubleUnderline THEN {"Underline"} ELSE {"Bold"}) @@
    (22 :> {"Bold", "Faint"}) @@ (23 :> {"Italic", "Fraktur"}) @@
    (24 :> {"Underline", "DoubleUnderline"}) @@
    (25 :> {"SlowBlink", "RapidBlink"}) @@ (27 :> {"Inverse"}) @@
    (28 :> {"Conceal"}) @@ (29 :> {"CrossedOut"}) @@ (50 :> {"Proportional"}) @@
    (51 :> {"Encircled"}) @@ (52 :> {"Framed"}) @@
    (54 :> {"Framed", "Encircled"}) @@ (55 :> {"Overlined"}) @@
    (73 :> {"Subscript"}) @@ (74 :> {"Superscript"}) @@
    [c \in {7, 8, 9, 26, 53} |-> {}]

\* style.attributeFlags |= on; style.attributeFlags &= ~off
ApplyAttr(attrs, code) == (attrs \cup AttrOn[code]) \ AttrOff[code]

\* #convert8BitColor
Convert8BitColor(color) ==
    CASE color \in 0..7     -> Named(color)
      [] color \in 8..15    -> BrightNamed(color - 8)
      [] color \in 232..255 ->
            LET intensity == (255 * (color - 232)) \div 23
            IN  Rgb(intensity, intensity, intensity)
      [] OTHER ->
            LET color6 == color - 16
                b6 == color6 % 6
                g6 == (color6 \div 6) % 6
                r6 == (color6 \div 6) \div 6
            IN  Rgb((255 * r6) \div 5, (255 * g6) \div 5, (255 * b6) \div 5)

\* args[j]; a missing argument is undefined, which no comparison accepts
Arg(args, j) == IF j \in 1..Len(args) THEN args[j] ELSE -1

\* case 38 / case 48: the extended colour that follows code args[i], and the
\* index of the last argument it consumes
ExtendedColor(args, i, current) ==
    LET colorType == Arg(args, i + 1)
        InByte(x) == x >= 0 /\ x <= 255
    IN  CASE colorType = 5 ->
                LET c == Arg(args, i + 2)
                IN  <<IF InByte(c) THEN Convert8BitColor(c) ELSE current, i + 2>>
          [] colorType = 2 ->
                LET r == Arg(args, i + 2)
                    g == Arg(args, i + 3)
                    b == Arg(args, i + 4)
                IN  <<IF InByte(r) /\ InByte(g) /\ InByte(b)
                         THEN Rgb(r, g, b) ELSE current, i + 4>>
          [] OTHER -> <<current, i>>

RECURSIVE ApplyFrom(_, _, _)
ApplyFrom(args, i, style) ==
    IF i > Len(args) THEN style
    ELSE
      LET code == args[i]
          fgExt == ExtendedColor(args, i, style.fg)
          bgExt == ExtendedColor(args, i, style.bg)
      IN
      CASE code = 0 -> ApplyFrom(args, i + 1, DefaultStyle)
        [] code \in DOMAIN AttrOn ->
              ApplyFrom(args, i + 1, [style EXCEPT !.attrs = ApplyAttr(@, code)])
        [] code \in 10..19 ->
              ApplyFrom(args, i + 1, [style EXCEPT !.font = code - 10])
        [] code \in 30..37 ->
              ApplyFrom(args, i + 1, [style EXCEPT !.fg = Named(code - 30)])
        [] code = 38 -> ApplyFrom(args, fgExt[2] + 1, [style EXCEPT !.fg = fgExt[1]])
        [] code = 39 -> ApplyFrom(args, i + 1, [style EXCEPT !.fg = DefaultForeground])
        [] code \in 40..47 ->
              ApplyFrom(args, i + 1, [style EXCEPT !.bg = Named(code - 40)])
        [] code = 48 -> ApplyFrom(args, bgExt[2] + 1, [style EXCEPT !.bg = bgExt[1]])
        [] code = 49 -> ApplyFrom(args, i + 1, [style EXCEPT !.bg = DefaultBackground])
        [] code \in 90..97 ->
              ApplyFrom(args, i + 1, [style EXCEPT !.fg = BrightNamed(code - 90)])
        [] code \in 100..107 ->
              ApplyFrom(args, i + 1, [style EXCEPT !.bg = BrightNamed(code - 100)])
        \* 58, 59 (underline colours) and unknown codes are ignored
        [] OTHER -> ApplyFrom(args, i + 1, style)

ApplyCodes(args, style) == ApplyFrom(args, 1, style)

-----------------------------------------------------------------------------
(* #parseLine                                                              *)

Digits == {"0", "1", "2", "3", "4", "5", "6", "7", "8", "9"}

DigitValue(d) == CHOOSE v \in 0..9 : <<"0", "1", "2", "3", "4", "5", "6", "7",
                                        "8", "9">>[v + 1] = d

\* /^[0-9;]*$/.test(argString)
ArgsValid(argString) == \A i \in 1..Len(argString) : argString[i] \in Digits \cup {";"}

\* argString.split(';').filter(arg => arg !== '').map(parseInt), [0] if empty
ParseArgs(argString) ==
    LET Step(acc, c) ==
            IF c = ";"
              THEN <<IF acc[2] = <<>> THEN acc[1] ELSE Append(acc[1], acc[3]), <<>>, 0>>
              ELSE <<acc[1], Append(acc[2], c), 10 * acc[3] + DigitValue(c)>>
        done == FoldLeft(Step, <<<<>>, <<>>, 0>>, argString)
        args == IF done[2] = <<>> THEN done[1] ELSE Append(done[1], done[3])
    IN  IF args = <<>> THEN <<0>> ELSE args

\* One iteration of the while loop per call; returns <<spans, style>>.
RECURSIVE Scan(_, _, _, _, _)
Scan(text, index, textOffset, style, spans) ==
    LET Finish == <<Append(spans, MkSpan(style, textOffset,
                                         JsSub(index, textOffset), FALSE)),
                    style>>
    IN
    IF ~(index < Len(text)) THEN Finish
    ELSE IF Ch(text, index) # ESC THEN
        LET escOffset == NextEscOffset(text, index)
        IN  Scan(text, escOffset, escOffset, style,
                 Append(spans, MkSpan(style, textOffset, escOffset - textOffset, FALSE)))
    ELSE IF index = Len(text) - 1 THEN Finish
    ELSE IF Ch(text, index + 1) # "[" THEN Scan(text, index + 1, textOffset, style, spans)
    ELSE
        LET commandOffset == IndexOfAny(text, {"K", "m"}, index + 2)
            argString == Substring(text, index + 2, commandOffset)
            next == JsInc(commandOffset)
        IN
        IF ~ArgsValid(argString) THEN Scan(text, commandOffset, textOffset, style, spans)
        ELSE
            LET escape == MkSpan(style, index, JsSub(next, index), TRUE)
                style2 == IF Ch(text, commandOffset) = "m"
                            THEN ApplyCodes(ParseArgs(argString), style)
                            ELSE style
            IN  Scan(text, next, next, style2, Append(spans, escape))

\* #parseLine(text, this.#finalStyle)
ParseLine(text, style) == Scan(text, 0, 0, style, <<>>)

=============================================================================
