\* Traces of up to five pieces whose lines are never a lone CR (the
\* blank line of a CR LF log is checked in LogTransformBlankCR.cfg).
CONSTANTS
    ESC = ESC
    NaN = NaN
    DoubleUnderline = FALSE
    NoEnd = NoEnd
    NoResult = NoResult
    Directives <- MCDirectives
    Traces <- MCTracesLF
INIT Init
NEXT Next
INVARIANTS
    TypeOK
    RangesTileFilteredText
CHECK_DEADLOCK FALSE
