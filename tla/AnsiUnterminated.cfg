CONSTANTS
    ESC = ESC
    NaN = NaN
    DoubleUnderline = FALSE
    Lines <- UnterminatedLines
    MaxLines = 1
INIT Init
NEXT Next
INVARIANT SpansTileLine
CHECK_DEADLOCK FALSE
