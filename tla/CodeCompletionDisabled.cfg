\* Two requests, up to three providers constructed; the extension starts
\* with either setting value.
CONSTANTS
    Requests = {r1, r2}
    MaxProviders = 3
    NoProvider = NoProvider
    NoCall = NoCall
INIT Init
NEXT Next
INVARIANT NoSuggestionsWhileDisabled
CHECK_DEADLOCK FALSE
