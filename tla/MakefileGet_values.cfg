\* Every makefile of up to three variables with a value of up to two tokens,
\* and some with several longer values; any sequence of lookups.
SPECIFICATION Spec
CONSTANTS
    a = a
    b = b
    c = c
    lit = lit
    NewLine = NewLine
    None = None
    Vars = {a, b, c}
    Texts = {lit, NewLine}
    StackLimit = 4
    Makefiles <- AllMakefiles
INVARIANTS
    TypeOK
    Resolved
    OverflowOnlyOnCycle
    MatchesExpansion
PROPERTIES
    LookupEnds
CHECK_DEADLOCK FALSE
