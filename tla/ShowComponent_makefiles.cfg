\* Makefiles in which up to three variables differ from a complete one.
SPECIFICATION ShowSpec
CONSTANTS
    NewLine = "newline"
    None = None
    Unparsable = Unparsable
    StackLimit = 3
    Vars <- AllVars
    Texts = {"1.2.3", "1.2", "rev", "7", "url", "hash", "cmake", "configure", "0", "newline"}
    Makefiles <- AllMakefiles
    SemVers <- MCSemVers
    Integers32 <- MCIntegers
    ValidUrls <- MCUrls
    Styles <- MCStyles
    Answers <- AllAnswers
    Zero <- MCZero
    Configure <- MCConfigure
INVARIANTS
    ShowTypeOK
    OutputComplete
    ComponentAsPrinted
    NewestIsHighest
PROPERTIES
    CommandEnds
CHECK_DEADLOCK FALSE
