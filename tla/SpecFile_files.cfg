\* Every spec file of up to four lines, and up to six of fewer sorts.
SPECIFICATION Spec
CONSTANTS
    NewLine = NewLine
    NoText = NoText
    KnownVariables = {"Name"}
    VariableNames = {"Name", "Vendor"}
    SectionNames = {"build", "files", "post"}
    Texts = {"word", "phrase"}
    Words = {"word"}
    Files <- AllFiles
INVARIANTS
    TypeOK
    SectionsByLayout
    LastSettingWins
    PanicExplained
CHECK_DEADLOCK FALSE
