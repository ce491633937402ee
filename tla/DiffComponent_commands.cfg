\* Up to three commands and edits on one directory without replacements, and
\* one command with every list of up to three replacements.
SPECIFICATION Spec
CONSTANTS
    Atoms = {"x", "y", "s p", "lib", "li", "1", "$(VER)", "$(MINOR)", "$()"}
    Refs = {"$(VER)", "$(MINOR)", "$()"}
    NullRef = "$()"
    Spaces = {"s p"}
    Paths <- PathSet
    CutPath <- CutShort
    Manifests = {"main.p5m", "out.p5m"}
    Sample = "manifests/sample-manifest.p5m"
    Outside = "outside"
    Existing <- Kept
    Scenarios = {"plain", "replace"}
    Arguments <- MCArguments
    Disks <- MCDisks
    Edits <- MCEdits
    MaxEvents <- ThreeOrOne
    Malformed = Malformed
    NotThere = NotThere
    None = None
INVARIANTS
    TypeOK
    CoveredAfterwards
    OutputReadsBack
    PanicHasCause
    ReportsAgree
    OrderIrrelevant
PROPERTIES
    CommandEnds
CHECK_DEADLOCK FALSE
