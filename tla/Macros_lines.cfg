\* Every line of up to five tokens, and every two short lines.
SPECIFICATION Spec
CONSTANTS
    Words = {"w", "x"}
    Names = {"proto_dir", "source_dir", "buildroot"}
    Defined = {"proto_dir", "source_dir"}
    Scripts <- AllScripts
INVARIANTS
    TypeOK
    NothingLost
    BlanksKeptIfWellSpaced
CHECK_DEADLOCK FALSE
