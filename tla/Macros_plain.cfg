\* Text without a macro.
SPECIFICATION Spec
CONSTANTS
    Words = {"w", "x"}
    Names = {"proto_dir", "source_dir", "buildroot"}
    Defined = {"proto_dir", "source_dir"}
    Scripts <- AllScripts
INVARIANTS
    PlainTextExpands
CHECK_DEADLOCK FALSE
