\* Every action with up to two properties, some files with three, and every
\* sequence of up to four of some actions.
SPECIFICATION Spec
CONSTANTS
    Atoms = {"", "a", "b", "h", "t", "f", "z", "gzip", "file", "sha1",
             "sha512t", "sha3512t", "md5"}
    Empty = ""
    OtherKeys = {"x", "license"}
    FacetKeys = {"facet.doc", "facet.devel"}
    FacetName <- Facets
    TrueTexts <- Yes
    FalseTexts <- No
    Algorithms = {"sha1", "sha512t", "sha3512t"}
    Sources = {"gzip", "file", "unknown", "PrimaryPayloadHash"}
    Manifests <- Small
    Malformed = Malformed
    None = None
INVARIANTS
    TypeOK
    NothingElseLost
    DigestRoundTrip
CHECK_DEADLOCK FALSE
