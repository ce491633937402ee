\* Three makefiles in two directories that include each other in every way,
\* and every component makefile of up to four lines of every kind.
SPECIFICATION Spec
CONSTANTS
    root = root
    mk = mk
    sub = sub
    d1 = d1
    d2 = d2
    i1 = i1
    i2 = i2
    x = x
    y = y
    t1 = t1
    t2 = t2
    None = None
    Files = {root, mk, sub}
    Dirs = {d1, d2}
    Vars = {x, y}
    Texts = {root, mk, sub, t1, t2}
    Includes = {i1, i2}
    Root = root
    RootDirs = {d1, None}
    DirOf <- InDir
    Canon <- Lookup
    Trees <- AllTrees
    StackLimit = 3
INVARIANTS
    TypeOK
    IncludesOfOwnDir
    OverflowOnlyOnIncludeCycle
    HasOneValue
    LastDefinitionWins
PROPERTIES
    ReadingEnds
CHECK_DEADLOCK FALSE
