\* The same makefiles, against what parse_variable has an arm for.
SPECIFICATION Spec
CONSTANTS
    root = root
    mk = mk
    sub = sub
    d1 = d1
    d2 = d2
    i1 = i1
    i2 = i2
    x = x
    y = y
    t1 = t1
    t2 = t2
    None = None
    Files = {root, mk, sub}
    Dirs = {d1, d2}
    Vars = {x, y}
    Texts = {t1, t2}
    Includes = {i1, i2}
    Root = root
    RootDirs = {d1, None}
    DirOf <- InDir
    Canon <- Lookup
    Trees <- LineTrees
    StackLimit = 3
PROPERTIES
    AddAppends
CHECK_DEADLOCK FALSE
