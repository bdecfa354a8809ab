SPECIFICATION Spec
CONSTANTS
    r1 = r1
    r2 = r2
    s1 = s1
    s2 = s2
    b1 = b1
    u1 = u1
    u2 = u2
    f1 = f1
    f2 = f2
    f3 = f3
    f4 = f4
    t1 = t1
    t2 = t2
    m1 = m1
    m2 = m2
    m3 = m3
    None = None
    Edits = {r1, r2}
    Persons = {u1, u2}
    Admins = {u2}
    ShareLists = {{u1}, {u2}}
    SourceIds = {s1, s2}
    Rows = {f1, f2, f3, f4}
    BaseIds = {b1}
    PageSize = 1
    Tabs = {t1}
    Viewings = {t2}
    MaxTasks = 3
    ComponentCount = 3
    Styled = {2, 3}
    References <- ReferenceLists
    StartingTexts <- StyledTexts
    FileCount = 1
    ClassCount = 3
    ClassNames = {"E", "a", "b"}
    WellNamed = {"E"}
    RootNames = {"E"}
    Positions = {1, 2}
    PythonFiles <- CommitFiles
    Models = {m1, m2, m3}
    Hidden = {m3}
    Headers = {"doc", "prose", "none"}
    Templates = {"page", "part"}
    Texts <- TemplateTexts
    Contexts <- ProvidedNames
    BuiltinNames = {"loop"}
SYMMETRY Symmetry
CHECK_DEADLOCK FALSE
PROPERTIES
    ReplacementReplaces
