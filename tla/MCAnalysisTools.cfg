CONSTANTS
    top = top
    sub = sub
    s1 = s1
    s2 = s2
    Dir = {top, sub}
    Top = top
    Within <- MCWithin
    SolFile = {s1, s2}
    DirOf <- MCDirOf
    Layouts <- MCLayouts
    Detector = {"reentrancy"}
    Source = {s1, s2}
    Uploads <- MCUploads
    Template <- MCTemplate
    Example = {"c1"}
SPECIFICATION Spec
INVARIANTS
    GoodFilesCount
    FailuresAreFaithful
    EveryFileIsTried
