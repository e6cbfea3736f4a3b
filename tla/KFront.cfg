SPECIFICATION Spec
CONSTANTS
    Names = {"MODULES", "A", "B", "C", "D", "E", "F", "I", "S", "CH", "CX", "CY", "CZ", "TC", "P", "Q"}
    Literals = {"y", "m", "n", "0", "5", "9", "10", "s1", "s2"}
    MaxDepth = 8
    Type <- MCType
    Quoted <- MCQuoted
    Number <- MCNumber
    Ascii <- MCAscii
    Modules = "MODULES"
    TreeNames = {"menus", "panel", "under", "numbers", "modchoice", "picks"}
    RowTrees = {"menus", "panel", "under", "picks"}
    FileNames = {".config", "other"}
    Strings = {"s2", "0", "5"}
    MaxActs <- MCActs
INVARIANTS
    QuitKeeps
    EveryQuestionReachable
    ShownIsCurrent
    TreeUpToDate
CHECK_DEADLOCK FALSE
