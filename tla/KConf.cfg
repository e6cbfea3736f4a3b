SPECIFICATION Spec
CONSTANTS
    Names = {"MODULES", "A", "B", "C", "D", "E", "F", "I", "S", "CH", "CX", "CY", "CZ", "TC", "P", "Q"}
    Literals = {"y", "m", "n", "0", "5", "9", "10", "s1", "s2"}
    MaxDepth = 8
    Type <- MCType
    Quoted <- MCQuoted
    Number <- MCNumber
    Ascii <- MCAscii
    Modules = "MODULES"
    TreeNames = {"select", "choice", "numbers", "modchoice", "menus", "loop"}
    MaxLines <- MCMaxLines
INVARIANTS
    CacheUpToDate
    AnswerHonoured
PROPERTIES
    ReadsBack
    MinimalRestores
    SyncTogether
    ValuesJustified
    QuestionsEnd
CHECK_DEADLOCK FALSE
