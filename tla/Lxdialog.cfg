SPECIFICATION Spec
CONSTANTS
    Nothing = Nothing
    MaxItems = 5
    MaxHeight = 3
    Letters <- MCLetters
    Hot <- MCHot
    ListHeight = 3
    Chars <- MCChars
    BoxWidth = 3
    MaxLen = 5
    Inits <- MCInits
    MaxLines = 5
    BoxHeights = {1, 2, 4}
    JumpNb = 2
    MaxListed = 5
    MaxShown = 3
INVARIANTS
    ShowsItems
    FieldShowsString
    KeepsPlace
    KeysMatchPage
PROPERTIES
    MenuComesBack
    NoLineMissed
    SearchFinds
CHECK_DEADLOCK FALSE
