CONSTANTS
    Files <- MCFiles
    Values <- MCValues
    Texts <- MCTexts
    Zero = "0"
    NulText = "nul"
    PageLimit = 8
SPECIFICATION Spec
INVARIANTS
    TypeOK
    HalvesMakeThePieces
    SentIsTheFile
CHECK_DEADLOCK FALSE
