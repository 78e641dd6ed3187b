CONSTANTS
    Files <- MCFiles
    Values <- MCValues
    Texts <- MCTexts
    Zero = "0"
    NulText = "nul"
    PageLimit = 8
SPECIFICATION Spec
INVARIANT ShippedFilesAreRead
CHECK_DEADLOCK FALSE
