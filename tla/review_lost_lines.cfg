CONSTANTS
    BaseTexts <- MCReviewed
    Replacements <- MCProposed
    EditLists = {}
    LineFeed = "nl"
    NoResult = NoResult
SPECIFICATION EditSpec
INVARIANT KeptChangesAreTheEdit
CHECK_DEADLOCK FALSE
