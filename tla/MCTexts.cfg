SPECIFICATION MCSpec
CONSTANTS
    Chord = {"CtrlGrave", "CtrlK", "C", "F13"}
    Naked = {"C"}
    Unknown = {"F13"}
    Shortcut <- MCShortcut
    Default <- MCDefault
    CutShort <- MCCutShort
INVARIANTS
    DocumentInv SplitFits OutputIsDelivered
    ShortcutAgrees
PROPERTIES
    OutputsStay
    FailedChangeIsUndone
CHECK_DEADLOCK FALSE
