SPECIFICATION Spec
CONSTANTS
    Model = {a, b}
    NoModel = NoModel
    Selected = a
    Download = {1}
    MaxClicks = 3
    MaxSegments = 1
INVARIANTS WindowAgreesWithHost PageFollowsItsJob UnloadSparesTranslation
PROPERTIES CancelledNeverLoads ShellUnlocks TranslationEnds
CHECK_DEADLOCK FALSE
