CONSTANTS
    Texts <- TextsMC
    MaxIds = 3
    MaxPresses = 2
SPECIFICATION Spec
INVARIANTS
    TypeOK
    ShownHotkeyWorks
    OnlyTheShownToggles
PROPERTY ShownShortcutKept
