CONSTANTS
    Texts <- TextsMC
    MaxIds = 3
    MaxPresses = 2
SPECIFICATION Spec
PROPERTIES
    ReturnReuses
