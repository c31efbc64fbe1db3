SPECIFICATION Spec
CONSTANTS
    MaxFailures = 2
    MaxEvents = 2
INVARIANT TakenBackOnlyByRace
PROPERTIES GhostsFade ConnectsOrStuck
