\* Three notices may wait, two warnings in a launch.
SPECIFICATION Spec
CONSTANTS
    MaxNotices = 3
    MaxWarnings = 2
INVARIANTS
    TypeOK
    ConfirmedScriptIsCurrent
    ConfirmedShortcutWorks
    SparedAtMostAsOftenAsAsked
PROPERTIES
    AskedQuitIsSpared
