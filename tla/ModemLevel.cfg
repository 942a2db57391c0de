\* A modem whose answers may have other data than its commands.
SPECIFICATION Spec
CONSTANTS
    Clocks = {"sdc1", "sdc3"}
    Numbered = {"sdc1"}
    Regulators = {"mmc"}
    SdcRegulator = "gp6"
INVARIANTS
    LevelBeforeOn
CHECK_DEADLOCK FALSE
