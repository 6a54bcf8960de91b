SPECIFICATION Spec
CONSTANTS
    Kinds = {"skill"}
    Own = {"u"}
    First = {"u"}
    Shipped = {"p"}
    Bundled = {"q"}
    Names = {"g"}
    Offered = {"h"}
    MaxCalls = 4
INVARIANT SettingsSurvive
CHECK_DEADLOCK FALSE
