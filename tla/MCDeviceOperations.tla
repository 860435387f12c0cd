------------------------- MODULE MCDeviceOperations -------------------------
EXTENDS DeviceOperations

CONSTANTS s1, s2

MCMaxCalls == 2
MCMaxPolls == 3
MCScreens == {s1, s2}
MCAsks ==
  { NoAsk,
    [plain |-> "allow", rare |-> "none", overlay |-> "unset"],
    [plain |-> "deny", rare |-> "allow", overlay |-> "none"],
    [plain |-> "unset", rare |-> "other", overlay |-> "allow"],
    [plain |-> "other", rare |-> "none", overlay |-> "other"] }
=============================================================================
