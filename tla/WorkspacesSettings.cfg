SPECIFICATION WorkspacesSpec
CONSTANTS
    Names = {"default", "w"}
    CustomPaths = {"p"}
    ExternalNames = {"x"}
    Commands = {c1}
    MaxStarts = 3
    MaxFailures = 0
PROPERTY ExternalAgentsStay
CHECK_DEADLOCK FALSE
