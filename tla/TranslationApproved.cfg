CONSTANTS
    Editors = {e1}
    Readers = {u1}
    Texts = {0, 1}
    MaxJobs = 3
    MaxRetries = 2
    Allowed = {"overrides"}
SPECIFICATION Spec
CHECK_DEADLOCK FALSE
PROPERTY
    ApprovedIsKept
