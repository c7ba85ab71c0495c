SPECIFICATION FairSpec
CONSTANTS
    Procs = {idle, sh, app}
    idle_proc = idle
    Shells = {sh}
    Raised = {0, 1, 3}
    NULL = NULL
CHECK_DEADLOCK FALSE
INVARIANTS Handled Resumes
PROPERTY Served
