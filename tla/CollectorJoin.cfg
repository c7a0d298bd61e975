\* The collector thread ends while Stop(true) runs.
CONSTANTS
    Clients = {c1}
    Objects = {o1}
    NULL = NULL
    IdModulus = 2
    WrapIds = FALSE
SPECIFICATION Spec
INVARIANT StopJoinsThread
