SPECIFICATION Spec
CONSTANTS
    Login = {l1, l2}
    FirstLogin = l1
    Nothing = Nothing
    MaxGeneration = 3
    MaxSessionId = 0
    MaxOptions = 0
    MaxReloads = 2
    UserActs = {"new_login", "save_while_starting"}
INVARIANTS
    LoadedRuntimeIsCurrent
