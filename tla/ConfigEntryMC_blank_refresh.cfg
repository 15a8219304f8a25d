SPECIFICATION Spec
CONSTANTS
    Login = {l1, l2}
    FirstLogin = l1
    Nothing = Nothing
    MaxGeneration = 3
    MaxSessionId = 1
    MaxOptions = 1
    MaxReloads = 2
    UserActs = {"access_token_only"}
PROPERTIES
    EditKeepsToken
