CONSTANTS
    Login = {l1, l2}
    SecondLogin = l2
    CodexId = {x}
    KeyId = {k}
    Hook = {main, settings}
    MainHook = main
    MaxUser = 1
    MaxCrash = 1
SPECIFICATION MCSpec
INVARIANTS
    ListedHasSecret
PROPERTIES
    SignInIsListed
    SignInIsCarried
CHECK_DEADLOCK FALSE
