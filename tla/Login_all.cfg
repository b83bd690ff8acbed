CONSTANTS
    AuthConns = {1, 2}
    GameConns = {g1, g2}
    Accounts = {"alice", "bob"}
    AccountID <- MCAccountID
    MaxRead = 2
    Scenes <- MCScenes
SPECIFICATION Spec
CHECK_DEADLOCK FALSE
INVARIANTS AdmittedOnce RefusedForCause
PROPERTIES LoginSettles
