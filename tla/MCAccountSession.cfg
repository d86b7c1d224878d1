\* Limits on turns, contents and calls are out of reach; MCTurnStory and
\* MCActionConsent reach them.  The session may end.
SPECIFICATION MCSpec
CONSTANTS
    None = None
    Nil = Nil
    Malformed = Malformed
    logout = logout
    signOut = signOut
    beginLogin = beginLogin
    Opening = Opening
    Welcome = Welcome
    Login = Login
    Inputs = {a, Opening}
    Generated = {g}
    MaxTurns = 128
    MaxContents = 1024
    MaxPairs = 1
    Items = {x}
    Parts = {p}
    CallIDs = {c, Welcome}
    Keys = {logout, Login}
    Tools = {signOut, beginLogin}
    ToolOf <- MCToolOf
    Policy <- MCPolicy
    DirectTools = {beginLogin}
    UITools = {signOut}
    MaxCalls = 128
    TTL = 1
    MaxTime = 1
    MaxActive = 1
    MaxRenewals = 1
    alice = alice
    Logins = {alice}
    MaxLogins = 1
    MaxRequests = 4
    Updates = {"u1", "u2", "u3"}
    OperationKeys = {"k1", "k2"}
    Changes = {"x", "y"}
CONSTRAINT Short
VIEW Moving
CHECK_DEADLOCK FALSE
INVARIANTS
    AccountInv
    RespondingIsTimed
    BootstrapIsUnheard
    RedeemedOnce
    RevokedForGood
    StaysSignedIn
    UpdatedInOrder
PROPERTIES
    LoginIsAnswered
    ModelJobsOfTheLiveTurn
    ConsentStaysOnItsStream
