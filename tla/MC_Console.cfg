CONSTANTS
    Request = {r1, r2}
    Browser = {b1}
    User <- MCUser
    Password <- MCPassword
    DashboardUser = "admin"
    DashboardPasswords = {"shipped", "blank"}
    Blank = "blank"
    Offer <- MCOffer
    None = None
    Incident <- MCIncident
    Views <- MCViews
    Alike <- MCAlike
    MaxRow = 2
SPECIFICATION LiveSpec
PROPERTIES CredentialWhole SwitchFollowsClicks PairOnce UnlinkExact Recoverable
