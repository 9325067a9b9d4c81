SPECIFICATION Spec
CONSTANTS
    ann = ann
    eve = eve
    Tabs = {t1, t2}
    Pages = {home, doc, away, dev}
    Domain = {home, doc}
    Local = {dev}
    Home = home
    People = {ann, eve}
    Verified <- MCVerified
    RequireVerifiedEmail = TRUE
    Admitted = {ann, eve}
    SessionIds = {s1, s2, s3}
    MaxUpsets = 1
    None = None
INVARIANTS SignInIInv LandsAsItsOwn OnlyGuests
PROPERTIES RefusedOnlyIfCrossed SignInEnds
CHECK_DEADLOCK FALSE
