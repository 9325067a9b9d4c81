SPECIFICATION Spec
CONSTANTS
    Logins = {l1, l2}
    Admins = {a1}
    InviteIds = {v1}
    Subs = {s1, s2}
    Emails = {e1, e2}
    Allowlisted = {e1}
    None = None
INVARIANTS IInv OnePrincipalPerSub SessionIdentity NoSessionForBarred
PROPERTIES IdentityStable ImplementsAccounts LoginTerminates
CHECK_DEADLOCK FALSE
