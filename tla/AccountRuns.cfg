\* An account and a newcomer, and every interleaving of three requests;
\* and two passes over what is recommended to one user.
SPECIFICATION HalvesSpec
CONSTANTS
    alice = alice
    e1 = e1
    h1 = h1
    Users = {alice, bob}
    Handles = {h1, h2, h3}
    Emails = {e1, e2}
    Invites = {i}
    Requests = {p, q, r}
    Hints <- OpenInvites
    Founders <- OneFounder
    First = First
    NoUser = NoUser
    NoInvite = NoInvite
    AnyEmail = AnyEmail
    Never = Never
    Nobody = Nobody
    Open = Open
    InviteRequired = FALSE
    MaxReleases = 2
    TokensPerMinute = 1
    Readers = {u1}
    Catalog = {s1, s2}
    Passes = {p1, p2}
    None = None
    Floor = 1
    Limit = 1
    MinJudged = 1
    MaxNothing = 1
    MaxStarts = 2
    MaxActs = 2
SYMMETRY Symmetry
CHECK_DEADLOCK FALSE
INVARIANTS HandlesAccounted NoInheritance VerifiedMailbox
    SessionsCurrent RedeemedOnce PaidOnce
PROPERTIES ShownStands SkipKeepsWhole
