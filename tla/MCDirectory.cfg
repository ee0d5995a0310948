SPECIFICATION FairSpec
CONSTANTS
    a1 = a1
    a2 = a2
    s1 = s1
    s2 = s2
    p1 = p1
    p2 = p2
    l1 = l1
    l2 = l2
    c1 = c1
    NoUser = nouser
    NoSubject = nosubject
    NoCountry = nocountry
    Addresses = {a1, a2}
    Subjects = {s1, s2}
    Tokens <- MCTokens
    Countries = {c1}
    Listings <- MCListings
    Passes = {p1}
    Logins = {l1}
    Root = a1
    MaxChanges = 2
CHECK_DEADLOCK FALSE
INVARIANTS
    TypeOK
    FlipsAreAudited
    NobodyPresentIsRetired
PROPERTIES
    LinksAreForLife
    EventuallyMirrored
