SPECIFICATION FairSpec
CONSTANTS
    r1 = r1
    r2 = r2
    t1 = t1
    t2 = t2
    f1 = f1
    f2 = f2
    c1 = c1
    Request = {r1, r2}
    Token = {t1, t2}
    SelfIssued = {}
    Owner <- OneOwner
    Unnamed = Unnamed
    Fingerprint = {f1, f2}
    Capacity = 1
    SessionLimit = 1
INVARIANT SlotsAreCounted
 
PROPERTY StrangersStayOut
PROPERTY SlotsComeBack
CHECK_DEADLOCK FALSE
