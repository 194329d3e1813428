SPECIFICATION FairSpec
CONSTANTS
    Request = {r1, r2, r3}
    Threshold = 2
    Cooldown = 2
    Deadline = 2
INVARIANT TrippedIffThreshold
INVARIANT HalfOpenHasProbe
PROPERTY OutageSparesUpstream
PROPERTY RecoversUnlessLost
