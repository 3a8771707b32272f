SPECIFICATION FairSpec
CONSTANTS
    r1 = r1
    r2 = r2
    old = old
    one = one
    two = two
    cut = cut
    Release = {r1, r2}
    VersionOf <- MCVersionOf
    Payload = {old, one, two, cut}
    Signed = {old, one, two}
    Cut = cut
    Factory <- MCFactory
    Builds <- MCBuilds
    Indexes <- MCIndexes
    Missing = Missing
    EmptyVersion = ""
    DefaultVersion = "1.0.0"
    Version <- MCVersion
    Numbers <- MCNumbers
    Kept <- MCKept
    MaxUploads = 6
    MaxFaults = 2
INVARIANTS TypeOK OnlySignedForwarded
PROPERTIES NeverDowngrades NewerForManager UpdateArrives
