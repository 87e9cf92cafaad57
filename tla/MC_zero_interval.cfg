\* --redis-interval=0: NewService passes it to SetInterval, AddFunc("*/0 ...") is refused.
\* The interval is the one Connector!NewService computes.
CONSTANTS
    r1 = r1  r2 = r2  rbad = rbad  c1 = c1  c2 = c2  d1 = d1  d2 = d2
    Raw <- MCRaw
    Canon <- MCCanon
    Digest <- MCDigest
    Normalize <- MCNormalize
    SHA <- MCSHA
    Absent = Absent
    NoSHA = NoSHA
    NoDoc = NoDoc
    Jobs = {j1}
    Resyncs = {}
    Interval <- MCZeroInterval
    MaxWrites = 3
SPECIFICATION FairSpec
PROPERTY Convergence
