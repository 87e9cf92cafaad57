\* Shutdown while a poll is in flight.
CONSTANTS
    r1 = r1  r2 = r2  rbad = rbad  c1 = c1  c2 = c2  d1 = d1  d2 = d2
    Raw <- MCRaw
    Canon <- MCCanon
    Digest <- MCDigest
    Normalize <- MCNormalize
    SHA <- MCSHA
    Absent = Absent
    NoSHA = NoSHA
    NoDoc = NoDoc
    Jobs = {j1}
    Resyncs = {}
    Interval = 30
    MaxWrites = 3
SPECIFICATION Spec
PROPERTY NoEmitAfterCancel
