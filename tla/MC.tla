--------------------------------- MODULE MC ---------------------------------
(* Small instances of Service for TLC: two well-formed documents, one the *)
(* converter rejects, and the key's absence; one digest per text.         *)
EXTENDS Service, Connector, TLC

CONSTANTS r1, r2, rbad, c1, c2, d1, d2

MCRaw == {r1, r2, rbad}
MCCanon == {c1, c2}
MCDigest == {d1, d2}
MCNormalize == (r1 :> c1) @@ (r2 :> c2) @@ (rbad :> ConvErr)
MCSHA == (c1 :> d1) @@ (c2 :> d2)

\* The interval the CLI's NewService hands to the provider for --redis-interval=0
\* and a well-formed URI (redis://localhost/0?key=flags).
MCZeroInterval ==
    NewService([uri |-> [parsed |-> TRUE, scheme |-> "redis", host |-> "localhost",
                         path |-> <<"/", "0">>, user |-> NoUser, key |-> "flags"],
                interval |-> 0, storeOk |-> TRUE, grpcOk |-> TRUE]).interval
=============================================================================
