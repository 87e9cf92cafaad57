------------------------------ MODULE ConnectorMC ------------------------------
(***************************************************************************)
(* Construction as a one-step state machine, so that TLC checks the        *)
(* Connector operators on every input of a bounded set. The inputs are     *)
(* the parsed URI and the caller's configuration; one step builds the      *)
(* provider through NewService (the CLI path) or NewRedisSyncFromConfig    *)
(* (the path of callers that pass a SourceConfig); nothing happens after.  *)
(***************************************************************************)
EXTENDS Connector

VARIABLES uri, cfg, built

vars == <<uri, cfg, built>>

NotBuilt == [err |-> "not built"]

PathChars == {"/", "+", "-", "0", "1", "7", "x"}

\* Paths url.Parse yields for a URI with a host: empty, or "/" and up to two more characters.
Paths == {<<>>, <<"/">>} \cup {<<"/", c>> : c \in PathChars}
         \cup {<<"/", c, d>> : c, d \in PathChars}

URIs ==
    {[parsed |-> FALSE, scheme |-> "", host |-> "", path |-> <<>>, user |-> NoUser, key |-> ""]}
    \cup [parsed : {TRUE}, scheme : {"redis", "rediss", "http"}, host : {"", "h:6380"},
          path : Paths, user : {NoUser, "", "pw"}, key : {"", "flags"}]

Configs == [uri : {0}, interval : {0, 10}, tls : BOOLEAN, storeOk : BOOLEAN, grpcOk : BOOLEAN]

Init ==
    /\ uri \in URIs
    /\ cfg \in Configs
    /\ built = NotBuilt

\* service.go 343-356: the command builds the service from the flags.
BuildService ==
    /\ built = NotBuilt
    /\ built' = NewService([cfg EXCEPT !.uri = uri])
    /\ UNCHANGED <<uri, cfg>>

\* redis_sync.go 287-304, called with a SourceConfig.
BuildFromConfig ==
    /\ built = NotBuilt
    /\ built' = NewRedisSyncFromConfig([cfg EXCEPT !.uri = uri])
    /\ UNCHANGED <<uri, cfg>>

Next == BuildService \/ BuildFromConfig

Spec == Init /\ [][Next]_vars

Failures == {NotBuilt, StoreFailed, SyncServiceFailed} \cup ParseErrors

IsProvider(b) == b \notin Failures

\* The providers the bounded inputs can yield.
Providers ==
    [addr : {DefaultAddr, "h:6380"}, database : Int, password : {"", "pw"},
     key : {"flags"}, tls : BOOLEAN, clientTLS : BOOLEAN, interval : {0, 10, 30}]

TypeOK ==
    /\ uri \in URIs
    /\ built \in Failures \cup Providers

(***************************************************************************)
(* The database index as spec section 4.1 states it, read apart from the  *)
(* code: the path of "redis://host/db" is "/" followed by the segment. A  *)
(* segment of one or more decimal digits names the index it denotes, the  *)
(* sum of digit * 10^position; an absent or non-numeric segment gives 0.  *)
(* The spec does not say whether a sign followed by digits is "numeric";  *)
(* that case is left open (SignedNumeral).                                 *)
(***************************************************************************)
Segment(p) == IF p = <<>> THEN <<>> ELSE Tail(p)

Numeral(seg) == Len(seg) > 0 /\ \A i \in 1..Len(seg) : seg[i] \in DOMAIN Digit

SignedNumeral(seg) ==
    Len(seg) > 1 /\ seg[1] \in {"+", "-"} /\ Numeral(Tail(seg))

Magnitude(ds) ==
    LET k == Len(ds)
        sum[i \in 0..k] ==
            IF i = 0 THEN 0 ELSE sum[i - 1] + Digit[ds[k - i + 1]] * 10^(i - 1)
    IN  sum[k]

SpecDatabase(p) == IF Numeral(Segment(p)) THEN Magnitude(Segment(p)) ELSE 0

(***************************************************************************)
(* Unless the segment is a signed number, which the spec leaves open, the  *)
(* provider NewRedisSync builds (through either constructor) selects the   *)
(* database spec 4.1 names: the url.Parse path, the "" and "/" test, the   *)
(* TrimPrefix and strconv.Atoi of redis_sync.go 69-76 give the digits'     *)
(* value for a numeric segment and 0 for a bare "/", a doubled "/", text   *)
(* and a lone sign.                                                        *)
(***************************************************************************)
DatabaseAsSpecified ==
    IsProvider(built) /\ ~SignedNumeral(Segment(uri.path)) =>
        built.database = SpecDatabase(uri.path)

(***************************************************************************)
(* A provider reports TLS exactly when its connection uses it: the TLS     *)
(* field equals whether the client was built with a TLSConfig. Spec 3 and  *)
(* 6 let the caller's configuration override the transport security flag. *)
(* NewRedisSyncFromConfig sets rs.TLS after NewRedisSync built the client. *)
(***************************************************************************)
TLSHonoured ==
    IsProvider(built) => built.tls = built.clientTLS
================================================================================
