------------------------------- MODULE Connector -------------------------------
(***************************************************************************)
(* The construction of the Redis provider and of the service:              *)
(* NewRedisSync, SetInterval and NewRedisSyncFromConfig (redis_sync.go),   *)
(* and NewService (service.go). They are pure functions of their inputs,   *)
(* so each is an operator, not an action.                                  *)
(*                                                                         *)
(* A URI is the result of url.Parse, a record: whether it parsed, the      *)
(* scheme, the host, the path as a sequence of characters, the userinfo    *)
(* (NoUser when absent, else the password it carries, "" for none) and     *)
(* the value of the query parameter "key". The path is the only datum      *)
(* the code computes with, so it is a sequence of one-character strings.   *)
(*                                                                         *)
(* A provider is a record of the fields of Sync that matter later:         *)
(* Addr, DB, Password, Key, TLS, Interval, and clientTLS, whether the      *)
(* redis.Options the client was built from carry a TLSConfig (that is,     *)
(* whether the connection really uses TLS).                                *)
(***************************************************************************)
EXTENDS Integers, Sequences

NoUser == "<no userinfo>"

DefaultAddr == "localhost:6379"

\* The errors NewRedisSync returns, as records so that they differ from a provider.
InvalidURI    == [err |-> "invalid Redis URI"]
InvalidScheme == [err |-> "unsupported scheme"]
MissingKey    == [err |-> "Redis key must be specified"]
ParseErrors   == {InvalidURI, InvalidScheme, MissingKey}

\* The errors NewService returns besides a wrapped parse error.
StoreFailed       == [err |-> "failed to create flag store"]
SyncServiceFailed == [err |-> "failed to create sync service"]

Digit == [c \in {"0", "1", "2", "3", "4", "5", "6", "7", "8", "9"} |->
            CHOOSE n \in 0..9 :
              <<"0", "1", "2", "3", "4", "5", "6", "7", "8", "9">>[n + 1] = c]

\* strconv.Atoi's loop over the digits: n = n*10 + d, from left to right.
DigitsValue(ds) ==
    LET acc[i \in 0..Len(ds)] ==
            IF i = 0 THEN 0 ELSE acc[i - 1] * 10 + Digit[ds[i]]
    IN  acc[Len(ds)]

(***************************************************************************)
(* strconv.Atoi on a short string (the 64-bit fast path; no string here   *)
(* is long enough to overflow): an optional sign, then at least one        *)
(* digit, folded left to right as n = n*10 + d; the sign negates.          *)
(***************************************************************************)
Atoi(s) ==
    LET signed == Len(s) > 0 /\ s[1] \in {"+", "-"}
        ds     == IF signed THEN Tail(s) ELSE s
    IN  IF Len(ds) = 0 \/ \E i \in 1..Len(ds) : ds[i] \notin DOMAIN Digit
        THEN [ok |-> FALSE, n |-> 0]
        ELSE [ok |-> TRUE,
              n  |-> IF s[1] = "-" THEN -DigitsValue(ds) ELSE DigitsValue(ds)]

\* strings.TrimPrefix(path, "/")
TrimSlash(p) == IF Len(p) > 0 /\ p[1] = "/" THEN Tail(p) ELSE p

(* Mutant: the path given to Atoi without strings.TrimPrefix. *)
DatabaseOfUntrimmed(p) ==
    IF p = <<>> \/ p = <<"/">> THEN 0
    ELSE IF Atoi(p).ok THEN Atoi(p).n ELSE 0

\* Lines 69-76: the database from the path, 0 when it is absent or Atoi fails.
DatabaseOf(p) ==
    IF p = <<>> \/ p = <<"/">> THEN 0
    ELSE IF Atoi(TrimSlash(p)).ok THEN Atoi(TrimSlash(p)).n ELSE 0

(* Mutant: the password read without checking that userinfo is present. *)
PasswordOfNilUser(u) == u.user

\* Lines 78-82: User.Password(), "" when there is no userinfo or no password.
PasswordOf(u) == IF u.user = NoUser THEN "" ELSE u.user

(***************************************************************************)
(* NewRedisSync (lines 52-117): the checks in their order, then the        *)
(* provider. The client is built at line 105 from the options of lines     *)
(* 93-103, so clientTLS is fixed here.                                     *)
(***************************************************************************)
NewRedisSync(u) ==
    IF ~u.parsed THEN InvalidURI
    ELSE IF u.scheme \notin {"redis", "rediss"} THEN InvalidScheme
    ELSE IF u.key = "" THEN MissingKey
    ELSE [addr      |-> IF u.host = "" THEN DefaultAddr ELSE u.host,
          database  |-> DatabaseOf(u.path),
          password  |-> PasswordOf(u),
          key       |-> u.key,
          tls       |-> u.scheme = "rediss",
          clientTLS |-> u.scheme = "rediss",
          interval  |-> 30]

\* SetInterval (lines 282-284).
SetInterval(rs, n) == [rs EXCEPT !.interval = n]

(***************************************************************************)
(* NewRedisSyncFromConfig (lines 287-304): the interval is overridden      *)
(* only when positive; the TLS flag is set on the provider after its      *)
(* client was built.                                                       *)
(***************************************************************************)
NewRedisSyncFromConfig(cfg) ==
    LET rs  == NewRedisSync(cfg.uri)
        rs1 == IF cfg.interval > 0 THEN SetInterval(rs, cfg.interval) ELSE rs
    IN  IF rs \in ParseErrors THEN rs
        ELSE IF cfg.tls THEN [rs1 EXCEPT !.tls = TRUE] ELSE rs1

(***************************************************************************)
(* NewService (service.go 42-80): the provider, then SetInterval with the  *)
(* configured interval whatever its value, then the store and the gRPC     *)
(* sync service, whose constructors may fail (storeOk, grpcOk are their    *)
(* outcomes). The result is the provider the service will run.             *)
(***************************************************************************)
NewService(cfg) ==
    LET rs == NewRedisSync(cfg.uri)
    IN  IF rs \in ParseErrors THEN rs
        ELSE IF ~cfg.storeOk THEN StoreFailed
        ELSE IF ~cfg.grpcOk THEN SyncServiceFailed
        ELSE SetInterval(rs, cfg.interval)
================================================================================
