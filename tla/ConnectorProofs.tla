---------------------------- MODULE ConnectorProofs ----------------------------
(***************************************************************************)
(* What the two constructors of the provider build, for every URI and     *)
(* every configuration: the TLS flag and the polling interval. They show  *)
(* that the TLS divergence of the tls_override run is confined to         *)
(* NewRedisSyncFromConfig and happens exactly when the configuration asks *)
(* for TLS over a redis:// URI, and that the interval of zero behind the  *)
(* zero_interval run reaches the scheduler only through NewService.       *)
(***************************************************************************)
EXTENDS ConnectorMC, TLAPS

\* The errors NewService may return.
ServiceErrors == ParseErrors \cup {StoreFailed, SyncServiceFailed}

(* Changing one field of a record leaves its domain and its other fields. *)
LEMMA ExceptField ==
    ASSUME NEW r, NEW f \in DOMAIN r, NEW v
    PROVE  /\ DOMAIN [r EXCEPT ![f] = v] = DOMAIN r
           /\ [r EXCEPT ![f] = v][f] = v
           /\ \A g \in DOMAIN r \ {f} : [r EXCEPT ![f] = v][g] = r[g]
OBVIOUS

\* The provider NewRedisSync builds from a URI that passes its checks.
Provider(u) ==
    [addr      |-> IF u.host = "" THEN DefaultAddr ELSE u.host,
     database  |-> DatabaseOf(u.path),
     password  |-> PasswordOf(u),
     key       |-> u.key,
     tls       |-> u.scheme = "rediss",
     clientTLS |-> u.scheme = "rediss",
     interval  |-> 30]

(* When NewRedisSync returns no error, it returns the provider of lines   *)
(* 93-116: TLS iff the scheme is rediss, and a 30 s interval.              *)
LEMMA NewRedisSyncShape ==
    ASSUME NEW u, NewRedisSync(u) \notin ParseErrors
    PROVE  NewRedisSync(u) = Provider(u) /\ u.scheme \in {"redis", "rediss"}
<1>1. u.parsed /\ u.scheme \in {"redis", "rediss"} /\ u.key # ""
  BY DEF NewRedisSync, ParseErrors, InvalidURI, InvalidScheme, MissingKey
<1>2. QED
  BY <1>1 DEF NewRedisSync, Provider

(* A provider's fields after SetInterval. *)
LEMMA SetIntervalFields ==
    ASSUME NEW u, NEW n
    PROVE  LET r == SetInterval(Provider(u), n) IN
           /\ {"tls", "clientTLS", "interval"} \subseteq DOMAIN r
           /\ r.tls = (u.scheme = "rediss")
           /\ r.clientTLS = (u.scheme = "rediss")
           /\ r.interval = n
<1>1. /\ {"tls", "clientTLS", "interval"} \subseteq DOMAIN Provider(u)
      /\ Provider(u).tls = (u.scheme = "rediss")
      /\ Provider(u).clientTLS = (u.scheme = "rediss")
  BY DEF Provider
<1>2. QED
  BY <1>1, ExceptField, Zenon DEF SetInterval

(* A provider's fields after rs.TLS = true. *)
LEMMA SetTLSFields ==
    ASSUME NEW r, {"tls", "clientTLS", "interval"} \subseteq DOMAIN r
    PROVE  LET t == [r EXCEPT !.tls = TRUE] IN
           /\ t.tls = TRUE
           /\ t.clientTLS = r.clientTLS
           /\ t.interval = r.interval
BY ExceptField, Zenon

(* The command's path (service.go 42-80): a service that is built runs a  *)
(* provider whose connection uses TLS exactly when it says so, with the  *)
(* --redis-interval value as given, zero included.                        *)
THEOREM ServiceProvider ==
    ASSUME NEW c, NewService(c) \notin ServiceErrors
    PROVE  /\ NewService(c).tls = NewService(c).clientTLS
           /\ NewService(c).interval = c.interval
<1> DEFINE rs == NewRedisSync(c.uri)
<1>1. rs \notin ParseErrors /\ NewService(c) = SetInterval(rs, c.interval)
  BY DEF NewService, ServiceErrors
<1>2. rs = Provider(c.uri)
  BY <1>1, NewRedisSyncShape
<1>3. NewService(c) = [Provider(c.uri) EXCEPT !.interval = c.interval]
  BY <1>1, <1>2 DEF SetInterval
<1>4. QED
  BY <1>3 DEF Provider

(* The SourceConfig path (redis_sync.go 287-304): the provider's TLS flag  *)
(* differs from its connection's exactly when the configuration asks for  *)
(* TLS and the URI's scheme is redis, the case of the tls_override run:   *)
(* rs.TLS is set after line 105 built the client without a TLSConfig.     *)
(* The interval it runs with is always positive, so this path, unlike     *)
(* NewService, never registers a cron spec the parser refuses.            *)
THEOREM FromConfigProvider ==
    ASSUME NEW c, c.tls \in BOOLEAN, c.interval \in Int,
           NewRedisSyncFromConfig(c) \notin ParseErrors
    PROVE  LET rs == NewRedisSyncFromConfig(c) IN
           /\ rs.tls # rs.clientTLS <=> c.tls /\ c.uri.scheme = "redis"
           /\ rs.interval > 0
<1>1. NewRedisSync(c.uri) \notin ParseErrors
  BY DEF NewRedisSyncFromConfig
<1>2. NewRedisSync(c.uri) = Provider(c.uri)
      /\ c.uri.scheme \in {"redis", "rediss"}
  BY <1>1, NewRedisSyncShape
<1> DEFINE n1 == IF c.interval > 0 THEN c.interval ELSE 30
           r1 == SetInterval(Provider(c.uri), n1)
<1>3. /\ {"tls", "clientTLS", "interval"} \subseteq DOMAIN r1
      /\ r1.tls = (c.uri.scheme = "rediss")
      /\ r1.clientTLS = (c.uri.scheme = "rediss")
      /\ r1.interval = n1 /\ n1 > 0
  BY SetIntervalFields
<1>4. Provider(c.uri) = SetInterval(Provider(c.uri), 30)
  <2>1. Provider(c.uri).interval = 30 /\ "interval" \in DOMAIN Provider(c.uri)
    BY DEF Provider
  <2>2. Provider(c.uri) = [Provider(c.uri) EXCEPT !.interval = 30]
    BY <2>1, Zenon DEF Provider
  <2>3. QED
    BY <2>2 DEF SetInterval
<1>5. NewRedisSyncFromConfig(c) = IF c.tls THEN [r1 EXCEPT !.tls = TRUE] ELSE r1
  <2>1. CASE c.interval > 0
    BY <1>1, <1>2, <2>1, Zenon DEF NewRedisSyncFromConfig
  <2>2. CASE ~(c.interval > 0)
    BY <1>1, <1>2, <1>4, <2>2, Zenon DEF NewRedisSyncFromConfig
  <2>3. QED
    BY <2>1, <2>2
<1>6. QED
  BY <1>2, <1>3, <1>5, SetTLSFields
(***************************************************************************)
(* The database index. Atoi (redis_sync.go 71) and the reference sum of   *)
(* spec section 4.1 are both recursive functions; without an induction    *)
(* rule the prover can unfold them only a bounded number of times, so the *)
(* lemmas below cover digit strings of at most three characters, that is  *)
(* every path of at most four characters: every index from -999 to 999.  *)
(***************************************************************************)
(* Digit maps each of the ten decimal digits to its value. *)
LEMMA DigitRange ==
    ASSUME NEW c \in DOMAIN Digit PROVE Digit[c] \in 0..9
<1>1. DOMAIN Digit = {"0", "1", "2", "3", "4", "5", "6", "7", "8", "9"}
  BY DEF Digit
<1>2. \E n \in 0..9 : <<"0", "1", "2", "3", "4", "5", "6", "7", "8", "9">>[n + 1] = c
  BY <1>1
<1>3. QED
  BY <1>1, <1>2 DEF Digit

(* Every character of a digit string has a natural value. *)
LEMMA DigitsNat ==
    ASSUME NEW ds \in Seq(DOMAIN Digit) PROVE \A i \in 1..Len(ds) : Digit[ds[i]] \in Nat
<1>1. \A i \in 1..Len(ds) : ds[i] \in DOMAIN Digit
  OBVIOUS
<1>2. QED
  BY <1>1, DigitRange

\* The value of a string of at most three digits, spelt out.
ShortValue(ds) ==
    CASE Len(ds) = 0 -> 0
      [] Len(ds) = 1 -> Digit[ds[1]]
      [] Len(ds) = 2 -> Digit[ds[1]] * 10 + Digit[ds[2]]
      [] Len(ds) = 3 -> Digit[ds[1]] * 100 + Digit[ds[2]] * 10 + Digit[ds[3]]

(* Any function obeying Atoi's recurrence on 0..L, L <= 3, ends in ShortValue. *)
LEMMA HornerShort ==
    ASSUME NEW ds \in Seq(DOMAIN Digit), NEW L \in 0..3, Len(ds) = L, NEW acc,
           acc = [i \in 0..Len(ds) |-> IF i = 0 THEN 0 ELSE acc[i - 1] * 10 + Digit[ds[i]]]
    PROVE  acc[Len(ds)] = ShortValue(ds)
<1>1. \A i \in 1..L : Digit[ds[i]] \in Nat
  BY DigitsNat
<1>2. acc[0] = 0
  OBVIOUS
<1>3. L >= 1 => acc[1] = Digit[ds[1]]
  BY <1>1, <1>2
<1>4. L >= 2 => acc[2] = Digit[ds[1]] * 10 + Digit[ds[2]]
  BY <1>1, <1>3
<1>5. L = 3 => acc[3] = Digit[ds[1]] * 100 + Digit[ds[2]] * 10 + Digit[ds[3]]
  BY <1>1, <1>4
<1>6. QED
  BY <1>2, <1>3, <1>4, <1>5 DEF ShortValue

(* Any function obeying the positional sum's recurrence on 0..L, L <= 3, ends in ShortValue. *)
LEMMA PositionalShort ==
    ASSUME NEW ds \in Seq(DOMAIN Digit), NEW L \in 0..3, Len(ds) = L, NEW sum,
           sum = [i \in 0..Len(ds) |-> IF i = 0 THEN 0
                     ELSE sum[i - 1] + Digit[ds[Len(ds) - i + 1]] * 10^(i - 1)]
    PROVE  sum[Len(ds)] = ShortValue(ds)
<1>1. \A i \in 1..L : Digit[ds[i]] \in Nat
  BY DigitsNat
<1>2. 10^0 = 1 /\ 10^1 = 10 /\ 10^2 = 100
  OBVIOUS
<1>0. \A i \in 1..L : sum[i] = sum[i - 1] + Digit[ds[L - i + 1]] * 10^(i - 1)
  OBVIOUS
<1>3. sum[0] = 0
  OBVIOUS
<1>4. L >= 1 => sum[1] = Digit[ds[L]]
  <2>1. L >= 1 => sum[1] = sum[0] + Digit[ds[L]] * 10^0
    OBVIOUS
  <2>2. QED
    BY <1>1, <1>2, <1>3, <2>1
<1>5. L >= 2 => sum[2] = Digit[ds[L]] + Digit[ds[L - 1]] * 10
  <2>1. L = 2 => sum[2] = sum[1] + Digit[ds[1]] * 10^1
    OBVIOUS
  <2>2. L = 3 => sum[2] = sum[1] + Digit[ds[2]] * 10^1
    OBVIOUS
  <2>3. CASE L = 2
    <3>1. Digit[ds[1]] \in Nat /\ Digit[ds[2]] \in Nat /\ sum[1] = Digit[ds[2]]
      BY <1>1, <1>4, <2>3
    <3>2. QED
      BY <3>1, <1>2, <2>1, <2>3
  <2>4. CASE L = 3
    <3>1. Digit[ds[2]] \in Nat /\ Digit[ds[3]] \in Nat /\ sum[1] = Digit[ds[3]]
      BY <1>1, <1>4, <2>4
    <3>2. QED
      BY <3>1, <1>2, <2>2, <2>4
  <2>5. QED
    BY <2>3, <2>4
<1>6. L = 3 => sum[3] = Digit[ds[3]] + Digit[ds[2]] * 10 + Digit[ds[1]] * 100
  <2>1. L = 3 => sum[3] = sum[3 - 1] + Digit[ds[L - 3 + 1]] * 10^(3 - 1)
    OBVIOUS
  <2>2. 3 - 1 = 2 /\ (L = 3 => L - 3 + 1 = 1 /\ L - 1 = 2)
    OBVIOUS
  <2>3. QED
    BY <1>1, <1>2, <1>5, <2>1, <2>2
<1>7. CASE L = 0
  BY <1>3, <1>7 DEF ShortValue
<1>8. CASE L = 1
  BY <1>4, <1>8 DEF ShortValue
<1>9. CASE L = 2
  BY <1>1, <1>5, <1>9 DEF ShortValue
<1>10. CASE L = 3
  BY <1>1, <1>6, <1>10 DEF ShortValue
<1>11. QED
  BY <1>7, <1>8, <1>9, <1>10

(* Atoi's loop over at most three digits computes ShortValue. *)
LEMMA DigitsValueShort ==
    ASSUME NEW ds \in Seq(DOMAIN Digit), NEW L \in 0..3, Len(ds) = L
    PROVE  DigitsValue(ds) = ShortValue(ds)
<1> DEFINE d(i) == Digit[ds[i]]
           Acc(f) == [i \in 0..L |-> IF i = 0 THEN 0 ELSE f[i - 1] * 10 + Digit[ds[i]]]
           w == [i \in 0..L |-> CASE i = 0 -> 0
                                  [] i = 1 -> d(1)
                                  [] i = 2 -> d(1) * 10 + d(2)
                                  [] i = 3 -> d(1) * 100 + d(2) * 10 + d(3)]
<1>1. \A i \in 1..L : d(i) \in Nat
  BY DigitsNat
<1>2. \A i \in 0..L : w[i] = Acc(w)[i]
  <2>1. SUFFICES ASSUME NEW j \in 0..L PROVE w[j] = Acc(w)[j]
    OBVIOUS
  <2>2. CASE j = 0
    BY <2>2
  <2>3. CASE j = 1
    BY <1>1, <2>3
  <2>4. CASE j = 2
    BY <1>1, <2>4
  <2>5. CASE j = 3
    BY <1>1, <2>5
  <2>6. j \in 0..3
    OBVIOUS
  <2>7. QED
    BY <2>2, <2>3, <2>4, <2>5, <2>6
<1>3. \E f : f = Acc(f)
  <2>1. w = Acc(w)
    BY <1>2
  <2>2. QED
    BY <2>1
<1>4. (CHOOSE f : f = Acc(f)) = Acc(CHOOSE f : f = Acc(f))
  BY <1>3
<1>5. DigitsValue(ds) = (CHOOSE f : f = Acc(f))[L]
  BY DEF DigitsValue
<1>6. QED
  BY <1>4, <1>5, HornerShort

(* The positional sum of at most three digits computes ShortValue. *)
LEMMA MagnitudeShort ==
    ASSUME NEW ds \in Seq(DOMAIN Digit), NEW L \in 0..3, Len(ds) = L
    PROVE  Magnitude(ds) = ShortValue(ds)
<1> DEFINE d(i) == Digit[ds[i]]
           Sum(f) == [i \in 0..L |-> IF i = 0 THEN 0
                                     ELSE f[i - 1] + Digit[ds[L - i + 1]] * 10^(i - 1)]
           w == [i \in 0..L |-> CASE i = 0 -> 0
                                  [] i = 1 -> d(L)
                                  [] i = 2 -> d(L) + d(L - 1) * 10
                                  [] i = 3 -> d(L) + d(L - 1) * 10 + d(L - 2) * 100]
<1>1. \A i \in 1..L : d(i) \in Nat
  BY DigitsNat
<1>2. 10^0 = 1 /\ 10^1 = 10 /\ 10^2 = 100
  OBVIOUS
<1>3. \A i \in 0..L : w[i] = Sum(w)[i]
  <2>1. SUFFICES ASSUME NEW j \in 0..L PROVE w[j] = Sum(w)[j]
    OBVIOUS
  <2>2. CASE j = 0
    BY <2>2
  <2>3. CASE j = 1
    BY <1>1, <1>2, <2>3
  <2>4. CASE j = 2
    BY <1>1, <1>2, <2>4
  <2>5. CASE j = 3
    BY <1>1, <1>2, <2>5
  <2>6. j \in 0..3
    OBVIOUS
  <2>7. QED
    BY <2>2, <2>3, <2>4, <2>5, <2>6
<1>4. \E f : f = Sum(f)
  <2>1. w = Sum(w)
    BY <1>3
  <2>2. QED
    BY <2>1
<1>5. (CHOOSE f : f = Sum(f)) = Sum(CHOOSE f : f = Sum(f))
  BY <1>4
<1>6. Magnitude(ds) = (CHOOSE f : f = Sum(f))[L]
  BY DEF Magnitude
<1>7. QED
  BY <1>5, <1>6, PositionalShort

(* ShortValue is a natural number. *)
LEMMA ShortValueNat ==
    ASSUME NEW ds \in Seq(DOMAIN Digit), NEW L \in 0..3, Len(ds) = L
    PROVE  ShortValue(ds) \in Nat
<1>1. \A i \in 1..L : Digit[ds[i]] \in Nat
  BY DigitsNat
<1>2. CASE L = 0
  BY <1>2 DEF ShortValue
<1>3. CASE L = 1
  BY <1>1, <1>3 DEF ShortValue
<1>4. CASE L = 2
  BY <1>1, <1>4 DEF ShortValue
<1>5. CASE L = 3
  <2>1. Digit[ds[1]] \in Nat /\ Digit[ds[2]] \in Nat /\ Digit[ds[3]] \in Nat
    BY <1>1, <1>5
  <2>2. Len(ds) = 3
    BY <1>5
  <2>3. QED
    BY <2>1, <2>2 DEF ShortValue
<1>6. QED
  BY <1>2, <1>3, <1>4, <1>5

(* The digits after an optional sign, as Atoi and SpecDatabase both take them. *)
Unsigned(s) == IF Len(s) > 0 /\ s[1] \in {"+", "-"} THEN Tail(s) ELSE s

(* Dropping the sign keeps a sequence of at most three elements. *)
LEMMA UnsignedShort ==
    ASSUME NEW S, NEW s \in Seq(S), NEW n \in 0..3, Len(s) = n
    PROVE  Unsigned(s) \in Seq(S) /\ \E m \in 0..3 : Len(Unsigned(s)) = m
BY DEF Unsigned

(* A sequence whose elements all lie in T is a sequence over T. *)
LEMMA SeqNarrow ==
    ASSUME NEW S, NEW T, NEW s \in Seq(S), \A i \in 1..Len(s) : s[i] \in T
    PROVE  s \in Seq(T)
OBVIOUS

(* On a string of at most three characters, Atoi succeeds exactly when    *)
(* what follows the optional sign is one or more digits, and then its    *)
(* value is ShortValue of those digits, negated after a "-".              *)
LEMMA AtoiShort ==
    ASSUME NEW S, NEW s \in Seq(S), NEW n \in 0..3, Len(s) = n
    PROVE  LET ds == Unsigned(s) IN
           /\ Atoi(s).ok <=> ds # <<>> /\ \A i \in 1..Len(ds) : ds[i] \in DOMAIN Digit
           /\ Atoi(s).ok => Atoi(s).n = IF s[1] = "-" THEN -ShortValue(ds) ELSE ShortValue(ds)
<1> DEFINE ds == Unsigned(s)
<1>1. ds \in Seq(S) /\ \E m \in 0..3 : Len(ds) = m
  BY UnsignedShort
<1>2. Atoi(s) = IF Len(ds) = 0 \/ \E i \in 1..Len(ds) : ds[i] \notin DOMAIN Digit
                THEN [ok |-> FALSE, n |-> 0]
                ELSE [ok |-> TRUE,
                      n  |-> IF s[1] = "-" THEN -DigitsValue(ds) ELSE DigitsValue(ds)]
  BY DEF Atoi, Unsigned
<1>3. (Len(ds) = 0) <=> (ds = <<>>)
  BY <1>1
<1>4. ASSUME ds # <<>>, \A i \in 1..Len(ds) : ds[i] \in DOMAIN Digit
      PROVE  DigitsValue(ds) = ShortValue(ds)
  <2>1. ds \in Seq(DOMAIN Digit)
    BY <1>1, <1>4
  <2>2. PICK L \in 0..3 : Len(ds) = L
    BY <1>1
  <2>3. QED
    BY <2>1, <2>2, DigitsValueShort
<1>5. QED
  BY <1>2, <1>3, <1>4

(* The code's database index in closed form: the segment after "/", read  *)
(* as Atoi reads it, an optional sign and one or more digits, else 0.     *)
AtoiDatabase(p) ==
    LET seg == Segment(p)
        neg == seg # <<>> /\ seg[1] = "-"
        ds  == Unsigned(seg)
    IN  IF ds # <<>> /\ \A i \in 1..Len(ds) : ds[i] \in DOMAIN Digit
        THEN IF neg THEN -Magnitude(ds) ELSE Magnitude(ds)
        ELSE 0

(* For every path url.Parse can yield (empty, or starting with "/") of at  *)
(* most four characters, whatever the characters, the database index of  *)
(* redis_sync.go 68-76 is AtoiDatabase, Atoi's reading of the segment. *)
LEMMA DatabaseShortPath ==
    ASSUME NEW S, NEW p \in Seq(S), NEW n \in 0..4, Len(p) = n, p # <<>> => p[1] = "/"
    PROVE  DatabaseOf(p) = AtoiDatabase(p) /\ DatabaseOf(p) \in Int
<1>1. CASE p = <<>> \/ p = <<"/">>
  <2>1. DatabaseOf(p) = 0
    BY <1>1 DEF DatabaseOf
  <2>2. Segment(p) = <<>>
    BY <1>1 DEF Segment
  <2>3. AtoiDatabase(p) = 0
    BY <2>2 DEF AtoiDatabase, Unsigned
  <2>4. QED
    BY <2>1, <2>3
<1>2. CASE ~(p = <<>> \/ p = <<"/">>)
  <2> DEFINE s  == Tail(p)
             ds == Unsigned(s)
  <2>1. n \in 2..4
    <3>1. n # 0
      BY <1>2
    <3>2. n # 1
      <4>1. SUFFICES ASSUME n = 1 PROVE p = <<"/">>
        BY <1>2
      <4>2. p[1] = "/"
        BY <1>2
      <4>3. QED
        BY <4>1, <4>2
    <3>3. QED
      BY <3>1, <3>2
  <2>2. s \in Seq(S) /\ Len(s) = n - 1 /\ n - 1 \in 0..3 /\ s # <<>>
    <3>1. p # <<>>
      BY <2>1
    <3>2. s \in Seq(S) /\ Len(s) = n - 1
      BY <3>1
    <3>3. n - 1 \in 1..3
      BY <2>1
    <3>4. s # <<>>
      <4>1. Len(<<>>) = 0
        OBVIOUS
      <4>2. QED
        BY <3>2, <3>3, <4>1
    <3>5. n - 1 \in 0..3
      BY <3>3
    <3>6. QED
      BY <3>2, <3>4, <3>5
  <2>3. TrimSlash(p) = s /\ Segment(p) = s
    BY <1>2, <2>1 DEF TrimSlash, Segment
  <2>4. DatabaseOf(p) = IF Atoi(s).ok THEN Atoi(s).n ELSE 0
    BY <1>2, <2>3 DEF DatabaseOf
  <2>5. AtoiDatabase(p) =
          IF ds # <<>> /\ \A i \in 1..Len(ds) : ds[i] \in DOMAIN Digit
          THEN IF s[1] = "-" THEN -Magnitude(ds) ELSE Magnitude(ds)
          ELSE 0
    <3>1. (s # <<>>) = (Len(s) > 0)
      BY <2>2
    <3>2. QED
      BY <2>2, <2>3, <3>1 DEF AtoiDatabase, Unsigned
  <2>6. ASSUME ds # <<>>, \A i \in 1..Len(ds) : ds[i] \in DOMAIN Digit
        PROVE  Magnitude(ds) = ShortValue(ds) /\ ShortValue(ds) \in Nat
    <3>1. ds \in Seq(S) /\ \E L \in 0..3 : Len(ds) = L
      BY <2>2, UnsignedShort
    <3>2. PICK L \in 0..3 : Len(ds) = L
      BY <3>1
    <3>3. ds \in Seq(DOMAIN Digit)
      BY <3>1, <2>6, SeqNarrow
    <3>4. QED
      BY <3>2, <3>3, MagnitudeShort, ShortValueNat
  <2>7. /\ Atoi(s).ok <=> ds # <<>> /\ \A i \in 1..Len(ds) : ds[i] \in DOMAIN Digit
        /\ Atoi(s).ok => Atoi(s).n = IF s[1] = "-" THEN -ShortValue(ds) ELSE ShortValue(ds)
    BY <2>2, AtoiShort
  <2>8. CASE Atoi(s).ok
    <3>1. ds # <<>> /\ \A i \in 1..Len(ds) : ds[i] \in DOMAIN Digit
      BY <2>7, <2>8
    <3>2. Magnitude(ds) = ShortValue(ds) /\ ShortValue(ds) \in Nat
      BY <3>1, <2>6
    <3> DEFINE v == IF s[1] = "-" THEN -ShortValue(ds) ELSE ShortValue(ds)
    <3>3. DatabaseOf(p) = v
      BY <2>4, <2>7, <2>8, Zenon
    <3>4. AtoiDatabase(p) = v
      BY <2>5, <3>1, <3>2, Zenon
    <3>5. v \in Int
      BY <3>2
    <3> HIDE DEF v
    <3>6. QED
      BY <3>3, <3>4, <3>5
  <2>9. CASE ~Atoi(s).ok
    BY <2>4, <2>5, <2>7, <2>9
  <2>10. QED
    BY <2>8, <2>9
<1>3. QED
  BY <1>1, <1>2


(***************************************************************************)
(* The construction run of ConnectorMC: its two invariants hold for every *)
(* input of the bounded sets, whichever constructor builds the provider.  *)
(***************************************************************************)

(* SetInterval with a bounded interval keeps a provider typed and its database. *)
LEMMA SetIntervalRec ==
    ASSUME NEW r \in Providers, NEW n \in {0, 10, 30}
    PROVE  SetInterval(r, n) \in Providers /\ SetInterval(r, n).database = r.database
BY DEF Providers, SetInterval

(* Setting the TLS flag keeps a provider typed and its database. *)
LEMMA SetTLSRec ==
    ASSUME NEW r \in Providers
    PROVE  [r EXCEPT !.tls = TRUE] \in Providers /\ [r EXCEPT !.tls = TRUE].database = r.database
BY DEF Providers

(* Every path of the bounded inputs is a short sequence that is empty or  *)
(* starts with "/", as url.Parse yields for a URI with a host.            *)
LEMMA PathsShort ==
    ASSUME NEW p \in Paths
    PROVE  /\ p \in Seq(PathChars)
           /\ \E n \in 0..4 : Len(p) = n
           /\ p # <<>> => p[1] = "/"
<1>1. CASE p = <<>>
  BY <1>1
<1>2. CASE p = <<"/">>
  BY <1>2 DEF PathChars
<1>3. CASE \E c \in PathChars : p = <<"/", c>>
  BY <1>3 DEF PathChars
<1>4. CASE \E c, d \in PathChars : p = <<"/", c, d>>
  BY <1>4 DEF PathChars
<1>5. QED
  BY <1>1, <1>2, <1>3, <1>4 DEF Paths

(* The provider NewRedisSync builds from a bounded URI is well typed, and *)
(* its database is AtoiDatabase of its path.                             *)
LEMMA ProviderInProviders ==
    ASSUME NEW u \in URIs, NewRedisSync(u) \notin ParseErrors
    PROVE  Provider(u) \in Providers /\ Provider(u).database = AtoiDatabase(u.path)
<1>1. u.parsed /\ u.key # ""
  BY DEF NewRedisSync, ParseErrors, InvalidURI, InvalidScheme, MissingKey
<1>2. /\ u.path \in Paths
      /\ u.host \in {"", "h:6380"}
      /\ u.user \in {NoUser, "", "pw"}
      /\ u.key \in {"", "flags"}
  <2>1. u \in [parsed : {TRUE}, scheme : {"redis", "rediss", "http"}, host : {"", "h:6380"},
                path : Paths, user : {NoUser, "", "pw"}, key : {"", "flags"}]
    <3>1. u.parsed = TRUE
      BY <1>1
    <3>2. ~(u \in {[parsed |-> FALSE, scheme |-> "", host |-> "", path |-> <<>>,
                    user |-> NoUser, key |-> ""]})
      <4> DEFINE none == [parsed |-> FALSE, scheme |-> "", host |-> "", path |-> <<>>,
                          user |-> NoUser, key |-> ""]
      <4>1. none.parsed = FALSE
        OBVIOUS
      <4>2. u # none
        BY <3>1, <4>1
      <4>3. QED
        BY <4>2
    <3>3. QED
      BY <3>2, Zenon DEF URIs
  <2>2. QED
    BY <2>1
<1>3. DatabaseOf(u.path) = AtoiDatabase(u.path) /\ DatabaseOf(u.path) \in Int
  BY <1>2, PathsShort, DatabaseShortPath
<1>4. PasswordOf(u) \in {"", "pw"}
  BY <1>2 DEF PasswordOf, NoUser
<1>5. QED
  BY <1>1, <1>2, <1>3, <1>4 DEF Provider, Providers

(* NewService on a bounded configuration returns an error or a typed      *)
(* provider whose database is AtoiDatabase of the URI's path.            *)
LEMMA ServiceBuilt ==
    ASSUME NEW u \in URIs, NEW c, c.uri = u, c.interval \in {0, 10}
    PROVE  \/ NewService(c) \in Failures
           \/ NewService(c) \in Providers /\ NewService(c).database = AtoiDatabase(u.path)
<1>1. CASE NewRedisSync(u) \in ParseErrors
  BY <1>1 DEF NewService, Failures
<1>2. CASE NewRedisSync(u) \notin ParseErrors
  <2>1. NewRedisSync(u) = Provider(u)
    BY <1>2, NewRedisSyncShape
  <2>2. Provider(u) \in Providers /\ Provider(u).database = AtoiDatabase(u.path)
    BY <1>2, ProviderInProviders
  <2>3. /\ SetInterval(Provider(u), c.interval) \in Providers
        /\ SetInterval(Provider(u), c.interval).database = AtoiDatabase(u.path)
    BY <2>2, SetIntervalRec
  <2>4. QED
    BY <1>2, <2>1, <2>3 DEF NewService, Failures
<1>3. QED
  BY <1>1, <1>2

(* NewRedisSyncFromConfig on a bounded configuration returns a parse     *)
(* error or a typed provider whose database is AtoiDatabase of its path. *)
LEMMA FromConfigBuilt ==
    ASSUME NEW u \in URIs, NEW c, c.uri = u, c.interval \in {0, 10}, c.tls \in BOOLEAN
    PROVE  \/ NewRedisSyncFromConfig(c) \in Failures
           \/ /\ NewRedisSyncFromConfig(c) \in Providers
              /\ NewRedisSyncFromConfig(c).database = AtoiDatabase(u.path)
<1>1. CASE NewRedisSync(u) \in ParseErrors
  BY <1>1 DEF NewRedisSyncFromConfig, Failures
<1>2. CASE NewRedisSync(u) \notin ParseErrors
  <2> DEFINE r1 == IF c.interval > 0 THEN SetInterval(Provider(u), c.interval) ELSE Provider(u)
  <2>1. NewRedisSync(u) = Provider(u)
    BY <1>2, NewRedisSyncShape
  <2>2. Provider(u) \in Providers /\ Provider(u).database = AtoiDatabase(u.path)
    BY <1>2, ProviderInProviders
  <2>3. r1 \in Providers /\ r1.database = AtoiDatabase(u.path)
    BY <2>2, SetIntervalRec
  <2>4. /\ [r1 EXCEPT !.tls = TRUE] \in Providers
        /\ [r1 EXCEPT !.tls = TRUE].database = AtoiDatabase(u.path)
    BY <2>3, SetTLSRec
  <2>5. NewRedisSyncFromConfig(c) = IF c.tls THEN [r1 EXCEPT !.tls = TRUE] ELSE r1
    BY <1>2, <2>1 DEF NewRedisSyncFromConfig
  <2>6. QED
    BY <2>3, <2>4, <2>5
<1>3. QED
  BY <1>1, <1>2

\* A provider's database is Atoi's reading of its URI's path segment.
DatabaseIsAtoi == IsProvider(built) => built.database = AtoiDatabase(uri.path)

\* The inductive invariant: the type of the state and of the configuration,
\* and the database of a provider in closed form.
CInv == TypeOK /\ cfg \in Configs /\ DatabaseIsAtoi

(* CInv holds in every reachable state of ConnectorMC. *)
LEMMA CInvariant == Spec => []CInv
<1>1. Init => CInv
  BY DEF Init, CInv, TypeOK, DatabaseIsAtoi, IsProvider, Failures
<1>2. CInv /\ [Next]_vars => CInv'
  <2> SUFFICES ASSUME CInv, [Next]_vars PROVE CInv'
    OBVIOUS
  <2> DEFINE c == [cfg EXCEPT !.uri = uri]
  <2>1. uri \in URIs /\ cfg \in Configs
    BY DEF CInv, TypeOK
  <2>2. c.uri = uri /\ c.interval \in {0, 10} /\ c.tls \in BOOLEAN
    BY <2>1 DEF Configs
  <2>3. CASE BuildService
    <3>1. built' = NewService(c) /\ uri' = uri /\ cfg' = cfg
      BY <2>3 DEF BuildService
    <3>2. \/ built' \in Failures
          \/ built' \in Providers /\ built'.database = AtoiDatabase(uri'.path)
      BY <2>1, <2>2, <3>1, ServiceBuilt
    <3>3. QED
      BY <2>1, <3>1, <3>2 DEF CInv, TypeOK, DatabaseIsAtoi, IsProvider
  <2>4. CASE BuildFromConfig
    <3>1. built' = NewRedisSyncFromConfig(c) /\ uri' = uri /\ cfg' = cfg
      BY <2>4 DEF BuildFromConfig
    <3>2. \/ built' \in Failures
          \/ built' \in Providers /\ built'.database = AtoiDatabase(uri'.path)
      BY <2>1, <2>2, <3>1, FromConfigBuilt
    <3>3. QED
      BY <2>1, <3>1, <3>2 DEF CInv, TypeOK, DatabaseIsAtoi, IsProvider
  <2>5. CASE UNCHANGED vars
    BY <2>5 DEF CInv, TypeOK, DatabaseIsAtoi, IsProvider, vars
  <2>6. QED
    BY <2>3, <2>4, <2>5 DEF Next
<1>3. QED
  BY <1>1, <1>2, PTL DEF Spec

(* Whatever URI and configuration the command or a SourceConfig caller    *)
(* passes from the bounded sets, construction ends in an error of the     *)
(* code or in a provider whose fields are of the expected kind.           *)
THEOREM ConnectorTypeCorrect == Spec => []TypeOK
BY CInvariant, PTL DEF CInv

(* A natural number of at least one is one or more than one; zero is not *)
(* positive. (Kept apart so that the sequence facts around a use do not  *)
(* distract the arithmetic.)                                              *)
LEMMA NatSplit ==
    ASSUME NEW x \in Nat, x >= 1
    PROVE  x = 1 \/ x > 1
OBVIOUS

LEMMA ZeroNotPositive ==
    ASSUME NEW x \in Nat, x = 0
    PROVE  ~(x > 0)
OBVIOUS

(* Outside the case spec 4.1 leaves open, a sign followed by digits, Atoi's *)
(* reading of a path segment is the spec's, for paths of any length: a    *)
(* sign before no digits or before text is non-numeric to both, and an    *)
(* unsigned segment is numeric to both exactly when it is all digits.     *)
LEMMA SpecAgreement ==
    ASSUME NEW S, NEW p \in Seq(S), ~SignedNumeral(Segment(p))
    PROVE  AtoiDatabase(p) = SpecDatabase(p)
<1> DEFINE g == Segment(p)
<1>1. g \in Seq(S)
  BY DEF Segment
<1>2. CASE g # <<>> /\ g[1] \in {"+", "-"}
  <2>1. Len(g) >= 1 /\ g[1] \notin DOMAIN Digit
    BY <1>1, <1>2 DEF Digit
  <2>2. ~Numeral(g)
    BY <2>1 DEF Numeral
  <2>3. ~Numeral(Tail(g))
    <3>1. CASE Len(g) = 1
      <4>1. Len(Tail(g)) = 0 /\ Len(Tail(g)) \in Nat
        BY <1>1, <3>1
      <4>2. ~(Len(Tail(g)) > 0)
        BY <4>1, ZeroNotPositive
      <4>3. QED
        BY <4>2, Zenon DEF Numeral
    <3>2. CASE Len(g) > 1
      <4>1. Len(g) > 1 /\ g[1] \in {"+", "-"}
        BY <1>2, <3>2
      <4>2. ~SignedNumeral(g)
        OBVIOUS
      <4>3. ~(Len(g) > 1 /\ g[1] \in {"+", "-"} /\ Numeral(Tail(g)))
        BY <4>2 DEF SignedNumeral
      <4>4. QED
        BY <4>1, <4>3
    <3>3. Len(g) = 1 \/ Len(g) > 1
      <4>1. Len(g) \in Nat
        BY <1>1
      <4>2. QED
        BY <2>1, <4>1, NatSplit
    <3>4. QED
      BY <3>1, <3>2, <3>3, Zenon
  <2>4. AtoiDatabase(p) = 0
    <3>1. Unsigned(g) = Tail(g)
      <4>1. Len(g) > 0
        BY <1>1, <1>2
      <4>2. QED
        BY <1>2, <4>1 DEF Unsigned
    <3>2. Tail(g) \in Seq(S) /\ ((Tail(g) # <<>>) = (Len(Tail(g)) > 0))
      BY <1>1, <1>2
    <3>3. QED
      BY <2>3, <3>1, <3>2 DEF AtoiDatabase, Numeral
  <2>5. SpecDatabase(p) = 0
    BY <2>2 DEF SpecDatabase
  <2>6. QED
    BY <2>4, <2>5
<1>3. CASE ~(g # <<>> /\ g[1] \in {"+", "-"})
  <2>1. Unsigned(g) = g /\ ~(g # <<>> /\ g[1] = "-")
    BY <1>1, <1>3 DEF Unsigned
  <2>2. (g # <<>>) = (Len(g) > 0)
    BY <1>1
  <2>3. QED
    BY <2>1, <2>2 DEF AtoiDatabase, SpecDatabase, Numeral
<1>4. QED
  BY <1>2, <1>3

(* Whichever constructor builds it, a provider whose path segment is not  *)
(* a signed number selects the database spec section 4.1 names: the      *)
(* segment's digits' value when it is all digits, else 0. The path test,  *)
(* TrimPrefix and Atoi at redis_sync.go 69-76 agree with that reading on  *)
(* every path of the bounded inputs.                                      *)
THEOREM ConnectorDatabaseAsSpecified == Spec => []DatabaseAsSpecified
<1>1. CInv => DatabaseAsSpecified
  <2> SUFFICES ASSUME CInv, IsProvider(built), ~SignedNumeral(Segment(uri.path))
               PROVE  built.database = SpecDatabase(uri.path)
    BY DEF DatabaseAsSpecified
  <2>1. uri.path \in Seq(PathChars)
    <3>1. uri \in URIs
      BY DEF CInv, TypeOK
    <3>2. uri.path = <<>> \/ uri.path \in Paths
      <4> DEFINE none   == [parsed |-> FALSE, scheme |-> "", host |-> "", path |-> <<>>,
                            user |-> NoUser, key |-> ""]
                 Parsed == [parsed : {TRUE}, scheme : {"redis", "rediss", "http"},
                            host : {"", "h:6380"}, path : Paths,
                            user : {NoUser, "", "pw"}, key : {"", "flags"}]
      <4>1. uri = none \/ uri \in Parsed
        BY <3>1 DEF URIs
      <4>2. CASE uri = none
        BY <4>2
      <4>3. CASE uri \in Parsed
        BY <4>3
      <4>4. QED
        BY <4>1, <4>2, <4>3
    <3>3. CASE uri.path = <<>>
      BY <3>3
    <3>4. CASE uri.path \in Paths
      BY <3>4, PathsShort
    <3>5. QED
      BY <3>2, <3>3, <3>4
  <2>2. built.database = AtoiDatabase(uri.path)
    BY DEF CInv, DatabaseIsAtoi
  <2>3. QED
    BY <2>1, <2>2, SpecAgreement
<1>2. QED
  BY <1>1, CInvariant, PTL
================================================================================
