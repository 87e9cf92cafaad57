---------------------------- MODULE ServiceProofs ---------------------------
(***************************************************************************)
(* Proofs about the Service specification, for every value of the          *)
(* constants that satisfies PollerAssumption and ServiceAssumption.         *)
(***************************************************************************)
EXTENDS Service, TLAPS

USE PollerAssumption, ServiceAssumption

(* fetchData only ever yields a document text or one of the three tags. *)
LEMMA FetchDataType ==
    ASSUME NEW v \in Value, NEW c \in BOOLEAN,
           NEW jr \in Replies(v, c), NEW gr \in Replies(v, c)
    PROVE  fetchData(v, jr, gr) \in Result
BY DEF Replies, fetchData, Result, Value, Empty, FetchErr, ConvErr

(* The write of LastSHA keeps it a digest or NoSHA. *)
LEMMA SetLastSHAType ==
    ASSUME LastSHA \in Digest \cup {NoSHA}, NEW res \in Result, SetLastSHA(res)
    PROVE  LastSHA' \in Digest \cup {NoSHA}
BY DEF SetLastSHA

(* Appending a message or dropping the head keeps q a sequence of them. *)
LEMMA QueueType ==
    ASSUME q \in Seq(Msg)
    PROVE  /\ \A m \in Msg : Append(q, m) \in Seq(Msg)
           /\ q # <<>> => Tail(q) \in Seq(Msg) /\ Head(q) \in Msg
OBVIOUS

(* Every event on the channel carries a version number. *)
LEMMA QueueVer ==
    ASSUME q \in Seq(Msg)
    PROVE  \A i \in 1..Len(q) : q[i].ver \in Nat
<1> SUFFICES ASSUME NEW i \in 1..Len(q) PROVE q[i].ver \in Nat
  OBVIOUS
<1>1. q[i] \in Msg
  OBVIOUS
<1>2. QED
  BY <1>1 DEF Msg, Ver

-----------------------------------------------------------------------------
(* TypeOK is not inductive by itself: a send builds a Msg from the data  *)
(* the sender fetched, which is a document only because the goroutine    *)
(* got to "send" past the checks err == nil and data != "".              *)
SendersHoldDocs ==
    /\ syncPc = "send" => sdata.data \in Canon
    /\ \A j \in Jobs : jpc[j] \in {"compare", "send"} => jres[j].data \in Canon

PollerIInv == PollerTypeOK /\ SendersHoldDocs

(* Every step of the provider's goroutines keeps their state well typed. *)
(* The ghost record of the latest fetch stays a document or Empty. *)
LEMMA RecordFetchType ==
    ASSUME lastFetch \in Canon \cup {Empty}, NEW res, RecordFetch(res)
    PROVE  lastFetch' \in Canon \cup {Empty}
BY DEF RecordFetch

LEMMA PollerStepType ==
    ASSUME PollerIInv, PollerStep
    PROVE  PollerIInv'
<1> USE DEF PollerIInv, PollerTypeOK, SendersHoldDocs
<1>1. CASE RedisWrite
  BY <1>1 DEF RedisWrite, Value, Ver
<1>2. CASE SyncInitialFetch
  <2>1. PICK jr, gr \in Replies(redis, ctxDone) :
             LET res == fetchData(redis, jr, gr) IN
             /\ SetLastSHA(res)
             /\ RecordFetch(res)
             /\ sdata' = [data |-> res, ver |-> wver]
             /\ \/ /\ res \in {FetchErr, ConvErr}
                   /\ syncPc' = "failed"
                   /\ ctxDone' = TRUE
                   /\ UNCHANGED <<ready, cron>>
                \/ /\ res = Empty
                   /\ syncPc' = "wait"
                   /\ ready' = TRUE
                   /\ cron' = "running"
                   /\ UNCHANGED ctxDone
                \/ /\ res \in Canon
                   /\ syncPc' = "send"
                   /\ UNCHANGED <<ready, cron, ctxDone>>
    BY <1>2 DEF SyncInitialFetch
  <2>2. fetchData(redis, jr, gr) \in Result
    BY FetchDataType
  <2>3. LastSHA' \in Digest \cup {NoSHA}
    BY <2>1, <2>2, SetLastSHAType
  <2>4. lastFetch' \in Canon \cup {Empty}
    BY <2>1, RecordFetchType
  <2>5. QED
    BY <1>2, <2>1, <2>2, <2>3, <2>4 DEF SyncInitialFetch, Fetched, Empty,
       FetchErr, ConvErr
<1>3. CASE SyncSend
  <2>1. [from |-> "sync", data |-> sdata.data, ver |-> sdata.ver] \in Msg
    BY <1>3 DEF SyncSend, Fetched, Msg
  <2>2. QED
    BY <1>3, <2>1, QueueType DEF SyncSend
<1>4. CASE SyncStop
  BY <1>4 DEF SyncStop
<1>5. ASSUME NEW j \in Jobs, Tick(j)
      PROVE  PollerIInv'
  BY <1>5 DEF Tick
<1>6. ASSUME NEW j \in Jobs, JobFetch(j)
      PROVE  PollerIInv'
  <2>1. PICK jr, gr \in Replies(redis, ctxDone) :
             /\ jres' = [jres EXCEPT ![j] = [data |-> fetchData(redis, jr, gr),
                                             ver  |-> wver]]
             /\ RecordFetch(fetchData(redis, jr, gr))
    BY <1>6 DEF JobFetch
  <2>2. fetchData(redis, jr, gr) \in Result
    BY FetchDataType
  <2>3. lastFetch' \in Canon \cup {Empty}
    BY <2>1, RecordFetchType
  <2>4. QED
    BY <1>6, <2>1, <2>2, <2>3 DEF JobFetch, Fetched
<1>7. ASSUME NEW j \in Jobs, JobSetSHA(j)
      PROVE  PollerIInv'
  <2>1. LastSHA' \in Digest \cup {NoSHA}
    BY <1>7, SetLastSHAType DEF JobSetSHA, Fetched
  <2>2. QED
    BY <1>7, <2>1 DEF JobSetSHA
<1>8. ASSUME NEW j \in Jobs, JobCompare(j)
      PROVE  PollerIInv'
  BY <1>8 DEF JobCompare
<1>9. ASSUME NEW j \in Jobs, JobSend(j)
      PROVE  PollerIInv'
  <2>1. [from |-> j, data |-> jres[j].data, ver |-> jres[j].ver] \in Msg
    BY <1>9 DEF JobSend, Fetched, Msg
  <2>2. QED
    BY <1>9, <2>1, QueueType DEF JobSend
<1>10. ASSUME NEW j \in Jobs, JobReleased(j)
       PROVE  PollerIInv'
  BY <1>10 DEF JobReleased
<1>11. ASSUME NEW r \in Resyncs, RsFetch(r)
       PROVE  PollerIInv'
  <2>1. PICK jr, gr \in Replies(redis, FALSE) :
             /\ rres' = [rres EXCEPT ![r] = fetchData(redis, jr, gr)]
             /\ RecordFetch(fetchData(redis, jr, gr))
    BY <1>11 DEF RsFetch
  <2>2. fetchData(redis, jr, gr) \in Result
    BY FetchDataType
  <2>3. lastFetch' \in Canon \cup {Empty}
    BY <2>1, RecordFetchType
  <2>4. QED
    BY <1>11, <2>1, <2>2, <2>3 DEF RsFetch
<1>12. ASSUME NEW r \in Resyncs, RsDone(r)
       PROVE  PollerIInv'
  <2>1. LastSHA' \in Digest \cup {NoSHA}
    BY <1>12, SetLastSHAType DEF RsDone
  <2>2. QED
    BY <1>12, <2>1 DEF RsDone
<1>13. QED
  BY <1>1, <1>2, <1>3, <1>4, <1>5, <1>6, <1>7, <1>8, <1>9, <1>10, <1>11,
     <1>12 DEF PollerStep

-----------------------------------------------------------------------------
(* The inductive invariant behind TypeOK. *)
IInv == TypeOK /\ SendersHoldDocs

LEMMA InitIInv == Init => IInv
<1> SUFFICES ASSUME Init PROVE IInv
  OBVIOUS
<1>1. [data |-> Empty, ver |-> 0] \in Fetched
  BY DEF Fetched, Result, Ver, Empty
<1>2. [data |-> NoDoc, ver |-> 0] \in Received
  BY DEF Received, Ver
<1>3. PollerTypeOK
  <2>1. PollerInit
    BY DEF Init
  <2>2. /\ jres \in [Jobs -> Fetched]
        /\ rres \in [Resyncs -> Result]
        /\ jpc \in [Jobs -> {"idle", "fetch", "setSHA", "compare", "send", "blocked"}]
        /\ jprev \in [Jobs -> Digest \cup {NoSHA}]
        /\ rpc \in [Resyncs -> {"idle", "fetch", "setSHA"}]
    BY <1>1, <2>1 DEF PollerInit, Result, Empty
  <2>3. q \in Seq(Msg)
    BY <2>1 DEF PollerInit
  <2>4. wver \in Ver /\ sdata \in Fetched
    BY <1>1, <2>1 DEF PollerInit, Ver
  <2>5. QED
    BY <2>1, <2>2, <2>3, <2>4 DEF PollerInit, PollerTypeOK
<1>4. QED
  BY <1>2, <1>3 DEF Init, PollerInit, IInv, TypeOK, SendersHoldDocs

LEMMA NextIInv == IInv /\ [Next]_vars => IInv'
<1> SUFFICES ASSUME IInv, [Next]_vars
             PROVE  IInv'
  OBVIOUS
<1> USE DEF IInv, TypeOK, PollerTypeOK, SendersHoldDocs
<1>1. CASE PollerStep /\ UNCHANGED <<mainPc, grpc, cpc, received, store>>
  BY <1>1, PollerStepType DEF PollerIInv
<1>2. CASE StartService
  BY <1>2 DEF StartService
<1>3. CASE Signal
  BY <1>3 DEF Signal
<1>4. CASE GrpcFail
  BY <1>4 DEF GrpcFail
<1>5. CASE GrpcStop
  BY <1>5 DEF GrpcStop, pollerVars
<1>6. CASE Receive
  <2>1. Head(q) \in Msg /\ Tail(q) \in Seq(Msg)
    BY <1>6, QueueType DEF Receive
  <2>2. received' \in Received /\ store' \in Canon \cup {NoDoc}
    BY <1>6, <2>1 DEF Receive, Msg, Received
  <2>3. rpc' \in [Resyncs -> {"idle", "fetch", "setSHA"}]
    BY <1>6 DEF Receive, ReSyncCall
  <2>4. QED
    BY <1>6, <2>1, <2>2, <2>3 DEF Receive
<1>7. CASE ConsumerStop
  BY <1>7 DEF ConsumerStop, pollerVars
<1>8. CASE StartReturns
  BY <1>8 DEF StartReturns, pollerVars
<1>9. CASE Exited
  BY <1>9 DEF Exited, vars, pollerVars
<1>10. CASE UNCHANGED vars
  BY <1>10 DEF vars, pollerVars
<1>11. QED
  BY <1>1, <1>2, <1>3, <1>4, <1>5, <1>6, <1>7, <1>8, <1>9, <1>10 DEF Next

(* Every reachable state of the service is well typed: in particular      *)
(* rs.LastSHA is always a digest or unset, and every event on the channel *)
(* carries a document, never an error or an empty result.                *)
THEOREM TypeCorrect == Spec => []TypeOK
<1>1. Init => IInv
  BY InitIInv
<1>2. IInv /\ [Next]_vars => IInv'
  BY NextIInv
<1>3. IInv => TypeOK
  BY DEF IInv
<1>4. QED
  BY <1>1, <1>2, <1>3, PTL DEF Spec

-----------------------------------------------------------------------------
(***************************************************************************)
(* Delivery order with a single cron goroutine.  DeliveryOrder is not      *)
(* inductive: a send appends the version its goroutine fetched, and that   *)
(* version is the newest one only because (a) Sync's initial send happens *)
(* on an empty channel before Cron.Start, with nothing received yet, and   *)
(* (b) a cron goroutine that has fetched has read a version at least as   *)
(* new as everything queued or received, since all of those were read     *)
(* before.  ReSync never sends into the service's channel.                 *)
(***************************************************************************)
VerBounds ==
    /\ sdata.ver <= wver
    /\ received.ver <= wver
    /\ \A j \in Jobs : jres[j].ver <= wver
    /\ \A i \in 1..Len(q) : q[i].ver <= wver

SyncFirst ==
    /\ mainPc = "init" => syncPc = "idle"
    /\ syncPc \in {"idle", "fetch", "send"} => q = <<>> /\ received.ver = 0
    /\ syncPc \in {"idle", "fetch", "send"} => cron = "off"
    /\ cron = "off" => \A j \in Jobs : jpc[j] = "idle"

JobLatest ==
    \A j \in Jobs : jpc[j] \in {"setSHA", "compare", "send"} =>
        /\ received.ver <= jres[j].ver
        /\ \A i \in 1..Len(q) : q[i].ver <= jres[j].ver

OrderRest == VerBounds /\ SyncFirst /\ JobLatest /\ DeliveryOrder

OInv == IInv /\ OrderRest

LEMMA InitOInv == Init => OInv
<1> SUFFICES ASSUME Init PROVE OInv
  OBVIOUS
<1>1. IInv
  BY InitIInv
<1>2. OrderRest
  BY DEF Init, PollerInit, OrderRest, VerBounds, SyncFirst, JobLatest,
         DeliveryOrder
<1>3. QED
  BY <1>1, <1>2 DEF OInv

(* With one cron goroutine, every step keeps OrderRest. *)
LEMMA NextOrderRest ==
    ASSUME NEW j0, Jobs = {j0}, IInv, OrderRest, [Next]_vars
    PROVE  OrderRest'
<1> USE DEF IInv, TypeOK, PollerTypeOK, OrderRest, VerBounds, SyncFirst,
            JobLatest, DeliveryOrder
<1> DEFINE SvcSame == UNCHANGED <<mainPc, grpc, cpc, received, store>>
<1> USE DEF SvcSame, Ver, Received, Fetched
<1>1. CASE RedisWrite /\ SvcSame
  <2>1. /\ wver' = wver + 1
        /\ UNCHANGED <<sdata, received, jres, q, syncPc, cron, jpc>>
    BY <1>1 DEF RedisWrite
  <2>2. wver \in Nat
    OBVIOUS
  <2>3. VerBounds'
    <3>1. \A i \in 1..Len(q) : q[i].ver \in Nat /\ q[i].ver <= wver
      BY QueueVer
    <3>2. \A j \in Jobs : jres[j].ver \in Nat /\ jres[j].ver <= wver
      OBVIOUS
    <3>3. sdata.ver \in Nat /\ received.ver \in Nat
      OBVIOUS
    <3>4. QED
      BY <2>1, <2>2, <3>1, <3>2, <3>3
  <2>6. JobLatest'
    BY <2>1
  <2>7. DeliveryOrder'
    BY <2>1
  <2>4. SyncFirst'
    BY <1>1, <2>1 DEF RedisWrite
  <2>5. QED
    BY <2>3, <2>4, <2>6, <2>7
<1>2. CASE SyncInitialFetch /\ SvcSame
  <2>1. PICK jr, gr \in Replies(redis, ctxDone) :
             LET res == fetchData(redis, jr, gr) IN
             /\ sdata' = [data |-> res, ver |-> wver]
             /\ \/ /\ syncPc' = "failed"
                   /\ UNCHANGED cron
                \/ /\ syncPc' = "wait"
                   /\ cron' = "running"
                \/ /\ syncPc' = "send"
                   /\ UNCHANGED cron
    BY <1>2 DEF SyncInitialFetch
  <2>2. QED
    BY <1>2, <2>1 DEF SyncInitialFetch
<1>3. CASE SyncSend /\ SvcSame
  <2>1. q = <<>> /\ received.ver = 0 /\ jpc[j0] = "idle"
    BY <1>3 DEF SyncSend
  <2>2. q' = <<[from |-> "sync", data |-> sdata.data, ver |-> sdata.ver]>>
    BY <1>3, <2>1 DEF SyncSend
  <2>3. QED
    BY <1>3, <2>1, <2>2 DEF SyncSend, Fetched, Ver
<1>4. CASE SyncStop /\ SvcSame
  BY <1>4 DEF SyncStop
<1>5. ASSUME NEW j \in Jobs, Tick(j), SvcSame
      PROVE  OrderRest'
  BY <1>5 DEF Tick
<1>6. ASSUME NEW j \in Jobs, JobFetch(j), SvcSame
      PROVE  OrderRest'
  <2>1. PICK jr, gr \in Replies(redis, ctxDone) :
             jres' = [jres EXCEPT ![j] = [data |-> fetchData(redis, jr, gr),
                                          ver  |-> wver]]
    BY <1>6 DEF JobFetch
  <2>2. jres'[j].ver = wver /\ jpc'[j] = "setSHA"
    BY <1>6, <2>1 DEF JobFetch
  <2>3. QED
    BY <1>6, <2>1, <2>2 DEF JobFetch, Ver
<1>7. ASSUME NEW j \in Jobs, JobSetSHA(j), SvcSame
      PROVE  OrderRest'
  BY <1>7 DEF JobSetSHA
<1>8. ASSUME NEW j \in Jobs, JobCompare(j), SvcSame
      PROVE  OrderRest'
  BY <1>8 DEF JobCompare
<1>9. ASSUME NEW j \in Jobs, JobSend(j), SvcSame
      PROVE  OrderRest'
  <2>1. j = j0 /\ jpc'[j0] \in {"idle", "blocked"}
    BY <1>9 DEF JobSend
  <2>2. syncPc \notin {"idle", "fetch", "send"} /\ cron # "off"
    BY <1>9 DEF JobSend
  <2>3. /\ received.ver <= jres[j].ver
        /\ \A i \in 1..Len(q) : q[i].ver <= jres[j].ver
    BY <1>9 DEF JobSend
  <2>4. q' = Append(q, [from |-> j, data |-> jres[j].data, ver |-> jres[j].ver])
    BY <1>9 DEF JobSend
  <2>5. QED
    BY <1>9, <2>1, <2>2, <2>3, <2>4 DEF JobSend, Fetched, Ver
<1>10. ASSUME NEW j \in Jobs, JobReleased(j), SvcSame
       PROVE  OrderRest'
  BY <1>10 DEF JobReleased
<1>11. ASSUME NEW r \in Resyncs, RsFetch(r), SvcSame
       PROVE  OrderRest'
  BY <1>11 DEF RsFetch
<1>12. ASSUME NEW r \in Resyncs, RsDone(r), SvcSame
       PROVE  OrderRest'
  BY <1>12 DEF RsDone
<1>13. CASE StartService
  <2>1. /\ syncPc' \in {syncPc, "fetch"}
        /\ syncPc' = "fetch" => syncPc = "idle"
        /\ mainPc = "init" /\ mainPc' # "init"
        /\ UNCHANGED <<wver, sdata, received, jres, q, cron, jpc>>
    BY <1>13 DEF StartService
  <2>2. QED
    BY <2>1
<1>14. CASE Signal
  BY <1>14 DEF Signal
<1>15. CASE GrpcFail
  BY <1>15 DEF GrpcFail
<1>16. CASE GrpcStop
  BY <1>16 DEF GrpcStop, pollerVars
<1>17. CASE Receive
  <2>1. q # <<>> /\ q' = Tail(q) /\ received'.ver = q[1].ver
    BY <1>17 DEF Receive
  <2>2. syncPc \notin {"idle", "fetch", "send"}
    BY <2>1
  <2>3. UNCHANGED <<wver, mainPc, syncPc, cron, sdata, jpc, jres>>
    BY <1>17 DEF Receive
  <2>4. \A i \in 1..Len(q') : q'[i] = q[i + 1] /\ i + 1 \in 1..Len(q)
    BY <2>1
  <2>5. \A i \in 1..Len(q) : q[i].ver \in Nat
    BY QueueVer
  <2>6. VerBounds'
    BY <2>1, <2>3, <2>4
  <2>7. SyncFirst'
    BY <2>2, <2>3
  <2>8. JobLatest'
    BY <2>1, <2>3, <2>4
  <2>9. DeliveryOrder'
    BY <2>1, <2>4, <2>5
  <2>10. QED
    BY <2>6, <2>7, <2>8, <2>9
<1>18. CASE ConsumerStop
  BY <1>18 DEF ConsumerStop, pollerVars
<1>19. CASE StartReturns
  BY <1>19 DEF StartReturns, pollerVars
<1>20. CASE Exited
  BY <1>20 DEF Exited, vars, pollerVars
<1>21. CASE UNCHANGED vars
  BY <1>21 DEF vars, pollerVars
<1>22. QED
  BY <1>1, <1>2, <1>3, <1>4, <1>5, <1>6, <1>7, <1>8, <1>9, <1>10, <1>11,
     <1>12, <1>13, <1>14, <1>15, <1>16, <1>17, <1>18, <1>19, <1>20, <1>21
     DEF Next, PollerStep

(* With a single cron goroutine, OInv holds in every reachable state. *)
LEMMA SingleJobOInv ==
    ASSUME NEW j0, Jobs = {j0}
    PROVE  Spec => []OInv
<1>1. Init => OInv
  BY InitOInv
<1>2. OInv /\ [Next]_vars => OInv'
  <2> SUFFICES ASSUME OInv, [Next]_vars PROVE OInv'
    OBVIOUS
  <2>1. IInv'
    BY NextIInv DEF OInv
  <2>2. OrderRest'
    BY NextOrderRest DEF OInv
  <2>3. QED
    BY <2>1, <2>2 DEF OInv
<1>3. QED
  BY <1>1, <1>2, PTL DEF Spec

(* With one cron goroutine (a firing never overlaps the previous one),    *)
(* the consumer receives the key's versions in the order they were        *)
(* written: Sync's initial send, the cron job's sends and the detached     *)
(* ReSync's discarded sends cannot reorder events on the service's         *)
(* channel.  The overlap run shows that two concurrent cron firings break  *)
(* this.                                                                   *)
THEOREM SingleJobDeliveryOrder ==
    ASSUME NEW j0, Jobs = {j0}
    PROVE  Spec => []DeliveryOrder
<1>1. OInv => DeliveryOrder
  BY DEF OInv, OrderRest
<1>2. QED
  BY <1>1, SingleJobOInv, PTL
=============================================================================
