---------------------------- MODULE PipelineProofs ----------------------------
(***************************************************************************)
(* PipelineConsistent for every value of the constants, with one cron      *)
(* goroutine and no ReSync.  rs.LastSHA always fingerprints the newest     *)
(* document in the pipeline (the last event queued, else the last one      *)
(* received), except while a goroutine is between fetching a newer one and *)
(* handing it to the channel; and a cron goroutine that read previousSHA   *)
(* read that same fingerprint.                                             *)
(***************************************************************************)
EXTENDS ServiceProofs, SequenceTheorems

USE PollerAssumption, ServiceAssumption

(* The newest document in the pipeline: the last event on the channel, *)
(* or, with the channel empty, the one the consumer received last.      *)
PipeLast == IF q = <<>> THEN received.data ELSE q[Len(q)].data

FingerprintRest ==
    /\ syncPc \in {"idle", "fetch"} => LastSHA = NoSHA /\ received.data = NoDoc
    /\ syncPc = "send" => LastSHA = SHA[sdata.data] /\ received.data = NoDoc
    /\ \A j \in Jobs :
         /\ jpc[j] \in {"idle", "blocked"} /\ syncPc \notin {"idle", "fetch", "send"}
              => LastSHA = DigestOf(PipeLast)
         /\ jpc[j] \in {"fetch", "setSHA"}
              => LastSHA = jprev[j] /\ jprev[j] = DigestOf(PipeLast)
         /\ jpc[j] = "compare"
              => LastSHA = SHA[jres[j].data] /\ jprev[j] = DigestOf(PipeLast)
         /\ jpc[j] = "send" => LastSHA = SHA[jres[j].data]

PInv == OInv /\ FingerprintRest

(* The fingerprint of a document is its SHA. *)
LEMMA DigestOfDoc ==
    ASSUME NEW d \in Canon
    PROVE  DigestOf(d) = SHA[d]
BY DEF DigestOf

(* Taking the head off a sequence of two or more keeps its last element. *)
LEMMA TailKeepsLast ==
    ASSUME NEW S, NEW s \in Seq(S), s # <<>>, Len(s) # 1
    PROVE  /\ Tail(s) # <<>>
           /\ Tail(s)[Len(Tail(s))] = s[Len(s)]
<1>1. /\ Tail(s) \in Seq(S)
      /\ Len(Tail(s)) = Len(s) - 1
      /\ \A i \in 1 .. Len(Tail(s)) : Tail(s)[i] = s[i+1]
  BY HeadTailProperties, Zenon
<1>2. Len(s) > 1 /\ Len(s) \in Nat
  OBVIOUS
<1>3. Len(Tail(s)) \in 1 .. Len(Tail(s)) /\ Len(Tail(s)) + 1 = Len(s)
  BY <1>1, <1>2
<1>4. Tail(s) # <<>>
  <2>1. Len(Tail(s)) # 0
    BY <1>3
  <2>2. Len(<<>>) = 0
    OBVIOUS
  <2>3. QED
    BY <1>1, <2>1, <2>2
<1>5. QED
  BY <1>1, <1>3, <1>4

(* Every step keeps FingerprintRest, given OInv before and after it. *)
LEMMA NextFingerprintRest ==
    ASSUME NEW j0, Jobs = {j0}, Resyncs = {}, OInv, OInv', FingerprintRest,
           [Next]_vars
    PROVE  FingerprintRest'
<1> USE DEF OInv, IInv, TypeOK, PollerTypeOK, OrderRest, SyncFirst
<1> DEFINE SvcSame == UNCHANGED <<mainPc, grpc, cpc, received, store>>
<1> DEFINE Started == syncPc \notin {"idle", "fetch", "send"}
<1>0. /\ jpc[j0] # "idle" => Started
      /\ cron = "running" => Started
  BY DEF Started
<1>1. CASE RedisWrite /\ SvcSame
  <2>1. UNCHANGED <<LastSHA, syncPc, sdata, q, jpc, jprev, jres, received>>
    BY <1>1 DEF RedisWrite
  <2>2. QED
    BY <2>1 DEF FingerprintRest, PipeLast
<1>2. CASE SyncInitialFetch /\ SvcSame
  <2>1. /\ syncPc = "fetch" /\ LastSHA = NoSHA /\ received.data = NoDoc
        /\ q = <<>> /\ jpc[j0] = "idle"
    BY <1>2 DEF SyncInitialFetch, FingerprintRest
  <2>2. PICK jr, gr \in Replies(redis, ctxDone) :
             LET res == fetchData(redis, jr, gr) IN
             /\ SetLastSHA(res)
             /\ sdata' = [data |-> res, ver |-> wver]
             /\ \/ res \notin Canon /\ syncPc' \in {"failed", "wait"}
                \/ res \in Canon /\ syncPc' = "send"
    BY <1>2 DEF SyncInitialFetch
  <2> DEFINE res == fetchData(redis, jr, gr)
  <2>3. UNCHANGED <<q, jpc, jprev, jres, received>>
    BY <1>2 DEF SyncInitialFetch
  <2>4. CASE res \notin Canon
    <3>1. LastSHA' = NoSHA /\ syncPc' \in {"failed", "wait"}
      BY <2>1, <2>2, <2>4 DEF SetLastSHA
    <3>2. DigestOf(PipeLast') = NoSHA
      BY <2>1, <2>3 DEF PipeLast, DigestOf
    <3>3. QED
      BY <2>1, <2>3, <3>1, <3>2 DEF FingerprintRest
  <2>5. CASE res \in Canon
    <3>1. LastSHA' = SHA[sdata'.data] /\ syncPc' = "send"
      BY <2>2, <2>5 DEF SetLastSHA
    <3>2. QED
      BY <2>1, <2>3, <3>1 DEF FingerprintRest
  <2>6. QED
    BY <2>4, <2>5
<1>3. CASE SyncSend /\ SvcSame
  <2>1. q = <<>> /\ jpc[j0] = "idle" /\ LastSHA = SHA[sdata.data]
        /\ sdata.data \in Canon
    BY <1>3 DEF SyncSend, FingerprintRest, SendersHoldDocs
  <2>2. /\ q' = <<[from |-> "sync", data |-> sdata.data, ver |-> sdata.ver]>>
        /\ syncPc' = "wait"
        /\ UNCHANGED <<LastSHA, jpc, jprev, jres, received>>
    BY <1>3, <2>1 DEF SyncSend
  <2>3. PipeLast' = sdata.data
    BY <2>2 DEF PipeLast
  <2>4. QED
    BY <2>1, <2>2, <2>3, DigestOfDoc DEF FingerprintRest
<1>4. CASE SyncStop /\ SvcSame
  <2>1. syncPc = "wait" /\ syncPc' = "done"
        /\ UNCHANGED <<LastSHA, sdata, q, jpc, jprev, jres, received>>
    BY <1>4 DEF SyncStop
  <2>2. QED
    BY <2>1 DEF FingerprintRest, PipeLast
<1>5. ASSUME NEW j \in Jobs, Tick(j), SvcSame
      PROVE  FingerprintRest'
  <2>1. j = j0 /\ jpc[j0] = "idle" /\ cron = "running"
    BY <1>5 DEF Tick
  <2>2. LastSHA = DigestOf(PipeLast)
    BY <1>0, <2>1 DEF FingerprintRest
  <2>3. /\ jpc' = [jpc EXCEPT ![j0] = "fetch"]
        /\ jprev' = [jprev EXCEPT ![j0] = LastSHA]
        /\ UNCHANGED <<LastSHA, syncPc, sdata, q, jres, received>>
    BY <1>5, <2>1 DEF Tick
  <2>4. QED
    BY <2>1, <2>2, <2>3 DEF FingerprintRest, PipeLast
<1>6. ASSUME NEW j \in Jobs, JobFetch(j), SvcSame
      PROVE  FingerprintRest'
  <2>1. j = j0 /\ jpc[j0] = "fetch" /\ jpc' = [jpc EXCEPT ![j0] = "setSHA"]
        /\ UNCHANGED <<LastSHA, syncPc, sdata, q, jprev, received>>
    BY <1>6 DEF JobFetch
  <2>2. QED
    BY <2>1 DEF FingerprintRest, PipeLast
<1>7. ASSUME NEW j \in Jobs, JobSetSHA(j), SvcSame
      PROVE  FingerprintRest'
  <2>1. j = j0 /\ jpc[j0] = "setSHA"
        /\ LastSHA = jprev[j0] /\ jprev[j0] = DigestOf(PipeLast)
    BY <1>7 DEF JobSetSHA, FingerprintRest
  <2>2. UNCHANGED <<syncPc, sdata, q, jprev, jres, received>>
    BY <1>7 DEF JobSetSHA
  <2>3. CASE jres[j0].data \in Canon
    <3>1. LastSHA' = SHA[jres[j0].data] /\ jpc' = [jpc EXCEPT ![j0] = "compare"]
      BY <1>7, <2>1, <2>3 DEF JobSetSHA, SetLastSHA
    <3>2. QED
      BY <2>1, <2>2, <3>1 DEF FingerprintRest, PipeLast
  <2>4. CASE jres[j0].data \notin Canon
    <3>1. LastSHA' = LastSHA /\ jpc' = [jpc EXCEPT ![j0] = "idle"]
      BY <1>7, <2>1, <2>4 DEF JobSetSHA, SetLastSHA
    <3>2. Started
      BY <1>0, <2>1
    <3>3. QED
      BY <2>1, <2>2, <3>1, <3>2 DEF FingerprintRest, PipeLast
  <2>5. QED
    BY <2>3, <2>4
<1>8. ASSUME NEW j \in Jobs, JobCompare(j), SvcSame
      PROVE  FingerprintRest'
  <2>1. j = j0 /\ jpc[j0] = "compare"
        /\ LastSHA = SHA[jres[j0].data] /\ jprev[j0] = DigestOf(PipeLast)
    BY <1>8 DEF JobCompare, FingerprintRest
  <2>2. /\ jpc' = [jpc EXCEPT ![j0] =
                     IF jprev[j0] = NoSHA \/ jprev[j0] # LastSHA THEN "send"
                                                              ELSE "idle"]
        /\ UNCHANGED <<LastSHA, syncPc, sdata, q, jprev, jres, received>>
    BY <1>8, <2>1 DEF JobCompare
  <2>3. Started
    BY <1>0, <2>1
  <2>4. QED
    BY <2>1, <2>2, <2>3 DEF FingerprintRest, PipeLast
<1>9. ASSUME NEW j \in Jobs, JobSend(j), SvcSame
      PROVE  FingerprintRest'
  <2> DEFINE m == [from |-> j0, data |-> jres[j0].data, ver |-> jres[j0].ver]
  <2>1. j = j0 /\ jpc[j0] = "send" /\ LastSHA = SHA[jres[j0].data]
        /\ jres[j0].data \in Canon
    BY <1>9 DEF JobSend, FingerprintRest, SendersHoldDocs
  <2>2. /\ q' = Append(q, m)
        /\ jpc'[j0] \in {"idle", "blocked"}
        /\ UNCHANGED <<LastSHA, syncPc, sdata, jprev, jres, received>>
    BY <1>9, <2>1 DEF JobSend
  <2>3. PipeLast' = jres[j0].data
    BY <2>2 DEF PipeLast
  <2>4. Started
    BY <1>0, <2>1
  <2>5. QED
    BY <2>1, <2>2, <2>3, <2>4, DigestOfDoc DEF FingerprintRest
<1>10. ASSUME NEW j \in Jobs, JobReleased(j), SvcSame
       PROVE  FingerprintRest'
  <2>1. j = j0 /\ jpc[j0] = "blocked" /\ jpc' = [jpc EXCEPT ![j0] = "idle"]
        /\ UNCHANGED <<LastSHA, syncPc, sdata, q, jprev, jres, received>>
    BY <1>10 DEF JobReleased
  <2>2. Started
    BY <1>0, <2>1
  <2>3. QED
    BY <2>1, <2>2 DEF FingerprintRest, PipeLast
<1>11. ASSUME NEW r \in Resyncs, RsFetch(r) \/ RsDone(r)
       PROVE  FingerprintRest'
  OBVIOUS
<1>12. CASE StartService
  <2>1. /\ syncPc' \in {syncPc, "fetch"}
        /\ syncPc' = "fetch" => syncPc = "idle"
        /\ UNCHANGED <<LastSHA, sdata, q, jpc, jprev, jres, received>>
    BY <1>12 DEF StartService
  <2>2. QED
    BY <2>1 DEF FingerprintRest, PipeLast
<1>13. CASE Signal \/ GrpcFail \/ GrpcStop \/ ConsumerStop \/ StartReturns
              \/ Exited \/ UNCHANGED vars
  <2>1. UNCHANGED <<LastSHA, syncPc, sdata, q, jpc, jprev, jres, received>>
    BY <1>13 DEF Signal, GrpcFail, GrpcStop, ConsumerStop, StartReturns,
                 Exited, vars, pollerVars
  <2>2. QED
    BY <2>1 DEF FingerprintRest, PipeLast
<1>14. CASE Receive
  <2>1. /\ q # <<>> /\ q' = Tail(q)
        /\ received'.data = Head(q).data
        /\ UNCHANGED <<LastSHA, syncPc, sdata, jpc, jprev, jres>>
    BY <1>14 DEF Receive
  <2>2. Started
    BY <2>1
  <2>3. q \in Seq(Msg) /\ PipeLast = q[Len(q)].data
    BY <2>1 DEF PipeLast
  <2>4. PipeLast' = PipeLast
    <3>1. CASE Len(q) = 1
      <4>1. q' = <<>> /\ received'.data = q[Len(q)].data
        BY <2>1, <2>3, <3>1
      <4>2. QED
        BY <2>3, <4>1 DEF PipeLast
    <3>2. CASE Len(q) # 1
      <4>2. q' # <<>> /\ q'[Len(q')] = q[Len(q)]
        BY <2>1, <2>3, <3>2, TailKeepsLast
      <4>3. QED
        BY <2>3, <4>2 DEF PipeLast
    <3>3. QED
      BY <3>1, <3>2
  <2>5. QED
    BY <2>1, <2>2, <2>4 DEF FingerprintRest
<1>15. QED
  BY <1>1, <1>2, <1>3, <1>4, <1>5, <1>6, <1>7, <1>8, <1>9, <1>10, <1>11,
     <1>12, <1>13, <1>14 DEF Next, PollerStep

(* The fingerprint facts hold initially: nothing fetched, nothing received. *)
LEMMA InitFingerprintRest ==
    Init => FingerprintRest
BY DEF Init, PollerInit, FingerprintRest

(* A quiescent pipeline, with the fingerprint facts, has the fingerprint  *)
(* of what the consumer received.                                         *)
LEMMA QuiescentConsistent ==
    ASSUME NEW j0, Jobs = {j0}, FingerprintRest
    PROVE  PipelineConsistent
<1>1. SUFFICES ASSUME Quiescent PROVE LastSHA = DigestOf(received.data)
  BY DEF PipelineConsistent
<1>2. syncPc = "wait" /\ jpc[j0] = "idle" /\ q = <<>>
  BY <1>1 DEF Quiescent
<1>3. PipeLast = received.data
  BY <1>2 DEF PipeLast
<1>4. QED
  BY <1>2, <1>3 DEF FingerprintRest

(* Spec section 5: once the pipeline is quiet (Sync waiting, the cron job  *)
(* idle, the channel empty), LastSHA, which the cron job reads as          *)
(* previousSHA (redis_sync.go:137), is the fingerprint of the document the *)
(* consumer last received, so the next unchanged fetch is rightly skipped  *)
(* and the next changed one is sent.  Proved for one cron goroutine and no *)
(* ReSync; the resync_fingerprint run shows that it fails with a ReSync.   *)
THEOREM SingleJobPipelineConsistent ==
    ASSUME NEW j0, Jobs = {j0}, Resyncs = {}
    PROVE  Spec => []PipelineConsistent
<1>1. Init => FingerprintRest
  BY InitFingerprintRest
<1>2. OInv /\ OInv' /\ FingerprintRest /\ [Next]_vars => FingerprintRest'
  BY NextFingerprintRest
<1>3. FingerprintRest => PipelineConsistent
  BY QuiescentConsistent
<1>4. Spec => []OInv
  BY SingleJobOInv
<1>5. QED
  BY <1>1, <1>2, <1>3, <1>4, PTL DEF Spec

================================================================================
