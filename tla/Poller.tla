------------------------------- MODULE Poller -------------------------------
(***************************************************************************)
(* The Redis sync provider, src/core/pkg/sync/redis/redis_sync.go.         *)
(*                                                                         *)
(* One Sync value is shared by three kinds of goroutine: the goroutine     *)
(* running Sync (initial fetch, then cron start and wait), the goroutines  *)
(* the cron library spawns at every tick (one per firing, so they may      *)
(* overlap), and the goroutines the service spawns to run ReSync.  All of  *)
(* them go through fetchData, which writes rs.LastSHA, and none of them    *)
(* holds a lock.  Each goroutine is modelled as a small program counter    *)
(* whose steps are the points where it touches shared state: a read of     *)
(* LastSHA, a round trip to Redis, a write of LastSHA, a send on the       *)
(* event channel.                                                          *)
(*                                                                         *)
(* The event channel (make(chan DataSync, 1) in the service) is the        *)
(* sequence q: its first ChanCap entries are the buffer, the rest are the  *)
(* senders blocked on it, in the FIFO order the Go runtime serves them.    *)
(***************************************************************************)
EXTENDS Naturals, Sequences

CONSTANTS
    Raw,        \* documents a client may store under the key
    Canon,      \* normalised document texts
    Normalize,  \* utils.ConvertToJSON on each document: a text or "convErr"
    Digest,     \* the printable digests generateSHA produces
    SHA,        \* generateSHA, a function from texts to digests
    Absent,     \* the key does not exist
    NoSHA,      \* LastSHA = "", nothing fingerprinted yet
    Jobs,       \* cron goroutines that may be live at once
    Resyncs,    \* ReSync goroutines that may be live at once
    Interval,   \* rs.Interval, seconds
    MaxWrites   \* bound on the number of writes to the key

(* The tags fetchData's result can carry besides a document. *)
Empty    == "empty"      \* ("", nil): no key, or an empty value
FetchErr == "fetchErr"   \* ("", err) from the transport
ConvErr  == "convErr"    \* ("", err) from ConvertToJSON

ASSUME PollerAssumption ==
    /\ Normalize \in [Raw -> Canon \cup {ConvErr}]
    /\ SHA \in [Canon -> Digest]
    \* SHA3-256 is taken to be collision free on the documents in play
    /\ \A c1, c2 \in Canon : SHA[c1] = SHA[c2] => c1 = c2
    /\ Absent \notin Raw
    /\ NoSHA \notin Digest
    /\ Canon \cap {Empty, FetchErr, ConvErr} = {}
    /\ "sync" \notin Jobs
    /\ Interval \in Nat
    /\ MaxWrites \in Nat

VARIABLES
    redis,    \* the value stored under rs.Key, or Absent
    wver,     \* number of writes to the key so far (its version)
    ctxDone,  \* the service's errgroup context has been cancelled
    LastSHA,  \* rs.LastSHA
    ready,    \* rs.ready
    cron,     \* the cron scheduler: "off", "running" or "stopped"
    syncPc,   \* where the Sync goroutine is
    sdata,    \* the initial fetch's result, waiting to be sent
    q,        \* the event channel: buffer, then blocked senders
    jpc,      \* where each cron goroutine is
    jprev,    \* each cron goroutine's previousSHA
    jres,     \* each cron goroutine's fetchData result
    rpc,      \* where each ReSync goroutine is
    rres,     \* each ReSync goroutine's fetchData result
    lastFetch \* ghost: the document the latest round trip to Redis converted

pollerVars == <<redis, wver, ctxDone, LastSHA, ready, cron, syncPc, sdata, q,
                jpc, jprev, jres, rpc, rres, lastFetch>>

Value  == Raw \cup {Absent}
Result == Canon \cup {Empty, FetchErr, ConvErr}
Ver    == 0..MaxWrites
(* A DataSync on the channel, with the key's version when it was read. *)
Msg    == [from : Jobs \cup {"sync"}, data : Canon, ver : Ver]
Fetched == [data : Result, ver : Ver]

(* make(chan coresync.DataSync, 1) in Service.Start *)
ChanCap == 1

(* AddFunc("*/N * * * *") is refused by the cron parser when N = 0, and  *)
(* Sync discards the error: then no periodic job exists.                  *)
CronAdded == Interval > 0

-----------------------------------------------------------------------------
(***************************************************************************)
(* fetchData.  A Redis command answers "val" (the stored value), "nil"     *)
(* (redis.Nil, no such key) or "fail" (any other error: JSON module        *)
(* missing, wrong type, transport, a cancelled context).  An existing key  *)
(* never answers nil; once the context is cancelled every command fails.   *)
(***************************************************************************)
Replies(v, cancelled) ==
    IF cancelled THEN {"fail"}
    ELSE IF v = Absent THEN {"nil", "fail"} ELSE {"val", "fail"}

(* rs.Init: one PING; it fails on a cancelled context, and may fail on  *)
(* any transport or authentication error.                                *)
PingReplies(cancelled) ==
    IF cancelled THEN {"fail"} ELSE {"ok", "fail"}

(* JSON.GET first; on any error fall back to GET. *)
fetchData(v, jsonReply, getReply) ==
    IF jsonReply = "val" THEN Normalize[v]
    ELSE IF getReply = "nil" THEN Empty
    ELSE IF getReply = "fail" THEN FetchErr
    ELSE Normalize[v]

(* Mutant: the converted text itself is stored, generateSHA forgotten. *)
SetLastSHAUnhashed(res) ==
    LastSHA' = IF res \in Canon THEN res ELSE LastSHA

(* The write of rs.LastSHA inside fetchData, on a converted document. *)
SetLastSHA(res) ==
    LastSHA' = IF res \in Canon THEN SHA[res] ELSE LastSHA

(* The ghost record of the real-time order of fetches: a round trip that *)
(* yields a converted document makes it the latest one fetched.           *)
RecordFetch(res) ==
    lastFetch' = IF res \in Canon THEN res ELSE lastFetch

(* The senders blocked on the channel. *)
Blocked == {q[i].from : i \in (ChanCap + 1)..Len(q)}

-----------------------------------------------------------------------------
PollerInit ==
    /\ redis \in Value
    /\ wver = 0
    /\ ctxDone = FALSE
    /\ LastSHA = NoSHA
    /\ ready = FALSE
    /\ cron = "off"
    /\ syncPc = "idle"
    /\ sdata = [data |-> Empty, ver |-> 0]
    /\ q = <<>>
    /\ jpc = [j \in Jobs |-> "idle"]
    /\ jprev = [j \in Jobs |-> NoSHA]
    /\ jres = [j \in Jobs |-> [data |-> Empty, ver |-> 0]]
    /\ rpc = [r \in Resyncs |-> "idle"]
    /\ rres = [r \in Resyncs |-> Empty]
    /\ lastFetch = Empty

(* A client (redis-cli SET/DEL, JSON.SET) changes the key. *)
RedisWrite ==
    /\ wver < MaxWrites
    /\ \E v \in Value \ {redis} : redis' = v
    /\ wver' = wver + 1
    /\ UNCHANGED <<ctxDone, LastSHA, ready, cron, syncPc, sdata, q,
                   jpc, jprev, jres, rpc, rres,
                   lastFetch>>

(* Mutant: rs.Cron.Start() moved before the initial send. *)
SyncInitialFetchEarlyCron ==
    /\ syncPc = "fetch"
    /\ \E jr, gr \in Replies(redis, ctxDone) :
         LET res == fetchData(redis, jr, gr) IN
         /\ SetLastSHA(res)
         /\ RecordFetch(res)
         /\ sdata' = [data |-> res, ver |-> wver]
         /\ \/ /\ res \in {FetchErr, ConvErr}
               /\ syncPc' = "failed"
               /\ ctxDone' = TRUE
               /\ UNCHANGED <<ready, cron>>
            \/ /\ res = Empty
               /\ syncPc' = "wait"
               /\ ready' = TRUE
               /\ cron' = "running"
               /\ UNCHANGED ctxDone
            \/ /\ res \in Canon
               /\ syncPc' = "send"
               /\ cron' = "running"
               /\ UNCHANGED <<ready, ctxDone>>
    /\ UNCHANGED <<redis, wver, q, jpc, jprev, jres, rpc, rres>>

(* Sync: the initial fetch.  An error ends Sync with that error, which   *)
(* makes the errgroup cancel the shared context.  With nothing to send,  *)
(* Sync marks itself ready and starts the cron scheduler at once.        *)
SyncInitialFetch ==
    /\ syncPc = "fetch"
    /\ \E jr, gr \in Replies(redis, ctxDone) :
         LET res == fetchData(redis, jr, gr) IN
         /\ SetLastSHA(res)
         /\ RecordFetch(res)
         /\ sdata' = [data |-> res, ver |-> wver]
         /\ \/ /\ res \in {FetchErr, ConvErr}
               /\ syncPc' = "failed"
               /\ ctxDone' = TRUE
               /\ UNCHANGED <<ready, cron>>
            \/ /\ res = Empty
               /\ syncPc' = "wait"
               /\ ready' = TRUE
               /\ cron' = "running"
               /\ UNCHANGED ctxDone
            \/ /\ res \in Canon
               /\ syncPc' = "send"
               /\ UNCHANGED <<ready, cron, ctxDone>>
    /\ UNCHANGED <<redis, wver, q, jpc, jprev, jres, rpc, rres>>

(* Sync: the initial send, then ready and cron start.  No cron goroutine *)
(* exists yet, so the send finds the channel's buffer free.              *)
SyncSend ==
    /\ syncPc = "send"
    /\ Len(q) < ChanCap
    /\ q' = Append(q, [from |-> "sync", data |-> sdata.data, ver |-> sdata.ver])
    /\ syncPc' = "wait"
    /\ ready' = TRUE
    /\ cron' = "running"
    /\ UNCHANGED <<redis, wver, ctxDone, LastSHA, sdata, jpc, jprev, jres,
                   rpc, rres,
                   lastFetch>>

(* Mutant: Sync waits for the running cron jobs before returning. *)
SyncStopWaitJobs ==
    /\ syncPc = "wait"
    /\ ctxDone
    /\ \A j \in Jobs : jpc[j] = "idle"
    /\ syncPc' = "done"
    /\ cron' = "stopped"
    /\ UNCHANGED <<redis, wver, ctxDone, LastSHA, ready, sdata, q, jpc, jprev,
                   jres, rpc, rres,
                   lastFetch>>

(* Sync: <-ctx.Done(), then Cron.Stop().  Stop does not wait for the     *)
(* cron goroutines already running.                                       *)
SyncStop ==
    /\ syncPc = "wait"
    /\ ctxDone
    /\ syncPc' = "done"
    /\ cron' = "stopped"
    /\ UNCHANGED <<redis, wver, ctxDone, LastSHA, ready, sdata, q, jpc, jprev,
                   jres, rpc, rres,
                   lastFetch>>

-----------------------------------------------------------------------------
(* The cron job.  A firing spawns a goroutine whose first access to     *)
(* shared state is previousSHA := rs.LastSHA.                            *)
Tick(j) ==
    /\ cron = "running"
    /\ CronAdded
    /\ jpc[j] = "idle"
    /\ jprev' = [jprev EXCEPT ![j] = LastSHA]
    /\ jpc' = [jpc EXCEPT ![j] = "fetch"]
    /\ UNCHANGED <<redis, wver, ctxDone, LastSHA, ready, cron, syncPc, sdata,
                   q, jres, rpc, rres,
                   lastFetch>>

(* fetchData's round trips to Redis. *)
JobFetch(j) ==
    /\ jpc[j] = "fetch"
    /\ \E jr, gr \in Replies(redis, ctxDone) :
         LET res == fetchData(redis, jr, gr) IN
         /\ jres' = [jres EXCEPT ![j] = [data |-> res, ver |-> wver]]
         /\ RecordFetch(res)
    /\ jpc' = [jpc EXCEPT ![j] = "setSHA"]
    /\ UNCHANGED <<redis, wver, ctxDone, LastSHA, ready, cron, syncPc, sdata,
                   q, jprev, rpc, rres>>

(* A round trip that Redis answers: the fallback GET does not fail. *)
JobFetchOk(j) ==
    /\ JobFetch(j)
    /\ jres'[j].data # FetchErr

(* fetchData writes LastSHA and returns; an error or an empty result     *)
(* ends the job.                                                          *)
JobSetSHA(j) ==
    /\ jpc[j] = "setSHA"
    /\ SetLastSHA(jres[j].data)
    /\ jpc' = [jpc EXCEPT ![j] = IF jres[j].data \in Canon THEN "compare"
                                                           ELSE "idle"]
    /\ UNCHANGED <<redis, wver, ctxDone, ready, cron, syncPc, sdata, q, jprev,
                   jres, rpc, rres,
                   lastFetch>>

(* Mutant: the else-if chain collapsed into one conjunction. *)
JobCompareBothTests(j) ==
    /\ jpc[j] = "compare"
    /\ jpc' = [jpc EXCEPT ![j] =
                 IF jprev[j] = NoSHA /\ jprev[j] # LastSHA THEN "send"
                                                          ELSE "idle"]
    /\ UNCHANGED <<redis, wver, ctxDone, LastSHA, ready, cron, syncPc, sdata,
                   q, jprev, jres, rpc, rres,
                   lastFetch>>

(* previousSHA == "" or previousSHA != rs.LastSHA (read again now). *)
JobCompare(j) ==
    /\ jpc[j] = "compare"
    /\ jpc' = [jpc EXCEPT ![j] =
                 IF jprev[j] = NoSHA \/ jprev[j] # LastSHA THEN "send"
                                                          ELSE "idle"]
    /\ UNCHANGED <<redis, wver, ctxDone, LastSHA, ready, cron, syncPc, sdata,
                   q, jprev, jres, rpc, rres,
                   lastFetch>>

(* dataSync <- ...: the job joins the channel and blocks while its value *)
(* is not in the buffer.                                                  *)
JobSend(j) ==
    /\ jpc[j] = "send"
    /\ q' = Append(q, [from |-> j, data |-> jres[j].data, ver |-> jres[j].ver])
    /\ jpc' = [jpc EXCEPT ![j] = IF Len(q) < ChanCap THEN "idle" ELSE "blocked"]
    /\ UNCHANGED <<redis, wver, ctxDone, LastSHA, ready, cron, syncPc, sdata,
                   jprev, jres, rpc, rres,
                   lastFetch>>

(* A receive moved the job's value into the buffer: the send returns. *)
JobReleased(j) ==
    /\ jpc[j] = "blocked"
    /\ j \notin Blocked
    /\ jpc' = [jpc EXCEPT ![j] = "idle"]
    /\ UNCHANGED <<redis, wver, ctxDone, LastSHA, ready, cron, syncPc, sdata,
                   q, jprev, jres, rpc, rres,
                   lastFetch>>

-----------------------------------------------------------------------------
(* ReSync, run by the service on a goroutine of its own with a context  *)
(* of its own (context.Background() with a 30 s timeout): the shared     *)
(* context's cancellation does not reach it, its timeout is a "fail".    *)
ReSyncCall(r) ==
    /\ rpc[r] = "idle"
    /\ rpc' = [rpc EXCEPT ![r] = "fetch"]

RsFetch(r) ==
    /\ rpc[r] = "fetch"
    /\ \E jr, gr \in Replies(redis, FALSE) :
         LET res == fetchData(redis, jr, gr) IN
         /\ rres' = [rres EXCEPT ![r] = res]
         /\ RecordFetch(res)
    /\ rpc' = [rpc EXCEPT ![r] = "setSHA"]
    /\ UNCHANGED <<redis, wver, ctxDone, LastSHA, ready, cron, syncPc, sdata,
                   q, jpc, jprev, jres>>

(* fetchData writes LastSHA; ReSync then sends the document into the   *)
(* channel it was given, which the service made for this call alone and  *)
(* nobody reads: the document goes nowhere.                               *)
RsDone(r) ==
    /\ rpc[r] = "setSHA"
    /\ SetLastSHA(rres[r])
    /\ rpc' = [rpc EXCEPT ![r] = "idle"]
    /\ UNCHANGED <<redis, wver, ctxDone, ready, cron, syncPc, sdata, q, jpc,
                   jprev, jres, rres,
                   lastFetch>>

-----------------------------------------------------------------------------
(* The steps of the provider's own goroutines. *)
PollerStep ==
    \/ RedisWrite
    \/ SyncInitialFetch
    \/ SyncSend
    \/ SyncStop
    \/ \E j \in Jobs :
         Tick(j) \/ JobFetch(j) \/ JobSetSHA(j) \/ JobCompare(j)
           \/ JobSend(j) \/ JobReleased(j)
    \/ \E r \in Resyncs : RsFetch(r) \/ RsDone(r)

PollerTypeOK ==
    /\ redis \in Value
    /\ wver \in Ver
    /\ ctxDone \in BOOLEAN
    /\ LastSHA \in Digest \cup {NoSHA}
    /\ ready \in BOOLEAN
    /\ cron \in {"off", "running", "stopped"}
    /\ syncPc \in {"idle", "fetch", "send", "wait", "done", "failed"}
    /\ sdata \in Fetched
    /\ q \in Seq(Msg)
    /\ jpc \in [Jobs -> {"idle", "fetch", "setSHA", "compare", "send", "blocked"}]
    /\ jprev \in [Jobs -> Digest \cup {NoSHA}]
    /\ jres \in [Jobs -> Fetched]
    /\ rpc \in [Resyncs -> {"idle", "fetch", "setSHA"}]
    /\ rres \in [Resyncs -> Result]
    /\ lastFetch \in Canon \cup {Empty}
=============================================================================
