------------------------------- MODULE Service ------------------------------
(***************************************************************************)
(* The standalone Redis sync service, Service.Start and processSyncData   *)
(* in src/flagd/pkg/service/redis-sync/service.go, composed with the      *)
(* provider of module Poller.                                              *)
(*                                                                         *)
(* Start pings Redis, then runs three goroutines under one errgroup: the   *)
(* provider's Sync, the gRPC sync service, and the consumer loop that      *)
(* takes events off the channel, applies them to the flag store through    *)
(* the evaluator and, when the store asks for it, starts a ReSync on a     *)
(* goroutine of its own.  The first goroutine to fail cancels the shared   *)
(* context; SIGINT/SIGTERM cancel it too.  Start returns once all three    *)
(* have returned, and the process then exits.                              *)
(***************************************************************************)
EXTENDS Poller

CONSTANTS
    NoDoc      \* nothing received / nothing in the store yet

ASSUME ServiceAssumption ==
    NoDoc \notin Canon

VARIABLES
    mainPc,    \* Start: "init", "running", "exited"
    grpc,      \* the gRPC sync service goroutine
    cpc,       \* the processSyncData goroutine
    received,  \* the last event processSyncData took off the channel
    store      \* the document the flag store was last set from

vars == <<pollerVars, mainPc, grpc, cpc, received, store>>

Received == [data : Canon \cup {NoDoc}, ver : Ver]

-----------------------------------------------------------------------------
Init ==
    /\ PollerInit
    /\ mainPc = "init"
    /\ grpc = "idle"
    /\ cpc = "idle"
    /\ received = [data |-> NoDoc, ver |-> 0]
    /\ store = NoDoc

(* s.redisSync.Init: one PING.  On failure Start returns the error      *)
(* before any goroutine is started; on success the three are started.   *)
StartService ==
    /\ mainPc = "init"
    /\ \E reply \in PingReplies(ctxDone) :
       \/ /\ reply = "ok"
          /\ mainPc' = "running"
          /\ syncPc' = "fetch"
          /\ grpc' = "running"
          /\ cpc' = "running"
       \/ /\ reply = "fail"
          /\ mainPc' = "exited"
          /\ UNCHANGED <<syncPc, grpc, cpc>>
    /\ UNCHANGED <<redis, wver, ctxDone, LastSHA, ready, cron, sdata, q, jpc,
                   jprev, jres, rpc, rres, received, store, lastFetch>>

(* SIGINT or SIGTERM cancels the context Start was given. *)
Signal ==
    /\ ~ctxDone
    /\ ctxDone' = TRUE
    /\ UNCHANGED <<redis, wver, LastSHA, ready, cron, syncPc, sdata, q, jpc,
                   jprev, jres, rpc, rres, mainPc, grpc, cpc, received, store,
                   lastFetch>>

(* syncService.Start returns an error (a port in use, bad certificates): *)
(* the errgroup cancels the shared context.                               *)
GrpcFail ==
    /\ grpc = "running"
    /\ grpc' = "failed"
    /\ ctxDone' = TRUE
    /\ UNCHANGED <<redis, wver, LastSHA, ready, cron, syncPc, sdata, q, jpc,
                   jprev, jres, rpc, rres, mainPc, cpc, received, store, lastFetch>>

GrpcStop ==
    /\ grpc = "running"
    /\ ctxDone
    /\ grpc' = "done"
    /\ UNCHANGED <<pollerVars, mainPc, cpc, received, store>>

(* processSyncData receives an event and runs updateStoreFromSyncData    *)
(* under s.mu: SetState fails (logged, the loop goes on), or sets the    *)
(* store and, when it reports that a resync is required, starts ReSync    *)
(* on a goroutine that is never awaited.  Events are never empty (every  *)
(* sender checks data != ""), so the empty-data early return is dead.    *)
(* Go's select picks at random between a ready event and ctx.Done(), so  *)
(* a cancelled context does not stop this step.                          *)
Receive ==
    /\ cpc = "running"
    /\ q # <<>>
    /\ q' = Tail(q)
    /\ received' = [data |-> Head(q).data, ver |-> Head(q).ver]
    /\ \/ /\ UNCHANGED <<store, rpc>>
       \/ /\ store' = Head(q).data
          /\ UNCHANGED rpc
       \/ /\ store' = Head(q).data
          /\ \E r \in Resyncs : ReSyncCall(r)
    /\ UNCHANGED <<redis, wver, ctxDone, LastSHA, ready, cron, syncPc, sdata,
                   jpc, jprev, jres, rres, mainPc, grpc, cpc, lastFetch>>

(* case <-ctx.Done(): return nil *)
ConsumerStop ==
    /\ cpc = "running"
    /\ ctxDone
    /\ cpc' = "done"
    /\ UNCHANGED <<pollerVars, mainPc, grpc, received, store>>

(* g.Wait() returns once the three goroutines have returned. *)
StartReturns ==
    /\ mainPc = "running"
    /\ syncPc \in {"done", "failed"}
    /\ grpc \in {"done", "failed"}
    /\ cpc = "done"
    /\ mainPc' = "exited"
    /\ UNCHANGED <<pollerVars, grpc, cpc, received, store>>

(* The process has exited; goroutines still blocked die with it. *)
Exited ==
    /\ mainPc = "exited"
    /\ UNCHANGED vars

Next ==
    \/ PollerStep /\ UNCHANGED <<mainPc, grpc, cpc, received, store>>
    \/ StartService
    \/ Signal
    \/ GrpcFail
    \/ GrpcStop
    \/ Receive
    \/ ConsumerStop
    \/ StartReturns
    \/ Exited

Spec == Init /\ [][Next]_vars

(***************************************************************************)
(* Fairness.  The Go scheduler runs every runnable goroutine, so each      *)
(* goroutine step that stays enabled is taken (weak fairness).  The cron   *)
(* scheduler keeps firing while it runs, so a tick is weakly fair when a   *)
(* job was added.  Redis is assumed to answer eventually: a fetch that     *)
(* could succeed infinitely often eventually does (strong fairness of the  *)
(* successful round trip).  Writes to the key, signals and gRPC failures   *)
(* come from the environment and get no fairness.                          *)
(***************************************************************************)
(* A step of the provider's goroutines leaves the service's own state. *)
ServiceSame == UNCHANGED <<mainPc, grpc, cpc, received, store>>

Fairness ==
    /\ WF_vars(StartService)
    /\ WF_vars(SyncInitialFetch /\ ServiceSame)
    /\ WF_vars(SyncSend /\ ServiceSame)
    /\ WF_vars(SyncStop /\ ServiceSame)
    /\ \A j \in Jobs :
         /\ WF_vars(Tick(j) /\ ServiceSame)
         /\ WF_vars(JobFetch(j) /\ ServiceSame)
         /\ SF_vars(JobFetchOk(j) /\ ServiceSame)
         /\ WF_vars(JobSetSHA(j) /\ ServiceSame)
         /\ WF_vars(JobCompare(j) /\ ServiceSame)
         /\ WF_vars(JobSend(j) /\ ServiceSame)
         /\ WF_vars(JobReleased(j) /\ ServiceSame)
    /\ \A r \in Resyncs :
         WF_vars(RsFetch(r) /\ ServiceSame) /\ WF_vars(RsDone(r) /\ ServiceSame)
    /\ WF_vars(GrpcStop) /\ WF_vars(Receive) /\ WF_vars(ConsumerStop)
    /\ WF_vars(StartReturns)

FairSpec == Spec /\ Fairness

-----------------------------------------------------------------------------
TypeOK ==
    /\ PollerTypeOK
    /\ mainPc \in {"init", "running", "exited"}
    /\ grpc \in {"idle", "running", "failed", "done"}
    /\ cpc \in {"idle", "running", "done"}
    /\ received \in Received
    /\ store \in Canon \cup {NoDoc}

(* No goroutine is between steps of a poll and no event is in flight. *)
Quiescent ==
    /\ syncPc = "wait"
    /\ \A j \in Jobs : jpc[j] = "idle"
    /\ \A r \in Resyncs : rpc[r] = "idle"
    /\ q = <<>>

(* The fingerprint of a received document; NoSHA for none. *)
DigestOf(d) == IF d = NoDoc THEN NoSHA ELSE SHA[d]

(* Change detection (Sync's cron job) decides to emit by comparing the   *)
(* fetched document's digest with rs.LastSHA, so rs.LastSHA must be the  *)
(* digest of what the consumer last took off the channel whenever        *)
(* nothing is in flight.  If it ever differs, later polls of an unchanged *)
(* key compare equal and the consumer never gets the key's content.      *)
PipelineConsistent ==
    Quiescent => LastSHA = DigestOf(received.data)

(* Events reach the consumer in the order the key was written: what it   *)
(* took last and what is queued on the channel were read from            *)
(* non-decreasing versions of the key.  A stale document taken after a   *)
(* newer one overwrites the store with old flags.                        *)
DeliveryOrder ==
    /\ \A i \in 1..Len(q) : received.ver <= q[i].ver
    /\ \A i, k \in 1..Len(q) : i < k => q[i].ver <= q[k].ver

(* Spec 8: a ReSync running while the periodic schedule is active must   *)
(* not corrupt the stored fingerprint: once no goroutine is between its    *)
(* round trip and its write of rs.LastSHA (fetchData, lines 228-236),      *)
(* LastSHA is the hash of the document fetched last in real time.          *)
FingerprintIsLastFetch ==
    /\ \A j \in Jobs : jpc[j] # "setSHA"
    /\ \A r \in Resyncs : rpc[r] # "setSHA"
    => LastSHA = IF lastFetch = Empty THEN NoSHA ELSE SHA[lastFetch]

(* The document the key holds now, if it holds a well-formed one. *)
KeyDoc == IF redis \in Raw /\ Normalize[redis] \in Canon
          THEN Normalize[redis] ELSE NoDoc

(* The poller's purpose (spec 1, 4.2): while the service runs, once the  *)
(* key holds a well-formed document for good, the consumer eventually     *)
(* receives that document and keeps it.  Change detection that skips an   *)
(* emission it owes, or a cadence that never fires, leaves the store on   *)
(* old flags forever.                                                      *)
Convergence ==
    <>[](mainPc = "running" /\ ~ctxDone) =>
        <>[](KeyDoc \in Canon => received.data = KeyDoc)

(* A shutdown signal or a failed sibling ends the process: Sync returns   *)
(* after Cron.Stop, the consumer and the gRPC task return, g.Wait returns  *)
(* (spec 8: Sync returns within a bounded time after cancellation), even   *)
(* when a cron goroutine is blocked forever on the full channel.           *)
ShutdownCompletes ==
    ctxDone ~> mainPc = "exited"

(* Cancellation is never reported as a failure (spec 5): once the shared  *)
(* context is cancelled, Sync does not return an error.                    *)
CancelNotFailure ==
    [][ctxDone /\ syncPc # "failed" => syncPc' # "failed"]_vars

(* Once the shared context is cancelled (shutdown, or a sibling task      *)
(* failed) no event enters the channel any more: the spec's promise that  *)
(* cancellation stops all emission.  Cron goroutines already past their   *)
(* fetch, and a Sync goroutine past its initial fetch, still send.        *)
NoEmitAfterCancel ==
    [][ctxDone => Len(q') <= Len(q)]_vars
=============================================================================
