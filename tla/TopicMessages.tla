--------------------------- MODULE TopicMessages ---------------------------
(***************************************************************************)
(* The messages between the indexer and a projector, src/projector.go:     *)
(* how requests are made, and what is computed from and into responses.    *)
(* Marshalling and the Err field are left out.  A time-stamp of a bucket   *)
(* is the set of its vbuckets, ascending in the code; FilterByVbuckets,    *)
(* which is not part of the source, takes some of them out.                *)
(***************************************************************************)
EXTENDS Naturals, Sequences

TsVbuuid(bucket, vbs) == [bucket |-> bucket, vbs |-> vbs]

(* Requests that subscribe. *)
NewMutationTopicRequest(instances) ==
  [kind |-> "mutationTopic", instances |-> instances, reqTimestamps |-> <<>>,
   version |-> "watson"]
NewAddBucketsRequest(instances) ==
  [kind |-> "addBuckets", instances |-> instances, reqTimestamps |-> <<>>,
   version |-> "watson"]
NewAddInstancesRequest(instances) ==
  [kind |-> "addInstances", instances |-> instances, version |-> "watson"]

(* Requests that unsubscribe, and the one that mends a connection. *)
NewDelBucketsRequest(buckets)      == [kind |-> "delBuckets", buckets |-> buckets]
NewDelInstancesRequest(uuids)      == [kind |-> "delInstances", instanceIds |-> uuids]
NewRepairEndpointsRequest(targets) == [kind |-> "repairEndpoints", endpoints |-> targets]
NewShutdownTopicRequest            == [kind |-> "shutdownTopic"]

(* Requests about vbuckets of streams that are there already. *)
NewRestartVbucketsRequest  == [kind |-> "restartVbuckets", restartTimestamps |-> <<>>]
NewShutdownVbucketsRequest == [kind |-> "shutdownVbuckets", shutdownTimestamps |-> <<>>]

(* AddStreams and Append of the four requests that carry time-stamps. *)
AddReqStreams(req, bucket, vbs) ==
  [req EXCEPT !.reqTimestamps = Append(@, TsVbuuid(bucket, vbs))]
AddRestartStreams(req, bucket, vbs) ==
  [req EXCEPT !.restartTimestamps = Append(@, TsVbuuid(bucket, vbs))]
AddShutdownStreams(req, bucket, vbs) ==
  [req EXCEPT !.shutdownTimestamps = Append(@, TsVbuuid(bucket, vbs))]

-----------------------------------------------------------------------------
(* The vbucket map: two lists, an address and the vbuckets it hosts.       *)
AppendVbmap(resp, kvaddr, vbnos) ==
  [resp EXCEPT !.kvaddrs = Append(@, kvaddr), !.kvvbnos = Append(@, vbnos)]

AppendVbmaps(resp, kvaddrs, vbnos) ==
  [resp EXCEPT !.kvaddrs = @ \o kvaddrs, !.kvvbnos = @ \o SubSeq(vbnos, 1, Len(kvaddrs))]

Hosts(resp) == {k \in DOMAIN resp.kvaddrs : k \in DOMAIN resp.kvvbnos}

(* As a map; the last entry of an address that is listed twice remains.    *)
GetVbmaps(resp) ==
  [a \in {resp.kvaddrs[k] : k \in Hosts(resp)} |->
     LET k == CHOOSE k \in Hosts(resp) :
                resp.kvaddrs[k] = a /\ \A l \in Hosts(resp) : resp.kvaddrs[l] = a => l <= k
     IN resp.kvvbnos[k]]
IsInvalidVbmap(resp) == Len(resp.kvaddrs) # Len(resp.kvvbnos)

(* The first address that hosts the vbucket, or "". *)
LocateVbucket(resp, vbno) ==
  LET hosts == {k \in Hosts(resp) : vbno \in resp.kvvbnos[k]}
  IN IF hosts = {} THEN ""
     ELSE resp.kvaddrs[CHOOSE k \in hosts : \A l \in hosts : k <= l]

AllVbuckets(resp) == UNION {resp.kvvbnos[k] : k \in DOMAIN resp.kvvbnos}

-----------------------------------------------------------------------------
(* Failover logs: per vbucket its branches and their seqnos, the newest    *)
(* branch first. Of two logs for a vbucket the later counts.               *)
LogOf(resp, vbno) ==
  CHOOSE k \in DOMAIN resp.logs :
    /\ resp.logs[k].vbno = vbno
    /\ \A l \in DOMAIN resp.logs : resp.logs[l].vbno = vbno => l <= k
Logged(resp) == {resp.logs[k].vbno : k \in DOMAIN resp.logs}

LatestBranch(resp) == [v \in Logged(resp) |-> resp.logs[LogOf(resp, v)].vbuuids[1]]

ToFailoverLog(resp, vbnos) ==
  [v \in Logged(resp) \cap vbnos |->
     LET log == resp.logs[LogOf(resp, v)]
     IN [k \in DOMAIN log.vbuuids |-> <<log.vbuuids[k], log.seqnos[k]>>]]

-----------------------------------------------------------------------------
(* Topic responses: what is streaming, and what has to be rolled back.     *)
FilterByVbuckets(ts, vbs) == [ts EXCEPT !.vbs = @ \ vbs]

(* A vbucket that has to be rolled back is no longer reported as active.   *)
AddRollbackTimestamp(resp, bucket, rollbVbs) ==
  [resp EXCEPT
     !.rollbackTimestamps = Append(@, TsVbuuid(bucket, rollbVbs)),
     !.activeTimestamps =
        [k \in DOMAIN @ |-> IF @[k].bucket = bucket
                              THEN FilterByVbuckets(@[k], rollbVbs) ELSE @[k]]]

AddCurrentTimestamp(resp, bucket, curSeqnos) ==
  [resp EXCEPT !.currentTimestamps = Append(@, TsVbuuid(bucket, DOMAIN curSeqnos))]

(* kv_sender.go compares and searches the time-stamps it gets: the first   *)
(* list position by position, as far as it goes.                           *)
CompareIfActiveTsEqual(origVbnos, compVbnos) ==
  \A k \in DOMAIN origVbnos : compVbnos[k] = origVbnos[k]
CheckVbListInTS(vbList, ts) == vbList \cap ts.vbs # {}
=============================================================================
