------------------------- MODULE GksRegistryProofs --------------------------
(***************************************************************************)
(* Proofs about the registry entry of one station, for any number of pods, *)
(* deletions and events.                                                   *)
(*                                                                         *)
(* The types: what a deletion has read of the Deployment is what it still  *)
(* has as long as nobody changed it, so a scaling down is from one replica *)
(* at least.                                                               *)
(*                                                                         *)
(* A running station stays registered: an entry outlives two heartbeats, a *)
(* station that runs misses one in a row at most, and the age of the entry *)
(* is bounded by the one missed and the one that is due (EntryHolds).      *)
(*                                                                         *)
(* A deleted station is hidden: after the deletion a tombstone outlives    *)
(* what a pod in its grace period writes, and what the radius changes of   *)
(* the entry that pod left can add, as long as they do not add more than   *)
(* the tombstone has over (Within).  So while there is an entry there is a *)
(* tombstone above it (Outlived), and a round of the broadcaster that      *)
(* looks for the tombstone first shows nothing.                            *)
(***************************************************************************)
EXTENDS GksRegistry, FiniteSetTheorems, TLAPS

\* The ranges of the types, by name: the provers take an interval apart wherever
\* they see one.
Lefts == 0..Grace
Knowns == 0..2
Attempts == 0..MaxAttempts
Counts == 0..Cardinality(Pods)
Ttls == 0..EntryTTL
Tombs == 0..TombTTL
Extensions == 0..(TombTTL + EntryTTL)
PodRecords == [st : {"off", "running", "terminating"}, left : Lefts,
               hb : {"done", "due", "held"}, held : Radii, known : Knowns]
Requests == [pc : {"idle", "pod", "list", "read", "replace", "latest", "kill", "key", "tomb"},
             attempt : Attempts, second : BOOLEAN, seen : Counts,
             current : BOOLEAN, justified : BOOLEAN]
Entries == [radius : Radii, ttl : Ttls]

PodOK(pod) ==
  /\ pod \in PodRecords
  /\ pod.left > 0 => pod.st = "terminating"
  /\ pod.st = "off" => pod.hb = "done"

PodsInv ==
  /\ static \in BOOLEAN
  /\ static => Pods # {}
  /\ ~ static => \A p, q \in Running : p = q
  /\ pods \in [Pods -> PodRecords] /\ \A p \in Pods : PodOK(pods[p])

\* What a deletion has read is of the Deployment, and it is current as long as
\* nobody has changed the Deployment.
Obsolete(r) ==
  /\ r \in Requests
  /\ r.pc \in {"replace", "latest", "kill"} => static
  /\ r.pc = "replace" => r.seen > 0
RequestOK(r) == Obsolete(r) /\ (r.pc = "replace" /\ r.current => r.seen = replicas)

DeletesInv ==
  /\ replicas \in Counts
  /\ ~ static => replicas = 0
  /\ delete \in [Deletes -> Requests] /\ \A d \in Deletes : RequestOK(delete[d])

RedisInv ==
  /\ entry \in Entries \cup {None}
  /\ tomb \in Tombs \cup {None}
  /\ put \in Radii \cup {None}
  /\ bc \in [pc : {"due", "done", "check", "read", "send"}, has : BOOLEAN, late : BOOLEAN]
  /\ shown \in BOOLEAN
  /\ events \in 0..MaxEvents
  /\ gone \in BOOLEAN
  /\ extended \in Extensions

Inv == PodsInv /\ DeletesInv /\ RedisInv

\* The units an entry has left at least, by the heartbeats of a registered pod.
EntryHolds ==
  \A p \in Pods : pods[p].st = "running" /\ pods[p].known > 0 =>
    /\ entry # None
    /\ entry.ttl + (2 - pods[p].known) + (IF pods[p].hb = "done" THEN 0 ELSE 1) >= EntryTTL

\* Nothing is left that could write an entry.
Dead == entry = None /\ put = None /\ \A p \in Pods : pods[p].st = "off"

PodsEnd ==
  \A p \in Pods :
    /\ pods[p].st = "running" => static /\ tomb = TombTTL
    /\ pods[p].st = "terminating" => tomb # None /\ tomb + Grace >= TombTTL + pods[p].left

\* The tombstone outlives the entry, which the pods write while they terminate and
\* the radius changes counted in extended renew.
EntryOutlived == tomb # None /\ tomb + EntryTTL + Grace + extended >= TombTTL + entry.ttl
PutOutlived == tomb # None /\ tomb + Grace + extended >= TombTTL

Outlived ==
  /\ replicas = 0
  /\ PodsEnd
  /\ Within =>
       /\ entry # None => EntryOutlived
       /\ put # None => PutOutlived
       /\ bc.pc = "read" /\ bc.late => Dead

HiddenInv ==
  /\ gone => Outlived
  /\ ~ gone => extended = 0
  /\ bc.late => gone
  /\ bc.late /\ Within => ~ bc.has

-----------------------------------------------------------------------------
LEMMA Numbers ==
  /\ EntryTTL \in Nat /\ EntryTTL > 2 /\ TombTTL \in Nat /\ TombTTL > EntryTTL + Grace
  /\ Grace \in Nat /\ Grace > 0 /\ MaxAttempts \in Nat /\ MaxAttempts > 0 /\ MaxEvents \in Nat
  /\ Default \in Radii /\ None \notin Radii
BY GksRegistryAssumption, TtlAssumption

LEMMA PodsCounted ==
  /\ Cardinality(Pods) \in Nat
  /\ Cardinality(Running) \in 0..Cardinality(Pods)
  /\ Cardinality(Running) = 0 <=> Running = {}
  /\ Pods # {} => Cardinality(Pods) > 0
<1>1. IsFiniteSet(Pods)
  BY GksRegistryAssumption
<1>2. Running \in SUBSET Pods
  BY DEF Running
<1>3. IsFiniteSet(Running) /\ Cardinality(Running) <= Cardinality(Pods)
  BY <1>1, <1>2, FS_Subset
<1>4. Cardinality(Pods) \in Nat /\ Cardinality(Running) \in Nat
  BY <1>1, <1>3, FS_CardinalityType
<1>5. (Cardinality(Running) = 0 <=> Running = {}) /\ (Cardinality(Pods) = 0 <=> Pods = {})
  BY <1>1, <1>3, FS_EmptySet
<1>6. QED
  BY <1>3, <1>4, <1>5

LEMMA AtMostOne ==
  ASSUME \A p, q \in Running : p = q PROVE Cardinality(Running) <= 1
<1>1. CASE Running = {}
  BY <1>1, PodsCounted
<1>2. CASE Running # {}
  <2>1. PICK p : Running = {p}
    BY <1>2
  <2>2. Cardinality({p}) = 1
    BY FS_Singleton
  <2>3. QED
    BY <2>1, <2>2
<1>3. QED
  BY <1>1, <1>2

LEMMA InvTypes == Inv => TypeOK
BY AtMostOne DEF Inv, PodsInv, DeletesInv, RedisInv, TypeOK, PodOK, PodRecords, Requests, Entries,
   Lefts, Knowns, Attempts, Counts, Ttls, Tombs, Extensions

LEMMA Ranges ==
  /\ {0, 1, 2} \subseteq Knowns /\ {0, 1} \subseteq Attempts /\ EntryTTL \in Ttls
  /\ 0 \in Lefts /\ Grace \in Lefts /\ 0 \in Counts
  /\ Lefts \subseteq Nat /\ Knowns \subseteq Nat /\ Attempts \subseteq Nat
  /\ Counts \subseteq Nat /\ Ttls \subseteq Nat /\ Tombs \subseteq Nat
  /\ TombTTL \in Tombs /\ 0 \in Extensions /\ Extensions \subseteq Nat
BY Numbers, PodsCounted DEF Knowns, Attempts, Ttls, Lefts, Counts, Tombs, Extensions

LEMMA OffPods == PodOK(Off) /\ PodOK(Started) /\ Off.st = "off" /\ Started.st = "running"
<1>1. Off \in PodRecords
  BY Numbers, Ranges DEF Off, PodRecords
<1>2. Started \in PodRecords /\ Started.st = "running" /\ Started.left = 0
  BY <1>1 DEF Started, PodRecords, Off
<1>3. QED
  BY <1>1, <1>2, Numbers DEF Off, PodOK

LEMMA TerminatingPod ==
  ASSUME NEW pod, PodOK(pod)
  PROVE  PodOK(Terminating(pod)) /\ Terminating(pod).st = "terminating"
<1>1. /\ Terminating(pod) \in PodRecords
      /\ Terminating(pod).st = "terminating" /\ Terminating(pod).left = Grace
  BY Ranges DEF Terminating, PodOK, PodRecords
<1>2. QED
  BY <1>1, Numbers DEF PodOK

LEMMA InitInv == Init => Inv
<1> SUFFICES ASSUME Init PROVE Inv
  OBVIOUS
<1>1. PICK on \in SUBSET Pods :
        /\ Cardinality(on) = IF static THEN replicas ELSE 1
        /\ pods = [p \in Pods |-> IF p \in on THEN Started ELSE Off]
  BY DEF Init
<1>2. pods \in [Pods -> PodRecords] /\ \A p \in Pods : PodOK(pods[p])
  BY <1>1, OffPods DEF PodOK
<1>3. Running = on
  BY <1>1 DEF Running, Started, Off
<1>4. IsFiniteSet(on)
  BY FS_Subset, GksRegistryAssumption
<1>5. ~ static => \A p, q \in Running : p = q
  BY <1>1, <1>3, <1>4, FS_Singleton
<1>6. static => Pods # {}
  BY PodsCounted, FS_EmptySet DEF Init
<1>7. RequestOK(Idle)
  BY Ranges DEF Idle, RequestOK, Obsolete, Requests
<1>11. replicas \in Counts /\ (~ static => replicas = 0) /\ static \in BOOLEAN
  <2>1. \/ static = TRUE /\ replicas \in 1..Cardinality(Pods)
        \/ static = FALSE /\ replicas = 0
    BY DEF Init
  <2>2. CASE static = TRUE /\ replicas \in 1..Cardinality(Pods)
    <3>1. static /\ static \in BOOLEAN
      BY <2>2
    <3>2. QED
      BY <2>2, <3>1, PodsCounted DEF Counts
  <2>3. CASE static = FALSE /\ replicas = 0
    <3>1. ~ static /\ static \in BOOLEAN
      BY <2>3
    <3>2. QED
      BY <2>3, <3>1, PodsCounted DEF Counts
  <2>4. QED
    BY <2>1, <2>2, <2>3
<1>8. PodsInv /\ DeletesInv
  BY <1>2, <1>5, <1>6, <1>7, <1>11 DEF Init, PodsInv, DeletesInv, RequestOK, Obsolete
<1>9. RedisInv
  <2>1. entry = None /\ put = None /\ tomb = None /\ events = 0 /\ shown = FALSE /\ gone = FALSE
        /\ extended = 0
    BY DEF Init
  <2>2. bc = [pc |-> "due", has |-> FALSE, late |-> FALSE]
    BY DEF Init
  <2>3. 0 \in 0..MaxEvents /\ 0 \in Extensions
    BY Numbers, Ranges
  <2>4. QED
    BY <2>1, <2>2, <2>3 DEF RedisInv
<1>10. QED
  BY <1>8, <1>9 DEF Inv

-----------------------------------------------------------------------------
(* Types: what a step leaves of the pods and of the deletions.               *)

LEMMA PodsCalm == PodsInv /\ UNCHANGED <<static, pods>> => PodsInv'
BY DEF PodsInv, Running

\* No pod starts.
LEMMA PodsMapped ==
  ASSUME PodsInv, static' = static, pods' = [q \in Pods |-> pods'[q]],
         \A q \in Pods : PodOK(pods'[q]) /\ (pods'[q].st = "running" => pods[q].st = "running")
  PROVE  PodsInv'
<1>1. \A q \in Pods : pods'[q] \in PodRecords
  BY DEF PodOK
<1>2. pods' \in [Pods -> PodRecords]
  BY <1>1
<1>3. Running' \subseteq Running
  BY DEF Running
<1>4. QED
  BY <1>2, <1>3 DEF PodsInv

LEMMA PodChanged ==
  ASSUME PodsInv, static' = static, NEW p \in Pods, NEW pod, PodOK(pod),
         pods' = [pods EXCEPT ![p] = pod],
         pod.st = "running" => static \/ Running = {} \/ pods[p].st = "running"
  PROVE  PodsInv'
<1>1. pods' \in [Pods -> PodRecords] /\ \A q \in Pods : PodOK(pods'[q])
  BY DEF PodsInv, PodOK
<1>2. Running' \subseteq Running \cup {p} /\ (pod.st # "running" => Running' \subseteq Running)
  BY DEF PodsInv, Running
<1>3. pods[p].st = "running" => p \in Running
  BY DEF Running
<1>4. ~ static => \A q, r \in Running' : q = r
  BY <1>2, <1>3 DEF PodsInv
<1>5. QED
  BY <1>1, <1>4 DEF PodsInv

LEMMA DeletesCalm == DeletesInv /\ UNCHANGED <<static, replicas, delete>> => DeletesInv'
BY DEF DeletesInv, RequestOK, Obsolete

LEMMA RequestChanged ==
  ASSUME DeletesInv, UNCHANGED <<static, replicas>>, NEW d \in Deletes, NEW r, RequestOK(r),
         delete' = [delete EXCEPT ![d] = r]
  PROVE  DeletesInv'
BY DEF DeletesInv, RequestOK, Obsolete

LEMMA RequestsOutdated ==
  ASSUME NEW ds, \A d \in Deletes : Obsolete(ds[d]), delete' = Outdate(ds),
         static' = static, replicas' \in Counts, ~ static => replicas' = 0
  PROVE  DeletesInv'
<1>1. ASSUME NEW d \in Deletes PROVE Obsolete(delete'[d]) /\ ~ delete'[d].current
  <2>1. delete'[d] = [ds[d] EXCEPT !.current = FALSE] /\ ds[d] \in Requests
    BY DEF Outdate, Obsolete
  <2>2. /\ delete'[d] \in Requests /\ ~ delete'[d].current
        /\ delete'[d].pc = ds[d].pc /\ delete'[d].seen = ds[d].seen
    BY <2>1 DEF Requests
  <2>3. QED
    BY <2>2 DEF Obsolete
<1>2. delete' = [d \in Deletes |-> delete'[d]]
  BY DEF Outdate
<1>3. \A d \in Deletes : delete'[d] \in Requests
  BY <1>1 DEF Obsolete
<1>4. delete' \in [Deletes -> Requests]
  BY <1>2, <1>3
<1>5. QED
  BY <1>1, <1>4 DEF DeletesInv, RequestOK, Obsolete

LEMMA EntryTyped ==
  ASSUME NEW x \in Radii PROVE [radius |-> x, ttl |-> EntryTTL] \in Entries
BY Ranges DEF Entries

LEMMA EventTyped == RedisInv /\ Event => events' \in 0..MaxEvents
BY Numbers DEF RedisInv, Event

-----------------------------------------------------------------------------
(* Types: the actions.                                                       *)

LEMMA HeartbeatTypes ==
  ASSUME Inv, NEW p \in Pods, Heartbeat(p) \/ HeartbeatFails(p) PROVE Inv'
<1> USE DEF Inv
<1>0. pods[p] \in PodRecords /\ PodOK(pods[p])
  BY DEF PodsInv
<1>1. CASE HeartbeatRead(p)
  <2> DEFINE x == IF entry = None THEN Default ELSE entry.radius
             pod == [pods[p] EXCEPT !.hb = "held", !.held = x]
  <2>1. x \in Radii
    BY Numbers DEF RedisInv, Entries
  <2>2. pod \in PodRecords /\ pod.st = pods[p].st /\ pod.left = pods[p].left
    BY <1>0, <2>1 DEF PodRecords
  <2>3. PodOK(pod)
    BY <1>0, <1>1, <2>2 DEF HeartbeatRead, PodOK
  <2>4. pods' = [pods EXCEPT ![p] = pod] /\ static' = static
    BY <1>1 DEF HeartbeatRead, PodsInv
  <2> HIDE DEF pod
  <2>5. PodsInv'
    BY <2>2, <2>3, <2>4, PodChanged
  <2>6. DeletesInv' /\ RedisInv'
    BY <1>1, DeletesCalm DEF HeartbeatRead, RedisInv
  <2>7. QED
    BY <2>5, <2>6
<1>2. CASE HeartbeatWrite(p)
  <2> DEFINE k == IF pods[p].st = "running" THEN 2 ELSE 0
             pod == [pods[p] EXCEPT !.hb = "done", !.held = Default, !.known = k]
  <2>1. k \in Knowns /\ Default \in Radii
    BY Numbers, Ranges
  <2> HIDE DEF k
  <2>2. pod \in PodRecords /\ pod.st = pods[p].st /\ pod.left = pods[p].left /\ pod.hb = "done"
    BY <1>0, <2>1 DEF PodRecords
  <2>3. PodOK(pod)
    BY <1>0, <2>2 DEF PodOK
  <2>4. pods' = [pods EXCEPT ![p] = pod] /\ static' = static
    BY <1>2 DEF HeartbeatWrite, Registered, PodsInv, k
  <2> HIDE DEF pod
  <2>5. PodsInv'
    BY <2>2, <2>3, <2>4, PodChanged
  <2>6. pods[p].held \in Radii
    BY <1>0 DEF PodRecords
  <2>7. entry' \in Entries
    BY <1>2, <2>6, EntryTyped DEF HeartbeatWrite
  <2>8. DeletesInv' /\ RedisInv'
    BY <1>2, <2>7, DeletesCalm DEF HeartbeatWrite, RedisInv
  <2>9. QED
    BY <2>5, <2>8
<1>3. CASE HeartbeatFails(p)
  <2> DEFINE k == IF pods[p].known = 0 THEN 0 ELSE pods[p].known - 1
             pod == [pods[p] EXCEPT !.hb = "done", !.held = Default, !.known = k]
  <2>1. k \in Knowns /\ Default \in Radii
    BY <1>0, Numbers DEF PodRecords, Knowns
  <2> HIDE DEF k
  <2>2. pod \in PodRecords /\ pod.st = pods[p].st /\ pod.left = pods[p].left /\ pod.hb = "done"
    BY <1>0, <2>1 DEF PodRecords
  <2>3. PodOK(pod)
    BY <1>0, <2>2 DEF PodOK
  <2>4. pods' = [pods EXCEPT ![p] = pod] /\ static' = static
    BY <1>3 DEF HeartbeatFails, PodsInv, k
  <2> HIDE DEF pod
  <2>5. PodsInv'
    BY <2>2, <2>3, <2>4, PodChanged
  <2>6. DeletesInv' /\ RedisInv'
    BY <1>3, DeletesCalm, EventTyped DEF HeartbeatFails, RedisInv
  <2>7. QED
    BY <2>5, <2>6
<1>4. QED
  BY <1>1, <1>2, <1>3 DEF Heartbeat

LEMMA PutTypes == Inv /\ (PutRead \/ PutWrite) => Inv'
<1> SUFFICES ASSUME Inv, PutRead \/ PutWrite PROVE Inv'
  OBVIOUS
<1>1. PodsInv' /\ DeletesInv'
  BY PodsCalm, DeletesCalm DEF Inv, PutRead, PutWrite, cluster
<1>2. CASE PutRead
  <2>1. extended' \in Extensions
    <3>1. extended \in Nat /\ extended <= TombTTL + EntryTTL
      BY Numbers DEF Inv, RedisInv, Extensions
    <3>2. Within => extended < TombTTL
      BY <3>1, Numbers DEF Within
    <3>3. QED
      BY <1>2, <3>1, <3>2, Numbers DEF PutRead, Extensions
  <2>2. QED
    BY <1>1, <1>2, <2>1 DEF Inv, RedisInv, PutRead
<1>3. CASE PutWrite
  <2>1. put \in Radii
    BY <1>3 DEF Inv, RedisInv, PutWrite
  <2>2. entry' \in Entries
    BY <1>3, <2>1, EntryTyped DEF PutWrite
  <2>3. QED
    BY <1>1, <1>3, <2>2 DEF Inv, RedisInv, PutWrite
<1>4. QED
  BY <1>2, <1>3

LEMMA BroadcastTypes == Inv /\ Broadcast => Inv'
<1> SUFFICES ASSUME Inv, Broadcast PROVE Inv'
  OBVIOUS
<1>1. PodsInv' /\ DeletesInv'
  BY PodsCalm, DeletesCalm
     DEF Inv, Broadcast, BroadcastScan, BroadcastCheck, BroadcastRead, BroadcastSend, cluster
<1>2. bc' \in [pc : {"due", "done", "check", "read", "send"}, has : BOOLEAN, late : BOOLEAN]
  <2>1. CASE BroadcastScan
    BY <2>1 DEF Inv, RedisInv, BroadcastScan
  <2>2. CASE BroadcastCheck
    BY <2>2 DEF Inv, RedisInv, BroadcastCheck
  <2>3. CASE BroadcastRead
    <3>1. (entry # None) \in BOOLEAN
      OBVIOUS
    <3>2. QED
      BY <2>3, <3>1 DEF Inv, RedisInv, BroadcastRead
  <2>4. CASE BroadcastSend
    BY <2>4 DEF Inv, RedisInv, BroadcastSend
  <2>5. QED
    BY <2>1, <2>2, <2>3, <2>4 DEF Broadcast
<1>3. shown' \in BOOLEAN
  BY DEF Inv, RedisInv, Broadcast, BroadcastScan, BroadcastCheck, BroadcastRead, BroadcastSend
<1>4. UNCHANGED <<entry, tomb, put, events, gone, extended>>
  BY DEF Broadcast, BroadcastScan, BroadcastCheck, BroadcastRead, BroadcastSend
<1>5. QED
  BY <1>1, <1>2, <1>3, <1>4 DEF Inv, RedisInv

\* A request at a pc other than that of the Deployment.
LEMMA RequestMoved ==
  ASSUME NEW r \in Requests, r.pc \notin {"replace", "latest", "kill"}
  PROVE  RequestOK(r)
BY DEF RequestOK, Obsolete

LEMMA GivenUpTyped ==
  ASSUME NEW r \in Requests PROVE GivenUp(r) \in Requests /\ GivenUp(r).pc \in {"key", "read"}
BY Ranges DEF GivenUp, Requests

LEMMA DeletePodTypes ==
  ASSUME Inv, NEW d \in Deletes, Delete(d) \/ DeletePod(d) \/ ListPods(d) PROVE Inv'
<1> USE DEF Inv
<1>0. delete[d] \in Requests
  BY DEF DeletesInv
<1>1. PodsInv'
  <2>1. CASE UNCHANGED <<static, pods>>
    BY <2>1, PodsCalm
  <2>2. CASE Terminate /\ static' = static
    <3>1. ASSUME NEW q \in Pods
          PROVE  PodOK(pods'[q]) /\ (pods'[q].st = "running" => pods[q].st = "running")
      BY <2>2, TerminatingPod DEF Terminate, PodsInv
    <3>2. pods' = [q \in Pods |-> pods'[q]]
      BY <2>2 DEF Terminate
    <3>3. QED
      BY <2>2, <3>1, <3>2, PodsMapped
  <2>3. QED
    BY <2>1, <2>2 DEF Delete, DeletePod, ListPods, cluster
<1>2. UNCHANGED <<static, replicas, entry, tomb, put, bc, shown, events, gone, extended>>
  BY DEF Delete, DeletePod, ListPods, cluster
<1>3. DeletesInv'
  <2>1. ASSUME NEW r \in Requests, r.pc \notin {"replace", "latest", "kill"},
               delete' = [delete EXCEPT ![d] = r]
        PROVE  DeletesInv'
    BY <1>2, <2>1, RequestMoved, RequestChanged
  <2>2. CASE \E pc \in {"pod", "list"} : GoTo(d, pc)
    <3>1. PICK pc \in {"pod", "list"} : GoTo(d, pc)
      BY <2>2
    <3> DEFINE r == [delete[d] EXCEPT !.pc = pc]
    <3>2. r \in Requests /\ r.pc = pc
      BY <1>0 DEF Requests
    <3>3. delete' = [delete EXCEPT ![d] = r]
      BY <3>1 DEF GoTo, DeletesInv
    <3> HIDE DEF r
    <3>4. QED
      BY <2>1, <3>2, <3>3
  <2>3. CASE Justified(d)
    <3> DEFINE r == [delete[d] EXCEPT !.pc = "key", !.justified = TRUE]
    <3>2. r \in Requests /\ r.pc = "key"
      BY <1>0 DEF Requests
    <3>3. delete' = [delete EXCEPT ![d] = r]
      BY <2>3 DEF Justified, DeletesInv
    <3> HIDE DEF r
    <3>4. QED
      BY <2>1, <3>2, <3>3
  <2>4. CASE \E b \in BOOLEAN :
               delete' = [delete EXCEPT ![d].pc = "read", ![d].attempt = 1, ![d].second = b]
    <3>1. PICK b \in BOOLEAN :
               delete' = [delete EXCEPT ![d].pc = "read", ![d].attempt = 1, ![d].second = b]
      BY <2>4
    <3> DEFINE r == [delete[d] EXCEPT !.pc = "read", !.attempt = 1, !.second = b]
    <3>2. r \in Requests /\ r.pc = "read"
      BY <1>0, Ranges DEF Requests
    <3>3. delete' = [delete EXCEPT ![d] = r]
      BY <3>1 DEF DeletesInv
    <3> HIDE DEF r
    <3>4. QED
      BY <2>1, <3>2, <3>3
  <2>5. CASE ListPods(d) /\ ~ Justified(d)
    <3>1. PICK found \in BOOLEAN :
            delete' = [delete EXCEPT ![d].pc = "read", ![d].attempt = 1, ![d].second = ~ found]
      BY <2>5 DEF ListPods
    <3>2. (~ found) \in BOOLEAN
      OBVIOUS
    <3>3. QED
      BY <2>4, <3>1, <3>2
  <2>6. QED
    BY <2>2, <2>3, <2>5 DEF Delete, DeletePod
<1>4. QED
  BY <1>1, <1>2, <1>3 DEF RedisInv

\* The deletion d goes on to r and touches nothing else of the cluster.
LEMMA ReadTypes ==
  ASSUME Inv, NEW d \in Deletes, ReadDeployment(d) \/ ReadLatest(d) PROVE Inv'
<1> USE DEF Inv
<1>0. delete[d] \in Requests /\ replicas \in Counts
  BY DEF DeletesInv
<1>1. UNCHANGED <<static, pods, replicas, entry, tomb, put, bc, shown, events, gone, extended>>
  BY DEF ReadDeployment, ReadLatest, cluster
<1>2. CASE Justified(d)
  <2> DEFINE r == [delete[d] EXCEPT !.pc = "key", !.justified = TRUE]
  <2>1. r \in Requests /\ r.pc = "key"
    BY <1>0 DEF Requests
  <2>2. delete' = [delete EXCEPT ![d] = r]
    BY <1>2 DEF Justified, DeletesInv
  <2> HIDE DEF r
  <2>3. DeletesInv'
    BY <1>1, <2>1, <2>2, RequestMoved, RequestChanged
  <2>4. QED
    BY <1>1, <2>3, PodsCalm DEF RedisInv
<1>3. CASE GiveUp(d)
  <2>1. delete' = [delete EXCEPT ![d] = GivenUp(delete[d])]
    BY <1>3 DEF GiveUp, DeletesInv
  <2>2. DeletesInv'
    BY <1>0, <1>1, <2>1, GivenUpTyped, RequestMoved, RequestChanged
  <2>3. QED
    BY <1>1, <2>2, PodsCalm DEF RedisInv
<1>4. CASE static /\ replicas > 0
           /\ delete' = [delete EXCEPT ![d].pc = "replace", ![d].seen = replicas,
                                       ![d].current = TRUE]
  <2> DEFINE r == [delete[d] EXCEPT !.pc = "replace", !.seen = replicas, !.current = TRUE]
  <2>1. r \in Requests /\ r.pc = "replace" /\ r.seen = replicas
    BY <1>0 DEF Requests
  <2>2. delete' = [delete EXCEPT ![d] = r]
    BY <1>4 DEF DeletesInv
  <2>3. RequestOK(r)
    BY <1>4, <2>1 DEF RequestOK, Obsolete
  <2> HIDE DEF r
  <2>4. DeletesInv'
    BY <1>1, <2>2, <2>3, RequestChanged
  <2>5. QED
    BY <1>1, <2>4, PodsCalm DEF RedisInv
<1>5. QED
  BY <1>2, <1>3, <1>4 DEF ReadDeployment, ReadLatest

\* The Deployment is scaled down by one by the deletion d, which goes on to r.
LEMMA ScaledDown ==
  ASSUME DeletesInv, NEW d \in Deletes, At(d, "replace"), delete[d].current,
         replicas' = delete[d].seen - 1, static' = static,
         NEW r, Obsolete(r), delete' = Outdate([delete EXCEPT ![d] = r])
  PROVE  DeletesInv' /\ static /\ replicas' = replicas - 1 /\ replicas > 0
<1>1. RequestOK(delete[d]) /\ delete[d] \in Requests
  BY DEF DeletesInv
<1>2. static /\ delete[d].seen = replicas /\ replicas > 0 /\ replicas \in Counts
  BY <1>1 DEF At, RequestOK, Obsolete, DeletesInv
<1>3. replicas - 1 \in Counts
  BY <1>2, PodsCounted DEF Counts
<1>4. \A e \in Deletes : Obsolete([delete EXCEPT ![d] = r][e])
  BY DEF DeletesInv, RequestOK
<1>5. QED
  BY <1>2, <1>3, <1>4, RequestsOutdated

LEMMA ReplaceTypes ==
  ASSUME Inv, NEW d \in Deletes, ReplaceDeployment(d) PROVE Inv'
<1> USE DEF Inv
<1>0. delete[d] \in Requests /\ replicas \in Counts /\ RequestOK(delete[d])
  BY DEF DeletesInv
<1>1. /\ UNCHANGED <<static, pods, entry, tomb, put, bc, shown, events, gone, extended>>
      /\ At(d, "replace")
  BY DEF ReplaceDeployment
<1>2. DeletesInv'
  <2>1. CASE delete[d].current
    <3> DEFINE r == [delete[d] EXCEPT !.pc = "kill", !.justified = TRUE]
    <3>1. r \in Requests /\ r.pc = "kill"
      BY <1>0 DEF Requests
    <3>2. static
      BY <1>0, <1>1 DEF RequestOK, Obsolete, At
    <3>3. replicas' = delete[d].seen - 1 /\ delete' = Outdate([delete EXCEPT ![d] = r])
      BY <2>1 DEF ReplaceDeployment, DeletesInv
    <3>4. Obsolete(r)
      BY <3>1, <3>2 DEF Obsolete
    <3> HIDE DEF r
    <3>5. QED
      BY <1>1, <2>1, <3>3, <3>4, ScaledDown
  <2>2. CASE ~ delete[d].current /\ delete[d].attempt < MaxAttempts
    <3> DEFINE a == delete[d].attempt + 1
               r == [delete[d] EXCEPT !.pc = "read", !.attempt = a]
    <3>1. a \in Attempts
      BY <1>0, <2>2, Numbers DEF Requests, Attempts
    <3>4. delete[d].attempt # MaxAttempts
      BY <2>2, Numbers
    <3>5. /\ delete' = [delete EXCEPT ![d].pc = "read", ![d].attempt = @ + 1]
          /\ replicas' = replicas /\ delete \in [Deletes -> Requests]
      BY <2>2, <3>4 DEF ReplaceDeployment, DeletesInv
    <3>2. delete' = [delete EXCEPT ![d] = r] /\ replicas' = replicas
      BY <3>5
    <3> HIDE DEF a
    <3>3. r \in Requests /\ r.pc = "read"
      BY <1>0, <3>1 DEF Requests
    <3> HIDE DEF r
    <3>6. QED
      BY <1>1, <3>2, <3>3, RequestMoved, RequestChanged
  <2>3. CASE ~ delete[d].current /\ delete[d].attempt = MaxAttempts
    <3> DEFINE r == [delete[d] EXCEPT !.pc = "latest"]
    <3>1. delete' = [delete EXCEPT ![d] = r] /\ replicas' = replicas
      <4>1. ~ (delete[d].attempt < MaxAttempts)
        BY <2>3, Numbers
      <4>2. GoTo(d, "latest") /\ replicas' = replicas
        BY <2>3, <4>1 DEF ReplaceDeployment
      <4>3. delete' = [delete EXCEPT ![d].pc = "latest"]
        BY <4>2 DEF GoTo
      <4>4. delete \in [Deletes -> Requests]
        BY DEF DeletesInv
      <4>5. delete' = [delete EXCEPT ![d] = r]
        BY <4>3, <4>4
      <4>6. QED
        BY <4>2, <4>5
    <3>2. r \in Requests /\ r.pc = "latest"
      BY <1>0 DEF Requests
    <3>3. RequestOK(r)
      BY <1>0, <1>1, <3>2 DEF RequestOK, Obsolete, At
    <3> HIDE DEF r
    <3>4. QED
      BY <1>1, <3>1, <3>3, RequestChanged
  <2>4. QED
    BY <2>1, <2>2, <2>3 DEF ReplaceDeployment
<1>3. QED
  BY <1>1, <1>2, PodsCalm DEF RedisInv

LEMMA KillTypes ==
  ASSUME Inv, NEW d \in Deletes, KillPods(d) PROVE Inv'
<1> USE DEF Inv
<1>0. delete[d] \in Requests /\ replicas \in Counts
  BY DEF DeletesInv
<1>1. UNCHANGED <<static, replicas, entry, tomb, put, bc, shown, gone, extended>>
  BY DEF KillPods
<1>2. PodsInv'
  <2>1. ASSUME NEW q \in Pods
        PROVE  PodOK(pods'[q]) /\ (pods'[q].st = "running" => pods[q].st = "running")
    BY OffPods DEF KillPods, PodsInv
  <2>2. pods' = [q \in Pods |-> pods'[q]]
    BY DEF KillPods
  <2>3. QED
    BY <1>1, <2>1, <2>2, PodsMapped
<1>3. DeletesInv'
  <2> DEFINE r == [delete[d] EXCEPT !.pc = "key"]
             ds == [delete EXCEPT ![d] = r]
  <2>1. r \in Requests /\ r.pc = "key"
    BY <1>0 DEF Requests
  <2>2. Obsolete(r)
    BY <2>1 DEF Obsolete
  <2>3. delete' = Outdate(ds)
    BY DEF KillPods, DeletesInv
  <2> HIDE DEF r
  <2>4. \A e \in Deletes : Obsolete(ds[e])
    BY <2>2 DEF DeletesInv, RequestOK
  <2> HIDE DEF ds
  <2>5. QED
    BY <1>1, <2>3, <2>4, RequestsOutdated DEF DeletesInv
<1>4. events' \in 0..MaxEvents
  BY EventTyped DEF KillPods, RedisInv
<1>5. QED
  BY <1>1, <1>2, <1>3, <1>4 DEF RedisInv

LEMMA TombTypes ==
  ASSUME Inv, NEW d \in Deletes, DeleteKey(d) \/ SetTombstone(d) PROVE Inv'
<1> USE DEF Inv
<1>0. delete[d] \in Requests
  BY DEF DeletesInv
<1>1. CASE DeleteKey(d)
  <2>1. ASSUME NEW q \in Pods
        PROVE  PodOK(pods'[q]) /\ (pods'[q].st = "running" => pods[q].st = "running")
    <3>1. pods[q] \in PodRecords /\ pods'[q] = [pods[q] EXCEPT !.known = 0]
      BY <1>1 DEF DeleteKey, PodsInv
    <3>2. /\ pods'[q] \in PodRecords /\ pods'[q].st = pods[q].st
          /\ pods'[q].left = pods[q].left /\ pods'[q].hb = pods[q].hb
      BY <3>1, Ranges DEF PodRecords
    <3>3. QED
      BY <3>2 DEF PodOK, PodsInv
  <2>2. pods' = [q \in Pods |-> pods'[q]] /\ static' = static
    BY <1>1 DEF DeleteKey
  <2>3. PodsInv'
    BY <2>1, <2>2, PodsMapped
  <2> DEFINE r == [delete[d] EXCEPT !.pc = "tomb"]
  <2>4. r \in Requests /\ r.pc = "tomb"
    BY <1>0 DEF Requests
  <2>5. delete' = [delete EXCEPT ![d] = r] /\ UNCHANGED <<static, replicas>>
    BY <1>1 DEF DeleteKey, GoTo, DeletesInv
  <2> HIDE DEF r
  <2>6. DeletesInv'
    BY <2>4, <2>5, RequestMoved, RequestChanged
  <2>7. QED
    BY <1>1, <2>3, <2>6 DEF DeleteKey, RedisInv
<1>2. CASE SetTombstone(d)
  <2>1. PodsInv'
    BY <1>2, PodsCalm DEF SetTombstone, cluster
  <2>2. Idle \in Requests /\ Idle.pc = "idle"
    BY Ranges DEF Idle, Requests
  <2>3. delete' = [delete EXCEPT ![d] = Idle] /\ UNCHANGED <<static, replicas>>
    BY <1>2 DEF SetTombstone, Answered, cluster
  <2>4. DeletesInv'
    BY <2>2, <2>3, RequestMoved, RequestChanged
  <2>5. gone' \in BOOLEAN
    BY <1>2 DEF SetTombstone, Answered
  <2>6. tomb' \in Tombs
    BY <1>2, Ranges DEF SetTombstone
  <2>7. QED
    BY <1>2, <2>1, <2>4, <2>5, <2>6 DEF SetTombstone, RedisInv
<1>3. QED
  BY <1>1, <1>2

LEMMA FailTypes ==
  ASSUME Inv, NEW d \in Deletes, DeleteFails(d) PROVE Inv'
<1> USE DEF Inv
<1>0. delete[d] \in Requests /\ replicas \in Counts
  BY DEF DeletesInv
<1>1. /\ UNCHANGED <<static, pods, entry, tomb, put, bc, shown, gone, extended>>
      /\ events' \in 0..MaxEvents
  BY EventTyped DEF DeleteFails
<1>2. DeletesInv'
  <2>1. CASE delete' = [delete EXCEPT ![d] = Idle] /\ replicas' = replicas
    <3>1. Idle \in Requests /\ Idle.pc = "idle"
      BY Ranges DEF Idle, Requests
    <3>2. QED
      BY <1>1, <2>1, <3>1, RequestMoved, RequestChanged
  <2>2. CASE GiveUp(d) /\ replicas' = replicas
    <3>1. delete' = [delete EXCEPT ![d] = GivenUp(delete[d])]
      BY <2>2 DEF GiveUp, DeletesInv
    <3>2. QED
      BY <1>0, <1>1, <2>2, <3>1, GivenUpTyped, RequestMoved, RequestChanged
  <2>3. CASE /\ At(d, "replace") /\ delete[d].current /\ replicas' = delete[d].seen - 1
             /\ delete' = Outdate([delete EXCEPT ![d] = GivenUp([@ EXCEPT !.justified = TRUE])])
    <3> DEFINE j == [delete[d] EXCEPT !.justified = TRUE]
    <3>1. j \in Requests
      BY <1>0 DEF Requests
    <3>2. delete' = Outdate([delete EXCEPT ![d] = GivenUp(j)])
      BY <2>3 DEF DeletesInv
    <3> HIDE DEF j
    <3>3. Obsolete(GivenUp(j))
      BY <3>1, GivenUpTyped DEF Obsolete
    <3>4. QED
      BY <1>1, <2>3, <3>2, <3>3, ScaledDown
  <2>4. QED
    BY <2>1, <2>2, <2>3 DEF DeleteFails
<1>3. QED
  BY <1>1, <1>2, PodsCalm DEF RedisInv

\* The cluster changes a pod, or none, and the Deployment.
LEMMA ClusterTypes ==
  ASSUME Inv, Reconcile \/ (\E p \in Pods : LosePod(p) \/ PodEnds(p)) \/ Deploy PROVE Inv'
<1> USE DEF Inv
<1>1. UNCHANGED <<static, entry, tomb, put, shown>> /\ delete' = Outdate(delete)
  BY DEF Reconcile, LosePod, PodEnds, Deploy
<1>2. PodsInv'
  <2>1. CASE Reconcile
    <3>1. PICK p \in Pods :
            \/ pods' = [pods EXCEPT ![p] = Started]
            \/ pods[p].st = "running" /\ pods' = [pods EXCEPT ![p] = Terminating(pods[p])]
      BY <2>1 DEF Reconcile, PodsInv
    <3>2. static /\ PodOK(pods[p])
      BY <2>1 DEF Reconcile, PodsInv
    <3>3. QED
      BY <1>1, <3>1, <3>2, OffPods, TerminatingPod, PodChanged
  <2>2. CASE \E p \in Pods : LosePod(p) \/ PodEnds(p)
    <3>1. PICK p \in Pods : pods' = [pods EXCEPT ![p] = Off]
      BY <2>2 DEF LosePod, PodEnds
    <3>2. QED
      BY <1>1, <3>1, OffPods, PodChanged
  <2>3. CASE Deploy
    <3>1. CASE pods' = pods
      BY <1>1, <3>1, PodsCalm
    <3>2. CASE ~ Present /\ \E p \in Pods : pods' = [pods EXCEPT ![p] = Started]
      <4>1. Running = {}
        BY <3>2 DEF Present, Running
      <4>2. QED
        BY <1>1, <3>2, <4>1, OffPods, PodChanged
    <3>3. QED
      BY <2>3, <3>1, <3>2 DEF Deploy
  <2>4. QED
    BY <2>1, <2>2, <2>3
<1>3. replicas' \in Counts /\ (~ static => replicas' = 0)
  <2>1. CASE replicas' = replicas
    BY <2>1 DEF DeletesInv
  <2>2. CASE static /\ replicas' = 1
    <3>1. 1 \in Counts
      BY <2>2, PodsCounted DEF PodsInv, Counts
    <3>2. QED
      BY <2>2, <3>1
  <2>3. QED
    BY <2>1, <2>2 DEF Reconcile, LosePod, PodEnds, Deploy
<1>4. DeletesInv'
  BY <1>1, <1>3, RequestsOutdated DEF DeletesInv, RequestOK
<1>5. events' \in 0..MaxEvents /\ gone' \in BOOLEAN /\ extended' \in Extensions
  BY EventTyped, Ranges DEF Reconcile, LosePod, PodEnds, Deploy, RedisInv
<1>6. bc' \in [pc : {"due", "done", "check", "read", "send"}, has : BOOLEAN, late : BOOLEAN]
  BY DEF Reconcile, LosePod, PodEnds, Deploy, RedisInv
<1>7. QED
  BY <1>1, <1>2, <1>4, <1>5, <1>6 DEF RedisInv

LEMMA AgedPodOK ==
  ASSUME NEW pod, PodOK(pod), pod.st = "terminating" => pod.left > 0
  PROVE  /\ PodOK(AgedPod(pod))
         /\ AgedPod(pod).st = pod.st
         /\ pod.st = "running" => AgedPod(pod).hb = "due" /\ AgedPod(pod).known = pod.known
         /\ pod.st = "terminating" => AgedPod(pod).left = pod.left - 1
<1>0. pod \in PodRecords
  BY DEF PodOK
<1>1. CASE pod.st = "terminating"
  <2> DEFINE l == pod.left - 1
             r == [pod EXCEPT !.left = l, !.hb = "due"]
  <2>1. l \in Lefts
    BY <1>0, <1>1, Numbers DEF PodRecords, Lefts
  <2>2. AgedPod(pod) = r
    BY <1>0, <1>1 DEF AgedPod, PodRecords
  <2> HIDE DEF l
  <2>3. r \in PodRecords /\ r.st = "terminating" /\ r.left = l
    BY <1>0, <1>1, <2>1 DEF PodRecords
  <2> HIDE DEF r
  <2>4. QED
    BY <1>1, <2>2, <2>3 DEF PodOK, l
<1>2. CASE pod.st = "running"
  <2> DEFINE r == [pod EXCEPT !.hb = "due"]
  <2>1. AgedPod(pod) = r
    BY <1>2 DEF AgedPod
  <2>2. /\ r \in PodRecords /\ r.st = "running" /\ r.left = pod.left /\ r.hb = "due"
        /\ r.known = pod.known
    BY <1>0, <1>2 DEF PodRecords
  <2>3. QED
    BY <1>2, <2>1, <2>2 DEF PodOK
<1>3. CASE pod.st = "off"
  BY <1>3 DEF AgedPod
<1>4. QED
  BY <1>0, <1>1, <1>2, <1>3 DEF PodRecords

LEMMA NoEntry == None \notin Entries /\ None \notin Tombs
BY GksRegistryAssumption DEF Entries, Ttls, Tombs

LEMMA AgedEntry ==
  ASSUME NEW e \in Entries, e.ttl > 0
  PROVE  Aged(e) \in Entries /\ Aged(e).ttl = e.ttl - 1
<1> DEFINE t == e.ttl - 1
           r == [e EXCEPT !.ttl = t]
<1>1. e.ttl \in Ttls
  BY DEF Entries
<1>2. t \in Ttls
  BY <1>1, Numbers DEF Ttls
<1> HIDE DEF t
<1>3. r \in Entries /\ r.ttl = t
  BY <1>2 DEF Entries
<1>4. Aged(e) = r
  BY NoEntry DEF Aged, t
<1> HIDE DEF r
<1>5. QED
  BY <1>3, <1>4 DEF t

LEMMA ExpireTypes == Inv /\ (ExpireEntry \/ ExpireTomb) => Inv'
BY PodsCalm, DeletesCalm DEF Inv, RedisInv, ExpireEntry, ExpireTomb, cluster

LEMMA TickTypes == Inv /\ Tick => Inv'
<1> SUFFICES ASSUME Inv, Tick PROVE Inv'
  OBVIOUS
<1> USE DEF Inv
<1>1. UNCHANGED <<static, replicas, delete, put, shown, events, gone, extended>>
  BY DEF Tick
<1>2. PodsInv'
  <2>1. pods' = [q \in Pods |-> pods'[q]]
    BY DEF Tick
  <2>2. ASSUME NEW q \in Pods
        PROVE  PodOK(pods'[q]) /\ (pods'[q].st = "running" => pods[q].st = "running")
    <3>1. /\ pods'[q] = AgedPod(pods[q]) /\ PodOK(pods[q])
          /\ pods[q].st = "terminating" => pods[q].left > 0
      BY DEF Tick, PodsInv
    <3>2. PodOK(AgedPod(pods[q])) /\ AgedPod(pods[q]).st = pods[q].st
      BY <3>1, AgedPodOK
    <3>3. QED
      BY <3>1, <3>2
  <2>3. QED
    BY <1>1, <2>1, <2>2, PodsMapped
<1>3. entry' \in Entries \cup {None}
  BY AgedEntry DEF Tick, RedisInv, Aged
<1>4. tomb' \in Tombs \cup {None}
  <2>1. CASE tomb = None
    BY <2>1 DEF Tick
  <2>2. CASE tomb # None
    <3>1. tomb \in Tombs /\ tomb # 0 /\ tomb' = tomb - 1
      BY <2>2 DEF Tick, RedisInv
    <3>2. QED
      BY <3>1, Numbers DEF Tombs
  <2>3. QED
    BY <2>1, <2>2
<1>5. bc' \in [pc : {"due", "done", "check", "read", "send"}, has : BOOLEAN, late : BOOLEAN]
  BY DEF Tick, RedisInv
<1>6. QED
  BY <1>1, <1>2, <1>3, <1>4, <1>5, DeletesCalm DEF RedisInv

LEMMA StepInv == Inv /\ [Next]_vars => Inv'
<1> SUFFICES ASSUME Inv, [Next]_vars PROVE Inv'
  OBVIOUS
<1>1. ASSUME NEW d \in Deletes, Delete(d) \/ DeleteStep(d) \/ DeleteFails(d) PROVE Inv'
  BY <1>1, DeletePodTypes, ReadTypes, ReplaceTypes, KillTypes, TombTypes, FailTypes
     DEF DeleteStep
<1>2. CASE UNCHANGED vars
  BY <1>2, PodsCalm, DeletesCalm DEF Inv, RedisInv, vars, cluster
<1>3. QED
  BY <1>1, <1>2, HeartbeatTypes, PutTypes, BroadcastTypes, ClusterTypes, TickTypes,
     ExpireTypes DEF Next

LEMMA SpecInv == Spec => []Inv
BY InitInv, StepInv, PTL DEF Spec

\* Every variable keeps its range; in particular no scaling down reads or writes a
\* number of replicas the Deployment cannot have, and a spawned station never has
\* two running pods.
THEOREM TypeCorrect == Spec => []TypeOK
BY SpecInv, InvTypes, PTL

-----------------------------------------------------------------------------
(* A registered station that runs stays registered.                          *)

\* The pods that count run on as they are, and the entry stays.
LEMMA EntryKept ==
  ASSUME EntryHolds, entry' = entry,
         \A p \in Pods : pods'[p].st = "running" /\ pods'[p].known > 0 =>
           /\ pods[p].st = "running"
           /\ pods'[p].known = pods[p].known /\ pods'[p].hb = pods[p].hb
  PROVE  EntryHolds'
BY DEF EntryHolds

LEMMA EntryRenewed ==
  ASSUME Inv', entry' # None, entry'.ttl = EntryTTL PROVE EntryHolds'
<1> SUFFICES ASSUME NEW p \in Pods
             PROVE  entry'.ttl + (2 - pods'[p].known)
                      + (IF pods'[p].hb = "done" THEN 0 ELSE 1) >= EntryTTL
  BY DEF EntryHolds
<1>1. pods'[p].known \in 0..2
  BY DEF Inv, PodsInv, PodRecords, Knowns
<1>2. QED
  BY <1>1, Numbers

LEMMA EntrySteps == Inv /\ EntryHolds /\ [Next]_vars => EntryHolds'
<1> SUFFICES ASSUME Inv, Inv', EntryHolds, [Next]_vars PROVE EntryHolds'
  BY StepInv
<1>0. \A p \in Pods : pods[p] \in PodRecords /\ PodOK(pods[p]) /\ pods[p].known \in 0..2
  BY DEF Inv, PodsInv, PodRecords, Knowns
<1>00. entry # None => entry \in Entries /\ entry.ttl \in Nat
  BY Ranges DEF Inv, RedisInv, Entries
<1>1. CASE UNCHANGED <<pods, entry>>
  BY <1>1, EntryKept
<1>2. ASSUME NEW p \in Pods, Heartbeat(p) \/ HeartbeatFails(p) PROVE EntryHolds'
  <2>1. CASE HeartbeatRead(p)
    <3>1. /\ pods'[p].st = pods[p].st /\ pods'[p].known = pods[p].known
          /\ pods[p].hb = "due" /\ pods'[p].hb = "held"
          /\ \A q \in Pods \ {p} : pods'[q] = pods[q]
          /\ entry' = entry
      BY <1>0, <2>1 DEF HeartbeatRead, Inv, PodsInv, PodRecords
    <3>2. QED
      BY <3>1 DEF EntryHolds
  <2>2. CASE HeartbeatWrite(p)
    BY <2>2, EntryRenewed, EntryTyped, NoEntry, <1>0 DEF HeartbeatWrite, PodRecords
  <2>3. CASE HeartbeatFails(p)
    <3>1. /\ pods'[p].st = pods[p].st /\ pods'[p].hb = "done" /\ pods[p].hb # "done"
          /\ pods'[p].known = (IF pods[p].known = 0 THEN 0 ELSE pods[p].known - 1)
          /\ \A q \in Pods \ {p} : pods'[q] = pods[q]
          /\ entry' = entry
      BY <1>0, <2>3 DEF HeartbeatFails, Inv, PodsInv, PodRecords
    <3>2. ASSUME NEW q \in Pods, pods'[q].st = "running", pods'[q].known > 0
          PROVE  /\ entry # None
                 /\ entry.ttl + (2 - pods'[q].known)
                      + (IF pods'[q].hb = "done" THEN 0 ELSE 1) >= EntryTTL
      <4>1. CASE q = p
        <5>1. /\ pods[p].known > 0 /\ pods'[p].known = pods[p].known - 1
              /\ pods[p].known \in 1..2
          BY <1>0, <3>1, <3>2, <4>1
        <5>2. entry # None /\ entry.ttl + (2 - pods[p].known) + 1 >= EntryTTL
          BY <3>1, <3>2, <4>1, <5>1 DEF EntryHolds
        <5>3. QED
          BY <1>00, <3>1, <4>1, <5>1, <5>2, Numbers
      <4>2. CASE q # p
        BY <3>1, <3>2, <4>2 DEF EntryHolds
      <4>3. QED
        BY <4>1, <4>2
    <3>3. QED
      BY <3>1, <3>2 DEF EntryHolds
  <2>4. QED
    BY <1>2, <2>1, <2>2, <2>3 DEF Heartbeat
<1>3. CASE PutWrite
  <2>1. put \in Radii
    BY <1>3 DEF PutWrite, Inv, RedisInv
  <2>2. QED
    BY <1>3, <2>1, EntryRenewed, EntryTyped, NoEntry DEF PutWrite
<1>4. ASSUME NEW d \in Deletes, DeletePod(d) \/ ListPods(d) PROVE EntryHolds'
  <2>1. CASE Terminate /\ entry' = entry
    <3>1. \A p \in Pods : pods'[p].st # "running"
      BY <1>0, <2>1, TerminatingPod DEF Terminate
    <3>2. QED
      BY <3>1 DEF EntryHolds
  <2>2. QED
    BY <1>1, <1>4, <2>1 DEF DeletePod, ListPods
<1>5. ASSUME NEW d \in Deletes, KillPods(d) PROVE EntryHolds'
  <2>1. \A p \in Pods : pods'[p] = Off \/ pods'[p] = pods[p]
    BY <1>5 DEF KillPods
  <2>2. QED
    BY <1>5, <2>1, OffPods, EntryKept DEF KillPods
<1>6. ASSUME NEW d \in Deletes, DeleteKey(d) PROVE EntryHolds'
  <2>1. \A p \in Pods : pods'[p].known = 0
    BY <1>0, <1>6 DEF DeleteKey, PodRecords
  <2>2. QED
    BY <2>1 DEF EntryHolds
<1>7. CASE Reconcile \/ Deploy \/ \E p \in Pods : LosePod(p) \/ PodEnds(p)
  <2>1. entry' = entry
    BY <1>7 DEF Reconcile, Deploy, LosePod, PodEnds
  <2>2. PICK p \in Pods :
          \/ pods' = pods
          \/ pods' = [pods EXCEPT ![p] = Started] \/ pods' = [pods EXCEPT ![p] = Off]
          \/ pods' = [pods EXCEPT ![p] = Terminating(pods[p])]
    <3>1. CASE Reconcile
      BY <3>1 DEF Reconcile, Inv, PodsInv
    <3>2. CASE Deploy
      BY <3>2 DEF Deploy, Inv, PodsInv
    <3>3. CASE \E q \in Pods : LosePod(q) \/ PodEnds(q)
      BY <3>3 DEF LosePod, PodEnds
    <3>4. QED
      BY <1>7, <3>1, <3>2, <3>3
  <2>3. Started.known = 0
    BY DEF Started, Off
  <2>4. ASSUME NEW q \in Pods, pods'[q].st = "running", pods'[q].known > 0
        PROVE  pods'[q] = pods[q]
    BY <1>0, <2>2, <2>3, <2>4, OffPods, TerminatingPod DEF Inv, PodsInv
  <2>5. QED
    BY <2>1, <2>4, EntryKept
<1>8. CASE Tick
  <2>1. ASSUME NEW p \in Pods, pods'[p].st = "running", pods'[p].known > 0
        PROVE  /\ entry' # None
               /\ entry'.ttl + (2 - pods'[p].known)
                    + (IF pods'[p].hb = "done" THEN 0 ELSE 1) >= EntryTTL
    <3>1. pods'[p] = AgedPod(pods[p]) /\ (pods[p].st = "terminating" => pods[p].left > 0)
      BY <1>8 DEF Tick
    <3>2. /\ pods[p].st = "running" /\ pods'[p].known = pods[p].known
          /\ pods'[p].hb = "due" /\ pods[p].hb = "done"
      BY <1>0, <1>8, <2>1, <3>1, AgedPodOK DEF Tick
    <3>3. entry # None /\ entry.ttl + (2 - pods[p].known) >= EntryTTL
      BY <1>0, <1>00, <2>1, <3>2 DEF EntryHolds
    <3>4. entry.ttl > 1 /\ pods[p].known \in 1..2
      BY <1>0, <1>00, <2>1, <3>2, <3>3, Numbers
    <3>5. entry' # None /\ entry'.ttl = entry.ttl - 1
      BY <1>00, <1>8, <3>3, <3>4, AgedEntry, NoEntry DEF Tick
    <3>6. QED
      BY <1>00, <3>2, <3>3, <3>4, <3>5, Numbers
  <2>2. QED
    BY <2>1 DEF EntryHolds
<1>9. CASE ExpireEntry
  <2>1. ASSUME NEW p \in Pods, pods[p].st = "running", pods[p].known > 0 PROVE FALSE
    <3>1. entry.ttl = 0 /\ entry.ttl + (2 - pods[p].known)
            + (IF pods[p].hb = "done" THEN 0 ELSE 1) >= EntryTTL
      BY <1>9, <2>1 DEF ExpireEntry, EntryHolds
    <3>2. pods[p].known \in 1..2
      BY <1>0, <2>1
    <3>3. QED
      BY <3>1, <3>2, Numbers
  <2>2. QED
    BY <1>9, <2>1 DEF ExpireEntry, EntryHolds, cluster
<1>10. QED
  <2>1. CASE PutRead \/ ExpireTomb \/ Broadcast \/ UNCHANGED vars
    BY <1>1, <2>1 DEF PutRead, ExpireTomb, Broadcast, BroadcastScan, BroadcastCheck, BroadcastRead,
                       BroadcastSend, vars, cluster
  <2>2. ASSUME NEW d \in Deletes,
               \/ Delete(d) \/ ReadDeployment(d) \/ ReplaceDeployment(d)
               \/ ReadLatest(d) \/ SetTombstone(d) \/ DeleteFails(d)
        PROVE  EntryHolds'
    BY <1>1, <2>2 DEF Delete, ReadDeployment, ReplaceDeployment, ReadLatest, SetTombstone,
                      DeleteFails, cluster
  <2>3. QED
    BY <1>2, <1>3, <1>4, <1>5, <1>6, <1>7, <1>8, <1>9, <2>1, <2>2 DEF Next, DeleteStep

\* A station that runs and has registered stays in the registry until it is
\* deleted, though one heartbeat in a row is missed and whatever operators and
\* other replicas write: an entry outlives two intervals.
THEOREM RunningStaysRegistered == Spec => []LivingRegistered
<1>1. Init => EntryHolds
  <2> SUFFICES ASSUME Init PROVE EntryHolds
    OBVIOUS
  <2>1. \A p \in Pods : pods[p] = Started \/ pods[p] = Off
    BY DEF Init
  <2>2. Started.known = 0 /\ Off.known = 0
    BY DEF Started, Off
  <2>3. QED
    BY <2>1, <2>2 DEF EntryHolds
<1>2. EntryHolds => LivingRegistered
  BY DEF EntryHolds, LivingRegistered
<1>3. QED
  BY <1>1, <1>2, SpecInv, EntrySteps, PTL DEF Spec

-----------------------------------------------------------------------------
(* A deleted station stays hidden.                                           *)

\* What a pod may become on the way to its end.
Ends(p) ==
  \/ pods'[p].st = pods[p].st /\ pods'[p].left = pods[p].left
  \/ pods'[p].st = "off"
  \/ pods[p].st = "running" /\ pods'[p].st = "terminating" /\ pods'[p].left = Grace

LEMMA PodsEndKept ==
  ASSUME Inv, PodsEnd, UNCHANGED <<static, tomb>>, \A p \in Pods : Ends(p) PROVE PodsEnd'
<1> SUFFICES ASSUME NEW p \in Pods
             PROVE  /\ pods'[p].st = "running" => static /\ tomb = TombTTL
                    /\ pods'[p].st = "terminating" =>
                         tomb # None /\ tomb + Grace >= TombTTL + pods'[p].left
  BY DEF PodsEnd
<1>1. TombTTL # None
  BY Ranges, NoEntry
<1>2. QED
  BY <1>1, Numbers DEF PodsEnd, Ends

LEMMA DeadKept ==
  ASSUME Dead, entry' \in {entry, None}, put' \in {put, None}, \A p \in Pods : Ends(p)
  PROVE  Dead'
BY DEF Dead, Ends

LEMMA HiddenKept ==
  ASSUME Inv, HiddenInv, UNCHANGED <<static, replicas, tomb, bc, gone, extended>>,
         entry' \in {entry, None}, put' \in {put, None}, \A p \in Pods : Ends(p)
  PROVE  HiddenInv'
BY PodsEndKept, DeadKept
   DEF HiddenInv, Outlived, EntryOutlived, PutOutlived, Within

LEMMA HeartbeatHidden ==
  ASSUME Inv, HiddenInv, NEW p \in Pods, Heartbeat(p) \/ HeartbeatFails(p)
  PROVE  HiddenInv'
<1>0. pods[p] \in PodRecords /\ PodOK(pods[p])
  BY DEF Inv, PodsInv
<1>1. \A q \in Pods : Ends(q)
  BY <1>0 DEF Heartbeat, HeartbeatRead, HeartbeatWrite, Registered, HeartbeatFails, Inv, PodsInv,
              PodRecords, Ends
<1>2. UNCHANGED <<static, replicas, tomb, put, bc, shown, gone, extended>>
  BY DEF Heartbeat, HeartbeatRead, HeartbeatWrite, HeartbeatFails
<1>3. CASE entry' = entry
  BY <1>1, <1>2, <1>3, HiddenKept
<1>4. CASE HeartbeatWrite(p)
  <2>1. pods[p].st # "off"
    BY <1>0, <1>4 DEF HeartbeatWrite, PodOK
  <2>2. entry'.ttl = EntryTTL
    BY <1>4 DEF HeartbeatWrite
  <2>3. ASSUME gone PROVE Outlived'
    <3>1. Outlived /\ ~ Dead /\ PodsEnd'
      BY <1>1, <1>2, <2>1, <2>3, PodsEndKept DEF HiddenInv, Outlived, Dead
    <3>2. tomb # None /\ tomb + Grace >= TombTTL
      <4>1. CASE pods[p].st = "running"
        <5>1. tomb = TombTTL
          BY <3>1, <4>1 DEF Outlived, PodsEnd
        <5>2. QED
          BY <5>1, Numbers, Ranges, NoEntry
      <4>2. CASE pods[p].st = "terminating"
        <5>1. tomb # None /\ tomb + Grace >= TombTTL + pods[p].left
          BY <3>1, <4>2 DEF Outlived, PodsEnd
        <5>2. tomb \in Nat /\ pods[p].left \in Nat
          BY <1>0, <5>1, Ranges DEF PodRecords, Inv, RedisInv
        <5>3. QED
          BY <5>1, <5>2, Numbers
      <4>3. QED
        BY <1>0, <2>1, <4>1, <4>2 DEF PodRecords
    <3>3. EntryOutlived'
      <4>1. tomb \in Nat /\ extended \in Nat
        BY <3>2, Ranges DEF Inv, RedisInv
      <4>2. QED
        BY <1>2, <2>2, <3>2, <4>1, Numbers DEF EntryOutlived
    <3>4. Within' = Within /\ (PutOutlived' = PutOutlived)
      BY <1>2 DEF Within, PutOutlived
    <3>5. QED
      BY <1>2, <3>1, <3>3, <3>4 DEF Outlived
  <2>4. QED
    BY <1>2, <2>3 DEF HiddenInv, Within
<1>5. QED
  BY <1>3, <1>4 DEF Heartbeat, HeartbeatRead, HeartbeatFails

LEMMA PutHidden ==
  ASSUME Inv, HiddenInv, PutRead \/ PutWrite PROVE HiddenInv'
<1>1. UNCHANGED <<static, replicas, pods, tomb, bc, gone>>
  BY DEF PutRead, PutWrite, cluster
<1>2. PodsEnd => PodsEnd'
  BY <1>1 DEF PodsEnd
<1>3. extended \in Nat
  BY Ranges DEF Inv, RedisInv
<1>4. CASE PutRead
  <2>1. Within' => Within
    BY <1>3, <1>4, Numbers DEF PutRead, Within
  <2>2. entry # None /\ entry' = entry /\ entry.ttl \in Nat
    BY <1>4, Ranges DEF PutRead, Inv, RedisInv, Entries
  <2>3. ASSUME gone, Within' PROVE EntryOutlived' /\ PutOutlived' /\ ~ Dead
    <3>1. EntryOutlived /\ extended' = extended + EntryTTL
      BY <1>4, <2>1, <2>2, <2>3 DEF HiddenInv, Outlived, PutRead
    <3>2. tomb # None /\ tomb' = tomb /\ tomb \in Nat
      BY <1>1, <3>1, Ranges DEF EntryOutlived, Inv, RedisInv
    <3>3. EntryOutlived'
      BY <1>3, <2>2, <3>1, <3>2, Numbers DEF EntryOutlived
    <3>4. PutOutlived'
      BY <1>3, <2>2, <3>1, <3>2, Numbers DEF EntryOutlived, PutOutlived
    <3>5. QED
      BY <2>2, <3>3, <3>4 DEF Dead
  <2>4. gone => Outlived'
    BY <1>1, <1>2, <2>1, <2>3 DEF HiddenInv, Outlived
  <2>5. ~ gone => extended' = extended
    BY <1>4 DEF PutRead
  <2>6. QED
    BY <1>1, <2>1, <2>4, <2>5 DEF HiddenInv
<1>5. CASE PutWrite
  <2>1. put # None /\ entry'.ttl = EntryTTL /\ put' = None /\ extended' = extended
    BY <1>5 DEF PutWrite
  <2>2. Within' = Within
    BY <2>1 DEF Within
  <2>3. ASSUME gone, Within PROVE EntryOutlived' /\ ~ Dead
    <3>1. PutOutlived
      BY <2>1, <2>3 DEF HiddenInv, Outlived
    <3>2. tomb # None /\ tomb' = tomb /\ tomb \in Nat
      BY <1>1, <3>1, Ranges DEF PutOutlived, Inv, RedisInv
    <3>3. EntryOutlived'
      BY <1>3, <2>1, <3>1, <3>2, Numbers DEF EntryOutlived, PutOutlived
    <3>4. QED
      BY <2>1, <3>3 DEF Dead
  <2>4. gone => Outlived'
    BY <1>1, <1>2, <2>1, <2>2, <2>3 DEF HiddenInv, Outlived
  <2>5. QED
    BY <1>1, <2>1, <2>2, <2>4 DEF HiddenInv
<1>6. QED
  BY <1>4, <1>5

LEMMA BroadcastHidden ==
  ASSUME Inv, HiddenInv, Broadcast PROVE HiddenInv'
<1>1. UNCHANGED <<static, replicas, pods, entry, tomb, put, gone, extended>>
  BY DEF Broadcast, BroadcastScan, BroadcastCheck, BroadcastRead, BroadcastSend, cluster
<1>2. /\ PodsEnd' = PodsEnd /\ Dead' = Dead /\ Within' = Within
      /\ EntryOutlived' = EntryOutlived /\ PutOutlived' = PutOutlived
  BY <1>1 DEF PodsEnd, Dead, Within, EntryOutlived, PutOutlived
<1>3. bc.has \in BOOLEAN /\ bc.late \in BOOLEAN /\ gone \in BOOLEAN
  BY DEF Inv, RedisInv
<1>4. CASE BroadcastScan
  <2>1. bc'.pc \in {"send", "check"} /\ bc'.has = FALSE /\ bc'.late = gone
    BY <1>4 DEF BroadcastScan
  <2>2. QED
    BY <1>1, <1>2, <1>3, <2>1 DEF HiddenInv, Outlived
<1>5. CASE BroadcastCheck
  <2>1. /\ bc.pc = "check" /\ bc'.has = bc.has /\ bc'.late = bc.late
        /\ bc'.pc = (IF tomb # None THEN "send" ELSE "read")
    BY <1>5 DEF BroadcastCheck, Inv, RedisInv
  <2>2. ASSUME gone, Within, bc'.pc = "read" PROVE Dead
    <3>1. tomb = None /\ Outlived
      BY <2>1, <2>2 DEF HiddenInv
    <3>2. entry = None /\ put = None
      BY <2>2, <3>1 DEF Outlived, EntryOutlived, PutOutlived
    <3>3. ASSUME NEW p \in Pods PROVE pods[p].st = "off"
      <4>1. pods[p].st \in {"off", "running", "terminating"}
        BY DEF Inv, PodsInv, PodRecords
      <4>2. TombTTL # None
        BY Ranges, NoEntry
      <4>3. QED
        BY <3>1, <4>1, <4>2 DEF Outlived, PodsEnd
    <3>4. QED
      BY <3>2, <3>3 DEF Dead
  <2>3. QED
    BY <1>1, <1>2, <1>3, <2>1, <2>2 DEF HiddenInv, Outlived
<1>6. CASE BroadcastRead
  <2>1. /\ bc.pc = "read" /\ bc'.has = (entry # None) /\ bc'.late = bc.late
        /\ bc'.pc = "send"
    BY <1>6 DEF BroadcastRead, Inv, RedisInv
  <2>2. QED
    BY <1>1, <1>2, <1>3, <2>1 DEF HiddenInv, Outlived, Dead
<1>7. CASE BroadcastSend
  <2>1. /\ bc.pc = "send" /\ bc'.has = bc.has /\ bc'.late = bc.late /\ bc'.pc = "done"
    BY <1>7 DEF BroadcastSend, Inv, RedisInv
  <2>2. QED
    BY <1>1, <1>2, <1>3, <2>1 DEF HiddenInv, Outlived
<1>8. QED
  BY <1>4, <1>5, <1>6, <1>7 DEF Broadcast

LEMMA DeleteHidden ==
  ASSUME Inv, HiddenInv, NEW d \in Deletes, Delete(d) \/ DeleteStep(d) \/ DeleteFails(d)
  PROVE  HiddenInv'
<1>0. \A p \in Pods : pods[p] \in PodRecords /\ PodOK(pods[p])
  BY DEF Inv, PodsInv
<1>1. CASE Delete(d) \/ ReadDeployment(d) \/ ReadLatest(d)
  <2>1. UNCHANGED <<static, replicas, pods, entry, tomb, put, bc, gone, extended>>
    BY <1>1 DEF Delete, ReadDeployment, ReadLatest, cluster
  <2>2. QED
    BY <2>1, HiddenKept DEF Ends
<1>2. CASE DeletePod(d) \/ ListPods(d)
  <2>1. UNCHANGED <<static, replicas, entry, tomb, put, bc, gone, extended>>
    BY <1>2 DEF DeletePod, ListPods
  <2>2. pods' = pods \/ Terminate
    BY <1>2 DEF DeletePod, ListPods
  <2>3. ASSUME NEW p \in Pods PROVE Ends(p)
    <3>1. Terminating(pods[p]).st = "terminating" /\ Terminating(pods[p]).left = Grace
      BY <1>0 DEF Terminating, PodRecords
    <3>2. QED
      BY <2>2, <3>1 DEF Terminate, Ends
  <2>4. QED
    BY <2>1, <2>3, HiddenKept
<1>3. CASE /\ UNCHANGED <<static, pods, entry, tomb, put, bc, gone, extended>>
           /\ (gone => replicas' = 0)
  <2>1. CASE gone
    BY <1>3, <2>1, HiddenKept DEF Ends, HiddenInv, Outlived
  <2>2. CASE ~ gone
    BY <1>3, <2>2 DEF HiddenInv, Within
  <2>3. QED
    BY <2>1, <2>2
<1>4. ASSUME At(d, "replace"), delete[d].current PROVE ~ gone
  <2>1. RequestOK(delete[d]) /\ replicas \in Nat
    BY Ranges DEF Inv, DeletesInv
  <2>2. replicas > 0
    BY <1>4, <2>1 DEF RequestOK, Obsolete, At
  <2>3. QED
    BY <2>2 DEF HiddenInv, Outlived
<1>5. CASE ReplaceDeployment(d) \/ DeleteFails(d)
  <2>1. UNCHANGED <<static, pods, entry, tomb, put, bc, gone, extended>>
    BY <1>5 DEF ReplaceDeployment, DeleteFails
  <2>2. replicas' = replicas \/ (At(d, "replace") /\ delete[d].current)
    BY <1>5 DEF ReplaceDeployment, DeleteFails
  <2>3. gone => replicas' = 0
    BY <1>4, <2>2 DEF HiddenInv, Outlived
  <2>4. QED
    BY <1>3, <2>1, <2>3
<1>6. CASE KillPods(d)
  <2>1. \A p \in Pods : Ends(p)
    BY <1>6, OffPods DEF KillPods, Ends
  <2>2. QED
    BY <1>6, <2>1, HiddenKept DEF KillPods
<1>7. CASE DeleteKey(d)
  <2>1. \A p \in Pods : Ends(p)
    BY <1>0, <1>7 DEF DeleteKey, Ends, PodRecords
  <2>2. QED
    BY <1>7, <2>1, HiddenKept DEF DeleteKey
<1>8. CASE SetTombstone(d)
  <2>1. /\ UNCHANGED <<static, replicas, pods, entry, put, bc, extended>> /\ tomb' = TombTTL
        /\ gone' = (gone \/ (replicas = 0 /\ (static \/ Running = {})))
    BY <1>8 DEF SetTombstone, Answered, cluster
  <2>2. ASSUME gone' PROVE Outlived'
    <3>1. replicas = 0 /\ (static \/ Running = {})
      BY <2>1, <2>2 DEF HiddenInv, Outlived, PodsEnd, Running
    <3>2. TombTTL # None /\ extended \in Nat
      BY Ranges, NoEntry DEF Inv, RedisInv
    <3>3. PodsEnd'
      <4>1. ASSUME NEW p \in Pods PROVE pods[p].left \in 0..Grace
        BY <1>0 DEF PodRecords, Lefts
      <4>2. QED
        BY <2>1, <3>1, <3>2, <4>1, Numbers DEF PodsEnd, Running
    <3>4. entry # None => EntryOutlived'
      <4>1. entry # None => entry.ttl \in 0..EntryTTL
        BY DEF Inv, RedisInv, Entries, Ttls
      <4>2. QED
        BY <2>1, <3>2, <4>1, Numbers DEF EntryOutlived
    <3>5. PutOutlived'
      BY <2>1, <3>2, Numbers DEF PutOutlived
    <3>6. Within /\ bc.pc = "read" /\ bc.late => Dead'
      BY <2>1 DEF HiddenInv, Outlived, Dead
    <3>7. QED
      BY <2>1, <3>1, <3>3, <3>4, <3>5, <3>6 DEF Outlived, Within
  <2>3. ~ gone' => extended' = 0
    BY <2>1 DEF HiddenInv
  <2>4. QED
    BY <2>1, <2>2, <2>3 DEF HiddenInv, Within
<1>9. QED
  BY <1>1, <1>2, <1>5, <1>6, <1>7, <1>8 DEF DeleteStep

LEMMA ClusterHidden ==
  ASSUME Inv, HiddenInv, Reconcile \/ (\E p \in Pods : LosePod(p) \/ PodEnds(p)) \/ Deploy
  PROVE  HiddenInv'
<1>0. \A p \in Pods : pods[p] \in PodRecords /\ PodOK(pods[p])
  BY DEF Inv, PodsInv
<1>1. CASE Deploy
  <2>1. ~ gone' /\ ~ bc'.late /\ extended' = 0
    BY <1>1 DEF Deploy, Inv, RedisInv
  <2>2. QED
    BY <2>1 DEF HiddenInv
<1>2. CASE \E p \in Pods : LosePod(p) \/ PodEnds(p)
  <2>1. \A p \in Pods : Ends(p)
    BY <1>2, OffPods DEF LosePod, PodEnds, Ends, Inv, PodsInv
  <2>2. QED
    BY <1>2, <2>1, HiddenKept DEF LosePod, PodEnds
<1>3. CASE Reconcile
  <2>1. UNCHANGED <<static, replicas, entry, tomb, put, bc, gone, extended>>
    BY <1>3 DEF Reconcile
  <2>2. CASE ~ gone
    BY <2>1, <2>2 DEF HiddenInv, Within
  <2>3. CASE gone
    <3>1. ~ (Cardinality(Running) < replicas)
      BY <2>3, PodsCounted DEF HiddenInv, Outlived
    <3>2. PICK p \in Pods :
            pods[p].st = "running" /\ pods' = [pods EXCEPT ![p] = Terminating(pods[p])]
      BY <1>3, <3>1 DEF Reconcile, Inv, PodsInv
    <3>3. Terminating(pods[p]).st = "terminating" /\ Terminating(pods[p]).left = Grace
      BY <1>0 DEF Terminating, PodRecords
    <3>4. \A q \in Pods : Ends(q)
      BY <3>2, <3>3 DEF Ends, Inv, PodsInv
    <3>5. QED
      BY <2>1, <3>4, HiddenKept
  <2>4. QED
    BY <2>2, <2>3
<1>4. QED
  BY <1>1, <1>2, <1>3

LEMMA ExpireHidden ==
  ASSUME Inv, HiddenInv, ExpireEntry \/ ExpireTomb PROVE HiddenInv'
<1>1. CASE ExpireEntry
  BY <1>1, HiddenKept DEF ExpireEntry, cluster, Ends
<1>2. CASE ExpireTomb
  <2>1. UNCHANGED <<static, replicas, pods, entry, put, bc, gone, extended>> /\ tomb = 0
    BY <1>2 DEF ExpireTomb, cluster
  <2>2. ASSUME gone PROVE Outlived'
    <3>1. Outlived
      BY <2>2 DEF HiddenInv
    <3>2. extended \in Nat /\ Within' = Within /\ Dead' = Dead
      BY <2>1, Ranges DEF Inv, RedisInv, Within, Dead
    <3>3. \A p \in Pods : pods[p].st \notin {"running", "terminating"}
      <4>1. ASSUME NEW p \in Pods, pods[p].st = "terminating" PROVE FALSE
        <5>1. 0 + Grace >= TombTTL + pods[p].left /\ pods[p].left \in Nat
          BY <2>1, <3>1, <4>1, Ranges DEF Outlived, PodsEnd, Inv, PodsInv, PodRecords
        <5>2. QED
          BY <5>1, Numbers
      <4>2. TombTTL # 0
        BY Numbers
      <4>3. QED
        BY <2>1, <3>1, <4>1, <4>2 DEF Outlived, PodsEnd
    <3>4. PodsEnd'
      BY <2>1, <3>3 DEF PodsEnd
    <3>5. Within => entry = None
      <4>1. entry # None => entry.ttl \in Nat
        BY Ranges DEF Inv, RedisInv, Entries
      <4>2. ASSUME Within PROVE ~ EntryOutlived \/ entry = None
        BY <2>1, <3>2, <4>1, <4>2, Numbers DEF Within, EntryOutlived
      <4>3. QED
        BY <3>1, <4>2 DEF Outlived
    <3>6. Within => put = None
      <4>1. Within => ~ PutOutlived
        BY <2>1, <3>2, Numbers DEF Within, PutOutlived
      <4>2. QED
        BY <3>1, <4>1 DEF Outlived
    <3>7. QED
      BY <2>1, <3>1, <3>2, <3>4, <3>5, <3>6 DEF Outlived
  <2>3. QED
    BY <2>1, <2>2 DEF HiddenInv, Within
<1>3. QED
  BY <1>1, <1>2

LEMMA TickHidden ==
  ASSUME Inv, HiddenInv, Tick PROVE HiddenInv'
<1>1. /\ UNCHANGED <<static, replicas, put, gone, extended>> /\ put = None
      /\ bc.pc = "done" /\ bc'.pc = "due" /\ bc'.has = bc.has /\ bc'.late = bc.late
  BY DEF Tick, Inv, RedisInv
<1>2. tomb # None => tomb \in Nat /\ tomb > 0 /\ tomb' = tomb - 1 /\ tomb' # None
  <2>1. ASSUME tomb # None PROVE tomb \in 0..TombTTL /\ tomb # 0 /\ tomb' = tomb - 1
    BY <2>1 DEF Tick, Inv, RedisInv, Tombs
  <2>2. tomb # None => tomb' \in Tombs
    BY <2>1, Numbers DEF Tombs
  <2>3. QED
    BY <2>1, <2>2, NoEntry, Numbers
<1>3. Within' = Within /\ extended \in Nat
  BY <1>1, Ranges DEF Within, Inv, RedisInv
<1>4. ASSUME gone PROVE Outlived'
  <2>1. Outlived
    BY <1>4 DEF HiddenInv
  <2>2. \A p \in Pods : pods[p].st # "running"
    <3>1. static => Running = {}
      BY <2>1, PodsCounted DEF Tick, Outlived
    <3>2. QED
      BY <2>1, <3>1 DEF Outlived, PodsEnd, Running
  <2>3. PodsEnd'
    <3>1. ASSUME NEW p \in Pods
          PROVE  /\ pods'[p].st # "running"
                 /\ pods'[p].st = "terminating" =>
                      tomb' # None /\ tomb' + Grace >= TombTTL + pods'[p].left
      <4>1. /\ pods'[p] = AgedPod(pods[p]) /\ pods[p] \in PodRecords /\ PodOK(pods[p])
            /\ pods[p].st = "terminating" => pods[p].left > 0
        BY DEF Tick, Inv, PodsInv
      <4>2. pods'[p].st = pods[p].st
        BY <4>1, AgedPodOK
      <4>3. ASSUME pods[p].st = "terminating"
            PROVE  tomb' # None /\ tomb' + Grace >= TombTTL + pods'[p].left
        <5>1. pods'[p].left = pods[p].left - 1 /\ pods[p].left \in Nat
          BY <4>1, <4>3, AgedPodOK, Ranges DEF PodRecords
        <5>2. tomb # None /\ tomb + Grace >= TombTTL + pods[p].left
          BY <2>1, <4>3 DEF Outlived, PodsEnd
        <5>3. QED
          BY <1>2, <5>1, <5>2, Numbers
      <4>4. QED
        BY <2>2, <4>2, <4>3
    <3>2. QED
      BY <3>1 DEF PodsEnd
  <2>4. ASSUME entry' # None, Within PROVE EntryOutlived'
    <3>1. entry \in Entries /\ entry' = Aged(entry) /\ entry.ttl > 0
      BY <2>4 DEF Tick, Inv, RedisInv, Aged
    <3>2. entry'.ttl = entry.ttl - 1 /\ entry.ttl \in Nat
      BY <3>1, AgedEntry, Ranges DEF Entries
    <3>3. EntryOutlived
      BY <2>1, <2>4, <3>1, NoEntry DEF Outlived
    <3>4. QED
      BY <1>1, <1>2, <1>3, <3>2, <3>3, Numbers DEF EntryOutlived
  <2>5. QED
    BY <1>1, <1>3, <2>1, <2>3, <2>4 DEF Outlived
<1>5. QED
  BY <1>1, <1>3, <1>4 DEF HiddenInv

LEMMA HiddenSteps == Inv /\ HiddenInv /\ [Next]_vars => HiddenInv'
<1> SUFFICES ASSUME Inv, HiddenInv, [Next]_vars PROVE HiddenInv'
  OBVIOUS
<1>1. CASE UNCHANGED vars
  <2>1. UNCHANGED <<static, replicas, pods, entry, tomb, put, bc, gone, extended>>
    BY <1>1 DEF vars, cluster
  <2>2. QED
    BY <2>1, HiddenKept DEF Ends
<1>2. QED
  BY <1>1, HeartbeatHidden, PutHidden, DeleteHidden, BroadcastHidden, ClusterHidden, TickHidden,
     ExpireHidden DEF Next

\* For any number of pods, deletions, radius changes and events: once a deletion is
\* complete no round of the broadcaster that begins later shows the station, as long
\* as its tombstone outlives the last heartbeat by more than the radius changes begun
\* since can add to the life of the entry.
THEOREM DeletedIsHidden == Spec => []DeletedStaysHidden
<1>1. Init => HiddenInv
  BY DEF Init, HiddenInv
<1>2. HiddenInv => DeletedStaysHidden
  BY DEF HiddenInv, DeletedStaysHidden
<1>3. QED
  BY <1>1, <1>2, SpecInv, HiddenSteps, PTL DEF Spec
=============================================================================
