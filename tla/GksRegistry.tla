---------------------------- MODULE GksRegistry ----------------------------
(***************************************************************************)
(* The life of one ground station id in the cluster and in Redis: the      *)
(* entry gks_instance:{id} that its pods write (GKS_Server/repository.py   *)
(* register_gks), the radius that operators set and the deletion of the    *)
(* station with its tombstone gks_deleting:{id} (DeploymentController.cs,  *)
(* KubernetesOrchestratorService.cs DeleteGksAsync), and the list that     *)
(* RedisSubscriberService.cs sends to the maps.                            *)
(*                                                                         *)
(* The station is static, a Deployment whose replicas all carry the id, or *)
(* dynamic, one pod that was spawned.  Kubernetes is external: an update   *)
(* of a Deployment conflicts if it has changed since it was read, and the  *)
(* ReplicaSet keeps as many pods as there are replicas.                    *)
(*                                                                         *)
(* The pc of a deletion names the call it makes next:                      *)
(*   pod     delete the pod named after the id                             *)
(*   list    find the pod by name or label                                 *)
(*   read, replace   the Deployment                                        *)
(*   latest  read it once more after the last conflict                     *)
(*   kill    force-delete the pods of the id                               *)
(*   key, tomb   the success is answered with these two changes of Redis   *)
(*                                                                         *)
(* Time is counted in the 10 s between two heartbeats.  All that happens   *)
(* at one instant of it happens in any order: a heartbeat or a radius may  *)
(* be written just before the pod is killed or the key expires, and a      *)
(* round of the broadcaster may see one key expired and not the other.     *)
(***************************************************************************)
EXTENDS Naturals, FiniteSets

CONSTANTS
  None,
  Pods,          \* slots for the pods of the station
  Deletes,       \* deletions at a time
  Radii, Default,
  EntryTTL,      \* gks_instance:{id} lives 30 s, in units of the 10 s between heartbeats
  TombTTL,       \* gks_deleting:{id} lives 90 s
  Grace,         \* a pod has 30 s to terminate
  MaxAttempts,   \* attempts to scale down
  MaxEvents      \* bound on failing calls, lost pods and new deployments

ASSUME GksRegistryAssumption ==
  /\ Default \in Radii
  /\ None \notin Radii \cup [radius : Radii, ttl : 0..EntryTTL] \cup (0..TombTTL)
  /\ {EntryTTL, TombTTL, Grace, MaxAttempts} \subseteq Nat \ {0}
  /\ MaxEvents \in Nat
  /\ IsFiniteSet(Pods)

\* An entry outlives a heartbeat that is missed, a tombstone the last entry that a
\* terminating pod writes: 30 s against 10 s, and 90 s against 30 s and 30 s.
ASSUME TtlAssumption ==
  /\ EntryTTL > 2
  /\ TombTTL > EntryTTL + Grace

VARIABLES
  static,    \* a Deployment or a spawned pod
  replicas,  \* of the Deployment
  pods,      \* by slot: state, units of grace left, the heartbeat and the radius it has
             \* read; known is history: 2 after a heartbeat, 1 after one that was missed
  entry,     \* gks_instance:{id}: radius and units to live, or None
  tomb,      \* gks_deleting:{id}: units to live, or None
  delete,    \* by deletion: pc, attempt, second call, the replicas it has read
  put,       \* the radius that a request has read the entry for, or None
  bc,        \* the round of the broadcaster
  shown,     \* the station is in the list the maps have
  events,
  gone,      \* history: a deletion is complete and nothing was deployed since
  extended   \* history: the units that radius changes begun since then may have
             \* added to the life of the entry, counted as long as they matter

cluster == <<static, replicas, pods>>
vars == <<cluster, entry, tomb, delete, put, bc, shown, events, gone, extended>>

Event == events < MaxEvents /\ events' = events + 1

Off == [st |-> "off", left |-> 0, hb |-> "done", held |-> Default, known |-> 0]
Started == [Off EXCEPT !.st = "running", !.hb = "due"]
Terminating(pod) ==
  [pod EXCEPT !.st = "terminating", !.left = Grace, !.known = 0]
Running == {p \in Pods : pods[p].st = "running"}

Idle == [pc |-> "idle", attempt |-> 0, second |-> FALSE, seen |-> 0, current |-> FALSE,
         justified |-> FALSE]
At(d, pc) == delete[d].pc = pc
GoTo(d, pc) == delete' = [delete EXCEPT ![d].pc = pc]

\* The deletion d may report success: it has removed the station or a replica,
\* or there was none.
Justified(d) == delete' = [delete EXCEPT ![d].pc = "key", ![d].justified = TRUE]

\* Every change of the Deployment makes what others have read of it obsolete.
Outdate(ds) == [d \in Deletes |-> [ds[d] EXCEPT !.current = FALSE]]

TypeOK ==
  /\ static \in BOOLEAN
  /\ replicas \in 0..Cardinality(Pods)
  /\ pods \in [Pods -> [st : {"off", "running", "terminating"}, left : 0..Grace,
                        hb : {"done", "due", "held"}, held : Radii, known : 0..2]]
  /\ entry \in [radius : Radii, ttl : 0..EntryTTL] \cup {None}
  /\ tomb \in (0..TombTTL) \cup {None}
  /\ delete \in [Deletes -> [pc : {"idle", "pod", "list", "read", "replace", "latest", "kill",
                                   "key", "tomb"},
                             attempt : 0..MaxAttempts, second : BOOLEAN,
                             seen : 0..Cardinality(Pods), current : BOOLEAN,
                             justified : BOOLEAN]]
  /\ put \in Radii \cup {None}
  /\ bc \in [pc : {"due", "done", "check", "read", "send"}, has : BOOLEAN, late : BOOLEAN]
  /\ shown \in BOOLEAN
  /\ events \in 0..MaxEvents
  /\ gone \in BOOLEAN
  /\ extended \in 0..(TombTTL + EntryTTL)
  /\ ~ static => replicas = 0 /\ Cardinality(Running) <= 1
  /\ \A p \in Pods : pods[p].left > 0 => pods[p].st = "terminating"

Init ==
  /\ \/ static = TRUE /\ replicas \in 1..Cardinality(Pods)
     \/ static = FALSE /\ replicas = 0
  /\ \E on \in SUBSET Pods :
       /\ Cardinality(on) = IF static THEN replicas ELSE 1
       /\ pods = [p \in Pods |-> IF p \in on THEN Started ELSE Off]
  /\ entry = None
  /\ tomb = None
  /\ delete = [d \in Deletes |-> Idle]
  /\ put = None
  /\ bc = [pc |-> "due", has |-> FALSE, late |-> FALSE]
  /\ shown = FALSE
  /\ events = 0
  /\ gone = FALSE
  /\ extended = 0

-----------------------------------------------------------------------------
(* The heartbeat of a pod: register_gks reads the entry for its radius and    *)
(* writes it back.                                                            *)

HeartbeatRead(p) ==
  /\ pods[p].hb = "due"
  /\ pods' = [pods EXCEPT ![p].hb = "held",
                          ![p].held = IF entry = None THEN Default ELSE entry.radius]
  /\ UNCHANGED <<static, replicas, entry, tomb, delete, put, bc, shown, events, gone, extended>>

Registered(p) ==
  [pods EXCEPT ![p].hb = "done", ![p].held = Default,
                      ![p].known = IF pods[p].st = "running" THEN 2 ELSE 0]

\* Variant, not the code: the entry lives no longer than to the next heartbeat.
HeartbeatShort(p) ==
  /\ pods[p].hb = "held"
  /\ entry' = [radius |-> pods[p].held, ttl |-> 1]
  /\ pods' = Registered(p)
  /\ UNCHANGED <<static, replicas, tomb, delete, put, bc, shown, events, gone, extended>>

\* Variant, not the code: only an entry that is still there is refreshed.
HeartbeatRefreshes(p) ==
  /\ pods[p].hb = "held"
  /\ entry' = IF entry = None THEN None ELSE [radius |-> pods[p].held, ttl |-> EntryTTL]
  /\ pods' = Registered(p)
  /\ UNCHANGED <<static, replicas, tomb, delete, put, bc, shown, events, gone, extended>>

HeartbeatWrite(p) ==
  /\ pods[p].hb = "held"
  /\ entry' = [radius |-> pods[p].held, ttl |-> EntryTTL]
  /\ pods' = Registered(p)
  /\ UNCHANGED <<static, replicas, tomb, delete, put, bc, shown, events, gone, extended>>

\* Redis fails: the heartbeat is left out.
HeartbeatFails(p) ==
  /\ Event
  /\ pods[p].hb # "done"
  /\ pods' = [pods EXCEPT ![p].hb = "done", ![p].held = Default,
                          ![p].known = IF @ = 0 THEN 0 ELSE @ - 1]
  /\ UNCHANGED <<static, replicas, entry, tomb, delete, put, bc, shown, gone, extended>>

-----------------------------------------------------------------------------
(* UpdateGksRadius: an operator sets the radius of a station, also of one     *)
(* that has left the map: the panel of its selection stays open.              *)

\* The tombstone outlives the last entry of a pod and what radius changes added.
Within == Grace + EntryTTL + extended < TombTTL

PutRead ==
  /\ put = None
  /\ entry # None
  /\ put' \in Radii
  /\ extended' = IF gone /\ Within THEN extended + EntryTTL ELSE extended
  /\ UNCHANGED <<cluster, entry, tomb, delete, bc, shown, events, gone>>

PutWrite ==
  /\ put # None
  /\ entry' = [radius |-> put, ttl |-> EntryTTL]
  /\ put' = None
  /\ UNCHANGED <<cluster, tomb, delete, bc, shown, events, gone, extended>>

-----------------------------------------------------------------------------
(* DeleteGks and DeleteGksAsync.                                              *)

Delete(d) ==
  /\ At(d, "idle")
  /\ GoTo(d, "pod")
  /\ UNCHANGED <<cluster, entry, tomb, put, bc, shown, events, gone, extended>>

\* The pods of a spawned station terminate, as often as they are told to.
Terminate ==
  pods' = [p \in Pods |-> IF pods[p].st = "running" THEN Terminating(pods[p]) ELSE pods[p]]

Present == \E p \in Pods : pods[p].st # "off"

\* The pods of a Deployment have other names.
DeletePod(d) ==
  /\ At(d, "pod")
  /\ \/ ~ static /\ Present /\ Terminate /\ Justified(d)
     \/ (static \/ ~ Present) /\ GoTo(d, "list") /\ UNCHANGED pods
  /\ UNCHANGED <<static, replicas, entry, tomb, put, bc, shown, events, gone, extended>>

\* Nothing is found, or a pod spawned meanwhile, or the replica whose random
\* name happens to contain the id: then the Deployment is scaled down, and once
\* more if that fails.
ListPods(d) ==
  /\ At(d, "list")
  /\ \/ ~ static /\ Present /\ Terminate /\ Justified(d)
     \/ /\ static \/ ~ Present
        /\ \E found \in IF static /\ Present THEN BOOLEAN ELSE {FALSE} :
             delete' = [delete EXCEPT ![d].pc = "read", ![d].attempt = 1, ![d].second = ~ found]
        /\ UNCHANGED pods
  /\ UNCHANGED <<static, replicas, entry, tomb, put, bc, shown, events, gone, extended>>

\* TryScaleDownStaticGksDeploymentAsync has failed: another try if the first
\* was for the pod that was found, else the station is taken to be absent.
GivenUp(request) ==
  IF request.second THEN [request EXCEPT !.pc = "key"]
                    ELSE [request EXCEPT !.pc = "read", !.attempt = 1, !.second = TRUE]
GiveUp(d) == delete' = [delete EXCEPT ![d] = GivenUp(@)]

\* Variant, not the code: there is no look at whether any replica is left.
ReadNoFloor(d) ==
  /\ At(d, "read")
  /\ static
  /\ delete' = [delete EXCEPT ![d].pc = "replace", ![d].seen = replicas, ![d].current = TRUE]
  /\ UNCHANGED <<cluster, entry, tomb, put, bc, shown, events, gone, extended>>

ReadDeployment(d) ==
  /\ At(d, "read")
  /\ \/ ~ static /\ (IF Running = {} THEN Justified(d) ELSE GiveUp(d))
     \/ static /\ replicas = 0 /\ Justified(d)
     \/ /\ static
        /\ replicas > 0
        /\ delete' = [delete EXCEPT ![d].pc = "replace", ![d].seen = replicas,
                                    ![d].current = TRUE]
  /\ UNCHANGED <<cluster, entry, tomb, put, bc, shown, events, gone, extended>>

ReplaceDeployment(d) ==
  /\ At(d, "replace")
  /\ \/ /\ delete[d].current
        /\ replicas' = delete[d].seen - 1
        /\ delete' = Outdate([delete EXCEPT ![d].pc = "kill", ![d].justified = TRUE])
     \/ /\ ~ delete[d].current
        /\ delete[d].attempt < MaxAttempts
        /\ delete' = [delete EXCEPT ![d].pc = "read", ![d].attempt = @ + 1]
        /\ UNCHANGED replicas
     \/ /\ ~ delete[d].current
        /\ delete[d].attempt = MaxAttempts
        /\ GoTo(d, "latest")
        /\ UNCHANGED replicas
  /\ UNCHANGED <<static, pods, entry, tomb, put, bc, shown, events, gone, extended>>

ReadLatest(d) ==
  /\ At(d, "latest")
  /\ IF replicas = 0 THEN Justified(d) ELSE GiveUp(d)
  /\ UNCHANGED <<cluster, entry, tomb, put, bc, shown, events, gone, extended>>

\* Every pod of the id is killed, whatever the number of replicas left; a pod
\* that cannot be deleted is passed over.
KillPods(d) ==
  /\ At(d, "kill")
  /\ \/ pods' = [p \in Pods |-> Off] /\ UNCHANGED events
     \/ Event /\ \E p \in Pods : pods' = [q \in Pods |-> IF q = p THEN pods[p] ELSE Off]
  /\ delete' = Outdate([delete EXCEPT ![d].pc = "key"])
  /\ UNCHANGED <<static, replicas, entry, tomb, put, bc, shown, gone, extended>>

DeleteKey(d) ==
  /\ At(d, "key")
  /\ entry' = None
  /\ pods' = [p \in Pods |-> [pods[p] EXCEPT !.known = 0]]
  /\ GoTo(d, "tomb")
  /\ UNCHANGED <<static, replicas, tomb, put, bc, shown, events, gone, extended>>

\* The deletion is answered with success.
Answered(d) ==
  /\ delete' = [delete EXCEPT ![d] = Idle]
  /\ gone' = (gone \/ (replicas = 0 /\ (static \/ Running = {})))

\* Variant, not the code: the tombstone lives no longer than an entry.
TombstoneShort(d) ==
  /\ At(d, "tomb")
  /\ tomb' = EntryTTL
  /\ Answered(d)
  /\ UNCHANGED <<cluster, entry, put, bc, shown, events, extended>>

SetTombstone(d) ==
  /\ At(d, "tomb")
  /\ tomb' = TombTTL
  /\ Answered(d)
  /\ UNCHANGED <<cluster, entry, put, bc, shown, events, extended>>

\* A call fails.  Only the first two make the deletion fail; an error of the
\* scaling, even if the cluster has scaled before the answer was lost, counts as
\* not having scaled, and one of Redis is logged.
DeleteFails(d) ==
  /\ Event
  /\ \/ /\ delete[d].pc \in {"pod", "list", "key", "tomb"}
        /\ delete' = [delete EXCEPT ![d] = Idle]
        /\ UNCHANGED replicas
     \/ /\ delete[d].pc \in {"read", "replace", "latest"}
        /\ GiveUp(d)
        /\ UNCHANGED replicas
     \/ /\ At(d, "replace")
        /\ delete[d].current
        /\ replicas' = delete[d].seen - 1
        /\ delete' = Outdate([delete EXCEPT ![d] = GivenUp([@ EXCEPT !.justified = TRUE])])
  /\ UNCHANGED <<static, pods, entry, tomb, put, bc, shown, gone, extended>>

DeleteStep(d) ==
  \/ DeletePod(d) \/ ListPods(d) \/ ReadDeployment(d) \/ ReplaceDeployment(d)
  \/ ReadLatest(d) \/ KillPods(d) \/ DeleteKey(d) \/ SetTombstone(d)

-----------------------------------------------------------------------------
(* BroadcastGksLocationsAsync, every 2 s.                                     *)

\* The scan finds the key or not; the round ends at once if not.
BroadcastScan ==
  /\ bc.pc \in {"due", "done"}
  /\ bc' = [pc |-> IF entry = None THEN "send" ELSE "check", has |-> FALSE, late |-> gone]
  /\ UNCHANGED <<cluster, entry, tomb, delete, put, shown, events, gone, extended>>

BroadcastCheck ==
  /\ bc.pc = "check"
  /\ bc' = [bc EXCEPT !.pc = IF tomb # None THEN "send" ELSE "read"]
  /\ UNCHANGED <<cluster, entry, tomb, delete, put, shown, events, gone, extended>>

BroadcastRead ==
  /\ bc.pc = "read"
  /\ bc' = [bc EXCEPT !.pc = "send", !.has = entry # None]
  /\ UNCHANGED <<cluster, entry, tomb, delete, put, shown, events, gone, extended>>

\* Variant, not the code: an empty list is not sent.
BroadcastSomething ==
  /\ bc.pc = "send"
  /\ shown' = (shown \/ bc.has)
  /\ bc' = [bc EXCEPT !.pc = "done"]
  /\ UNCHANGED <<cluster, entry, tomb, delete, put, events, gone, extended>>

\* The maps replace their list by the one sent.
BroadcastSend ==
  /\ bc.pc = "send"
  /\ shown' = bc.has
  /\ bc' = [bc EXCEPT !.pc = "done"]
  /\ UNCHANGED <<cluster, entry, tomb, delete, put, events, gone, extended>>

-----------------------------------------------------------------------------
(* The cluster and time.                                                      *)

\* The ReplicaSet starts or terminates a pod and reports it in the Deployment.
Reconcile ==
  /\ static
  /\ \E p \in Pods :
       \/ /\ Cardinality(Running) < replicas
          /\ pods[p].st = "off"
          /\ pods' = [pods EXCEPT ![p] = Started]
       \/ /\ Cardinality(Running) > replicas
          /\ pods[p].st = "running"
          /\ pods' = [pods EXCEPT ![p] = Terminating(@)]
  /\ delete' = Outdate(delete)
  /\ UNCHANGED <<static, replicas, entry, tomb, put, bc, shown, events, gone, extended>>

\* A node is lost with a pod.
LosePod(p) ==
  /\ Event
  /\ pods[p].st # "off"
  /\ pods' = [pods EXCEPT ![p] = Off]
  /\ delete' = Outdate(delete)
  /\ UNCHANGED <<static, replicas, entry, tomb, put, bc, shown, gone, extended>>

\* The id is deployed or, by chance, spawned again.
Deploy ==
  /\ Event
  /\ \/ static /\ replicas = 0 /\ replicas' = 1 /\ UNCHANGED pods
     \/ /\ ~ static
        /\ ~ Present
        /\ \E p \in Pods : pods' = [pods EXCEPT ![p] = Started]
        /\ UNCHANGED replicas
  /\ delete' = Outdate(delete)
  /\ gone' = FALSE
  /\ extended' = 0
  /\ bc' = [bc EXCEPT !.late = FALSE]
  /\ UNCHANGED <<static, entry, tomb, put, shown>>

\* The grace period of a pod ends, and a key of Redis expires.
PodEnds(p) ==
  /\ pods[p].st = "terminating"
  /\ pods[p].left = 0
  /\ pods' = [pods EXCEPT ![p] = Off]
  /\ delete' = Outdate(delete)
  /\ UNCHANGED <<static, replicas, entry, tomb, put, bc, shown, events, gone, extended>>

ExpireEntry ==
  /\ entry # None
  /\ entry.ttl = 0
  /\ entry' = None
  /\ UNCHANGED <<cluster, tomb, delete, put, bc, shown, events, gone, extended>>

ExpireTomb ==
  /\ tomb = 0
  /\ tomb' = None
  /\ UNCHANGED <<cluster, entry, delete, put, bc, shown, events, gone, extended>>

Aged(e) == IF e = None THEN None ELSE [e EXCEPT !.ttl = @ - 1]

AgedPod(pod) ==
  CASE pod.st = "terminating" -> [pod EXCEPT !.left = @ - 1, !.hb = "due"]
    [] pod.st = "running" -> [pod EXCEPT !.hb = "due"]
    [] OTHER -> pod

\* 10 s pass: all that takes a fraction of that is done and all that is due at
\* this instant has happened: each pod has had its heartbeat, the broadcaster a
\* round and the ReplicaSet its replicas.
Tick ==
  /\ \A p \in Pods : pods[p].hb = "done" /\ (pods[p].st = "terminating" => pods[p].left > 0)
  /\ \A d \in Deletes : At(d, "idle")
  /\ put = None
  /\ bc.pc = "done"
  /\ static => Cardinality(Running) = replicas
  /\ entry # None => entry.ttl > 0
  /\ tomb # 0
  /\ pods' = [p \in Pods |-> AgedPod(pods[p])]
  /\ entry' = Aged(entry)
  /\ tomb' = IF tomb = None THEN None ELSE tomb - 1
  /\ bc' = [bc EXCEPT !.pc = "due"]
  /\ UNCHANGED <<static, replicas, delete, put, shown, events, gone, extended>>

Heartbeat(p) == HeartbeatRead(p) \/ HeartbeatWrite(p)
Broadcast == BroadcastScan \/ BroadcastCheck \/ BroadcastRead \/ BroadcastSend

Next ==
  \/ \E p \in Pods : Heartbeat(p) \/ HeartbeatFails(p) \/ LosePod(p) \/ PodEnds(p)
  \/ PutRead \/ PutWrite
  \/ \E d \in Deletes : Delete(d) \/ DeleteStep(d) \/ DeleteFails(d)
  \/ Broadcast
  \/ Reconcile \/ Deploy \/ ExpireEntry \/ ExpireTomb \/ Tick

\* Every loop goes on, every request is carried through and time passes, however
\* many rounds the broadcaster makes; nobody is obliged to make a request.
Fairness ==
  /\ \A p \in Pods : WF_vars(Heartbeat(p)) /\ WF_vars(PodEnds(p))
  /\ WF_vars(PutWrite)
  /\ \A d \in Deletes : WF_vars(DeleteStep(d))
  /\ WF_vars(bc.pc # "done" /\ Broadcast)
  /\ WF_vars(Reconcile) /\ WF_vars(ExpireEntry) /\ WF_vars(ExpireTomb)
  /\ SF_vars(Tick)

Spec == Init /\ [][Next]_vars /\ Fairness

-----------------------------------------------------------------------------
\* No round of the broadcaster that begins after a completed deletion shows the
\* station again, whatever its terminating pods, a radius change under way or another
\* deletion write (RedisSubscriberService.cs:99, DeploymentController.cs:254), as
\* long as the tombstone outlives the last heartbeat with all that radius changes
\* begun after the deletion can add to it.
DeletedStaysHidden == gone /\ bc.late /\ Within => ~ bc.has

\* What the comments at the tombstone say, without that condition: a terminating pod
\* does not reappear.  TLC refutes it, because each radius change gives the last
\* entry the pod wrote another 30 s (DeploymentController.cs:254, 369).
DeletedNeverReturns == gone /\ bc.late => ~ bc.has

\* A running pod that has registered is in the registry until it is deleted, even
\* if one heartbeat is left out (repository.py:261, server.py:700-703).
LivingRegistered == \A p \in Pods : pods[p].st = "running" /\ pods[p].known > 0 => entry # None

\* When operators leave it alone, a station that runs is shown for good, also
\* after deletions that did not remove it (RedisSubscriberService.cs:100).
Alone == put = None /\ \A d \in Deletes : At(d, "idle")
LivingShown == <>[](Alone /\ Running # {}) => <>[]shown

\* When operators leave it alone, a station that has no pod vanishes from the maps
\* for good (repository.py:261, DeploymentController.cs:371-372, RedisSubscriberService.cs:113).
DeadForgotten == <>[](Alone /\ ~ Present) => <>[] ~ shown

\* A heartbeat preserves the radius of the entry (repository.py:239).  TLC refutes it:
\* the radius written back is the one read before an operator's change.
RadiusKept ==
  [][\A p \in Pods : HeartbeatWrite(p) /\ entry # None => entry'.radius = entry.radius]_vars

\* A deletion reports success only if it has removed the station or a replica of
\* it, or there was none (KubernetesOrchestratorService.cs:714).  TLC refutes this:
\* see the README.
SuccessMeansGone == \A d \in Deletes : At(d, "key") => delete[d].justified
=============================================================================
