----------------------------- MODULE ALBIngresses -----------------------------
(***************************************************************************)
(* The ALB ingress list of the v1 controller (src/unnamed/part_000,        *)
(* package albingresses) and the sync loop that uses it.                   *)
(*                                                                         *)
(* On start the controller assembles its list from the load balancers      *)
(* that AWS holds for the cluster (AssembleIngressesFromAWS), one          *)
(* goroutine per load balancer, each appending to the shared slice without *)
(* a lock.  Each sync then builds a new list from the cluster's ingresses  *)
(* (NewALBIngressesFromIngresses), carrying the load balancer of the entry *)
(* with the same ID (FindByID), deletes the load balancers of the entries  *)
(* that RemovedIngresses finds missing from the new list, creates or       *)
(* updates those of the new list, and keeps the new list.  An ingress      *)
(* whose annotations do not parse yields a nil ALBIngress, which is        *)
(* appended all the same; Find and FindByID dereference every entry they   *)
(* pass, so a lookup that reaches the nil entry panics and the process     *)
(* restarts.                                                               *)
(*                                                                         *)
(* An ingress, its ALBIngress and its load balancer are identified by the  *)
(* ingress ID; a list is the set of IDs of its non-nil entries and a flag  *)
(* for a nil entry.                                                        *)
(***************************************************************************)
EXTENDS Naturals, FiniteSets

CONSTANTS
    Ids,          \* ingress IDs (namespace/name) of this controller's class
    BadCapable,   \* the ingresses whose annotations a user may break
    MaxEdits,     \* bound on user operations on ingresses
    MaxCrashes    \* bound on process restarts other than panics

ASSUME ALBIngressesAssumption ==
    /\ BadCapable \subseteq Ids
    /\ MaxEdits \in Nat /\ MaxCrashes \in Nat

VARIABLES
    k8s,      \* ingresses in the cluster
    bad,      \* those of them whose annotations do not parse
    aws,      \* ingresses with a load balancer in AWS (ClusterLoadBalancers)
    known,    \* the controller's ALBIngresses: IDs of its non-nil entries
    hasNil,   \* the list holds a nil entry
    phase,    \* "assemble" (AssembleIngressesFromAWS running) or "run"
    asm,      \* the shared slice `ingresses` of AssembleIngressesFromAWS
    gpc,      \* gpc[l]: step of the goroutine for load balancer l
    local,    \* local[l]: the value of `ingresses` goroutine l read
    edits, crashes

vars == <<k8s, bad, aws, known, hasNil, phase, asm, gpc, local, edits, crashes>>

TypeOK ==
    /\ k8s \subseteq Ids /\ bad \subseteq k8s /\ aws \subseteq Ids
    /\ known \subseteq Ids /\ hasNil \in BOOLEAN
    /\ phase \in {"assemble", "run"}
    /\ asm \subseteq Ids
    /\ gpc \in [Ids -> {"read", "write", "done"}]
    /\ local \in [Ids -> SUBSET Ids]
    /\ edits \in 0..MaxEdits /\ crashes \in 0..MaxCrashes

-----------------------------------------------------------------------------
(* AssembleIngressesFromAWS starts one goroutine per load balancer of the *)
(* cluster (wg.Add(len(loadBalancers))).                                   *)
GoroutinesFor(lbs) == [l \in Ids |-> IF l \in lbs THEN "read" ELSE "done"]

NoReads == [l \in Ids |-> {}]

(* A new process, which assembles its list from AWS first.                 *)
StartAssembly ==
    /\ phase' = "assemble"
    /\ known' = {} /\ hasNil' = FALSE
    /\ asm' = {}
    /\ gpc' = GoroutinesFor(aws)
    /\ local' = NoReads

(* AWS and the cluster may hold anything when the process starts: load     *)
(* balancers of ingresses deleted while no controller ran, ingresses       *)
(* without a load balancer yet.                                            *)
Init ==
    /\ k8s \in SUBSET Ids /\ bad = {}
    /\ aws \in SUBSET Ids
    /\ phase = "assemble"
    /\ known = {} /\ hasNil = FALSE
    /\ asm = {}
    /\ gpc = GoroutinesFor(aws)
    /\ local = NoReads
    /\ edits = 0 /\ crashes = 0

(* `ingresses = append(ingresses, albIngress)` is a read of the shared     *)
(* slice header and a later write of it, by each goroutine, unlocked.      *)
GoRead(l) ==
    /\ gpc[l] = "read"
    /\ local' = [local EXCEPT ![l] = asm]
    /\ gpc' = [gpc EXCEPT ![l] = "write"]
    /\ UNCHANGED <<k8s, bad, aws, known, hasNil, phase, asm, edits, crashes>>

GoWrite(l) ==
    /\ gpc[l] = "write"
    /\ asm' = local[l] \cup {l}
    /\ gpc' = [gpc EXCEPT ![l] = "done"]
    /\ UNCHANGED <<k8s, bad, aws, known, hasNil, phase, local, edits, crashes>>

(* wg.Wait() returns; the assembled list becomes the controller's list.    *)
Assembled ==
    /\ phase = "assemble"
    /\ \A l \in Ids : gpc[l] = "done"
    /\ known' = asm
    /\ phase' = "run"
    /\ UNCHANGED <<k8s, bad, aws, hasNil, asm, gpc, local, edits, crashes>>

-----------------------------------------------------------------------------
(* NewALBIngressesFromIngresses: one entry per ingress, nil for an ingress *)
(* whose annotations do not parse.                                         *)
NewALBIngresses == k8s \ bad

(* Mutant: nil entries not appended, as the comment above the append says. *)
NewHasNilSkipped == FALSE

NewHasNil == k8s \cap bad # {}

(* RemovedIngresses: the entries of the old list that Find does not locate *)
(* in the new one (all carry a load balancer once a sync has run).         *)
RemovedIngresses(old, new) == {i \in old : i \notin new}

(* RemovedIngresses walks the whole old list and, at a nil entry, calls    *)
(* Find with it (dereferencing b.Id) or reads its LoadBalancer: a nil entry *)
(* in the old list always panics.  Find in the new list is certain to      *)
(* reach a nil entry there when it looks for a removed ID, and any lookup  *)
(* may reach it, depending on where in the list the nil entry sits.        *)
(* Mutant: only the lookups in the old list considered.                   *)
MustPanicOldListOnly == hasNil

MustPanic ==
    \/ hasNil
    \/ NewHasNil /\ known \ NewALBIngresses # {}

MayPanic ==
    \/ hasNil
    \/ NewHasNil /\ known # {}

(* A sync that does not panic: delete the load balancers of the removed    *)
(* entries, create or update those of the new list, keep the new list.     *)
Sync ==
    /\ phase = "run"
    /\ ~MustPanic
    /\ aws' = (aws \ RemovedIngresses(known, NewALBIngresses)) \cup NewALBIngresses
    /\ known' = NewALBIngresses
    /\ hasNil' = NewHasNil
    /\ UNCHANGED <<k8s, bad, phase, asm, gpc, local, edits, crashes>>

(* A lookup dereferences the nil entry: the process panics and restarts.   *)
SyncPanics ==
    /\ phase = "run"
    /\ MayPanic
    /\ StartAssembly
    /\ UNCHANGED <<k8s, bad, aws, edits, crashes>>

(* The process is killed or restarted at any point.                        *)
Crash ==
    /\ crashes < MaxCrashes
    /\ crashes' = crashes + 1
    /\ StartAssembly
    /\ UNCHANGED <<k8s, bad, aws, edits>>

-----------------------------------------------------------------------------
(* Users: create and delete ingresses, break and fix their annotations.    *)
UserEdit(k, b) ==
    /\ edits < MaxEdits
    /\ edits' = edits + 1
    /\ k8s' = k /\ bad' = b
    /\ UNCHANGED <<aws, known, hasNil, phase, asm, gpc, local, crashes>>

CreateIngress(i) == i \notin k8s /\ UserEdit(k8s \cup {i}, bad)

DeleteIngress(i) == i \in k8s /\ UserEdit(k8s \ {i}, bad \ {i})

BreakAnnotations(i) ==
    i \in (k8s \cap BadCapable) \ bad /\ UserEdit(k8s, bad \cup {i})

FixAnnotations(i) == i \in bad /\ UserEdit(k8s, bad \ {i})

Next ==
    \/ \E l \in Ids : GoRead(l) \/ GoWrite(l)
    \/ Assembled \/ Sync \/ SyncPanics \/ Crash
    \/ \E i \in Ids : CreateIngress(i) \/ DeleteIngress(i)
                      \/ BreakAnnotations(i) \/ FixAnnotations(i)

(* The goroutines run, wg.Wait returns and the sync loop runs again and    *)
(* again (resync period), whether it completes or panics: a sync over a   *)
(* list that must panic has no other outcome.  Users and crashes are not   *)
(* fair.                                                                   *)
Fairness ==
    /\ \A l \in Ids : WF_vars(GoRead(l)) /\ WF_vars(GoWrite(l))
    /\ WF_vars(Assembled) /\ WF_vars(Sync) /\ WF_vars(SyncPanics)

Spec == Init /\ [][Next]_vars

FairSpec == Spec /\ Fairness

-----------------------------------------------------------------------------
(* PROPERTIES                                                              *)

(* The controller implements the load balancer lifecycle: a sync creates  *)
(* load balancers only for ingresses in the cluster and deletes only those *)
(* of ingresses that are gone, not even one whose annotations stopped      *)
(* parsing (spec E5: a malformed annotation leaves the prior state         *)
(* unchanged).  For a valid ingress RemovedIngresses must locate, through  *)
(* Find, the entry NewALBIngressesFromIngresses rebuilt; for a broken one  *)
(* it only holds because the nil entry makes Find panic before anything is *)
(* deleted.                                                                *)
LB == INSTANCE LoadBalancerLifecycle WITH ingresses <- k8s, lbs <- aws

LoadBalancersRefined == LB!Spec

(* Every ingress with valid annotations eventually has a load balancer,    *)
(* once users stop editing.                                                *)
ValidEventuallyServed == <>[](k8s \ bad \subseteq aws)

(* Every load balancer whose ingress is gone is eventually deleted, even   *)
(* one whose ingress was deleted while no controller ran (spec 8.2: the    *)
(* state converges once changes stop).                                     *)
OrphansEventuallyDeleted == <>[](aws \subseteq k8s)

=============================================================================
