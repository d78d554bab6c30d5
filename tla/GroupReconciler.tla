--------------------------- MODULE GroupReconciler ---------------------------
(***************************************************************************)
(* The ingress group reconciler (src/unnamed/part_002, GroupReconciler)    *)
(* together with the parts of the cluster and of the cloud it acts on.     *)
(*                                                                         *)
(* One worker (MaxConcurrentReconciles: 1) takes a group ID from the work  *)
(* queue and runs Reconcile: Load the group, AddGroupFinalizer on its      *)
(* members, Build (and Marshal) the stack, Deploy it, Resolve the load     *)
(* balancer ARN, RemoveGroupFinalizer from the inactive members.  Every    *)
(* step may return an error, which ends the reconcile and requeues the     *)
(* group.  Users create, regroup and delete ingresses at any time; the     *)
(* controller may crash, losing its queue and the events sent while it is  *)
(* down, and on restart the informer's initial list enqueues the groups of *)
(* the ingresses that still exist.                                         *)
(*                                                                         *)
(* Data is abstracted to membership: the cloud state of a group is the set *)
(* of ingresses whose rules are deployed on its load balancer, plus        *)
(* whether the load balancer itself exists.                                *)
(***************************************************************************)
EXTENDS Naturals, FiniteSets

CONSTANTS
    Ing,          \* ingress objects (namespace/name), model values
    Groups,       \* ingress group IDs, model values
    NoGroup,      \* an ingress that belongs to no group of this controller
    MaxEdits,     \* bound on user operations on ingresses
    MaxFailures,  \* bound on transient API errors
    MaxCrashes    \* bound on controller crashes

ASSUME ConstantsAssumption ==
    /\ NoGroup \notin Groups
    /\ MaxEdits \in Nat /\ MaxFailures \in Nat /\ MaxCrashes \in Nat

VARIABLES
    \* cluster (API server) state of each ingress
    exists,      \* the object is present
    group,       \* the group its annotations / class put it in
    deleting,    \* its deletionTimestamp is set
    finalizers,  \* the group finalizers it carries
    \* cloud state
    cloud,       \* cloud[g]: ingresses whose rules are deployed for group g
    lb,          \* lb[g]: the load balancer of group g exists
    \* controller state
    up,          \* the controller process is running
    dirty,       \* group IDs waiting in the work queue
    pc,          \* step of the running reconcile, "idle" when none
    cur,         \* group ID being reconciled
    members,     \* group.Members as loaded
    inactive,    \* group.InactiveMembers as loaded
    \* bounds
    edits, failures, crashes

clusterVars == <<exists, group, deleting, finalizers>>
cloudVars   == <<cloud, lb>>
ctrlVars    == <<up, dirty, pc, cur, members, inactive>>
boundVars   == <<edits, failures, crashes>>
vars == <<clusterVars, cloudVars, ctrlVars, boundVars>>

Steps == {"idle", "load", "addFin", "build", "deploy", "resolve", "removeFin"}

TypeOK ==
    /\ exists \in [Ing -> BOOLEAN]
    /\ group \in [Ing -> Groups \cup {NoGroup}]
    /\ deleting \in [Ing -> BOOLEAN]
    /\ finalizers \in [Ing -> SUBSET Groups]
    /\ cloud \in [Groups -> SUBSET Ing]
    /\ lb \in [Groups -> BOOLEAN]
    /\ up \in BOOLEAN
    /\ dirty \in SUBSET Groups
    /\ pc \in Steps
    /\ cur \in Groups
    /\ members \in SUBSET Ing
    /\ inactive \in SUBSET Ing
    /\ edits \in 0..MaxEdits
    /\ failures \in 0..MaxFailures
    /\ crashes \in 0..MaxCrashes

-----------------------------------------------------------------------------
(* Group loader: the active members of g, and the ones that still carry    *)
(* g's finalizer without being active (left the group, or being deleted).  *)
Active(g, i) == exists[i] /\ group[i] = g /\ ~deleting[i]

Inactive(g, i) == exists[i] /\ g \in finalizers[i] /\ ~Active(g, i)

(* Groups an event on ingress i concerns: its group before and after the   *)
(* change, and the groups whose finalizer it carries.                      *)
Affected(i, newGroup) ==
    ({group[i], newGroup} \cap Groups) \cup finalizers[i]

(* The event handler enqueues; events sent while the controller is down    *)
(* are lost.                                                               *)
Enqueue(S) == dirty' = IF up THEN dirty \cup S ELSE dirty

(* The object as the API server leaves it once its last finalizer is gone  *)
(* while it is being deleted.                                              *)
Removed(i) ==
    /\ exists' = [exists EXCEPT ![i] = FALSE]
    /\ group' = [group EXCEPT ![i] = NoGroup]
    /\ deleting' = [deleting EXCEPT ![i] = FALSE]
    /\ finalizers' = [finalizers EXCEPT ![i] = {}]

(* Mutant: an error is dropped instead of requeued.                       *)
EndWithErrorNoRequeue ==
    /\ pc' = "idle"
    /\ UNCHANGED <<dirty, cur, members, inactive>>

(* A reconcile that returns an error: the group is requeued with backoff.  *)
EndWithError ==
    /\ pc' = "idle"
    /\ dirty' = dirty \cup {cur}
    /\ UNCHANGED <<cur, members, inactive>>

-----------------------------------------------------------------------------
Init ==
    /\ exists = [i \in Ing |-> FALSE]
    /\ group = [i \in Ing |-> NoGroup]
    /\ deleting = [i \in Ing |-> FALSE]
    /\ finalizers = [i \in Ing |-> {}]
    /\ cloud = [g \in Groups |-> {}]
    /\ lb = [g \in Groups |-> FALSE]
    /\ up = TRUE
    /\ dirty = {}
    /\ pc = "idle"
    /\ cur \in Groups
    /\ members = {}
    /\ inactive = {}
    /\ edits = 0 /\ failures = 0 /\ crashes = 0

-----------------------------------------------------------------------------
(* User actions on the cluster.                                            *)

CreateIngress(i, g) ==
    /\ edits < MaxEdits
    /\ ~exists[i]
    /\ exists' = [exists EXCEPT ![i] = TRUE]
    /\ group' = [group EXCEPT ![i] = g]
    /\ UNCHANGED <<deleting, finalizers>>
    /\ Enqueue(Affected(i, g))
    /\ edits' = edits + 1
    /\ UNCHANGED <<cloudVars, up, pc, cur, members, inactive, failures, crashes>>

SetGroup(i, g) ==
    /\ edits < MaxEdits
    /\ exists[i]
    /\ group[i] # g
    /\ group' = [group EXCEPT ![i] = g]
    /\ UNCHANGED <<exists, deleting, finalizers>>
    /\ Enqueue(Affected(i, g))
    /\ edits' = edits + 1
    /\ UNCHANGED <<cloudVars, up, pc, cur, members, inactive, failures, crashes>>

(* A delete of an object without finalizers removes it at once; otherwise  *)
(* it only sets the deletionTimestamp.                                     *)
DeleteIngress(i) ==
    /\ edits < MaxEdits
    /\ exists[i]
    /\ ~deleting[i]
    /\ IF finalizers[i] = {}
         THEN Removed(i)
         ELSE /\ deleting' = [deleting EXCEPT ![i] = TRUE]
              /\ UNCHANGED <<exists, group, finalizers>>
    /\ Enqueue(Affected(i, group[i]))
    /\ edits' = edits + 1
    /\ UNCHANGED <<cloudVars, up, pc, cur, members, inactive, failures, crashes>>

-----------------------------------------------------------------------------
(* The worker and the steps of Reconcile.                                  *)

(* processNextWorkItem: take a group ID off the queue.                     *)
Dequeue(g) ==
    /\ up
    /\ pc = "idle"
    /\ g \in dirty
    /\ dirty' = dirty \ {g}
    /\ cur' = g
    /\ pc' = "load"
    /\ UNCHANGED <<clusterVars, cloudVars, up, members, inactive, boundVars>>

(* r.groupLoader.Load(ctx, groupID)                                        *)
Load ==
    /\ pc = "load"
    /\ members' = {i \in Ing : Active(cur, i)}
    /\ inactive' = {i \in Ing : Inactive(cur, i)}
    /\ pc' = "addFin"
    /\ UNCHANGED <<clusterVars, cloudVars, up, dirty, cur, boundVars>>

(* A transient API error in the step at pc.                                *)
StepFails ==
    /\ pc \in {"load", "build"}
    /\ failures < MaxFailures
    /\ failures' = failures + 1
    /\ EndWithError
    /\ UNCHANGED <<clusterVars, cloudVars, up, edits, crashes>>

(* The members still lacking g's finalizer, and those of them the API      *)
(* server accepts one for: it exists and is not being deleted.             *)
NeedFinalizer == {i \in members : cur \notin finalizers[i]}

Addable == {i \in NeedFinalizer : exists[i] /\ ~deleting[i]}

(* Mutant: the finalizer named after each member's own group annotation   *)
(* instead of the group being reconciled.                                 *)
WithFinalizerOfOwnGroup(S) ==
    [i \in Ing |-> IF i \in S THEN finalizers[i] \cup {group[i]} ELSE finalizers[i]]

WithFinalizer(S) ==
    [i \in Ing |-> IF i \in S THEN finalizers[i] \cup {cur} ELSE finalizers[i]]

(* r.finalizerManager.AddGroupFinalizer(ctx, groupID, group.Members...)    *)
AddGroupFinalizer ==
    /\ pc = "addFin"
    /\ NeedFinalizer = Addable
    /\ finalizers' = WithFinalizer(NeedFinalizer)
    /\ pc' = "build"
    /\ UNCHANGED <<exists, group, deleting, cloudVars, up, dirty, cur,
                   members, inactive, boundVars>>

(* The patch is refused for a member deleted since Load (not found, or     *)
(* being deleted), or fails transiently, after some patches went through.  *)
AddGroupFinalizerFails ==
    /\ pc = "addFin"
    /\ \/ /\ NeedFinalizer # Addable
          /\ UNCHANGED failures
       \/ /\ failures < MaxFailures
          /\ failures' = failures + 1
    /\ \E S \in SUBSET Addable : finalizers' = WithFinalizer(S)
    /\ EndWithError
    /\ UNCHANGED <<exists, group, deleting, cloudVars, up, edits, crashes>>

(* r.modelBuilder.Build and r.stackMarshaller.Marshal: the stack holds the *)
(* rules of exactly the loaded members.                                    *)
Build ==
    /\ pc = "build"
    /\ pc' = "deploy"
    /\ UNCHANGED <<clusterVars, cloudVars, up, dirty, cur, members, inactive,
                   boundVars>>

(* r.stackDeployer.Deploy(ctx, stack)                                      *)
Deploy ==
    /\ pc = "deploy"
    /\ cloud' = [cloud EXCEPT ![cur] = members]
    /\ lb' = [lb EXCEPT ![cur] = (members # {})]
    /\ pc' = "resolve"
    /\ UNCHANGED <<clusterVars, up, dirty, cur, members, inactive, boundVars>>

(* A failed action aborts the deploy; committed actions stand.  Each rule  *)
(* set is either already changed or not; the load balancer is created      *)
(* before any rule and deleted after all of them.                          *)
DeployFails ==
    /\ pc = "deploy"
    /\ failures < MaxFailures
    /\ failures' = failures + 1
    /\ \E S \in SUBSET (cloud[cur] \cup members), l \in {lb[cur], members # {}} :
          /\ cloud[cur] \cap members \subseteq S
          /\ S # {} => l
          /\ cloud' = [cloud EXCEPT ![cur] = S]
          /\ lb' = [lb EXCEPT ![cur] = l]
    /\ EndWithError
    /\ UNCHANGED <<clusterVars, up, edits, crashes>>

(* lb.LoadBalancerARN().Resolve(ctx): only a stack with a load balancer    *)
(* has an ARN to resolve.                                                  *)
ResolveLB ==
    /\ pc = "resolve"
    /\ members # {}
    /\ pc' = "removeFin"
    /\ UNCHANGED <<clusterVars, cloudVars, up, dirty, cur, members, inactive,
                   boundVars>>

ResolveLBFails ==
    /\ pc = "resolve"
    /\ members = {}
    /\ EndWithError
    /\ UNCHANGED <<clusterVars, cloudVars, up, boundVars>>

(* Drop g's finalizer from the ingresses in S; one left with no finalizer  *)
(* while being deleted is removed by the API server.                       *)
ReleaseFinalizers(S) ==
    LET fin == [i \in Ing |-> IF i \in S THEN finalizers[i] \ {cur}
                                         ELSE finalizers[i]]
        gone == {i \in Ing : deleting[i] /\ fin[i] = {}}
    IN  /\ finalizers' = [i \in Ing |-> IF i \in gone THEN {} ELSE fin[i]]
        /\ exists' = [i \in Ing |-> exists[i] /\ i \notin gone]
        /\ group' = [i \in Ing |-> IF i \in gone THEN NoGroup ELSE group[i]]
        /\ deleting' = [i \in Ing |-> deleting[i] /\ i \notin gone]

(* Mutant: the finalizer removed from group.Members as well.              *)
RemoveGroupFinalizerOfMembers ==
    /\ pc = "removeFin"
    /\ ReleaseFinalizers(inactive \cup members)
    /\ pc' = "idle"
    /\ UNCHANGED <<cloudVars, up, dirty, cur, members, inactive, boundVars>>

(* r.finalizerManager.RemoveGroupFinalizer(ctx, groupID,                   *)
(* group.InactiveMembers...), then the reconcile returns success.          *)
RemoveGroupFinalizer ==
    /\ pc = "removeFin"
    /\ ReleaseFinalizers(inactive)
    /\ pc' = "idle"
    /\ UNCHANGED <<cloudVars, up, dirty, cur, members, inactive, boundVars>>

RemoveGroupFinalizerFails ==
    /\ pc = "removeFin"
    /\ failures < MaxFailures
    /\ failures' = failures + 1
    /\ \E S \in SUBSET inactive : ReleaseFinalizers(S)
    /\ EndWithError
    /\ UNCHANGED <<cloudVars, up, edits, crashes>>

-----------------------------------------------------------------------------
(* Crash and restart of the controller process.                            *)

Crash ==
    /\ up
    /\ crashes < MaxCrashes
    /\ crashes' = crashes + 1
    /\ up' = FALSE
    /\ dirty' = {}
    /\ pc' = "idle"
    /\ UNCHANGED <<clusterVars, cloudVars, cur, members, inactive, edits, failures>>

(* The informer's initial list sends an add event for every ingress.       *)
Restart ==
    /\ ~up
    /\ up' = TRUE
    /\ dirty' = UNION {Affected(i, group[i]) : i \in {j \in Ing : exists[j]}}
    /\ UNCHANGED <<clusterVars, cloudVars, pc, cur, members, inactive, boundVars>>

-----------------------------------------------------------------------------
User ==
    \/ \E i \in Ing, g \in Groups \cup {NoGroup} : CreateIngress(i, g) \/ SetGroup(i, g)
    \/ \E i \in Ing : DeleteIngress(i)

Controller ==
    \/ \E g \in Groups : Dequeue(g)
    \/ Load \/ AddGroupFinalizer \/ Build \/ Deploy \/ ResolveLB
    \/ RemoveGroupFinalizer

Faults ==
    \/ StepFails \/ AddGroupFinalizerFails \/ DeployFails
    \/ ResolveLBFails \/ RemoveGroupFinalizerFails
    \/ Crash \/ Restart

Next == User \/ Controller \/ Faults

(* The worker runs each step it can run, and a crashed controller is       *)
(* restarted.  Users and faults are not fair.  ResolveLBFails is the       *)
(* only outcome of a resolve with an empty stack, so it is fair as well.   *)
Fairness ==
    /\ \A g \in Groups : WF_vars(Dequeue(g))
    /\ WF_vars(Load) /\ WF_vars(AddGroupFinalizer) /\ WF_vars(Build)
    /\ WF_vars(Deploy) /\ WF_vars(ResolveLB) /\ WF_vars(ResolveLBFails)
    /\ WF_vars(RemoveGroupFinalizer) /\ WF_vars(Restart)
    /\ WF_vars(AddGroupFinalizerFails /\ NeedFinalizer # Addable)

Spec == Init /\ [][Next]_vars

FairSpec == Spec /\ Fairness

-----------------------------------------------------------------------------
(* PROPERTIES                                                              *)

(* Finalizer safety: the rules of an ingress are deployed for group g only *)
(* while the ingress exists and carries g's finalizer, and g's load        *)
(* balancer exists only while some ingress carries g's finalizer.  Else a  *)
(* delete of the ingress while the controller is down leaves cloud         *)
(* resources nobody will reclaim.  It rests on AddGroupFinalizer running   *)
(* before Deploy and RemoveGroupFinalizer touching only members the        *)
(* finished deploy left out.                                               *)
NoOrphanRules ==
    \A g \in Groups, i \in Ing : i \in cloud[g] => exists[i] /\ g \in finalizers[i]

NoOrphanLoadBalancer ==
    \A g \in Groups : lb[g] => \E i \in Ing : exists[i] /\ g \in finalizers[i]

NoOrphan == NoOrphanRules /\ NoOrphanLoadBalancer

(* The inductive strengthening of TypeOK /\ NoOrphan that the proof in     *)
(* GroupReconcilerProofs uses.  Once AddGroupFinalizer has succeeded, every *)
(* loaded member exists and holds the finalizer (a deleted member keeps it  *)
(* until the controller drops it); the loaded members and inactive members  *)
(* are disjoint, so RemoveGroupFinalizer never strips a deployed member;    *)
(* after Deploy the group's rules are exactly the loaded members, and       *)
(* RemoveGroupFinalizer only runs for a non-empty group, whose load         *)
(* balancer some member therefore holds.  An object that is gone holds no   *)
(* finalizer.                                                              *)
MembersHoldFinalizer ==
    pc \in {"build", "deploy", "resolve", "removeFin"} =>
        \A i \in members : exists[i] /\ cur \in finalizers[i]

MembersNotInactive ==
    pc \notin {"idle", "load"} => members \cap inactive = {}

DeployedIsMembers ==
    pc \in {"resolve", "removeFin"} => cloud[cur] = members

ReleaseOnlyNonEmpty ==
    pc = "removeFin" => members # {}

GoneHoldsNothing ==
    \A i \in Ing : ~exists[i] => finalizers[i] = {}

IInv ==
    /\ TypeOK
    /\ NoOrphan
    /\ MembersHoldFinalizer
    /\ MembersNotInactive
    /\ DeployedIsMembers
    /\ ReleaseOnlyNonEmpty
    /\ GoneHoldsNothing

(* Convergence: once users stop, every group's deployed rules are its      *)
(* active members and its load balancer exists iff it has some, despite    *)
(* errors, partial deploys and crashes (Reconcile requeues on error).      *)
Converged ==
    \A g \in Groups : cloud[g] = {i \in Ing : Active(g, i)} /\ lb[g] = (cloud[g] # {})

CloudConverges == <>[]Converged

(* Teardown (spec 4.8, 8): an ingress being deleted is eventually released *)
(* by the controller and disappears from the cluster.                      *)
DeletedIngressReleased ==
    \A i \in Ing : deleting[i] ~> ~exists[i]

=============================================================================
