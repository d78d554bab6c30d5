-------------------------- MODULE ALBIngressesProofs --------------------------
(***************************************************************************)
(* Proofs about the v1 ingress list model: type correctness, and that the  *)
(* controller implements the load balancer lifecycle for every set of      *)
(* ingresses and every bound.                                              *)
(***************************************************************************)
EXTENDS ALBIngresses, TLAPS

(* Every step keeps the state well typed: the goroutines' reads and writes *)
(* stay within the cluster's load balancers, user edits within Ids.        *)
LEMMA TypeInductive == TypeOK /\ [Next]_vars => TypeOK'
<1> SUFFICES ASSUME TypeOK, [Next]_vars PROVE TypeOK'
  OBVIOUS
<1> USE ALBIngressesAssumption DEF TypeOK
<1>1. ASSUME NEW l \in Ids, GoRead(l) PROVE TypeOK'
  BY <1>1 DEF GoRead
<1>2. ASSUME NEW l \in Ids, GoWrite(l) PROVE TypeOK'
  BY <1>2 DEF GoWrite
<1>3. CASE Assembled
  BY <1>3 DEF Assembled
<1>4. CASE Sync
  BY <1>4 DEF Sync, NewALBIngresses, NewHasNil, RemovedIngresses
<1>5. CASE SyncPanics
  BY <1>5 DEF SyncPanics, StartAssembly, GoroutinesFor, NoReads
<1>6. CASE Crash
  <2>1. crashes' \in 0..MaxCrashes
    BY <1>6 DEF Crash
  <2>2. gpc' \in [Ids -> {"read", "write", "done"}] /\ local' \in [Ids -> SUBSET Ids]
    BY <1>6 DEF Crash, StartAssembly, GoroutinesFor, NoReads
  <2>3. QED
    BY <1>6, <2>1, <2>2 DEF Crash, StartAssembly
<1>7. ASSUME NEW i \in Ids, CreateIngress(i) PROVE TypeOK'
  BY <1>7 DEF CreateIngress, UserEdit
<1>8. ASSUME NEW i \in Ids, DeleteIngress(i) PROVE TypeOK'
  BY <1>8 DEF DeleteIngress, UserEdit
<1>9. ASSUME NEW i \in Ids, BreakAnnotations(i) PROVE TypeOK'
  BY <1>9 DEF BreakAnnotations, UserEdit
<1>10. ASSUME NEW i \in Ids, FixAnnotations(i) PROVE TypeOK'
  BY <1>10 DEF FixAnnotations, UserEdit
<1>11. CASE UNCHANGED vars
  BY <1>11 DEF vars
<1>12. QED
  BY <1>1, <1>2, <1>3, <1>4, <1>5, <1>6, <1>7, <1>8, <1>9, <1>10, <1>11
     DEF Next

(* The model of the ingress list is well typed in every reachable state.   *)
THEOREM TypeCorrect == Spec => []TypeOK
<1>1. Init => TypeOK
  <2> SUFFICES ASSUME Init PROVE TypeOK
    OBVIOUS
  <2>1. gpc \in [Ids -> {"read", "write", "done"}] /\ local \in [Ids -> SUBSET Ids]
    BY DEF Init, GoroutinesFor, NoReads
  <2>2. edits \in 0..MaxEdits /\ crashes \in 0..MaxCrashes
    BY ALBIngressesAssumption DEF Init
  <2>3. QED
    BY <2>1, <2>2 DEF Init, TypeOK
<1>2. QED
  BY <1>1, TypeInductive, PTL DEF Spec

(* A sync that does not panic deletes no load balancer of an ingress still *)
(* in the cluster: such an ingress missing from the new list has bad       *)
(* annotations, so the new list holds a nil entry that Find in it reaches. *)
LEMMA SyncDeletesOnlyGone ==
    ASSUME Sync
    PROVE  RemovedIngresses(known, NewALBIngresses) \cap k8s = {}
BY DEF Sync, MustPanic, NewHasNil, NewALBIngresses, RemovedIngresses

(* Every step of the controller is a step of the load balancer lifecycle   *)
(* or leaves the cluster and the load balancers as they are.               *)
LEMMA StepRefines == TypeOK /\ [Next]_vars => [LB!Next]_<<k8s, aws>>
<1> SUFFICES ASSUME TypeOK, [Next]_vars PROVE [LB!Next]_<<k8s, aws>>
  OBVIOUS
<1>1. CASE Sync
  <2> DEFINE create == NewALBIngresses
             delete == RemovedIngresses(known, NewALBIngresses) \cap aws
  <2>1. create \in SUBSET k8s /\ delete \in SUBSET (aws \ k8s)
    BY <1>1, SyncDeletesOnlyGone DEF NewALBIngresses
  <2>2. aws' = (aws \ delete) \cup create /\ UNCHANGED k8s
    BY <1>1 DEF Sync, RemovedIngresses, NewALBIngresses
  <2>3. QED
    BY <2>1, <2>2 DEF LB!Next, LB!Reconcile
<1>2. ASSUME NEW i \in Ids,
             CreateIngress(i) \/ DeleteIngress(i)
             \/ BreakAnnotations(i) \/ FixAnnotations(i)
      PROVE  [LB!Next]_<<k8s, aws>>
  BY <1>2 DEF TypeOK, CreateIngress, DeleteIngress, BreakAnnotations,
             FixAnnotations, UserEdit, LB!Next, LB!ChangeIngresses
<1>3. CASE \/ \E l \in Ids : GoRead(l) \/ GoWrite(l)
           \/ Assembled \/ SyncPanics \/ Crash \/ UNCHANGED vars
  BY <1>3 DEF GoRead, GoWrite, Assembled, SyncPanics, Crash, vars
<1>4. QED
  BY <1>1, <1>2, <1>3 DEF Next

(* The controller implements LoadBalancerLifecycle under the mapping       *)
(* ingresses <- k8s, lbs <- aws: whatever its restarts, its racing         *)
(* goroutines and its nil entries do, it never creates a load balancer for *)
(* an ingress outside the cluster and never deletes one of an ingress in   *)
(* it.                                                                     *)
THEOREM Refinement == Spec => LoadBalancersRefined
<1>1. Init => LB!Init
  BY DEF Init, LB!Init
<1>2. QED
  BY <1>1, TypeCorrect, StepRefines, PTL
     DEF Spec, LoadBalancersRefined, LB!Spec

=============================================================================
