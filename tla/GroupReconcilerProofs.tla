------------------------ MODULE GroupReconcilerProofs ------------------------
(***************************************************************************)
(* Proofs about the group reconciler, for every set of ingresses and       *)
(* groups and every bound: type correctness, and finalizer safety          *)
(* (NoOrphan) through the inductive invariant IInv.                        *)
(***************************************************************************)
EXTENDS GroupReconciler, TLAPS

(* Every step of the controller, the users and the faults keeps each       *)
(* variable in its type: finalizers and queue entries are always group IDs *)
(* of this controller and the bounded counters stay within their bounds.   *)
LEMMA TypeInductive == TypeOK /\ [Next]_vars => TypeOK'
<1> SUFFICES ASSUME TypeOK, [Next]_vars PROVE TypeOK'
    OBVIOUS
<1> USE ConstantsAssumption DEF TypeOK, Steps, clusterVars, cloudVars, boundVars
<1>1. ASSUME NEW i \in Ing, NEW g \in Groups \cup {NoGroup}, CreateIngress(i, g)
      PROVE TypeOK'
    BY <1>1 DEF CreateIngress, Enqueue, Affected
<1>2. ASSUME NEW i \in Ing, NEW g \in Groups \cup {NoGroup}, SetGroup(i, g)
      PROVE TypeOK'
    BY <1>2 DEF SetGroup, Enqueue, Affected
<1>3. ASSUME NEW i \in Ing, DeleteIngress(i) PROVE TypeOK'
    <2>1. /\ dirty' \in SUBSET Groups
          /\ edits' \in 0..MaxEdits
          /\ UNCHANGED <<cloud, lb, up, pc, cur, members, inactive, failures, crashes>>
        BY <1>3 DEF DeleteIngress, Enqueue, Affected
    <2>2. CASE finalizers[i] = {}
        <3>1. Removed(i)
            BY <1>3, <2>2 DEF DeleteIngress
        <3> QED
            BY <2>1, <3>1 DEF Removed
    <2>3. CASE finalizers[i] # {}
        <3>1. /\ deleting' = [deleting EXCEPT ![i] = TRUE]
              /\ UNCHANGED <<exists, group, finalizers>>
            BY <1>3, <2>3 DEF DeleteIngress
        <3> QED
            BY <2>1, <3>1
    <2> QED
        BY <2>2, <2>3
<1>4. ASSUME NEW g \in Groups, Dequeue(g) PROVE TypeOK'
    BY <1>4 DEF Dequeue
<1>5. CASE Load
    BY <1>5 DEF Load
<1>6. CASE AddGroupFinalizer
    BY <1>6 DEF AddGroupFinalizer, WithFinalizer
<1>7. CASE Build
    BY <1>7 DEF Build
<1>8. CASE Deploy
    BY <1>8 DEF Deploy
<1>9. CASE ResolveLB
    BY <1>9 DEF ResolveLB
<1>10. CASE RemoveGroupFinalizer
    BY <1>10 DEF RemoveGroupFinalizer, ReleaseFinalizers
<1>11. CASE StepFails
    BY <1>11 DEF StepFails, EndWithError
<1>12. CASE AddGroupFinalizerFails
    BY <1>12 DEF AddGroupFinalizerFails, WithFinalizer, EndWithError
<1>13. CASE DeployFails
    <2>1. PICK S \in SUBSET (cloud[cur] \cup members), l \in {lb[cur], members # {}} :
                /\ cloud' = [cloud EXCEPT ![cur] = S]
                /\ lb' = [lb EXCEPT ![cur] = l]
        BY <1>13 DEF DeployFails
    <2>2. cloud' \in [Groups -> SUBSET Ing] /\ lb' \in [Groups -> BOOLEAN]
        BY <2>1
    <2>3. /\ pc' = "idle" /\ dirty' = dirty \cup {cur} /\ failures' = failures + 1
          /\ failures < MaxFailures
          /\ UNCHANGED <<exists, group, deleting, finalizers, up, cur, members,
                         inactive, edits, crashes>>
        BY <1>13 DEF DeployFails, EndWithError
    <2> QED
        BY <2>2, <2>3
<1>14. CASE ResolveLBFails
    BY <1>14 DEF ResolveLBFails, EndWithError
<1>15. CASE RemoveGroupFinalizerFails
    BY <1>15 DEF RemoveGroupFinalizerFails, ReleaseFinalizers, EndWithError
<1>16. CASE Crash
    <2>1. UNCHANGED <<exists, group, deleting, finalizers, cloud, lb, cur, members, inactive, edits, failures>>
        BY <1>16 DEF Crash
    <2>2. crashes' \in 0..MaxCrashes
        BY <1>16 DEF Crash
    <2>3. up' \in BOOLEAN /\ dirty' \in SUBSET Groups /\ pc' \in Steps
        BY <1>16 DEF Crash
    <2> QED
        BY <2>1, <2>2, <2>3
<1>17. CASE Restart
    <2>1. \A j \in Ing : Affected(j, group[j]) \subseteq Groups
        BY DEF Affected
    <2>2. dirty' \in SUBSET Groups
        BY <1>17, <2>1 DEF Restart
    <2> QED
        BY <1>17, <2>2 DEF Restart
<1>18. CASE UNCHANGED vars
    BY <1>18 DEF vars, clusterVars, cloudVars, ctrlVars, boundVars
<1> QED
    BY <1>1, <1>2, <1>3, <1>4, <1>5, <1>6, <1>7, <1>8, <1>9, <1>10, <1>11,
       <1>12, <1>13, <1>14, <1>15, <1>16, <1>17, <1>18
    DEF Next, User, Controller, Faults

-----------------------------------------------------------------------------
(* RemoveGroupFinalizer drops the group's finalizer only from members the  *)
(* loader found inactive.  Because the deployed rules of the group are     *)
(* exactly the loaded members, disjoint from the inactive ones, no object  *)
(* whose rules stay deployed loses its finalizer or is removed, and the     *)
(* group's load balancer keeps a member as holder.                         *)
LEMMA ReleaseSafe ==
    ASSUME IInv, pc = "removeFin", NEW S \in SUBSET inactive,
           ReleaseFinalizers(S),
           UNCHANGED <<cloud, lb, cur, members, inactive>>
    PROVE  NoOrphan' /\ GoneHoldsNothing'
<1> DEFINE fin == [i \in Ing |-> IF i \in S THEN finalizers[i] \ {cur}
                                            ELSE finalizers[i]]
           gone == {i \in Ing : deleting[i] /\ fin[i] = {}}
<1>1. /\ finalizers' = [i \in Ing |-> IF i \in gone THEN {} ELSE fin[i]]
      /\ exists' = [i \in Ing |-> exists[i] /\ i \notin gone]
    BY DEF ReleaseFinalizers
<1>2. \A i \in members : exists[i] /\ cur \in finalizers[i] /\ i \notin S
    BY DEF IInv, MembersHoldFinalizer, MembersNotInactive
<1>3. \A i \in members : exists'[i] /\ cur \in finalizers'[i]
    BY <1>1, <1>2 DEF IInv, TypeOK
<1>4. \A i \in Ing, g \in Groups : g # cur /\ exists[i] /\ g \in finalizers[i]
          => exists'[i] /\ g \in finalizers'[i]
    BY <1>1 DEF IInv, TypeOK
<1>5. NoOrphanRules'
    <2> SUFFICES ASSUME NEW g \in Groups, NEW i \in Ing, i \in cloud'[g]
                 PROVE  exists'[i] /\ g \in finalizers'[i]
        BY DEF NoOrphanRules
    <2>1. CASE g = cur
        BY <2>1, <1>3 DEF IInv, DeployedIsMembers
    <2>2. CASE g # cur
        BY <2>2, <1>4 DEF IInv, NoOrphan, NoOrphanRules
    <2> QED
        BY <2>1, <2>2
<1>6. NoOrphanLoadBalancer'
    <2> SUFFICES ASSUME NEW g \in Groups, lb'[g]
                 PROVE  \E i \in Ing : exists'[i] /\ g \in finalizers'[i]
        BY DEF NoOrphanLoadBalancer
    <2>1. CASE g = cur
        <3>1. PICK i \in members : TRUE
            BY DEF IInv, ReleaseOnlyNonEmpty
        <3> QED
            BY <2>1, <3>1, <1>3 DEF IInv, TypeOK
    <2>2. CASE g # cur
        BY <2>2, <1>4 DEF IInv, NoOrphan, NoOrphanLoadBalancer
    <2> QED
        BY <2>1, <2>2
<1>7. GoneHoldsNothing'
    BY <1>1 DEF IInv, GoneHoldsNothing, TypeOK
<1> QED
    BY <1>5, <1>6, <1>7 DEF NoOrphan

-----------------------------------------------------------------------------
(* The strengthened finalizer-safety invariant IInv is kept by every step.  *)
LEMMA IInvInductive == IInv /\ [Next]_vars => IInv'
<1> SUFFICES ASSUME IInv, [Next]_vars PROVE IInv'
    OBVIOUS
<1>0. TypeOK'
    BY TypeInductive DEF IInv
<1> DEFINE Rest == /\ MembersHoldFinalizer /\ MembersNotInactive
                   /\ DeployedIsMembers /\ ReleaseOnlyNonEmpty
<1> SUFFICES NoOrphan' /\ Rest' /\ GoneHoldsNothing'
    BY <1>0 DEF IInv
<1> USE DEF IInv, TypeOK, clusterVars, cloudVars, boundVars
<1> HIDE DEF TypeOK
<1>1. ASSUME NEW i \in Ing, NEW g \in Groups \cup {NoGroup}, CreateIngress(i, g)
      PROVE  NoOrphan' /\ Rest' /\ GoneHoldsNothing'
    BY <1>1 DEF CreateIngress, NoOrphan, NoOrphanRules, NoOrphanLoadBalancer,
       MembersHoldFinalizer, MembersNotInactive, DeployedIsMembers,
       ReleaseOnlyNonEmpty, GoneHoldsNothing, TypeOK
<1>2. ASSUME NEW i \in Ing, NEW g \in Groups \cup {NoGroup}, SetGroup(i, g)
      PROVE  NoOrphan' /\ Rest' /\ GoneHoldsNothing'
    BY <1>2 DEF SetGroup, NoOrphan, NoOrphanRules, NoOrphanLoadBalancer,
       MembersHoldFinalizer, MembersNotInactive, DeployedIsMembers,
       ReleaseOnlyNonEmpty, GoneHoldsNothing
<1>3. ASSUME NEW i \in Ing, DeleteIngress(i) PROVE NoOrphan' /\ Rest' /\ GoneHoldsNothing'
    <2>1. CASE finalizers[i] = {}
        <3>1. Removed(i) /\ UNCHANGED <<cloud, lb, pc, cur, members, inactive>>
            BY <1>3, <2>1 DEF DeleteIngress
        <3>2. \A g \in Groups : i \notin cloud[g]
            BY <2>1 DEF NoOrphan, NoOrphanRules
        <3> QED
            BY <2>1, <3>1, <3>2 DEF Removed, TypeOK, NoOrphan, NoOrphanRules, NoOrphanLoadBalancer,
       MembersHoldFinalizer, MembersNotInactive, DeployedIsMembers,
       ReleaseOnlyNonEmpty, GoneHoldsNothing
    <2>2. CASE finalizers[i] # {}
        <3>1. UNCHANGED <<exists, finalizers, cloud, lb, pc, cur, members, inactive>>
            BY <1>3, <2>2 DEF DeleteIngress
        <3> QED
            BY <3>1 DEF NoOrphan, NoOrphanRules, NoOrphanLoadBalancer,
       MembersHoldFinalizer, MembersNotInactive, DeployedIsMembers,
       ReleaseOnlyNonEmpty, GoneHoldsNothing
    <2> QED
        BY <2>1, <2>2
<1>4. ASSUME NEW g \in Groups, Dequeue(g) PROVE NoOrphan' /\ Rest' /\ GoneHoldsNothing'
    BY <1>4 DEF Dequeue, NoOrphan, NoOrphanRules, NoOrphanLoadBalancer,
       MembersHoldFinalizer, MembersNotInactive, DeployedIsMembers,
       ReleaseOnlyNonEmpty, GoneHoldsNothing
<1>5. CASE Load
    BY <1>5 DEF Load, Active, Inactive, NoOrphan, NoOrphanRules, NoOrphanLoadBalancer,
       MembersHoldFinalizer, MembersNotInactive, DeployedIsMembers,
       ReleaseOnlyNonEmpty, GoneHoldsNothing
<1>6. CASE AddGroupFinalizer
    <2>1. \A i \in members : exists[i] /\ cur \in finalizers'[i]
        BY <1>6 DEF AddGroupFinalizer, WithFinalizer, NeedFinalizer, Addable,
           GoneHoldsNothing, TypeOK
    <2>2. \A i \in Ing : finalizers[i] \subseteq finalizers'[i]
                        /\ (finalizers'[i] # finalizers[i] => exists[i])
        BY <1>6 DEF AddGroupFinalizer, WithFinalizer, NeedFinalizer, Addable, TypeOK
    <2> QED
        BY <1>6, <2>1, <2>2 DEF AddGroupFinalizer, NoOrphan, NoOrphanRules, NoOrphanLoadBalancer,
       MembersHoldFinalizer, MembersNotInactive, DeployedIsMembers,
       ReleaseOnlyNonEmpty, GoneHoldsNothing
<1>7. CASE Build
    BY <1>7 DEF Build, NoOrphan, NoOrphanRules, NoOrphanLoadBalancer,
       MembersHoldFinalizer, MembersNotInactive, DeployedIsMembers,
       ReleaseOnlyNonEmpty, GoneHoldsNothing
<1>8. CASE Deploy
    BY <1>8 DEF Deploy, NoOrphan, NoOrphanRules, NoOrphanLoadBalancer,
       MembersHoldFinalizer, MembersNotInactive, DeployedIsMembers,
       ReleaseOnlyNonEmpty, GoneHoldsNothing, TypeOK
<1>9. CASE ResolveLB
    BY <1>9 DEF ResolveLB, NoOrphan, NoOrphanRules, NoOrphanLoadBalancer,
       MembersHoldFinalizer, MembersNotInactive, DeployedIsMembers,
       ReleaseOnlyNonEmpty, GoneHoldsNothing
<1>10. CASE RemoveGroupFinalizer
    <2>1. NoOrphan' /\ GoneHoldsNothing'
        BY <1>10, ReleaseSafe DEF RemoveGroupFinalizer
    <2> QED
        BY <1>10, <2>1 DEF RemoveGroupFinalizer, MembersHoldFinalizer, MembersNotInactive, DeployedIsMembers,
           ReleaseOnlyNonEmpty
<1>11. CASE StepFails
    BY <1>11 DEF StepFails, EndWithError, NoOrphan, NoOrphanRules, NoOrphanLoadBalancer,
       MembersHoldFinalizer, MembersNotInactive, DeployedIsMembers,
       ReleaseOnlyNonEmpty, GoneHoldsNothing
<1>12. CASE AddGroupFinalizerFails
    <2>1. PICK S \in SUBSET Addable : finalizers' = WithFinalizer(S)
        BY <1>12 DEF AddGroupFinalizerFails
    <2>2. \A i \in Ing : finalizers[i] \subseteq finalizers'[i]
                        /\ (finalizers'[i] # finalizers[i] => exists[i])
        BY <2>1 DEF WithFinalizer, NeedFinalizer, Addable, TypeOK
    <2>3. pc' = "idle" /\ UNCHANGED <<exists, cloud, lb>>
        BY <1>12 DEF AddGroupFinalizerFails, EndWithError
    <2> QED
        BY <2>2, <2>3 DEF NoOrphan, NoOrphanRules, NoOrphanLoadBalancer,
       MembersHoldFinalizer, MembersNotInactive, DeployedIsMembers,
       ReleaseOnlyNonEmpty, GoneHoldsNothing
<1>13. CASE DeployFails
    <2>1. PICK S \in SUBSET (cloud[cur] \cup members), l \in {lb[cur], members # {}} :
                /\ cloud' = [cloud EXCEPT ![cur] = S]
                /\ lb' = [lb EXCEPT ![cur] = l]
        BY <1>13 DEF DeployFails
    <2>2. pc = "deploy" /\ pc' = "idle" /\ UNCHANGED <<exists, finalizers, cur, members>>
        BY <1>13 DEF DeployFails, EndWithError
    <2>3. NoOrphanRules'
        BY <2>1, <2>2 DEF NoOrphan, NoOrphanRules, MembersHoldFinalizer, TypeOK
    <2>4. NoOrphanLoadBalancer'
        BY <2>1, <2>2 DEF NoOrphan, NoOrphanLoadBalancer, MembersHoldFinalizer, TypeOK
    <2> QED
        BY <2>2, <2>3, <2>4 DEF NoOrphan, MembersHoldFinalizer, MembersNotInactive, DeployedIsMembers,
           ReleaseOnlyNonEmpty, GoneHoldsNothing
<1>14. CASE ResolveLBFails
    BY <1>14 DEF ResolveLBFails, EndWithError, NoOrphan, NoOrphanRules, NoOrphanLoadBalancer,
       MembersHoldFinalizer, MembersNotInactive, DeployedIsMembers,
       ReleaseOnlyNonEmpty, GoneHoldsNothing
<1>15. CASE RemoveGroupFinalizerFails
    <2>1. PICK S \in SUBSET inactive : ReleaseFinalizers(S)
        BY <1>15 DEF RemoveGroupFinalizerFails
    <2>2. pc = "removeFin" /\ pc' = "idle" /\ UNCHANGED <<cloud, lb, cur, members, inactive>>
        BY <1>15 DEF RemoveGroupFinalizerFails, EndWithError
    <2>3. NoOrphan' /\ GoneHoldsNothing'
        BY <2>1, <2>2, ReleaseSafe
    <2> QED
        BY <2>2, <2>3 DEF MembersHoldFinalizer, MembersNotInactive, DeployedIsMembers,
           ReleaseOnlyNonEmpty
<1>16. CASE Crash
    BY <1>16 DEF Crash, NoOrphan, NoOrphanRules, NoOrphanLoadBalancer,
       MembersHoldFinalizer, MembersNotInactive, DeployedIsMembers,
       ReleaseOnlyNonEmpty, GoneHoldsNothing
<1>17. CASE Restart
    BY <1>17 DEF Restart, NoOrphan, NoOrphanRules, NoOrphanLoadBalancer,
       MembersHoldFinalizer, MembersNotInactive, DeployedIsMembers,
       ReleaseOnlyNonEmpty, GoneHoldsNothing
<1>18. CASE UNCHANGED vars
    BY <1>18 DEF vars, ctrlVars, NoOrphan, NoOrphanRules, NoOrphanLoadBalancer,
       MembersHoldFinalizer, MembersNotInactive, DeployedIsMembers,
       ReleaseOnlyNonEmpty, GoneHoldsNothing
<1> QED
    BY <1>1, <1>2, <1>3, <1>4, <1>5, <1>6, <1>7, <1>8, <1>9, <1>10, <1>11,
       <1>12, <1>13, <1>14, <1>15, <1>16, <1>17, <1>18
    DEF Next, User, Controller, Faults

(* Finalizer safety for all constants: no deployed rule and no load        *)
(* balancer outlives the finalizers that protect them, whatever the users, *)
(* the API errors and the crashes do.                                      *)
THEOREM NoOrphanHolds == Spec => []NoOrphan
<1>1. Init => IInv
    BY ConstantsAssumption DEF Init, IInv, TypeOK, Steps, NoOrphan, NoOrphanRules, NoOrphanLoadBalancer,
       MembersHoldFinalizer, MembersNotInactive, DeployedIsMembers,
       ReleaseOnlyNonEmpty, GoneHoldsNothing
<1>2. IInv => NoOrphan
    BY DEF IInv
<1> QED
    BY <1>1, <1>2, IInvInductive, PTL DEF Spec

(* Type correctness of the reconciler model for all constants.             *)
THEOREM TypeCorrect == Spec => []TypeOK
<1>1. Init => TypeOK
    BY ConstantsAssumption DEF Init, TypeOK, Steps
<1> QED
    BY <1>1, TypeInductive, PTL DEF Spec

=============================================================================
