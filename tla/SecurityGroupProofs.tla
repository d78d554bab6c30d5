-------------------------- MODULE SecurityGroupProofs --------------------------
(***************************************************************************)
(* Proofs about the security group model: the permission diff of          *)
(* reconcileByModifySGInstance turns any rules EC2 holds into the desired  *)
(* ones, and a Reconcile that returns nil leaves exactly the desired       *)
(* rules, for every set of ports, ranges and group IDs.                    *)
(***************************************************************************)
EXTENDS SecurityGroup, TLAPS

-----------------------------------------------------------------------------
(* Lemmas on the diff helpers.                                             *)

(* ipPermissionEquals is equality of permissions.                         *)
LEMMA EqualsIsEquality ==
    ASSUME NEW s \in Perm, NEW t \in Perm
    PROVE  IpPermissionEquals(s, t) <=> s = t
<1>1. s = [port |-> s.port, ranges |-> s.ranges]
      /\ t = [port |-> t.port, ranges |-> t.ranges]
  BY DEF Perm
<1>2. IpPermissionEquals(s, t) <=> s.port = t.port /\ s.ranges = t.ranges
  BY DEF IpPermissionEquals, DiffIPRanges
<1>3. QED
  BY <1>1, <1>2

(* diffIPPermissions keeps a subset of its source.                        *)
LEMMA DiffSubset ==
    ASSUME NEW S, NEW T
    PROVE  DiffIPPermissions(S, T) \subseteq S
BY DEF DiffIPPermissions

(* What DescribeSecurityGroups returns are permissions, one per port with  *)
(* rules, holding all of that port's ranges.                               *)
LEMMA DescribedPerms ==
    ASSUME NEW id \in SGIds, perms[id] \in [Ports -> SUBSET Cidrs]
    PROVE  /\ Described(id) \subseteq Perm
           /\ \A p \in Ports :
                 /\ \A s \in Described(id) :
                       s.port = p => s = [port |-> p, ranges |-> perms[id][p]]
                 /\ perms[id][p] # {} =>
                       [port |-> p, ranges |-> perms[id][p]] \in Described(id)
<1>1. Described(id) \subseteq Perm
  BY DEF Described, Perm
<1>2. ASSUME NEW p \in Ports
      PROVE  \A s \in Described(id) :
                s.port = p => s = [port |-> p, ranges |-> perms[id][p]]
  BY DEF Described
<1>3. ASSUME NEW p \in Ports, perms[id][p] # {}
      PROVE  [port |-> p, ranges |-> perms[id][p]] \in Described(id)
  BY <1>3 DEF Described
<1>4. QED
  BY <1>1, <1>2, <1>3

(* The rules a set of permissions stands for on one port.                  *)
LEMMA MergedAt ==
    ASSUME NEW S, NEW p \in Ports
    PROVE  Merged(S)[p] = UNION {q.ranges : q \in {r \in S : r.port = p}}
BY DEF Merged

(* The ranges of permissions are ranges.                                   *)
LEMMA MergedType ==
    ASSUME NEW S \in SUBSET Perm
    PROVE  Merged(S) \in [Ports -> SUBSET Cidrs]
BY DEF Merged, Perm

(* The heart of reconcileByModifySGInstance: revoking the described rules  *)
(* that match no desired permission and granting the desired permissions   *)
(* that match no described one leaves, on every port, exactly the desired  *)
(* ranges, however the desired rules of a port are split.                  *)
LEMMA DiffRepairs ==
    ASSUME NEW id \in SGIds, perms[id] \in [Ports -> SUBSET Cidrs],
           NEW Des \in SUBSET Perm, NEW p \in Ports
    PROVE  LET R == DiffIPPermissions(Described(id), Des)
               G == DiffIPPermissions(Des, Described(id))
           IN  Merged(Des)[p] = (perms[id][p] \ Merged(R)[p]) \cup Merged(G)[p]
<1> DEFINE D  == perms[id][p]
           dp == [port |-> p, ranges |-> D]
           R  == DiffIPPermissions(Described(id), Des)
           G  == DiffIPPermissions(Des, Described(id))
           DesP == {r \in Des : r.port = p}
           RP == {r \in R : r.port = p}
           GP == {r \in G : r.port = p}
<1>1. /\ Described(id) \subseteq Perm
      /\ \A s \in Described(id) : s.port = p => s = dp
      /\ D # {} => dp \in Described(id)
  BY DescribedPerms
<1>2. /\ Merged(Des)[p] = UNION {q.ranges : q \in DesP}
      /\ Merged(R)[p] = UNION {q.ranges : q \in RP}
      /\ Merged(G)[p] = UNION {q.ranges : q \in GP}
  BY MergedAt
<1>3. \A s \in Described(id), t \in Des : IpPermissionEquals(s, t) <=> s = t
  BY <1>1, EqualsIsEquality
<1>4. \A t \in Des, s \in Described(id) : IpPermissionEquals(t, s) <=> t = s
  BY <1>1, EqualsIsEquality
<1>5. RP \subseteq {dp} /\ (D # {} /\ dp \notin Des => RP = {dp})
      /\ (dp \in Des => RP = {})
  <2>1. RP \subseteq {dp}
    BY <1>1, DiffSubset
  <2>2. ASSUME D # {}, dp \notin Des PROVE dp \in RP
    <3>1. dp \in Described(id)
      BY <1>1, <2>2
    <3>2. ~\E t \in Des : IpPermissionEquals(dp, t)
      BY <1>3, <3>1, <2>2
    <3>3. QED
      BY <3>1, <3>2 DEF DiffIPPermissions
  <2>3. ASSUME dp \in Des PROVE dp \notin R
    <3>1. CASE dp \in Described(id)
      BY <3>1, <2>3, <1>3 DEF DiffIPPermissions
    <3>2. CASE dp \notin Described(id)
      BY <3>2, DiffSubset
    <3>3. QED
      BY <3>1, <3>2
  <2>4. QED
    BY <2>1, <2>2, <2>3
<1>6. GP = DesP \ {dp} /\ (D = {} => GP = DesP)
  <2>1. GP = {r \in DesP : ~\E s \in Described(id) : r = s}
    BY <1>4 DEF DiffIPPermissions
  <2>2. \A r \in DesP : (\E s \in Described(id) : r = s) <=> (r = dp /\ D # {})
    <3>1. \A s \in Described(id) : s.ranges # {}
      BY <1>1 DEF Perm
    <3>2. dp.ranges = D
      OBVIOUS
    <3>3. QED
      BY <1>1, <3>1, <3>2
  <2>3. D = {} => dp \notin DesP
    BY DEF Perm
  <2>4. QED
    BY <2>1, <2>2, <2>3
<1>7. CASE D = {}
  BY <1>2, <1>5, <1>6, <1>7
<1>8. CASE D # {} /\ dp \in Des
  <2>1. dp \in DesP /\ Merged(R)[p] = {}
    BY <1>2, <1>5, <1>8
  <2>2. UNION {q.ranges : q \in DesP} = D \cup UNION {q.ranges : q \in DesP \ {dp}}
    BY <2>1
  <2>3. QED
    BY <1>2, <1>6, <2>1, <2>2
<1>9. CASE D # {} /\ dp \notin Des
  <2>1. Merged(R)[p] = D
    BY <1>2, <1>5, <1>9
  <2>2. GP = DesP
    BY <1>6, <1>9
  <2>3. QED
    BY <1>2, <2>1, <2>2
<1>10. QED
  BY <1>7, <1>8, <1>9

(* RevokeSecurityGroupIngress and AuthorizeSecurityGroupIngress change the *)
(* rules of the one group, port by port.                                   *)
LEMMA CallsOnRules ==
    ASSUME perms \in [SGIds -> [Ports -> SUBSET Cidrs]], NEW id \in SGIds,
           NEW S \in SUBSET Perm
    PROVE  /\ Revoked(id, S) \in [SGIds -> [Ports -> SUBSET Cidrs]]
           /\ Authorized(id, S) \in [SGIds -> [Ports -> SUBSET Cidrs]]
           /\ \A p \in Ports :
                 /\ Revoked(id, S)[id][p] = perms[id][p] \ Merged(S)[p]
                 /\ Authorized(id, S)[id][p] = perms[id][p] \cup Merged(S)[p]
<1>1. Merged(S) \in [Ports -> SUBSET Cidrs]
  BY MergedType
<1>2. QED
  BY <1>1 DEF Revoked, Authorized

(* Both diffs of a Describe against desired rules are permissions.        *)
LEMMA DiffsTyped ==
    ASSUME TypeOK, NEW id \in SGIds
    PROVE  /\ DiffIPPermissions(Described(id), desired) \in SUBSET Perm
           /\ DiffIPPermissions(desired, Described(id)) \in SUBSET Perm
<1>1. Described(id) \subseteq Perm /\ desired \subseteq Perm
  BY DescribedPerms DEF TypeOK, DesiredSets
<1>2. QED
  BY <1>1, DiffSubset

-----------------------------------------------------------------------------
(* Type correctness and the shape of a call, which the rest rests on.      *)
LEMMA TypeInductive ==
    IInv /\ [Next]_vars => (TypeOK /\ CallShape)'
<1> SUFFICES ASSUME IInv, [Next]_vars PROVE (TypeOK /\ CallShape)'
  OBVIOUS
<1> USE SGAssumption DEF IInv, TypeOK, CallShape, NewPathRules, RevokeStepDiffs,
        GrantStepCompletes, ec2Vars, objVars, callVars, Steps
<1>1. ASSUME NEW d \in DesiredSets, StartReconcile(d) PROVE (TypeOK /\ CallShape)'
  BY <1>1 DEF StartReconcile, SpecObject
<1>2. CASE StartDelete
  <2>1. gid' \in SGIds \cup {Nil}
    BY <1>2 DEF StartDelete, SpecObject
  <2>2. CallShape'
    BY <1>2 DEF StartDelete
  <2>3. TypeOK'
    <3>1. /\ live' = live /\ perms' = perms /\ tags' = tags
          /\ desired' = desired /\ toRevoke' = toRevoke /\ toGrant' = toGrant
          /\ result' = result /\ failures' = failures
      BY <1>2 DEF StartDelete
    <3>2. pc' = "delete" /\ lastOp' = "delete" /\ settled' = FALSE /\ mutations' = 0
      BY <1>2 DEF StartDelete
    <3>3. desired' \in DesiredSets /\ failures' \in 0..MaxFailures
      BY <3>1
    <3>4. pc' \in Steps /\ mutations' \in 0..2
          /\ lastOp' \in {"reconcile", "delete"}
      BY <3>2
    <3>8. settled' \in BOOLEAN
      BY <3>2, Zenon
    <3>5. /\ live' \in SUBSET SGIds
          /\ perms' \in [SGIds -> [Ports -> SUBSET Cidrs]]
          /\ tags' \in [SGIds -> SUBSET Tags]
      BY <3>1
    <3>6. /\ toRevoke' \in SUBSET Perm /\ toGrant' \in SUBSET Perm
          /\ result' \in {"none", "ok", "err"}
      BY <3>1
    <3>7. QED
      BY <2>1, <3>3, <3>4, <3>5, <3>6, <3>8
  <2>4. QED
    BY <2>2, <2>3
<1>3. CASE FindByID
  <2>1. CASE gid \in live
    BY <1>3, <2>1, DiffsTyped DEF FindByID
  <2>2. CASE gid \notin live
    BY <1>3, <2>2 DEF FindByID, Finish
  <2>3. QED
    BY <2>1, <2>2
<1>4. CASE FindByName
  <2>1. CASE live # {}
    <3>1. PICK id \in live :
              /\ gid' = id
              /\ toRevoke' = DiffIPPermissions(Described(id), desired)
              /\ toGrant' = DiffIPPermissions(desired, Described(id))
              /\ pc' = "revoke"
      BY <1>4, <2>1 DEF FindByName
    <3>2. QED
      BY <1>4, <3>1, DiffsTyped DEF FindByName
  <2>2. CASE live = {}
    BY <1>4, <2>2 DEF FindByName
  <2>3. QED
    BY <2>1, <2>2
<1>5. CASE RevokeIngress
  <2>1. gid \in SGIds /\ mutations = 0
    BY <1>5 DEF RevokeIngress
  <2>2. CASE toRevoke # {}
    BY <1>5, <2>1, <2>2, CallsOnRules DEF RevokeIngress
  <2>3. CASE toRevoke = {}
    BY <1>5, <2>1, <2>3 DEF RevokeIngress
  <2>4. QED
    BY <2>2, <2>3
<1>6. CASE GrantIngress
  <2>1. gid \in SGIds /\ mutations <= 1 /\ lastOp = "reconcile"
    BY <1>6 DEF GrantIngress
  <2>2. CASE toGrant = {}
    BY <1>6, <2>2 DEF GrantIngress, Finish
  <2>3. CASE toGrant # {} /\ Duplicate(gid, toGrant)
    BY <1>6, <2>3 DEF GrantIngress, Finish
  <2>4. CASE toGrant # {} /\ ~Duplicate(gid, toGrant)
    <3>1. perms' = Authorized(gid, toGrant) /\ mutations' = mutations + 1
      BY <1>6, <2>4 DEF GrantIngress
    <3>2. perms' \in [SGIds -> [Ports -> SUBSET Cidrs]]
      BY <2>1, <3>1, CallsOnRules
    <3>3. /\ live' = live /\ tags' = tags /\ gid' = gid /\ desired' = desired
          /\ lastOp' = lastOp /\ settled' = settled /\ failures' = failures
          /\ pc' = "idle" /\ result' = "ok" /\ toRevoke' = {} /\ toGrant' = {}
      BY <1>6, <2>4 DEF GrantIngress, Finish
    <3>4. QED
      BY <2>1, <3>1, <3>2, <3>3
  <2>5. QED
    BY <2>2, <2>3, <2>4
<1>7. CASE CreateGroup
  BY <1>7 DEF CreateGroup, NoPerms
<1>8. CASE CreateGroupLost
  BY <1>8 DEF CreateGroupLost, NoPerms, Finish
<1>9. CASE AuthorizeNew
  BY <1>9, CallsOnRules DEF AuthorizeNew, DesiredSets
<1>10. CASE TagGroup
  BY <1>10 DEF TagGroup, Finish
<1>11. CASE DeleteGroup
  BY <1>11 DEF DeleteGroup, Finish
<1>12. CASE CallFails
  BY <1>12 DEF CallFails, Finish
<1>13. CASE UNCHANGED vars
  BY <1>13 DEF vars
<1>14. QED
  BY <1>1, <1>2, <1>3, <1>4, <1>5, <1>6, <1>7, <1>8, <1>9, <1>10, <1>11,
     <1>12, <1>13 DEF Next

-----------------------------------------------------------------------------
(* What each step of a running call knows of the group it works on.        *)
Knows == RevokeStepDiffs /\ GrantStepCompletes /\ NewPathRules
             /\ ReconcileEstablishesPermissions

(* No rules on a port of an empty permission set.                          *)
LEMMA MergedEmpty ==
    ASSUME NEW p \in Ports
    PROVE  Merged({})[p] = {}
BY DEF Merged

(* Two rule functions equal on every port are equal.                       *)
LEMMA RulesExt ==
    ASSUME NEW f \in [Ports -> SUBSET Cidrs], NEW g \in [Ports -> SUBSET Cidrs],
           \A p \in Ports : f[p] = g[p]
    PROVE  f = g
OBVIOUS

(* Every step keeps what a running call knows true.                        *)
LEMMA KnowsInductive ==
    IInv /\ [Next]_vars => Knows'
<1> SUFFICES ASSUME IInv, [Next]_vars PROVE Knows'
  OBVIOUS
<1> USE DEF IInv, Knows, RevokeStepDiffs, GrantStepCompletes, NewPathRules,
        ReconcileEstablishesPermissions
<1>1. ASSUME NEW d \in DesiredSets, StartReconcile(d) PROVE Knows'
  BY <1>1 DEF StartReconcile
<1>2. CASE StartDelete
  BY <1>2 DEF StartDelete
<1>3. CASE FindByID
  <2>1. CASE gid \in live
    <3>1. perms' = perms /\ gid' = gid /\ desired' = desired /\ live' = live
      BY <1>3 DEF FindByID, ec2Vars, objVars
    <3>2. Described(gid)' = Described(gid)
      BY <3>1 DEF Described
    <3>3. QED
      BY <1>3, <2>1, <3>1, <3>2 DEF FindByID
  <2>2. CASE gid \notin live
    BY <1>3, <2>2 DEF FindByID, Finish
  <2>3. QED
    BY <2>1, <2>2
<1>4. CASE FindByName
  <2>1. CASE live # {}
    <3>1. PICK id \in live :
              /\ gid' = id
              /\ toRevoke' = DiffIPPermissions(Described(id), desired)
              /\ toGrant' = DiffIPPermissions(desired, Described(id))
              /\ pc' = "revoke"
      BY <1>4, <2>1 DEF FindByName
    <3>2. perms' = perms /\ desired' = desired /\ live' = live
      BY <1>4 DEF FindByName, ec2Vars
    <3>3. Described(id)' = Described(id)
      BY <3>2 DEF Described
    <3>4. QED
      BY <3>1, <3>2, <3>3
  <2>2. CASE live = {}
    BY <1>4, <2>2 DEF FindByName
  <2>3. QED
    BY <2>1, <2>2
<1>5. CASE RevokeIngress
  <2> DEFINE R == DiffIPPermissions(Described(gid), desired)
             G == DiffIPPermissions(desired, Described(gid))
  <2>1. /\ gid \in live /\ gid \in SGIds
        /\ toRevoke = R /\ toGrant = G
        /\ perms \in [SGIds -> [Ports -> SUBSET Cidrs]]
        /\ desired \in SUBSET Perm /\ toRevoke \in SUBSET Perm
    BY <1>5 DEF RevokeIngress, TypeOK, DesiredSets
  <2>2. /\ pc' = "grant" /\ gid' = gid /\ desired' = desired /\ live' = live
        /\ toGrant' = toGrant
    BY <1>5 DEF RevokeIngress, objVars
  <2>3. \A p \in Ports : perms'[gid][p] = perms[gid][p] \ Merged(toRevoke)[p]
    <3>1. CASE toRevoke # {}
      BY <1>5, <2>1, <3>1, CallsOnRules DEF RevokeIngress
    <3>2. CASE toRevoke = {}
      BY <1>5, <3>2, MergedEmpty DEF RevokeIngress
    <3>3. QED
      BY <3>1, <3>2
  <2>4. \A p \in Ports : Merged(desired)[p] = perms'[gid][p] \cup Merged(toGrant)[p]
    BY <2>1, <2>3, DiffRepairs
  <2>5. QED
    BY <2>1, <2>2, <2>4
<1>6. CASE GrantIngress
  <2>1. /\ gid \in live /\ gid \in SGIds /\ lastOp = "reconcile"
        /\ \A p \in Ports : Merged(desired)[p] = perms[gid][p] \cup Merged(toGrant)[p]
        /\ perms \in [SGIds -> [Ports -> SUBSET Cidrs]]
        /\ Merged(desired) \in [Ports -> SUBSET Cidrs]
        /\ toGrant \in SUBSET Perm
    BY <1>6, MergedType DEF GrantIngress, TypeOK, CallShape, DesiredSets
  <2>2. /\ pc' = "idle" /\ gid' = gid /\ desired' = desired /\ live' = live
        /\ lastOp' = lastOp
    BY <1>6 DEF GrantIngress, Finish, objVars
  <2>3. CASE toGrant = {}
    <3>1. perms' = perms /\ result' = "ok"
      BY <1>6, <2>3 DEF GrantIngress, Finish
    <3>2. \A p \in Ports : perms[gid][p] = Merged(desired)[p]
      BY <2>1, <2>3, MergedEmpty
    <3>4. perms[gid] = Merged(desired)
      BY <2>1, <3>2, RulesExt
    <3>3. QED
      BY <2>1, <2>2, <3>1, <3>4
  <2>4. CASE toGrant # {} /\ Duplicate(gid, toGrant)
    BY <1>6, <2>4 DEF GrantIngress, Finish
  <2>5. CASE toGrant # {} /\ ~Duplicate(gid, toGrant)
    <3>1. perms' = Authorized(gid, toGrant)
      BY <1>6, <2>5 DEF GrantIngress
    <3>2. perms'[gid] \in [Ports -> SUBSET Cidrs]
          /\ \A p \in Ports : perms'[gid][p] = Merged(desired)[p]
      <4>1. /\ Authorized(gid, toGrant) \in [SGIds -> [Ports -> SUBSET Cidrs]]
            /\ \A p \in Ports :
                  Authorized(gid, toGrant)[gid][p] = perms[gid][p] \cup Merged(toGrant)[p]
        BY <2>1, CallsOnRules
      <4>2. QED
        BY <2>1, <3>1, <4>1
    <3>3. perms'[gid] = Merged(desired)
      BY <2>1, <3>2, RulesExt
    <3>4. QED
      BY <2>1, <2>2, <3>3
  <2>6. QED
    BY <2>3, <2>4, <2>5
<1>7. CASE CreateGroup
  <2>1. PICK id \in SGIds \ live :
            /\ live' = live \cup {id}
            /\ perms' = [perms EXCEPT ![id] = NoPerms]
            /\ gid' = id
    BY <1>7 DEF CreateGroup
  <2>2. perms \in [SGIds -> [Ports -> SUBSET Cidrs]]
    BY DEF TypeOK
  <2>3. QED
    BY <1>7, <2>1, <2>2 DEF CreateGroup
<1>8. CASE CreateGroupLost
  BY <1>8 DEF CreateGroupLost, Finish
<1>9. CASE AuthorizeNew
  <2>1. /\ gid \in live /\ gid \in SGIds /\ perms[gid] = NoPerms
        /\ perms \in [SGIds -> [Ports -> SUBSET Cidrs]]
        /\ desired \in SUBSET Perm
        /\ Merged(desired) \in [Ports -> SUBSET Cidrs]
    BY <1>9, MergedType DEF AuthorizeNew, TypeOK, DesiredSets
  <2>2. /\ perms' = Authorized(gid, desired) /\ pc' = "tag"
        /\ gid' = gid /\ desired' = desired /\ live' = live
    BY <1>9 DEF AuthorizeNew, objVars
  <2>3. perms'[gid] \in [Ports -> SUBSET Cidrs]
        /\ \A p \in Ports : perms'[gid][p] = Merged(desired)[p]
    <3>1. /\ Authorized(gid, desired) \in [SGIds -> [Ports -> SUBSET Cidrs]]
          /\ \A p \in Ports :
                Authorized(gid, desired)[gid][p] = perms[gid][p] \cup Merged(desired)[p]
      BY <2>1, CallsOnRules
    <3>2. \A p \in Ports : perms[gid][p] = {}
      BY <2>1 DEF NoPerms
    <3>3. QED
      BY <2>1, <2>2, <3>1, <3>2
  <2>4. QED
    BY <2>1, <2>2, <2>3, RulesExt
<1>10. CASE TagGroup
  <2>1. gid \in live /\ perms[gid] = Merged(desired) /\ lastOp = "reconcile"
    BY <1>10 DEF TagGroup, CallShape
  <2>2. /\ perms' = perms /\ gid' = gid /\ desired' = desired /\ live' = live
        /\ lastOp' = lastOp /\ pc' = "idle"
    BY <1>10 DEF TagGroup, Finish, objVars
  <2>3. QED
    BY <2>1, <2>2
<1>11. CASE DeleteGroup
  <2>1. lastOp' = "delete" /\ pc' = "idle"
    BY <1>11 DEF DeleteGroup, Finish, CallShape
  <2>2. QED
    BY <2>1
<1>12. CASE CallFails
  BY <1>12 DEF CallFails, Finish
<1>13. CASE UNCHANGED vars
  BY <1>13 DEF vars, ec2Vars, objVars, callVars, Described, Merged, NoPerms
<1>14. QED
  BY <1>1, <1>2, <1>3, <1>4, <1>5, <1>6, <1>7, <1>8, <1>9, <1>10, <1>11,
     <1>12, <1>13 DEF Next

(* The initial state satisfies the inductive invariant.                   *)
LEMMA InitIInv == Init => IInv
<1> SUFFICES ASSUME Init PROVE IInv
  OBVIOUS
<1>1. perms \in [SGIds -> [Ports -> SUBSET Cidrs]] /\ tags \in [SGIds -> SUBSET Tags]
  BY DEF Init, NoPerms
<1>2. settled \in BOOLEAN
  BY Zenon DEF Init
<1>3. QED
  BY <1>1, <1>2, SGAssumption DEF Init, IInv, TypeOK, CallShape, Steps,
     RevokeStepDiffs, GrantStepCompletes, NewPathRules,
     ReconcileEstablishesPermissions

(* IInv holds in every reachable state.                                    *)
LEMMA IInvHolds == Spec => []IInv
<1>1. IInv /\ [Next]_vars => IInv'
  BY TypeInductive, KnowsInductive DEF IInv, Knows
<1>2. QED
  BY <1>1, InitIInv, PTL DEF Spec

(* A Reconcile that returns nil leaves the group it names with exactly the *)
(* desired rules (ReconcileEstablishesPermissions), for every set of       *)
(* ports, CIDR ranges and group IDs and every bound on failures.           *)
THEOREM ReconcileEstablishesPermissionsHolds ==
    Spec => []ReconcileEstablishesPermissions
<1>1. IInv => ReconcileEstablishesPermissions
  BY DEF IInv
<1>2. QED
  BY <1>1, IInvHolds, PTL

(* Every reachable state of the security group model is well typed: EC2's *)
(* rules stay ranges per port, the diff sets stay permission sets and the  *)
(* desired rules stay one or two permissions, across lost creates and      *)
(* failed calls.                                                           *)
THEOREM TypeCorrect == Spec => []TypeOK
<1>1. IInv => TypeOK
  BY DEF IInv
<1>2. QED
  BY <1>1, IInvHolds, PTL

=============================================================================
