---------------------------- MODULE SecurityGroup ----------------------------
(***************************************************************************)
(* The securityGroupController of src/internal/alb/sg/security_group.go    *)
(* and the EC2 security groups it manages.                                 *)
(*                                                                         *)
(* One SecurityGroup spec object (GroupID, GroupName, InboundPermissions)  *)
(* is reconciled and deleted by a caller that retries on error.  Every EC2 *)
(* call is a step of its own and may fail; a CreateSecurityGroup may       *)
(* succeed in EC2 while its answer is lost.  The caller passes a spec     *)
(* object built afresh (GroupName only) or the one it passed before, with  *)
(* the GroupID the controller filled in; a crash mid-call is a failed call *)
(* since nothing else is kept in memory.                                   *)
(*                                                                         *)
(* A permission is one protocol and port (tcp, FromPort = ToPort = port)   *)
(* with a set of CIDR ranges.  EC2 stores the rules of a group merged per  *)
(* port, and DescribeSecurityGroups returns one IpPermission per port with *)
(* all of its ranges.  Permission lists are modelled as sets: the code     *)
(* only tests them for emptiness and passes them to EC2, whose rules are a *)
(* set.                                                                    *)
(***************************************************************************)
EXTENDS Naturals, FiniteSets

CONSTANTS
    SGIds,        \* group IDs EC2 may assign, model values
    Nil,          \* a nil *string
    Ports,        \* listener ports
    Cidrs,        \* CIDR ranges
    MaxFailures   \* bound on failed EC2 calls

ASSUME SGAssumption ==
    /\ Nil \notin SGIds
    /\ MaxFailures \in Nat

Perm == [port : Ports, ranges : (SUBSET Cidrs) \ {{}}]

(* The desired InboundPermissions the caller may pass: one or two rules.   *)
DesiredSets == {S \in SUBSET Perm : S # {} /\ Cardinality(S) <= 2}

Tags == {"Name", "ManagedBy"}

VARIABLES
    \* EC2
    live,        \* IDs of existing security groups (all named GroupName)
    perms,       \* perms[id][port]: CIDRs authorized on port
    tags,        \* tags[id]: tag keys set on the group
    \* the SecurityGroup spec object
    gid,         \* group.GroupID
    desired,     \* group.InboundPermissions
    \* the running call
    pc,          \* step of the running Reconcile / Delete, "idle" when none
    toRevoke,    \* permissionsToRevoke
    toGrant,     \* permissionsToGrant
    result,      \* outcome of the last call: "none", "ok" or "err"
    lastOp,      \* "reconcile" or "delete": the last call started
    \* history for the idempotence property
    mutations,   \* EC2 mutations made by the running call
    settled,     \* the previous call was a successful Reconcile of desired
    \* bounds
    failures

ec2Vars  == <<live, perms, tags>>
objVars  == <<gid, desired>>
callVars == <<pc, toRevoke, toGrant, result, lastOp, mutations, settled>>
vars == <<ec2Vars, objVars, callVars, failures>>

Steps == {"idle", "find", "revoke", "grant", "create", "authorize", "tag", "delete"}

TypeOK ==
    /\ live \in SUBSET SGIds
    /\ perms \in [SGIds -> [Ports -> SUBSET Cidrs]]
    /\ tags \in [SGIds -> SUBSET Tags]
    /\ gid \in SGIds \cup {Nil}
    /\ desired \in DesiredSets
    /\ pc \in Steps
    /\ toRevoke \in SUBSET Perm
    /\ toGrant \in SUBSET Perm
    /\ result \in {"none", "ok", "err"}
    /\ lastOp \in {"reconcile", "delete"}
    /\ mutations \in 0..2
    /\ settled \in BOOLEAN
    /\ failures \in 0..MaxFailures

-----------------------------------------------------------------------------
(* The permission diff (diffIPPermissions and its helpers).               *)

(* diffIPRanges / ipRangeEquals: ranges of source whose CidrIp is not in   *)
(* target.                                                                 *)
DiffIPRanges(source, target) == source \ target

(* Mutant: ranges compared in one direction only.                         *)
IpPermissionEqualsOneWay(s, t) ==
    /\ s.port = t.port
    /\ DiffIPRanges(s.ranges, t.ranges) = {}

(* ipPermissionEquals                                                      *)
IpPermissionEquals(s, t) ==
    /\ s.port = t.port
    /\ DiffIPRanges(s.ranges, t.ranges) = {}
    /\ DiffIPRanges(t.ranges, s.ranges) = {}

(* Mutant: each source permission returned with the ranges target lacks, *)
(* emptied permissions included.                                         *)
DiffIPPermissionsByRange(source, target) ==
    {[s EXCEPT !.ranges = s.ranges \ UNION {t.ranges : t \in target}] : s \in source}

(* diffIPPermissions(source, target) = source - target                     *)
DiffIPPermissions(source, target) ==
    {s \in source : ~\E t \in target : IpPermissionEquals(s, t)}

(* instance.IpPermissions as DescribeSecurityGroups returns them.          *)
Described(id) ==
    {[port |-> p, ranges |-> perms[id][p]] : p \in {q \in Ports : perms[id][q] # {}}}

(* The rules a permission set stands for, merged per port.                 *)
Merged(S) == [p \in Ports |-> UNION {q.ranges : q \in {r \in S : r.port = p}}]

NoPerms == [p \in Ports |-> {}]

(* AuthorizeSecurityGroupIngress fails with InvalidPermission.Duplicate if *)
(* a rule of the request exists already, and changes nothing then.         *)
Duplicate(id, S) == \E q \in S : q.ranges \cap perms[id][q.port] # {}

Authorized(id, S) ==
    [perms EXCEPT ![id] = [p \in Ports |-> perms[id][p] \cup Merged(S)[p]]]

Revoked(id, S) ==
    [perms EXCEPT ![id] = [p \in Ports |-> perms[id][p] \ Merged(S)[p]]]

-----------------------------------------------------------------------------
Init ==
    /\ live = {}
    /\ perms = [id \in SGIds |-> NoPerms]
    /\ tags = [id \in SGIds |-> {}]
    /\ gid = Nil
    /\ desired \in DesiredSets
    /\ pc = "idle"
    /\ toRevoke = {} /\ toGrant = {}
    /\ result = "none"
    /\ lastOp = "reconcile"
    /\ mutations = 0
    /\ settled = FALSE
    /\ failures = 0

(* A call returns.                                                         *)
Finish(r) ==
    /\ pc' = "idle"
    /\ result' = r
    /\ toRevoke' = {}
    /\ toGrant' = {}

(* A failed EC2 call: the call returns the error, EC2 is unchanged.        *)
CallFails ==
    /\ pc \notin {"idle"}
    /\ failures < MaxFailures
    /\ failures' = failures + 1
    /\ Finish("err")
    /\ UNCHANGED <<ec2Vars, objVars, lastOp, mutations, settled>>

-----------------------------------------------------------------------------
(* The caller: Reconcile with some desired permissions, or Delete, at any *)
(* time and after errors too (the next sync of the ingress), passing a     *)
(* fresh spec object or the previous one.                                  *)
SpecObject == gid' \in {Nil, gid}


StartReconcile(d) ==
    /\ pc = "idle"
    /\ desired' = d
    /\ settled' = (result = "ok" /\ lastOp = "reconcile" /\ d = desired)
    /\ lastOp' = "reconcile"
    /\ SpecObject
    /\ pc' = "find"
    /\ mutations' = 0
    /\ UNCHANGED <<ec2Vars, toRevoke, toGrant, result, failures>>

StartDelete ==
    /\ pc = "idle"
    /\ lastOp' = "delete"
    /\ settled' = FALSE
    /\ SpecObject
    /\ pc' = "delete"
    /\ mutations' = 0
    /\ UNCHANGED <<ec2Vars, desired, toRevoke, toGrant, result, failures>>

-----------------------------------------------------------------------------
(* Reconcile: findExistingSGInstance, then one of the two paths.           *)

(* The group found by GroupID must exist; one looked up by GroupName may   *)
(* not (the spec object always carries its GroupName).                     *)
FindByID ==
    /\ pc = "find"
    /\ gid # Nil
    /\ IF gid \in live
         THEN /\ toRevoke' = DiffIPPermissions(Described(gid), desired)
              /\ toGrant' = DiffIPPermissions(desired, Described(gid))
              /\ pc' = "revoke"
              /\ UNCHANGED result
         ELSE Finish("err")
    /\ UNCHANGED <<ec2Vars, objVars, lastOp, mutations, settled, failures>>

(* reconcileByModifySGInstance adopts the ID of the group found by name.   *)
FindByName ==
    /\ pc = "find"
    /\ gid = Nil
    /\ IF live # {}
         THEN \E id \in live :
                /\ gid' = id
                /\ toRevoke' = DiffIPPermissions(Described(id), desired)
                /\ toGrant' = DiffIPPermissions(desired, Described(id))
                /\ pc' = "revoke"
         ELSE /\ pc' = "create"
              /\ UNCHANGED <<gid, toRevoke, toGrant>>
    /\ UNCHANGED <<ec2Vars, desired, result, lastOp, mutations, settled,
                   failures>>

(* RevokeSecurityGroupIngress, skipped when there is nothing to revoke.    *)
RevokeIngress ==
    /\ pc = "revoke"
    /\ IF toRevoke # {}
         THEN /\ perms' = Revoked(gid, toRevoke)
              /\ mutations' = mutations + 1
         ELSE UNCHANGED <<perms, mutations>>
    /\ pc' = "grant"
    /\ UNCHANGED <<live, tags, objVars, toRevoke, toGrant, result, lastOp,
                   settled, failures>>

(* AuthorizeSecurityGroupIngress of permissionsToGrant, computed from the  *)
(* permissions read before the revoke.                                     *)
GrantIngress ==
    /\ pc = "grant"
    /\ IF toGrant = {}
         THEN /\ Finish("ok")
              /\ UNCHANGED <<perms, mutations>>
         ELSE IF Duplicate(gid, toGrant)
         THEN /\ Finish("err")
              /\ UNCHANGED <<perms, mutations>>
         ELSE /\ perms' = Authorized(gid, toGrant)
              /\ mutations' = mutations + 1
              /\ Finish("ok")
    /\ UNCHANGED <<live, tags, objVars, lastOp, settled, failures>>

(* reconcileByNewSGInstance: CreateSecurityGroupWithContext.  The group    *)
(* ID is stored in the spec object before the next call.                   *)
CreateGroup ==
    /\ pc = "create"
    /\ \E id \in SGIds \ live :
          /\ live' = live \cup {id}
          /\ perms' = [perms EXCEPT ![id] = NoPerms]
          /\ tags' = [tags EXCEPT ![id] = {}]
          /\ gid' = id
    /\ pc' = "authorize"
    /\ mutations' = 1
    /\ UNCHANGED <<desired, toRevoke, toGrant, result, lastOp, settled,
                   failures>>

(* The group is created but the answer is lost (timeout, throttled retry): *)
(* the call returns an error and GroupID stays nil.                        *)
CreateGroupLost ==
    /\ pc = "create"
    /\ failures < MaxFailures
    /\ failures' = failures + 1
    /\ \E id \in SGIds \ live :
          /\ live' = live \cup {id}
          /\ perms' = [perms EXCEPT ![id] = NoPerms]
          /\ tags' = [tags EXCEPT ![id] = {}]
    /\ Finish("err")
    /\ UNCHANGED <<objVars, lastOp, mutations, settled>>

(* AuthorizeSecurityGroupIngressWithContext of all InboundPermissions.     *)
AuthorizeNew ==
    /\ pc = "authorize"
    /\ perms' = Authorized(gid, desired)
    /\ pc' = "tag"
    /\ UNCHANGED <<live, tags, objVars, toRevoke, toGrant, result, lastOp,
                   mutations, settled, failures>>

(* CreateTagsWithContext: Name and the ManagedBy tag.                      *)
TagGroup ==
    /\ pc = "tag"
    /\ tags' = [tags EXCEPT ![gid] = Tags]
    /\ Finish("ok")
    /\ UNCHANGED <<live, perms, objVars, lastOp, mutations, settled,
                   failures>>

-----------------------------------------------------------------------------
(* Delete: by GroupID if the spec object has one, else the group found by  *)
(* name, if any.  DeleteSecurityGroup of an ID that does not exist fails   *)
(* with InvalidGroup.NotFound.  GroupID is left as it was.                 *)
DeleteGroup ==
    /\ pc = "delete"
    /\ IF gid # Nil
         THEN IF gid \in live
                THEN /\ live' = live \ {gid}
                     /\ Finish("ok")
                ELSE /\ Finish("err")
                     /\ UNCHANGED live
         ELSE /\ live' = {}
              /\ Finish("ok")
    /\ UNCHANGED <<perms, tags, objVars, lastOp, mutations, settled,
                   failures>>

Next ==
    \/ \E d \in DesiredSets : StartReconcile(d)
    \/ StartDelete
    \/ FindByID \/ FindByName \/ RevokeIngress \/ GrantIngress
    \/ CreateGroup \/ CreateGroupLost \/ AuthorizeNew \/ TagGroup
    \/ DeleteGroup
    \/ CallFails

Spec == Init /\ [][Next]_vars

-----------------------------------------------------------------------------
(* PROPERTIES                                                              *)

(* A Reconcile that returns nil leaves the group it names with exactly the *)
(* desired rules, whatever rules it found and however EC2 merged them: the *)
(* revoke and grant sets computed by diffIPPermissions from one Describe   *)
(* must together turn the merged rules into the desired ones.              *)
ReconcileEstablishesPermissions ==
    (pc = "idle" /\ lastOp = "reconcile" /\ result = "ok")
        => gid \in live /\ perms[gid] = Merged(desired)

(* Every security group the controller leaves behind after a successful   *)
(* Reconcile carries the ManagedBy tag (spec 6: every resource created by  *)
(* this controller carries managed-by; discovery filters on it).           *)
ReconciledGroupIsTagged ==
    (pc = "idle" /\ lastOp = "reconcile" /\ result = "ok")
        => gid \in live /\ "ManagedBy" \in tags[gid]

(* Idempotence (spec 8.1): a Reconcile right after a successful Reconcile  *)
(* of the same permissions makes no EC2 mutation.                          *)
ReconcileIsIdempotent ==
    (pc = "idle" /\ lastOp = "reconcile" /\ result = "ok" /\ settled)
        => mutations = 0

-----------------------------------------------------------------------------
(* The inductive invariant behind ReconcileEstablishesPermissions: what    *)
(* each step of a running Reconcile knows of the group it works on.        *)

(* Between Describe and the revoke, the two diffs are those of the group's *)
(* current rules.                                                          *)
RevokeStepDiffs ==
    pc = "revoke" =>
        /\ gid \in live
        /\ toRevoke = DiffIPPermissions(Described(gid), desired)
        /\ toGrant = DiffIPPermissions(desired, Described(gid))

(* After the revoke, granting toGrant completes the desired rules.         *)
GrantStepCompletes ==
    pc = "grant" =>
        /\ gid \in live
        /\ \A p \in Ports : Merged(desired)[p] = perms[gid][p] \cup Merged(toGrant)[p]

(* On the new path the created group has no rules until AuthorizeNew, and  *)
(* the desired ones after.                                                 *)
NewPathRules ==
    /\ pc = "authorize" => gid \in live /\ perms[gid] = NoPerms
    /\ pc = "tag" => gid \in live /\ perms[gid] = Merged(desired)

(* Every step of a call belongs to the call lastOp names, and mutations   *)
(* counts at most the revoke before a grant.                               *)
CallShape ==
    /\ pc \in {"find", "revoke", "grant", "create", "authorize", "tag"}
           => lastOp = "reconcile"
    /\ pc = "delete" => lastOp = "delete"
    /\ pc \in {"find", "revoke", "create", "delete"} => mutations = 0
    /\ pc = "grant" => mutations <= 1

IInv ==
    /\ TypeOK
    /\ CallShape
    /\ RevokeStepDiffs
    /\ GrantStepCompletes
    /\ NewPathRules
    /\ ReconcileEstablishesPermissions

=============================================================================
