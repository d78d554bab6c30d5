# Formal models of the ALB ingress controller

TLA+ models of the parts of the AWS ALB ingress controller whose behaviour under
concurrency, failures and retries is hard to test, checked with TLC on small
instances and, for the central safety properties, proved with TLAPS for every
instance.

## The system and its parts

The repository snapshot under `src/` holds pieces of two generations of the controller:

| Part | Source | What it does |
|---|---|---|
| Ingress group reconciler (v2) | `src/unnamed/part_002` | Controller-runtime reconciler. Takes one ingress group ID from the work queue, loads the group, adds the group finalizer to its members, builds and deploys the stack, resolves the load balancer ARN and removes the finalizer from inactive members. |
| Security group controller | `src/internal/alb/sg/security_group.go` | Reconciles and deletes one EC2 security group. The group is found by ID or by name. Its rules are diffed with the desired rules, then revoked and granted, or the group is created, authorized and tagged. |
| WAF ACL association | `src/pkg/alb/wafacl/wafacl.go` | Associates or disassociates a web ACL with the load balancer. |
| Route 53 lookups | `src/awsutil/route53.go` | Derives the zone of a host name, finds the zone ID with a cache, and looks up an existing record. |
| ALB ingress assembly (v1) | `src/unnamed/part_000` | Builds the ALB ingresses from cluster ingresses, or from AWS load balancers on start-up, concurrently. |
| Annotation parsing (v1) | `src/unnamed/part_001` | Parses ingress annotations: ports, scheme, tags, subnets and security groups. Subnet and security-group names are resolved through a shared cache. |
| Target group annotations | `src/internal/ingress/annotations/targetgroup/main.go` | Parses the target group annotations and merges them with defaults. |
| Listener types, tests | `src/internal/alb/ls/types.go`, `src/internal/alb/tg/targetgroups_test.go`, `src/internal/ingress/annotations/healthcheck/main_test.go`, `src/pkg/albingress/types.go` | Types and unit tests. |

The reconciler calls into a group loader, a finalizer manager, a model builder
and a stack deployer. None of these are under `src/`; the spec describes them.
The security group controller is driven by the v1 ingress sync, which calls it
again after every error.

## Modules

### `GroupReconciler`

This module models the reconciler (`part_002`) together with the cluster and the
cloud it acts on.

- **Cluster.** `exists`, `group`, `deleting` and `finalizers` for each ingress.
- **Cloud.** `cloud[g]` is the set of ingresses whose rules are deployed for
  group `g`. `lb[g]` says whether the group's load balancer exists.
- **Controller.** `up`, the work queue `dirty`, and `pc`, the program counter
  of the single worker (`MaxConcurrentReconciles: 1`). It also holds the group
  being reconciled and its loaded `members` and `inactive` members.

Each step of `Reconcile` is an action:

| Step | Action(s) | Notes |
|---|---|---|
| Load | `Load` | |
| AddGroupFinalizer | `AddGroupFinalizer`, `AddGroupFinalizerFails` | The failure adds a subset of the finalizers. It covers both a transient error and the API server refusing a finalizer on an object deleted since Load. |
| Build/Marshal | `Build`, `StepFails` | |
| Deploy | `Deploy`, `DeployFails` | The failure leaves a partial deploy. |
| LB ARN Resolve | `ResolveLB`, `ResolveLBFails` | Resolving can only succeed when the stack has a load balancer, that is, when the group has members. |
| RemoveGroupFinalizer | `RemoveGroupFinalizer`, `RemoveGroupFinalizerFails` | The failure removes a subset of the finalizers. An object being deleted goes away with its last finalizer. |

- Every error return of `Reconcile` is `EndWithError`, which requeues the group.
- Users create, regroup and delete ingresses: `CreateIngress`, `SetGroup`,
  `DeleteIngress`. The event handler enqueues the old and the new group, and
  the groups whose finalizer the ingress holds.
- `Crash` loses the queue. Events sent while the controller is down are lost.
- `Restart` models the informer's initial list: it enqueues the groups of all
  existing ingresses.
- The data is abstracted to membership. A rule is "the rules of ingress i in
  group g", and the load balancer is one boolean per group.

### `SecurityGroup`

This module models `security_group.go` and the EC2 side it calls.

- **EC2.** `live` (the existing groups), `perms[id][port]` (the CIDRs
  authorized on a port, merged per port as EC2 stores them) and `tags`.
- **Spec object.** `gid` (GroupID) and `desired` (InboundPermissions).
- **Call.** The step `pc` and the diff sets `toRevoke` and `toGrant`.

Each EC2 call of Reconcile and Delete is an action:

| Action | Code |
|---|---|
| `FindByID`, `FindByName` | `findExistingSGInstance` |
| `RevokeIngress`, `GrantIngress` | `reconcileByModifySGInstance` |
| `CreateGroup`, `CreateGroupLost`, `AuthorizeNew`, `TagGroup` | `reconcileByNewSGInstance` |
| `DeleteGroup` | `Delete` |

- `CallFails` fails any call.
- `CreateGroupLost` creates the group but loses the answer.
- The helpers `DiffIPPermissions`, `IpPermissionEquals` and `DiffIPRanges`
  translate the Go functions. Permission lists are sets, because the code only
  tests them for emptiness and passes them to EC2.
- The caller passes a fresh spec object (GroupID nil) or the previous one.

### `ALBIngresses`

This module models the v1 ingress list (`part_000`) and the sync loop that uses it.

- **State.** `k8s` and `bad` hold the cluster's ingresses and those whose
  annotations do not parse. `aws` holds the ingresses that have a load balancer.
  `known` and `hasNil` hold the controller's list: the IDs of its entries, and
  whether it has a nil entry.
- **Assembly.** On start, `AssembleIngressesFromAWS` runs one goroutine per
  load balancer. Each goroutine's `append` to the shared slice is two actions.
  `GoRead` reads the slice and `GoWrite` writes it back with one more entry.
  With no lock between them, two goroutines can lose an entry. `Assembled` is
  `wg.Wait()`.
- **Sync.** `Sync` builds the new list (`NewALBIngresses`, `NewHasNil`). It
  deletes the load balancers of `RemovedIngresses` and keeps the new list. It
  runs only when no lookup is certain to hit a nil entry (`MustPanic`).
- **Panics.** `SyncPanics` is a lookup that dereferences the nil entry. It
  restarts the process, as `Crash` does. `RemovedIngresses` walks the whole old
  list, so a nil entry in it always panics.
- **Users.** Users create and delete ingresses and break and fix annotations.
- The ALBController sync itself is not under `src/`. It is modelled from the
  spec.

### `LoadBalancerLifecycle`

This is the abstract specification of what the v1 controller promises about
the load balancers it owns. It has two variables: `ingresses`, the ingresses in
the cluster, and `lbs`, the ingresses that have a load balancer.

- `ChangeIngresses`: users change the ingresses, and the load balancers stay.
- `Reconcile`: one sync creates load balancers for some ingresses of the
  cluster and deletes some load balancers of ingresses that are not in it.

`ALBIngresses` instantiates it as `LB` with `ingresses <- k8s` and
`lbs <- aws`. `LoadBalancersRefined == LB!Spec` is checked as a temporal
property. Under this mapping, the goroutines, `Assembled`, the panics and the
restarts are stutters. A user edit is `ChangeIngresses`, and a `Sync` is a
`Reconcile`. The refinement says two things. A sync never creates a load
balancer for an ingress outside the cluster. It never deletes the load
balancer of an ingress in the cluster.

### `Route53`

This module models `route53.go` against zones and records that change.

- **Names.** A name is a sequence of labels. Route 53's record order compares
  names with their labels reversed (`RecordOrderLeq`, with `LexLeq` and
  `HostedIds`). These definitions model the service, not the controller, so
  they have no entry in the map. `GetDomain` keeps the last two labels.
- **Zone lookup.** `ZoneLookup` is `GetZoneID`. It uses the cache first, then
  looks for a zone with the exact name. A hit is cached, and `Expire` models the
  60-minute TTL.
- **Records.** `DescribeResourceRecordSets` returns the first record that is
  not below the host, or nil on an error. A deleted zone or an empty answer is
  an error.
- **Lookups.** `LookupExistingRecord` models the whole lookup, and
  `LookupFails` models a failed Route 53 call.
- **Zones.** A zone holds its apex record from creation until it is deleted.

### `WafAcl`

This module models `wafacl.go`.

- **State.** `w` is the `WafAcl` record with `current`, `desired` and
  `arnKnown`. `assoc` is the ACL that AWS associates with the load balancer.
- **Actions.** `NewWafAcl` builds a record as the code does, with
  `CurrentWafAclId` nil and the ARN only when the load balancer exists.
  `Reconcile(ok)` takes the switch's case (`Operation`). It then calls
  `Associate` or `Disassociate`, whose call succeeds or fails.
- **Environment.** Users change the annotation, and the load balancer is
  created after the record.

## Runs

| Run | Checks | Result and meaning |
|---|---|---|
| `group_safety` (`MCGroupReconciler.cfg`) | `TypeOK`, `NoOrphan` | Pass. No deployed rule and no load balancer is ever without a finalizer on an existing ingress. Two groups, two ingresses, 5 user edits, 2 API errors and 1 crash. |
| `group_convergence` (`MCGroupReconcilerLive.cfg`) | `CloudConverges` | Pass. Once users stop, the cloud matches the active members of every group. |
| `group_teardown` (`MCGroupReconcilerTeardown.cfg`) | `DeletedIngressReleased` | Violation. Deleting the last ingress of a group makes the reconcile fail at the ARN resolve on every retry, so the ingress is never released. |
| `sg_permissions` (`MCSecurityGroup.cfg`) | `TypeOK`, `ReconcileEstablishesPermissions` | Pass. A Reconcile that returns nil leaves exactly the desired rules. |
| `sg_tagging` | `ReconciledGroupIsTagged` | Violation. A group created by a reconcile that failed before `CreateTags` is adopted by name later and never tagged. |
| `sg_idempotence` | `ReconcileIsIdempotent` | Violation. Desired rules split over two IpPermissions of one port are revoked and re-granted on every reconcile. |
| `albingresses_safety` (`MCALBIngresses.cfg`) | `LoadBalancersRefined` | Pass. The controller implements `LoadBalancerLifecycle`: no sync creates a load balancer outside the cluster or deletes the load balancer of an ingress still in it. This covers restarts, racing goroutines, panics and broken annotations. For a broken ingress this holds only because the nil entry panics before anything is deleted. |
| `albingresses_orphan` | `OrphansEventuallyDeleted` | Violation. Two goroutines read the same slice and one load balancer is lost. Its ingress was deleted while no controller ran, so it is never deleted. |
| `albingresses_bad_annotation` | `ValidEventuallyServed` | Violation, with syncs and panics both fair. The load balancer of `a1` exists when the controller starts. Then `a1`'s annotations stop parsing. The assembled list holds `a1`, and the new list holds a nil entry in its place. Every sync must look `a1` up in the new list, so it panics. The restarted controller assembles the same list again, and `a2` never gets its load balancer. If `a1` has no load balancer yet, the nil entry panics at most once and `a2` is served. |
| `route53_sound` (`MCRoute53.cfg`) | `LookupIsSound` | Violation. For a host without a record, `LookupExistingRecord` returns the next record of the zone, which belongs to another host. |
| `wafacl_current` (`MCWafAcl.cfg`) | `CurrentIsAssociated` | Pass. A set `CurrentWafAclId` always names the ACL associated in AWS. |
| `wafacl_reconcile` (`MCWafAclRemove.cfg`) | `ReconcileEstablishesAcl` | Violation. A record rebuilt after the ACL was associated sees no ACL. After the annotation is removed, Reconcile returns nil and leaves the ACL associated. |

### Bounds and why they suffice

- **GroupReconciler.**
  - Two ingresses and two groups are enough to move an ingress between groups
    while the other group keeps a member.
  - Five edits are enough to create, regroup and delete.
  - Two failures and one crash reach every error path, with a crash between
    deploy and finalizer removal.
  - The ingresses are symmetric.
  - The liveness runs use one group and four edits, to keep the fair-behaviour
    graph small.
- **SecurityGroup.**
  - One port with two CIDRs exercises the per-port merge.
  - Two group IDs allow a second creation.
  - Two failures allow a lost create followed by a failed authorize.

- **ALBIngresses.**
  - Two ingresses are enough for two racing goroutines, and for one broken
    ingress beside a valid one.
  - Three or four user edits and one crash are enough for an ingress to be
    deleted while the controller is down.
- **Route53.**
  - Labels 1 and 2, names of up to three labels and two two-label zones.
  - Two zone IDs, so that a zone can be deleted and hosted again.
  - Three changes.
- **WafAcl.**
  - Two ACLs, so that an association can be modified.
  - Four edits.

### Fairness

Weak fairness is assumed for the worker's steps, the dequeue of each group, and
the restart of a crashed controller. The manager restarts the pod, and the
worker loops forever. Users and faults are not fair. `ResolveLBFails` is fair
because it is the only outcome of resolving an empty stack. A refused
AddGroupFinalizer is fair because the refusal is deterministic.

In `ALBIngresses`, the goroutines, `wg.Wait` and the periodic sync are weakly
fair, and so is `SyncPanics`. When `MustPanic` holds, a panic is the only outcome of the periodic sync, just as `ResolveLBFails` is the only outcome in the group reconciler. Users and crashes are not fair.

## Proofs

The prover checks every theorem for every value of the constants, from the
named assumptions of the modules that declare them (`SGAssumption`, for
example, says that `Nil` is not a group ID and that `MaxFailures` is a natural
number). Before each invariant proof was written, TLC checked the inductive
invariant as an invariant of the passing run.

### `GroupReconcilerProofs`

- `TypeCorrect`: `Spec => []TypeOK`, from the inductive step `TypeInductive`.
- `NoOrphanHolds`: `Spec => []NoOrphan`, for every set of ingresses and
  groups and every bound.

`NoOrphan` is not inductive by itself. It is strengthened to `IInv`, defined in
`GroupReconciler`, which adds these conjuncts:

- `MembersHoldFinalizer`: once AddGroupFinalizer has succeeded, every loaded
  member exists and holds the finalizer.
- `MembersNotInactive`: the loaded members and the inactive members are
  disjoint.
- `DeployedIsMembers`: after Deploy, the group's rules are exactly the loaded
  members.
- `ReleaseOnlyNonEmpty`: RemoveGroupFinalizer runs only for a group with
  members.
- `GoneHoldsNothing`: an object that is gone holds no finalizer.

The lemma `ReleaseSafe` shows that dropping the finalizer from any subset of the
inactive members keeps `NoOrphan`. It covers both the successful and the partly
failed RemoveGroupFinalizer. `IInvInductive` has one case per action.

### `ALBIngressesProofs`

- `TypeCorrect`: `Spec => []TypeOK`.
- `Refinement`: `Spec => LoadBalancersRefined`, for every set of ingress IDs
  and every bound. It rests on two lemmas.
  - `SyncDeletesOnlyGone`: a sync that does not panic deletes no load balancer
    of an ingress still in the cluster. An ingress of the cluster that is
    missing from the new list has bad annotations. The new list then holds a
    nil entry, and the lookup of a known entry reaches it, so `MustPanic`
    holds.
  - `StepRefines`: every step maps to a step of `LoadBalancerLifecycle` or a
    stutter. A `Sync` maps to `Reconcile`, with `create` the new list and
    `delete` the removed ingresses that have a load balancer.

### `WafAclProofs`

- `CurrentIsAssociatedHolds`: `Spec => []CurrentIsAssociated`. It is proved
  from the invariant `TypeOK /\ CurrentIsAssociated`, which is inductive.
  Reconcile has one case for each arm of `Operation`.

### `SecurityGroupProofs`

- `ReconcileEstablishesPermissionsHolds`:
  `Spec => []ReconcileEstablishesPermissions`, for every set of ports, CIDR
  ranges and group IDs.
- `TypeCorrect`: `Spec => []TypeOK`. `TypeOK` is not inductive by itself.
  `mutations` stays within `0..2` only because a call makes at most a revoke
  and a grant (`CallShape`). The group that RevokeIngress and GrantIngress
  change is a group ID only because it is the existing group the find step
  chose (`RevokeStepDiffs`, `GrantStepCompletes`). Both theorems follow from
  `IInvHolds` (`Spec => []IInv`).

The invariant is strengthened to `IInv`, defined in `SecurityGroup`, which
adds what each step of a running call knows:

- `RevokeStepDiffs`: before the revoke, the two diffs are those of the
  group's current rules.
- `GrantStepCompletes`: after the revoke, granting `toGrant` gives exactly
  the desired rules.
- `NewPathRules`: a created group has no rules before AuthorizeNew and the
  desired ones after it.
- `CallShape`: every step belongs to the call that `lastOp` names.

The key lemma is `DiffRepairs`. For any rules of a port, take the described
rules that match no desired permission and revoke them, then grant the
desired permissions that match no described one. The result is exactly the
desired ranges of that port. The proof splits on three cases: the port has no
rules, its merged rule is one of the desired ones, or it is not. The lemma
relies on `EqualsIsEquality` (`ipPermissionEquals` is equality) and on
`DescribedPerms` (Describe returns one permission per port, with all of its
ranges). `TypeInductive` and `KnowsInductive` have one case per action.

### Only model-checked

- Liveness (`CloudConverges`), which is out of reach of the prover's fairness
  reasoning. Its proof would need `ENABLED` and well-founded arguments over
  the queue, which the installed backends do not handle.
- The properties of the violation runs, which TLC refutes.

## Not modelled

- Annotation parsing (`part_001`) and the target group annotations are pure
  parsing and validation.
- The listener and ALB ingress types are declarations only.
- The two test files are tests.
- The Route 53 zone cache's staleness is in the model (`Expire`), but no run
  checks it. A zone deleted and hosted again under a new ID fails lookups only
  until the entry expires.
