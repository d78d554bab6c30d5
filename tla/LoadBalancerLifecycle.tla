------------------------ MODULE LoadBalancerLifecycle ------------------------
(***************************************************************************)
(* What the ingress controller promises about the load balancers it owns,  *)
(* whatever its list, its restarts and its goroutines do: a step of the    *)
(* controller creates (or updates) load balancers only for ingresses that  *)
(* are in the cluster, and deletes load balancers only of ingresses that   *)
(* are not.  Users change the ingresses; the controller's steps do not.    *)
(***************************************************************************)
CONSTANT Ids          \* ingress IDs

VARIABLES
    ingresses,        \* ingresses in the cluster
    lbs               \* ingresses that have a load balancer

Init ==
    /\ ingresses \subseteq Ids
    /\ lbs \subseteq Ids

(* Users create and delete ingresses.                                      *)
ChangeIngresses ==
    /\ ingresses' \subseteq Ids
    /\ UNCHANGED lbs

(* One sync: create the load balancers of some ingresses of the cluster,   *)
(* delete some load balancers of ingresses that are gone.                  *)
Reconcile ==
    /\ \E create \in SUBSET ingresses, delete \in SUBSET (lbs \ ingresses) :
          lbs' = (lbs \ delete) \cup create
    /\ UNCHANGED ingresses

Next == ChangeIngresses \/ Reconcile

Spec == Init /\ [][Next]_<<ingresses, lbs>>

=============================================================================
