---------------------------- MODULE Decommission ----------------------------
(***************************************************************************)
(* What the deletion of TalosNodes promises, without the controller: no     *)
(* worker, no copies, no attempts, no failures (docs/features.md, "Node    *)
(* Deletion").  Nothing happens to a node that nobody asked to delete.  Of *)
(* the others, the Kubernetes node goes only once it is empty; etcd        *)
(* membership and disks only while another control plane is spared, or the *)
(* cluster is gone; the TalosNode only after its machine configuration.    *)
(***************************************************************************)
CONSTANTS Nodes, ControlPlanes

VARIABLES
    state,    \* of a TalosNode: "serving", "leaving" or "gone"
    open,     \* the TalosCluster exists
    objects,  \* the nodes Kubernetes knows
    loaded,   \* the nodes with evictable pods
    members,  \* of etcd
    wiped,    \* the nodes whose disks were wiped
    configs   \* the nodes whose machine configuration is stored

vars == <<state, open, objects, loaded, members, wiped, configs>>

Init ==
    /\ state = [n \in Nodes |-> "serving"]
    /\ open = TRUE
    /\ objects = Nodes
    /\ loaded = {}
    /\ members = ControlPlanes
    /\ wiped = {}
    /\ configs = Nodes

\* Another control plane keeps etcd alive, or nobody needs it any more.
Dispensable(n) ==
    open => \E m \in ControlPlanes \ {n} : m \in members /\ m \notin wiped

Request(n) ==
    /\ state[n] = "serving"
    /\ state' = [state EXCEPT ![n] = "leaving"]
    /\ UNCHANGED <<open, objects, loaded, members, wiped, configs>>

Load(n) ==
    /\ n \in objects
    /\ loaded' = loaded \cup {n}
    /\ UNCHANGED <<state, open, objects, members, wiped, configs>>

Unload(n) ==
    /\ loaded' = loaded \ {n}
    /\ UNCHANGED <<state, open, objects, members, wiped, configs>>

DropObject(n) ==
    /\ state[n] # "serving"
    /\ n \notin loaded
    /\ objects' = objects \ {n}
    /\ UNCHANGED <<state, open, loaded, members, wiped, configs>>

LeaveEtcd(n) ==
    /\ state[n] # "serving"
    /\ Dispensable(n)
    /\ members' = members \ {n}
    /\ UNCHANGED <<state, open, objects, loaded, wiped, configs>>

Erase(n) ==
    /\ state[n] # "serving"
    /\ Dispensable(n)
    /\ wiped' = wiped \cup {n}
    /\ UNCHANGED <<state, open, objects, loaded, members, configs>>

DropConfig(n) ==
    /\ state[n] # "serving"
    /\ configs' = configs \ {n}
    /\ UNCHANGED <<state, open, objects, loaded, members, wiped>>

Forget(n) ==
    /\ state[n] = "leaving"
    /\ n \notin configs
    /\ state' = [state EXCEPT ![n] = "gone"]
    /\ UNCHANGED <<open, objects, loaded, members, wiped, configs>>

Close ==
    /\ open' = FALSE
    /\ UNCHANGED <<state, objects, loaded, members, wiped, configs>>

Next ==
    \/ Close
    \/ \E n \in Nodes :
         \/ Request(n) \/ Load(n) \/ Unload(n) \/ DropObject(n)
         \/ LeaveEtcd(n) \/ Erase(n) \/ DropConfig(n) \/ Forget(n)

Spec == Init /\ [][Next]_vars

=============================================================================
