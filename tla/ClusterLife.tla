---------------------------- MODULE ClusterLife ----------------------------
(***************************************************************************)
(* What the other controllers may rely on of a TalosCluster: the Secrets    *)
(* they read are removed only when the cluster is being deleted and no      *)
(* TalosNode is left that nobody asked to delete, they do not come back,    *)
(* and the cluster goes after the last of them.                             *)
(***************************************************************************)
CONSTANTS
    Nodes,   \* the TalosNodes that reference the cluster
    Kinds    \* the Secrets of a cluster that are of interest

VARIABLES
    open,     \* the TalosCluster exists
    closing,  \* its controller has set to tearing it down
    live,     \* the TalosNodes its controller sees and that are not being deleted
    stored    \* the Secrets that exist

vars == <<open, closing, live, stored>>

Init ==
    /\ open = TRUE
    /\ closing = FALSE
    /\ live = Nodes
    /\ stored \subseteq Kinds

Issue(k) ==
    /\ open /\ ~closing
    /\ stored' = stored \cup {k}
    /\ UNCHANGED <<open, closing, live>>

StartClosing ==
    /\ closing' = TRUE
    /\ UNCHANGED <<open, live, stored>>

Revoke(k) ==
    /\ closing /\ live = {}
    /\ stored' = stored \ {k}
    /\ UNCHANGED <<open, closing, live>>

Close ==
    /\ stored = {}
    /\ open' = FALSE
    /\ UNCHANGED <<closing, live, stored>>

NodesLeave ==
    /\ live' \subseteq live
    /\ UNCHANGED <<open, closing, stored>>

Next ==
    \/ StartClosing \/ Close \/ NodesLeave
    \/ \E k \in Kinds : Issue(k) \/ Revoke(k)

Spec == Init /\ [][Next]_vars

=============================================================================
