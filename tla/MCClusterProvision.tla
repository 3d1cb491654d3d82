------------------------- MODULE MCClusterProvision -------------------------
(* Small instances of ClusterProvision.                                    *)
EXTENDS ClusterProvision

CONSTANTS v1, bad, n1, n2

MCVersions == {v1, bad}
MCBadVersions == {bad}
MCNodes == {n1, n2}

=============================================================================
