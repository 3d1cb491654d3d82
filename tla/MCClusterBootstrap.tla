------------------------- MODULE MCClusterBootstrap -------------------------
(* Small instances of ClusterBootstrap.                                    *)
EXTENDS ClusterBootstrap

CONSTANTS a, b

MCMachines == {a, b}
MCEndpoints == <<a, b>>

=============================================================================
