--------------------------- MODULE MCNodeRemoval ---------------------------
(* Small instances of NodeRemoval.                                         *)
EXTENDS NodeRemoval

CONSTANTS cp1, cp2, cp3, w1

Empty == {}

ThreePlanes == {cp1, cp2, cp3}
ThreeEndpoints == <<cp1, cp2, cp3>>

TwoPlanes == {cp1, cp2}
TwoEndpoints == <<cp1, cp2>>
PlanesAndWorker == {cp1, cp2, w1}

BusyPlane == {cp1}
BusyWorker == {w1}

\* Without is the loop of filterExclude.
Lists == UNION {[1 .. k -> {cp1, cp2, cp3}] : k \in 0 .. 4}
ASSUME FilterAssumption ==
    \A list \in Lists, n \in {cp1, w1} :
        Without(list, n) = SelectSeq(list, LAMBDA e : e # n)

=============================================================================
