------------------------- MODULE MCCertificateOrders -------------------------
(***************************************************************************)
(* Instance of CertificateOrders for TLC: every row of Challengers, a name *)
(* and its wildcard, with and without following a CNAME.                   *)
(***************************************************************************)
EXTENDS CertificateOrders, TLC

CONSTANTS o1, o2, apex, wild, direct, aliased, own, alias, zone, aliasZone

Rows == INSTANCE Challengers

MCOrders == {o1, o2}
MCPlaceOf == [a \in {apex, wild} |-> [s \in {direct, aliased} |->
                  IF s = direct THEN own ELSE alias]]
MCZoneOf == [p \in {own, alias} |-> IF p = own THEN zone ELSE aliasZone]
MCChallengers == Rows!AllChallengers
\* Both orders are for the name, the first for its wildcard too.
MCAuthorizationsOf == [o \in MCOrders |-> IF o = o1 THEN {apex, wild} ELSE {apex}]

\* The first order's setting differs from lego's default; the other's matters
\* in a shared process only.  Of the ways to wait, those that tell the
\* challengers apart: a zone that is not slow, one that is waited for by the
\* means that works with the challenger, and one that is not.
MCInit ==
    /\ Init
    /\ scene.wish[o1] # Default
    /\ scene.multi => scene.wish[o2] = Default
    /\ scene.patient => scene.slow
    /\ scene.sleeps <=> scene.patient /\ ~scene.challenger.timeout
MCSpec == MCInit /\ [][Next]_vars
=============================================================================
