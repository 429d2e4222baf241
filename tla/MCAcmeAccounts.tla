---------------------------- MODULE MCAcmeAccounts ----------------------------
(* Instances of AcmeAccounts: one run by an access record, one by the        *)
(* global settings; ZeroSSL hands out credentials, the second CA does not.   *)
EXTENDS AcmeAccounts

CONSTANTS r1, r2, zerossl, google

TheAccess == [a \in Accesses |-> zerossl]
TheSources == [r \in Runs |-> IF r = r1 THEN "access" ELSE Global]

\* At most one node, or the e-mail credentials are asked with, is of no use.
MCInit ==
    /\ Init
    /\ badMail \subseteq OfferingCAs
    /\ Cardinality(unfit) + Cardinality(badMail) <= 1

MCSpec ==
    /\ MCInit /\ [][Next]_vars
    /\ \A r \in Runs : WF_vars(RunSteps(r))
    /\ \A c \in CAs : WF_vars(FlightSteps(c))
    /\ \A p \in Pages : WF_vars(OnSettingsSaved(p))
===============================================================================
