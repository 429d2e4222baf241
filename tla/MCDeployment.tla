----------------------------- MODULE MCDeployment -----------------------------
(***************************************************************************)
(* Instances of Deployment for TLC: the routes of every deployer.          *)
(***************************************************************************)
EXTENDS Deployment, TLC

CONSTANTS t1, t2, t3

Clouds == INSTANCE CloudDeployers
Services == INSTANCE ServiceDeployers

MCRoutes == Clouds!CloudRoutes \cup Services!ServiceRoutes
MCTargets == {t1, t2, t3}
\* The routes that replace a listener's certificate by SNI, and those that do not
\* keep a setting.
UalbRoutes == {r \in Clouds!UcloudUalb : Has(r, "detach")}
WafRoutes == {r \in Clouds!AliyunWaf : Has(r, "reset")}

\* The targets that are not meant have the one certificate they were given, and
\* one target has one for other names.
MCInit ==
    /\ Init
    /\ \A t \in Targets \ wanted : bound[t] = {"old"}
    /\ Cardinality({t \in Targets : "foreign" \in bound[t]}) <= 1
MCSpec == MCInit /\ [][Next]_vars
MCFairSpec ==
    /\ MCSpec
    /\ WF_vars(Program)
    /\ \A t \in Targets : WF_vars(JobEnds(t))
MCTwoTargets == {t1, t2}
Symmetry == Permutations(MCTargets)
=============================================================================
