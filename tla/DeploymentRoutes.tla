--------------------------- MODULE DeploymentRoutes ---------------------------
(***************************************************************************)
(* The vocabulary in which CloudDeployers and ServiceDeployers say what    *)
(* each deployer of pkg/core/deployer/providers does.  A deployer is a set *)
(* of routes, one per way its configuration can send it; Deployment is the *)
(* machine that runs a route against an account.                           *)
(*                                                                         *)
(* The targets of a route are the domains, listeners, sites, functions,    *)
(* buckets or files it deploys to.                                         *)
(*                                                                         *)
(*   upload  "never", "first" (before the targets are looked for), "late"  *)
(*           (after), or with a manager that does not look at the error of *)
(*           its request: "blindly"                                        *)
(*   pick    the targets: the "one" or the "some" the configuration names, *)
(*           the "named" ones the listing shows too, the listed ones that  *)
(*           "match" the configured wildcard, the certificate's names or   *)
(*           the balancer, "every" listed one, or "nothing" at all         *)
(*   list    how the account is listed: "none", in "once" request, by page *)
(*           number or offset until a page is short ("pages"), following a *)
(*           cursor ("token"), and three that go wrong: the offset grows   *)
(*           by one instead of a page ("slide"), the page size grows       *)
(*           instead of its number ("grow"), the page number is never sent *)
(*           ("stuck")                                                     *)
(*   none    no target found is an "error" or "ok"                         *)
(*   bound   targets that the listing shows as bound to the certificate    *)
(*           are "kept", "dropped" once the others are known, or "hidden"  *)
(*           by the listing itself                                         *)
(*   loop    the targets are updated one after the other whatever fails    *)
(*           ("each", xloop.ForRangeAllWithContext), a few per request     *)
(*           ("chunks") or in one request ("batch")                        *)
(*   steps   the requests of one update, in order, the first error ending  *)
(*           it:                                                           *)
(*     read, peek, glance                                                  *)
(*                   the target is read; peek goes on when there is none,  *)
(*                   glance also when the reading fails                    *)
(*     lookup        those of its certificates that the service has synced *)
(*     readBound     the target is read, and none is an error; those that  *)
(*                   lookup left out are left out                          *)
(*     recall        what the listing showed of it is taken for a reading  *)
(*     skip          the update ends when what was read has the            *)
(*                   certificate                                           *)
(*     set           the target's certificate is replaced, nothing else    *)
(*     write         the configuration read is written back with the       *)
(*                   certificate in it                                     *)
(*     cas           so, if the target is as it was read                   *)
(*     reset         so, with the default of a setting for what was read   *)
(*     merge         the list of certificates read is written back with    *)
(*                   the certificate in the place of the one it replaces   *)
(*     mergeAny      so, only in the places of entries for the same names  *)
(*     replaceAny    the entries for the same names are replaced, however  *)
(*                   many there are; replaceOrFail if there is one         *)
(*     append        the list of certificates read is written back with    *)
(*                   the certificate added                                 *)
(*     writeAny      the configuration read is written back with the       *)
(*                   entries for the same names replaced                   *)
(*     place         the entry for the same names that was read is         *)
(*                   replaced, or one is added                             *)
(*     attach, clear the certificate is added; every one read is removed   *)
(*     detach        the one it replaces is removed, if it was read        *)
(*     find, tryFind the certificates read are looked up, to know the one  *)
(*                   to detach; tryFind goes on when that fails            *)
(*     submit, await a job that replaces the certificate is created; its   *)
(*                   end is waited for, and its failure is an error        *)
(*     awaitAnyEnd   its failure is taken for a success                    *)
(*     key, crt      the two files of a pair are written                   *)
(*     call          a request, command or session that leaves the target  *)
(*                   as it is (creating a certificate inline, restarting)  *)
(***************************************************************************)
EXTENDS Sequences

\* A deployment to the one target the configuration names.
Base ==
    [upload |-> "never", pick |-> "one", list |-> "none", none |-> "error",
     bound |-> "kept", loop |-> "each", steps |-> <<>>]

One(steps) == {[Base EXCEPT !.steps = steps]}
Some(steps) == {[Base EXCEPT !.pick = "some", !.steps = steps]}
Listed(pick, list, steps) ==
    {[Base EXCEPT !.pick = pick, !.list = list, !.steps = steps]}
Matched(list, steps) == Listed("match", list, steps)
Named(list, steps) == Listed("named", list, steps)

\* By the domain match pattern: "exact" is the configured domain, "wildcard"
\* and "certsan" filter the listing.
Domains(list, steps) == One(steps) \cup Matched(list, steps)
\* The same where the configured domain is looked for in the listing.
LookedUpDomains(list, steps) == Named(list, steps) \cup Matched(list, steps)

\* Modifiers of every route of a set.
NoneIsFine(routes) == {[r EXCEPT !.none = "ok"] : r \in routes}
DroppingBound(routes) == {[r EXCEPT !.bound = "dropped"] : r \in routes}
HidingBound(routes) == {[r EXCEPT !.bound = "hidden"] : r \in routes}
Together(routes) == {[r EXCEPT !.loop = "batch"] : r \in routes}
InChunks(routes) == {[r EXCEPT !.loop = "chunks"] : r \in routes}

\* By the resource type: the listeners of a load balancer, read and listed
\* (none is fine), or the configured listener; each updated in one of the ways.
Balancers(list, ways) ==
    UNION {One(steps) \cup NoneIsFine(Matched(list, steps)) : steps \in ways}

\* The routes of a deployer that stores the certificate with a manager of
\* CertificateStores, before or after it looks for its targets.
UploadsWith(store, routes) ==
    {[r EXCEPT !.upload = IF store.unchecked THEN "blindly" ELSE "first"] : r \in routes}
UploadsLate(store, routes) ==
    {[r EXCEPT !.upload = "late"] : r \in {q \in routes : ~store.unchecked}}

\* Storing is all there is to do; or the entry whose identifier is configured
\* is the target, and Replace puts the certificate in it.
StoresWith(store) == UploadsWith(store, {[Base EXCEPT !.pick = "nothing"]})
ReplacesWith(store) == One(store.replace)
=============================================================================
