----------------------------- MODULE Migrations -----------------------------
(* The upgrade of a stored installation to this release (migrations/).  It     *)
(* runs once, when the program starts, before any run: in one transaction, the *)
(* files in the order of their names, each recorded under its name (PocketBase *)
(* does that, it is external).  There is nothing to interleave, so the module  *)
(* is made of operators, and what an upgrade promises is stated as             *)
(* assumptions about them, which TLC evaluates.                                *)
(*                                                                             *)
(* Rows and configurations are functions from a name to a value.  "null" is a  *)
(* JSON null, and "" the empty text; a name outside the domain is not there.   *)
EXTENDS Integers, Sequences, FiniteSets

Get(c, k) == IF k \in DOMAIN c THEN c[k] ELSE "null"
Has(c, k) == Get(c, k) \notin {"null", ""}
Drop(c, ks) == [k \in DOMAIN c \ ks |-> c[k]]
Put(c, k, v) == [x \in DOMAIN c \cup {k} |-> IF x = k THEN v ELSE c[x]]
\* config[to] = config[from]; delete(config, from)
Move(c, from, to) == Drop(Put(c, to, Get(c, from)), {from})
MoveIf(c, from, to) == IF from \in DOMAIN c THEN Move(c, from, to) ELSE c
-----------------------------------------------------------------------------
(* Which files run.  The files up to v0.4.6 have been renamed since they were  *)
(* released, so each looks for its former name first, and the former names are *)
(* removed by the files that end with "clean old migrations".                  *)

NoName == "none"
OldNames == <<"m0.4.0_migrate", "m0.4.0_initialize", "m0.4.1", "m0.4.3", "m0.4.4", "m0.4.5",
              "m0.4.6">>
Former == {OldNames[i] : i \in DOMAIN OldNames}
File(name, guard, cleans) == [name |-> name, guard |-> guard, cleans |-> cleans]
Files ==
  << File("upgrade_v0.4.0", "m0.4.0_migrate", {}),
     File("initialize_v0.4.0", "m0.4.0_initialize", Former \cup {"v0.3"}),
     File("upgrade_v0.4.1", "m0.4.1", {}), File("upgrade_v0.4.3", "m0.4.3", {}),
     File("upgrade_v0.4.4", "m0.4.4", {}), File("upgrade_v0.4.5", "m0.4.5", {}),
     File("upgrade_v0.4.6", "m0.4.6", {}), File("upgrade_v0.4.11", NoName, Former),
     File("upgrade_v0.4.12", NoName, {}), File("upgrade_v0.4.13", NoName, {}),
     File("upgrade_v0.4.14", NoName, {}), File("upgrade_v0.4.15", NoName, {}),
     File("upgrade_v0.4.23", NoName, {}), File("upgrade_v0.4.25", NoName, {}),
     File("upgrade_v0.4.29", NoName, {}), File("upgrade_v0.4.33", NoName, {}) >>

\* One file: skipped when it is recorded, recorded without effect when its former
\* name is, and applied otherwise.
RunFile(s, f) ==
  IF f.name \in s.recorded THEN s
  ELSE IF f.guard \in s.recorded THEN [s EXCEPT !.recorded = @ \cup {f.name}]
  ELSE [recorded |-> (s.recorded \ f.cleans) \cup {f.name}, applied |-> Append(s.applied, f.name)]
RunFiles(recorded) ==
  LET after[i \in 0..Len(Files)] ==
        IF i = 0 THEN [recorded |-> recorded, applied |-> <<>>]
                 ELSE RunFile(after[i - 1], Files[i])
  IN  after[Len(Files)]

\* What is recorded in the installations there are: a new one, one of a release
\* before v0.4, one of a release that used the former names (v0.4.0 had two), and
\* one of v0.4.11 or later, whose files have been applied up to the i-th.
Names(seq, m, n) == {seq[i] : i \in m..n}
NameOf == [i \in DOMAIN Files |-> Files[i].name]
Installations ==
  {[recorded |-> {}, has |-> 0], [recorded |-> {"v0.3"}, has |-> 0]}
    \cup {[recorded |-> Names(OldNames, 1, i), has |-> i] : i \in 2..Len(OldNames)}
    \cup {[recorded |-> Names(NameOf, 1, i), has |-> i] : i \in 8..Len(Files)}

\* From whatever release an installation comes, every change of data it has not
\* seen is made exactly once and in order, none it has seen is made again, and a
\* second start makes none.
ASSUME EachChangeIsMadeOnce ==
  \A i \in Installations :
    LET up == RunFiles(i.recorded) IN
    /\ up.applied = SubSeq(NameOf, i.has + 1, Len(Files))
    /\ up.recorded = Names(NameOf, 1, Len(Files))
    /\ RunFiles(up.recorded) = [recorded |-> up.recorded, applied |-> <<>>]
-----------------------------------------------------------------------------
(* The nodes of a graph.  own is the node's configuration but for the provider *)
(* and config, the providerConfig; Unset when there is none.                   *)

Unset == [unset |-> "null"]
Within(n, F(_)) == IF n.config = Unset THEN n ELSE [n EXCEPT !.config = F(@)]

\* Visit: the blocks of a node are visited once for each visitor, so with v
\* visitors a node that is nested d levels deep is visited v^d times.
Visits(visitors, depth) == visitors ^ depth
Times(n, F(_), k) == LET t[i \in 0..k] == IF i = 0 THEN n ELSE F(t[i - 1]) IN t[k]

V041(n) == IF n.type = "bizDeploy" /\ n.provider = "local"
             THEN [n EXCEPT !.own = Drop(@, {"providerAccessId"})] ELSE n

V043Apply(n) == IF n.type = "bizApply" /\ ~ Has(n.own, "keySource")
                  THEN [n EXCEPT !.own = Put(@, "keySource", "auto")] ELSE n
V043Upload(n) == IF n.type = "bizUpload" /\ ~ Has(n.own, "source")
                   THEN [n EXCEPT !.own = Put(@, "source", "form")] ELSE n
V043(n) == V043Upload(V043Apply(n))

V044(n) == [n EXCEPT !.provider = IF @ = "hostingDE" THEN "hostingde" ELSE @]

\* The cases of baishan-cdn and ksyun-cdn are empty: they do not fall through to
\* the one of rainyun-rcdn.
V045(n) ==
  LET Target(c) == Put(c, "resourceType", IF Has(c, "certificateId") THEN "certificate"
                                                                     ELSE "domain")
      Waf(c) == Put(c, "serviceType", "cname")
      Product(c) == Move(c, "resourceType", "resourceProduct")
      Products(c) == Move(c, "resourceTypes", "resourceProducts")
  IN CASE n.type # "bizDeploy" -> n
       [] n.provider = "aliyun-waf" -> Within(n, Waf)
       [] n.provider = "rainyun-rcdn" -> Within(n, Target)
       [] n.provider = "tencentcloud-ssldeploy" -> Within(n, Product)
       [] n.provider = "tencentcloud-sslupdate" -> Within(n, Products)
       [] OTHER -> n
\* REPLACE of the quoted key, in every graph and output
MatchPattern(n) == LET Renamed(c) == MoveIf(c, "matchPattern", "domainMatchPattern")
                   IN  Within(n, Renamed)

V046(n) ==
  LET Sites(c) == IF Has(c, "siteNames") THEN c ELSE Move(c, "siteName", "siteNames")
      Website(c) == IF Has(c, "websiteId") THEN Put(c, "websiteMatchPattern", "specified") ELSE c
      Panel(c) == Sites(IF Get(c, "siteType") \in {"null", "other"} THEN Put(c, "siteType", "any")
                                                                    ELSE c)
      PanelGo(c) == IF Has(c, "siteNames") THEN c ELSE Put(Sites(c), "siteType", "php")
  IN CASE n.type # "bizDeploy" -> n
       [] n.provider = "1panel-site" -> Within(n, Website)
       [] n.provider = "baotapanel-site" -> Within(n, Panel)
       [] n.provider = "baotapanelgo-site" -> Within(n, PanelGo)
       [] n.provider \in {"baotawaf-site", "ratpanel-site"} -> Within(n, Sites)
       [] n.provider = "safeline" -> [n EXCEPT !.provider = "safeline-site"]
       [] OTHER -> n

V0411Apply(n) ==
  IF n.type = "bizApply" /\ ~ Has(n.own, "identifier") /\ Has(n.own, "domains")
    THEN [n EXCEPT !.own = Put(@, "identifier", IF @["domains"] = "1.2.3.4" THEN "ip"
                                                                           ELSE "domain")]
    ELSE n
V0411Upload(n) == IF n.type = "bizUpload" THEN [n EXCEPT !.own = Drop(@, {"domains"})] ELSE n
V0411(n) == V0411Upload(V0411Apply(n))

V0413(n) ==
  LET Website(c) == Put(c, "resourceType", "website")
      Site(c) == IF Get(c, "resourceType") = "site" THEN Website(c) ELSE c
      Called(p, m) == [m EXCEPT !.provider = p]
  IN CASE n.type # "bizDeploy" -> n
       [] n.provider = "1panel-site" -> Called("1panel", n)
       [] n.provider = "baotapanel-site" -> Called("baotapanel", n)
       [] n.provider = "baotapanelgo-site" -> Called("baotapanelgo", n)
       [] n.provider = "baotawaf-site" -> Called("baotawaf", n)
       [] n.provider = "safeline-site" -> Called("safeline", n)
       [] n.provider = "cdnfly" -> Within(n, Site)
       [] n.provider = "cpanel-site" -> Called("cpanel", Within(n, Website))
       [] n.provider = "netlify-site" -> Called("netlify", Within(n, Website))
       [] n.provider = "ratpanel-site" -> Called("ratpanel", Within(n, Website))
       [] OTHER -> n

V0415(n) ==
  IF n.type # "bizDeploy" \/ n.provider # "rainyun-rcdn" \/ n.config = Unset THEN n
  ELSE IF Get(n.config, "resourceType") = "certificate"
    THEN [n EXCEPT !.provider = "rainyun-sslcenter",
                   !.config = Drop(@, {"resourceType", "instanceId", "domainMatchPattern",
                                       "domain"})]
    ELSE [n EXCEPT !.config = Drop(@, {"resourceType", "certificateId"})]

\* The providers whose deployment has a target of several kinds.
Targeted == {"1panel", "aliyun-alb", "aliyun-clb", "aliyun-ga", "aliyun-nlb", "apisix",
             "baiducloud-appblb", "baiducloud-blb", "baishan-cdn", "cdnfly", "cpanel",
             "ctcccloud-elb", "flexcdn", "goedge", "huaweicloud-apig", "huaweicloud-elb",
             "huaweicloud-waf", "jdcloud-alb", "kong", "ksyun-cdn", "ksyun-slb", "lecdn",
             "netlify", "nginxproxymanager", "ratpanel", "safeline", "samwaf",
             "tencentcloud-clb", "tencentcloud-gaap", "ucloud-uclb", "volcengine-alb",
             "volcengine-clb", "zenlayer-cdn", "zenlayer-ga"}
FileKeys == [format |-> "fileFormat", keyPath |-> "filePathForKey", certPath |-> "filePathForCrt",
             certPathForServerOnly |-> "filePathForCrtOnlyServer",
             certPathForIntermediaOnly |-> "filePathForCrtOnlyIntermedia"]
ObjectKeys == [format |-> "fileFormat", keyObjectKey |-> "objectKeyForKey",
               certObjectKey |-> "objectKeyForCrt",
               certObjectKeyForServerOnly |-> "objectKeyForCrtOnlyServer",
               certObjectKeyForIntermediaOnly |-> "objectKeyForCrtOnlyIntermedia"]
V0423(n) ==
  LET All(c, keys) ==
        IF ~ Has(c, "format") THEN c
        ELSE [k \in (DOMAIN c \ DOMAIN keys) \cup {keys[x] : x \in DOMAIN keys} |->
                IF \E x \in DOMAIN keys : keys[x] = k
                  THEN Get(c, CHOOSE x \in DOMAIN keys : keys[x] = k) ELSE c[k]]
      Paths(c) == All(c, FileKeys)
      Objects(c) == All(c, ObjectKeys)
      Target(c) == IF Has(c, "resourceType") THEN Move(c, "resourceType", "deployTarget") ELSE c
      Region(c) == IF Has(c, "region") THEN Move(c, "region", "resourceRegion") ELSE c
  IN CASE n.type # "bizDeploy" -> n
       [] n.provider \in {"ftp", "local", "ssh"} -> Within(n, Paths)
       [] n.provider = "s3" -> Within(n, Objects)
       [] n.provider \in Targeted -> Within(n, Target)
       [] n.provider = "tencentcloud-ssldeploy" -> Within(n, Region)
       [] OTHER -> n

\* A node of a graph of v0.4.0 in this release, and the configuration that an
\* output of v0.4.0 recorded for the same node: fewer files change the outputs.
UpgradedNode(n) == V0423(V0415(V0413(V0411(V046(MatchPattern(V045(V044(V043(V041(n))))))))))
OutputV045(n) ==
  LET Product(c) == MoveIf(c, "resourceType", "resourceProduct")
  IN IF n.provider \in {"tencentcloud-ssldeploy", "tencentcloud-sslupdate"} THEN Within(n, Product)
                                                                           ELSE n
OutputV046(n) ==
  LET Sites(c) == MoveIf(c, "siteName", "siteNames")
  IN Within([n EXCEPT !.provider = IF @ = "safeline" THEN "safeline-site" ELSE @], Sites)
UpgradedOutput(n) == OutputV046(OutputV045(MatchPattern(n)))
-----------------------------------------------------------------------------
(* What the upgrade of the nodes promises, over nodes that v0.4.0 could store: *)
(* the forms of ftp, local, ssh and s3 nodes always give a format.             *)

Settings(keys) == UNION {[K -> {"", "x"}] : K \in SUBSET keys}
Deploys(p, configs) == [type : {"bizDeploy"}, provider : {p}, own : {<<>>}, config : configs]
With(k, vs, configs) == {Put(c, k, v) : c \in configs, v \in vs}
LegacyDeploys ==
  UNION {Deploys(p, With("format", {"PEM"}, Settings({"keyPath", "certPath"}))) :
           p \in {"ftp", "local", "ssh"}}
  \cup Deploys("s3", With("format", {"PEM"}, Settings({"keyObjectKey", "certObjectKey"})))
  \cup UNION {Deploys(p, Settings({"certificateId", "domain", "matchPattern"}) \cup {Unset}) :
                p \in {"baishan-cdn", "ksyun-cdn", "rainyun-rcdn", "aliyun-waf"}}
  \cup Deploys("tencentcloud-ssldeploy", With("resourceType", {"x"}, Settings({"region"})))
  \cup Deploys("tencentcloud-sslupdate", With("resourceTypes", {"x"}, Settings({"region"})))
  \cup UNION {Deploys(p, With("resourceType", {"x"}, Settings({"websiteId"}))) :
                p \in {"1panel-site", "safeline", "aliyun-alb", "kong", "zenlayer-ga"}}
  \cup Deploys("cdnfly", With("resourceType", {"site", "certificate"}, Settings({"siteId"})))
  \cup Deploys("baotapanel-site", With("siteType", {"php", "other"}, Settings({"siteName"})))
  \cup UNION {Deploys(p, Settings({"siteName"})) :
                p \in {"baotapanelgo-site", "baotawaf-site", "ratpanel-site"}}
  \cup UNION {Deploys(p, Settings({"siteId", "domain"})) : p \in {"cpanel-site", "netlify-site"}}
LegacyApplies ==
  [type : {"bizApply"}, provider : {"cloudflare", "hostingDE"}, config : {Unset},
   own : With("domains", {"a.com", "1.2.3.4"}, Settings({"keySource"}))]
LegacyUploads == [type : {"bizUpload"}, provider : {"null"}, config : {Unset},
                  own : Settings({"source", "domains"})]

\* The name under which the deployers of this release read a setting of v0.4.0.
NowCalled(n, k) ==
  CASE n.provider \in {"ftp", "local", "ssh"} /\ k \in DOMAIN FileKeys -> FileKeys[k]
    [] n.provider = "s3" /\ k \in DOMAIN ObjectKeys -> ObjectKeys[k]
    [] n.provider = "tencentcloud-ssldeploy" /\ k = "resourceType" -> "resourceProduct"
    [] n.provider = "tencentcloud-ssldeploy" /\ k = "region" -> "resourceRegion"
    [] k = "resourceTypes" -> "resourceProducts"
    [] k = "resourceType" -> "deployTarget"
    [] k = "matchPattern" -> "domainMatchPattern"
    [] k = "siteName" -> "siteNames"
    [] OTHER -> k
\* Given another value on purpose, or up by becoming a provider of its own.
Rewritten == {<<"cdnfly", "resourceType">>, <<"baotapanel-site", "siteType">>}
SplitUp(n) == n.provider = "rainyun-rcdn"

\* No setting that the user had made is lost or put under a name that no deployer
\* reads.
ASSUME SettingsSurvive ==
  \A n \in LegacyDeploys : n.config = Unset \/ SplitUp(n) \/
    \A k \in DOMAIN n.config : Has(n.config, k) /\ <<n.provider, k>> \notin Rewritten =>
      Get(UpgradedNode(n).config, NowCalled(n, k)) = n.config[k]

\* A rainyun-rcdn node becomes one of the two providers it is split into, with the
\* settings of that one.
ASSUME SplitBySetting ==
  \A n \in LegacyDeploys : SplitUp(n) /\ n.config # Unset =>
    LET u == UpgradedNode(n) IN
    IF Has(n.config, "certificateId")
      THEN /\ u.provider = "rainyun-sslcenter"
           /\ u.config["certificateId"] = n.config["certificateId"]
      ELSE /\ u.provider = "rainyun-rcdn"
           /\ Get(u.config, "domain") = Get(n.config, "domain")

\* A node of a provider with several kinds of targets names one, or its deployment
\* ends with "unsupported deploy target": true for all of them but two, which the
\* empty cases of v0.4.5 leave without.
ASSUME TargetsAreNamed ==
  \A n \in LegacyDeploys :
    LET u == UpgradedNode(n) IN
    u.provider \in Targeted =>
      (Has(u.config, "deployTarget") <=> n.provider \notin {"baishan-cdn", "ksyun-cdn"})

\* The two files with two visitors may be applied to a nested node any number of
\* times.
ASSUME NestedVisitsAreHarmless ==
  \A n \in LegacyApplies \cup LegacyUploads, depth \in 1..3 :
    /\ Times(n, V043, Visits(2, depth)) = V043(n)
    /\ Times(V043(n), V0411, Visits(2, depth)) = V0411(V043(n))

\* The two fields that an apply node compares with its last output stay equal, so
\* an upgrade requests no certificate again; but the outputs of hostingDE nodes keep
\* the old name of the provider.
ASSUME ApplyNodesStayAlike ==
  \A n \in LegacyApplies :
    LET u == UpgradedNode(n)  o == UpgradedOutput(n) IN
    /\ Get(u.own, "domains") = Get(o.own, "domains")
    /\ u.provider = o.provider <=> n.provider # "hostingDE"
    /\ Get(u.own, "keySource") = IF Has(n.own, "keySource") THEN n.own["keySource"] ELSE "auto"
=============================================================================
