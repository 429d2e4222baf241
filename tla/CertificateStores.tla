-------------------------- MODULE CertificateStores --------------------------
(***************************************************************************)
(* The certificate managers of pkg/core/certmgr/providers: each stores a   *)
(* certificate at one service and answers the identifier by which          *)
(* deployers refer to it.  What a manager does around its service's calls  *)
(* is a record; CertificateUpload is the machine that runs one of them.    *)
(*                                                                         *)
(*   search    how Upload looks for the certificate before adding it: not  *)
(*             at all, in one request ("once"), page by page until a page  *)
(*             is short ("pages"), or following a cursor ("token")         *)
(*   compares  a candidate is accepted when its content or fingerprint     *)
(*             equals the certificate's, or on attributes alone (names,    *)
(*             serial number, dates)                                       *)
(*   detail    the content needs a request per candidate: any error fails  *)
(*             the upload ("strict"), an error saying that the candidate   *)
(*             is gone passes to the next one ("skipsMissing"), or any     *)
(*             error does ("skipsErrors")                                  *)
(*   adds      what the service does with a certificate it already has:    *)
(*             another entry ("another"), the entry it has ("known"), or   *)
(*             an error ("refused")                                        *)
(*   refused   what Upload does with that error: it searches again         *)
(*             ("search") or finds the identifier in the error ("parse")   *)
(*   confirm   what Upload asks after adding: nothing, the whole search    *)
(*             again ("search") or the new entry's detail ("detail")       *)
(*   empty     the entry is created empty and filled by a second request   *)
(*   unchecked the error of the adding request is not looked at            *)
(*   replace   the requests of Replace on the entry it is given, in the    *)
(*             vocabulary of DeploymentRoutes; <<>> when unsupported       *)
(***************************************************************************)
EXTENDS Sequences

Managers ==
    [search : {"none", "once", "pages", "token"}, compares : {"content", "attributes"},
     detail : {"none", "strict", "skipsMissing", "skipsErrors"},
     adds : {"another", "known", "refused"}, refused : {"fail", "search", "parse"},
     confirm : {"none", "search", "detail"}, empty : BOOLEAN, unchecked : BOOLEAN,
     replace : Seq(STRING)]

\* A manager that uploads without looking, to a service that adds an entry
\* each time, and that cannot replace.
Plain ==
    [search |-> "none", compares |-> "content", detail |-> "none",
     adds |-> "another", refused |-> "fail", confirm |-> "none",
     empty |-> FALSE, unchecked |-> FALSE, replace |-> <<>>]

\* The managers that search first: by what the listing shows, or with a
\* request for the detail of each candidate.
Searching(search, compares) ==
    [Plain EXCEPT !.search = search, !.compares = compares]
Detailing(search, detail) ==
    [Plain EXCEPT !.search = search, !.detail = detail]

\* The modifiers.
Replacing(store, steps) == [store EXCEPT !.replace = steps]
Knowing(store) == [store EXCEPT !.adds = "known"]
Refusing(store, then) == [store EXCEPT !.adds = "refused", !.refused = then]
Confirming(store, how) == [store EXCEPT !.confirm = how]
Unchecked(store) == [store EXCEPT !.unchecked = TRUE]

-----------------------------------------------------------------------------
(* Services whose listing carries the content or a fingerprint.            *)

AliyunSlbStore == Searching("once", "content")
AxisnowStore == Searching("pages", "content")
ByteplusCdnStore == Searching("pages", "content")
CtcccloudElbStore == Searching("once", "content")
DigitaloceanStore == Searching("pages", "content")
\* Between the search and the creation the user of the API key is read.
DokployStore == Searching("once", "content")
\* The project of the configuration is looked at before anything is asked.
GooglecloudStore == Searching("token", "content")
\* The project of the region is read before the creation.
HuaweicloudElbStore == Replacing(Searching("token", "content"), <<"set">>)
\* The digest compared is that of the private key.
JdcloudSslStore == Searching("pages", "content")
KsyunKcmStore == Refusing(Searching("pages", "content"), "search")
\* The certificate goes to the KCM store first, then an entry of the load
\* balancer refers to it.
KsyunSlbStore == Replacing(Searching("pages", "content"), <<"set">>)
NginxproxymanagerStore ==
    [Replacing(Searching("once", "content"), <<"set">>) EXCEPT !.empty = TRUE]
OnePanelSearch == Searching("pages", "content")
OnePanelStore == Replacing(Confirming(OnePanelSearch, "search"), <<"set">>)
QingcloudLbStore == Searching("pages", "content")
\* CreateSSL's and CreatePathXSSL's errors are not looked at: the upload then
\* succeeds with an empty identifier.
UcloudUlbStore == Unchecked(Searching("pages", "content"))
UcloudUpathxStore == Unchecked(Searching("pages", "content"))
VolcengineCdnStore == Searching("pages", "content")
ZenlayerCdnStore == Replacing(Searching("pages", "content"), <<"set">>)
ZenlayerGaStore == Replacing(Searching("pages", "content"), <<"set">>)
\* The duplicate error is answered by the search, and so is a success.
CtcccloudCmsStore == Refusing(Confirming(Searching("pages", "content"), "search"), "search")

(* Services that show the content in a request per candidate.              *)

AliyunCasStore == Confirming(Detailing("pages", "skipsMissing"), "detail")
AsiaispcdnStore == Refusing(Detailing("once", "skipsMissing"), "search")
AwsAcmStore == Replacing(Detailing("token", "skipsMissing"), <<"set">>)
AwsIamStore == Detailing("token", "skipsMissing")
\* Replace reads the entry, goes on when there is none and stops when the
\* entry is the certificate already.
AzureKeyvaultStore ==
    Replacing(Detailing("token", "skipsMissing"), <<"peek", "skip", "set">>)
BaiducloudCertStore == Detailing("once", "skipsMissing")
ByteplusMedialiveStore == Replacing(Detailing("pages", "skipsErrors"), <<"set">>)
CmcccloudVlbStore == Detailing("once", "strict")
CtcccloudAoStore == Detailing("pages", "strict")
CtcccloudCdnStore == Detailing("pages", "strict")
CtcccloudIcdnStore == Detailing("pages", "strict")
CtcccloudLvdnStore == Detailing("pages", "strict")
HuaweicloudScmStore == Detailing("pages", "skipsMissing")
HuaweicloudWafStore == Detailing("pages", "strict")
RainyunStore == Replacing(Confirming(Detailing("pages", "strict"), "search"), <<"set">>)
TencentcloudGaapStore == Detailing("pages", "skipsMissing")
VolcengineLiveStore == Replacing(Detailing("pages", "skipsErrors"), <<"set">>)
\* The upload comes first; a candidate's content is downloaded, and one whose
\* content cannot be found in the download is accepted on its attributes.
UcloudUsslSearch == [Detailing("none", "strict") EXCEPT !.compares = "attributes"]
UcloudUsslStore == Refusing(UcloudUsslSearch, "search")

(* Services whose listing shows attributes only.                           *)

OraclecloudStore == Searching("pages", "attributes")
QiniuSslcertStore == Searching("token", "attributes")
WangsuStore == Replacing(Searching("once", "attributes"), <<"set">>)
YandexcloudStore == Replacing(Searching("token", "attributes"), <<"read", "write">>)

(* Managers that do not search.                                            *)

DogecloudStore == Plain
UpyunSslStore == Plain
GcoreCdnStore == Replacing(Plain, <<"read", "write">>)
BaishanCdnStore == Replacing(Refusing(Plain, "parse"), <<"set">>)
ByteplusCertcenterStore == Knowing(Plain)
VolcengineCertcenterStore == Knowing(Plain)
TencentcloudSslStore == Knowing(Plain)
\* The SSL store knows the certificate; the gateway's list is searched for the
\* identifier it answers.
TencentcloudTseStore == Replacing(Searching("pages", "content"), <<"set">>)

-----------------------------------------------------------------------------
AllStores ==
    {AliyunSlbStore, AxisnowStore, ByteplusCdnStore, CtcccloudElbStore,
     DigitaloceanStore, DokployStore, GooglecloudStore, HuaweicloudElbStore,
     JdcloudSslStore, KsyunKcmStore, KsyunSlbStore, NginxproxymanagerStore,
     OnePanelStore, QingcloudLbStore, UcloudUlbStore, UcloudUpathxStore,
     VolcengineCdnStore, ZenlayerCdnStore, ZenlayerGaStore, CtcccloudCmsStore,
     AliyunCasStore, AsiaispcdnStore, AwsAcmStore, AwsIamStore,
     AzureKeyvaultStore, BaiducloudCertStore, ByteplusMedialiveStore,
     CmcccloudVlbStore, CtcccloudAoStore, CtcccloudCdnStore,
     CtcccloudIcdnStore, CtcccloudLvdnStore, HuaweicloudScmStore,
     HuaweicloudWafStore, RainyunStore, TencentcloudGaapStore,
     VolcengineLiveStore, UcloudUsslStore, OraclecloudStore,
     QiniuSslcertStore, WangsuStore, YandexcloudStore, DogecloudStore,
     UpyunSslStore, GcoreCdnStore, BaishanCdnStore, ByteplusCertcenterStore,
     VolcengineCertcenterStore, TencentcloudSslStore, TencentcloudTseStore}

\* What Upload does is the same for two managers whose records differ only in
\* Replace: the behaviours CertificateUpload runs.
UploadKinds == {[s EXCEPT !.replace = <<>>] : s \in AllStores}
=============================================================================
