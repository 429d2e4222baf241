---------------------------- MODULE CloudDeployers ----------------------------
(***************************************************************************)
(* The deployers of the clouds: one definition per provider package of     *)
(* pkg/core/deployer/providers, in the vocabulary of DeploymentRoutes.  A  *)
(* comment says what a row leaves out or folds.  Reading a load balancer   *)
(* or gateway before its listeners or domains are listed is folded into    *)
(* the first request of the listing: either fails the deployment.          *)
(***************************************************************************)
EXTENDS DeploymentRoutes, CertificateStores

(* Alibaba Cloud *)

\* By SNI: the certificates of the listener are looked up, and nothing else is
\* done if it has this one; it is added, once the listener is not busy, and then
\* the expired ones and those of the same names are removed, ten at a time and
\* each time after the same wait, which is folded into the removal.
AliyunAlbSni == <<"read", "find", "skip", "call", "attach", "detach">>
AliyunAlbListener == {<<"call", "set">>, AliyunAlbSni}
AliyunAlbListeners == Balancers("token", AliyunAlbListener)
AliyunAlb == UploadsWith(AliyunCasStore, AliyunAlbListeners)
\* The two kinds of gateway; the domains of the traditional one come in one
\* request, those of the other are found again, read and written back.
AliyunApigwCloudNative == <<"read", "write">>
AliyunApigw ==
    Domains("once", <<"set">>)
    \cup UploadsWith(AliyunCasStore, Domains("pages", AliyunApigwCloudNative))
AliyunCas == StoresWith(AliyunCasStore)
\* One job for all the configured resources, after a contact was looked up; the
\* statuses "success" and "error" of the job both end the deployment well.
AliyunCasDeploy ==
    UploadsWith(AliyunCasStore, Together(Some(<<"call", "submit", "awaitAnyEnd">>)))
\* Domains that are offline or being checked are not listed.
AliyunCdnDomains == Domains("pages", <<"set">>)
AliyunCdn == UploadsWith(AliyunCasStore, AliyunCdnDomains)
\* By SNI: every extension of the listener for the same domain is changed; none
\* is fine.
AliyunClbListener == {<<"read", "skip", "set">>, <<"read", "replaceAny">>}
AliyunClb == UploadsWith(AliyunSlbStore, Balancers("token", AliyunClbListener))
\* The listing compares the page's length with the page's number: it ends with
\* a page shorter than that, at the latest an empty one.
AliyunDcdnDomains == Domains("pages", <<"set">>)
AliyunDcdn == UploadsWith(AliyunCasStore, AliyunDcdnDomains)
AliyunDdospro == UploadsWith(AliyunCasStore, Domains("once", <<"set">>))
\* The error code "Certificate.Duplicated" is no error.
AliyunEsa == UploadsWith(AliyunCasStore, One(<<"set">>))
AliyunEsaSaasDomains == LookedUpDomains("pages", <<"set">>)
AliyunEsaSaas == UploadsWith(AliyunCasStore, AliyunEsaSaasDomains)
\* Both versions of the function service.
AliyunFcDomain == <<"read", "skip", "write">>
AliyunFcListing == "token"
AliyunFc3 == Domains(AliyunFcListing, AliyunFcDomain)
AliyunFc2 == Domains(AliyunFcListing, AliyunFcDomain)
AliyunFc == AliyunFc3 \cup AliyunFc2
AliyunGaListener == {<<"read", "skip", "set">>, <<"read", "skip", "place">>}
AliyunGa == UploadsWith(AliyunCasStore, Balancers("pages", AliyunGaListener))
AliyunLive == Domains("pages", <<"set">>)
\* The update goes by what the listing showed of the domain: nothing when it
\* has the certificate, a change of the certificate when it has another one,
\* and else the domain is written with the protocol versions it was shown with.
AliyunMseDomain == {<<"recall", "skip", "set">>, <<"recall", "skip", "write">>}
AliyunMse ==
    UploadsWith(AliyunCasStore,
                UNION {LookedUpDomains("once", steps) : steps \in AliyunMseDomain})
AliyunNlbListeners == Balancers("token", {<<"read", "set">>})
AliyunNlb == UploadsWith(AliyunCasStore, AliyunNlbListeners)
AliyunOss == UploadsWith(AliyunCasStore, One(<<"set">>))
AliyunVodDomains == Domains("pages", <<"set">>)
AliyunVod == UploadsWith(AliyunCasStore, AliyunVodDomains)
\* A cloud resource's port: the certificates synced to the resource and those of
\* the port are read, the latter without an error only if there are any, and the
\* port's list is written back without those that are not synced or expired.
\* The certificate comes in the place of the default one, or of the extension
\* synced under the configured name; when that has another name it is added.
AliyunWafCloudResource ==
    {<<"lookup", "readBound", "skip", "merge">>, <<"lookup", "readBound", "skip", "append">>}
\* The default HTTPS settings are written with the TLS version that was read, but
\* with TLS 1.3 on: what was read of it is taken when it is nil.
AliyunWafDefault == <<"read", "reset">>
\* A domain's configuration is written back as it was read.
AliyunWafAssigned == <<"write">>
AliyunWafCname == {AliyunWafDefault, <<"read">> \o AliyunWafAssigned}
AliyunWaf ==
    UploadsWith(AliyunCasStore,
                UNION {One(steps) : steps \in AliyunWafCloudResource \cup AliyunWafCname})

(* AWS, Azure, Google Cloud, Oracle Cloud, DigitalOcean, Yandex Cloud *)

AwsAcm == StoresWith(AwsAcmStore) \cup ReplacesWith(AwsAcmStore)
\* The default certificate of the listener, or one more of its list; the store
\* is the certificate manager or the access manager.
AwsAlbListener == {<<"read", "skip", "set">>, <<"read", "skip", "attach">>}
AwsAlb == UploadsWith(AwsAcmStore, UNION {One(steps) : steps \in AwsAlbListener})
AwsAmplify == UploadsWith(AwsAcmStore, One(<<"set">>))
AwsApigateway == UploadsWith(AwsAcmStore, One(<<"set">>))
AwsClb == UploadsWith(AwsAcmStore, One(<<"set">>))
\* The distribution is written back under the ETag it was read with.
AwsCloudfront == UploadsWith(AwsAcmStore, One(<<"read", "cas">>))
AwsIam == StoresWith(AwsIamStore)
AwsNlbListener == {<<"read", "skip", "set">>, <<"read", "skip", "attach">>}
AwsNlb == UploadsWith(AwsAcmStore, UNION {One(steps) : steps \in AwsNlbListener})
AzureKeyvault == StoresWith(AzureKeyvaultStore) \cup ReplacesWith(AzureKeyvaultStore)
GooglecloudCm == StoresWith(GooglecloudStore)
OraclecloudCm == StoresWith(OraclecloudStore)
DigitaloceanCertificate == StoresWith(DigitaloceanStore)
YandexcloudCm == StoresWith(YandexcloudStore) \cup ReplacesWith(YandexcloudStore)

(* Baidu Cloud *)

\* An HTTPS listener is read, and written back with the scheduler that was read
\* and the certificate alone, or by SNI with the lists that were read and the
\* certificate in the entries for the domain.  An SSL listener's certificate is
\* changed.  Listeners of other protocols at the configured port are passed over.
BaiducloudAppblbListener ==
    {<<"read", "skip", "write">>, <<"read", "writeAny">>, <<"set">>}
BaiducloudAppblb ==
    UploadsWith(BaiducloudCertStore,
                NoneIsFine(UNION {Matched("once", steps) : steps \in BaiducloudAppblbListener}))
\* The same without the scheduler.
BaiducloudBlbListener ==
    {<<"read", "skip", "set">>, <<"read", "mergeAny">>, <<"set">>}
BaiducloudBlb ==
    UploadsWith(BaiducloudCertStore,
                NoneIsFine(UNION {Matched("once", steps) : steps \in BaiducloudBlbListener}))
BaiducloudCdn == Domains("token", <<"set">>)
BaiducloudCert == StoresWith(BaiducloudCertStore)

(* BytePlus and Volcengine *)

\* By SNI the listener's extensions for the domain are changed; none is fine.
ByteplusAlbListener == {<<"read", "skip", "set">>, <<"read", "replaceAny">>}
ByteplusAlb == UploadsWith(ByteplusCertcenterStore, Balancers("pages", ByteplusAlbListener))
ByteplusApigDomains == LookedUpDomains("pages", <<"read", "write">>)
ByteplusApig == UploadsWith(ByteplusCertcenterStore, ByteplusApigDomains)
\* The wildcard's listing asks for page 1 again and again, each time one entry
\* longer.  The certificate's listing shows the domains it could be deployed to
\* and leaves out those it is deployed to.
ByteplusCdnMatched == HidingBound(Matched("once", <<"set">>))
ByteplusCdn ==
    UploadsWith(ByteplusCdnStore, Domains("grow", <<"set">>) \cup ByteplusCdnMatched)
ByteplusCertcenter == StoresWith(ByteplusCertcenterStore)
ByteplusClb == UploadsWith(ByteplusCertcenterStore, Balancers("pages", {<<"set">>}))
ByteplusMedialiveDomains == Domains("pages", <<"set">>)
ByteplusMedialive == UploadsWith(ByteplusMedialiveStore, ByteplusMedialiveDomains)
ByteplusTos == UploadsWith(ByteplusCertcenterStore, One(<<"set">>))
VolcengineAlbListener == {<<"read", "skip", "set">>, <<"read", "skip", "replaceAny">>}
VolcengineAlb ==
    UploadsWith(VolcengineCertcenterStore, Balancers("pages", VolcengineAlbListener))
VolcengineApigDomains == LookedUpDomains("pages", <<"read", "write">>)
VolcengineApig == UploadsWith(VolcengineCertcenterStore, VolcengineApigDomains)
\* As ByteplusCdn; a configured domain without the prefix "*." is not looked for.
VolcengineCdnMatched == HidingBound(Matched("once", <<"set">>))
VolcengineCdn ==
    UploadsWith(VolcengineCdnStore, Domains("grow", <<"set">>) \cup VolcengineCdnMatched)
VolcengineCertcenter == StoresWith(VolcengineCertcenterStore)
\* By SNI a listener without an extension for the domain is an error.
VolcengineClbListener == {<<"read", "skip", "set">>, <<"read", "skip", "replaceOrFail">>}
VolcengineClb ==
    UploadsWith(VolcengineCertcenterStore, Balancers("pages", VolcengineClbListener))
VolcengineDcdn ==
    UploadsWith(VolcengineCertcenterStore, Together(Domains("pages", <<"set">>)))
VolcengineImagex == UploadsWith(VolcengineCertcenterStore, One(<<"read", "write">>))
VolcengineLiveDomains == Domains("pages", <<"set">>)
VolcengineLive == UploadsWith(VolcengineLiveStore, VolcengineLiveDomains)
VolcengineTos == UploadsWith(VolcengineCertcenterStore, One(<<"set">>))
VolcengineVodDomain == <<"read", "skip", "set">>
VolcengineVod == UploadsWith(VolcengineCertcenterStore, Domains("pages", VolcengineVodDomain))
VolcengineWaf == UploadsWith(VolcengineCertcenterStore, One(<<"read", "write">>))

(* China Mobile Cloud and China Telecom Cloud *)

\* Deleted domains are not listed; the certificate bound is read as well and
\* compared by content.
CmcccloudCdnDomain == <<"read", "skip", "set">>
CmcccloudCdn == LookedUpDomains("pages", CmcccloudCdnDomain)
\* By SNI the listener's list is written back with the certificate appended.
CmcccloudVlbListener == {<<"read", "skip", "set">>, <<"read", "skip", "append">>}
CmcccloudVlb == UploadsWith(CmcccloudVlbStore, Balancers("pages", CmcccloudVlbListener))
CtcccloudAoDomain == <<"read", "skip", "write">>
CtcccloudAo == UploadsWith(CtcccloudAoStore, Domains("pages", CtcccloudAoDomain))
CtcccloudCdnDomains == Domains("pages", <<"read", "skip", "set">>)
CtcccloudCdn == UploadsWith(CtcccloudCdnStore, CtcccloudCdnDomains)
CtcccloudCms == StoresWith(CtcccloudCmsStore)
CtcccloudElb == UploadsWith(CtcccloudElbStore, Balancers("once", {<<"set">>}))
CtcccloudFaas == One(<<"read", "skip", "write">>)
CtcccloudIcdnDomains == Domains("pages", <<"read", "skip", "set">>)
CtcccloudIcdn == UploadsWith(CtcccloudIcdnStore, CtcccloudIcdnDomains)
CtcccloudLvdnDomains == Domains("pages", <<"read", "skip", "set">>)
CtcccloudLvdn == UploadsWith(CtcccloudLvdnStore, CtcccloudLvdnDomains)

(* Huawei Cloud *)

HuaweicloudAadListing == "pages"
HuaweicloudAadDomain == <<"set">>
HuaweicloudAad == LookedUpDomains(HuaweicloudAadListing, HuaweicloudAadDomain)
\* The certificate is written under the type and instance that were read.
HuaweicloudApig == One(<<"read", "write">>)
\* Fifty domains to a request.
HuaweicloudCdnDomains == InChunks(Domains("pages", <<"set">>))
HuaweicloudCdn == UploadsWith(HuaweicloudScmStore, HuaweicloudCdnDomains)
\* The listener's default certificate, and in the list of its SNI certificates
\* those with the same names.
HuaweicloudElbListener == <<"read", "call", "merge">>
\* The listeners of a load balancer are listed before the upload.
HuaweicloudElbBalancer == NoneIsFine(Matched("token", HuaweicloudElbListener))
HuaweicloudElb ==
    ReplacesWith(HuaweicloudElbStore)
    \cup UploadsLate(HuaweicloudElbStore, HuaweicloudElbBalancer)
    \cup UploadsWith(HuaweicloudElbStore, One(HuaweicloudElbListener))
HuaweicloudLive == UploadsWith(HuaweicloudScmStore, Domains("once", <<"set">>))
HuaweicloudObs == UploadsWith(HuaweicloudScmStore, One(<<"set">>))
HuaweicloudScm == StoresWith(HuaweicloudScmStore)
HuaweicloudVod == UploadsWith(HuaweicloudScmStore, One(<<"read", "skip", "write">>))
\* Every target uploads, also the replacement of a certificate, which then
\* writes it under the name that was read; the two kinds of host upload again
\* and are found in the listing.
HuaweicloudWafHost == <<"call", "set">>
HuaweicloudWaf ==
    UploadsWith(HuaweicloudWafStore,
                One(<<"read", "write">>)
                \cup Named("pages", HuaweicloudWafHost))
\* The managers of the server, each set and if configured restarted.
Huaweiibmc == NoneIsFine(Matched("once", <<"set">>) \cup Matched("once", <<"set", "call">>))

(* JD Cloud and Kingsoft Cloud *)

\* By SNI the entries for the domain are changed; when there is none one is
\* added, and the change is still asked for, with no entry.
JdcloudAlbListener == {<<"set">>, <<"read", "place", "call">>}
\* SetPageSize is called for the page number too, which is never sent.
JdcloudAlb == UploadsWith(JdcloudSslStore, Balancers("stuck", JdcloudAlbListener))
\* The redirection is written back as it was read.
JdcloudCdnDomain == <<"read", "write">>
JdcloudCdn == UploadsWith(JdcloudSslStore, Domains("pages", JdcloudCdnDomain))
JdcloudLive == Domains("pages", <<"set">>)
JdcloudSsl == StoresWith(JdcloudSslStore)
\* The domain is found by a listing of its own, and the redirection written
\* back as it was read.
JdcloudVodDomain == <<"call", "read", "write">>
JdcloudVod == Domains("pages", JdcloudVodDomain)
JdcloudWaf == UploadsWith(JdcloudSslStore, One(<<"set">>))
\* The first of the two listings it makes is discarded.
KsyunCdnListing == "pages"
KsyunCdnDomain == <<"set">>
KsyunCdnDomains == LookedUpDomains(KsyunCdnListing, KsyunCdnDomain)
KsyunCdnCertificate == One(<<"set">>)
KsyunCdn == KsyunCdnDomains \cup KsyunCdnCertificate
KsyunKcm == StoresWith(KsyunKcmStore)
KsyunSlb == ReplacesWith(KsyunSlbStore)
\* The listeners of a load balancer are listed before the upload.
QingcloudLb ==
    UploadsLate(QingcloudLbStore, NoneIsFine(Matched("pages", <<"set">>)))
    \cup UploadsWith(QingcloudLbStore, One(<<"set">>))

(* Tencent Cloud *)

\* A configured domain without the prefix "*." is not looked for.
TencentcloudCdnDomain == <<"read", "skip", "write">>
TencentcloudCdnMatched ==
    NoneIsFine(Matched("pages", TencentcloudCdnDomain)
               \cup Matched("once", TencentcloudCdnDomain))
TencentcloudCdn ==
    UploadsWith(TencentcloudSslStore,
                One(TencentcloudCdnDomain) \cup TencentcloudCdnMatched)
\* A listener, or a rule's domain: the change is a job, and is waited for.
TencentcloudClbListener == <<"read", "submit", "await">>
TencentcloudClb ==
    UploadsWith(TencentcloudSslStore,
                Balancers("once", {TencentcloudClbListener}) \cup One(<<"submit", "await">>))
\* The buckets that have the certificate are listed; an error says there is none.
TencentcloudCos ==
    UploadsWith(TencentcloudSslStore, One(<<"glance", "skip", "submit", "await">>))
TencentcloudCss ==
    UploadsWith(TencentcloudSslStore, Together(Domains("pages", <<"set">>)))
\* The listing is of the domains the certificate just stored could be used for;
\* the rule of a domain is looked for in all the pages of rules.
TencentcloudDdosproDomains == Domains("once", <<"read", "skip", "write">>)
TencentcloudDdospro == UploadsWith(TencentcloudSslStore, TencentcloudDdosproDomains)
TencentcloudEcdnDomain == <<"read", "skip", "write">>
TencentcloudEcdnMatched ==
    NoneIsFine(Matched("pages", TencentcloudEcdnDomain)
               \cup Matched("once", TencentcloudEcdnDomain))
TencentcloudEcdn ==
    UploadsWith(TencentcloudSslStore,
                One(TencentcloudEcdnDomain) \cup TencentcloudEcdnMatched)
\* The zone is listed for every pattern, and a domain it does not show is
\* deployed to all the same.  With several certificates to a domain, those of
\* the other key algorithm the listing showed are kept.
EdgeoneDomains(list) ==
    DroppingBound(Matched(list, <<"recall", "merge">>)
                  \cup Listed("some", list, <<"recall", "merge">>)
                  \cup Together(Matched(list, <<"set">>) \cup Listed("some", list, <<"set">>)))
TencentcloudEoListing == "pages"
TencentcloudEo == UploadsWith(TencentcloudSslStore, EdgeoneDomains(TencentcloudEoListing))
TencentcloudEomakersListing == "once"
TencentcloudEomakers ==
    UploadsWith(TencentcloudSslStore, EdgeoneDomains(TencentcloudEomakersListing))
\* The certificates of the listener are looked up before its list is written
\* back, without those for the same names and those that are gone.
TencentcloudGa2 == UploadsWith(TencentcloudSslStore, One(<<"read", "skip", "call", "merge">>))
TencentcloudGaap == UploadsWith(TencentcloudGaapStore, One(<<"read", "set">>))
\* The offset of the listing grows by one.
TencentcloudScfDomains == Domains("slide", <<"read", "skip", "write">>)
TencentcloudScf == UploadsWith(TencentcloudSslStore, TencentcloudScfDomains)
TencentcloudSsl == StoresWith(TencentcloudSslStore)
TencentcloudSslDeploy ==
    UploadsWith(TencentcloudSslStore, Together(Some(<<"submit", "await">>)))
\* The resources bound to the configured certificate, with a new entry or with
\* the entry's content changed; the job is asked for until it exists.
TencentcloudSslUpdateEntry ==
    UploadsWith(TencentcloudSslStore, Together(Some(<<"submit", "await">>)))
TencentcloudSslUpdateContent == Together(Some(<<"submit", "await">>))
TencentcloudSslUpdate == TencentcloudSslUpdateEntry \cup TencentcloudSslUpdateContent
TencentcloudTse == StoresWith(TencentcloudTseStore) \cup ReplacesWith(TencentcloudTseStore)
\* The certificate's names are not looked at: every domain is deployed to.
TencentcloudVod ==
    UploadsWith(TencentcloudSslStore,
                One(<<"set">>) \cup NoneIsFine(Listed("every", "pages", <<"set">>)))
TencentcloudWaf == UploadsWith(TencentcloudSslStore, One(<<"read", "write">>))

(* UCloud *)

\* By SNI a listener that has the certificate is left at once; else it is
\* added, the others are looked up, an error in that being passed over, and the
\* expired ones and those for the domain are removed.
UcloudUalbListener ==
    {<<"read", "skip", "set">>, <<"read", "skip", "attach", "tryFind", "detach">>}
UcloudUalb == UploadsWith(UcloudUlbStore, Balancers("pages", UcloudUalbListener))
UcloudUcdn == UploadsWith(UcloudUsslStore, One(<<"read", "write">>))
\* A virtual server takes one certificate: the old one is removed first.
UcloudUclbServer == {<<"read", "skip", "clear", "attach">>}
UcloudUclb ==
    UploadsWith(UcloudUlbStore, Balancers("pages", UcloudUclbServer))
UcloudUewaf == One(<<"set">>)
UcloudUpathx == UploadsWith(UcloudUpathxStore, One(<<"set">>))
UcloudUs3 == UploadsWith(UcloudUsslStore, One(<<"set">>))
Unicloud == One(<<"set">>)

-----------------------------------------------------------------------------
\* The routes of them all; routes that do the same are one.
CloudRoutes ==
    UNION {AliyunAlb, AliyunApigw, AliyunCas, AliyunCasDeploy, AliyunCdn,
           AliyunClb, AliyunDcdn, AliyunDdospro, AliyunEsa, AliyunEsaSaas,
           AliyunFc, AliyunGa, AliyunLive, AliyunMse, AliyunNlb, AliyunOss,
           AliyunVod, AliyunWaf, AwsAcm, AwsAlb, AwsAmplify, AwsApigateway,
           AwsClb, AwsCloudfront, AwsIam, AwsNlb, AzureKeyvault,
           GooglecloudCm, OraclecloudCm, DigitaloceanCertificate,
           YandexcloudCm, BaiducloudAppblb, BaiducloudBlb, BaiducloudCdn,
           BaiducloudCert, ByteplusAlb, ByteplusApig, ByteplusCdn,
           ByteplusCertcenter, ByteplusClb, ByteplusMedialive, ByteplusTos,
           VolcengineAlb, VolcengineApig, VolcengineCdn,
           VolcengineCertcenter, VolcengineClb, VolcengineDcdn,
           VolcengineImagex, VolcengineLive, VolcengineTos, VolcengineVod,
           VolcengineWaf, CmcccloudCdn, CmcccloudVlb, CtcccloudAo,
           CtcccloudCdn, CtcccloudCms, CtcccloudElb, CtcccloudFaas,
           CtcccloudIcdn, CtcccloudLvdn, HuaweicloudAad, HuaweicloudApig,
           HuaweicloudCdn, HuaweicloudElb, HuaweicloudLive, HuaweicloudObs,
           HuaweicloudScm, HuaweicloudVod, HuaweicloudWaf, Huaweiibmc,
           JdcloudAlb, JdcloudCdn, JdcloudLive, JdcloudSsl, JdcloudVod,
           JdcloudWaf, KsyunCdn, KsyunKcm, KsyunSlb, QingcloudLb,
           TencentcloudCdn, TencentcloudClb, TencentcloudCos,
           TencentcloudCss, TencentcloudDdospro, TencentcloudEcdn,
           TencentcloudEo, TencentcloudEomakers, TencentcloudGa2,
           TencentcloudGaap, TencentcloudScf, TencentcloudSsl,
           TencentcloudSslDeploy, TencentcloudSslUpdate, TencentcloudTse,
           TencentcloudVod, TencentcloudWaf, UcloudUalb, UcloudUcdn,
           UcloudUclb, UcloudUewaf, UcloudUpathx, UcloudUs3, Unicloud}
=============================================================================
