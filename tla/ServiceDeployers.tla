--------------------------- MODULE ServiceDeployers ---------------------------
(***************************************************************************)
(* The other deployers of pkg/core/deployer/providers: delivery networks,  *)
(* hosting and server panels, gateways, servers and files.  As in          *)
(* CloudDeployers, one definition per provider package in the vocabulary   *)
(* of DeploymentRoutes.  The three seconds that panels are given between   *)
(* two sites are left out.                                                 *)
(***************************************************************************)
EXTENDS DeploymentRoutes, CertificateStores

\* A new entry with every deployment, and nothing refers to it yet.
CreatesEntry == StoresWith(Plain)
\* The configured sites or domains, one after the other.
Sites(steps) == Some(steps)

(* Delivery networks *)

\* A domain that is being changed is waited for.
AsiaispcdnDomain == <<"read", "skip", "call", "set">>
Asiaispcdn == UploadsWith(AsiaispcdnStore, Domains("once", AsiaispcdnDomain))
Axisnow == StoresWith(AxisnowStore)
BaishanCdn ==
    ReplacesWith(BaishanCdnStore) \cup UploadsWith(BaishanCdnStore, One(<<"read", "write">>))
BunnyCdn == One(<<"set">>)
Cachefly == CreatesEntry
\* A website is given an entry created for it, or the configured entry changes.
Cdnfly == One(<<"read", "call", "write">>) \cup One(<<"set">>)
CloudflareSsl == CreatesEntry \cup One(<<"set">>)
DogecloudCdn == UploadsWith(DogecloudStore, Domains("once", <<"set">>))
Flexcdn == One(<<"set">>)
Flyio == One(<<"set">>)
\* The configured entry is changed first, and the resource written either way.
GcoreCdn ==
    UploadsWith(GcoreCdnStore, One(<<"read", "write">>))
    \cup One(GcoreCdnStore.replace \o <<"read", "write">>)
Goedge == One(<<"set">>)
Lecdn == One(<<"set">>)
\* A certificate that is bound is deleted, then the new one is stored: the
\* service takes no other.
LinodeLos == One(<<"read", "clear", "attach">>)
MohuaMvh == One(<<"set">>)
Netlify == One(<<"set">>)
\* With HTTPS off it is turned on; else the settings read are written back.
QiniuCdnDomain == {<<"read", "skip", "set">>, <<"read", "skip", "write">>}
QiniuCdn ==
    UploadsWith(QiniuSslcertStore,
                UNION {Domains("token", steps) : steps \in QiniuCdnDomain})
QiniuKodo == UploadsWith(QiniuSslcertStore, One(<<"set">>))
QiniuPili == UploadsWith(QiniuSslcertStore, Domains("once", <<"set">>))
RainyunRcdn == UploadsWith(RainyunStore, One(<<"set">>))
RainyunSslcenter == StoresWith(RainyunStore) \cup ReplacesWith(RainyunStore)
\* With HTTPS off it is turned on, else the domain is moved to the certificate.
UpyunCdnDomains == Domains("pages", <<"read", "skip", "set">>)
UpyunCdn == UploadsWith(UpyunSslStore, UpyunCdnDomains)
UpyunFile == UploadsWith(UpyunSslStore, One(<<"read", "skip", "set">>))
Vercel == CreatesEntry
WangsuCdn == UploadsWith(WangsuStore, Together(Some(<<"set">>)))
\* The certificate is created, or given a version, before the job is; any end
\* of the job but "failed" is a success.
WangsuCdnpro == One(<<"read", "call", "submit", "await">>)
WangsuCertificate == StoresWith(WangsuStore) \cup ReplacesWith(WangsuStore)
\* The certificate bound is shown when the change has been deployed.
ZenlayerCdnDomain == <<"read", "skip", "submit", "await">>
ZenlayerCdnListing == "pages"
ZenlayerCdnDomains == LookedUpDomains(ZenlayerCdnListing, ZenlayerCdnDomain)
ZenlayerCdn ==
    ReplacesWith(ZenlayerCdnStore)
    \cup UploadsWith(ZenlayerCdnStore, ZenlayerCdnDomains)
\* An accelerator that has the certificate is waited for all the same.
ZenlayerGa ==
    ReplacesWith(ZenlayerGaStore)
    \cup UploadsWith(ZenlayerGaStore, One(<<"read", "submit", "await">>))

(* Panels *)

\* A website's settings are read and written back, in both versions.
OnePanelWebsite == <<"read", "skip", "write">>
OnePanelWebsites == Domains("pages", OnePanelWebsite)
OnePanel ==
    ReplacesWith(OnePanelStore) \cup UploadsWith(OnePanelStore, OnePanelWebsites)
OnePanelConsole == One(<<"set">>)
\* By the type of site: one request each, or the certificate is saved and all
\* the sites are set in one request, tried once more by another interface.
Baotapanel == Sites(<<"set">>) \cup Together(Sites(<<"call", "set">>))
\* The console's server is restarted, and it does not matter if it is.
BaotapanelConsole == One(<<"set">>)
\* The panel's configuration and the site are looked up first.
BaotapanelgoSite == {<<"call", "read", "set">>, <<"call", "read", "call", "set">>}
Baotapanelgo == UNION {Sites(steps) : steps \in BaotapanelgoSite}
BaotapanelgoConsole == One(<<"set">>)
Baotawaf == Sites(<<"read", "set">>)
BaotawafConsole == One(<<"set">>)
Cpanel == One(<<"set">>)
Dokploy == StoresWith(DokployStore)
\* All the hosts are listed, also for a configured one; those that have the
\* certificate are dropped.  After a replacement the default site's setting is
\* read and written as it is.
NginxproxymanagerHosts ==
    DroppingBound(Listed("some", "once", <<"set">>) \cup Matched("once", <<"set">>))
NginxproxymanagerCertificate == One(NginxproxymanagerStore.replace \o <<"call", "call">>)
Nginxproxymanager ==
    NginxproxymanagerCertificate
    \cup UploadsWith(NginxproxymanagerStore, NginxproxymanagerHosts)
Proxmoxbs == One(<<"set">>)
Proxmoxve == One(<<"set">>)
Ratpanel == One(<<"set">>) \cup Sites(<<"set">>)
RatpanelConsole == One(<<"set">>)
Safeline == One(<<"set">>)
Samwaf == One(<<"read", "set">>)
\* The certificate is stored, HTTPS enabled and the console restarted.
SamwafConsole == One(<<"set", "call", "call">>)
\* In a session: a certificate is imported, new or in the place of the one
\* found; and if configured every service is moved to it in one request.
Synologydsm ==
    CreatesEntry
    \cup One(<<"call", "read", "set">>)
    \cup UploadsWith(Plain, NoneIsFine(Together(Listed("every", "once", <<"set">>))))

(* Gateways, servers and files *)

Apisix == One(<<"set">>)
\* The secret is created when there is none, and else written back with the
\* version it was read with.
K8sSecret == One(<<"peek", "cas">>)
Kong == One(<<"set">>)
\* A pair of files, the key first, or one file in another format; more parts of
\* the chain may follow.
Files == One(<<"key", "crt">>) \cup One(<<"set">>)
Ftp == Files
S3 == Files
\* Between a command that comes before and one that comes after.
LocalCommand == <<"call">>
Local ==
    One(LocalCommand \o <<"key", "crt">> \o LocalCommand)
    \cup One(LocalCommand \o <<"set">> \o LocalCommand)
\* The same in sessions of a remote host, the files by scp or sftp.
Ssh == Local
Webhook == One(<<"set">>)

-----------------------------------------------------------------------------
\* The routes of them all; routes that do the same are one.
ServiceRoutes ==
    UNION {Asiaispcdn, Axisnow, BaishanCdn, BunnyCdn, Cachefly, Cdnfly,
           CloudflareSsl, DogecloudCdn, Flexcdn, Flyio, GcoreCdn, Goedge,
           Lecdn, LinodeLos, MohuaMvh, Netlify, QiniuCdn, QiniuKodo,
           QiniuPili, RainyunRcdn, RainyunSslcenter, UpyunCdn, UpyunFile,
           Vercel, WangsuCdn, WangsuCdnpro, WangsuCertificate, ZenlayerCdn,
           ZenlayerGa, OnePanel, OnePanelConsole, Baotapanel,
           BaotapanelConsole, Baotapanelgo, BaotapanelgoConsole, Baotawaf,
           BaotawafConsole, Cpanel, Dokploy, Nginxproxymanager, Proxmoxbs,
           Proxmoxve, Ratpanel, RatpanelConsole, Safeline, Samwaf,
           SamwafConsole, Synologydsm, Apisix, K8sSecret, Kong, Ftp, S3,
           Local, Ssh, Webhook}
=============================================================================
