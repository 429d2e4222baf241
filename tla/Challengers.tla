----------------------------- MODULE Challengers -----------------------------
(***************************************************************************)
(* The challengers of pkg/core/certifier/challengers, which answer the     *)
(* CA's challenges: one definition per provider package, in the vocabulary *)
(* of CertificateOrders.  A challenger is a set of rows, more than one     *)
(* where its solver is lego's own, which is not part of the repository.    *)
(*                                                                         *)
(*   type      "dns01" or "http01"                                         *)
(*   keeps     how CleanUp finds what Present made: by the "value" or path *)
(*             alone, by the identifier kept under the challenge's "token",*)
(*             or by that and the identifier kept for the "zone"           *)
(*   merges    the service may merge the values of one name in one record  *)
(*   together  lego presents all the challenges of an order before it      *)
(*             solves the first of them                                    *)
(*   timeout   the node's propagation timeout is passed on                 *)
(***************************************************************************)
OwnSolver(keeps) ==
    {[type |-> "dns01", keeps |-> keeps, merges |-> FALSE, together |-> TRUE]}
MergingSolver(keeps) ==
    {[s EXCEPT !.merges = merges] : s \in OwnSolver(keeps), merges \in BOOLEAN}
LegoSolver ==
    {[s EXCEPT !.together = together] :
        s \in OwnSolver("value") \cup OwnSolver("token"), together \in BOOLEAN}
\* A file at the path that the token gives.
FileSolver ==
    {[type |-> "http01", keeps |-> "value", merges |-> FALSE, together |-> FALSE]}

\* The challenger made of a solver passes the timeout on to it, or does not.
Waiting(solver, timeout) ==
    {[type |-> s.type, keeps |-> s.keeps, merges |-> s.merges,
      together |-> s.together, timeout |-> timeout] : s \in solver}
Patient(solver) == Waiting(solver, TRUE)
Impatient(solver) == Waiting(solver, FALSE)

(* DNS challenges solved by lego's own providers *)

Cn35 == Patient(LegoSolver)
Dns51 == Patient(LegoSolver)
\* Neither timeout nor TTL; the credentials go through a file in the temporary
\* directory that is never removed.
AcmeDns == Impatient(LegoSolver)
AcmeHttpReq == Patient(LegoSolver)
AkamaiEdgedns == Patient(LegoSolver)
Aliyun == Patient(LegoSolver)
AliyunEsa == Patient(LegoSolver)
Arvancloud == Patient(LegoSolver)
\* With an access key or the machine's role.
AwsRoute53 == Patient(LegoSolver)
Azure == Patient(LegoSolver)
Baiducloud == Patient(LegoSolver)
Beget == Patient(LegoSolver)
Bookmyname == Patient(LegoSolver)
Bunny == Patient(LegoSolver)
Cloudflare == Patient(LegoSolver)
Cloudns == Patient(LegoSolver)
Conohavpsv2 == Patient(LegoSolver)
Constellix == Patient(LegoSolver)
Cpanel == Patient(LegoSolver)
Desec == Patient(LegoSolver)
Digitalocean == Patient(LegoSolver)
Dnsexit == Patient(LegoSolver)
Dnsla == Patient(LegoSolver)
Dnsmadeeasy == Patient(LegoSolver)
\* Without a TTL, and netcup's is not passed on.
Duckdns == Patient(LegoSolver)
Dynadot == Patient(LegoSolver)
Dynu == Patient(LegoSolver)
Gandinet == Patient(LegoSolver)
Gcore == Patient(LegoSolver)
Gname == Patient(LegoSolver)
Godaddy == Patient(LegoSolver)
\* The key must belong to the configured project.
Googlecloud == Patient(LegoSolver)
Hetzner == Patient(LegoSolver)
Hostingde == Patient(LegoSolver)
Hostinger == Patient(LegoSolver)
Huaweicloud == Patient(LegoSolver)
Infomaniak == Patient(LegoSolver)
Ionos == Patient(LegoSolver)
Jdcloud == Patient(LegoSolver)
Luadns == Patient(LegoSolver)
Namecheap == Patient(LegoSolver)
Namedotcom == Patient(LegoSolver)
Namesilo == Patient(LegoSolver)
Netcup == Patient(LegoSolver)
Netlify == Patient(LegoSolver)
Ns1 == Patient(LegoSolver)
\* With an API key or the principal of the machine or resource.
Oraclecloud == Patient(LegoSolver)
\* With an application key or OAuth2.
Ovhcloud == Patient(LegoSolver)
Porkbun == Patient(LegoSolver)
Powerdns == Patient(LegoSolver)
Rainyun == Patient(LegoSolver)
Regru == Patient(LegoSolver)
\* Port 53 and HMAC-SHA1 unless configured.
Rfc2136 == Patient(LegoSolver)
Rucenter == Patient(LegoSolver)
Simplycom == Patient(LegoSolver)
Spaceship == Patient(LegoSolver)
Technitiumdns == Patient(LegoSolver)
Tencentcloud == Patient(LegoSolver)
TencentcloudEo == Patient(LegoSolver)
Todaynic == Patient(LegoSolver)
Vercel == Patient(LegoSolver)
Volcengine == Patient(LegoSolver)
Vultr == Patient(LegoSolver)
Westcn == Patient(LegoSolver)
Xinnet == Patient(LegoSolver)
Yandexcloud == Patient(LegoSolver)

(* DNS challenges solved by providers of the repository *)

\* CleanUp deletes the entry with its value.
AwsLightsailSolver == OwnSolver("value")
\* The TTL is not passed on.
AwsLightsail == Patient(AwsLightsailSolver)
\* The zone is the first parent domain that the account has.
ByteplusSolver == OwnSolver("token")
Byteplus == Patient(ByteplusSolver)
CmcccloudSolver == OwnSolver("token")
Cmcccloud == Patient(CmcccloudSolver)
\* The zone is looked for page by page, and kept by name for CleanUp.
Conohavpsv3Solver == OwnSolver("zone")
Conohavpsv3 == Patient(Conohavpsv3Solver)
\* The polling interval is left at zero.
CtcccloudSolver == OwnSolver("token")
Ctcccloud == Patient(CtcccloudSolver)
Dynv6Solver == OwnSolver("zone")
Dynv6 == Patient(Dynv6Solver)
LinodeSolver == OwnSolver("zone")
Linode == Patient(LinodeSolver)
\* AutoMerge: a value may be added to the record that the name has already.
QingcloudSolver == MergingSolver("token")
Qingcloud == Patient(QingcloudSolver)
\* CleanUp lists the zone and deletes the entries with its name and value.
UcloudSolver == OwnSolver("value")
Ucloud == Patient(UcloudSolver)

(* HTTP challenges *)

\* The webroot provider of lego.
LocalFile == Impatient(FileSolver)
FtpSolver == FileSolver
Ftp == Impatient(FtpSolver)
S3Solver == FileSolver
S3 == Impatient(S3Solver)
SshSolver == FileSolver
\* "UseSCP" is not passed on.
Ssh == Impatient(SshSolver)

Dns01Challengers ==
    UNION {Cn35, Dns51, AcmeDns, AcmeHttpReq, AkamaiEdgedns, Aliyun, AliyunEsa,
           Arvancloud, AwsRoute53, Azure, Baiducloud, Beget, Bookmyname, Bunny,
           Cloudflare, Cloudns, Conohavpsv2, Constellix, Cpanel, Desec,
           Digitalocean, Dnsexit, Dnsla, Dnsmadeeasy, Duckdns, Dynadot, Dynu,
           Gandinet, Gcore, Gname, Godaddy, Googlecloud, Hetzner, Hostingde,
           Hostinger, Huaweicloud, Infomaniak, Ionos, Jdcloud, Luadns, Namecheap,
           Namedotcom, Namesilo, Netcup, Netlify, Ns1, Oraclecloud, Ovhcloud,
           Porkbun, Powerdns, Rainyun, Regru, Rfc2136, Rucenter, Simplycom,
           Spaceship, Technitiumdns, Tencentcloud, TencentcloudEo, Todaynic,
           Vercel, Volcengine, Vultr, Westcn, Xinnet, Yandexcloud, AwsLightsail,
           Byteplus, Cmcccloud, Conohavpsv3, Ctcccloud, Dynv6, Linode, Qingcloud,
           Ucloud}
Http01Challengers == UNION {LocalFile, Ftp, S3, Ssh}
AllChallengers == Dns01Challengers \cup Http01Challengers
=============================================================================
