------------------------ MODULE MCCertificateRenewal ------------------------
(* Configurations for CertificateRenewal.  A provider's access record often    *)
(* serves several of its products, so two providers may share a place.         *)
EXTENDS CertificateRenewal

Site(provider, place, skip) ==
  [provider |-> provider, place |-> place, skipOnLastSucceeded |-> skip]

OneSite == {Site("cdn", "a", TRUE)}
TwoPlaces == {Site("cdn", "a", TRUE), Site("cdn", "b", TRUE)}
EagerSite == {Site("cdn", "a", FALSE)}
TwoProviders == {Site("cdn", "a", TRUE), Site("waf", "a", TRUE)}
=============================================================================
