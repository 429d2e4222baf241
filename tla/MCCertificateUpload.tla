-------------------------- MODULE MCCertificateUpload --------------------------
(* Two overlapping uploads of one certificate to an account of three         *)
(* entries, shown one to a page; every manager that looks at its errors.     *)
EXTENDS CertificateUpload, TLC

CONSTANTS u1, u2, e1, e2, e3

MCUploaders == {u1, u2}
MCEntries == {e1, e2, e3}
CheckedKinds == {k \in UploadKinds : ~k.unchecked}
UncheckedKinds == {k \in UploadKinds : k.unchecked}
Symmetry == Permutations(MCUploaders) \cup Permutations(MCEntries)
=============================================================================
