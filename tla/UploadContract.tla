---------------------------- MODULE UploadContract ----------------------------
(***************************************************************************)
(* What an upload promises to the deployer that asked for it: it fails, or *)
(* it answers an entry of the store that held the certificate.  Entries    *)
(* may come to hold the certificate at any time - another upload of the    *)
(* same certificate, or one whose answer was lost.  CertificateUpload      *)
(* implements it; the uploads of Deployment are steps of it.               *)
(***************************************************************************)
CONSTANTS Uploaders, \* the deployments that upload
          Entries,   \* the identifiers the store can give
          NoEntry    \* the empty identifier

VARIABLES kept,      \* the entries that have held the certificate
          answer,    \* the entry an uploader was answered
          result     \* "none", "ok" or "error"

vars == <<kept, answer, result>>

Init ==
    /\ kept \in SUBSET Entries
    /\ answer = [u \in Uploaders |-> NoEntry]
    /\ result = [u \in Uploaders |-> "none"]

Keep ==
    /\ \E e \in Entries : kept' = kept \cup {e}
    /\ UNCHANGED <<answer, result>>

Begin(u) ==
    /\ answer' = [answer EXCEPT ![u] = NoEntry]
    /\ result' = [result EXCEPT ![u] = "none"]
    /\ UNCHANGED kept

\* A service that answers the new entry does so in the step that fills it.
Succeed(u) ==
    /\ \E e \in Entries :
         /\ kept' \in {kept, kept \cup {e}}
         /\ e \in kept'
         /\ answer' = [answer EXCEPT ![u] = e]
    /\ result' = [result EXCEPT ![u] = "ok"]

Fail(u) ==
    /\ \/ UNCHANGED kept
       \/ \E e \in Entries : kept' = kept \cup {e}
    /\ result' = [result EXCEPT ![u] = "error"]
    /\ UNCHANGED answer

Next ==
    \/ Keep
    \/ \E u \in Uploaders : Begin(u) \/ Succeed(u) \/ Fail(u)

Spec == Init /\ [][Next]_vars
=============================================================================
