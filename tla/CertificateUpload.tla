--------------------------- MODULE CertificateUpload ---------------------------
(***************************************************************************)
(* Certmgr.Upload, run by several deployments of the same certificate      *)
(* against one account of a service: a run that was canceled but still     *)
(* works in its node and the run that replaced it overlap.  The manager is *)
(* one of CertificateStores; the account is an external service that may   *)
(* refuse a request, or serve it and lose the answer, and in which the     *)
(* user may remove an entry at any time.                                   *)
(*                                                                         *)
(* A listing is modelled by the entries it has yet to show: a page takes   *)
(* some of them, in an order the service chooses.  A listing by offset     *)
(* ("pages") skips an entry when one it has shown is removed; a cursor     *)
(* ("token") does not.                                                     *)
(***************************************************************************)
EXTENDS CertificateStores, FiniteSets, Naturals

CONSTANTS Uploaders,  \* the deployments that upload the certificate
          Entries,    \* the identifiers the account can give
          NoEntry,    \* the empty identifier
          Kinds,      \* the managers
          PageSize,   \* entries in a full page
          MaxUploads, \* bound: uploads begun, retries included
          MaxRemovals \* bound: entries the user removes

ASSUME KindsAssumption == Kinds \subseteq Managers
ASSUME EntryAssumption == NoEntry \notin Entries /\ IsFiniteSet(Entries)
ASSUME BoundsAssumption ==
    /\ PageSize \in Nat \ {0}
    /\ MaxUploads \in Nat
    /\ MaxRemovals \in Nat

VARIABLES store,    \* the manager that runs
          content,  \* what each entry holds
          kept,     \* history: the entries that have held the certificate
          pc,       \* where each uploader is
          why,      \* what its search is for: "before", "refused", "after"
          unseen,   \* entries its listing has not shown yet
          page,     \* candidates of the page, to be asked for their detail
          last,     \* the page was the last one
          answer,   \* the entry it answers
          result,   \* "none", "ok" or "error"
          begun,    \* number of uploads begun
          removals, \* number of entries removed
          had,      \* history: entries that held the certificate all along
                    \* since the uploader began
          missed    \* history: the listing skipped an entry, or the error of
                    \* a detail request was passed over

account == <<content, kept, removals>>
search == <<why, unseen, page, last, missed>>
vars == <<store, account, pc, search, answer, result, begun, had>>

\* "free" has not been given yet; "alike" is another certificate with the same
\* names; "blank" is an entry whose certificate is still to come.
Contents == {"free", "mine", "alike", "other", "blank", "removed"}
Places == {"idle", "search", "examine", "add", "fill", "confirm", "done"}

TypeOK ==
    /\ store \in Kinds
    /\ content \in [Entries -> Contents]
    /\ kept \in SUBSET Entries
    /\ pc \in [Uploaders -> Places]
    /\ why \in [Uploaders -> {"before", "refused", "after"}]
    /\ unseen \in [Uploaders -> SUBSET Entries]
    /\ page \in [Uploaders -> SUBSET Entries]
    /\ last \in [Uploaders -> BOOLEAN]
    /\ missed \in [Uploaders -> BOOLEAN]
    /\ had \in [Uploaders -> SUBSET Entries]
    /\ answer \in [Uploaders -> Entries \cup {NoEntry}]
    /\ result \in [Uploaders -> {"none", "ok", "error"}]
    /\ begun \in 0..MaxUploads
    /\ removals \in 0..MaxRemovals

Present == {e \in Entries : content[e] \notin {"free", "removed"}}
Mine == {e \in Entries : content[e] = "mine"}

\* An entry that a manager comparing attributes only could take for the
\* certificate has the same serial number or the same names and dates: issuers
\* do not give two such certificates.
Init ==
    /\ store \in Kinds
    /\ content \in [Entries -> {"free", "mine", "alike", "other"}]
    /\ store.compares = "attributes" => \A e \in Entries : content[e] # "alike"
    /\ kept = Mine
    /\ pc = [u \in Uploaders |-> "idle"]
    /\ why = [u \in Uploaders |-> "before"]
    /\ unseen = [u \in Uploaders |-> {}]
    /\ page = [u \in Uploaders |-> {}]
    /\ last = [u \in Uploaders |-> FALSE]
    /\ missed = [u \in Uploaders |-> FALSE]
    /\ had = [u \in Uploaders |-> {}]
    /\ answer = [u \in Uploaders |-> NoEntry]
    /\ result = [u \in Uploaders |-> "none"]
    /\ begun = 0
    /\ removals = 0

-----------------------------------------------------------------------------
\* The ends of an upload.
Succeed(u, e) ==
    /\ pc' = [pc EXCEPT ![u] = "done"]
    /\ answer' = [answer EXCEPT ![u] = e]
    /\ result' = [result EXCEPT ![u] = "ok"]

Fail(u) ==
    /\ pc' = [pc EXCEPT ![u] = "done"]
    /\ result' = [result EXCEPT ![u] = "error"]
    /\ UNCHANGED answer

GoTo(u, place) ==
    /\ pc' = [pc EXCEPT ![u] = place]
    /\ UNCHANGED <<answer, result>>

\* A search that asks the first request of its listing.
StartSearch(u, purpose) ==
    /\ why' = [why EXCEPT ![u] = purpose]
    /\ unseen' = [unseen EXCEPT ![u] = Present]
    /\ page' = [page EXCEPT ![u] = {}]
    /\ last' = [last EXCEPT ![u] = FALSE]
    /\ missed' = [missed EXCEPT ![u] = FALSE]

Begin(u) ==
    /\ pc[u] \in {"idle", "done"}
    /\ begun < MaxUploads
    /\ begun' = begun + 1
    /\ pc' = [pc EXCEPT ![u] = IF store.search = "none" THEN "add" ELSE "search"]
    /\ answer' = [answer EXCEPT ![u] = NoEntry]
    /\ result' = [result EXCEPT ![u] = "none"]
    /\ StartSearch(u, "before")
    /\ had' = [had EXCEPT ![u] = Mine]
    /\ UNCHANGED <<store, account>>

\* A search that found nothing leads to the addition when it came before one,
\* and is an error when the service said or should say that the entry is there.
NotFound(u) == IF why[u] = "before" THEN GoTo(u, "add") ELSE Fail(u)

\* The listing of a manager that adds first is by pages.
Listing == IF store.search = "none" THEN "pages" ELSE store.search

\* The pages the next request may show.
NextPages(u) ==
    LET there == unseen[u] \cap Present IN
    IF Listing = "once" THEN {there}
    ELSE {p \in SUBSET there :
            Cardinality(p) = (IF Cardinality(there) < PageSize
                              THEN Cardinality(there) ELSE PageSize)}

\* Mutant: the listing ends with its first page.
IsLastAtOnce(u, p) == TRUE

\* Whether a page ends the listing.
IsLast(u, p) ==
    CASE Listing = "once" -> TRUE
      [] Listing = "token" -> unseen[u] \cap Present \subseteq p
      [] Listing = "pages" -> Cardinality(p) < PageSize

\* Mutant: the names are enough.
MatchesByName(e) == content[e] \in {"mine", "alike"}

\* What the comparison accepts.
Matches(e) ==
    \/ content[e] = "mine"
    \/ content[e] = "alike" /\ store.compares = "attributes"

\* One request of the listing.  A manager that needs no detail compares the
\* page as it goes through it.
SearchPage(u) ==
    /\ pc[u] = "search"
    /\ \E p \in NextPages(u) :
         /\ unseen' = [unseen EXCEPT ![u] = @ \ p]
         /\ last' = [last EXCEPT ![u] = IsLast(u, p)]
         /\ IF store.detail # "none"
            THEN /\ page' = [page EXCEPT ![u] = p]
                 /\ GoTo(u, "examine")
            ELSE /\ page' = page
                 /\ IF \E e \in p : Matches(e)
                    THEN \E e \in p : Matches(e) /\ Succeed(u, e)
                    ELSE IF IsLast(u, p) THEN NotFound(u) ELSE GoTo(u, "search")
    /\ UNCHANGED <<store, account, why, missed, begun, had>>

\* The request for the detail of one candidate.
Examine(u) ==
    /\ pc[u] = "examine"
    /\ \E e \in page[u] :
         /\ page' = [page EXCEPT ![u] = @ \ {e}]
         /\ \/ content[e] # "removed" /\ Matches(e) /\ Succeed(u, e) /\ UNCHANGED missed
            \/ content[e] # "removed" /\ ~Matches(e) /\ GoTo(u, "examine") /\ UNCHANGED missed
            \/ /\ content[e] = "removed"
               /\ IF store.detail = "strict" THEN Fail(u) ELSE GoTo(u, "examine")
               /\ UNCHANGED missed
            \/ /\ store.detail = "skipsErrors"
               /\ GoTo(u, "examine")
               /\ missed' = [missed EXCEPT ![u] = TRUE]
    /\ UNCHANGED <<store, account, why, unseen, last, begun, had>>

\* The page is through.
NextOrNotFound(u) ==
    /\ pc[u] = "examine"
    /\ page[u] = {}
    /\ IF last[u] THEN NotFound(u) ELSE GoTo(u, "search")
    /\ UNCHANGED <<store, account, search, begun, had>>

\* A listing or detail request fails, or the context is canceled.
SearchFails(u) ==
    /\ pc[u] \in {"search", "examine"}
    /\ pc[u] = "examine" => page[u] # {} /\ store.detail # "skipsErrors"
    /\ Fail(u)
    /\ UNCHANGED <<store, account, search, begun, had>>

-----------------------------------------------------------------------------
\* The listings under way may or may not show an entry that is added.
Appears(e, u) ==
    \E s \in SUBSET (Uploaders \ {u}) :
      unseen' = [v \in Uploaders |->
                   IF v \in s /\ pc[v] \in {"search", "examine"}
                   THEN unseen[v] \cup {e} ELSE unseen[v]]

\* What follows a request that added entry e.
Added(u, e) ==
    IF store.empty THEN
        /\ pc' = [pc EXCEPT ![u] = "fill"]
        /\ answer' = [answer EXCEPT ![u] = e]
        /\ UNCHANGED <<result, why, page, last, missed>>
        /\ Appears(e, u)
    ELSE IF store.confirm = "search" THEN
        /\ GoTo(u, "search")
        /\ why' = [why EXCEPT ![u] = "after"]
        /\ page' = [page EXCEPT ![u] = {}]
        /\ last' = [last EXCEPT ![u] = FALSE]
        /\ missed' = [missed EXCEPT ![u] = FALSE]
        /\ unseen' = [unseen EXCEPT ![u] = Present \cup {e}]
    ELSE IF store.confirm = "detail" THEN
        /\ pc' = [pc EXCEPT ![u] = "confirm"]
        /\ answer' = [answer EXCEPT ![u] = e]
        /\ UNCHANGED <<result, why, page, last, missed>>
        /\ Appears(e, u)
    ELSE
        /\ Succeed(u, e)
        /\ UNCHANGED <<why, page, last, missed>>
        /\ Appears(e, u)

\* The addition fails; a manager that does not look at the error goes on with
\* the empty answer.
AddFails(u) == IF store.unchecked THEN Succeed(u, NoEntry) ELSE Fail(u)

\* The service has the certificate and adds nothing.
Duplicate(u) ==
    /\ pc[u] = "add"
    /\ store.adds # "another"
    /\ \E e \in Mine :
         \/ /\ store.adds = "known" \/ store.refused = "parse"
            /\ Succeed(u, e)
            /\ UNCHANGED search
         \/ /\ store.adds = "refused" /\ store.refused = "search"
            /\ GoTo(u, "search")
            /\ StartSearch(u, "refused")
    /\ UNCHANGED <<store, account, begun, had>>

\* The service adds an entry; its answer may be lost.
Add(u) ==
    /\ pc[u] = "add"
    /\ store.adds # "another" => Mine = {}
    /\ \E e \in Entries :
         /\ content[e] = "free"
         /\ content' = [content EXCEPT ![e] = IF store.empty THEN "blank" ELSE "mine"]
         /\ kept' = IF store.empty THEN kept ELSE kept \cup {e}
         /\ \/ Added(u, e)
            \/ AddFails(u) /\ Appears(e, u) /\ UNCHANGED <<why, page, last, missed>>
    /\ UNCHANGED <<store, removals, begun, had>>

\* The request is refused for another reason, or does not arrive.
AddRefused(u) ==
    /\ pc[u] = "add"
    /\ AddFails(u)
    /\ UNCHANGED <<store, account, search, begun, had>>

\* The second request of a manager that creates its entry empty.
Fill(u) ==
    /\ pc[u] = "fill"
    /\ \/ /\ content[answer[u]] = "blank"
          /\ content' = [content EXCEPT ![answer[u]] = "mine"]
          /\ kept' = kept \cup {answer[u]}
          /\ Succeed(u, answer[u]) \/ Fail(u)
       \/ Fail(u) /\ UNCHANGED <<content, kept>>
    /\ UNCHANGED <<store, removals, search, begun, had>>

\* The request for the detail of the entry just added.
Confirm(u) ==
    /\ pc[u] = "confirm"
    /\ (content[answer[u]] # "removed" /\ Succeed(u, answer[u])) \/ Fail(u)
    /\ UNCHANGED <<store, account, search, begun, had>>

\* The user removes an entry.  A listing by offset that has shown it skips
\* the entry that takes its place.
UserRemoves ==
    /\ removals < MaxRemovals
    /\ removals' = removals + 1
    /\ \E e \in Present :
         /\ content' = [content EXCEPT ![e] = "removed"]
         /\ had' = [u \in Uploaders |-> had[u] \ {e}]
         /\ \E s \in SUBSET {u \in Uploaders : /\ pc[u] \in {"search", "examine"}
                                             /\ Listing = "pages"
                                             /\ e \notin unseen[u]} :
              \E skipped \in Entries :
                /\ unseen' = [u \in Uploaders |->
                                IF u \in s THEN unseen[u] \ {skipped} ELSE unseen[u]]
                /\ missed' = [u \in Uploaders |->
                                missed[u] \/ (u \in s /\ skipped \in unseen[u])]
    /\ UNCHANGED <<store, kept, pc, why, page, last, answer, result, begun>>

Step(u) ==
    \/ SearchPage(u) \/ Examine(u) \/ NextOrNotFound(u) \/ SearchFails(u)
    \/ Duplicate(u) \/ Add(u) \/ AddRefused(u) \/ Fill(u) \/ Confirm(u)

Next ==
    \/ \E u \in Uploaders : Begin(u) \/ Step(u)
    \/ UserRemoves

Spec == Init /\ [][Next]_vars

-----------------------------------------------------------------------------
\* The identifier an uploader is answered is given when the upload ends.
Given == [u \in Uploaders |-> IF result[u] = "ok" THEN answer[u] ELSE NoEntry]

Contract == INSTANCE UploadContract WITH
    Uploaders <- Uploaders, Entries <- Entries, NoEntry <- NoEntry,
    kept <- kept, answer <- Given, result <- result

\* Every upload that succeeds answers an entry that held this very certificate,
\* whatever the listing, the overlapping upload and the lost answers did.
KeepsContract == Contract!Spec

\* A certificate that stayed in the account for the whole search is not added
\* once more, unless the listing skipped it or the error of a detail request
\* was passed over: a retry after a lost answer finds the entry it made.
AddsOnlyWhatIsMissing ==
    \A u \in Uploaders :
      pc[u] = "add" /\ store.search # "none" => had[u] = {} \/ missed[u]
=============================================================================
