------------------------ MODULE CertificateUploadProofs ------------------------
(* CertificateUpload implements UploadContract, for every set of managers     *)
(* that look at their errors and any number of uploaders, entries and pages.  *)
EXTENDS CertificateUpload, FiniteSetTheorems, TLAPS

\* An entry that holds the certificate has held it, and nothing else is taken
\* for it.
Found ==
    /\ Mine \subseteq kept
    /\ store.compares = "attributes" => \A e \in Entries : content[e] # "alike"

\* The uploader that fills or confirms an entry has one; what it confirms was
\* kept; and it has answered nothing yet.
Underway ==
    \A u \in Uploaders :
        /\ pc[u] \in {"fill", "confirm"} => answer[u] \in Entries
        /\ pc[u] = "confirm" => answer[u] \in kept
        /\ pc[u] \notin {"idle", "done"} => result[u] = "none"
        /\ pc[u] = "idle" => result[u] = "none"

UploadInv == TypeOK /\ Found /\ Underway

LEMMA InitInv == Init => UploadInv
<1> SUFFICES ASSUME Init PROVE UploadInv
  OBVIOUS
<1>1. content \in [Entries -> Contents] /\ kept \in SUBSET Entries
  BY DEF Init, Contents, Mine
<1>2. begun \in 0..MaxUploads /\ removals \in 0..MaxRemovals
  BY BoundsAssumption DEF Init
<1>3. TypeOK
  BY <1>1, <1>2 DEF Init, TypeOK, Places
<1>4. Found /\ Underway
  BY DEF Init, Found, Underway
<1> QED
  BY <1>3, <1>4 DEF UploadInv

-----------------------------------------------------------------------------
\* What an uploader's own step may do: go on, fail, or answer an entry kept.
GoesOn(u) ==
    \E place \in Places, a \in Entries \cup {NoEntry} :
        /\ place \notin {"idle", "done"}
        /\ place \in {"fill", "confirm"} => a \in Entries
        /\ place = "confirm" => a \in kept'
        /\ pc' = [pc EXCEPT ![u] = place]
        /\ answer' = [answer EXCEPT ![u] = a]
        /\ UNCHANGED result
Answers(u) ==
    \E e \in Entries : /\ kept' \in {kept, kept \cup {e}}
                      /\ e \in kept'
                      /\ Succeed(u, e)
AnswersNothing(u) == store.unchecked /\ Succeed(u, NoEntry)
StepKind(u) ==
    /\ pc[u] \notin {"idle", "done"}
    /\ UNCHANGED <<store, begun, had>>
    /\ kept' = kept \/ \E e \in Entries : kept' = kept \cup {e}
    /\ content' \in [Entries -> Contents]
    /\ \A e \in Entries : content'[e] = "mine" => content[e] = "mine" \/ e \in kept'
    /\ \A e \in Entries : content'[e] = "alike" => content[e] = "alike"
    /\ why' \in [Uploaders -> {"before", "refused", "after"}]
    /\ unseen' \in [Uploaders -> SUBSET Entries]
    /\ page' \in [Uploaders -> SUBSET Entries]
    /\ last' \in [Uploaders -> BOOLEAN]
    /\ missed' \in [Uploaders -> BOOLEAN]
    /\ removals' = removals
    /\ GoesOn(u) \/ Fail(u) \/ Answers(u) \/ AnswersNothing(u)

LEMMA GoToGoesOn ==
  ASSUME TypeOK, NEW u \in Uploaders, NEW place \in Places, GoTo(u, place),
         place \notin {"idle", "done", "fill", "confirm"}
  PROVE  GoesOn(u)
<1>1. answer' = [answer EXCEPT ![u] = answer[u]] /\ answer[u] \in Entries \cup {NoEntry}
  BY DEF GoTo, TypeOK
<1> QED
  BY <1>1 DEF GoTo, GoesOn

\* An account that is left alone.
LEMMA AccountStill ==
  ASSUME TypeOK, UNCHANGED account
  PROVE  /\ kept' = kept
         /\ content' \in [Entries -> Contents]
         /\ \A e \in Entries : content'[e] = "mine" => content[e] = "mine" \/ e \in kept'
         /\ \A e \in Entries : content'[e] = "alike" => content[e] = "alike"
         /\ removals' = removals
  BY DEF account, TypeOK

LEMMA SearchStill ==
  ASSUME TypeOK, UNCHANGED search
  PROVE  /\ why' \in [Uploaders -> {"before", "refused", "after"}]
         /\ unseen' \in [Uploaders -> SUBSET Entries]
         /\ page' \in [Uploaders -> SUBSET Entries]
         /\ last' \in [Uploaders -> BOOLEAN]
         /\ missed' \in [Uploaders -> BOOLEAN]
  BY DEF search, TypeOK

LEMMA StartSearchTyped ==
  ASSUME TypeOK, NEW u \in Uploaders, NEW p \in {"before", "refused", "after"}, StartSearch(u, p)
  PROVE  /\ why' \in [Uploaders -> {"before", "refused", "after"}]
         /\ unseen' \in [Uploaders -> SUBSET Entries]
         /\ page' \in [Uploaders -> SUBSET Entries]
         /\ last' \in [Uploaders -> BOOLEAN]
         /\ missed' \in [Uploaders -> BOOLEAN]
  BY DEF StartSearch, TypeOK, Present

LEMMA NotFoundKind ==
  ASSUME TypeOK, NEW u \in Uploaders, NotFound(u) PROVE GoesOn(u) \/ Fail(u)
<1>1. "add" \in Places
  BY DEF Places
<1> QED
  BY <1>1, GoToGoesOn DEF NotFound

\* What the comparison accepts has been kept.
LEMMA MatchIsKept ==
  ASSUME UploadInv, NEW e \in Entries, Matches(e) PROVE e \in kept
  BY DEF UploadInv, Found, Matches, Mine

LEMMA NextPagesTyped ==
  ASSUME TypeOK, NEW u \in Uploaders, NEW p \in NextPages(u)
  PROVE  p \in SUBSET Entries
  BY DEF NextPages, TypeOK

LEMMA IsLastBoolean ==
  ASSUME TypeOK, NEW u \in Uploaders, NEW p PROVE IsLast(u, p) \in BOOLEAN
<1>1. Listing \in {"once", "token", "pages"}
  BY KindsAssumption DEF Listing, TypeOK, Managers
<1>2. CASE Listing = "once"
  BY <1>2 DEF IsLast
<1>3. CASE Listing = "token"
  BY <1>3 DEF IsLast
<1>4. CASE Listing = "pages"
  BY <1>4 DEF IsLast
<1> QED
  BY <1>1, <1>2, <1>3, <1>4

-----------------------------------------------------------------------------
LEMMA SearchPageKind ==
  ASSUME UploadInv, NEW u \in Uploaders, SearchPage(u) PROVE StepKind(u)
<1> USE DEF UploadInv
<1>1. /\ pc[u] = "search"
      /\ UNCHANGED <<store, account, why, missed, begun, had>>
  BY DEF SearchPage
<1>2. PICK p \in NextPages(u) :
         /\ unseen' = [unseen EXCEPT ![u] = @ \ p]
         /\ last' = [last EXCEPT ![u] = IsLast(u, p)]
         /\ IF store.detail # "none"
            THEN /\ page' = [page EXCEPT ![u] = p]
                 /\ GoTo(u, "examine")
            ELSE /\ page' = page
                 /\ IF \E e \in p : Matches(e)
                    THEN \E e \in p : Matches(e) /\ Succeed(u, e)
                    ELSE IF IsLast(u, p) THEN NotFound(u) ELSE GoTo(u, "search")
  BY DEF SearchPage
<1>3. p \in SUBSET Entries /\ IsLast(u, p) \in BOOLEAN
  BY NextPagesTyped, IsLastBoolean
<1>4. /\ unseen' \in [Uploaders -> SUBSET Entries]
      /\ last' \in [Uploaders -> BOOLEAN]
      /\ page' \in [Uploaders -> SUBSET Entries]
      /\ why' \in [Uploaders -> {"before", "refused", "after"}]
      /\ missed' \in [Uploaders -> BOOLEAN]
  BY <1>1, <1>2, <1>3 DEF TypeOK
<1>5. GoesOn(u) \/ Fail(u) \/ Answers(u)
  <2>1. "examine" \in Places /\ "search" \in Places
    BY DEF Places
  <2>2. CASE GoTo(u, "examine") \/ GoTo(u, "search")
    BY <2>1, <2>2, GoToGoesOn
  <2>3. CASE NotFound(u)
    BY <2>3, NotFoundKind
  <2>4. CASE \E e \in p : Matches(e) /\ Succeed(u, e)
    BY <1>1, <1>3, <2>4, MatchIsKept DEF Answers, account
  <2> QED
    BY <1>2, <2>2, <2>3, <2>4
<1> QED
  BY <1>1, <1>4, <1>5, AccountStill DEF StepKind

LEMMA ExamineKind ==
  ASSUME UploadInv, NEW u \in Uploaders, Examine(u) PROVE StepKind(u)
<1> USE DEF UploadInv
<1>1. /\ pc[u] = "examine"
      /\ UNCHANGED <<store, account, why, unseen, last, begun, had>>
  BY DEF Examine
<1>2. PICK e \in page[u] :
         /\ page' = [page EXCEPT ![u] = @ \ {e}]
         /\ \/ content[e] # "removed" /\ Matches(e) /\ Succeed(u, e) /\ UNCHANGED missed
            \/ content[e] # "removed" /\ ~Matches(e) /\ GoTo(u, "examine") /\ UNCHANGED missed
            \/ /\ content[e] = "removed"
               /\ IF store.detail = "strict" THEN Fail(u) ELSE GoTo(u, "examine")
               /\ UNCHANGED missed
            \/ /\ store.detail = "skipsErrors"
               /\ GoTo(u, "examine")
               /\ missed' = [missed EXCEPT ![u] = TRUE]
  BY DEF Examine
<1>3. e \in Entries
  BY DEF TypeOK
<1>4. /\ unseen' \in [Uploaders -> SUBSET Entries]
      /\ last' \in [Uploaders -> BOOLEAN]
      /\ page' \in [Uploaders -> SUBSET Entries]
      /\ why' \in [Uploaders -> {"before", "refused", "after"}]
      /\ missed' \in [Uploaders -> BOOLEAN]
  BY <1>1, <1>2 DEF TypeOK
<1>5. GoesOn(u) \/ Fail(u) \/ Answers(u)
  <2>1. "examine" \in Places
    BY DEF Places
  <2>2. CASE GoTo(u, "examine")
    BY <2>1, <2>2, GoToGoesOn
  <2>3. CASE Matches(e) /\ Succeed(u, e)
    BY <1>1, <1>3, <2>3, MatchIsKept DEF Answers, account
  <2> QED
    BY <1>2, <2>2, <2>3
<1> QED
  BY <1>1, <1>4, <1>5, AccountStill DEF StepKind

LEMMA SimpleKinds ==
  ASSUME UploadInv, NEW u \in Uploaders,
         NextOrNotFound(u) \/ SearchFails(u) \/ Confirm(u)
  PROVE  StepKind(u)
<1> USE DEF UploadInv
<1>1. /\ pc[u] \in {"search", "examine", "confirm"}
      /\ UNCHANGED <<store, account, search, begun, had>>
  BY DEF NextOrNotFound, SearchFails, Confirm
<1>2. GoesOn(u) \/ Fail(u) \/ Answers(u)
  <2>1. CASE NextOrNotFound(u)
    <3>1. "search" \in Places
      BY DEF Places
    <3>2. NotFound(u) \/ GoTo(u, "search")
      BY <2>1 DEF NextOrNotFound
    <3> QED
      BY <3>1, <3>2, NotFoundKind, GoToGoesOn
  <2>2. CASE SearchFails(u)
    BY <2>2 DEF SearchFails
  <2>3. CASE Confirm(u)
    <3>1. answer[u] \in Entries /\ answer[u] \in kept' /\ kept' = kept
      BY <1>1, <2>3 DEF Confirm, Underway, account
    <3>2. CASE Succeed(u, answer[u])
      BY <3>1, <3>2 DEF Answers
    <3> QED
      BY <2>3, <3>2 DEF Confirm
  <2> QED
    BY <2>1, <2>2, <2>3
<1> QED
  BY <1>1, <1>2, AccountStill, SearchStill DEF StepKind

LEMMA AddFailsIsFail ==
  ASSUME NEW u \in Uploaders, AddFails(u)
  PROVE  Fail(u) \/ AnswersNothing(u)
  BY DEF AddFails, AnswersNothing

LEMMA DuplicateKinds ==
  ASSUME UploadInv, NEW u \in Uploaders,
         Duplicate(u) \/ AddRefused(u)
  PROVE  StepKind(u)
<1> USE DEF UploadInv
<1>1. pc[u] = "add" /\ UNCHANGED <<store, account, begun, had>>
  BY DEF Duplicate, AddRefused
<1>2. CASE AddRefused(u)
  BY <1>1, <1>2, AddFailsIsFail, AccountStill, SearchStill DEF AddRefused, StepKind
<1>3. CASE Duplicate(u)
  <2>1. PICK e \in Mine :
         \/ Succeed(u, e) /\ UNCHANGED search
         \/ GoTo(u, "search") /\ StartSearch(u, "refused")
    BY <1>3 DEF Duplicate
  <2>2. e \in Entries /\ e \in kept'
    BY <1>1 DEF Mine, Found, account
  <2>3. CASE Succeed(u, e) /\ UNCHANGED search
    BY <1>1, <2>2, <2>3, AccountStill, SearchStill DEF StepKind, Answers
  <2>4. CASE GoTo(u, "search") /\ StartSearch(u, "refused")
    <3>1. "search" \in Places
      BY DEF Places
    <3>2. GoesOn(u)
      BY <2>4, <3>1, GoToGoesOn
    <3> QED
      BY <1>1, <2>4, <3>2, AccountStill, StartSearchTyped DEF StepKind
  <2> QED
    BY <2>1, <2>3, <2>4
<1> QED
  BY <1>2, <1>3

-----------------------------------------------------------------------------
\* The listings under way stay sets of entries.
LEMMA AppearsTyped ==
  ASSUME TypeOK, NEW e \in Entries, NEW u \in Uploaders, Appears(e, u)
  PROVE  unseen' \in [Uploaders -> SUBSET Entries]
<1>1. PICK s \in SUBSET (Uploaders \ {u}) :
        unseen' = [v \in Uploaders |->
                     IF v \in s /\ pc[v] \in {"search", "examine"}
                     THEN unseen[v] \cup {e} ELSE unseen[v]]
  BY DEF Appears
<1> QED
  BY <1>1 DEF TypeOK

LEMMA FillKind ==
  ASSUME UploadInv, NEW u \in Uploaders, Fill(u) PROVE StepKind(u)
<1> USE DEF UploadInv
<1>1. pc[u] = "fill" /\ UNCHANGED <<store, removals, search, begun, had>>
  BY DEF Fill
<1>2. answer[u] \in Entries
  BY <1>1 DEF Underway
<1>3. CASE /\ content' = [content EXCEPT ![answer[u]] = "mine"]
           /\ kept' = kept \cup {answer[u]}
           /\ Succeed(u, answer[u]) \/ Fail(u)
  <2>1. content' \in [Entries -> Contents]
    BY <1>2, <1>3 DEF TypeOK, Contents
  <2>2. \A e \in Entries : content'[e] = "mine" => content[e] = "mine" \/ e \in kept'
    BY <1>2, <1>3 DEF TypeOK
  <2>3. \A e \in Entries : content'[e] = "alike" => content[e] = "alike"
    BY <1>2, <1>3 DEF TypeOK
  <2>4. Fail(u) \/ Answers(u)
    BY <1>2, <1>3 DEF Answers
  <2>5. \E e \in Entries : kept' = kept \cup {e}
    BY <1>2, <1>3
  <2> QED
    BY <1>1, <2>1, <2>2, <2>3, <2>4, <2>5, SearchStill DEF StepKind
<1>4. CASE Fail(u) /\ UNCHANGED <<content, kept>>
  BY <1>1, <1>4, AccountStill, SearchStill DEF StepKind, account
<1> QED
  BY <1>3, <1>4 DEF Fill

LEMMA AddedKind ==
  ASSUME UploadInv, NEW u \in Uploaders, NEW e \in Entries, Added(u, e),
         kept' = IF store.empty THEN kept ELSE kept \cup {e}
  PROVE  /\ why' \in [Uploaders -> {"before", "refused", "after"}]
         /\ unseen' \in [Uploaders -> SUBSET Entries]
         /\ page' \in [Uploaders -> SUBSET Entries]
         /\ last' \in [Uploaders -> BOOLEAN]
         /\ missed' \in [Uploaders -> BOOLEAN]
         /\ GoesOn(u) \/ Answers(u)
<1> USE DEF UploadInv
<1>1. {"fill", "search", "confirm"} \subseteq Places
  BY DEF Places
<1>2. CASE store.empty
  <2>1. /\ pc' = [pc EXCEPT ![u] = "fill"]
        /\ answer' = [answer EXCEPT ![u] = e]
        /\ UNCHANGED <<result, why, page, last, missed>>
        /\ Appears(e, u)
    BY <1>2 DEF Added
  <2>2. GoesOn(u)
    BY <1>1, <2>1 DEF GoesOn
  <2> QED
    BY <2>1, <2>2, AppearsTyped DEF TypeOK
<1>3. CASE ~store.empty /\ store.confirm = "search"
  <2>1. /\ GoTo(u, "search")
        /\ why' = [why EXCEPT ![u] = "after"]
        /\ page' = [page EXCEPT ![u] = {}]
        /\ last' = [last EXCEPT ![u] = FALSE]
        /\ missed' = [missed EXCEPT ![u] = FALSE]
        /\ unseen' = [unseen EXCEPT ![u] = Present \cup {e}]
    BY <1>3 DEF Added
  <2>2. GoesOn(u)
    BY <1>1, <2>1, GoToGoesOn
  <2> QED
    BY <2>1, <2>2 DEF TypeOK, Present
<1>4. CASE ~store.empty /\ store.confirm = "detail"
  <2>1. /\ pc' = [pc EXCEPT ![u] = "confirm"]
        /\ answer' = [answer EXCEPT ![u] = e]
        /\ UNCHANGED <<result, why, page, last, missed>>
        /\ Appears(e, u)
    BY <1>4 DEF Added
  <2>2. GoesOn(u)
    BY <1>1, <1>4, <2>1 DEF GoesOn
  <2> QED
    BY <2>1, <2>2, AppearsTyped DEF TypeOK
<1>5. CASE ~store.empty /\ store.confirm \notin {"search", "detail"}
  <2>1. Succeed(u, e) /\ UNCHANGED <<why, page, last, missed>> /\ Appears(e, u)
    BY <1>5 DEF Added
  <2>2. Answers(u)
    BY <1>5, <2>1 DEF Answers
  <2> QED
    BY <2>1, <2>2, AppearsTyped DEF TypeOK
<1> QED
  BY <1>2, <1>3, <1>4, <1>5

LEMMA AddKind ==
  ASSUME UploadInv, NEW u \in Uploaders, Add(u)
  PROVE  StepKind(u)
<1> USE DEF UploadInv
<1>1. pc[u] = "add" /\ UNCHANGED <<store, removals, begun, had>>
  BY DEF Add
<1>2. PICK e \in Entries :
         /\ content[e] = "free"
         /\ content' = [content EXCEPT ![e] = IF store.empty THEN "blank" ELSE "mine"]
         /\ kept' = IF store.empty THEN kept ELSE kept \cup {e}
         /\ \/ Added(u, e)
            \/ AddFails(u) /\ Appears(e, u) /\ UNCHANGED <<why, page, last, missed>>
  BY DEF Add
<1>3. /\ content' \in [Entries -> Contents]
      /\ \A x \in Entries : content'[x] = "mine" => content[x] = "mine" \/ x \in kept'
      /\ \A x \in Entries : content'[x] = "alike" => content[x] = "alike"
  BY <1>2 DEF TypeOK, Contents
<1>4. kept' = kept \/ \E x \in Entries : kept' = kept \cup {x}
  BY <1>2
<1>5. CASE Added(u, e)
  BY <1>1, <1>2, <1>3, <1>4, <1>5, AddedKind DEF StepKind
<1>6. CASE AddFails(u) /\ Appears(e, u) /\ UNCHANGED <<why, page, last, missed>>
  <2>1. /\ why' \in [Uploaders -> {"before", "refused", "after"}]
        /\ unseen' \in [Uploaders -> SUBSET Entries]
        /\ page' \in [Uploaders -> SUBSET Entries]
        /\ last' \in [Uploaders -> BOOLEAN]
        /\ missed' \in [Uploaders -> BOOLEAN]
    BY <1>6, AppearsTyped DEF TypeOK
  <2> QED
    BY <1>1, <1>3, <1>4, <1>6, <2>1, AddFailsIsFail DEF StepKind
<1> QED
  BY <1>2, <1>5, <1>6

LEMMA StepIsKind ==
  ASSUME UploadInv, NEW u \in Uploaders, Step(u)
  PROVE  StepKind(u)
BY SearchPageKind, ExamineKind, SimpleKinds, DuplicateKinds, AddKind, FillKind DEF Step

-----------------------------------------------------------------------------
LEMMA KindKeepsInv ==
  ASSUME UploadInv, NEW u \in Uploaders, StepKind(u) PROVE UploadInv'
<1> USE DEF UploadInv
<1>1. /\ pc' \in [Uploaders -> Places]
      /\ answer' \in [Uploaders -> Entries \cup {NoEntry}]
      /\ result' \in [Uploaders -> {"none", "ok", "error"}]
      /\ \A v \in Uploaders \ {u} : pc'[v] = pc[v] /\ answer'[v] = answer[v] /\ result'[v] = result[v]
      /\ pc'[u] \in {"fill", "confirm"} => answer'[u] \in Entries
      /\ pc'[u] = "confirm" => answer'[u] \in kept'
      /\ pc'[u] # "done" => result'[u] = "none"
  <2>1. CASE GoesOn(u)
    BY <2>1 DEF GoesOn, StepKind, Underway, TypeOK
  <2>2. CASE Fail(u)
    BY <2>2 DEF Fail, StepKind, Underway, TypeOK, Places
  <2>3. CASE Answers(u)
    BY <2>3 DEF Answers, Succeed, StepKind, Underway, TypeOK, Places
  <2>4. CASE AnswersNothing(u)
    BY <2>4 DEF AnswersNothing, Succeed, StepKind, Underway, TypeOK, Places
  <2> QED
    BY <2>1, <2>2, <2>3, <2>4 DEF StepKind
<1>2. kept' \in SUBSET Entries /\ kept \subseteq kept'
  BY DEF StepKind, TypeOK
<1>3. TypeOK'
  BY <1>1, <1>2 DEF StepKind, TypeOK
<1>4. Found'
  BY <1>2 DEF StepKind, Found, Mine
<1>5. Underway'
  BY <1>1, <1>2 DEF Underway
<1> QED
  BY <1>3, <1>4, <1>5

LEMMA BeginStep ==
  ASSUME UploadInv, NEW u \in Uploaders, Begin(u) PROVE UploadInv'
<1> USE DEF UploadInv
<1>1. begun' \in 0..MaxUploads
  BY BoundsAssumption DEF Begin, TypeOK
<1>2. pc' \in [Uploaders -> Places] /\ had' \in [Uploaders -> SUBSET Entries]
  BY DEF Begin, TypeOK, Places, Mine
<1>3. TypeOK'
  BY <1>1, <1>2, StartSearchTyped DEF Begin, TypeOK, account
<1>4. Found'
  BY DEF Begin, Found, Mine, account
<1>5. Underway'
  BY DEF Begin, Underway, TypeOK, account
<1> QED
  BY <1>3, <1>4, <1>5

LEMMA UserRemovesStep == ASSUME UploadInv, UserRemoves PROVE UploadInv'
<1> USE DEF UploadInv
<1>1. PICK e \in Present :
         /\ content' = [content EXCEPT ![e] = "removed"]
         /\ had' = [u \in Uploaders |-> had[u] \ {e}]
         /\ \E s \in SUBSET Uploaders : \E skipped \in Entries :
              /\ unseen' = [u \in Uploaders |->
                              IF u \in s THEN unseen[u] \ {skipped} ELSE unseen[u]]
              /\ missed' = [u \in Uploaders |->
                              missed[u] \/ (u \in s /\ skipped \in unseen[u])]
  BY DEF UserRemoves
<1>2. e \in Entries
  BY DEF Present
<1>3. content' \in [Entries -> Contents] /\ \A x \in Entries : content'[x] \in {content[x], "removed"}
  BY <1>1, <1>2 DEF TypeOK, Contents
<1>4. /\ had' \in [Uploaders -> SUBSET Entries] /\ unseen' \in [Uploaders -> SUBSET Entries]
      /\ missed' \in [Uploaders -> BOOLEAN]
  BY <1>1 DEF TypeOK
<1>5. removals' \in 0..MaxRemovals
  BY BoundsAssumption DEF UserRemoves, TypeOK
<1>6. UNCHANGED <<store, kept, pc, why, page, last, answer, result, begun>>
  BY DEF UserRemoves
<1>7. TypeOK'
  BY <1>3, <1>4, <1>5, <1>6 DEF TypeOK
<1>8. Found' /\ Underway'
  BY <1>3, <1>6 DEF Found, Mine, Underway
<1> QED
  BY <1>7, <1>8

LEMMA NextInv == UploadInv /\ [Next]_vars => UploadInv'
<1> SUFFICES ASSUME UploadInv, [Next]_vars PROVE UploadInv'
  OBVIOUS
<1>1. CASE UNCHANGED vars
  BY <1>1 DEF vars, account, search, UploadInv, TypeOK, Found, Underway, Mine
<1>2. ASSUME NEW u \in Uploaders, Begin(u) PROVE UploadInv'
  BY <1>2, BeginStep
<1>3. ASSUME NEW u \in Uploaders, Step(u) PROVE UploadInv'
  BY <1>3, StepIsKind, KindKeepsInv
<1> QED
  BY <1>1, <1>2, <1>3, UserRemovesStep DEF Next

\* The state of every upload is typed, whatever the account and the other
\* uploads do (core/certmgr/providers).
THEOREM TypeHolds == Spec => []TypeOK
<1>1. UploadInv => TypeOK
  BY DEF UploadInv
<1>2. UploadInv /\ [Next]_vars => UploadInv'
  BY NextInv
<1> QED
  BY <1>1, <1>2, InitInv, PTL DEF Spec

-----------------------------------------------------------------------------
(* What a search has seen *)

\* The entries that held the certificate all along hold it; while the search
\* before an addition goes on they are still to be shown or in the page that is
\* being examined, or the search has missed something; and the last page leaves
\* nothing.
Searched ==
    \A u \in Uploaders :
      /\ had[u] \subseteq Mine
      /\ store.search # "none" /\ why[u] = "before" =>
           \/ missed[u]
           \/ /\ pc[u] = "search" => had[u] \subseteq unseen[u]
              /\ pc[u] = "examine" => had[u] \subseteq page[u] \cup (IF last[u] THEN {} ELSE unseen[u])
      /\ pc[u] = "add" /\ store.search # "none" => had[u] = {} \/ missed[u]

\* A page that ends the listing shows all that is left of it.
LEMMA LastPageShowsAll ==
  ASSUME TypeOK, NEW u \in Uploaders, NEW p \in NextPages(u), IsLast(u, p)
  PROVE  unseen[u] \cap Present \subseteq p
<1> DEFINE there == unseen[u] \cap Present
<1>1. Listing \in {"once", "token", "pages"}
  BY KindsAssumption DEF Listing, TypeOK, Managers
<1>2. CASE Listing = "once"
  BY <1>2 DEF NextPages
<1>3. CASE Listing = "token"
  BY <1>3 DEF IsLast
<1>4. CASE Listing = "pages"
  <2>1. IsFiniteSet(there) /\ p \in SUBSET there
    BY <1>4, EntryAssumption, FS_Subset DEF NextPages, Present
  <2>2. /\ Cardinality(there) \in Nat /\ Cardinality(p) < PageSize
        /\ Cardinality(p) = IF Cardinality(there) < PageSize THEN Cardinality(there) ELSE PageSize
    BY <1>4, <2>1, FS_CardinalityType DEF NextPages, IsLast
  <2>3. Cardinality(p) = Cardinality(there)
    BY <2>2, BoundsAssumption
  <2> QED BY <2>1, <2>3, FS_Subset
<1> QED BY <1>1, <1>2, <1>3, <1>4

\* An uploader's step leaves the others' searches alone, but for the entry it
\* may add to their listings; and no certificate is taken away.
LEMMA StepKeepsOthers ==
  ASSUME UploadInv, NEW u \in Uploaders, Step(u)
  PROVE  /\ UNCHANGED <<store, had>> /\ Mine \subseteq Mine'
         /\ \A v \in Uploaders \ {u} :
              /\ pc'[v] = pc[v] /\ why'[v] = why[v] /\ page'[v] = page[v]
              /\ last'[v] = last[v] /\ missed'[v] = missed[v]
              /\ unseen[v] \subseteq unseen'[v]
<1> USE DEF UploadInv
<1> DEFINE Alone(v) == /\ pc'[v] = pc[v] /\ why'[v] = why[v] /\ page'[v] = page[v]
                       /\ last'[v] = last[v] /\ missed'[v] = missed[v]
                       /\ unseen[v] \subseteq unseen'[v]
<1>1. UNCHANGED <<store, had>>
  BY StepIsKind DEF StepKind
<1>2. SUFFICES Mine \subseteq Mine' /\ \A v \in Uploaders \ {u} : Alone(v)
  BY <1>1
<1>3. ASSUME \/ \E e : Succeed(u, e)
             \/ Fail(u)
             \/ \E place : GoTo(u, place)
             \/ \E place : pc' = [pc EXCEPT ![u] = place]
      PROVE  \A v \in Uploaders \ {u} : pc'[v] = pc[v]
  BY <1>3 DEF Succeed, Fail, GoTo, TypeOK
<1>4. AddFails(u) \/ NotFound(u) => \A v \in Uploaders \ {u} : pc'[v] = pc[v]
  BY <1>3 DEF AddFails, NotFound
<1>5. UNCHANGED account => Mine' = Mine
  BY DEF account, Mine
<1>6. UNCHANGED search =>
        \A v : /\ why'[v] = why[v] /\ page'[v] = page[v] /\ last'[v] = last[v]
               /\ missed'[v] = missed[v] /\ unseen'[v] = unseen[v]
  BY DEF search
<1>7. CASE SearchPage(u)
  <2>1. /\ UNCHANGED <<account, why, missed>>
        /\ \E p \in NextPages(u) :
             /\ unseen' = [unseen EXCEPT ![u] = @ \ p]
             /\ last' = [last EXCEPT ![u] = IsLast(u, p)]
             /\ page' = page \/ page' = [page EXCEPT ![u] = p]
             /\ GoTo(u, "examine") \/ GoTo(u, "search") \/ NotFound(u) \/ \E e : Succeed(u, e)
    BY <1>7 DEF SearchPage
  <2>2. \A v \in Uploaders \ {u} : pc'[v] = pc[v]
    BY <1>3, <1>4, <2>1
  <2> QED BY <1>5, <2>1, <2>2 DEF TypeOK
<1>8. CASE Examine(u)
  <2>1. /\ UNCHANGED <<account, why, unseen, last>>
        /\ \E e \in page[u] : page' = [page EXCEPT ![u] = @ \ {e}]
        /\ UNCHANGED missed \/ missed' = [missed EXCEPT ![u] = TRUE]
        /\ GoTo(u, "examine") \/ Fail(u) \/ \E e : Succeed(u, e)
    BY <1>8 DEF Examine
  <2>2. \A v \in Uploaders \ {u} : pc'[v] = pc[v]
    BY <1>3, <2>1
  <2> QED BY <1>5, <2>1, <2>2 DEF TypeOK
<1>9. CASE NextOrNotFound(u) \/ SearchFails(u) \/ AddRefused(u) \/ Confirm(u)
  <2>1. /\ UNCHANGED <<account, search>>
        /\ GoTo(u, "search") \/ NotFound(u) \/ Fail(u) \/ AddFails(u) \/ \E e : Succeed(u, e)
    BY <1>9 DEF NextOrNotFound, SearchFails, AddRefused, Confirm
  <2> QED BY <1>3, <1>4, <1>5, <1>6, <2>1
<1>10. CASE Duplicate(u)
  <2>1. /\ UNCHANGED account
        /\ \/ UNCHANGED search
           \/ StartSearch(u, "refused")
        /\ GoTo(u, "search") \/ \E e : Succeed(u, e)
    BY <1>10 DEF Duplicate
  <2>2. StartSearch(u, "refused") => \A v \in Uploaders \ {u} :
          /\ why'[v] = why[v] /\ page'[v] = page[v] /\ last'[v] = last[v]
          /\ missed'[v] = missed[v] /\ unseen'[v] = unseen[v]
    BY DEF StartSearch, TypeOK
  <2> QED BY <1>3, <1>5, <1>6, <2>1, <2>2
<1>11. CASE Add(u)
  <2>1. PICK e \in Entries :
         /\ content[e] = "free"
         /\ content' = [content EXCEPT ![e] = IF store.empty THEN "blank" ELSE "mine"]
         /\ \/ Added(u, e)
            \/ AddFails(u) /\ Appears(e, u) /\ UNCHANGED <<why, page, last, missed>>
    BY <1>11 DEF Add
  <2>2. Mine \subseteq Mine'
    BY <2>1 DEF Mine, TypeOK
  <2>3. Appears(e, u) => \A v \in Uploaders \ {u} : unseen[v] \subseteq unseen'[v]
    BY DEF Appears, TypeOK
  <2>4. CASE AddFails(u) /\ Appears(e, u) /\ UNCHANGED <<why, page, last, missed>>
    BY <1>4, <2>2, <2>3, <2>4
  <2>5. CASE Added(u, e)
    <3>1. CASE Appears(e, u) /\ UNCHANGED <<why, page, last, missed>>
      <4>1. \A v \in Uploaders \ {u} : pc'[v] = pc[v]
        BY <1>3, <2>5 DEF Added
      <4> QED BY <2>2, <2>3, <3>1, <4>1
    <3>2. CASE /\ GoTo(u, "search")
               /\ why' = [why EXCEPT ![u] = "after"]
               /\ page' = [page EXCEPT ![u] = {}]
               /\ last' = [last EXCEPT ![u] = FALSE]
               /\ missed' = [missed EXCEPT ![u] = FALSE]
               /\ unseen' = [unseen EXCEPT ![u] = Present \cup {e}]
      BY <1>3, <2>2, <3>2 DEF TypeOK
    <3> QED BY <2>5, <3>1, <3>2 DEF Added
  <2> QED BY <2>1, <2>4, <2>5
<1>12. CASE Fill(u)
  <2>1. /\ UNCHANGED search
        /\ content' = [content EXCEPT ![answer[u]] = "mine"] \/ UNCHANGED content
        /\ Fail(u) \/ \E e : Succeed(u, e)
    BY <1>12 DEF Fill
  <2>2. Mine \subseteq Mine'
    BY <2>1 DEF Mine, TypeOK
  <2> QED BY <1>3, <1>6, <2>1, <2>2
<1> QED BY <1>7, <1>8, <1>9, <1>10, <1>11, <1>12 DEF Step

\* Where an uploader's own step leaves its search.
LEMMA OwnSearch ==
  ASSUME UploadInv, Searched, NEW u \in Uploaders, Step(u), store.search # "none"
  PROVE  /\ why'[u] = "before" =>
              \/ missed'[u]
              \/ /\ pc'[u] = "search" => had[u] \subseteq unseen'[u]
                 /\ pc'[u] = "examine" =>
                      had[u] \subseteq page'[u] \cup (IF last'[u] THEN {} ELSE unseen'[u])
         /\ pc'[u] = "add" => had[u] = {} \/ missed'[u]
<1> USE DEF UploadInv
<1> DEFINE Goal == /\ why'[u] = "before" =>
                        \/ missed'[u]
                        \/ /\ pc'[u] = "search" => had[u] \subseteq unseen'[u]
                           /\ pc'[u] = "examine" =>
                                had[u] \subseteq page'[u] \cup (IF last'[u] THEN {} ELSE unseen'[u])
                   /\ pc'[u] = "add" => had[u] = {} \/ missed'[u]
<1>1. had[u] \subseteq Mine /\ Mine \subseteq Present /\ had[u] \subseteq Entries
  BY DEF Searched, TypeOK, Mine, Present
<1>2. ASSUME (\E e : Succeed(u, e)) \/ Fail(u) \/ pc' = [pc EXCEPT ![u] = "fill"]
                                             \/ pc' = [pc EXCEPT ![u] = "confirm"]
      PROVE  pc'[u] \in {"done", "fill", "confirm"}
  BY <1>2 DEF Succeed, Fail, TypeOK
<1>3. ASSUME pc'[u] \in {"done", "fill", "confirm"} PROVE Goal
  BY <1>3
<1>4. ASSUME NEW place, GoTo(u, place) PROVE pc'[u] = place
  BY <1>4 DEF GoTo, TypeOK
<1>5. NotFound(u) /\ why[u] # "before" => pc'[u] = "done"
  BY <1>2 DEF NotFound, Fail, TypeOK
<1>6. NotFound(u) /\ why[u] = "before" => pc'[u] = "add"
  BY <1>4 DEF NotFound
<1>7. CASE SearchPage(u)
  <2>1. pc[u] = "search" /\ UNCHANGED <<account, why, missed>>
    BY <1>7 DEF SearchPage
  <2>2. PICK p \in NextPages(u) :
         /\ unseen' = [unseen EXCEPT ![u] = @ \ p]
         /\ last' = [last EXCEPT ![u] = IsLast(u, p)]
         /\ IF store.detail # "none"
            THEN /\ page' = [page EXCEPT ![u] = p]
                 /\ GoTo(u, "examine")
            ELSE /\ page' = page
                 /\ IF \E e \in p : Matches(e)
                    THEN \E e \in p : Matches(e) /\ Succeed(u, e)
                    ELSE IF IsLast(u, p) THEN NotFound(u) ELSE GoTo(u, "search")
    BY <1>7 DEF SearchPage
  <2>3. /\ unseen'[u] = unseen[u] \ p /\ last'[u] = IsLast(u, p)
        /\ IsLast(u, p) => unseen[u] \cap Present \subseteq p
    BY <2>2, LastPageShowsAll DEF TypeOK
  <2>4. why[u] = "before" => missed[u] \/ had[u] \subseteq unseen[u]
    BY <2>1 DEF Searched
  <2>5. CASE store.detail # "none"
    <3>1. page'[u] = p /\ pc'[u] = "examine"
      BY <1>4, <2>2, <2>5 DEF TypeOK
    <3> QED BY <1>1, <2>1, <2>3, <2>4, <3>1
  <2>6. CASE store.detail = "none" /\ \E e \in p : Matches(e)
    BY <1>2, <1>3, <2>2, <2>6
  <2>7. CASE store.detail = "none" /\ ~\E e \in p : Matches(e)
    <3>1. had[u] \cap p = {}
      BY <1>1, <2>7 DEF Matches, Mine
    <3>2. CASE IsLast(u, p)
      BY <1>1, <1>5, <1>6, <2>1, <2>2, <2>3, <2>4, <2>7, <3>1, <3>2
    <3>3. CASE ~IsLast(u, p)
      BY <1>1, <1>4, <2>1, <2>2, <2>3, <2>4, <2>7, <3>1, <3>3
    <3> QED BY <3>2, <3>3
  <2> QED BY <2>5, <2>6, <2>7
<1>8. CASE Examine(u)
  <2>1. /\ pc[u] = "examine" /\ UNCHANGED <<account, why, unseen, last>>
    BY <1>8 DEF Examine
  <2>2. PICK e \in page[u] :
         /\ page' = [page EXCEPT ![u] = @ \ {e}]
         /\ \/ Succeed(u, e)
            \/ content[e] # "removed" /\ ~Matches(e) /\ GoTo(u, "examine") /\ UNCHANGED missed
            \/ content[e] = "removed" /\ (Fail(u) \/ GoTo(u, "examine")) /\ UNCHANGED missed
            \/ GoTo(u, "examine") /\ missed' = [missed EXCEPT ![u] = TRUE]
    BY <1>8 DEF Examine
  <2>3. page'[u] = page[u] \ {e}
    BY <2>2 DEF TypeOK
  <2>4. CASE Succeed(u, e) \/ Fail(u)
    BY <1>2, <1>3, <2>4
  <2>5. CASE GoTo(u, "examine") /\ missed' = [missed EXCEPT ![u] = TRUE]
    BY <1>4, <2>5 DEF TypeOK
  <2>6. CASE ~Matches(e) /\ GoTo(u, "examine") /\ UNCHANGED missed
    <3>1. e \notin had[u]
      BY <1>1, <2>6 DEF Matches, Mine
    <3> QED BY <1>4, <2>1, <2>3, <2>6, <3>1 DEF Searched
  <2>7. CASE content[e] = "removed" /\ GoTo(u, "examine") /\ UNCHANGED missed
    <3>1. e \notin had[u]
      BY <1>1, <2>7 DEF Mine
    <3> QED BY <1>4, <2>1, <2>3, <2>7, <3>1 DEF Searched
  <2> QED BY <2>2, <2>4, <2>5, <2>6, <2>7
<1>9. CASE NextOrNotFound(u)
  <2>1. /\ pc[u] = "examine" /\ page[u] = {} /\ UNCHANGED search
        /\ IF last[u] THEN NotFound(u) ELSE GoTo(u, "search")
    BY <1>9 DEF NextOrNotFound
  <2>2. why[u] = "before" => missed[u] \/ had[u] \subseteq (IF last[u] THEN {} ELSE unseen[u])
    BY <2>1 DEF Searched
  <2>3. CASE last[u] /\ why[u] = "before"
    BY <1>6, <2>1, <2>2, <2>3 DEF search
  <2>4. CASE last[u] /\ why[u] # "before"
    BY <1>3, <1>5, <2>1, <2>4
  <2>5. CASE ~last[u]
    BY <1>4, <2>1, <2>2, <2>5 DEF search
  <2> QED BY <2>3, <2>4, <2>5
<1>10. CASE Duplicate(u)
  <2>1. \/ \E e : Succeed(u, e)
        \/ GoTo(u, "search") /\ StartSearch(u, "refused")
    BY <1>10 DEF Duplicate
  <2>2. CASE GoTo(u, "search") /\ StartSearch(u, "refused")
    <3>1. pc'[u] = "search" /\ why'[u] = "refused"
      BY <1>4, <2>2 DEF StartSearch, TypeOK
    <3> QED BY <3>1
  <2> QED BY <1>2, <1>3, <2>1, <2>2
<1>11. CASE Add(u)
  <2>1. \/ \E e : Succeed(u, e)
        \/ Fail(u)
        \/ pc' = [pc EXCEPT ![u] = "fill"]
        \/ pc' = [pc EXCEPT ![u] = "confirm"]
        \/ GoTo(u, "search") /\ why' = [why EXCEPT ![u] = "after"]
    BY <1>11 DEF Add, Added, AddFails
  <2>2. CASE GoTo(u, "search") /\ why' = [why EXCEPT ![u] = "after"]
    <3>1. pc'[u] = "search" /\ why'[u] = "after"
      BY <1>4, <2>2 DEF TypeOK
    <3> QED BY <3>1
  <2> QED BY <1>2, <1>3, <2>1, <2>2
<1>12. CASE SearchFails(u) \/ AddRefused(u) \/ Fill(u) \/ Confirm(u)
  <2>1. (\E e : Succeed(u, e)) \/ Fail(u)
    BY <1>12 DEF SearchFails, AddRefused, AddFails, Fill, Confirm
  <2> QED BY <1>2, <1>3, <2>1
<1> QED BY <1>7, <1>8, <1>9, <1>10, <1>11, <1>12 DEF Step

LEMMA SearchedStep == ASSUME UploadInv, Searched, [Next]_vars PROVE Searched'
<1> USE DEF UploadInv
<1>1. CASE UNCHANGED vars
  BY <1>1 DEF vars, account, search, Searched, Mine
<1>2. ASSUME NEW u \in Uploaders, Begin(u) PROVE Searched'
  <2>1. /\ UNCHANGED <<store, account>>
        /\ pc' = [pc EXCEPT ![u] = IF store.search = "none" THEN "add" ELSE "search"]
        /\ had' = [had EXCEPT ![u] = Mine]
        /\ StartSearch(u, "before")
    BY <1>2 DEF Begin
  <2>2. \A v \in Uploaders \ {u} :
          /\ pc'[v] = pc[v] /\ had'[v] = had[v] /\ why'[v] = why[v] /\ page'[v] = page[v]
          /\ last'[v] = last[v] /\ missed'[v] = missed[v] /\ unseen'[v] = unseen[v]
    BY <2>1 DEF StartSearch, TypeOK
  <2>3. /\ pc'[u] = (IF store.search = "none" THEN "add" ELSE "search")
        /\ had'[u] = Mine /\ unseen'[u] = Present
    BY <2>1 DEF StartSearch, TypeOK
  <2>4. Mine' = Mine /\ Mine \subseteq Present
    BY <2>1 DEF Mine, Present, account
  <2> QED BY <2>1, <2>2, <2>3, <2>4 DEF Searched
<1>3. ASSUME NEW u \in Uploaders, Step(u) PROVE Searched'
  <2>1. UNCHANGED <<store, had>> /\ Mine \subseteq Mine'
    BY <1>3, StepKeepsOthers
  <2>2. ASSUME NEW v \in Uploaders \ {u}
        PROVE  /\ pc'[v] = pc[v] /\ why'[v] = why[v] /\ page'[v] = page[v]
               /\ last'[v] = last[v] /\ missed'[v] = missed[v]
               /\ unseen[v] \subseteq unseen'[v]
    BY <1>3, <2>2, StepKeepsOthers
  <2>3. store.search # "none" =>
          /\ why'[u] = "before" =>
              \/ missed'[u]
              \/ /\ pc'[u] = "search" => had[u] \subseteq unseen'[u]
                 /\ pc'[u] = "examine" =>
                      had[u] \subseteq page'[u] \cup (IF last'[u] THEN {} ELSE unseen'[u])
          /\ pc'[u] = "add" => had[u] = {} \/ missed'[u]
    BY <1>3, OwnSearch
  <2> QED BY <2>1, <2>2, <2>3 DEF Searched
<1>4. CASE UserRemoves
  <2>1. PICK e \in Present :
         /\ content' = [content EXCEPT ![e] = "removed"]
         /\ had' = [u \in Uploaders |-> had[u] \ {e}]
         /\ \E s \in SUBSET Uploaders : \E skipped \in Entries :
              /\ unseen' = [u \in Uploaders |->
                              IF u \in s THEN unseen[u] \ {skipped} ELSE unseen[u]]
              /\ missed' = [u \in Uploaders |->
                              missed[u] \/ (u \in s /\ skipped \in unseen[u])]
    BY <1>4 DEF UserRemoves
  <2>2. UNCHANGED <<store, pc, why, page, last>>
    BY <1>4 DEF UserRemoves
  <2>3. Mine \ {e} \subseteq Mine'
    BY <2>1 DEF Mine, TypeOK
  <2>4. ASSUME NEW u \in Uploaders
        PROVE  /\ had'[u] = had[u] \ {e} /\ (missed[u] => missed'[u])
               /\ missed'[u] \/ unseen'[u] = unseen[u]
    <3>1. PICK s \in SUBSET Uploaders, skipped \in Entries :
            /\ unseen'[u] = IF u \in s THEN unseen[u] \ {skipped} ELSE unseen[u]
            /\ missed'[u] = (missed[u] \/ (u \in s /\ skipped \in unseen[u]))
      BY <2>1
    <3> QED BY <2>1, <3>1
  <2> QED BY <2>2, <2>3, <2>4 DEF Searched
<1> QED BY <1>1, <1>2, <1>3, <1>4 DEF Next

\* The search that every Upload starts with (core/certmgr/providers) is complete:
\* an entry that held the certificate while it ran is found, by the page or by
\* its detail, whatever overlapping uploads add meanwhile; unless a removal made
\* the listing skip it or the error of its detail request was passed over.
THEOREM AddsOnlyWhatIsMissingHolds == Spec => []AddsOnlyWhatIsMissing
<1>1. Init => Searched
  BY DEF Init, Searched
<1>2. UploadInv /\ [Next]_vars => UploadInv'
  BY NextInv
<1>3. UploadInv /\ Searched /\ [Next]_vars => Searched'
  BY SearchedStep
<1>4. Searched => AddsOnlyWhatIsMissing
  BY DEF Searched, AddsOnlyWhatIsMissing
<1> QED BY <1>1, <1>2, <1>3, <1>4, InitInv, PTL DEF Spec

-----------------------------------------------------------------------------
(* The refinement *)

\* An answer is given only once the upload has succeeded.
LEMMA GivenStep ==
  ASSUME UploadInv, NEW u \in Uploaders, StepKind(u)
  PROVE  /\ GoesOn(u) => Given' = Given
         /\ Fail(u) => Given' = Given
         /\ \A e \in Entries : Succeed(u, e) => Given' = [Given EXCEPT ![u] = e]
<1> USE DEF UploadInv
<1>1. /\ result[u] = "none"
      /\ answer \in [Uploaders -> Entries \cup {NoEntry}]
      /\ result \in [Uploaders -> {"none", "ok", "error"}]
  BY DEF StepKind, Underway, TypeOK
<1>2. ASSUME GoesOn(u) PROVE Given' = Given
  <2>1. /\ result' = result
        /\ \A v \in Uploaders \ {u} : answer'[v] = answer[v]
    BY <1>1, <1>2 DEF GoesOn
  <2> QED
    BY <1>1, <2>1 DEF Given
<1>3. ASSUME Fail(u) PROVE Given' = Given
  BY <1>1, <1>3 DEF Fail, Given
<1>4. ASSUME NEW e \in Entries, Succeed(u, e) PROVE Given' = [Given EXCEPT ![u] = e]
  BY <1>1, <1>4 DEF Succeed, Given
<1> QED
  BY <1>2, <1>3, <1>4

LEMMA KindRefines ==
  ASSUME UploadInv, \A k \in Kinds : ~k.unchecked, NEW u \in Uploaders, StepKind(u)
  PROVE  [Contract!Next]_(Contract!vars)
<1>1. kept' = kept \/ \E e \in Entries : kept' = kept \cup {e}
  BY DEF StepKind
<1>2. CASE GoesOn(u)
  <2>1. Given' = Given /\ result' = result
    BY <1>2, GivenStep DEF GoesOn
  <2>2. CASE kept' = kept
    BY <2>1, <2>2 DEF Contract!vars
  <2>3. CASE \E e \in Entries : kept' = kept \cup {e}
    BY <2>1, <2>3 DEF Contract!Next, Contract!Keep
  <2> QED
    BY <1>1, <2>2, <2>3
<1>3. CASE Fail(u)
  <2>1. Given' = Given /\ result' = [result EXCEPT ![u] = "error"]
    BY <1>3, GivenStep DEF Fail
  <2>2. Contract!Fail(u)
    BY <1>1, <2>1 DEF Contract!Fail
  <2> QED
    BY <2>2 DEF Contract!Next
<1>4. CASE Answers(u)
  <2>1. PICK e \in Entries : kept' \in {kept, kept \cup {e}} /\ e \in kept' /\ Succeed(u, e)
    BY <1>4 DEF Answers
  <2>2. Given' = [Given EXCEPT ![u] = e] /\ result' = [result EXCEPT ![u] = "ok"]
    BY <2>1, GivenStep DEF Succeed
  <2>3. Contract!Succeed(u)
    BY <2>1, <2>2 DEF Contract!Succeed
  <2> QED
    BY <2>3 DEF Contract!Next
<1>5. ~AnswersNothing(u)
  BY DEF AnswersNothing, UploadInv, TypeOK
<1> QED
  BY <1>2, <1>3, <1>4, <1>5 DEF StepKind

LEMMA BeginRefines ==
  ASSUME UploadInv, NEW u \in Uploaders, Begin(u) PROVE Contract!Begin(u)
<1>1. /\ answer' = [answer EXCEPT ![u] = NoEntry]
      /\ result' = [result EXCEPT ![u] = "none"]
      /\ kept' = kept
  BY DEF Begin, account
<1>2. Given' = [Given EXCEPT ![u] = NoEntry]
  BY <1>1 DEF Given, UploadInv, TypeOK
<1> QED
  BY <1>1, <1>2 DEF Contract!Begin

\* Uploads that look at their errors keep the contract: whichever way the
\* manager searches and adds (core/certmgr/providers), and however uploads
\* overlap, answers are lost and entries are removed, one that succeeds answers
\* an entry that held this very certificate.
THEOREM KeepsContractHolds ==
  ASSUME \A k \in Kinds : ~k.unchecked
  PROVE  Spec => KeepsContract
<1>1. Init => Contract!Init
  <2> SUFFICES ASSUME Init PROVE Contract!Init
    OBVIOUS
  <2>1. Given = [u \in Uploaders |-> NoEntry]
    BY DEF Init, Given
  <2> QED
    BY <2>1 DEF Init, Contract!Init, Mine
<1>2. UploadInv /\ [Next]_vars => UploadInv'
  BY NextInv
<1>3. UploadInv /\ [Next]_vars => [Contract!Next]_(Contract!vars)
  <2> SUFFICES ASSUME UploadInv, [Next]_vars PROVE [Contract!Next]_(Contract!vars)
    OBVIOUS
  <2>1. CASE UNCHANGED vars
    BY <2>1 DEF vars, account, search, Contract!vars, Given
  <2>2. ASSUME NEW u \in Uploaders, Begin(u) PROVE [Contract!Next]_(Contract!vars)
    BY <2>2, BeginRefines DEF Contract!Next
  <2>3. ASSUME NEW u \in Uploaders, Step(u) PROVE [Contract!Next]_(Contract!vars)
    BY <2>3, StepIsKind, KindRefines
  <2>4. CASE UserRemoves
    BY <2>4 DEF UserRemoves, Contract!vars, Given
  <2> QED
    BY <2>1, <2>2, <2>3, <2>4 DEF Next
<1> QED
  BY <1>1, <1>2, <1>3, InitInv, PTL DEF Spec, KeepsContract, Contract!Spec
=============================================================================
