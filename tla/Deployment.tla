------------------------------ MODULE Deployment ------------------------------
(***************************************************************************)
(* Deployer.Deploy: one route of CloudDeployers or ServiceDeployers run    *)
(* against the account it deploys to, and run again by later runs of the   *)
(* workflow.  The account is external: it may refuse a request, or serve   *)
(* it, or a part of it, and lose the answer; jobs end when it pleases; and *)
(* its user removes targets, changes their settings and adds certificates  *)
(* of his own meanwhile.  The deployment may be canceled, and the program  *)
(* may stop.                                                               *)
(*                                                                         *)
(* Storing the certificate (CertificateUpload) is one step here.  A        *)
(* listing is modelled by the targets it has yet to show, as there.        *)
(***************************************************************************)
EXTENDS DeploymentRoutes, FiniteSets, Naturals

CONSTANTS Targets,        \* the account's targets
          Routes,         \* the routes that are run
          PageSize,       \* targets in a full page
          ChunkSize,      \* targets in a request of a route by chunks
          MaxAttempts,    \* bound: deployments of the certificate
          MaxFaults,      \* bound: requests refused or answered by nothing
          MaxUserActions  \* bound: things the user does, cancellations included

\* The steps that read the target; those that write back what was read.
Reads == {"read", "peek", "glance", "lookup", "readBound"}
WritesBack == {"write", "cas", "reset", "merge", "mergeAny", "writeAny", "append"}
\* The steps that look up what is to be removed.
Finds == {"find", "tryFind"}

\* The targets of these routes may have several certificates.
Has(r, step) == \E i \in 1..Len(r.steps) : r.steps[i] = step
HoldsSeveral(r) ==
    /\ \E s \in {"attach", "detach", "append", "merge", "mergeAny", "replaceAny",
                 "replaceOrFail", "writeAny", "place"} : Has(r, s)
    /\ ~Has(r, "clear")

ASSUME BoundsAssumption ==
    /\ PageSize \in Nat \ {0}
    /\ ChunkSize \in Nat \ {0}
    /\ MaxAttempts \in Nat
    /\ MaxFaults \in Nat
    /\ MaxUserActions \in Nat
ASSUME RoutesAssumption ==
    \A r \in Routes :
        /\ r.steps \in Seq(STRING)
        /\ r.pick = "nothing" <=> r.steps = <<>>
        /\ r.loop \in {"each", "chunks", "batch"}
        /\ r.list # "none" => r.pick \in {"match", "named", "some", "every"}
        /\ \A i \in 1..Len(r.steps) :
             \* What is written back or removed first was read.
             /\ r.steps[i] \in WritesBack =>
                  \E j \in 1..(i - 1) : r.steps[j] \in Reads \cup {"recall"}
             /\ r.steps[i] = "clear" => i > 1 /\ \A j \in 1..(i - 1) : r.steps[j] \in {"read", "skip"}
             \* What is removed last was read, and another one added since.
             /\ r.steps[i] = "attach" /\ Has(r, "clear") =>
                  \E j \in 1..(i - 1) : r.steps[j] = "clear"
             /\ r.steps[i] = "attach" /\ Has(r, "detach") =>
                  /\ i < Len(r.steps)
                  /\ \A j \in 1..(i - 1) : r.steps[j] \in {"read", "find", "skip", "call"}
                  /\ \A j \in (i + 1)..(Len(r.steps) - 1) : r.steps[j] = "tryFind"
             /\ r.steps[i] = "detach" =>
                  i = Len(r.steps) /\ r.steps[1] = "read" /\ Has(r, "attach")
        \* What takes one certificate only is replaced as a whole.
        /\ HoldsSeveral(r) => \A s \in {"key", "crt", "submit"} : ~Has(r, s)
        /\ Has(r, "cas") => \A s \in (WritesBack \ {"cas"}) : ~Has(r, s)

\* What a step does with the certificate: the target has it afterwards; or the
\* entries for the same names have, if there are any.
Gives == {"set", "write", "cas", "reset", "merge", "replaceOrFail", "append", "place",
          "attach", "crt"}
ToEntries == {"mergeAny", "writeAny", "replaceAny"}

ASSUME TargetsAssumption == IsFiniteSet(Targets)
ASSUME StepsAssumption ==
    \A r \in Routes :
        /\ r.list \in {"none", "once", "pages", "token", "slide", "grow", "stuck"}
        /\ r.upload = "late" => r.list # "none"
        \* One target is looked at where they are updated one after the other.
        /\ \A s \in Reads \cup Finds \cup {"recall"} : Has(r, s) => r.loop = "each"
        \* An update gives the certificate, or waits for the job that does; after
        \* that it only calls and removes the replaced one.
        /\ r.steps # <<>> =>
             \E i \in 1..Len(r.steps) :
               /\ r.steps[i] \in Gives \cup ToEntries \cup {"await", "awaitAnyEnd"}
               /\ \A k \in (i + 1)..Len(r.steps) : r.steps[k] \in {"call", "tryFind", "detach"}
        \* What is looked at, compared or replaced was read just before.
        /\ \A i \in 1..Len(r.steps) :
             /\ r.steps[i] = "skip" =>
                  i > 1 /\ r.steps[i - 1] \in Reads \cup {"recall", "find"}
             /\ r.steps[i] = "cas" => i > 1 /\ r.steps[i - 1] \in {"read", "peek"}
             /\ r.steps[i] = "readBound" => i > 1 /\ r.steps[i - 1] = "lookup"
             /\ r.steps[i] = "find" => i > 1 /\ r.steps[i - 1] = "read"
             /\ r.steps[i] \in {"replaceAny", "replaceOrFail", "place"} =>
                  i > 1 /\ \A j \in 1..(i - 1) : r.steps[j] \in {"read", "skip"}
             /\ r.steps[i] \in {"await", "awaitAnyEnd"} =>
                  \E j \in 1..(i - 1) : r.steps[j] = "submit"
        \* The jobs, the listing and the targets that need not exist go with few steps.
        /\ Has(r, "submit") =>
             \A i \in 1..Len(r.steps) :
               r.steps[i] \in {"call", "read", "glance", "skip", "submit", "await", "awaitAnyEnd"}
        /\ Has(r, "recall") =>
             \A i \in 1..Len(r.steps) : r.steps[i] \in {"recall", "skip", "set", "write", "merge"}
        /\ Has(r, "peek") =>
             \A i \in 1..Len(r.steps) : r.steps[i] \in {"peek", "skip", "set", "cas"}

VARIABLES
    route,    \* the route
    wanted,   \* the targets the configuration means
    (* the account *)
    present,  \* the targets there are
    bound,    \* the certificates of each
    settings, \* the rest of its configuration
    job,      \* the job that changes its certificate
    (* the deployment *)
    phase,    \* where it is
    cert,     \* what it knows of the stored certificate
    unseen,   \* targets its listing has not shown yet
    found,    \* targets it has shown
    shown,    \* what it showed of their certificates and settings
    todo,     \* targets still to be updated
    doing,    \* targets being updated
    at,       \* the step of the update, the last one done
    copy,     \* what was read of the target
    failed,   \* an update has failed
    result,   \* "none", "ok" or "error"
    canceled, \* its context is done
    (* bounds and history *)
    attempts, faults, acts,
    disturbed, \* a request went wrong, or the user did something, during it
    shifted,   \* a target was removed during its listing
    chosen,    \* the targets it set out to update
    spoiled,   \* those of which the update failed
    halfway    \* targets on which an update has left the replaced certificate

account == <<present, bound, settings, job>>
listing == <<unseen, found, shown>>
update == <<doing, at, copy>>
counters == <<attempts, faults, acts>>
history == <<shifted, chosen, spoiled, halfway>>
vars == <<route, wanted, account, phase, cert, listing, todo, update, failed,
          result, canceled, counters, disturbed, history>>

\* The certificate being deployed; the one it replaces; one that is for other
\* names, or bound by the user; and, of a pair of files, one file of each.
Certificates == {"new", "old", "foreign", "mixed"}
Reading == [bound : SUBSET Certificates, settings : {"first", "edited"}]
Nothing == [bound |-> {}, settings |-> "first"]

TypeOK ==
    /\ route \in Routes
    /\ wanted \in SUBSET Targets
    /\ present \in SUBSET Targets
    /\ bound \in [Targets -> SUBSET Certificates]
    /\ settings \in [Targets -> {"first", "edited"}]
    /\ job \in [Targets -> {"none", "running", "done", "failed"}]
    /\ phase \in {"idle", "upload", "list", "update", "ended"}
    /\ cert \in {"none", "stored", "empty"}
    /\ unseen \in SUBSET Targets
    /\ found \in SUBSET Targets
    /\ shown \in [Targets -> Reading]
    /\ todo \in SUBSET Targets
    /\ doing \in SUBSET Targets
    /\ at \in 0..Len(route.steps)
    /\ doing # {} => at < Len(route.steps)
    /\ copy \in Reading
    /\ failed \in BOOLEAN
    /\ result \in {"none", "ok", "error"}
    /\ canceled \in BOOLEAN
    /\ attempts \in 0..MaxAttempts
    /\ faults \in 0..MaxFaults
    /\ acts \in 0..MaxUserActions
    /\ disturbed \in BOOLEAN
    /\ shifted \in BOOLEAN
    /\ chosen \in SUBSET Targets
    /\ spoiled \in SUBSET chosen
    /\ halfway \in SUBSET Targets

\* What the route's words say.
Does(step) == Has(route, step)
Lists == route.list # "none"
TakesMany == HoldsSeveral(route)

Init ==
    /\ route \in Routes
    /\ wanted \in SUBSET Targets
    /\ route.pick = "nothing" => wanted = {}
    /\ route.pick \in {"one", "named"} => Cardinality(wanted) = 1
    /\ route.pick = "some" => wanted # {}
    /\ present = Targets
    /\ bound \in [Targets -> SUBSET {"old", "foreign"}]
    /\ ~TakesMany => \A t \in Targets : "foreign" \notin bound[t]
    /\ settings = [t \in Targets |-> "first"]
    /\ job = [t \in Targets |-> "none"]
    /\ phase = "idle"
    /\ cert = "none"
    /\ unseen = {} /\ found = {} /\ shown = [t \in Targets |-> Nothing]
    /\ todo = {} /\ doing = {} /\ at = 0 /\ copy = Nothing
    /\ failed = FALSE
    /\ result = "none"
    /\ canceled = FALSE
    /\ attempts = 0 /\ faults = 0 /\ acts = 0
    /\ disturbed = FALSE
    /\ shifted = FALSE
    /\ chosen = {} /\ spoiled = {} /\ halfway = {}

-----------------------------------------------------------------------------
(* Requests *)

\* A request that is refused, or whose answer is lost; once the context is done
\* every request may end so.
GoesWrong ==
    /\ canceled \/ faults < MaxFaults
    /\ faults' = IF canceled THEN faults ELSE faults + 1
    /\ disturbed' = TRUE

GoesWell == UNCHANGED <<faults, disturbed>>

\* The end of Deploy, or of the program.
End(outcome) ==
    /\ phase' = "ended"
    /\ result' = outcome
    /\ cert' = "none"
    /\ unseen' = {} /\ found' = {} /\ shown' = [t \in Targets |-> Nothing]
    /\ todo' = {} /\ doing' = {} /\ at' = 0 /\ copy' = Nothing
    /\ failed' = FALSE

\* The targets a deployment starts to update are known.
SetOut(targets) ==
    /\ phase' = "update"
    /\ todo' = targets
    /\ chosen' = targets
    /\ UNCHANGED <<unseen, found, shown, result>>

StartListing ==
    /\ phase' = "list"
    /\ unseen' = {t \in present : route.bound = "hidden" => "new" \notin bound[t]}
    /\ UNCHANGED <<found, shown, todo, chosen, result>>

-----------------------------------------------------------------------------
(* The deployment *)

\* Deploy is called, by the first run or by a later one.
Begin ==
    /\ phase \in {"idle", "ended"}
    /\ attempts < MaxAttempts
    /\ attempts' = attempts + 1
    /\ canceled' = FALSE
    /\ disturbed' = FALSE
    /\ shifted' = FALSE
    /\ spoiled' = {}
    /\ cert' = IF route.upload = "never" THEN "stored" ELSE "none"
    /\ result' = "none"
    /\ \/ /\ route.upload \in {"first", "blindly"}
          /\ phase' = "upload"
          /\ chosen' = {}
          /\ UNCHANGED <<listing, todo>>
       \/ /\ route.upload \in {"never", "late"}
          /\ Lists
          /\ phase' = "list"
          /\ unseen' = {t \in present : route.bound = "hidden" => "new" \notin bound[t]}
          /\ chosen' = {}
          /\ UNCHANGED <<found, shown, todo>>
       \/ /\ route.upload \in {"never", "late"}
          /\ ~Lists
          /\ phase' = "update"
          /\ todo' = wanted
          /\ chosen' = wanted
          /\ UNCHANGED listing
    /\ UNCHANGED <<route, wanted, account, update, failed, faults, acts, halfway>>

\* What follows the upload: the listing, or the updates of the configured
\* targets or, when it came late, of those already found.
AfterUpload ==
    \/ /\ route.upload = "late"
       /\ SetOut(todo)
    \/ /\ route.upload # "late"
       /\ Lists
       /\ StartListing
    \/ /\ route.upload # "late"
       /\ ~Lists
       /\ SetOut(wanted)

Upload ==
    /\ phase = "upload"
    /\ cert' = "stored"
    /\ AfterUpload
    /\ GoesWell
    /\ UNCHANGED <<route, wanted, account, update, failed, canceled, attempts,
                   acts, shifted, spoiled, halfway>>

\* A manager that looks at its error ends the deployment; another one answers
\* an empty identifier.
UploadFails ==
    /\ phase = "upload"
    /\ GoesWrong
    /\ \/ /\ route.upload # "blindly"
          /\ End("error")
          /\ UNCHANGED chosen
       \/ /\ route.upload = "blindly"
          /\ cert' = "empty"
          /\ AfterUpload
          /\ UNCHANGED <<update, failed>>
    /\ UNCHANGED <<route, wanted, account, canceled, attempts, acts, shifted, spoiled,
                   halfway>>

-----------------------------------------------------------------------------
(* The listing *)

\* How many targets a page shows for the first time, of those that are left.
Fresh(left) ==
    LET page == IF left < PageSize THEN left ELSE PageSize
    IN  IF route.list = "once" THEN {left}
        ELSE IF route.list \in {"pages", "token"} \/ found = {} THEN {page}
        ELSE IF route.list = "stuck" \/ left = 0 THEN {0}
        \* The offset grew by one; or the size did, and the service may have a
        \* largest page of its own.
        ELSE IF route.list = "slide" THEN {1} ELSE {0, 1}

\* Mutants: only the first page is asked for; a short page does not end it.
FirstPageOnly(page, rest) == TRUE
NeverLast(page, rest) == FALSE

\* No further page is asked for.
LastPage(page, rest) ==
    \/ route.list = "once"
    \/ route.list = "token" /\ rest = page
    \/ /\ route.list \notin {"once", "token"}
       /\ route.list = "pages" \/ found = {}
       /\ Cardinality(page) < PageSize
    \/ route.list \in {"slide", "grow"} /\ found # {} /\ page = {}

\* Of the targets listed, those the configuration asks for; and those that are
\* not bound to the certificate yet as far as the listing showed.
Asked(listed) == IF route.pick \in {"match", "named"} THEN listed \cap wanted ELSE listed
Chosen(listed, readings) ==
    LET asked == IF route.pick = "some" THEN wanted ELSE Asked(listed)
    IN  IF route.bound = "dropped"
        THEN {t \in asked : ~(cert = "stored" /\ "new" \in readings[t].bound)}
        ELSE asked

\* What the listing shows of its targets is kept where it is used.
Shown(page) ==
    IF Does("recall") \/ route.bound = "dropped"
    THEN [t \in Targets |-> IF t \in page THEN [bound |-> bound[t], settings |-> settings[t]]
                                          ELSE shown[t]]
    ELSE shown

ListPage ==
    /\ phase = "list"
    /\ canceled => route.list = "once"
    /\ GoesWell
    /\ \E page \in SUBSET unseen :
         /\ Cardinality(page) \in Fresh(Cardinality(unseen))
         /\ IF ~LastPage(page, unseen)
            THEN /\ unseen' = unseen \ page
                 /\ found' = found \cup page
                 /\ shown' = Shown(page)
                 /\ UNCHANGED <<phase, cert, todo, update, failed, result, chosen>>
            ELSE LET listed == found \cup page
                     targets == Chosen(listed, Shown(page))
                 IN  IF Asked(listed) = {} /\ route.none = "error"
                     THEN /\ End("error")
                          /\ UNCHANGED chosen
                     ELSE /\ phase' = IF route.upload = "late" THEN "upload" ELSE "update"
                          /\ unseen' = {}
                          /\ found' = {}
                          /\ shown' = IF Does("recall") THEN Shown(page)
                                                      ELSE [t \in Targets |-> Nothing]
                          /\ todo' = targets
                          /\ chosen' = IF route.upload = "late" THEN {} ELSE targets
                          /\ UNCHANGED <<cert, update, failed, result>>
    /\ UNCHANGED <<route, wanted, account, canceled, attempts, acts, shifted, spoiled,
                   halfway>>

\* A page could not be had, or the context is done before it is asked for.
ListingFails ==
    /\ phase = "list"
    /\ GoesWrong
    /\ End("error")
    /\ UNCHANGED <<route, wanted, account, canceled, attempts, acts, history>>

-----------------------------------------------------------------------------
(* The updates *)

\* The targets of one round of the loop.
Groups ==
    CASE route.loop = "each" -> {{t} : t \in todo}
      [] route.loop = "chunks" ->
           {g \in SUBSET todo :
              Cardinality(g) = IF Cardinality(todo) < ChunkSize THEN Cardinality(todo)
                                                                ELSE ChunkSize}
      [] route.loop = "batch" -> {todo}

\* The loop looks at the context before each round; one request for all of them
\* is no loop.
NextRound ==
    /\ phase = "update"
    /\ doing = {}
    /\ todo # {}
    /\ canceled => route.loop = "batch"
    /\ \E group \in Groups :
         /\ doing' = group
         /\ todo' = todo \ group
    /\ UNCHANGED <<route, wanted, account, phase, cert, listing, at, copy, failed,
                   result, canceled, counters, disturbed, history>>

LoopCanceled ==
    /\ phase = "update"
    /\ doing = {}
    /\ todo # {}
    /\ canceled
    /\ route.loop # "batch"
    /\ End("error")
    /\ UNCHANGED <<route, wanted, account, canceled, counters, disturbed, history>>

\* Mutant: the loop ends with the first error.
FinishAtFirstError ==
    /\ phase = "update"
    /\ doing = {}
    /\ todo = {} \/ failed
    /\ End(IF failed THEN "error" ELSE "ok")
    /\ UNCHANGED <<route, wanted, account, canceled, counters, disturbed, history>>

\* The errors are joined.
Finish ==
    /\ phase = "update"
    /\ doing = {}
    /\ todo = {}
    /\ End(IF failed THEN "error" ELSE "ok")
    /\ UNCHANGED <<route, wanted, account, canceled, counters, disturbed, history>>

\* The step to be done.
Now == route.steps[at + 1]
Doing == doing # {}

RoundEnds ==
    /\ doing' = {}
    /\ at' = 0
    /\ copy' = Nothing

\* The step is done, and the update when it was the last one.
Advance(reading) ==
    IF at + 1 = Len(route.steps)
    THEN RoundEnds
    ELSE /\ at' = at + 1
         /\ copy' = reading
         /\ UNCHANGED doing

\* Mutant: the update ends once the certificate is added.
StepDoneOnceAdded(reading) ==
    /\ IF Now = "attach" THEN RoundEnds ELSE Advance(reading)
    /\ UNCHANGED <<failed, spoiled, halfway>>

StepDone(reading) ==
    /\ Advance(reading)
    /\ UNCHANGED <<failed, spoiled, halfway>>

\* The update ends between adding the certificate and removing the other one.
LeftHalfway(added) == IF Does("detach") /\ added THEN halfway \cup doing ELSE halfway

\* The certificate was added in the first n steps.
AddedIn(n) == \E i \in 1..n : route.steps[i] = "attach"

\* Mutant: the error of an update is logged only.
StepFailsSilently ==
    /\ RoundEnds
    /\ spoiled' = spoiled \cup doing
    /\ halfway' = LeftHalfway(AddedIn(at + 1))
    /\ UNCHANGED failed

StepFails ==
    /\ RoundEnds
    /\ failed' = TRUE
    /\ spoiled' = spoiled \cup doing
    /\ halfway' = LeftHalfway(AddedIn(at + 1))

\* What a step leaves alone in any case.
Rest == <<route, wanted, phase, cert, listing, todo, result, canceled, attempts,
          acts, shifted, chosen>>

Recall ==
    /\ Doing /\ Now = "recall"
    /\ \E t \in doing : StepDone(shown[t])
    /\ UNCHANGED <<Rest, account, faults, disturbed>>

\* What was read has the certificate: nothing else is done.
Skip ==
    /\ Doing /\ Now = "skip"
    /\ IF cert = "stored" /\ "new" \in copy.bound
       THEN /\ RoundEnds
            /\ UNCHANGED <<failed, spoiled, halfway>>
       ELSE StepDone(copy)
    /\ UNCHANGED <<Rest, account, faults, disturbed>>

\* What a reading of the target shows: the synced certificates may be some only,
\* and of those bound to it the ones that were not synced are left out, but for
\* the one that is deployed.
Shows(t) ==
    LET certificates ==
            CASE Now = "lookup" -> SUBSET bound[t]
              [] Now = "readBound" -> {bound[t] \cap (copy.bound \cup {"new"})}
              [] OTHER -> {bound[t]}
    IN  {[bound |-> c, settings |-> settings[t]] : c \in certificates}

\* The target is found, if need be with a certificate.
IsThere(t) == t \in present /\ (Now = "readBound" => bound[t] # {})

Read ==
    /\ Doing /\ Now \in Reads
    /\ GoesWell
    /\ \E t \in doing :
         \/ /\ IsThere(t)
            /\ \E reading \in Shows(t) : StepDone(reading)
         \/ /\ ~IsThere(t)
            /\ Now \in {"peek", "glance", "lookup"}
            /\ StepDone(Nothing)
         \/ /\ ~IsThere(t)
            /\ Now \in {"read", "readBound"}
            /\ StepFails
    /\ UNCHANGED <<Rest, account>>

ReadFails ==
    /\ Doing /\ Now \in Reads
    /\ GoesWrong
    /\ IF Now = "glance" THEN StepDone(Nothing) ELSE StepFails
    /\ UNCHANGED <<Rest, account>>

\* The certificate to be removed may not be found, and stays then.
Misses ==
    /\ Advance([copy EXCEPT !.bound = @ \ {"old"}])
    /\ halfway' = IF "old" \in copy.bound THEN halfway \cup doing ELSE halfway
    /\ UNCHANGED <<failed, spoiled>>

Find ==
    /\ Doing /\ Now \in Finds
    /\ StepDone(copy) \/ Misses
    /\ GoesWell
    /\ UNCHANGED <<Rest, account>>

FindFails ==
    /\ Doing /\ Now \in Finds
    /\ copy.bound \ {"new"} # {}
    /\ GoesWrong
    /\ IF Now = "tryFind" THEN Misses ELSE StepFails
    /\ UNCHANGED <<Rest, account>>

Changes == {"set", "write", "cas", "reset", "merge", "mergeAny", "writeAny", "replaceAny",
            "replaceOrFail", "append", "place", "attach", "detach", "clear",
            "key", "crt", "submit", "call"}

\* The target has entries for the certificate's names: it was read with the
\* certificate replaced, and has it still.
HasEntry(t) == "old" \in copy.bound \cap bound[t]

\* Mutant: of the list read only the entries that match are written back.
BoundFiltered(t) == IF "old" \in copy.bound THEN {"new"} ELSE {}

\* The certificates of a target after a change was served.
Bound(t) ==
    LET b == bound[t]
        replaced(s) == (s \ {"old"}) \cup {"new"}
    IN  CASE Now = "set" -> {"new"} \cup (b \cap {"foreign"})
          [] Now \in {"write", "cas", "reset", "merge"} -> replaced(copy.bound)
          [] Now \in {"mergeAny", "writeAny"} ->
               IF "old" \in copy.bound THEN replaced(copy.bound) ELSE copy.bound
          [] Now \in {"replaceAny", "replaceOrFail"} -> IF HasEntry(t) THEN replaced(b) ELSE b
          [] Now = "append" -> copy.bound \cup {"new"}
          [] Now = "place" -> IF "old" \in copy.bound THEN replaced(b) ELSE b \cup {"new"}
          [] Now = "attach" -> b \cup {"new"}
          [] Now = "detach" -> b \ (copy.bound \cap {"old"})
          [] Now = "clear" -> b \ copy.bound
          [] Now = "key" -> IF b = {"new"} THEN b ELSE {"mixed"}
          [] Now = "crt" -> {"new"}
          [] Now \in {"submit", "call"} -> b

\* Mutant: a change of the certificate writes the defaults of the rest.
SettingsReset(t) == copy.settings

\* Only a whole configuration written back touches the settings.
Settings(t) ==
    CASE Now \in {"write", "writeAny", "cas"} -> copy.settings
      [] Now = "reset" -> "first"
      [] OTHER -> settings[t]

\* There is nothing to remove, and no request for it.
NothingToDetach == Now = "detach" /\ "old" \notin copy.bound

Omit ==
    /\ Doing /\ NothingToDetach
    /\ StepDone(copy)
    /\ UNCHANGED <<Rest, account, faults, disturbed>>

\* The service serves the change: the target exists, or is created by it; an
\* empty identifier is no certificate; a conditional change finds what was read.
Serves(t) ==
    /\ t \in present \/ Does("peek")
    /\ cert = "stored" \/ Now \in {"clear", "detach", "call"}
    /\ Now = "cas" => copy = [bound |-> bound[t], settings |-> settings[t]]
    /\ Now = "replaceOrFail" => HasEntry(t)

Served(targets) ==
    /\ bound' = [t \in Targets |-> IF t \in targets THEN Bound(t) ELSE bound[t]]
    /\ settings' = [t \in Targets |-> IF t \in targets THEN Settings(t) ELSE settings[t]]
    /\ job' = [t \in Targets |->
                 IF t \in targets /\ Now = "submit" THEN "running" ELSE job[t]]
    /\ present' = present \cup targets

Change ==
    /\ Doing /\ Now \in Changes /\ ~NothingToDetach
    /\ \A t \in doing : Serves(t)
    /\ Served(doing)
    /\ StepDone(copy)
    /\ GoesWell
    /\ UNCHANGED Rest

\* Some of the targets are changed all the same: when the answer is lost, or
\* the service stops at the one it refuses.
ChangeFails ==
    /\ Doing /\ Now \in Changes /\ ~NothingToDetach
    /\ \E some \in SUBSET {t \in doing : Serves(t)} : Served(some)
    /\ StepFails
    /\ IF \A t \in doing : Serves(t) THEN GoesWrong ELSE GoesWell
    /\ UNCHANGED Rest

\* The end of the jobs is asked for until it has come.
Await ==
    /\ Doing /\ Now \in {"await", "awaitAnyEnd"}
    /\ \A t \in doing : job[t] # "running"
    /\ IF Now = "await" /\ \E t \in doing : job[t] = "failed"
       THEN StepFails
       ELSE StepDone(copy)
    /\ GoesWell
    /\ UNCHANGED <<Rest, account>>

AwaitFails ==
    /\ Doing /\ Now \in {"await", "awaitAnyEnd"}
    /\ GoesWrong
    /\ StepFails
    /\ UNCHANGED <<Rest, account>>

-----------------------------------------------------------------------------
(* The others *)

Deployment == <<phase, cert, found, shown, todo, update, failed, result,
                canceled, attempts, chosen, spoiled, halfway>>

JobEnds(t) ==
    /\ job[t] = "running"
    /\ \/ /\ job' = [job EXCEPT ![t] = "done"]
          /\ bound' = [bound EXCEPT ![t] = {"new"}]
          /\ GoesWell
       \/ /\ job' = [job EXCEPT ![t] = "failed"]
          /\ faults < MaxFaults
          /\ faults' = faults + 1
          /\ disturbed' = TRUE
          /\ UNCHANGED bound
    /\ UNCHANGED <<route, wanted, present, settings, Deployment, unseen, acts, shifted>>

UserActs ==
    /\ acts < MaxUserActions
    /\ acts' = acts + 1
    /\ disturbed' = TRUE
    /\ UNCHANGED <<route, wanted, Deployment, faults>>

\* A listing that counts skips a target when one it has shown is gone.
UserRemoves(t) ==
    /\ UserActs
    /\ t \in present
    /\ present' = present \ {t}
    /\ bound' = [bound EXCEPT ![t] = {}]
    /\ settings' = [settings EXCEPT ![t] = "first"]
    /\ job' = [job EXCEPT ![t] = IF @ = "running" THEN "failed" ELSE @]
    /\ IF t \in found /\ unseen # {} /\ route.list \in {"pages", "slide"}
       THEN /\ \E skipped \in unseen : unseen' = unseen \ {skipped}
            /\ shifted' = TRUE
       ELSE /\ unseen' = unseen \ {t}
            /\ UNCHANGED shifted

UserEdits(t) ==
    /\ UserActs
    /\ t \in present
    /\ settings' = [settings EXCEPT ![t] = "edited"]
    /\ UNCHANGED <<present, bound, job, unseen, shifted>>

UserBinds(t) ==
    /\ UserActs
    /\ t \in present
    /\ TakesMany
    /\ bound' = [bound EXCEPT ![t] = @ \cup {"foreign"}]
    /\ UNCHANGED <<present, settings, job, unseen, shifted>>

Active == phase \in {"upload", "list", "update"}

\* The user cancels the run, or its time is over.
Cancel ==
    /\ Active
    /\ ~canceled
    /\ acts < MaxUserActions
    /\ acts' = acts + 1
    /\ canceled' = TRUE
    /\ disturbed' = TRUE
    /\ UNCHANGED <<route, wanted, account, phase, cert, listing, todo, update,
                   failed, result, attempts, faults, history>>

Crash ==
    /\ Active
    /\ End("none")
    /\ halfway' = LeftHalfway(AddedIn(at))
    /\ UNCHANGED <<route, wanted, account, canceled, counters, disturbed, shifted,
                   chosen, spoiled>>

-----------------------------------------------------------------------------
Program ==
    \/ Upload \/ UploadFails \/ ListPage \/ ListingFails
    \/ NextRound \/ LoopCanceled \/ Finish
    \/ Recall \/ Skip \/ Read \/ ReadFails \/ Find \/ FindFails
    \/ Omit \/ Change \/ ChangeFails \/ Await \/ AwaitFails

User == \E t \in Targets : UserRemoves(t) \/ UserEdits(t) \/ UserBinds(t)

Next ==
    \/ Begin
    \/ Program
    \/ \E t \in Targets : JobEnds(t)
    \/ User
    \/ Cancel
    \/ Crash

Spec == Init /\ [][Next]_vars

\* The program goes on as long as a request comes back, and the jobs of the
\* service end.
FairSpec ==
    /\ Spec
    /\ WF_vars(Program)
    /\ \A t \in Targets : WF_vars(JobEnds(t))

-----------------------------------------------------------------------------
(* Properties *)

\* Routes that change only the entries a target already has for the names.
EntriesOnly == Does("mergeAny") \/ Does("writeAny") \/ Does("replaceAny")

\* A deployment that answers no error has put the certificate on every target
\* that the configuration means, although requests failed in earlier ones and
\* targets were removed meanwhile.  It has not on a target that a listing by
\* offset skipped for a removal, that a listing of growing pages did not reach,
\* whose job failed where that is not looked at, or that has no entry to change.
SuccessServesNew ==
    result = "ok" =>
        \A t \in wanted \cap present :
            \/ "new" \in bound[t]
            \/ shifted
            \/ route.list = "grow"
            \/ Does("awaitAnyEnd")
            \/ EntriesOnly /\ "old" \notin bound[t]

\* Routes that never remove the certificate they add another one to.
Keeps == Does("append") \/ (Does("attach") /\ ~Does("detach") /\ ~Does("clear"))

\* A deployment that answers no error leaves no target with the certificate it
\* replaces next to it, neither when it ran to its end nor when it found the new
\* one bound and did nothing: unless an update of that target, perhaps of an
\* earlier deployment, ended between adding the one and removing the other, or
\* did not find what it had to remove.
SuccessRetiresOld ==
    result = "ok" /\ ~Keeps =>
        \A t \in (wanted \cap present) \ halfway : ~({"new", "old"} \subseteq bound[t])

\* What the code says of its removals: certificates for the same names are
\* removed.  Not so after an update that ended halfway: the next one finds the
\* new certificate bound and looks no further.
SameNamesAreRemoved ==
    result = "ok" => \A t \in wanted \cap present : ~({"new", "old"} \subseteq bound[t])

\* No target but those the configuration means is given the certificate, loses
\* one, or has a job: whatever the listing shows, and also when a deployment
\* follows one that failed half way.  Every listed target is meant where the
\* pattern is not looked at.
OthersAreLeftAlone ==
    route.pick # "every" =>
        \A t \in Targets \ wanted :
            /\ bound[t] \subseteq {"old", "foreign"}
            /\ job[t] = "none"

\* An update that fails does not keep a deployment from the rest of its targets:
\* when it ends, not canceled and with an error, every target it set out to
\* update has the certificate, unless the update of that very target failed.
OneFailureSparesTheRest ==
    result = "error" /\ ~canceled =>
        \A t \in (chosen \ spoiled) \cap present :
            \/ "new" \in bound[t]
            \/ Does("awaitAnyEnd")
            \/ EntriesOnly /\ "old" \notin bound[t]

\* A deployment during which no request went wrong and the user did nothing
\* answers an error only when a target it needs is not there, or has no entry
\* to change or no certificate where that is asked for, or when all are bound to
\* the certificate and hidden for that, or a listing of growing pages does not
\* reach any.
UndisturbedDeploymentSucceeds ==
    result = "error" /\ ~disturbed =>
        \/ ~(wanted \subseteq present)
        \/ wanted = {}
        \/ present = {}
        \/ route.list = "grow"
        \/ route.bound = "hidden" /\ \A t \in wanted : "new" \in bound[t]
        \/ Does("replaceOrFail") /\ \E t \in spoiled : "old" \notin bound[t]
        \/ Does("readBound") /\ \E t \in spoiled : bound[t] = {}

\* The target was read, and is not, or no longer, what the reading shows.
Stale(t) ==
    /\ t \in doing
    /\ \E i \in 1..at : route.steps[i] \in Reads \cup {"recall"}
    /\ copy # [bound |-> bound[t], settings |-> settings[t]]

\* A step takes a certificate for other names off a target, or undoes a change
\* of its settings, only by a reading that is out of date or, where certificates
\* that are not synced are left out, incomplete; the settings also where one of
\* them is always written with its default.
EditsAreLostToStaleReadingsOnly ==
    [][\A t \in present \cap present' :
          /\ "foreign" \in bound[t] /\ "foreign" \notin bound'[t] =>
                Stale(t) /\ ~Does("cas")
          /\ settings[t] = "edited" /\ settings'[t] = "first" =>
                \/ Stale(t) /\ ~Does("cas")
                \/ t \in doing /\ Now = "reset"]_vars

\* What was read of the settings is written back: not so where it is taken only
\* when it is nil.
SettingsAreKept ==
    [][\A t \in present \cap present' :
          settings[t] = "edited" /\ settings'[t] = "first" => Stale(t)]_vars

\* No step leaves a target that has a certificate without any: neither a change
\* in several requests one of which fails, nor a retry.  It may be left so only
\* where the old certificate has to go first, and by a list written back that
\* was read before somebody else changed it; never by the removal of a
\* certificate that was replaced.
NeverBare ==
    [][\A t \in present \cap present' :
          bound[t] # {} /\ bound'[t] = {} =>
              Does("clear") \/ (Stale(t) /\ Now # "detach")]_vars

\* Every deployment ends: the loops over pages, targets and polls do, whatever
\* goes wrong; when the page number is not sent, once it is canceled.
EveryDeploymentEnds ==
    (Active /\ (route.list = "stuck" => canceled)) ~> ~Active
=============================================================================
