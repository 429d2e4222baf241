----------------------------- MODULE AcmeAccounts -----------------------------
(***************************************************************************)
(* The account of an ACME certificate authority that an apply node needs,  *)
(* and the settings it is configured by.  Runs that need the account of    *)
(* the same CA, directory and e-mail share one registration (singleflight) *)
(* that works under the context and the configuration of the run that came *)
(* first.  External account binding credentials acquired on the way are    *)
(* written back to where the configuration came from: an access record, or *)
(* the global settings, which pages save too and which everybody reads     *)
(* through a cache.                                                        *)
(*                                                                         *)
(* One e-mail and one directory per CA: a CA stands for the key of the     *)
(* registration.  Of an access record only the credentials and its other   *)
(* data, a version, are kept; of the settings the provider and the         *)
(* credentials of each CA.                                                 *)
(***************************************************************************)
EXTENDS Naturals, FiniteSets

CONSTANTS
    Runs,           \* executions of apply nodes
    Pages,          \* settings pages open in browsers
    CAs,            \* certificate authorities
    EabCAs,         \* those that demand external account binding
    OfferingCAs,    \* those that hand out the credentials themselves
    Accesses,       \* access records of certificate authorities
    CAOf,           \* [Accesses -> CAs]
    Source,         \* [Runs -> Accesses \cup {Global}]
    Global,         \* the node leaves the CA to the global settings
    Nobody,         \* no run, no flight, nothing to do
    NoEab,          \* no credentials
    HalfEab,        \* one of the two fields of the credentials is missing
    Unusable,       \* options that cannot be decoded or give no directory
    MaxIssued,      \* bound on the credentials handed out
    MaxEdits,       \* bound on what users save
    MaxFaults,      \* bound on failures of requests and of the database
    MaxRestarts     \* bound on restarts

ASSUME AcmeConstants ==
    /\ IsFiniteSet(Runs)
    /\ OfferingCAs \subseteq EabCAs /\ EabCAs \subseteq CAs
    /\ CAOf \in [Accesses -> CAs]
    /\ Global \notin Accesses
    /\ Source \in [Runs -> Accesses \cup {Global}]
    /\ Nobody \notin Runs /\ Pages \cap Runs = {}
    /\ {MaxIssued, MaxEdits, MaxFaults, MaxRestarts} \subseteq Nat

VARIABLES
    at,             \* [Runs -> Steps], where a run is
    canceled,       \* the runs whose context is canceled
    had,            \* the runs that saw credentials when they started
    config,         \* [Runs -> Config], the run's ACME configuration
    copy,           \* [Runs -> ...], the record a run read and will write
    answer,         \* [Runs -> ...], what the shared registration delivered
    led,            \* [Runs -> Runs], who led the registration a run shared
    flight,         \* [CAs -> Flight \cup {Nobody}], registrations under way
    rows,           \* [CAs -> Nat], account rows in the database
    registered,     \* [CAs -> Nat], accounts the CA has registered
    lost,           \* [CAs -> Nat], registered accounts that were not saved
    issued,         \* credentials handed out so far
    access,         \* [Accesses -> Access], the access records
    deleted,        \* the access records a user has deleted
    unfit,          \* runs of nodes without a usable key, provider or e-mail
    badMail,        \* CAs whose e-mail is no address to ask credentials for
    stored,         \* Settings, the row of the settings
    cached,         \* Settings, the cache every reader uses
    page,           \* [Pages -> Settings \cup {Nobody}], what a page shows
    owed,           \* [Pages \cup Runs -> ...], cached after the commit
    apart,          \* the cache may stay different from the row
    edits, faults, restarts

flights == <<answer, led, flight, rows, registered, lost, issued>>
setup == <<access, deleted, unfit, badMail>>
settings == <<stored, cached, page, owed, apart>>
vars == <<at, canceled, had, config, copy, flights, setup, settings,
          edits, faults, restarts>>

Steps == {"start", "configure", "join", "wait", "keep", "commit", "publish",
          "done", "failed"}
Ended == {"done", "failed"}

\* Credentials: of a CA, number 0 those a user entered.
Credential == [ca : CAs, no : 0 .. MaxIssued]
Eab == Credential \cup {NoEab, HalfEab, Unusable}
Entered(c) == [ca |-> c, no |-> 0]

Settings == [provider : CAs, eab : [CAs -> Eab]]
Access == [eab : Eab, version : 0 .. MaxEdits]
Config == [ca : CAs, eab : Eab]
CopyOf(source) == IF source = Global THEN Settings ELSE Access
\* The row of the settings, and what its writer owes the cache.
SSLProvider == "sslProvider"
Owed == [key : {SSLProvider}, content : Settings]
Flight == [stage : {"look", "credentials", "register", "save"}, leader : Runs]

ASSUME AcmeValues ==
    /\ Nobody \notin Settings \cup Access /\ Nobody \notin Owed
    /\ Nobody \notin Config /\ Nobody \notin Flight
    /\ Nobody \notin {"account", "error"}
    /\ {NoEab, HalfEab, Unusable} \cap Credential = {}
    /\ NoEab # HalfEab /\ NoEab # Unusable /\ HalfEab # Unusable

Init ==
    /\ at = [r \in Runs |-> "start"]
    /\ canceled = {} /\ had = {}
    /\ config = [r \in Runs |-> Nobody]
    /\ copy = [r \in Runs |-> Nobody]
    /\ answer = [r \in Runs |-> Nobody]
    /\ led = [r \in Runs |-> r]
    /\ flight = [c \in CAs |-> Nobody]
    /\ rows = [c \in CAs |-> 0]
    /\ registered = [c \in CAs |-> 0]
    /\ lost = [c \in CAs |-> 0]
    /\ issued = 0
    /\ access \in [Accesses -> [eab : {NoEab, HalfEab}, version : {0}]]
    /\ deleted = {} /\ unfit \in SUBSET Runs /\ badMail \in SUBSET CAs
    /\ stored \in [provider : CAs, eab : {[c \in CAs |-> NoEab]}]
    /\ cached = stored
    /\ page = [p \in Pages |-> Nobody]
    /\ owed = [w \in Pages \cup Runs |-> Nobody]
    /\ apart = FALSE
    /\ edits = 0 /\ faults = 0 /\ restarts = 0

Fault == faults < MaxFaults /\ faults' = faults + 1
Go(r, step) == at' = [at EXCEPT ![r] = step]

-----------------------------------------------------------------------------
(* A run on its way to the account.                                        *)

\* The access record, or whether the cached settings hold credentials.  A node
\* may have no usable key or no record of its challenge provider; the record of
\* the CA may be gone or not decode.
ReadAccess(r) ==
    /\ at[r] = "start"
    /\ \/ /\ r \in unfit \/ Source[r] \in deleted
          /\ Go(r, "failed")
          /\ UNCHANGED <<copy, had, faults>>
       \/ Fault /\ Go(r, "failed") /\ UNCHANGED <<copy, had>>
       \/ /\ Source[r] \in Accesses \ deleted
          /\ copy' = [copy EXCEPT ![r] = access[Source[r]]]
          /\ had' = IF access[Source[r]].eab # NoEab THEN had \cup {r} ELSE had
          /\ \/ Go(r, "configure")
             \/ access[Source[r]].eab = Unusable /\ Go(r, "failed")
          /\ UNCHANGED faults
       \/ /\ Source[r] = Global
          /\ had' = IF cached.eab[cached.provider] # NoEab
                    THEN had \cup {r} ELSE had
          /\ Go(r, "configure")
          /\ UNCHANGED <<copy, faults>>
    /\ UNCHANGED <<canceled, config, flights, setup, settings, edits, restarts>>

\* The settings are read again, so provider and credentials fit each other
\* but not necessarily what was seen before.  Options that do not decode, or
\* give no directory, are refused.
CreateConfig(r) ==
    /\ at[r] = "configure"
    /\ config' = [config EXCEPT ![r] =
            IF Source[r] = Global
            THEN [ca |-> cached.provider, eab |-> cached.eab[cached.provider]]
            ELSE [ca |-> CAOf[Source[r]], eab |-> copy[r].eab]]
    /\ Go(r, IF config'[r].eab = Unusable THEN "failed" ELSE "join")
    /\ UNCHANGED <<canceled, had, copy, flights, setup, settings,
                   edits, faults, restarts>>

\* The first of the runs that want an account opens the flight.
OpenOrShare(r) ==
    /\ LET c == config[r].ca IN
       IF flight[c] = Nobody
       THEN /\ flight' = [flight EXCEPT ![c] = [stage |-> "look", leader |-> r]]
            /\ led' = [led EXCEPT ![r] = r]
       ELSE /\ led' = [led EXCEPT ![r] = flight[c].leader]
            /\ UNCHANGED flight
    /\ Go(r, "wait")

\* A node without an e-mail is refused.
Join(r) ==
    /\ at[r] = "join"
    /\ \/ r \notin unfit /\ OpenOrShare(r)
       \/ r \in unfit /\ Go(r, "failed") /\ UNCHANGED <<flight, led>>
    /\ UNCHANGED <<canceled, had, config, copy, answer, rows, registered, lost,
                   issued, setup, settings, edits, faults, restarts>>

\* The user cancels a run: its context is done from here on.
Cancel(r) ==
    /\ at[r] \notin Ended /\ r \notin canceled
    /\ canceled' = canceled \cup {r}
    /\ UNCHANGED <<at, had, config, copy, flights, setup, settings,
                   edits, faults, restarts>>

\* A run takes the answer, or leaves the flight to itself when it is canceled.
Await(r) ==
    /\ at[r] = "wait"
    /\ \/ answer[r] = "account" /\ Go(r, "keep")
       \/ answer[r] = "error" /\ Go(r, "failed")
       \/ r \in canceled /\ Go(r, "failed")
    /\ UNCHANGED <<canceled, had, config, copy, flights, setup, settings,
                   edits, faults, restarts>>

-----------------------------------------------------------------------------
(* The registration that the waiting runs share.                           *)

\* Mutant: the answer is given to the run that leads.
AnswerLeader(c, result) ==
    /\ flight' = [flight EXCEPT ![c] = Nobody]
    /\ answer' = [answer EXCEPT ![flight[c].leader] = result]

\* Every run that still waits for CA c's flight gets the answer at once.
Answer(c, result) ==
    /\ flight' = [flight EXCEPT ![c] = Nobody]
    /\ answer' = [r \in Runs |->
            IF at[r] = "wait" /\ config[r].ca = c /\ answer[r] = Nobody
            THEN result ELSE answer[r]]

Stage(c, stage) ==
    /\ flight' = [flight EXCEPT ![c].stage = stage]
    /\ UNCHANGED answer

InStage(c, stage) == flight[c] # Nobody /\ flight[c].stage = stage
Leader(c) == flight[c].leader

\* Mutant: the rows are not looked at.
RegisterAnew(c) ==
    /\ InStage(c, "look")
    /\ Stage(c, IF c \in EabCAs THEN "credentials" ELSE "register")
    /\ UNCHANGED <<at, canceled, had, config, copy, led, rows, registered, lost,
                   issued, setup, settings, edits, faults, restarts>>

\* The account of an earlier run is taken; else a key and a client are made.
LookForAccount(c) ==
    /\ InStage(c, "look")
    /\ \/ rows[c] > 0 /\ Answer(c, "account") /\ UNCHANGED faults
       \/ /\ rows[c] = 0
          /\ Stage(c, IF c \in EabCAs THEN "credentials" ELSE "register")
          /\ UNCHANGED faults
       \/ Fault /\ Answer(c, "error")
    /\ UNCHANGED <<at, canceled, had, config, copy, led, rows, registered, lost,
                   issued, setup, settings, edits, restarts>>

\* Mutant: nothing is acquired, missing credentials are an error.
ResolveConfigured(c) ==
    /\ InStage(c, "credentials")
    /\ IF config[Leader(c)].eab \in Credential
       THEN Stage(c, "register") ELSE Answer(c, "error")
    /\ UNCHANGED <<at, canceled, had, config, copy, led, rows, registered, lost,
                   issued, setup, settings, edits, faults, restarts>>

\* The configured credentials; or, when there are none, those the CA hands
\* out, which the leader's configuration (and no other) remembers.
ResolveCredentials(c) ==
    /\ InStage(c, "credentials")
    /\ LET eab == config[Leader(c)].eab IN
       \/ /\ eab \in Credential
          /\ Stage(c, "register")
          /\ UNCHANGED <<config, issued, faults>>
       \/ /\ \/ eab = HalfEab
             \/ eab = NoEab /\ (c \notin OfferingCAs \/ c \in badMail)
          /\ Answer(c, "error")
          /\ UNCHANGED <<config, issued, faults>>
       \/ /\ eab = NoEab /\ c \in OfferingCAs \ badMail
          /\ Leader(c) \notin canceled /\ issued < MaxIssued
          /\ issued' = issued + 1
          /\ config' = [config EXCEPT ![Leader(c)].eab =
                            [ca |-> c, no |-> issued + 1]]
          /\ Stage(c, "register")
          /\ UNCHANGED faults
       \/ /\ eab = NoEab /\ c \in OfferingCAs \ badMail
          /\ \/ Leader(c) \in canceled /\ UNCHANGED faults
             \/ Fault
          /\ Answer(c, "error")
          /\ UNCHANGED <<config, issued>>
    /\ UNCHANGED <<at, canceled, had, copy, led, rows, registered, lost,
                   setup, settings, edits, restarts>>

\* The CA registers the account.  A failure, or the end of the leader's
\* context, may come before or after it has.
Register(c) ==
    /\ InStage(c, "register")
    /\ \/ /\ Leader(c) \notin canceled
          /\ registered' = [registered EXCEPT ![c] = @ + 1]
          /\ Stage(c, "save")
          /\ UNCHANGED <<lost, faults>>
       \/ /\ \/ Leader(c) \in canceled /\ UNCHANGED faults
             \/ Fault
          /\ \/ UNCHANGED <<registered, lost>>
             \/ /\ registered' = [registered EXCEPT ![c] = @ + 1]
                /\ lost' = [lost EXCEPT ![c] = @ + 1]
          /\ Answer(c, "error")
    /\ UNCHANGED <<at, canceled, had, config, copy, led, rows, issued,
                   setup, settings, edits, restarts>>

\* The database does not look at the context.
SaveAccount(c) ==
    /\ InStage(c, "save")
    /\ \/ /\ rows' = [rows EXCEPT ![c] = @ + 1]
          /\ Answer(c, "account")
          /\ UNCHANGED <<lost, faults>>
       \/ /\ Fault
          /\ lost' = [lost EXCEPT ![c] = @ + 1]
          /\ Answer(c, "error")
          /\ UNCHANGED rows
    /\ UNCHANGED <<at, canceled, had, config, copy, led, registered, issued,
                   setup, settings, edits, restarts>>

-----------------------------------------------------------------------------
(* The credentials are written back by the run whose configuration holds    *)
(* them.                                                                    *)

\* Mutant: the credentials go to the provider the settings name by now.
KeepForTheProvider(r) ==
    /\ at[r] = "keep" /\ Source[r] = Global
    /\ copy' = [copy EXCEPT ![r] =
                    [cached EXCEPT !.eab[cached.provider] = config[r].eab]]
    /\ Go(r, "commit")
    /\ UNCHANGED <<canceled, had, config, flights, setup, settings,
                   edits, faults, restarts>>

\* The whole access record is saved as it was read when the run started, and a
\* deleted one stays deleted; the settings are taken from the cache anew.  A
\* failure to save only warns.
KeepCredentials(r) ==
    /\ at[r] = "keep"
    /\ \/ /\ config[r].eab = NoEab \/ r \in had
          /\ Go(r, "done")
          /\ UNCHANGED <<copy, access, faults>>
       \/ /\ Source[r] # Global /\ config[r].eab # NoEab /\ r \notin had
          /\ \/ /\ access' = [access EXCEPT ![Source[r]] =
                                [copy[r] EXCEPT !.eab = config[r].eab]]
                /\ UNCHANGED faults
             \/ Fault /\ UNCHANGED access
          /\ Go(r, "done")
          /\ UNCHANGED copy
       \/ /\ Source[r] = Global /\ config[r].eab # NoEab /\ r \notin had
          /\ copy' = [copy EXCEPT ![r] =
                        [cached EXCEPT !.eab[config[r].ca] = config[r].eab]]
          /\ Go(r, "commit")
          /\ UNCHANGED <<access, faults>>
    /\ UNCHANGED <<canceled, had, config, flights, deleted, unfit, badMail,
                   settings, edits, restarts>>

\* Somebody committed the settings row and has not published it yet.
IsBehind == \E w \in Pages \cup Runs : owed[w] # Nobody

\* The row is committed first, the cache replaced afterwards.
CommitSettings(w, content) ==
    /\ stored' = content
    /\ owed' = [owed EXCEPT ![w] = content]
    /\ apart' = IsBehind
    /\ UNCHANGED cached

PublishSettings(w) ==
    /\ owed[w] # Nobody
    /\ cached' = owed[w]
    /\ owed' = [owed EXCEPT ![w] = Nobody]
    /\ UNCHANGED <<stored, apart>>

\* Mutant: the cache is left to the hooks, which only requests have.
SaveGlobalSettings(r) ==
    /\ at[r] = "commit"
    /\ stored' = copy[r]
    /\ Go(r, "done")
    /\ UNCHANGED <<canceled, had, config, copy, flights, setup, cached, page,
                   owed, apart, edits, faults, restarts>>

\* A run saves the settings by the repository, and then replaces the cache.
SetGlobalSettings(r) ==
    /\ \/ /\ at[r] = "commit"
          /\ \/ /\ CommitSettings(r, copy[r]) /\ Go(r, "publish")
                /\ UNCHANGED <<page, faults>>
             \/ Fault /\ Go(r, "done") /\ UNCHANGED settings
       \/ /\ at[r] = "publish"
          /\ PublishSettings(r) /\ Go(r, "done") /\ UNCHANGED <<page, faults>>
    /\ UNCHANGED <<canceled, had, config, copy, flights, setup,
                   edits, restarts>>

-----------------------------------------------------------------------------
(* Users, and restarts.                                                    *)

\* A settings page loads the row and saves it, whole, with one change.
OpenPage(p) ==
    /\ page[p] = Nobody /\ owed[p] = Nobody /\ edits < MaxEdits
    /\ page' = [page EXCEPT ![p] = stored]
    /\ UNCHANGED <<at, canceled, had, config, copy, flights, setup, stored,
                   cached, owed, apart, edits, faults, restarts>>

SavePage(p) ==
    /\ page[p] # Nobody /\ edits < MaxEdits
    /\ \E c \in CAs :
         \/ CommitSettings(p, [page[p] EXCEPT !.provider = c])
         \/ \E eab \in {Entered(c), Unusable} :
                CommitSettings(p, [page[p] EXCEPT !.eab[c] = eab])
    /\ page' = [page EXCEPT ![p] = Nobody]
    /\ edits' = edits + 1
    /\ UNCHANGED <<at, canceled, had, config, copy, flights, setup,
                   faults, restarts>>

\* The hook that runs after the transaction replaces the cache.
OnSettingsSaved(p) ==
    /\ PublishSettings(p)
    /\ UNCHANGED <<at, canceled, had, config, copy, flights, setup, page,
                   edits, faults, restarts>>

\* A user edits an access record: something else of it, or its credentials.
EditAccess(a) ==
    /\ a \notin deleted /\ edits < MaxEdits
    /\ edits' = edits + 1
    /\ \E eab \in {access[a].eab, Entered(CAOf[a]), Unusable} :
         access' = [access EXCEPT ![a] = [eab |-> eab, version |-> edits + 1]]
    /\ UNCHANGED <<at, canceled, had, config, copy, flights, deleted, unfit,
                   badMail, settings, faults, restarts>>

\* A user deletes an access record: it is marked, and no longer found.
DeleteAccess(a) ==
    /\ a \notin deleted /\ edits < MaxEdits
    /\ edits' = edits + 1
    /\ deleted' = deleted \cup {a}
    /\ UNCHANGED <<at, canceled, had, config, copy, flights, access, unfit,
                   badMail, settings, faults, restarts>>

\* The process ends: runs and flights are gone, the cache is loaded anew.
Restart ==
    /\ restarts < MaxRestarts
    /\ restarts' = restarts + 1
    /\ at' = [r \in Runs |-> IF at[r] \in Ended THEN at[r] ELSE "failed"]
    /\ lost' = [c \in CAs |->
                    IF InStage(c, "save") THEN lost[c] + 1 ELSE lost[c]]
    /\ flight' = [c \in CAs |-> Nobody]
    /\ cached' = stored
    /\ owed' = [w \in Pages \cup Runs |-> Nobody]
    /\ apart' = FALSE
    /\ UNCHANGED <<canceled, had, config, copy, answer, led, rows, registered,
                   issued, setup, stored, page, edits, faults>>

FlightSteps(c) ==
    LookForAccount(c) \/ ResolveCredentials(c) \/ Register(c) \/ SaveAccount(c)

RunSteps(r) ==
    \/ ReadAccess(r) \/ CreateConfig(r) \/ Join(r) \/ Await(r)
    \/ KeepCredentials(r) \/ SetGlobalSettings(r)

Next ==
    \/ \E r \in Runs : RunSteps(r) \/ Cancel(r)
    \/ \E c \in CAs : FlightSteps(c)
    \/ \E p \in Pages : OpenPage(p) \/ SavePage(p) \/ OnSettingsSaved(p)
    \/ \E a \in Accesses : EditAccess(a) \/ DeleteAccess(a)
    \/ Restart

Spec == Init /\ [][Next]_vars

\* Goroutines are scheduled; every request has a timeout, so the steps of a
\* flight come to an end, and the hook of a committed request runs.
FairSpec ==
    /\ Spec
    /\ \A r \in Runs : WF_vars(RunSteps(r))
    /\ \A c \in CAs : WF_vars(FlightSteps(c))
    /\ \A p \in Pages : WF_vars(OnSettingsSaved(p))

-----------------------------------------------------------------------------

\* Every variable holds what the code can put there.
TypeOK ==
    /\ at \in [Runs -> Steps]
    /\ canceled \subseteq Runs /\ had \subseteq Runs
    /\ config \in [Runs -> Config \cup {Nobody}]
    /\ copy = [r \in Runs |-> copy[r]]
    /\ \A r \in Runs :
            copy[r] = Nobody \/ copy[r] \in CopyOf(Source[r])
    /\ answer \in [Runs -> {"account", "error", Nobody}]
    /\ led \in [Runs -> Runs]
    /\ flight \in [CAs -> Flight \cup {Nobody}]
    /\ rows \in [CAs -> Nat] /\ registered \in [CAs -> Nat]
    /\ lost \in [CAs -> Nat] /\ issued \in 0 .. MaxIssued
    /\ access \in [Accesses -> Access] /\ deleted \subseteq Accesses
    /\ unfit \subseteq Runs /\ badMail \subseteq CAs
    /\ stored \in Settings /\ cached \in Settings
    /\ page \in [Pages -> Settings \cup {Nobody}]
    /\ owed \in [Pages \cup Runs -> Settings \cup {Nobody}]
    /\ apart \in BOOLEAN
    /\ edits \in 0 .. MaxEdits /\ faults \in 0 .. MaxFaults
    /\ restarts \in 0 .. MaxRestarts

\* However many runs want the account of a CA, and whenever they are canceled,
\* the database holds at most one row for it, and each account the CA ever
\* registered is that row, the one about to be saved, or was lost by a failure
\* (registerACMEAccount under registrationSg.DoChan).
OneAccountPerKey ==
    \A c \in CAs :
        /\ rows[c] <= 1
        /\ registered[c] =
                rows[c] + lost[c] + (IF InStage(c, "save") THEN 1 ELSE 0)
        /\ InStage(c, "save") => rows[c] = 0

\* Credentials bought from one CA are never used for or stored under another,
\* though the settings' provider may change between any two steps of a run.
CredentialsStayWithTheirCA ==
    /\ \A c \in CAs, s \in {stored, cached} :
            s.eab[c] \in Credential => s.eab[c].ca = c
    /\ \A a \in Accesses :
            access[a].eab \in Credential => access[a].eab.ca = CAOf[a]
    /\ \A r \in Runs :
            (config[r] # Nobody /\ config[r].eab \in Credential)
                => config[r].eab.ca = config[r].ca

\* The run's node, or what it names, cannot be used: no key, provider or
\* e-mail, the record of the CA gone before it was read, options that do not
\* decode.
OwnFailure(r) ==
    \/ r \in unfit
    \/ Source[r] \in deleted /\ copy[r] = Nobody
    \/ Source[r] # Global /\ copy[r] # Nobody /\ copy[r].eab = Unusable
    \/ config[r] # Nobody /\ config[r].eab = Unusable

\* The credentials cannot open an account where they are demanded.
NoCredentials(wanted) ==
    /\ wanted # Nobody /\ wanted.ca \in EabCAs
    /\ \/ wanted.eab = HalfEab
       \/ wanted.eab = NoEab
            /\ (wanted.ca \notin OfferingCAs \/ wanted.ca \in badMail)

\* A run fails only when it, or the run it shared the registration with, was
\* canceled, or something failed, or its own node cannot be used, or that other
\* run had no credentials.  A run whose configuration could be created is never
\* failed by its own credentials when another one leads (execObtainCertificate,
\* CreateACMEConfig, acquireACMEAccount).
FailuresAreExplained ==
    \A r \in Runs : at[r] = "failed" =>
        \/ r \in canceled \/ led[r] \in canceled
        \/ faults > 0 \/ restarts > 0
        \/ OwnFailure(r)
        \/ NoCredentials(config[led[r]])

\* Every run gets an account or an error, also when the run that leads the
\* registration leaves it.
EveryRunIsAnswered == \A r \in Runs : <>(at[r] \in Ended)

-----------------------------------------------------------------------------

Mirror == INSTANCE RecordMirror WITH
    Keys <- {SSLProvider},
    Writers <- Pages \cup Runs,
    Contents <- Settings,
    Images <- Settings,
    ImageOf <- [s \in Settings |-> s],
    Nothing <- Nobody,
    row <- [k \in {SSLProvider} |-> stored],
    mirror <- [k \in {SSLProvider} |-> cached],
    behind <- [w \in Pages \cup Runs |->
                IF owed[w] = Nobody THEN Nobody
                ELSE [key |-> SSLProvider, content |-> owed[w]]],
    apart <- [k \in {SSLProvider} |-> apart]

\* The settings cache is a mirror of the row: it shows what was committed, and
\* the last of it once no writer is between commit and publication, unless two
\* of them crossed (settings/pbhook.go, SetGlobalSettingsForSSLProvider).
CacheIsAMirror == Mirror!Spec
===============================================================================
