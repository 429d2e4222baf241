-------------------------- MODULE AcmeAccountsProofs --------------------------
(* The registration of ACME accounts and the settings cache, for any number  *)
(* of runs, pages, certificate authorities and access records.               *)
EXTENDS AcmeAccounts, TLAPS

Before == {"start", "configure", "join"}

\* A run that is on its way has read what it needs; what it is about to commit
\* are settings, taken from the cache.
Prepared ==
    \A r \in Runs :
        /\ at[r] \notin {"start", "configure"} \cup Ended => config[r] # Nobody
        /\ at[r] = "done" => config[r] # Nobody
        /\ (Source[r] # Global /\ at[r] \notin {"start", "failed"})
                => copy[r] # Nobody
        /\ at[r] = "commit" => Source[r] = Global /\ copy[r] # Nobody
        /\ (Source[r] # Global /\ config[r] # Nobody)
                => config[r].ca = CAOf[Source[r]]

\* Who owes a publication is between commit and publication.
Owing ==
    /\ \A r \in Runs : owed[r] # Nobody => at[r] = "publish"
    /\ \A p \in Pages : page[p] # Nobody => owed[p] = Nobody

\* A flight is led by a run that came for this CA, and past its first stage the
\* CA has no row.
Flying ==
    \A c \in CAs : flight[c] # Nobody =>
        /\ config[Leader(c)] # Nobody /\ config[Leader(c)].ca = c
        /\ at[Leader(c)] \notin Before
        /\ flight[c].stage # "look" => rows[c] = 0

\* Only a CA that demands credentials is asked for them.
Demanding == \A c \in CAs : InStage(c, "credentials") => c \in EabCAs

\* Credentials of settings and of access records belong where they are.
Fits(s) == \A c \in CAs : s.eab[c] \in Credential => s.eab[c].ca = c
Belonging ==
    /\ Fits(stored) /\ Fits(cached)
    /\ \A p \in Pages : page[p] # Nobody => Fits(page[p])
    /\ \A w \in Pages \cup Runs : owed[w] # Nobody => Fits(owed[w])
    /\ \A r \in Runs : at[r] = "commit" => Fits(copy[r])
    /\ \A r \in Runs :
            (Source[r] # Global /\ at[r] \notin {"start", "failed"}
              /\ copy[r].eab \in Credential)
                => copy[r].eab.ca = CAOf[Source[r]]

\* Why a registration may fail for the runs that share it.
Explained(r) ==
    \/ r \in canceled \/ led[r] \in canceled
    \/ faults > 0 \/ restarts > 0
    \/ NoCredentials(config[led[r]])

\* Who failed was told so, or has to blame itself or the environment.
Blamed ==
    \A r \in Runs :
        /\ at[r] = "start" => copy[r] = Nobody
        /\ at[r] = "failed" => \/ r \in canceled \/ restarts > 0 \/ faults > 0
                               \/ answer[r] = "error" \/ OwnFailure(r)

\* A run waits for the flight it joined; once it is answered that flight is
\* over, and an error was explained.
Answered ==
    \A r \in Runs :
        /\ at[r] \in Before => answer[r] = Nobody
        /\ (at[r] = "wait" /\ answer[r] = Nobody) =>
                /\ flight[config[r].ca] # Nobody
                /\ Leader(config[r].ca) = led[r]
        /\ answer[r] # Nobody =>
                /\ at[led[r]] \notin Before
                /\ \A c \in CAs : flight[c] # Nobody => Leader(c) # led[r]
        /\ answer[r] = "error" => Explained(r)

AccountsInv ==
    /\ TypeOK /\ Prepared /\ Owing /\ Flying /\ Demanding /\ OneAccountPerKey
    /\ CredentialsStayWithTheirCA /\ Belonging /\ Answered /\ Blamed

-----------------------------------------------------------------------------
(* Types.                                                                  *)

LEMMA FlightType ==
  ASSUME TypeOK, NEW c \in CAs, NEW stage, InStage(c, stage)
  PROVE  /\ flight[c] \in Flight /\ flight[c] # Nobody
         /\ Leader(c) \in Runs /\ flight[c].stage = stage
BY DEF TypeOK, InStage, Flight, Leader

LEMMA AnswerType ==
  ASSUME TypeOK, NEW c \in CAs, NEW result \in {"account", "error"}, Answer(c, result)
  PROVE  /\ flight' \in [CAs -> Flight \cup {Nobody}]
         /\ answer' \in [Runs -> {"account", "error", Nobody}]
BY DEF TypeOK, Answer

LEMMA StageType ==
  ASSUME TypeOK, NEW c \in CAs, flight[c] \in Flight,
         NEW stage \in {"look", "credentials", "register", "save"}, Stage(c, stage)
  PROVE  /\ flight' \in [CAs -> Flight \cup {Nobody}]
         /\ answer' \in [Runs -> {"account", "error", Nobody}]
         /\ flight'[c] = [stage |-> stage, leader |-> Leader(c)]
BY DEF TypeOK, Stage, Flight, Leader

LEMMA FaultType == ASSUME TypeOK, Fault PROVE faults' \in 0 .. MaxFaults
BY AcmeConstants DEF TypeOK, Fault

LEMMA SettingsType ==
  ASSUME NEW s \in Settings, NEW c \in CAs, NEW eab \in Eab
  PROVE  /\ [s EXCEPT !.eab[c] = eab] \in Settings
         /\ [s EXCEPT !.provider = c] \in Settings
BY DEF Settings

LEMMA InitType == Init => TypeOK
<1> SUFFICES ASSUME Init PROVE TypeOK
  OBVIOUS
<1>1. stored \in Settings /\ access \in [Accesses -> Access]
  BY AcmeConstants DEF Init, Settings, Access, Eab
<1>2. issued \in 0 .. MaxIssued /\ edits \in 0 .. MaxEdits
      /\ faults \in 0 .. MaxFaults /\ restarts \in 0 .. MaxRestarts
  BY AcmeConstants DEF Init
<1> QED
  BY <1>1, <1>2 DEF Init, TypeOK, Steps

LEMMA ReadAccessType ==
  ASSUME TypeOK, NEW r \in Runs, ReadAccess(r) PROVE TypeOK'
<1>1. Source[r] # Global => Source[r] \in Accesses /\ access[Source[r]] \in Access
  BY AcmeConstants DEF TypeOK
<1>2. /\ copy' = [x \in Runs |-> copy'[x]]
      /\ \A x \in Runs : copy'[x] = Nobody \/ copy'[x] \in CopyOf(Source[x])
  BY <1>1, AcmeConstants DEF ReadAccess, TypeOK, CopyOf
<1>3. at' \in [Runs -> Steps]
  BY DEF ReadAccess, TypeOK, Go, Steps
<1>4. had' \subseteq Runs
  BY DEF ReadAccess, TypeOK
<1>5. faults' \in 0 .. MaxFaults
  BY FaultType DEF ReadAccess, TypeOK
<1> QED
  BY <1>2, <1>3, <1>4, <1>5 DEF ReadAccess, TypeOK, flights, settings, setup

LEMMA ConfigCreated ==
  ASSUME TypeOK, Prepared, NEW r \in Runs, CreateConfig(r)
  PROVE  config'[r] \in Config /\ config'[r] # Nobody
<1>1. Source[r] # Global => copy[r] \in Access /\ CAOf[Source[r]] \in CAs
  BY AcmeConstants DEF Prepared, CreateConfig, TypeOK, CopyOf
<1>2. cached.provider \in CAs /\ cached.eab[cached.provider] \in Eab
  BY DEF TypeOK, Settings
<1>3. config'[r] \in Config
  BY <1>1, <1>2 DEF CreateConfig, Config, Access, TypeOK
<1> QED
  BY <1>3, AcmeValues

LEMMA CreateConfigType ==
  ASSUME TypeOK, Prepared, NEW r \in Runs, CreateConfig(r) PROVE TypeOK'
<1>4. config' \in [Runs -> Config \cup {Nobody}]
  BY ConfigCreated DEF CreateConfig, TypeOK
<1>5. at' \in [Runs -> Steps]
  BY DEF CreateConfig, TypeOK, Go, Steps
<1> QED
  BY <1>4, <1>5 DEF CreateConfig, TypeOK, flights, settings, setup

LEMMA JoinType ==
  ASSUME TypeOK, Prepared, NEW r \in Runs, Join(r) PROVE TypeOK'
<1>1. config[r] \in Config
  BY DEF Prepared, Join, OpenOrShare, TypeOK, Ended
<1>2. config[r].ca \in CAs
  BY <1>1 DEF Config
<1>3. flight' \in [CAs -> Flight \cup {Nobody}] /\ led' \in [Runs -> Runs]
  BY <1>2 DEF Join, OpenOrShare, TypeOK, Flight
<1>4. at' \in [Runs -> Steps]
  BY DEF Join, OpenOrShare, TypeOK, Go, Steps
<1> QED
  BY <1>3, <1>4 DEF Join, OpenOrShare, TypeOK, settings, setup

LEMMA AwaitType ==
  ASSUME TypeOK, NEW r \in Runs, Await(r) \/ Cancel(r) PROVE TypeOK'
<1>1. at' \in [Runs -> Steps]
  BY DEF Await, Cancel, TypeOK, Go, Steps
<1>2. canceled' \subseteq Runs
  BY DEF Await, Cancel, TypeOK
<1> QED
  BY <1>1, <1>2 DEF Await, Cancel, TypeOK, flights, settings, setup

LEMMA LookType ==
  ASSUME TypeOK, NEW c \in CAs, LookForAccount(c) PROVE TypeOK'
<1>1. flight[c] \in Flight
  BY FlightType DEF LookForAccount
<1>2. /\ flight' \in [CAs -> Flight \cup {Nobody}]
      /\ answer' \in [Runs -> {"account", "error", Nobody}]
  BY <1>1, AnswerType, StageType DEF LookForAccount
<1>3. faults' \in 0 .. MaxFaults
  BY FaultType DEF LookForAccount, TypeOK
<1> QED
  BY <1>2, <1>3 DEF LookForAccount, TypeOK, settings, setup

LEMMA ResolveType ==
  ASSUME TypeOK, Flying, NEW c \in CAs, ResolveCredentials(c) PROVE TypeOK'
<1>1. flight[c] \in Flight /\ Leader(c) \in Runs /\ flight[c] # Nobody
  BY FlightType DEF ResolveCredentials
<1>2. /\ flight' \in [CAs -> Flight \cup {Nobody}]
      /\ answer' \in [Runs -> {"account", "error", Nobody}]
  BY <1>1, AnswerType, StageType DEF ResolveCredentials
<1>3. faults' \in 0 .. MaxFaults
  BY FaultType DEF ResolveCredentials, TypeOK
<1>4. config[Leader(c)] \in Config
  BY <1>1 DEF Flying, TypeOK
<1>5. CASE UNCHANGED <<config, issued>>
  BY <1>2, <1>3, <1>5 DEF ResolveCredentials, TypeOK, settings, setup
<1>6. CASE /\ issued < MaxIssued /\ issued' = issued + 1
           /\ config' = [config EXCEPT ![Leader(c)].eab = [ca |-> c, no |-> issued + 1]]
  <2>1. issued' \in 0 .. MaxIssued /\ issued + 1 \in 0 .. MaxIssued
    BY <1>6, AcmeConstants DEF TypeOK
  <2>2. [ca |-> c, no |-> issued + 1] \in Eab
    BY <2>1 DEF Eab, Credential
  <2>3. config' \in [Runs -> Config \cup {Nobody}]
    BY <1>1, <1>4, <1>6, <2>2 DEF TypeOK, Config
  <2> QED
    BY <1>2, <1>3, <2>1, <2>3 DEF ResolveCredentials, TypeOK, settings, setup
<1> QED
  BY <1>5, <1>6 DEF ResolveCredentials

LEMMA RegisterType ==
  ASSUME TypeOK, NEW c \in CAs, Register(c) \/ SaveAccount(c) PROVE TypeOK'
<1>1. flight[c] \in Flight
  BY FlightType DEF Register, SaveAccount
<1>2. /\ flight' \in [CAs -> Flight \cup {Nobody}]
      /\ answer' \in [Runs -> {"account", "error", Nobody}]
  BY <1>1, AnswerType, StageType DEF Register, SaveAccount
<1>3. faults' \in 0 .. MaxFaults
  BY FaultType DEF Register, SaveAccount, TypeOK
<1>4. /\ registered' \in [CAs -> Nat] /\ lost' \in [CAs -> Nat]
      /\ rows' \in [CAs -> Nat]
  BY DEF Register, SaveAccount, TypeOK
<1> QED
  BY <1>2, <1>3, <1>4 DEF Register, SaveAccount, TypeOK, settings, setup
LEMMA KeepType ==
  ASSUME TypeOK, Prepared, NEW r \in Runs, KeepCredentials(r) PROVE TypeOK'
<1>1. config[r] \in Config
  BY DEF Prepared, KeepCredentials, TypeOK, Ended
<1>2. config[r].ca \in CAs /\ config[r].eab \in Eab
  BY <1>1 DEF Config
<1>3. at' \in [Runs -> Steps]
  BY DEF KeepCredentials, TypeOK, Go, Steps
<1>4. faults' \in 0 .. MaxFaults
  BY FaultType DEF KeepCredentials, TypeOK
<1>5. access' \in [Accesses -> Access]
  <2>1. CASE /\ Source[r] # Global
             /\ access' = [access EXCEPT ![Source[r]] = [copy[r] EXCEPT !.eab = config[r].eab]]
    <3>1. copy[r] \in Access
      BY <2>1 DEF Prepared, KeepCredentials, TypeOK, CopyOf
    <3>2. [copy[r] EXCEPT !.eab = config[r].eab] \in Access
      BY <1>2, <3>1 DEF Access
    <3> QED
      BY <2>1, <3>2 DEF TypeOK
  <2>2. CASE access' = access
    BY <2>2 DEF TypeOK
  <2> QED
    BY <2>1, <2>2 DEF KeepCredentials
<1>6. /\ copy' = [x \in Runs |-> copy'[x]]
      /\ \A x \in Runs : copy'[x] = Nobody \/ copy'[x] \in CopyOf(Source[x])
  <2>1. CASE /\ Source[r] = Global
             /\ copy' = [copy EXCEPT ![r] = [cached EXCEPT !.eab[config[r].ca] = config[r].eab]]
    <3>1. [cached EXCEPT !.eab[config[r].ca] = config[r].eab] \in Settings
      BY <1>2, SettingsType DEF TypeOK
    <3> QED
      BY <2>1, <3>1 DEF TypeOK, CopyOf
  <2>2. CASE copy' = copy
    BY <2>2 DEF TypeOK
  <2> QED
    BY <2>1, <2>2 DEF KeepCredentials
<1> QED
  BY <1>3, <1>4, <1>5, <1>6 DEF KeepCredentials, TypeOK, flights, settings, setup

\* What a writer does to the settings.
LEMMA CommitType ==
  ASSUME TypeOK, NEW w \in Pages \cup Runs, NEW s \in Settings, CommitSettings(w, s)
  PROVE  /\ stored' \in Settings /\ cached' \in Settings
         /\ owed' \in [Pages \cup Runs -> Settings \cup {Nobody}]
         /\ apart' \in BOOLEAN
BY DEF TypeOK, CommitSettings, IsBehind

LEMMA PublishType ==
  ASSUME TypeOK, NEW w \in Pages \cup Runs, PublishSettings(w)
  PROVE  /\ stored' \in Settings /\ cached' \in Settings
         /\ owed' \in [Pages \cup Runs -> Settings \cup {Nobody}]
         /\ apart' \in BOOLEAN
BY DEF TypeOK, PublishSettings

LEMMA SetGlobalType ==
  ASSUME TypeOK, Prepared, NEW r \in Runs, SetGlobalSettings(r) PROVE TypeOK'
<1>1. at' \in [Runs -> Steps]
  BY DEF SetGlobalSettings, TypeOK, Go, Steps
<1>2. faults' \in 0 .. MaxFaults
  BY FaultType DEF SetGlobalSettings, TypeOK
<1>3. /\ stored' \in Settings /\ cached' \in Settings
      /\ owed' \in [Pages \cup Runs -> Settings \cup {Nobody}]
      /\ apart' \in BOOLEAN
  <2>1. CASE at[r] = "commit" /\ CommitSettings(r, copy[r])
    <3>1. copy[r] \in Settings
      BY <2>1 DEF Prepared, TypeOK, CopyOf
    <3> QED
      BY <2>1, <3>1, CommitType
  <2>2. CASE PublishSettings(r)
    BY <2>2, PublishType
  <2>3. CASE UNCHANGED settings
    BY <2>3 DEF TypeOK, settings, setup
  <2> QED
    BY <2>1, <2>2, <2>3 DEF SetGlobalSettings
<1>4. page' \in [Pages -> Settings \cup {Nobody}]
  BY DEF SetGlobalSettings, TypeOK, settings, setup
<1> QED
  BY <1>1, <1>2, <1>3, <1>4 DEF SetGlobalSettings, TypeOK, flights, setup

LEMMA PageType ==
  ASSUME TypeOK, NEW p \in Pages, OpenPage(p) \/ SavePage(p) \/ OnSettingsSaved(p)
  PROVE  TypeOK'
<1>1. CASE OpenPage(p)
  <2>1. page' \in [Pages -> Settings \cup {Nobody}]
    BY <1>1 DEF OpenPage, TypeOK
  <2> QED
    BY <1>1, <2>1 DEF OpenPage, TypeOK, flights, setup
<1>2. CASE SavePage(p)
  <2>1. PICK s \in Settings : CommitSettings(p, s)
    <3>1. page[p] \in Settings
      BY <1>2 DEF SavePage, TypeOK
    <3>2. Unusable \in Eab /\ \A c \in CAs : Entered(c) \in Eab
      BY AcmeConstants DEF Entered, Eab, Credential
    <3> QED
      BY <1>2, <3>1, <3>2, SettingsType DEF SavePage
  <2>2. /\ stored' \in Settings /\ cached' \in Settings
        /\ owed' \in [Pages \cup Runs -> Settings \cup {Nobody}]
        /\ apart' \in BOOLEAN
    BY <2>1, CommitType
  <2>3. page' \in [Pages -> Settings \cup {Nobody}] /\ edits' \in 0 .. MaxEdits
    BY <1>2, AcmeConstants DEF SavePage, TypeOK
  <2> QED
    BY <1>2, <2>2, <2>3 DEF SavePage, TypeOK, flights, setup
<1>3. CASE OnSettingsSaved(p)
  BY <1>3, PublishType DEF OnSettingsSaved, TypeOK, flights, setup
<1> QED
  BY <1>1, <1>2, <1>3

LEMMA EditAccessType ==
  ASSUME TypeOK, NEW a \in Accesses, EditAccess(a) \/ DeleteAccess(a) PROVE TypeOK'
<1>1. /\ CAOf[a] \in CAs /\ access[a].eab \in Eab
      /\ Entered(CAOf[a]) \in Eab /\ Unusable \in Eab
  BY AcmeConstants DEF Entered, Eab, Credential, TypeOK, Access
<1>2. edits' \in 0 .. MaxEdits /\ edits + 1 \in 0 .. MaxEdits
  BY AcmeConstants DEF EditAccess, DeleteAccess, TypeOK
<1>3. access' \in [Accesses -> Access]
  BY <1>1, <1>2 DEF EditAccess, DeleteAccess, TypeOK, Access
<1> QED
  BY <1>2, <1>3 DEF EditAccess, DeleteAccess, TypeOK, flights, settings, setup

LEMMA RestartType == ASSUME TypeOK, Restart PROVE TypeOK'
<1>1. at' \in [Runs -> Steps]
  BY DEF Restart, TypeOK, Steps
<1>2. lost' \in [CAs -> Nat] /\ restarts' \in 0 .. MaxRestarts
  BY AcmeConstants DEF Restart, TypeOK
<1> QED
  BY <1>1, <1>2 DEF Restart, TypeOK, setup

LEMMA TypeStep == TypeOK /\ Prepared /\ Flying /\ [Next]_vars => TypeOK'
<1> SUFFICES ASSUME TypeOK, Prepared, Flying, [Next]_vars PROVE TypeOK'
  OBVIOUS
<1>1. ASSUME NEW r \in Runs, RunSteps(r) \/ Cancel(r) PROVE TypeOK'
  BY <1>1, ReadAccessType, CreateConfigType, JoinType, AwaitType, KeepType,
     SetGlobalType DEF RunSteps
<1>2. ASSUME NEW c \in CAs, FlightSteps(c) PROVE TypeOK'
  BY <1>2, LookType, ResolveType, RegisterType DEF FlightSteps
<1>3. CASE UNCHANGED vars
  BY <1>3 DEF vars, flights, settings, setup, TypeOK
<1> QED
  BY <1>1, <1>2, <1>3, PageType, EditAccessType, RestartType DEF Next

-----------------------------------------------------------------------------
(* A run has what it needs, and a flight its leader.                       *)

\* What a step of a flight does to the configurations: nothing, or it gives the
\* leader's its credentials.
LEMMA FlightConfig ==
  ASSUME TypeOK, Flying, NEW c \in CAs, FlightSteps(c)
  PROVE  /\ UNCHANGED <<at, canceled, had, copy, led, access, deleted, unfit, badMail,
                       settings, edits, restarts>>
         /\ \/ config' = config
            \/ /\ InStage(c, "credentials")
               /\ Leader(c) \in Runs /\ config[Leader(c)] \in Config
               /\ config[Leader(c)].eab = NoEab /\ config[Leader(c)].ca = c
               /\ c \in OfferingCAs
               /\ [ca |-> c, no |-> issued + 1] \in Credential
               /\ config' = [config EXCEPT ![Leader(c)].eab = [ca |-> c, no |-> issued + 1]]
               /\ answer' = answer
<1>1. CASE ResolveCredentials(c)
  <2>1. flight[c] # Nobody /\ Leader(c) \in Runs
    BY <1>1, FlightType DEF ResolveCredentials
  <2>2. config[Leader(c)] \in Config /\ config[Leader(c)].ca = c
    BY <2>1 DEF Flying, TypeOK
  <2>3. issued < MaxIssued => [ca |-> c, no |-> issued + 1] \in Credential
    BY AcmeConstants DEF TypeOK, Credential
  <2> QED
    BY <1>1, <2>1, <2>2, <2>3 DEF ResolveCredentials, Stage, setup
<1>2. CASE LookForAccount(c) \/ Register(c) \/ SaveAccount(c)
  BY <1>2 DEF LookForAccount, Register, SaveAccount, setup
<1> QED
  BY <1>1, <1>2 DEF FlightSteps

\* Which CA a configuration is for does not change, nor that there is one.
LEMMA ConfigKeepsCA ==
  ASSUME TypeOK, Flying, NEW c \in CAs, FlightSteps(c), NEW r \in Runs
  PROVE  /\ config'[r] # Nobody <=> config[r] # Nobody
         /\ config[r] # Nobody => config'[r].ca = config[r].ca
<1> DEFINE credential == [ca |-> c, no |-> issued + 1]
<1>1. CASE config' = config
  BY <1>1
<1>2. CASE /\ config' = [config EXCEPT ![Leader(c)].eab = credential]
           /\ config[Leader(c)] \in Config /\ Leader(c) \in Runs
           /\ credential \in Credential
  <2> HIDE DEF credential
  <2>1. /\ config[Leader(c)] # Nobody
        /\ config'[Leader(c)] = [config[Leader(c)] EXCEPT !.eab = credential]
        /\ r # Leader(c) => config'[r] = config[r]
    BY <1>2, AcmeValues DEF TypeOK
  <2>2. config'[Leader(c)].ca = config[Leader(c)].ca
        /\ config'[Leader(c)] \in Config
    BY <1>2, <2>1 DEF Config, Eab
  <2>3. config'[Leader(c)] # Nobody
    BY <2>2, AcmeValues
  <2> QED
    BY <2>1, <2>2, <2>3
<1> QED
  BY <1>1, <1>2, FlightConfig

\* The steps of a run, one by one, as far as Prepared looks.
LEMMA PreparedRun ==
  ASSUME TypeOK, Prepared, NEW r \in Runs, RunSteps(r) \/ Cancel(r) PROVE Prepared'
<1>1. CASE ReadAccess(r)
  <2>1. Source[r] # Global => access[Source[r]] \in Access
    BY AcmeConstants DEF TypeOK
  <2>2. (Source[r] # Global /\ at'[r] # "failed") => copy'[r] # Nobody
    BY <1>1, <2>1, AcmeValues, AcmeConstants DEF ReadAccess, Go, TypeOK
  <2> QED
    BY <1>1, <2>2 DEF ReadAccess, Prepared, TypeOK, Go, Ended
<1>2. CASE CreateConfig(r)
  <2>1. config'[r] # Nobody
    BY <1>2, ConfigCreated
  <2>2. Source[r] # Global => config'[r].ca = CAOf[Source[r]]
    BY <1>2 DEF CreateConfig, TypeOK
  <2> QED
    BY <1>2, <2>1, <2>2 DEF CreateConfig, Prepared, TypeOK, Go, Ended
<1>3. CASE Join(r)
  BY <1>3 DEF Join, OpenOrShare, Prepared, TypeOK, Go, Ended
<1>4. CASE Await(r) \/ Cancel(r)
  BY <1>4 DEF Await, Cancel, Prepared, TypeOK, Go, Ended
<1>5. CASE KeepCredentials(r)
  <2>1. at'[r] = "commit" => Source[r] = Global /\ copy'[r] # Nobody
    <3>1. CASE /\ Source[r] = Global
               /\ copy' = [copy EXCEPT ![r] = [cached EXCEPT !.eab[config[r].ca] = config[r].eab]]
      <4>1. config[r] \in Config
        BY <1>5 DEF Prepared, KeepCredentials, TypeOK, Ended
      <4>2. [cached EXCEPT !.eab[config[r].ca] = config[r].eab] \in Settings
        BY <4>1, SettingsType DEF TypeOK, Config
      <4> QED
        BY <3>1, <4>2, AcmeValues DEF TypeOK
    <3>2. CASE at'[r] = "done"
      BY <3>2
    <3> QED
      BY <1>5, <3>1, <3>2 DEF KeepCredentials, Go, TypeOK
  <2>2. config[r] # Nobody /\ at'[r] \in {"done", "commit"}
    BY <1>5 DEF KeepCredentials, Prepared, Go, TypeOK, Ended
  <2>3. Source[r] # Global => copy' = copy
    BY <1>5 DEF KeepCredentials
  <2>4. \A x \in Runs : x # r => at'[x] = at[x] /\ copy'[x] = copy[x]
    BY <1>5 DEF KeepCredentials, Go, TypeOK
  <2>5. config' = config
    BY <1>5 DEF KeepCredentials
  <2> QED
    BY <1>5, <2>1, <2>2, <2>3, <2>4, <2>5 DEF KeepCredentials, Prepared, Ended
<1>6. CASE SetGlobalSettings(r)
  BY <1>6 DEF SetGlobalSettings, Prepared, TypeOK, Go, Ended
<1> QED
  BY <1>1, <1>2, <1>3, <1>4, <1>5, <1>6 DEF RunSteps

LEMMA PreparedStep == TypeOK /\ Prepared /\ Flying /\ [Next]_vars => Prepared'
<1> SUFFICES ASSUME TypeOK, Prepared, Flying, [Next]_vars PROVE Prepared'
  OBVIOUS
<1>1. ASSUME NEW c \in CAs, FlightSteps(c) PROVE Prepared'
  BY <1>1, FlightConfig, ConfigKeepsCA DEF Prepared
<1>2. CASE UNCHANGED <<at, config, copy>>
  BY <1>2 DEF Prepared
<1>3. CASE Restart
  BY <1>3 DEF Restart, Prepared, TypeOK, Ended
<1>4. ASSUME NEW p \in Pages, OpenPage(p) \/ SavePage(p) \/ OnSettingsSaved(p)
      PROVE  UNCHANGED <<at, config, copy>>
  BY <1>4 DEF OpenPage, SavePage, OnSettingsSaved
<1>5. ASSUME NEW a \in Accesses, EditAccess(a) \/ DeleteAccess(a) PROVE UNCHANGED <<at, config, copy>>
  BY <1>5 DEF EditAccess, DeleteAccess
<1> QED
  BY <1>1, <1>2, <1>3, <1>4, <1>5, PreparedRun DEF Next, vars, setup

LEMMA OwingStep == TypeOK /\ Owing /\ [Next]_vars => Owing'
<1> SUFFICES ASSUME TypeOK, Owing, [Next]_vars PROVE Owing'
  OBVIOUS
<1>1. ASSUME NEW r \in Runs, RunSteps(r) \/ Cancel(r) PROVE Owing'
  <2>1. CASE SetGlobalSettings(r)
    <3>1. page' = page
      BY <2>1 DEF SetGlobalSettings, settings, setup
    <3>2. \A w \in Pages \cup Runs : w # r => owed'[w] = owed[w]
      BY <2>1 DEF SetGlobalSettings, CommitSettings, PublishSettings, settings, setup, TypeOK
    <3>3. \A x \in Runs : x # r => at'[x] = at[x]
      BY <2>1 DEF SetGlobalSettings, Go, TypeOK
    <3>4. owed'[r] # Nobody => at'[r] = "publish"
      BY <2>1 DEF SetGlobalSettings, CommitSettings, PublishSettings, settings, setup,
                  Go, TypeOK, Owing
    <3> QED
      BY <3>1, <3>2, <3>3, <3>4, AcmeConstants DEF Owing
  <2>2. CASE ReadAccess(r) \/ CreateConfig(r) \/ Join(r) \/ Await(r)
             \/ KeepCredentials(r) \/ Cancel(r)
    <3>1. UNCHANGED <<owed, page>>
      BY <2>2 DEF ReadAccess, CreateConfig, Join, OpenOrShare, Await, KeepCredentials, Cancel, settings, setup
    <3>2. \A x \in Runs : at[x] = "publish" => at'[x] = "publish"
      BY <2>2 DEF ReadAccess, CreateConfig, Join, OpenOrShare, Await, KeepCredentials, Cancel,
                  Go, TypeOK
    <3> QED
      BY <3>1, <3>2 DEF Owing
  <2> QED
    BY <1>1, <2>1, <2>2 DEF RunSteps
<1>2. ASSUME NEW p \in Pages, OpenPage(p) PROVE Owing'
  BY <1>2 DEF OpenPage, Owing, TypeOK
<1>3. ASSUME NEW p \in Pages, SavePage(p) PROVE Owing'
  <2>1. at' = at /\ page' = [page EXCEPT ![p] = Nobody]
    BY <1>3 DEF SavePage
  <2>2. \A w \in Pages \cup Runs : w # p => owed'[w] = owed[w]
    BY <1>3 DEF SavePage, CommitSettings, TypeOK
  <2> QED
    BY <2>1, <2>2, AcmeConstants DEF Owing, TypeOK
<1>4. ASSUME NEW p \in Pages, OnSettingsSaved(p) PROVE Owing'
  BY <1>4 DEF OnSettingsSaved, PublishSettings, Owing, TypeOK
<1>5. CASE Restart
  BY <1>5 DEF Restart, Owing
<1>6. ASSUME NEW c \in CAs, FlightSteps(c) PROVE UNCHANGED <<at, owed, page>>
  BY <1>6 DEF FlightSteps, LookForAccount, ResolveCredentials, Register,
              SaveAccount, settings, setup
<1>7. ASSUME NEW a \in Accesses, EditAccess(a) \/ DeleteAccess(a) PROVE UNCHANGED <<at, owed, page>>
  BY <1>7 DEF EditAccess, DeleteAccess, settings, setup
<1>8. CASE UNCHANGED <<at, owed, page>>
  BY <1>8 DEF Owing
<1> QED
  BY <1>1, <1>2, <1>3, <1>4, <1>5, <1>6, <1>7, <1>8 DEF Next, vars, settings, setup

-----------------------------------------------------------------------------
(* One account per key.                                                    *)

\* A step of a flight ends it, or takes it one stage further, and only the
\* saving stage adds a row.
LEMMA FlightProgress ==
  ASSUME TypeOK, Flying, NEW c \in CAs, FlightSteps(c)
  PROVE  /\ \A d \in CAs : d # c => flight'[d] = flight[d] /\ rows'[d] = rows[d]
         /\ flight[c] # Nobody
         /\ \/ flight'[c] = Nobody
            \/ /\ flight'[c] # Nobody /\ flight'[c].leader = flight[c].leader
               /\ flight'[c].stage # "look"
               /\ rows' = rows /\ rows[c] = 0
<1>1. flight[c] # Nobody /\ flight[c] \in Flight /\ Leader(c) \in Runs
  BY FlightType DEF FlightSteps, LookForAccount, ResolveCredentials, Register, SaveAccount
<1>2. ASSUME NEW result, Answer(c, result)
      PROVE  flight'[c] = Nobody /\ \A d \in CAs : d # c => flight'[d] = flight[d]
  BY <1>2 DEF Answer, TypeOK
<1>3. ASSUME NEW stage \in {"credentials", "register", "save"}, Stage(c, stage)
      PROVE  /\ flight'[c] # Nobody /\ flight'[c].leader = flight[c].leader
             /\ flight'[c].stage # "look"
             /\ \A d \in CAs : d # c => flight'[d] = flight[d]
  <2>1. flight'[c] = [stage |-> stage, leader |-> Leader(c)]
    BY <1>1, <1>3, StageType
  <2>2. flight'[c] # Nobody
    BY <1>1, <2>1, AcmeValues DEF Flight
  <2> QED
    BY <1>3, <2>1, <2>2 DEF Stage, TypeOK, Leader
<1>4. flight[c].stage # "look" => rows[c] = 0
  BY <1>1 DEF Flying
<1>5. CASE LookForAccount(c)
  <2>1. rows' = rows
    BY <1>5 DEF LookForAccount
  <2> QED
    BY <1>1, <1>2, <1>3, <1>5, <2>1 DEF LookForAccount
<1>6. CASE ResolveCredentials(c)
  <2>1. rows' = rows /\ rows[c] = 0
    BY <1>4, <1>6 DEF ResolveCredentials, InStage
  <2> QED
    BY <1>1, <1>2, <1>3, <1>6, <2>1 DEF ResolveCredentials
<1>7. CASE Register(c)
  <2>1. rows' = rows /\ rows[c] = 0
    BY <1>4, <1>7 DEF Register, InStage
  <2> QED
    BY <1>1, <1>2, <1>3, <1>7, <2>1 DEF Register
<1>8. CASE SaveAccount(c)
  <2>1. \A d \in CAs : d # c => rows'[d] = rows[d]
    BY <1>8 DEF SaveAccount, TypeOK
  <2> QED
    BY <1>1, <1>2, <1>8, <2>1 DEF SaveAccount
<1> QED
  BY <1>5, <1>6, <1>7, <1>8 DEF FlightSteps

\* What a run that leads a flight does not do any more.
LEMMA LeaderIsOnItsWay ==
  ASSUME TypeOK, NEW r \in Runs, RunSteps(r) \/ Cancel(r)
  PROVE  /\ \A x \in Runs : at[x] \notin Before => at'[x] \notin Before /\ config'[x] = config[x]
         /\ ~Join(r) => UNCHANGED <<flight, led>>
         /\ UNCHANGED <<rows, registered, lost, issued, answer>>
BY DEF RunSteps, ReadAccess, CreateConfig, Join, OpenOrShare, Await, KeepCredentials,
       SetGlobalSettings, Cancel, Go, TypeOK, Before, flights, setup

LEMMA FlyingStep == TypeOK /\ Prepared /\ Flying /\ [Next]_vars => Flying'
<1> SUFFICES ASSUME TypeOK, Prepared, Flying, [Next]_vars PROVE Flying'
  OBVIOUS
<1>0. \A c \in CAs : flight[c] # Nobody => Leader(c) \in Runs
  BY DEF TypeOK, Flight, Leader
<1>1. ASSUME NEW r \in Runs, RunSteps(r) \/ Cancel(r) PROVE Flying'
  <2>1. CASE Join(r)
    <3> DEFINE c == config[r].ca
               opened == [stage |-> "look", leader |-> r]
    <3>1. /\ config[r] # Nobody /\ config' = config /\ rows' = rows
          /\ at'[r] \in {"wait", "failed"}
      BY <2>1 DEF Join, OpenOrShare, Prepared, Go, TypeOK, Ended
    <3>2. c \in CAs
      BY <3>1 DEF TypeOK, Config
    <3>3. flight' = flight \/ flight' = [flight EXCEPT ![c] = opened]
      BY <2>1 DEF Join, OpenOrShare
    <3>4. \A d \in CAs : flight'[d] = flight[d] \/ (d = c /\ flight'[d] = opened)
      BY <3>2, <3>3 DEF TypeOK
    <3> QED
      BY <1>0, <1>1, <3>1, <3>4, LeaderIsOnItsWay DEF Flying, Leader, Before
  <2>2. CASE ~Join(r)
    BY <1>0, <1>1, <2>2, LeaderIsOnItsWay DEF Flying, Leader
  <2> QED
    BY <2>1, <2>2
<1>2. ASSUME NEW c \in CAs, FlightSteps(c) PROVE Flying'
  <2>1. at' = at
    BY <1>2, FlightConfig
  <2>2. \A d \in CAs : flight[d] # Nobody =>
            config'[Leader(d)] # Nobody /\ config'[Leader(d)].ca = d
    BY <1>0, <1>2, ConfigKeepsCA DEF Flying
  <2> QED
    BY <1>0, <1>2, <2>1, <2>2, FlightProgress DEF Flying, Leader
<1>3. CASE Restart
  BY <1>3 DEF Restart, Flying
<1>4. CASE UNCHANGED <<at, config, flight, rows>>
  BY <1>4 DEF Flying, Leader
<1>5. ASSUME NEW p \in Pages, OpenPage(p) \/ SavePage(p) \/ OnSettingsSaved(p)
      PROVE  UNCHANGED <<at, config, flight, rows>>
  BY <1>5 DEF OpenPage, SavePage, OnSettingsSaved, flights, setup
<1>6. ASSUME NEW a \in Accesses, EditAccess(a) \/ DeleteAccess(a)
      PROVE  UNCHANGED <<at, config, flight, rows>>
  BY <1>6 DEF EditAccess, DeleteAccess, flights, setup
<1> QED
  BY <1>1, <1>2, <1>3, <1>4, <1>5, <1>6 DEF Next, vars, setup, flights

LEMMA AccountStep == TypeOK /\ Flying /\ OneAccountPerKey /\ [Next]_vars => OneAccountPerKey'
<1> SUFFICES ASSUME TypeOK, Flying, OneAccountPerKey, [Next]_vars
             PROVE  OneAccountPerKey'
  OBVIOUS
<1> DEFINE kept == UNCHANGED <<flight, rows, registered, lost>>
<1>1. ASSUME NEW r \in Runs, RunSteps(r) \/ Cancel(r) PROVE OneAccountPerKey'
  <2>1. \A c \in CAs : InStage(c, "save")' = InStage(c, "save")
    <3>1. CASE Join(r)
      <4> DEFINE opened == [stage |-> "look", leader |-> r]
      <4>1. \A c \in CAs : flight'[c] = flight[c] \/ (flight[c] = Nobody /\ flight'[c] = opened)
        BY <3>1 DEF Join, OpenOrShare, TypeOK
      <4> QED
        BY <4>1 DEF InStage
    <3>2. CASE ~Join(r)
      BY <1>1, <3>2, LeaderIsOnItsWay DEF InStage
    <3> QED
      BY <3>1, <3>2
  <2> QED
    BY <1>1, <2>1, LeaderIsOnItsWay DEF OneAccountPerKey
<1>2. ASSUME NEW c \in CAs, FlightSteps(c) PROVE OneAccountPerKey'
  <2>0. flight[c] \in Flight /\ flight[c] # Nobody
    BY <1>2, FlightType DEF FlightSteps, LookForAccount, ResolveCredentials, Register, SaveAccount
  <2>1. \A d \in CAs : d # c =>
            /\ flight'[d] = flight[d] /\ rows'[d] = rows[d]
            /\ registered'[d] = registered[d] /\ lost'[d] = lost[d]
    <3>1. \A d \in CAs : d # c => registered'[d] = registered[d] /\ lost'[d] = lost[d]
      BY <1>2 DEF FlightSteps, LookForAccount, ResolveCredentials, Register, SaveAccount, TypeOK
    <3> QED
      BY <1>2, <3>1, FlightProgress
  <2>2. /\ rows'[c] <= 1
        /\ registered'[c] =
                rows'[c] + lost'[c] + (IF InStage(c, "save")' THEN 1 ELSE 0)
        /\ InStage(c, "save")' => rows'[c] = 0
    <3>1. rows[c] \in Nat /\ registered[c] \in Nat /\ lost[c] \in Nat
      BY DEF TypeOK
    <3>2. ASSUME NEW result, Answer(c, result) PROVE flight'[c] = Nobody
      BY <3>2 DEF Answer, TypeOK
    <3>3. ASSUME NEW stage \in {"credentials", "register", "save"}, Stage(c, stage)
          PROVE  flight'[c] # Nobody /\ flight'[c].stage = stage
      <4>1. flight'[c] = [stage |-> stage, leader |-> Leader(c)]
        BY <2>0, <3>3, StageType
      <4>2. flight'[c] # Nobody
        <5>1. Leader(c) \in Runs
          BY <2>0 DEF Leader, Flight
        <5> QED
          BY <4>1, <5>1, AcmeValues DEF Flight
      <4> QED
        BY <4>1, <4>2
    <3>4. CASE LookForAccount(c)
      BY <3>1, <3>2, <3>3, <3>4 DEF LookForAccount, InStage, OneAccountPerKey
    <3>5. CASE ResolveCredentials(c)
      <4>1. ~InStage(c, "save") /\ UNCHANGED <<rows, registered, lost>>
        BY <3>5 DEF ResolveCredentials, InStage
      <4>2. ~InStage(c, "save")'
        BY <3>2, <3>3, <3>5 DEF ResolveCredentials, InStage
      <4> QED
        BY <3>1, <4>1, <4>2 DEF OneAccountPerKey
    <3>6. CASE Register(c)
      <4>1. ~InStage(c, "save") /\ rows[c] = 0 /\ rows' = rows
        BY <3>6 DEF Register, InStage, Flying
      <4>2. registered[c] = lost[c]
        BY <3>1, <4>1 DEF OneAccountPerKey
      <4>3. CASE Stage(c, "save") /\ registered' = [registered EXCEPT ![c] = @ + 1]
                 /\ lost' = lost
        BY <3>1, <3>3, <4>1, <4>2, <4>3 DEF InStage, TypeOK
      <4>4. CASE /\ Answer(c, "error")
                 /\ \/ UNCHANGED <<registered, lost>>
                    \/ /\ registered' = [registered EXCEPT ![c] = @ + 1]
                       /\ lost' = [lost EXCEPT ![c] = @ + 1]
        BY <3>1, <3>2, <4>1, <4>2, <4>4 DEF InStage, TypeOK
      <4> QED
        BY <3>6, <4>3, <4>4 DEF Register
    <3>7. CASE SaveAccount(c)
      <4>1. rows[c] = 0 /\ registered[c] = lost[c] + 1 /\ registered' = registered
        BY <3>1, <3>7 DEF SaveAccount, OneAccountPerKey
      <4>2. flight'[c] = Nobody
        BY <3>2, <3>7 DEF SaveAccount
      <4> QED
        BY <3>1, <3>7, <4>1, <4>2 DEF SaveAccount, InStage, TypeOK
    <3> QED
      BY <1>2, <3>4, <3>5, <3>6, <3>7 DEF FlightSteps
  <2> QED
    BY <2>1, <2>2 DEF OneAccountPerKey, InStage
<1>3. CASE Restart
  <2>1. \A c \in CAs : ~InStage(c, "save")'
    BY <1>3 DEF Restart, InStage
  <2>2. \A c \in CAs : lost'[c] = IF InStage(c, "save") THEN lost[c] + 1 ELSE lost[c]
    BY <1>3 DEF Restart
  <2> QED
    BY <1>3, <2>1, <2>2 DEF Restart, OneAccountPerKey, TypeOK
<1>4. CASE kept
  BY <1>4 DEF OneAccountPerKey, InStage
<1>5. ASSUME NEW p \in Pages, OpenPage(p) \/ SavePage(p) \/ OnSettingsSaved(p) PROVE kept
  BY <1>5 DEF OpenPage, SavePage, OnSettingsSaved, flights, setup
<1>6. ASSUME NEW a \in Accesses, EditAccess(a) \/ DeleteAccess(a) PROVE kept
  BY <1>6 DEF EditAccess, DeleteAccess, flights, setup
<1> QED
  BY <1>1, <1>2, <1>3, <1>4, <1>5, <1>6 DEF Next, vars, setup, flights

-----------------------------------------------------------------------------
(* Credentials stay with their CA.                                         *)

LEMMA FitsStill ==
  ASSUME NEW s \in Settings, Fits(s), NEW c \in CAs, NEW eab \in Eab,
         eab \in Credential => eab.ca = c
  PROVE  Fits([s EXCEPT !.eab[c] = eab]) /\ Fits([s EXCEPT !.provider = c])
BY DEF Fits, Settings

LEMMA EnteredFits ==
  /\ \A c \in CAs : Entered(c) \in Eab /\ Entered(c).ca = c
  /\ Unusable \in Eab /\ Unusable \notin Credential
BY AcmeConstants, AcmeValues DEF Entered, Eab, Credential

\* A writer commits settings that fit, and publishes what it committed.
LEMMA CommitFits ==
  ASSUME TypeOK, Belonging, NEW w \in Pages \cup Runs, NEW s \in Settings, Fits(s),
         CommitSettings(w, s)
  PROVE  /\ Fits(stored') /\ Fits(cached')
         /\ \A v \in Pages \cup Runs : owed'[v] # Nobody => Fits(owed'[v])
BY DEF CommitSettings, Belonging, TypeOK

LEMMA PublishFits ==
  ASSUME TypeOK, Belonging, NEW w \in Pages \cup Runs, PublishSettings(w)
  PROVE  /\ Fits(stored') /\ Fits(cached')
         /\ \A v \in Pages \cup Runs : owed'[v] # Nobody => Fits(owed'[v])
BY DEF PublishSettings, Belonging, TypeOK

LEMMA CreateConfigBelongs ==
  ASSUME TypeOK, Prepared, Belonging, CredentialsStayWithTheirCA,
         NEW r \in Runs, CreateConfig(r)
  PROVE  Belonging' /\ CredentialsStayWithTheirCA'
<1>1. config'[r].eab \in Credential => config'[r].eab.ca = config'[r].ca
  <2>1. CASE Source[r] = Global
    BY <2>1 DEF CreateConfig, TypeOK, Belonging, Fits, Settings
  <2>2. CASE Source[r] # Global
    BY <2>2 DEF CreateConfig, TypeOK, Belonging
  <2> QED
    BY <2>1, <2>2
<1>2. \A x \in Runs : x # r => config'[x] = config[x]
  BY DEF CreateConfig, TypeOK
<1>3. UNCHANGED <<stored, cached, page, owed, access, copy>>
  BY DEF CreateConfig, settings, setup
<1>4. \A x \in Runs : (at'[x] = "commit" => at[x] = "commit")
                      /\ (at'[x] \notin {"start", "failed"} => at[x] \notin {"start", "failed"})
  BY DEF CreateConfig, Go, TypeOK
<1> QED
  BY <1>1, <1>2, <1>3, <1>4 DEF Belonging, CredentialsStayWithTheirCA

LEMMA KeepBelongs ==
  ASSUME TypeOK, Prepared, Belonging, CredentialsStayWithTheirCA,
         NEW r \in Runs, KeepCredentials(r)
  PROVE  Belonging' /\ CredentialsStayWithTheirCA'
<1>1. config[r] \in Config /\ config[r] # Nobody
  BY DEF Prepared, KeepCredentials, TypeOK, Ended
<1>2. config[r].ca \in CAs /\ config[r].eab \in Eab
      /\ (config[r].eab \in Credential => config[r].eab.ca = config[r].ca)
  BY <1>1 DEF Config, CredentialsStayWithTheirCA
<1>3. UNCHANGED <<stored, cached, page, owed, config>>
  BY DEF KeepCredentials, settings, setup
<1>4. \A x \in Runs : x # r => at'[x] = at[x] /\ copy'[x] = copy[x]
  BY DEF KeepCredentials, Go, TypeOK
<1>5. at[r] = "keep" /\ at'[r] \in {"done", "commit"}
  BY DEF KeepCredentials, Go, TypeOK
<1>6. at'[r] = "commit" => Fits(copy'[r])
  <2>1. CASE copy' = [copy EXCEPT ![r] = [cached EXCEPT !.eab[config[r].ca] = config[r].eab]]
    <3>1. Fits([cached EXCEPT !.eab[config[r].ca] = config[r].eab])
      BY <1>2, FitsStill DEF TypeOK, Belonging
    <3> QED
      BY <2>1, <3>1 DEF TypeOK
  <2>2. CASE at'[r] = "done"
    BY <2>2
  <2> QED
    BY <2>1, <2>2 DEF KeepCredentials, Go, TypeOK
<1>7. Source[r] # Global => copy' = copy
  BY DEF KeepCredentials
<1>8. \A a \in Accesses : access'[a].eab \in Credential => access'[a].eab.ca = CAOf[a]
  <2>1. CASE /\ Source[r] # Global
             /\ access' = [access EXCEPT ![Source[r]] = [copy[r] EXCEPT !.eab = config[r].eab]]
    <3>1. copy[r] \in Access /\ config[r].ca = CAOf[Source[r]]
      BY <1>1, <1>5, <2>1 DEF Prepared, TypeOK, CopyOf
    <3>2. \A a \in Accesses : access'[a].eab = IF a = Source[r] THEN config[r].eab ELSE access[a].eab
      BY <2>1, <3>1 DEF TypeOK, Access
    <3> QED
      BY <1>2, <3>1, <3>2 DEF CredentialsStayWithTheirCA
  <2>2. CASE access' = access
    BY <2>2 DEF CredentialsStayWithTheirCA
  <2> QED
    BY <2>1, <2>2 DEF KeepCredentials
<1>9. CredentialsStayWithTheirCA'
  BY <1>3, <1>8 DEF CredentialsStayWithTheirCA
<1>10. \A x \in Runs : at'[x] = "commit" => Fits(copy'[x])
  BY <1>4, <1>6 DEF Belonging
<1>11. \A x \in Runs :
            (Source[x] # Global /\ at'[x] \notin {"start", "failed"}
              /\ copy'[x].eab \in Credential)
                => copy'[x].eab.ca = CAOf[Source[x]]
  BY <1>4, <1>5, <1>7 DEF Belonging
<1>12. Fits(stored') /\ Fits(cached') /\ (\A p \in Pages : page'[p] # Nobody => Fits(page'[p]))
       /\ (\A w \in Pages \cup Runs : owed'[w] # Nobody => Fits(owed'[w]))
  BY <1>3 DEF Belonging
<1> QED
  BY <1>9, <1>10, <1>11, <1>12 DEF Belonging

LEMMA RunBelongs ==
  ASSUME TypeOK, Prepared, Belonging, CredentialsStayWithTheirCA,
         NEW r \in Runs, RunSteps(r) \/ Cancel(r)
  PROVE  Belonging' /\ CredentialsStayWithTheirCA'
<1>1. CASE ReadAccess(r)
  <2>1. UNCHANGED <<stored, cached, page, owed, access, config>>
    BY <1>1 DEF ReadAccess, settings, setup
  <2>2. \A x \in Runs : x # r => at'[x] = at[x] /\ copy'[x] = copy[x]
    BY <1>1 DEF ReadAccess, Go, TypeOK
  <2>3. /\ at'[r] \in {"configure", "failed"}
        /\ (Source[r] # Global /\ at'[r] # "failed")
                => Source[r] \in Accesses /\ copy'[r] = access[Source[r]]
    BY <1>1, AcmeConstants DEF ReadAccess, Go, TypeOK
  <2> QED
    BY <2>1, <2>2, <2>3 DEF Belonging, CredentialsStayWithTheirCA
<1>2. CASE Join(r) \/ Await(r) \/ Cancel(r)
  <2>1. UNCHANGED <<stored, cached, page, owed, access, config, copy>>
    BY <1>2 DEF Join, OpenOrShare, Await, Cancel, settings, setup
  <2>2. \A x \in Runs : (at'[x] = "commit" => at[x] = "commit")
                      /\ (at'[x] \notin {"start", "failed"} => at[x] \notin {"start", "failed"})
    BY <1>2 DEF Join, OpenOrShare, Await, Cancel, Go, TypeOK
  <2> QED
    BY <2>1, <2>2 DEF Belonging, CredentialsStayWithTheirCA
<1>3. CASE SetGlobalSettings(r)
  <2>1. UNCHANGED <<page, access, config, copy>>
    BY <1>3 DEF SetGlobalSettings, settings, setup
  <2>2. \A x \in Runs : (at'[x] = "commit" => at[x] = "commit")
                      /\ (at'[x] \notin {"start", "failed"} => at[x] \notin {"start", "failed"})
    BY <1>3 DEF SetGlobalSettings, Go, TypeOK
  <2>3. /\ Fits(stored') /\ Fits(cached')
        /\ \A v \in Pages \cup Runs : owed'[v] # Nobody => Fits(owed'[v])
    <3>1. CASE at[r] = "commit" /\ CommitSettings(r, copy[r])
      <4>1. copy[r] \in Settings /\ Fits(copy[r])
        BY <3>1 DEF Prepared, TypeOK, CopyOf, Belonging
      <4> QED
        BY <3>1, <4>1, CommitFits
    <3>2. CASE PublishSettings(r)
      BY <3>2, PublishFits
    <3>3. CASE UNCHANGED settings
      BY <3>3 DEF Belonging, settings, setup
    <3> QED
      BY <1>3, <3>1, <3>2, <3>3 DEF SetGlobalSettings
  <2> QED
    BY <2>1, <2>2, <2>3 DEF Belonging, CredentialsStayWithTheirCA, Fits
<1> QED
  BY <1>1, <1>2, <1>3, CreateConfigBelongs, KeepBelongs DEF RunSteps

LEMMA PageBelongs ==
  ASSUME TypeOK, Belonging, CredentialsStayWithTheirCA,
         NEW p \in Pages, OpenPage(p) \/ SavePage(p) \/ OnSettingsSaved(p)
  PROVE  Belonging' /\ CredentialsStayWithTheirCA'
<1>1. UNCHANGED <<at, config, copy, access>>
  BY DEF OpenPage, SavePage, OnSettingsSaved, setup
<1>2. \A q \in Pages : page'[q] # Nobody => Fits(page'[q])
  BY DEF OpenPage, SavePage, OnSettingsSaved, Belonging, TypeOK
<1>3. /\ Fits(stored') /\ Fits(cached')
      /\ \A v \in Pages \cup Runs : owed'[v] # Nobody => Fits(owed'[v])
  <2>1. CASE SavePage(p)
    <3>1. PICK s \in Settings : Fits(s) /\ CommitSettings(p, s)
      <4>1. page[p] \in Settings /\ Fits(page[p])
        BY <2>1 DEF SavePage, TypeOK, Belonging
      <4> QED
        BY <2>1, <4>1, EnteredFits, FitsStill, SettingsType DEF SavePage
    <3> QED
      BY <3>1, CommitFits
  <2>2. CASE OnSettingsSaved(p)
    BY <2>2, PublishFits DEF OnSettingsSaved
  <2>3. CASE OpenPage(p)
    BY <2>3 DEF OpenPage, Belonging
  <2> QED
    BY <2>1, <2>2, <2>3
<1> QED
  BY <1>1, <1>2, <1>3 DEF Belonging, CredentialsStayWithTheirCA, Fits

LEMMA FlightBelongs ==
  ASSUME TypeOK, Flying, Belonging, CredentialsStayWithTheirCA,
         NEW c \in CAs, FlightSteps(c)
  PROVE  Belonging' /\ CredentialsStayWithTheirCA'
<1>1. UNCHANGED <<at, copy, access, stored, cached, page, owed>>
  BY FlightConfig DEF settings, setup
<1>2. \A r \in Runs : (config'[r] # Nobody /\ config'[r].eab \in Credential)
                        => config'[r].eab.ca = config'[r].ca
  <2>1. CASE config' = config
    BY <2>1 DEF CredentialsStayWithTheirCA
  <2>2. CASE /\ config' = [config EXCEPT ![Leader(c)].eab = [ca |-> c, no |-> issued + 1]]
             /\ config[Leader(c)] \in Config /\ Leader(c) \in Runs
             /\ config[Leader(c)].ca = c
    <3>1. /\ config'[Leader(c)].ca = c
          /\ config'[Leader(c)].eab = [ca |-> c, no |-> issued + 1]
          /\ \A r \in Runs : r # Leader(c) => config'[r] = config[r]
      BY <2>2 DEF TypeOK, Config
    <3> QED
      BY <3>1 DEF CredentialsStayWithTheirCA
  <2> QED
    BY <2>1, <2>2, FlightConfig
<1> QED
  BY <1>1, <1>2 DEF Belonging, CredentialsStayWithTheirCA

LEMMA BelongingStep ==
  TypeOK /\ Prepared /\ Flying /\ Belonging /\ CredentialsStayWithTheirCA /\ [Next]_vars
    => Belonging' /\ CredentialsStayWithTheirCA'
<1> SUFFICES ASSUME TypeOK, Prepared, Flying, Belonging,
                    CredentialsStayWithTheirCA, [Next]_vars
             PROVE  Belonging' /\ CredentialsStayWithTheirCA'
  OBVIOUS
<1>1. ASSUME NEW a \in Accesses, EditAccess(a) \/ DeleteAccess(a)
      PROVE  Belonging' /\ CredentialsStayWithTheirCA'
  <2>1. UNCHANGED <<at, config, copy, stored, cached, page, owed>>
    BY <1>1 DEF EditAccess, DeleteAccess, settings, setup
  <2>2. \A x \in Accesses : access'[x].eab \in Credential => access'[x].eab.ca = CAOf[x]
    <3>1. CAOf[a] \in CAs
      BY AcmeConstants
    <3> QED
      BY <1>1, <3>1, EnteredFits DEF EditAccess, DeleteAccess, TypeOK, CredentialsStayWithTheirCA
  <2> QED
    BY <2>1, <2>2 DEF Belonging, CredentialsStayWithTheirCA
<1>2. CASE Restart
  <2>1. \A r \in Runs : (at'[r] = "commit" => at[r] = "commit")
                      /\ (at'[r] \notin {"start", "failed"} => at[r] \notin {"start", "failed"})
    BY <1>2 DEF Restart, Ended
  <2>2. /\ UNCHANGED <<config, copy, access, stored, page>> /\ cached' = stored
        /\ \A w \in Pages \cup Runs : owed'[w] = Nobody
    BY <1>2 DEF Restart, setup
  <2> QED
    BY <2>1, <2>2 DEF Belonging, CredentialsStayWithTheirCA, Fits
<1>3. CASE UNCHANGED vars
  BY <1>3 DEF Belonging, CredentialsStayWithTheirCA, vars, settings, setup
<1> QED
  BY <1>1, <1>2, <1>3, RunBelongs, PageBelongs, FlightBelongs DEF Next

-----------------------------------------------------------------------------
(* Failures are explained.                                                 *)

LEMMA DemandingStep == TypeOK /\ Demanding /\ [Next]_vars => Demanding'
<1> SUFFICES ASSUME TypeOK, Demanding, [Next]_vars PROVE Demanding'
  OBVIOUS
<1>1. ASSUME NEW r \in Runs, RunSteps(r) \/ Cancel(r) PROVE Demanding'
  <2>1. CASE Join(r)
    <3> DEFINE opened == [stage |-> "look", leader |-> r]
    <3>1. \A c \in CAs : flight'[c] = flight[c] \/ flight'[c] = opened
      BY <2>1 DEF Join, OpenOrShare, TypeOK
    <3> QED
      BY <3>1 DEF Demanding, InStage
  <2>2. CASE ~Join(r)
    BY <1>1, <2>2, LeaderIsOnItsWay DEF Demanding, InStage
  <2> QED
    BY <2>1, <2>2
<1>2. ASSUME NEW c \in CAs, FlightSteps(c) PROVE Demanding'
  <2>1. flight[c] \in Flight /\ Leader(c) \in Runs
    BY <1>2, FlightType DEF FlightSteps, LookForAccount, ResolveCredentials, Register, SaveAccount
  <2>2. ASSUME NEW stage \in {"credentials", "register", "save"}, Stage(c, stage),
               stage = "credentials" => c \in EabCAs
        PROVE  Demanding'
    <3>1. flight'[c] = [stage |-> stage, leader |-> Leader(c)]
      BY <2>1, <2>2, StageType
    <3>2. \A d \in CAs : d # c => flight'[d] = flight[d]
      BY <2>2 DEF Stage, TypeOK
    <3> QED
      BY <2>2, <3>1, <3>2 DEF Demanding, InStage
  <2>3. ASSUME NEW result, Answer(c, result) PROVE Demanding'
    BY <2>3 DEF Answer, Demanding, InStage, TypeOK
  <2>4. CASE LookForAccount(c)
    BY <2>2, <2>3, <2>4 DEF LookForAccount
  <2>5. CASE ResolveCredentials(c) \/ Register(c) \/ SaveAccount(c)
    BY <2>2, <2>3, <2>5 DEF ResolveCredentials, Register, SaveAccount
  <2> QED
    BY <1>2, <2>4, <2>5 DEF FlightSteps
<1>3. CASE Restart
  BY <1>3 DEF Restart, Demanding, InStage
<1>4. CASE flight' = flight
  BY <1>4 DEF Demanding, InStage
<1>5. ASSUME NEW p \in Pages, OpenPage(p) \/ SavePage(p) \/ OnSettingsSaved(p)
      PROVE  flight' = flight
  BY <1>5 DEF OpenPage, SavePage, OnSettingsSaved, flights, setup
<1>6. ASSUME NEW a \in Accesses, EditAccess(a) \/ DeleteAccess(a) PROVE flight' = flight
  BY <1>6 DEF EditAccess, DeleteAccess, flights, setup
<1> QED
  BY <1>1, <1>2, <1>3, <1>4, <1>5, <1>6 DEF Next, vars, setup, flights

LEMMA JoinAnswered ==
  ASSUME TypeOK, Prepared, Flying, Answered,
         NEW r \in Runs, Join(r), OpenOrShare(r)
  PROVE  Answered'
<1> DEFINE c == config[r].ca
           opened == [stage |-> "look", leader |-> r]
<1>1. config[r] # Nobody /\ at[r] = "join" /\ answer[r] = Nobody
  BY DEF Join, OpenOrShare, Prepared, Answered, Before, Ended
<1>2. c \in CAs
  BY <1>1 DEF TypeOK, Config
<1>3. /\ UNCHANGED <<config, answer, canceled, badMail, faults, restarts>>
      /\ at' = [at EXCEPT ![r] = "wait"]
  BY DEF Join, OpenOrShare, Go, setup
<1>4. \A x \in Runs : x # r => led'[x] = led[x]
  BY DEF Join, OpenOrShare, TypeOK
<1>5. \/ flight' = flight /\ flight[c] # Nobody /\ led'[r] = flight[c].leader
      \/ /\ flight[c] = Nobody /\ led'[r] = r
         /\ flight' = [flight EXCEPT ![c] = opened]
  BY DEF Join, OpenOrShare, TypeOK
<1>6. flight'[c] # Nobody /\ flight'[c].leader = led'[r]
  <2>1. opened \in Flight
    BY DEF Flight
  <2> QED
    BY <1>2, <1>5, <2>1, AcmeValues DEF TypeOK
<1>7. \A d \in CAs : /\ flight[d] # Nobody => flight'[d] = flight[d]
                     /\ (flight'[d] # Nobody /\ flight[d] = Nobody) => flight'[d] = opened
  BY <1>2, <1>5 DEF TypeOK
<1>8. \A x \in Runs : x # r => (Explained(x)' <=> Explained(x))
  BY <1>3, <1>4 DEF Explained, NoCredentials
<1>9. ASSUME NEW x \in Runs, x # r, at[x] = "wait", answer[x] = Nobody
      PROVE  flight'[config[x].ca] # Nobody /\ Leader(config[x].ca)' = led'[x]
  <2>1. config[x].ca \in CAs
    BY <1>9 DEF Prepared, TypeOK, Config, Ended
  <2> QED
    BY <1>3, <1>4, <1>7, <1>9, <2>1 DEF Answered, Leader
<1>10. ASSUME NEW x \in Runs, answer[x] # Nobody
       PROVE  /\ at'[led'[x]] \notin Before
              /\ \A d \in CAs : flight'[d] # Nobody => Leader(d)' # led'[x]
  <2>1. x # r /\ led'[x] = led[x] /\ led[x] \in Runs /\ at[led[x]] \notin Before
    BY <1>1, <1>4, <1>10 DEF TypeOK, Answered
  <2>2. led[x] # r
    BY <1>1, <2>1 DEF Before
  <2> QED
    BY <1>3, <1>7, <1>10, <2>1, <2>2 DEF Answered, Leader, TypeOK
<1>11. ASSUME NEW x \in Runs
       PROVE  /\ at'[x] \in Before => answer'[x] = Nobody
              /\ (at'[x] = "wait" /\ answer'[x] = Nobody) =>
                    /\ flight'[config'[x].ca] # Nobody
                    /\ Leader(config[x].ca)' = led'[x]
              /\ answer'[x] = "error" => Explained(x)'
  <2>1. CASE x = r
    BY <1>1, <1>3, <1>6, <2>1, AcmeValues DEF Before, Leader, TypeOK
  <2>2. CASE x # r
    <3>1. at'[x] = at[x]
      BY <1>3, <2>2 DEF TypeOK
    <3> QED
      BY <1>3, <1>8, <1>9, <2>2, <3>1 DEF Answered
  <2> QED
    BY <2>1, <2>2
<1> QED
  BY <1>3, <1>10, <1>11 DEF Answered, Leader

LEMMA RunAnswered ==
  ASSUME TypeOK, Prepared, Flying, Answered, NEW r \in Runs, RunSteps(r) \/ Cancel(r)
  PROVE  Answered'
<1>1. CASE Join(r) /\ OpenOrShare(r)
  BY <1>1, JoinAnswered
<1>2. CASE ~Join(r) \/ ~OpenOrShare(r)
  <2>1. /\ UNCHANGED <<answer, restarts, badMail>>
        /\ canceled \subseteq canceled' /\ (faults > 0 => faults' > 0)
    <3>1. UNCHANGED <<answer, restarts, badMail>>
      BY LeaderIsOnItsWay DEF RunSteps, ReadAccess, CreateConfig, Join, Await,
         KeepCredentials, SetGlobalSettings, Cancel, setup
    <3>2. canceled \subseteq canceled'
      BY DEF RunSteps, ReadAccess, CreateConfig, Join, Await, KeepCredentials,
         SetGlobalSettings, Cancel
    <3>3. faults > 0 => faults' > 0
      BY DEF RunSteps, ReadAccess, CreateConfig, Join, Await, KeepCredentials,
         SetGlobalSettings, Cancel, Fault, TypeOK
    <3> QED
      BY <3>1, <3>2, <3>3
  <2>3. UNCHANGED <<flight, led>>
    BY <1>2, LeaderIsOnItsWay DEF Join
  <2>2. \A x \in Runs : /\ at'[x] \in Before => at[x] \in Before
                        /\ at'[x] = "wait" => at[x] = "wait"
                        /\ at[x] \notin Before => config'[x] = config[x]
    BY <1>2 DEF RunSteps, ReadAccess, CreateConfig, Join, Await, KeepCredentials,
       SetGlobalSettings, Cancel, Go, TypeOK, Before
  <2>4. ASSUME NEW x \in Runs, answer[x] # Nobody, Explained(x) PROVE Explained(x)'
    <3>1. led[x] \in Runs /\ at[led[x]] \notin Before
      BY <2>4 DEF Answered, TypeOK
    <3>2. config'[led[x]] = config[led[x]]
      BY <2>2, <3>1
    <3> QED
      BY <2>1, <2>3, <2>4, <3>2 DEF Explained, NoCredentials
  <2>5. \A x \in Runs : led[x] \in Runs /\ (at[x] = "wait" => at[x] \notin Before)
    BY DEF TypeOK, Before
  <2>6. "error" # Nobody
    BY AcmeValues
  <2> QED
    BY <2>1, <2>2, <2>3, <2>4, <2>5, <2>6 DEF Answered, Leader
<1> QED
  BY <1>1, <1>2

\* What a step of a flight answers, and why.
LEMMA FlightAnswers ==
  ASSUME TypeOK, Flying, Demanding, NEW c \in CAs, FlightSteps(c)
  PROVE  \/ answer' = answer /\ flight'[c] # Nobody
         \/ \E result \in {"account", "error"} :
              /\ Answer(c, result)
              /\ config' = config
              /\ result = "error" =>
                    \/ Leader(c) \in canceled \/ faults' > 0
                    \/ NoCredentials(config[Leader(c)])
<1>1. flight[c] # Nobody /\ config[Leader(c)] # Nobody /\ config[Leader(c)].ca = c
  BY FlightType DEF Flying, FlightSteps, LookForAccount, ResolveCredentials, Register, SaveAccount
<1>2. Fault => faults' > 0
  BY DEF Fault, TypeOK
<1>0. ASSUME NEW stage \in {"credentials", "register", "save"}, Stage(c, stage)
      PROVE  answer' = answer /\ flight'[c] # Nobody
  <2>1. flight[c] \in Flight /\ Leader(c) \in Runs
    BY <1>1 DEF TypeOK, Flight, Leader
  <2>2. flight'[c] = [stage |-> stage, leader |-> Leader(c)]
    BY <1>0, <2>1, StageType
  <2> QED
    BY <1>0, <2>1, <2>2, AcmeValues DEF Stage, Flight
<1>3. CASE LookForAccount(c)
  BY <1>0, <1>2, <1>3 DEF LookForAccount
<1>4. CASE ResolveCredentials(c)
  <2>1. c \in EabCAs
    BY <1>4 DEF ResolveCredentials, Demanding
  <2>2. config[Leader(c)].eab \in Eab
    BY <1>1 DEF TypeOK, Config, Flight, Leader
  <2> QED
    BY <1>0, <1>1, <1>2, <1>4, <2>1, <2>2 DEF ResolveCredentials, NoCredentials
<1>5. CASE Register(c)
  BY <1>0, <1>2, <1>5 DEF Register
<1>6. CASE SaveAccount(c)
  BY <1>2, <1>6 DEF SaveAccount
<1> QED
  BY <1>3, <1>4, <1>5, <1>6 DEF FlightSteps

LEMMA FlightAnswered ==
  ASSUME TypeOK, Prepared, Flying, Demanding, Answered, NEW c \in CAs, FlightSteps(c)
  PROVE  Answered'
<1>1. UNCHANGED <<at, canceled, led, badMail, restarts>>
  BY FlightConfig
<1>2. faults > 0 => faults' > 0
  BY DEF FlightSteps, LookForAccount, ResolveCredentials, Register, SaveAccount,
         Fault, TypeOK
<1>3. /\ \A d \in CAs : d # c => flight'[d] = flight[d]
      /\ flight'[c] = Nobody \/ (flight'[c] # Nobody /\ flight'[c].leader = flight[c].leader)
      /\ flight[c] # Nobody
  BY FlightProgress
<1>4. \A x \in Runs : at[x] \notin Before => config[x] # Nobody \/ at[x] = "failed"
  BY DEF Prepared, Before, Ended
<1>5. \A x \in Runs : answer[x] # Nobody => config'[led[x]] = config[led[x]]
  <2>1. CASE config' = config
    BY <2>1
  <2>2. CASE config' = [config EXCEPT ![Leader(c)].eab = [ca |-> c, no |-> issued + 1]]
    <3>1. \A y \in Runs : y # Leader(c) => config'[y] = config[y]
      BY <2>2 DEF TypeOK
    <3>2. \A x \in Runs : answer[x] # Nobody => led[x] # Leader(c) /\ led[x] \in Runs
      BY <1>3 DEF Answered, TypeOK
    <3> QED
      BY <3>1, <3>2
  <2> QED
    BY <2>1, <2>2, FlightConfig
<1>6. ASSUME NEW x \in Runs, answer[x] # Nobody, Explained(x) PROVE Explained(x)'
  BY <1>1, <1>2, <1>5, <1>6 DEF Explained, NoCredentials
<1>7. \A x \in Runs : at[x] = "wait" => config[x] # Nobody /\ config'[x].ca = config[x].ca
                                        /\ config[x].ca \in CAs
  <2>1. \A x \in Runs : at[x] = "wait" => config[x] # Nobody
    BY DEF Prepared, Ended
  <2> QED
    BY <2>1, ConfigKeepsCA DEF TypeOK, Config
<1>8. ASSUME NEW x \in Runs, answer'[x] = answer[x]
      PROVE  /\ answer'[x] # Nobody =>
                    /\ at'[led'[x]] \notin Before
                    /\ \A d \in CAs : flight'[d] # Nobody => Leader(d)' # led'[x]
             /\ answer'[x] = "error" => Explained(x)'
  <2>1. answer[x] # Nobody =>
            \A d \in CAs : flight'[d] # Nobody => flight[d] # Nobody /\ flight'[d].leader = flight[d].leader
    BY <1>3
  <2>2. "error" # Nobody
    BY AcmeValues
  <2> QED
    BY <1>1, <1>6, <1>8, <2>1, <2>2 DEF Answered, Leader
<1>9. CASE answer' = answer /\ flight'[c] # Nobody
  <2>1. ASSUME NEW x \in Runs, at[x] = "wait", answer[x] = Nobody
        PROVE  flight'[config'[x].ca] # Nobody /\ Leader(config[x].ca)' = led'[x]
    <3>1. /\ flight[config[x].ca] # Nobody /\ flight[config[x].ca].leader = led[x]
          /\ config[x].ca \in CAs /\ config'[x].ca = config[x].ca
      BY <1>7, <2>1 DEF Answered, Leader
    <3>2. flight'[config[x].ca] # Nobody /\ flight'[config[x].ca].leader = led[x]
      BY <1>3, <1>9, <3>1
    <3> QED
      BY <1>1, <3>1, <3>2 DEF Leader
  <2> QED
    BY <1>1, <1>8, <1>9, <2>1 DEF Answered
<1>10. ASSUME NEW result \in {"account", "error"}, Answer(c, result), config' = config,
              result = "error" =>
                    \/ Leader(c) \in canceled \/ faults' > 0
                    \/ NoCredentials(config[Leader(c)])
       PROVE  Answered'
  <2>1. flight'[c] = Nobody
    BY <1>10 DEF Answer, TypeOK
  <2>2. \A x \in Runs : \/ answer'[x] = answer[x]
                        \/ /\ at[x] = "wait" /\ config[x].ca = c
                           /\ answer[x] = Nobody /\ answer'[x] = result
    BY <1>10 DEF Answer
  <2>3. \A x \in Runs : (at[x] = "wait" /\ config[x].ca = c /\ answer[x] = Nobody)
                            => answer'[x] = result /\ result # Nobody
    BY <1>10, AcmeValues DEF Answer
  <2>4. ASSUME NEW x \in Runs, at[x] = "wait", config[x].ca = c, answer[x] = Nobody,
               answer'[x] = result
        PROVE  /\ at'[led'[x]] \notin Before
               /\ \A d \in CAs : flight'[d] # Nobody => Leader(d)' # led'[x]
               /\ answer'[x] = "error" => Explained(x)'
    <3>1. led[x] = Leader(c)
      BY <2>4 DEF Answered
    <3>2. at[Leader(c)] \notin Before /\ config[Leader(c)].ca = c
      BY <1>3 DEF Flying
    <3>3. \A d \in CAs : flight'[d] # Nobody => d # c /\ flight'[d] = flight[d]
      BY <1>3, <2>1
    <3>4. \A d \in CAs : flight'[d] # Nobody => Leader(d) # Leader(c)
      BY <3>2, <3>3 DEF Flying
    <3> QED
      BY <1>1, <1>10, <2>4, <3>1, <3>2, <3>3, <3>4 DEF Explained, NoCredentials, Leader
  <2>5. ASSUME NEW x \in Runs, at'[x] = "wait", answer'[x] = Nobody
        PROVE  flight'[config'[x].ca] # Nobody /\ Leader(config[x].ca)' = led'[x]
    <3>1. at[x] = "wait" /\ config[x].ca \in CAs
      BY <1>1, <1>7, <2>5
    <3>2. config[x].ca # c /\ answer[x] = Nobody
      BY <2>2, <2>3, <2>5, <3>1
    <3>3. flight[config[x].ca] # Nobody /\ flight[config[x].ca].leader = led[x]
      BY <3>1, <3>2 DEF Answered, Leader
    <3>4. flight'[config[x].ca] = flight[config[x].ca]
      BY <1>3, <3>1, <3>2
    <3> QED
      BY <1>1, <1>10, <3>3, <3>4 DEF Leader
  <2>6. \A x \in Runs : at'[x] \in Before => answer'[x] = Nobody
    BY <1>1, <2>2 DEF Answered, Before
  <2>9. \A x \in Runs : /\ answer'[x] # Nobody =>
                                /\ at'[led'[x]] \notin Before
                                /\ \A d \in CAs : flight'[d] # Nobody => Leader(d)' # led'[x]
                        /\ answer'[x] = "error" => Explained(x)'
    BY <1>8, <2>2, <2>4
  <2> QED
    BY <2>5, <2>6, <2>9 DEF Answered
<1> QED
  BY <1>9, <1>10, FlightAnswers

\* A failed run stays where it is, and so do its own reasons.
LEMMA RunBlamed ==
  ASSUME TypeOK, Prepared, Blamed, NEW r \in Runs, RunSteps(r) \/ Cancel(r)
  PROVE  Blamed'
<1>1. /\ UNCHANGED <<answer, restarts, deleted, unfit>>
      /\ canceled \subseteq canceled' /\ (faults > 0 => faults' > 0)
  BY DEF RunSteps, ReadAccess, CreateConfig, Join, Await, KeepCredentials,
     SetGlobalSettings, Cancel, Fault, TypeOK, flights, setup
<1>2. \A x \in Runs : x # r =>
            at'[x] = at[x] /\ copy'[x] = copy[x] /\ config'[x] = config[x]
  BY DEF RunSteps, ReadAccess, CreateConfig, Join, OpenOrShare, Await,
     KeepCredentials, SetGlobalSettings, Cancel, Go, TypeOK
<1>3. ASSUME at'[r] = "failed", at[r] # "failed"
      PROVE  r \in canceled' \/ faults' > 0 \/ answer'[r] = "error" \/ OwnFailure(r)'
  <2>1. CASE ReadAccess(r)
    <3>1. Source[r] \in deleted => copy[r] = Nobody
      BY <2>1 DEF ReadAccess, Blamed
    <3>2. Fault => faults' > 0
      BY DEF Fault, TypeOK
    <3>3. Source[r] \in Accesses => access[Source[r]] # Nobody /\ Source[r] # Global
      BY AcmeValues, AcmeConstants DEF TypeOK
    <3>4. Source[r] \in Accesses \ deleted /\ copy' = [copy EXCEPT ![r] = access[Source[r]]]
            => copy'[r] = access[Source[r]]
      BY DEF TypeOK
    <3> QED
      BY <1>1, <1>3, <2>1, <3>1, <3>2, <3>3, <3>4 DEF ReadAccess, OwnFailure, Go, TypeOK
  <2>2. CASE CreateConfig(r)
    BY <1>3, <2>2, ConfigCreated DEF CreateConfig, OwnFailure, Go, TypeOK
  <2>3. CASE Join(r)
    BY <1>1, <1>3, <2>3 DEF Join, OpenOrShare, OwnFailure, Go, TypeOK
  <2>4. CASE Await(r) \/ KeepCredentials(r) \/ SetGlobalSettings(r) \/ Cancel(r)
    BY <1>1, <1>3, <2>4 DEF Await, KeepCredentials, SetGlobalSettings, Cancel, Go, TypeOK
  <2> QED
    BY <2>1, <2>2, <2>3, <2>4 DEF RunSteps
<1>4. at[r] = "failed" => UNCHANGED <<at, copy, config>>
  BY DEF RunSteps, ReadAccess, CreateConfig, Join, Await, KeepCredentials,
     SetGlobalSettings, Cancel
<1>5. at'[r] = "start" => at[r] = "start" /\ copy'[r] = copy[r]
  BY DEF RunSteps, ReadAccess, CreateConfig, Join, OpenOrShare, Await,
     KeepCredentials, SetGlobalSettings, Cancel, Go, TypeOK
<1> QED
  BY <1>1, <1>2, <1>3, <1>4, <1>5 DEF Blamed, OwnFailure

LEMMA BlamedStep == TypeOK /\ Prepared /\ Flying /\ Blamed /\ [Next]_vars => Blamed'
<1> SUFFICES ASSUME TypeOK, Prepared, Flying, Blamed, [Next]_vars PROVE Blamed'
  OBVIOUS
<1>1. ASSUME NEW c \in CAs, FlightSteps(c) PROVE Blamed'
  <2>1. UNCHANGED <<at, canceled, copy, deleted, unfit, restarts>>
    BY <1>1, FlightConfig
  <2>2. faults > 0 => faults' > 0
    BY <1>1 DEF FlightSteps, LookForAccount, ResolveCredentials, Register, SaveAccount,
       Fault, TypeOK
  <2>3. \A r \in Runs : at[r] = "failed" => answer'[r] = answer[r]
    BY <1>1 DEF FlightSteps, LookForAccount, ResolveCredentials, Register, SaveAccount,
       Stage, Answer, TypeOK
  <2>4. \A r \in Runs : (config[r] # Nobody /\ config[r].eab = Unusable)
                            => config'[r] = config[r]
    BY <1>1, FlightConfig, AcmeValues DEF TypeOK
  <2> QED
    BY <2>1, <2>2, <2>3, <2>4 DEF Blamed, OwnFailure
<1>2. CASE Restart
  <2>1. restarts' > 0 /\ copy' = copy /\ \A r \in Runs : at'[r] # "start"
    BY <1>2 DEF Restart, Ended, TypeOK
  <2> QED
    BY <2>1 DEF Blamed
<1>3. ASSUME UNCHANGED <<at, config, copy, flights, canceled, unfit, faults, restarts>>,
             deleted \subseteq deleted'
      PROVE  Blamed'
  BY <1>3 DEF Blamed, OwnFailure, flights
<1>4. ASSUME NEW p \in Pages, OpenPage(p) \/ SavePage(p) \/ OnSettingsSaved(p)
      PROVE  Blamed'
  BY <1>3, <1>4 DEF OpenPage, SavePage, OnSettingsSaved, setup
<1>5. ASSUME NEW a \in Accesses, EditAccess(a) \/ DeleteAccess(a) PROVE Blamed'
  BY <1>3, <1>5 DEF EditAccess, DeleteAccess
<1>6. CASE UNCHANGED vars
  BY <1>3, <1>6 DEF vars, setup
<1> QED
  BY <1>1, <1>2, <1>4, <1>5, <1>6, RunBlamed DEF Next

-----------------------------------------------------------------------------
(* The theorems.                                                           *)

LEMMA AnsweredStep ==
  TypeOK /\ Prepared /\ Flying /\ Demanding /\ Answered /\ [Next]_vars => Answered'
<1> SUFFICES ASSUME TypeOK, Prepared, Flying, Demanding, Answered, [Next]_vars
             PROVE  Answered'
  OBVIOUS
<1>1. CASE Restart
  <2>1. restarts' > 0 /\ UNCHANGED <<answer, led>>
    BY <1>1 DEF Restart, TypeOK
  <2>2. \A r \in Runs : at'[r] \in Ended /\ at'[r] \notin Before /\ at'[r] # "wait"
    BY <1>1 DEF Restart, TypeOK, Ended, Before
  <2>3. \A c \in CAs : flight'[c] = Nobody
    BY <1>1 DEF Restart
  <2> QED
    BY <2>1, <2>2, <2>3 DEF Answered, Explained, NoCredentials, TypeOK
<1>2. ASSUME UNCHANGED <<at, config, flights, canceled, badMail, faults, restarts>>
      PROVE  Answered'
  BY <1>2 DEF Answered, Explained, NoCredentials, Leader, flights, setup
<1>3. ASSUME NEW p \in Pages, OpenPage(p) \/ SavePage(p) \/ OnSettingsSaved(p)
      PROVE  Answered'
  BY <1>2, <1>3 DEF OpenPage, SavePage, OnSettingsSaved, setup
<1>4. ASSUME NEW a \in Accesses, EditAccess(a) \/ DeleteAccess(a) PROVE Answered'
  BY <1>2, <1>4 DEF EditAccess, DeleteAccess
<1>5. CASE UNCHANGED vars
  BY <1>2, <1>5 DEF vars, setup
<1> QED
  BY <1>1, <1>3, <1>4, <1>5, RunAnswered, FlightAnswered DEF Next

LEMMA InitInv == Init => AccountsInv
<1> SUFFICES ASSUME Init PROVE AccountsInv
  OBVIOUS
<1>1. TypeOK
  BY InitType
<1>2. Prepared /\ Owing /\ Flying /\ Demanding /\ OneAccountPerKey
  BY DEF Init, Prepared, Owing, Flying, Demanding, OneAccountPerKey, InStage, Ended
<1>3. /\ \A c \in CAs : stored.eab[c] = NoEab /\ cached.eab[c] = NoEab
      /\ \A a \in Accesses : access[a].eab \in {NoEab, HalfEab}
  BY DEF Init
<1>4. Belonging /\ CredentialsStayWithTheirCA
  BY <1>3, AcmeValues DEF Init, Belonging, CredentialsStayWithTheirCA, Fits
<1>5. Answered /\ Blamed
  BY AcmeValues DEF Init, Answered, Blamed, Before
<1> QED
  BY <1>1, <1>2, <1>4, <1>5 DEF AccountsInv

LEMMA InvStep == AccountsInv /\ [Next]_vars => AccountsInv'
BY TypeStep, PreparedStep, OwingStep, FlyingStep, DemandingStep, AccountStep,
   BelongingStep, AnsweredStep, BlamedStep DEF AccountsInv

\* The invariant: a flight has a leader that came for its CA, what a run
\* carries fits, and who waits is waited for.
THEOREM AccountsInductive == Spec => []AccountsInv
BY InitInv, InvStep, PTL DEF Spec

\* The database never holds two accounts for one CA, and no account the CA
\* registered goes unaccounted for, whoever leads and whoever is canceled
\* (registerACMEAccount).
THEOREM AccountsAreShared == Spec => []OneAccountPerKey
<1>1. AccountsInv => OneAccountPerKey
  BY DEF AccountsInv
<1> QED
  BY <1>1, AccountsInductive, PTL

\* Credentials of one CA are never written under another, nor used with it,
\* whatever users save in between (setup of the ACME configuration, and the
\* write-back in executor_bizapply.go).
THEOREM CredentialsFit == Spec => []CredentialsStayWithTheirCA
<1>1. AccountsInv => CredentialsStayWithTheirCA
  BY DEF AccountsInv
<1> QED
  BY <1>1, AccountsInductive, PTL

\* No run fails for want of an account without a cause that lies in itself, in
\* the run it shared the registration with, or in the environment.
THEOREM FailuresHaveCauses == Spec => []FailuresAreExplained
<1>1. AccountsInv => FailuresAreExplained
  BY AcmeValues DEF AccountsInv, Answered, Blamed, Explained, FailuresAreExplained
<1> QED
  BY <1>1, AccountsInductive, PTL

-----------------------------------------------------------------------------
(* The refinement.                                                         *)

Row == [k \in {SSLProvider} |-> stored]
Shown == [k \in {SSLProvider} |-> cached]
Owes(w) == IF owed[w] = Nobody THEN Nobody
           ELSE [key |-> SSLProvider, content |-> owed[w]]
Behind == [w \in Pages \cup Runs |-> Owes(w)]

LEMMA OwesSomething ==
  ASSUME NEW w \in Pages \cup Runs
  PROVE  /\ Behind[w] # Nobody => owed[w] # Nobody
         /\ owed[w] = Nobody => Behind[w] = Nobody
BY DEF Behind, Owes

LEMMA MirrorInit == Init => Mirror!Init
<1> SUFFICES ASSUME Init PROVE Mirror!Init
  OBVIOUS
<1>1. stored \in Settings /\ cached = stored
  BY InitType DEF Init, TypeOK
<1>2. Behind = [w \in Pages \cup Runs |-> Nobody]
  BY DEF Behind, Owes, Init
<1>3. [k \in {SSLProvider} |-> apart] = [k \in {SSLProvider} |-> FALSE]
  BY DEF Init
<1> QED
  BY <1>1, <1>2, <1>3 DEF Mirror!Init, Behind, Owes

LEMMA CommitMirrors ==
  ASSUME TypeOK, NEW w \in Pages \cup Runs, NEW s \in Settings, owed[w] = Nobody,
         CommitSettings(w, s)
  PROVE  Mirror!Commit(w, SSLProvider)
<1> DEFINE publication == [key |-> SSLProvider, content |-> s]
<1>1. stored' = s /\ cached' = cached /\ s # Nobody
  BY AcmeValues DEF CommitSettings
<1>2. Row'[SSLProvider] = s /\ Row' = [Row EXCEPT ![SSLProvider] = s]
  BY <1>1 DEF Row
<1>3. Behind' = [Behind EXCEPT ![w] = publication]
  <2>1. \A v \in Pages \cup Runs : Owes(v)' = IF v = w THEN publication ELSE Owes(v)
    BY <1>1 DEF CommitSettings, TypeOK, Owes
  <2> QED
    BY <2>1 DEF Behind
<1>4. Mirror!IsBehind(SSLProvider) = IsBehind
  <2>1. \A v \in Pages \cup Runs :
            (Behind[v] # Nobody /\ Behind[v].key = SSLProvider) <=> owed[v] # Nobody
    <3> TAKE v \in Pages \cup Runs
    <3>1. owed[v] # Nobody => Behind[v] = [key |-> SSLProvider, content |-> owed[v]]
      BY DEF Behind, Owes
    <3>2. owed[v] # Nobody => [key |-> SSLProvider, content |-> owed[v]] \in Owed
      BY DEF TypeOK, Owed
    <3> QED
      BY <3>1, <3>2, OwesSomething, AcmeValues
  <2> QED
    BY <2>1 DEF Mirror!IsBehind, IsBehind, Behind, Owes
<1>5. [k \in {SSLProvider} |-> apart']
        = [[k \in {SSLProvider} |-> apart] EXCEPT ![SSLProvider] = Mirror!IsBehind(SSLProvider)]
  <2>1. apart' = Mirror!IsBehind(SSLProvider)
    BY <1>4 DEF CommitSettings
  <2> QED
    BY <2>1
<1>6. Behind[w] = Nobody
  BY OwesSomething
<1>7. Shown' = Shown
  BY <1>1 DEF Shown
<1> QED
  BY <1>2, <1>3, <1>5, <1>6, <1>7 DEF Mirror!Commit, Row, Shown, Behind, Owes

LEMMA PublishMirrors ==
  ASSUME TypeOK, NEW w \in Pages \cup Runs, PublishSettings(w)
  PROVE  Mirror!Publish(w)
<1>1. owed[w] \in Settings /\ Behind[w] = [key |-> SSLProvider, content |-> owed[w]]
  BY DEF PublishSettings, TypeOK, Behind, Owes
<1>2. Behind[w] # Nobody
  BY <1>1, AcmeValues DEF Owed
<1>3. Behind' = [Behind EXCEPT ![w] = Nobody]
  <2>1. \A v \in Pages \cup Runs : Owes(v)' = IF v = w THEN Nobody ELSE Owes(v)
    BY DEF PublishSettings, TypeOK, Owes
  <2> QED
    BY <2>1 DEF Behind
<1>4. Shown' = [Shown EXCEPT ![SSLProvider] = owed[w]]
  BY DEF PublishSettings, Shown
<1>5. [s \in Settings |-> s][Behind[w].content] = owed[w] /\ Behind[w].key = SSLProvider
  BY <1>1
<1>6. UNCHANGED <<stored, apart>>
  BY DEF PublishSettings
<1>7. [k \in {SSLProvider} |-> apart]' = [k \in {SSLProvider} |-> apart]
  BY <1>6
<1>8. Row' = Row
  BY <1>6 DEF Row
<1> QED
  BY <1>2, <1>3, <1>4, <1>5, <1>7, <1>8 DEF Mirror!Publish, Row, Shown, Behind, Owes

LEMMA RestartMirrors == ASSUME TypeOK, Restart PROVE Mirror!Restart
<1>1. UNCHANGED stored /\ cached' = stored /\ stored \in Settings /\ apart' = FALSE
  BY DEF Restart, TypeOK
<1>2. Behind' = [w \in Pages \cup Runs |-> Nobody]
  BY DEF Restart, Behind, Owes
<1>3. [k \in {SSLProvider} |-> apart]' \in [{SSLProvider} -> BOOLEAN]
  BY <1>1
<1>4. Row' = Row /\ Shown' \in [{SSLProvider} -> Settings]
      /\ Shown'[SSLProvider] = [s \in Settings |-> s][Row[SSLProvider]]
  BY <1>1 DEF Row, Shown
<1> QED
  BY <1>2, <1>3, <1>4 DEF Mirror!Restart, Row, Shown, Behind, Owes

LEMMA MirrorStep ==
  TypeOK /\ Prepared /\ Owing /\ [Next]_vars => [Mirror!Next]_(Mirror!vars)
<1> SUFFICES ASSUME TypeOK, Prepared, Owing, [Next]_vars
             PROVE  [Mirror!Next]_(Mirror!vars)
  OBVIOUS
<1>1. ASSUME UNCHANGED <<stored, cached, owed, apart>> PROVE UNCHANGED Mirror!vars
  BY <1>1 DEF Mirror!vars, setup
<1>2. ASSUME NEW w \in Pages \cup Runs, NEW s \in Settings, owed[w] = Nobody,
             CommitSettings(w, s)
      PROVE  Mirror!Next
  BY <1>2, CommitMirrors DEF Mirror!Next
<1>3. ASSUME NEW w \in Pages \cup Runs, PublishSettings(w) PROVE Mirror!Next
  BY <1>3, PublishMirrors DEF Mirror!Next
<1>4. ASSUME NEW r \in Runs, SetGlobalSettings(r) PROVE [Mirror!Next]_(Mirror!vars)
  <2>1. CASE at[r] = "commit" /\ CommitSettings(r, copy[r])
    <3>1. copy[r] \in Settings /\ owed[r] = Nobody
      BY <2>1 DEF Prepared, TypeOK, CopyOf, Owing
    <3> QED
      BY <1>2, <2>1, <3>1
  <2>2. CASE PublishSettings(r)
    BY <1>3, <2>2
  <2>3. CASE UNCHANGED settings
    BY <1>1, <2>3 DEF settings, setup
  <2> QED
    BY <1>4, <2>1, <2>2, <2>3 DEF SetGlobalSettings
<1>5. ASSUME NEW r \in Runs, RunSteps(r) \/ Cancel(r) PROVE [Mirror!Next]_(Mirror!vars)
  <2>1. CASE SetGlobalSettings(r)
    BY <1>4, <2>1
  <2>2. CASE ~SetGlobalSettings(r)
    BY <1>1, <1>5, <2>2 DEF RunSteps, ReadAccess, CreateConfig, Join, OpenOrShare, Await,
       KeepCredentials, Cancel, settings, setup
  <2> QED
    BY <2>1, <2>2
<1>6. ASSUME NEW c \in CAs, FlightSteps(c) PROVE UNCHANGED Mirror!vars
  BY <1>1, <1>6 DEF FlightSteps, LookForAccount, ResolveCredentials, Register,
     SaveAccount, settings, setup
<1>7. ASSUME NEW p \in Pages, SavePage(p) PROVE Mirror!Next
  <2>1. page[p] \in Settings /\ owed[p] = Nobody
    BY <1>7 DEF SavePage, TypeOK, Owing
  <2>2. PICK s \in Settings : CommitSettings(p, s)
    BY <1>7, <2>1, EnteredFits, SettingsType DEF SavePage
  <2> QED
    BY <1>2, <2>1, <2>2
<1>8. ASSUME NEW p \in Pages, OnSettingsSaved(p) PROVE Mirror!Next
  BY <1>3, <1>8 DEF OnSettingsSaved
<1>9. ASSUME NEW p \in Pages, OpenPage(p) PROVE UNCHANGED Mirror!vars
  BY <1>1, <1>9 DEF OpenPage
<1>10. ASSUME NEW a \in Accesses, EditAccess(a) \/ DeleteAccess(a) PROVE UNCHANGED Mirror!vars
  BY <1>1, <1>10 DEF EditAccess, DeleteAccess, settings, setup
<1>11. CASE Restart
  BY <1>11, RestartMirrors DEF Mirror!Next
<1>12. CASE UNCHANGED vars
  BY <1>1, <1>12 DEF vars, settings, setup
<1> QED
  BY <1>5, <1>6, <1>7, <1>8, <1>9, <1>10, <1>11, <1>12 DEF Next

\* The settings cache is a mirror of the settings row: whatever pages and runs
\* save, and in whichever order they publish it, it holds what somebody
\* committed, and the row itself after a restart (SetGlobalSettingsForSSLProvider
\* and the hooks of settings/pbhook.go).
THEOREM CacheMirrorsSettings == Spec => CacheIsAMirror
<1>1. AccountsInv => TypeOK /\ Prepared /\ Owing
  BY DEF AccountsInv
<1> QED
  BY <1>1, InitInv, InvStep, MirrorInit, MirrorStep, PTL
     DEF Spec, CacheIsAMirror, Mirror!Spec

\* The one writer that is behind owes the row.
Follows ==
    /\ \A w \in Pages \cup Runs : (owed[w] # Nobody /\ ~apart) =>
            /\ owed[w] = stored
            /\ \A v \in Pages \cup Runs : owed[v] # Nobody => v = w
    /\ IsBehind \/ apart \/ cached = stored

LEMMA FollowsCommit ==
  ASSUME TypeOK, Follows, NEW w \in Pages \cup Runs, NEW s \in Settings,
         CommitSettings(w, s)
  PROVE  Follows'
<1>1. s # Nobody /\ owed'[w] = s /\ stored' = s /\ (apart' <=> IsBehind)
  BY AcmeValues DEF CommitSettings, TypeOK
<1>2. IsBehind'
  BY <1>1 DEF IsBehind
<1>3. \A v \in Pages \cup Runs : v # w => owed'[v] = owed[v]
  BY DEF CommitSettings, TypeOK
<1> QED
  BY <1>1, <1>2, <1>3 DEF Follows, IsBehind

LEMMA FollowsPublish ==
  ASSUME TypeOK, Follows, NEW w \in Pages \cup Runs, PublishSettings(w)
  PROVE  Follows'
<1>1. /\ owed[w] # Nobody /\ cached' = owed[w] /\ owed'[w] = Nobody
      /\ \A v \in Pages \cup Runs : v # w => owed'[v] = owed[v]
      /\ UNCHANGED <<stored, apart>>
  BY DEF PublishSettings, TypeOK
<1> QED
  BY <1>1 DEF Follows, IsBehind

LEMMA FollowsStep ==
  TypeOK /\ Prepared /\ Owing /\ Follows /\ [Next]_vars => Follows'
<1> SUFFICES ASSUME TypeOK, Prepared, Owing, Follows, [Next]_vars PROVE Follows'
  OBVIOUS
<1>1. ASSUME UNCHANGED <<stored, cached, owed, apart>> PROVE Follows'
  BY <1>1 DEF Follows, IsBehind
<1>2. ASSUME NEW r \in Runs, RunSteps(r) \/ Cancel(r) PROVE Follows'
  <2>1. CASE at[r] = "commit" /\ CommitSettings(r, copy[r])
    <3>1. copy[r] \in Settings
      BY <2>1 DEF Prepared, TypeOK, CopyOf
    <3> QED
      BY <2>1, <3>1, FollowsCommit
  <2>2. CASE PublishSettings(r)
    BY <2>2, FollowsPublish
  <2>3. CASE UNCHANGED settings
    BY <1>1, <2>3 DEF settings, setup
  <2> QED
    BY <1>2, <2>1, <2>2, <2>3 DEF RunSteps, ReadAccess, CreateConfig, Join, OpenOrShare, Await,
       KeepCredentials, SetGlobalSettings, Cancel
<1>3. ASSUME NEW p \in Pages, SavePage(p) PROVE Follows'
  <2>1. page[p] \in Settings
    BY <1>3 DEF SavePage, TypeOK
  <2>2. PICK s \in Settings : CommitSettings(p, s)
    BY <1>3, <2>1, EnteredFits, SettingsType DEF SavePage
  <2> QED
    BY <2>2, FollowsCommit
<1>4. ASSUME NEW p \in Pages, OnSettingsSaved(p) \/ OpenPage(p) PROVE Follows'
  BY <1>1, <1>4, FollowsPublish DEF OnSettingsSaved, OpenPage
<1>5. ASSUME NEW c \in CAs, FlightSteps(c) PROVE Follows'
  BY <1>1, <1>5 DEF FlightSteps, LookForAccount, ResolveCredentials, Register,
     SaveAccount, settings, setup
<1>6. ASSUME NEW a \in Accesses, EditAccess(a) \/ DeleteAccess(a) PROVE Follows'
  BY <1>1, <1>6 DEF EditAccess, DeleteAccess, settings, setup
<1>7. CASE Restart
  BY <1>7 DEF Restart, Follows
<1>8. CASE UNCHANGED vars
  BY <1>1, <1>8 DEF vars, settings, setup
<1> QED
  BY <1>2, <1>3, <1>4, <1>5, <1>6, <1>7, <1>8 DEF Next

\* Once nobody is between the commit of the settings and their publication,
\* the cache every reader uses is the row, unless two writers crossed.
THEOREM CacheFollowsSettings == Spec => [](IsBehind \/ apart \/ cached = stored)
<1>1. Init => Follows
  BY DEF Init, Follows
<1>2. AccountsInv => TypeOK /\ Prepared /\ Owing
  BY DEF AccountsInv
<1>3. Follows => IsBehind \/ apart \/ cached = stored
  BY DEF Follows
<1> QED
  BY <1>1, <1>2, <1>3, InitInv, InvStep, FollowsStep, PTL DEF Spec
===============================================================================
