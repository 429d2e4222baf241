# A formal model of certimate

certimate keeps TLS certificates fresh: workflows, started by hand or by cron,
request certificates from an ACME CA, deploy them to providers and notify people.
It is one Go process on PocketBase (SQLite), with a child process per certificate
order; a React UI talks to it over HTTP. This directory models it in TLA+, checks the
models with TLC on small instances, and proves the main results with TLAPS for every
value of the constants.

## Inventory

Paths are under `internal/` unless they begin with `pkg/`.

| Part | State | Operations | What is hard | Module |
|---|---|---|---|---|
| workflow dispatcher (`workflow/dispatcher`) | `pendingRunQueue`, `processingTasks`, `booted`, one lock | Start, Cancel, Bootup, Shutdown, tryNextAsync, tryExecuteAsync | goroutines that read under one lock and act under another; executors that write rows without it; crashes | `WorkflowDispatcher` |
| workflow service (`workflow/service.go`) | none of its own | InitSchedule, StartRun, CancelRun, cleanupHistoryRuns | its guards read columns that lag behind | `WorkflowDispatcher`, `CronJobs`, `CertificateRenewal` |
| run repository (`repository/workflow_run.go`) | rows of `workflow_run`, last-run columns of `workflow` | Save, SaveWithCascading, ResetStatusIfHanging, DeleteWithExprs | rows saved whole, from copies | the same |
| engine and control nodes (`workflow/engine`) | the recursion over the graph, variables, logs | executeNode, executeBlocks, an executor per node type | errors joined, wrapped, swallowed at each level; panics; a context canceled anywhere | `WorkflowEngine` |
| conditions (`domain/expr`) | none | Eval | types, comparisons, values that are not boolean | `Conditions` |
| apply, deploy, notify (`executor_biz*.go`) | rows of `certificate` and `workflow_output`, variables of a run | reuse or request, skip or deploy, skip or notify | decisions taken from what earlier runs left, while it changes | `CertificateRenewal` |
| certificate service (`certificate/service.go`) | rows of `certificate` | RevokeCertificate, cleanupExpiredCertificates | a row read, the CA asked, the whole row saved | `CertificateRenewal` |
| ACME accounts (`certacme`) | rows of `acme_account`, a singleflight group | register, look up, write EAB credentials back | a call shared by runs that may be canceled separately | `AcmeAccounts` |
| settings (`settings`) | a cache of the rows of `settings` | read, save, hooks after each save | order of hooks and transactions; read-modify-write | `AcmeAccounts`, `RecordMirror` |
| cron hooks (`workflow/pbhook.go`, `scheduler`) | the scheduler's jobs | add or remove a job after each save, register all at the start | order of hooks | `CronJobs`, `RecordMirror` |
| certificate orders (`certacme`, `tools/mproc`) | a child process per order, TXT records or files | present, solve, clean up, finalize, answer | a challenge, a child or an answer lost half way; orders that share a name or a process | `CertificateOrders` |
| challengers (`certacme/certifiers`, `pkg/core/certifier/challengers`) | identifiers of what they created | Present, CleanUp | what CleanUp can find again | `Challengers` |
| certificate managers (`pkg/core/certmgr`) | entries of the provider's store | Upload, Replace | searched, added and confirmed in several requests | `CertificateStores`, `CertificateUpload` |
| deployers (`pkg/core/deployer`) | the targets in the provider's account | Deploy | listings, loops with joined errors, read-modify-write, jobs, retries after a half-done deployment | `DeploymentRoutes`, `CloudDeployers`, `ServiceDeployers`, `Deployment` |
| migrations (`migrations`, at the top) | every row there is | 16 files, once each | renamed files, data written by every release since v0.3 | `Migrations`, `StoreUpgrade` |
| notifiers, SDKs, FTP/S3/SMTP/SSH clients, REST, UI | none that matters here | adapters | pure I/O | none |

How they meet: a request or a cron job calls `WorkflowService.StartRun`, which saves a
pending row and gives its id to the dispatcher. The dispatcher claims the row and runs
the engine in a goroutine; the engine calls the node executors and reports through hooks
(`OnEnd`, `OnError`), in which the dispatcher saves the final status. Node executors talk
to each other only through the variables and inputs of their run, and to earlier runs
only through the database. An apply node gets an account (`AcmeAccounts`) and then orders
(`CertificateOrders`); a deploy node runs a deployer (`Deployment`), most of which upload
first (`CertificateUpload`). A user's cancellation reaches a node only as a context that
is done.

Where each part could go wrong is listed, at its line, under `hazards` in `PROJECT.json`
with the properties about it.

## Modules

    WorkflowDispatcher                          <- MCWorkflowDispatcher,  ...Proofs
    WorkflowEngine     implements RunReport     <- MCWorkflowEngine,      ...Proofs
      Conditions (evaluated with MCWorkflowEngine)
    CertificateRenewal                          <- MCCertificateRenewal,  ...Proofs
    AcmeAccounts       implements RecordMirror  <- MCAcmeAccounts,        ...Proofs
    CertificateOrders  runs Challengers         <- MCCertificateOrders,   ...Proofs
    CertificateStores
      CertificateUpload implements UploadContract <- MCCertificateUpload, ...Proofs
    DeploymentRoutes
      CloudDeployers, ServiceDeployers
      Deployment       runs their routes        <- MCDeployment,          ...Proofs
    CronJobs           implements RecordMirror  <- MCCronJobs,            ...Proofs
      Migrations, StoreUpgrade (evaluated with MCCronJobs)

Interfaces are narrow. The dispatcher sees of an execution only its result
(`EngineReturn`), which `RunReport` promises. The engine sees of a work node only whether it
returns, fails, times out, hands on another run's cancellation, panics or logs an error,
and of a condition whether it is true, false or an error, which `Conditions` says of each
expression. The renewal sees of
the other two that runs follow one another, may be canceled while inside a node, and may
die with the process; of an order or a deployment that it succeeds or fails, with
`CertificateOrders` and `Deployment` saying when. `Deployment` takes an upload as one
step that may fail, be lost or store the certificate: that is `UploadContract`.

### WorkflowDispatcher

Goroutines are modelled by kind. `request[r]` is the place of the StartRun request that
creates run `r`; `tryNext` counts tryNextAsync goroutines before their scan and
`selected[r]` those that chose `r` but have not taken the write lock yet
(`dispatcher.go:350-352`); `task` holds the executors; `cancel` the CancelRun request
that holds the lock. Every critical section is one action, except Cancel's, which
reads and saves rows that executors also write: it has three.

| Code | Actions |
|---|---|
| `StartRun`, `Start` | `StartRun` (guard), `CreateRow`, `Enqueue` |
| `tryNextAsync` | `Scan` (under RLock), `Dispatch` (under Lock) |
| `tryExecuteAsync` | `ReadRun`, `ClaimRun`, `LoadWorkflow`, `EngineReturn`, `ReportResult`, `ExitTask` |
| `CancelRun`, `Cancel` | `CancelRun`, `CancelReadWorkflow`, `CancelSave`, `CancelRemove` |
| `Bootup`, `Shutdown`, `main` | `Bootup` (with `ResetStatusIfHanging`), `Shutdown`, `Exit` (also a crash) |
| record deletion hook | `DeleteWorkflow` |

`Dispatch` does not look at the queue again, because the code does not; `ExitTask`
deletes the map entry of its run, whoever's it is. Run ids are numbers in the order
of `StartedAt`.

### WorkflowEngine, RunReport and Conditions

The recursion is a stack of frames, one per loop over the blocks of a node. `pc` says
where the innermost loop is; `ret` is the error it returns: the set of what
`errors.Is` finds in it. `Cancel` and `LogError` may happen at any moment. The graph
is a constant: any finite tree of node kinds. A node's own error may wrap
`context.Canceled` although its run goes on, when it shared a registration at the CA
with a run that was canceled (`certacme/account.go:109`): `faults` remembers that.
`starts`, `late`, `failed` and `faults` are history variables.
`RunReport` is the abstract specification: an execution
reports once, and the report is explained by what happened. `ReportIsExplained` is
the refinement, with `done`, `faults` and `outcome` mapped to themselves.

`Conditions` is the evaluator, as a function from an expression and the variables to a
value or an error, with Go's boolean and text values told apart. Its assumptions compare
it, over all comparisons of values of every declared type and their conjunctions,
disjunctions and negations two levels deep, with what the condition means.

### CertificateRenewal

Each run has an executor with its own copy of the graph. Rows of `workflow_output` are
sets of records with the time they were created at; which one a query returns is
`Latest`. A certificate is found as the code finds it: through the run of the last
output. A row is saved whole from a copy (`SaveCopy`), which undoes what was written
since the copy was read, and fails if the run it names is gone. The world outside,
what each target really has, is `deployed`.

| Code | Actions |
|---|---|
| `bizApplyNodeExecutor.Execute` | `ApplyLookup`, `ApplyDecide`, `RequestCertificate` or `RequestFails`, `SaveRenewed` |
| `bizDeployNodeExecutor.Execute` | `DeployDecide` or `DeployLacksInput`, `Deploy` or `DeployFails` |
| `executeNode` after a node | `SaveApplyOutput`, `SaveDeployOutput` |
| `bizNotifyNodeExecutor.checkCanSkip`, `OnEnd` | `Notify` |
| `OnError`, `executeBlocks` | `Over`, `NoticeCancel` |
| dispatcher, process | `StartRun`, `Cancel`, `Crash` |
| `RevokeCertificate` | `RevokeRead`, `RevokeSave` |
| retention | `CleanupRuns`, `DeleteCertificate` |
| users, time | `EditApply`, `EditDeploy`, `BecomesDue` |

Simplifications: creation times are distinct; `ApplyLookup` and `ApplyDecide` are two
steps because other runs may save between these two reads, while the two reads of
`DeployDecide` are one, since what could come between them only turns the first into
an error; `CleanupRuns` deletes its rows in one step; the notify node has
SkipOnAllPrevSkipped set. A certificate's configuration is the whole list of items
`checkCanSkip` compares, as one value. Changes of other items, and deletions of single
runs in the UI, are left out.

### AcmeAccounts and RecordMirror

What an apply node does before it orders. `flight[c]` is the singleflight call for the
account of CA `c`, which works under the context and with the configuration of the run
that came first; `access` are the access records, `stored` the settings row and `cached`
what everybody reads of it; `owed` is a publication: a saver has committed a row and has
not replaced the cache yet. A node may be of no use by itself (`unfit`: no usable key, no
record of its challenge provider, no e-mail), the e-mail may be no address (`badMail`), the
CA's record deleted (`deleted`), and options may be such that they cannot be decoded or give
no directory (`Unusable`).

| Code | Actions |
|---|---|
| `executeObtain`, `CreateACMEConfig` | `ReadAccess`, `CreateConfig` |
| `acquireACMEAccount` | `Join` (`OpenOrShare`), `Await` |
| `registerACMEAccount` | `LookForAccount`, `ResolveCredentials`, `Register`, `SaveAccount` (each answers all who wait if it fails) |
| EAB credentials written back | `KeepCredentials`, `SaveGlobalSettings` (commit), `SetGlobalSettings` (publish) |
| settings page, settings hooks | `OpenPage`, `SavePage`, `OnSettingsSaved` |
| access page, cancellation, process | `EditAccess`, `DeleteAccess`, `Cancel`, `Restart` |

`RecordMirror` is the abstract specification of record hooks: rows, a mirror of them in
memory, writers that commit and then publish, in any order of each other. It says when
the mirror is what the row asks for: once nobody owes a publication, unless two
publications crossed. `AcmeAccounts` implements it with the settings row and the cache,
`CronJobs` with the workflow rows and the scheduler's jobs.

### CronJobs

A request commits a workflow row (`SaveWorkflow`) and later runs the hook with the record
it saved (`OnWorkflowSaved`); a job fires in a goroutine (`Fire`), which starts a run
(`StartRun`) or is refused (`RefuseRun`: the row is gone, holds no valid graph, or the
database fails) and fires again;
`InitSchedule` registers the jobs of all rows at a restart, or none if the rows cannot be
listed. A cron expression is one the scheduler parses or not.

### CertificateOrders and Challengers

`Challengers` has one definition for each of the challenger packages: how its CleanUp
finds what Present made (by the value, by an identifier kept under the challenge's token,
or under that and the zone's), whether it merges the values of one name in one record,
whether lego presents all challenges of an order first, and whether the node's
propagation timeout is passed on. `CertificateOrders` runs any of them: orders start
(`Start`, in a child process or in the server's), are accepted, refused or not accepted as
replacement of the old certificate (`OrderCertificate`), go through their
challenges in batches (`PickBatch`, `Present`, `Solve`, `CleanUp`), end (`Finalize`) and
answer the node (`Answer`). A child or the server may die anywhere and a request be
refused or its answer lost; a cancellation is noticed only in the server's process, since a
child does not hear of it. lego and the CA are external. `inForce` is what lego reads at
every challenge: with `CERTIMATE_WORKFLOW_MULTIPROC` off all orders share it.

### CertificateStores, CertificateUpload and UploadContract

`CertificateStores` describes each certificate manager by how it looks for a certificate
it has, how it compares, what it does if the service knows the certificate or the
request fails, whether it confirms. `CertificateUpload` is the machine: uploaders that
overlap, pages of a listing that may shift while entries are added and removed, details
requested one by one, additions whose answer is lost. `UploadContract` is what a deployer
may rely on: an upload fails, or answers an entry that held this very certificate.

### DeploymentRoutes, CloudDeployers, ServiceDeployers and Deployment

A deployer is a set of routes, one per way its configuration can send it: how it
uploads, lists and picks its targets, loops over them, and which steps an update has
(read, write back, set, attach, look up what to detach and detach it, submit a job and
await it, ...). `Deployment`
interprets a route, against an account that may refuse a request, serve it or a part
of it and lose the answer, whose jobs fail, and whose user removes targets, edits settings
and binds certificates of his own; the deployment may be canceled, the program stop, and
a later run deploy again. A reading is kept in `copy`, so that writing it back undoes
what came between. `halfway` remembers the targets on which an update has ended between
adding the new certificate and removing the old, or did not find the old one.

### Migrations and StoreUpgrade

An upgrade runs once, in one transaction, before anything else: there is nothing to
interleave, and the modules are operators with assumptions that TLC evaluates
for the start of `MCCronJobs`. `Migrations` has the order of the files and their former names,
and what each does to the nodes of graphs and outputs; `StoreUpgrade` the columns, the
values that changed their meaning, access records, accounts and settings, the
conversion of v0.3's trees to graphs of blocks, and the identifiers of nodes. The
assumptions say that each change is made exactly once from any release, that every
setting a user had made is found under a name this release reads, that rows get the
columns of a new installation, and that the graphs carry out the nodes that the trees
did, whichever of them fail.

## Runs

`CHECK_DEADLOCK FALSE` is set where the number of runs, orders or edits is bounded: a
system with nothing left to do stops.

| Run | Distinct states | Shows |
|---|---|---|
| `dispatcher_crash` | 3.1 M | two runs of one workflow, both cancelable, which may be deleted with it, one stop and restart anywhere: no wakeup is lost, map entries belong to live executors, active rows have an owner, last-run columns say what the row says and never go back, finished rows stay |
| `dispatcher_live` | 655 k | under fairness every run that got a row finishes, whatever is canceled |
| `engine` | 161 k | a condition with an End node in a branch and a TryCatch, both inside a TryCatch whose catch block ends the run, and a disabled node; and that conditions mean what they say |
| `renewal_faults` | 2.6 M | three runs one after another under any four failures, crashes, edits, expiries, revocations, deletions |
| `renewal_overlap` | 1.9 M | executors that overlap after a cancellation, and retention; the inductive invariant |
| `accounts` | 431 k | two runs, one by an access record and one by the global settings, a page, an edit or a deletion, unusable options, nodes and e-mails, a fault, a cancellation and a restart: one account, the right credentials, a cache that mirrors the row, a reason for every failure, an answer for everybody |
| `orders` | 2.0 M | two orders, one with the name's wildcard, through every challenger, in child processes or in one: what is left behind, why an order fails, what the node hears |
| `upload` | 848 k | two overlapping uploads and a retry through every manager that looks at its errors: the contract, and no needless second entry |
| `deploy` | 2.2 M | every route of every deployer, twice, with one fault and one act of the user, a cancellation or a crash anywhere |
| `deploy_live` | 264 k | every deployment ends |
| `jobs` | 126 k | two requests that save one workflow four times, their hooks in any order, a restart and refused starts: jobs mirror rows, and what stays scheduled with a valid graph runs again and again; and what an upgrade promises |
| `viol_zone_forgotten` | (stops) | the one violation below that a run is kept for |

**Bounds.** *Dispatcher*: two runs, two executors at once (`MaxTasks`), one
restart (`MaxRestarts`), the results an execution may have (`Results`), the runs and
workflows users act on (`Cancelable`, `Deletable`). Two runs of one workflow and one
worker are what every race of the dispatcher needs: two scans that choose the same
run or two runs of one workflow, a Cancel between, an executor that ends between.
Two executors allow a second dispatch of the same run. The proofs have no bound. *Engine*:
the graph contains each kind of node, loops nested four deep, and an End node in a branch,
in a catch block and at the end; faults and the cancellation are unbounded. *Renewal*: three
runs, three certificates, four events: one run to leave rows, one to be disturbed, one to
be misled by what the disturbed one left. The constant `Events` keeps each run to the kinds
of events its properties are about. *Accounts*: two runs share or not share a CA, which the
settings' provider decides; one edit, one fault and one restart each are enough for a flight
to lose its leader, its answer or its row, and for two publications to cross (`page` and a
run), and at most one node or e-mail of no use (`MCInit`).
*Orders*: a name and its wildcard share the name of their TXT record, which is where
challengers get confused; two orders share a name, a zone and perhaps a process; one
fault. *Upload*: three entries, one to a page, so that a listing has several pages and may
shift; two uploaders and three uploads, so that a retry meets an overlapping one; one removal.
*Deployment*: three targets, two to a page or a chunk, so that there is a second page
and a chunk with two; a second deployment, since most hazards are what the first left; one fault
and one act of the user (`deploy_live`: two targets, one to a page, one attempt).
*Jobs*: crossing takes two requests, and four saves let either one save again before the
other's hook has run; the workflows are independent, so one is enough.

Symmetry is used in `deploy` and `upload`, which check safety only, on targets, uploaders and
entries, which the modules treat alike. `MCDeployment` starts with targets outside the
configuration that have the certificate they were given, and with at most one target that has a
certificate for other names (a user may bind one later); `MCCertificateOrders` with a first
order whose setting differs from lego's default, and of the ways to wait those that tell
challengers apart.

**Fairness.** `Spec` has none, and all safety properties are checked without, except that
`jobs` and `accounts` use their `FairSpec` throughout. The dispatcher's `FairSpec` is
fair to each goroutine's steps: Go schedules every runnable goroutine, `sync.RWMutex` starves
no waiter, and the work of a node is assumed to end. It is not fair to users, crashes,
shutdowns or Bootup. The concurrency limit is at least one because `dispatcher.go:27-30` sets
it so unless told otherwise. The engine's is fair to `Step`: its goroutine runs and its nodes
return. That of the accounts is fair to each run, to each flight and to the hook of a
committed request: HTTP clients have timeouts. That of the cron jobs is fair to the hooks, to
time (`Fire`) and to the goroutines it starts. That of the deployment is fair to the program and
to the jobs of the service, which end or fail; `EveryDeploymentEnds` excepts the one deployer
whose listing never sends the page number, unless it is canceled.

**Where a property needs its run.** `PassedIsDeployed` is checked and proved
without `cancel`, `cleanup` and a change of provider, because with these it is false, as the list below
shows. `RequestsAreNeeded` is checked and proved for runs that do not overlap: a run that starts while
its predecessor is still requesting has nothing to reuse. `KeepsContract` is checked and
proved for the managers that look at their errors: those of ucloud-ulb and ucloud-upathx do
not look at the error of the adding request and answer an empty identifier (`UncheckedKinds`).

## What the code does otherwise than it says

`viol_zone_forgotten` shows that dynv6, linode and conohavpsv3 forget the identifier of a zone
with the first record they delete in it (`PresentedZonesAreKnown`): the wildcard's record stays.

The following properties state what the repository says of itself and are false of the model,
as they are of the code. They are defined in the modules; naming one in a copy of a cfg, with
the constants given here, makes TLC show how.

| Property | Cfg to start from | What TLC finds |
|---|---|---|
| `OneRunPerWorkflow` (`dispatcher.go:337`) | `dispatcher_crash`, Concurrency = 2 | two tryNextAsync goroutines dispatch two runs of one workflow: the read lock is given back at `:350` and the write lock taken at `:352` without looking again |
| `NoRunHangsAfterBootup` (`workflow_run.go:160`) | `dispatcher_crash` | ResetStatusIfHanging resets `workflow` twice and `workflow_run` never (`:176`) |
| `CanceledIsFinal` (`dispatcher.go:173`) | `dispatcher_crash` | an executor overwrites the status of its canceled run from its own copy (`:228`, `:254`-`:266`) |
| `SkippedIsDeployed` (`executor_bizdeploy.go:136`) | `renewal_faults`, DeployConfigs <- TwoProviders | a deployment to a new provider of the same access record is skipped as completed (`:128`) |
| `SkippedNoticeHidesNothing` (`executor_biznotify.go:105`) | `renewal_faults`, DeployConfigs <- EagerSite | a deployment repeated although nothing changed is not notified (`executor_bizdeploy.go:72`) |
| `RevokedStaysRevoked` (`executor_bizapply.go:127`) | `renewal_faults` | a revocation is undone by the save of the ARI flag, whose row was read minutes before (`:130`) |
| `SameNamesAreRemoved` (`ucloud_ualb.go:285`) | `deploy`, Routes <- UalbRoutes | after an update that failed half way, the next deployment finds the new certificate bound and leaves the old one bound for good (`:227`); nor is one removed that could not be looked up (`:278`) |
| `SettingsAreKept` (`aliyun_waf.go:347`) | `deploy`, Routes <- WafRoutes | the default settings are read to be written back, but TLS 1.3 is taken from the reading only where it is nil (`:351`), and is switched on otherwise |

The models show more of this kind:

* a run selected twice, or canceled after it was selected, is dispatched all the same, so
  that its executor finds it not pending (`dispatcher.go:230` calls that impossible);
* Cancel frees the slot of an executor that is still inside a node, so that more runs
  execute than the limit (`dispatcher.go:347`, `:171`);
* a manual start is accepted while a run of the workflow waits in the queue, because
  `Save` of a pending row does not touch the columns `service.go:83` reads;
* a canceled run that is still deploying saves its output after the next run's
  certificate was created, and that run skips its deployment;
* a run that ends with a timeout is saved as canceled without `endedAt`, and an empty one is
  before any date, so retention deletes the run and its outputs at once; an older
  certificate is then used again and its deployment skipped;
* the hooks of two saves may cross, after which the settings cache or a cron job differ from
  the row until the next save or restart (`apart` in `RecordMirror`);
* a run that writes its EAB credentials back saves the whole access record, or settings, as it
  read them: what a user saved meanwhile is lost;
* a canceled run's child process goes on working and its answer is awaited; children outlive
  a server that dies;
* with `CERTIMATE_WORKFLOW_MULTIPROC=false` concurrent orders share the resolver and
  `LEGO_DISABLE_CNAME_SUPPORT`, and one's setting decides where the other's records go;
* a bare boolean variable as the whole condition always enters its branch, as its text is
  compared with Go's `false` (`executor_condition.go:84`); an expression that cannot be parsed is no
  condition at all (`domain/workflow.go:126-141`); neither "and" nor "or" stops early;
* an End node in a catch block inside a branch leaves out the branches after it
  (`executor_condition.go:37`);
* volcengine-cdn and byteplus-cdn grow the page size instead of the page number, jdcloud-alb never
  sends it, tencentcloud-scf grows its offset by one, ksyun-cdn lists all domains first and does not
  use them, aliyun-cas-deploy takes any end of its job for success;
* aliyun-waf writes the list of a cloud resource's port back without the certificates that are not
  synced yet or have expired, whoever bound them (`aliyun_waf.go:291`), and fails where the port has no
  certificate (`:202`);
* a run that shares another one's registration at the CA is failed by that one's cancellation, and
  saved as canceled (`certacme/account.go:109`, `dispatcher.go:259`);
* a scheduled workflow without a valid graph keeps its job, which is refused each time it fires
  (`service.go:85`);
* the http01 `ssh` challenger ignores UseSCP; lightsail and netcup ignore the TTL of records; acmedns
  passes no propagation timeout and leaves a file with its credentials; ctcccloud polls without a pause;
* the upgrade from before v0.4.5 leaves baishan-cdn and ksyun-cdn nodes without `deployTarget`,
  whose deployments then fail (`baishan_cdn.go:95`, `ksyun_cdn.go:88`), since their cases in the
  migration are empty and Go's do not fall through; outputs keep the names of before v0.4.23, and those of
  hostingDE the old name of the provider, so such nodes deploy, or request, once more; the node a deploy
  node refers to is not normalized by v0.4.0 where its identifier was; the repository reads a column
  `updated` of logs that is not there.

## Proofs

TLAPS proves every safety property that a run checks, for all values of the constants: 46
theorems, of which 35 state a property of a run. They assume what the modules' ASSUMEs say of the
constants, and three of them something more, which their statements name: `KeepsContractHolds`
that managers look at their errors, and the last two of the renewal that runs do not overlap. What
an ASSUME demands beyond the type of a constant is this:

* *Engine*: the graph is a tree (`TreeAssumption`) whose branches are below conditions and whose try
  and catch blocks, one and then any number, are below TryCatch nodes (`ShapeAssumption`). A graph is
  decoded from JSON in which blocks contain their blocks (`domain/workflow.go`), and the editor makes these
  shapes only (`ui/src/domain/workflow.ts`). `Subtree` is a recursive function of the module; that it
  satisfies its equations is part of the assumption, because the provers have no induction over data.
* *Deployment*: there are finitely many targets (`TargetsAssumption`), and routes are within the
  vocabulary that the deployers of the repository use (`RoutesAssumption`, `StepsAssumption`): an update
  gives the certificate or waits for a job that does, what is written back was read, what is removed was
  replaced, and nothing but looking up comes between adding and removing. TLC
  evaluates them over the routes of all deployers.
* *Uploads*: an account has finitely many entries.

The arguments:

* **Dispatcher**: `DispatcherInv` is inductive. The wakeup, ownership and
  liveness-of-entries properties are not inductive alone: that an entry of
  `processingTasks` is live needs that a run id is in the queue at most once and that
  nothing of a run reaches the dispatcher before its request hands it over
  (`PipelineOK`); that an active row has an owner needs what each program counter
  promises (`PcOK`, `CancelOK`) and that no request survives the process (`DownOK`).
  Theorems: `TypeCorrect`, `WakeupsAreNotLost`, `ProcessingTasksAreLive`,
  `NoRunIsOrphaned`, `NoWorkflowIsBlocked`, `LastRunColumnsAgree`, and the action properties
  `LastRunIsMonotonic`, `FinishedRunsStayFinished`: for any number of workflows, runs,
  workers and restarts.
* **Engine, errors**: `EngineInv` is inductive for every graph. Its core is
  that an error on its way is grounded in what went wrong, in this run or in one whose work it
  shared (`ErrorsAreGrounded`), that the
  logs know of every fault, so that an End node hides none (`LogsKnowFaults`), that
  once only the cancellation has been logged no End node can run any more
  (`CancellationIsOnItsWay`), and that the loops on the stack are nested as the graph is
  (`LoopsAreNested`). Theorems: `EngineInvariant`, `CancellationIsNoticed`
  (its own invariant, `LateInv`: a node started late was chosen before the cancellation,
  and no node is chosen after it), and the refinement `EngineImplementsRunReport`.
* **Engine, traversal**: one lemma (`StepKinds`) says what each step does to the loops: nothing, go on to the
  next block, enter a node, or hand its error to the loop around it; the invariants below follow each
  kind. `LoopInv`: a loop has started none of the blocks ahead of it, and nothing below a node starts
  before the node, so `NodeRunsOnceHolds`. `EndStops`: an End node's error is on its way through every
  loop around it, which gives `NothingAfterEndHolds`. `TreeInv`: the loops on the stack are exactly those of
  the nodes around the current one. From it `ErrorInv`: an error comes from a node below the loop that
  has it (`ErrorsComeFrom`), and a failure below a loop shows there (`FailuresShow`) and has not been
  dropped by a loop in between. `CatchRan`, `Settled`, `Onward` and `Answers` then say of each pair of
  successive blocks what the loop owes them at each place, up to `NothingIsSkippedHolds` and
  `CatchAnswersTryHolds`. `NameInv` follows the variable error.nodeId from the node that fails to the catch
  block (`CatchKnowsItsErrorHolds`): no node that starts in between may set it anew.
* **Renewal**: `RenewalInv` is inductive. Outputs and
  certificates are tied through the run both name: a run's configuration does not
  change once it has started, so what it requested (`RequestedOK`) and what it left as an
  output (`OutputsOK`) agree, and an executor that found an output alike
  (`ExecOK`) knows the configuration of that run's certificate, even if rows were
  deleted since. Theorems: `RenewalInvHolds`, `TypeHolds`, `CertificateFitsConfigHolds`,
  `OutputsLeadToCertificatesHolds`: for any runs, overlaps and number of events.
* **Renewal, one run after another**: two theorems assume that no run is canceled (`"cancel"` is not
  among `Events`), so that one executor is at work at a time (`Alone`). `SequelInv`: the output of
  the run that requested the newest certificate is the last output (`NewestLast`), so that a run which
  looks finds that one (`KnowsNewest`) and, if it decides for a request, the certificate was of no use
  (`RequestsAreNeededHolds`). `PassedInv` assumes further that retention deletes nothing and that a
  place has one provider: a run hands on the certificate of the last output (`HandsOnCurrent`), and as
  long as the last deployment is younger than that certificate its target has it, whatever
  failed or crashed since (`LastIsInPlace`); hence `PassedIsDeployedHolds`. None of these
  assumptions can be left out: TLC finds a counterexample to each theorem when `Events` has the kind of
  event excluded, or when `DeployConfigs` is `TwoProviders`.
* **Accounts**: `AccountsInv`. A flight is led by a run that came for its CA and waits or was
  canceled, and past its first stage the CA has no row (`Flying`), so one account is not a matter of
  luck; what a run holds for a CA it keeps (`Prepared`), credentials belong to the CA of whatever holds
  them, copies on their way included (`Belonging`); who has been answered an error has a reason
  (`Answered`, `Demanding`), and so has who failed before asking (`Blamed`).
  Theorems: `AccountsInductive`, `AccountsAreShared`, `CredentialsFit`,
  `FailuresHaveCauses`, the refinement `CacheMirrorsSettings`, and `CacheFollowsSettings`.
* **Orders**: `OrdersInv`. While processes agree on their setting, records are where they belong
  (`InPlace`); an order's batch, what is left of it, what failed and where it has records
  fit its program counter (`Shaped`); without a fault, what has been cleaned up has no record
  (`Tidy`), no challenge fails (`Unfailing`), and the caller hears what happened (`Heard`). Theorems:
  `OrdersInductive`, `NothingStaysBehind`, `OrdersSucceed`, `TheAnswerIsTrue`.
* **Uploads**: `UploadInv`: an entry that holds the certificate has held it (`Found`), an uploader
  that fills or confirms an entry has one (`Underway`). Each of the nine steps of an uploader is one
  of a few kinds (going on, failing, answering, adding), and only those are mapped. `Searched`
  adds what a search has seen: an entry that held the certificate since it began is on a page still to come or
  among the details still to be asked for, unless one was missed. Theorems: `TypeHolds`, the refinement
  `KeepsContractHolds`, and `AddsOnlyWhatIsMissingHolds`.
* **Deployment**: `DeploymentInv`: the bookkeeping of the loop, and that only what is meant is
  touched (`Confined`), which gives `OthersAreLeftAloneHolds`. `ChangeInv` adds what is known of the
  account between the steps of an update: after an attach a target holds more than the old
  certificate, certificates for other names are only where a target holds several, and jobs only
  where the route submits them. From it
  the action properties `NeverBareHolds` and `EditsAreLostToStaleReadingsOnlyHolds`.
  `UpdateInv` adds what an update has achieved: a reading is still true where nobody disturbed it
  (`ReadingIsKept`), a job has put the certificate where it is done (`JobsAndTargets`), and past its
  last giving step the round's targets have the certificate (`StepsSettle`). `OutcomeInv` carries that
  through the loop (`Loop`) and the listing (`AllListed`: every target is shown, still to be shown, or hidden)
  and knows why an update fails (`Missing`, `Causes`). `RetireInv`, for the routes that add before they
  remove: what an update holds of a target shows the replaced certificate as long as the target has it
  (`ReplacedIsRead`, `ClearedFirst`), so a target with both is being updated or was left halfway
  (`BothHalfway`). Theorems: `SuccessServesNewHolds`,
  `SuccessRetiresOldHolds`, `OneFailureSparesTheRestHolds`, `UndisturbedDeploymentSucceedsHolds`.
* **Cron jobs**: the refinement `JobsMirrorRows`, and `JobsFollowRows` from the invariant `Follows`
  (the last commit's publication is still owed, or done, or it crossed).

Only model-checked: liveness (`EveryRunFinishes`, `EveryExecutionReports`, `EveryRunIsAnswered`,
`ScheduledWorkflowsRun`, `EveryDeploymentEnds`), which is out of this prover's reach, as are ENABLED,
induction over data and recursive operators; and the assumptions of `Conditions`, `Migrations` and
`StoreUpgrade`, which are facts about constants that TLC evaluates.

## Not modelled

* The dispatcher's recovery of its own panics (`dispatcher.go:194-208`), a node type without
  executor (`engine.go:145-148`), `GetStatistics`, log rows; a failing database, save where a
  row is gone or a module has a fault for it; that SaveWithCascading reads the row before its
  transaction.
* The upload node decides like the apply node, but a second way to skip sets no variable; the monitor
  node keeps nothing. Parsing of expressions; the variables about validity dates.
* The settings of how long data is kept, and the deletion of a settings row.
* The names and alternative names that migrations recompute from stored certificates, index definitions,
  the first superuser, the deletion of notification settings and of local and buypass access records.
* Requests and their signatures, provider SDKs, notifiers, clients for FTP, S3, SMTP and SSH, the REST
  binding, the UI: pure I/O or data. The addresses and key types of the CAs.
* Deployers that make one request for one target are `One` routes; what the request says is data.

## Plan

Done, in this order: `WorkflowDispatcher`, `WorkflowEngine` with `RunReport`, `CertificateRenewal`;
the certificate managers and deployers; `AcmeAccounts` and `CronJobs` with `RecordMirror`; the challengers and
orders; `Conditions`; the migrations; and the proofs above.

Worth doing next: the renewal with `CertificateOrders` and `Deployment` in place of its one-step request
and deployment, as refinements of them; `RunLifecycle` (pending, processing, finished) as an
abstract specification of the dispatcher for runs that are not canceled; the upload node as a second
source of certificates.
