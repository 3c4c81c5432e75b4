# A TLA+ model of rayctl

rayctl is a command-line client of an AI-cluster platform. One invocation runs one
command, which reads platform and Kubernetes APIs (often many at once), sometimes changes
something there after a question, and keeps a few files on the user's machine. Nothing is
a server; what makes the program hard is

- the goroutines inside a command, and the HTTP transport they all share;
- several rayctl processes of one user on the same files;
- the platform, its controllers and other users, who move while a command reads, asks,
  writes and waits;
- Ctrl-C, kills, timeouts and answers that never come, between any two of these steps.

The modules of this directory model the parts where these four meet: what every command
stands on, everything that decides from many answers, and every command that changes
something. TLC checks them on small instances, and TLAPS proves most of what it checks for every value of the
constants (eight modules of proofs, section 4). `PROJECT.json` lists the runs, the source lines each
definition stands for, a mutated definition that breaks each property, the hazards and the theorems.

    tlc -config MCTransport.cfg MCPlatformTransport     # a run
    tlapm PlatformTransport_proofs.tla                  # the proofs of a module

## 1. Inventory

### Layers

| layer | directory | what it does |
|---|---|---|
| entry | `main.go` | a context that SIGINT and SIGTERM cancel, passed to everything below |
| commands | `cmd` | flags, prompts, exit codes; calls one service |
| services | `internal/service` | one operation each: query, join, prepare, confirm, apply, wait |
| clients | `internal/platform`, `internal/kube` | URLs, JSON, paging; the transport with its budgets and retries |
| helpers | `internal/concurrent`, `nodeexec`, `nodehealth`, `podevidence`, `metrics`, `session` | worker pool, commands on nodes, checks, evidence, PromQL, logins |
| output | `pkg/output`, `pkg/timeutil` | tables and JSON |

Calls go downward only. State that outlives a call is in four places: the transport's
per-origin budgets, the node executor's cache (both in one process), the files
`platform.json`, the session file and `vc renew`'s output root (shared by processes), and
the platform itself.

### Components

| component | state | operations | what is hard | what makes it correct |
|---|---|---|---|---|
| HTTP transport and retry loop (`http_throttle.go`, `http_client.go`) | slots, cooldown, next, slowUntil per origin; attempt and deadlines per call | admit, answer, 429, retry, close body | every goroutine shares a budget; 429s arrive in any order; instants are read before a sleep and used after it | slots are never lost; no request inside a Retry-After; recovery is paced; only GETs repeat; every call returns |
| Bounded map (`concurrent/map.go`) | index channel, results | Map | lock-free results, an unbuffered channel | every input called once, every result in place, at most Width at a time, Map returns |
| Node executor (`nodeexec/executor.go`) | podByNode, lookups | Run | a shared lookup with leader and followers, contexts that end, pods that are replaced | one lookup per node, answers reach the right node, nobody waits for ever |
| Node health (`nodehealth/service.go`) | jobs and results channels, reports | Run, runNode | feeder, workers, closer and collector against an interrupt | a success covers every node; nothing still runs at return; no report is read half-written |
| VC renewal (`service/vc_renew.go`) | kubeconfig files, lock file, manifest | RenewVCKubeconfigs | users edit files and VCs change while it works; a question; kills; two runs | never overwrites; removes only what was shown, confirmed, unchanged and absent from a complete inventory |
| VC inventory (`platform/vc_kubeconfig.go`) | offset, token, total, seen pages | listing of one profile | offset pages are no snapshot; truncated, repeated or empty pages | what it calls complete misses nothing that was there, and counts nothing twice |
| VC flavor update (`service/vc_config_update.go`, `vc_config_service.go`) | none of its own | prepare, confirm, apply, wait | lost answers, second reads, controllers that lag, statuses of an old generation | the outcome it reports is true; it sends what was shown; converged means converged |
| Configuration (`platform_config.go`, `cmd/cluster.go`) | `platform.json`, its lock | load, change, save | concurrent commands, kills, power loss; defaults filled in at load and saved | no lost update, no torn file, other profiles keep their secrets, addresses follow the cluster |
| Session store and login (`session/session.go`, `cmd/auth.go`) | session file, tokens of a profile and of its pair | login, logout, import, use | loaded and saved without a lock; tokens expire; one profile serves another | a session is lost only to an overlapping command; a token is never another environment's |
| IAM lists (`iam_pagination_client.go`) | pages by number, a second scan | collectIAMPages | lists that move between pages, equal timestamps, servers without totals | a list that is returned misses no entry that was there |
| Job lookup (`job_locate.go`, `job_get.go`, `job_availability.go`) | failures on the way | ate get | VCs of several profiles, then the cluster; failures, deadlines, a context that ends early | "not found" and "unavailable" only on complete answers |
| Profile fan-out (`profiles.go`, `profile_inventory.go`, the VC, SSP, network and ECS clients) | none | every query of several profiles | some profiles fail, some pages fail, tokens repeat | found, missing, guessed or refused only as the answers allow |
| Lists of newest jobs (`job_list.go`, `ssp_*_client.go`) | none | list with a limit or a point in time | pages by position while jobs come and go; failed jobs sorted by update | the newest are listed, and a cut list says so |
| Workload lookup (`ssp_job_service.go`, `ssp_aid_service.go`, `ssp_air_service.go`, `pod_locate_service.go`) | one region's inventory, shared | ait, aid, air and pod get | lookups that share an inventory under different timeouts | no wrong "not found", nobody waits for ever |
| Queues, their usage and nodes (`ssp_resource_service.go`, `ssp_queue_*.go`, `node_service.go`, `cmd/node.go`) | none | queue list, get, node usage; ws get; node list | several readings, one after the other, of things that move; one name for two objects | what is shown of a queue or node is its own; "free" is nobody else's |
| Metrics (`internal/metrics`, `cmd/metrics_resolver.go`) | a kubectl port-forward | memory, gpu, restarts | ambiguous workloads, counters that are reset, views of one card, a child process | of ambiguous workloads none is guessed, no restart and no card counts twice, kubectl does not outlive the command |
| Users, groups, logs (`user_service.go`, `auth_service.go`, `logs_service.go`, `cms_logs_client.go`) | none | auth check, auth user, user get, log and audit queries | filters that do not work, batches, parts that fail | permissions and members are whole and one's own; events name their user |
| Grants, RBAC, policies, VC nodes, cordon, creation (`auth_service.go`, `auth_ssp_service.go`, `rbac_service.go`, `policy_service.go`, `vc_service.go`, `node_service.go`, `job_create.go`, `afs_create_client.go`, `cmd/pvc.go`) | the platform's | prepare, ask, apply, report | what was shown changes before it is written; answers are lost; the platform works later | only what was agreed is sent, once (grants: as far as the names still mean the same); the report is true; others' changes stay |
| Job details, pod evidence, output, Kubernetes set-up | none | joins, rendering | data, not control | *not modelled* |

`PROJECT.json` has the complete list ("components"), with the reason for each part that is
left out, and the hazards with the line where each bites ("hazards").

### How they interact

Every platform call of every service is one `Begin ... Return` of PlatformTransport. Every
fan-out (profiles, regions, namespaces, VCs) is a BoundedMap around such calls; in JobLocate
it is composed with what is mapped. The checks of NodeHealth enter their nodes through
NodeExec, and NodeHealth is the composition of both. IAMPages reads from the server of
VCInventory, by page numbers. VCRenew receives what VCInventory calls complete, and the
assumption it makes about it is what the first finding is about. The readings of Readings
and the commands of Commands exclude each other in one invocation; the two files of Files
have no writer in common.

## 2. Modules

| module | models | notes |
|---|---|---|
| PlatformTransport | transport and retry loop | `Callers` requests at once; instants are countdowns driven by `Tick` |
| ParallelMap | what Map promises | abstract: start at most Width, finish, return when all are done |
| BoundedMap | `concurrent.Map` | implements ParallelMap (`RefinesParallelMap`) |
| NodeExec | the executor | leader, followers, cache, contexts, pods that are replaced |
| NodeHealth | `Service.Run`, `runNode` | EXTENDS NodeExec: the callers are the checks |
| VCRenew | `vc renew` | runs, user edits, VC churn, kills, stale locks |
| VCInventory | one profile's listing | a server that moves, and one that misbehaves |
| VCConfigUpdate | `vc config update` | updaters, platform, operator, Deployment controller |
| ConfigStore | `platform.json` | commands, kills, power loss |
| SessionStore, Files | `session.json`; either file | no lock; users' clocks; two files in one instance |
| IAMPages | IAM lists | EXTENDS VCInventory: its server, another client |
| JobLocate | `ate get` | EXTENDS BoundedMap: the profiles are its inputs |
| ProfileQueries | queries of several profiles | one rule per operation for the failures of some |
| NewestJobs | lists of newest jobs | pages by position, jobs that come and go |
| WorkloadGet | `ait`, `aid`, `air`, `pod get` | a shared inventory, one timeout per workload |
| QueueUsage | `queue node usage` | a queue, a pool it shares, and whose a node is |
| NodeLists | `node list`, node usage, pods of a node | one node that moves |
| MetricsQueries | `metrics` | which workload, restarts, cards, memory, kubectl |
| QueueViews | `queue list`, `queue get`, `ws get` | joins of answers that each tell a part |
| UserViews | users, permissions, groups, their workloads, logs, audit | fallbacks, batches, parts that fail |
| Readings | any one of these from IAMPages on, or VCInventory's | EXTENDS them; the others stand still |
| ConfirmedWrite | what a changing command promises | abstract: agree, send each once, conclude |
| Command | what these commands share | plan, question, request that may be lost, report |
| RBACGrants, AuthGrants, VCNodes, PolicyUpdate, AFSCreate, CreateWizards, NodeMutations | a command or a few each | EXTEND Command |
| Commands | any of them | implements ConfirmedWrite (`RefinesConfirmedWrite`) |
| `*_proofs` | theorems | of PlatformTransport, BoundedMap (Lists_proofs, with NewestJobs and MetricsQueries), NodeHealth (with NodeExec), VCRenew, VCConfigUpdate, Files (ConfigStore and SessionStore), Commands, Readings |
| `MC*` | instances | constants and symmetry for the configurations (Readings is checked as it is) |

Some definitions have a second form just above them, with "mutant" in its comment: the same
code with a plausible bug (no guard, no Sync, a lock that does not exclude). No
specification uses these; they are there to show that each property notices.

### From code to actions

**PlatformTransport.** A caller walks through `begin` (a new doPlatformRequest), the slot
queue (`EnterQueue`, `AcquireSlot`, `QueueExpired`), the gate `budget.wait` (`Admit`,
`HoldBack`, `GateExpired`), the network (`Respond`, `RespondError`), the decision of the
retry loop (`Final`, `Backoff`, `Return`), the backoff (`Retry`, `BackoffCancelled`) and
`CloseBody`, which frees the slot. `Respond` with 429 moves `cooldown` and `slowUntil` of the
origin and leaves those who sleep in the gate to find out when they wake, as the code
does. `Cancel` ends a caller's context at any moment. An instant of the code, `x := now + d`,
is a countdown `x' = d`; the code only compares instants with each other and with now.
The jitter of the backoff, at most a fifth of the delay, is a choice. Servers announce
Retry-After values of `Hints`, which may exceed what the code is willing to wait for.

**BoundedMap.** `Hand` is the unbuffered send and the receive together, as the channel makes
them one; `Finish`, `Leave`, `Close` and `Return` are the worker's write, its exit, `close(jobs)`
and `Wait`. `Cancel` is there to show that no goroutine of Map reads the context. A width
below one or above the number of inputs is part of the constants.

**NodeExec.** `CacheHit`, `Follow` and `Lead` are the three ways through the locked section of
discovery; `Discover` lists the pods and `Publish` is the second locked section with the close
of `done`; a follower wakes (`Wake`) or gives up with its own context (`GiveUp`). `Replace`
is the daemon set, `Cancel` a context.

**NodeHealth.** `Feed`, `CloseJobs`, `Leave`, `CloseResults`, `Collect` and `Return` are the
goroutines of Run; `Query`, `CheckStep` and `RunNodeReturns` those of runNode. Feeding and
being interrupted race as Go's select does: either may win when both are ready. A check that
waits for a list, a query or a command on its node is `Unanswered`: nothing bounds that wait
but the answer, or the interrupt.

**VCRenew.** `Start` takes the lock file or refuses; `ReadManifest`, `ReadInventory` and
`ListFiles` collect; `AddNext` takes a missing path, `CheckUID` asks whether its VC still has the
UID of the inventory, `Credential` gets what is in the kubeconfig, `Publish` links it, and between
these the VC may go, another may take its name (`AddressOf`: the requests after the check know no
UID), and the run may be cancelled; `AddFails` is an error of any of them. `Select`, `Prompt`, `Answer` choose the candidates, show them and ask;
`Check` re-reads a candidate and `Remove` unlinks it, two steps because the code takes two
system calls; `WriteManifest` ends the run. `Edit` is a user who writes, replaces or removes
a file; `Churn` creates, deletes and replaces VCs; `Kill` leaves the lock behind and `RemoveStaleLock` is
the user who follows the error message.

**VCInventory.** `NextPage` receives an honest page and applies the checks of the code in
their order (`Verdict`); `BadPage` is a truncated or repeated page; `Refused` a failed request;
`Create` and `Delete` move the VCs between pages.

**VCConfigUpdate.** `ReadDesired`, `ReadDefinition`, `Answer`, `Recheck`, `Send` are prepare,
question and apply; the PATCH is in flight until `Deliver` applies it, perhaps after `Lose`
has told the updater that it failed; `SeeDesired`, `SeeControlPlane`, `SeeDeployment` are
the three reads of one round of the wait, between which `Apply`, `Deploy`, `Observe` and `Roll`
move the operator, the Deployment, its status and its pods.

**ConfigStore.** `Lock`, `Prepare` (load, defaults, change, normalise), `Flush`, `Rename`, `Finish`
are one command; `Kill`, `WriteError` and `PowerLoss` end it anywhere. The file that processes
see and the file that a power loss would leave are two variables.

**SessionStore.** `FindTokens` and `Begin` start a command that uses tokens, logs in, imports
or logs out; the sign-in, the load and the replacement of the whole file are steps of their
own, because nothing locks them together. `Expire` is the clock. The observer `overtaken`
says that somebody replaced the file since a command read it: that is the only way the code
can lose a session, and LostOnlyByOverlap says so.

**JobLocate.** `Locate`, `Current`, `Inventory` (with the steps of BoundedMap as
`InventoryWorker`), `Others`, `HostPods`, `HostJobs`, `Fetch` and `Fallback` follow getJob;
`Failure` is what jobLookupFailure makes of what could not be asked, `EndContext` the
deadline. Nothing is created or deleted meanwhile, so that the true answer is fixed.

**IAMPages.** `FetchPage` receives page n, the checks in the order of the code (`Drifts`,
`Follows`, `Echoes`, `Untrusted`), and `Rescan` is the second scan with its own size. `TiedPage`
lets entries with equal timestamps change places.

**ProfileQueries.** `AskProfile` reads a profile's pages, `Say` makes the statement that the
operation at hand makes of the failures: some return the first error, some only if all
failed, some swallow it. The operations are values of `query`; each has its own lines.

**NewestJobs.** `ReadPage` and `ReadAll` read a part to its limit or point in time, `Merge`
merges and cuts, `JobCreated` and `JobDeleted` shift the positions between two pages. A list is
the set of its items and the order they are sorted by (`Place`, `Ahead`): the code sorts in
order to cut.

**WorkloadGet.** `GetStep` is one lookup: the region's inventory, which the first one loads
while others wait, its workspaces, the answer; `Expire` is each lookup's own timeout.

**QueueUsage.** Two searches for the queue at a time, then quota, usage, labels and two pages
of pods; `Change` moves the node or starts a pod between any two of them. `Class` is
classifyQueueOwnership, `Eligible` the filter of --free.

**NodeLists.** `NodeStep` reads SSP clusters, VCs, queues or pods, each of which may fail or
tell names only; `NodeMoves` and `PodChanges` are the others.

**MetricsQueries.** Four independent questions, of which a command asks one: which workload
(`TakeSlot` ... `MergeCandidates`), how often it restarted (`Scrape`, `Restarted`,
`ResetCounter`), its cards and their memory (`Aggregate`), and the kubectl it started. What a
rise of the counter is worth (`Rise`) is that many elements of `CountedRestarts`, and a sum of
memory is the set of points it adds up (`SumAt`): "counted twice" is said of these, not of totals.
Before summing, gpu thins the samples of each card (`Anchors` of a card) and mem those of no
container; the sums are taken at times 5 s apart, or at every time for gpu with `--step`
(`Within`). So two samples of one container within 5 s are added up, and two of a card are not.

**QueueViews.** `ListResources`, `ReadDetailGroup` and `ReadDetail` are queue list: what the
inventory does not tell is asked of each cluster, with a check of the identity.
`FindResourceOfQueue`, `ReadLikely`, `ReadAllWorkspaces` and `EnrichQueue` are queue get.
`JoinInventory` is ws get, whose two requests end in any order. `ChangeQueue` moves the queue
or deletes it and makes one of that name anew.

**UserViews.** `FindExact`, `FindFiltered` and `FindAmongAll` are the three ways to a user;
`ReadGroupsOf`, `ReadBatch` and `PermissionsOf` its permissions; `ReadMembers`, `ReadAdmins` and
`MemberRows` a group; `ReadTarget` and `ShowWorkloads` what users run; `FindLogVC`,
`MakeQueryToken` and `QueryLogs` the logs, profile by profile; `FilterByUser` and
`UserOfEvent` the audit.

**Command and its commands.** `Present` prints the plan, `Confirm` and `Decline` are the
user, a request may be refused, performed, or performed with its answer lost. A request says all
that decides where it lands: member and role with the scope, the policy and the profile of the IAM
it is sent to (AuthGrants), the workspace and the roles found in it (SSP), the object and its new
value elsewhere. ConfirmedWrite compares requests: what is sent is what was agreed to, and only
where a command resolves its names again after the answer, and only if it is not `Steady` (others
changed something, or several things have the name), may it be another one for the same words.
`MaxTouched` bounds what other clients change in the store meanwhile. The modules add: the generated
name of a new RoleBinding (RBACGrants); the two resolutions, before and after the question,
and the first page of policies (AuthGrants); the acceptance and the later binding
by the platform (VCNodes, `BindNode`); the resourceVersion (PolicyUpdate); order and payment
(AFSCreate); the steps of the wizards with ":b" back (CreateWizards); one patch and one
result per argument (NodeMutations: a node that is named twice is patched twice).

## 3. Runs

Bounds are the constants of each configuration; counts are distinct states.

| run | instance | states | shows |
|---|---|---|---|
| transport | a GET and a POST, one slot | 195 k | slots, retries; every call returns |
| transport_pacing | three POSTs, two slots | 1.2 M | cooldown, Retry-After, and the gap between requests after a 429 |
| readings | below | 1.23 M | what eleven kinds of readings may claim, that the pool implements ParallelMap, that no lookup is stuck |
| job_get | the instance of JobLocate in readings, with the fallback | 1.9 k | *violation*, finding 3 |
| node_health | 3 nodes on 2 workers, 4 checks, 2 that share a lookup | 279 k | interrupts never turn into success, nothing is left running, only an unanswered request keeps Run from returning; the executor under it |
| renew | 4 VCs, two of one name, 2 paths; one run with two edits or with one edit and one change of a VC; or two runs around one manifest and one change of a VC | 1.08 M | what a run may add and remove, the lock, the manifest, dry runs |
| vc_inventory_balanced | up to 5 VCs on pages of 2, honest server | 7 k | *violation*, finding 1 |
| vc_config_update | 2 updaters, 2 flavors, one foreign change | 382 k | outcomes, second reads, convergence, the end of the wait |
| files | 3 commands on platform.json; 2 users of session.json | 1.10 M | atomic replacement, lost updates, other profiles, whose tokens are used |
| config_cluster | `cluster set` twice | 116 | *violation*, finding 2 |
| commands | every changing command, one foreign change | 305 k | the promise of ConfirmedWrite, true reports, others' changes kept, the end after a yes |
| auth_environment | two scopes of one name in two profiles | 142 k | *violation*, finding 4 |

In readings a behaviour is one reading. Its instances, with their states:

| reading | instance | states |
|---|---|---|
| job | 3 profiles on 2 workers; jobs and pods by name or UID | 255 k |
| vcs, iam | up to 5 entries on pages of 2 (second IAM scan: 3), one created, one deleted, a server that misbehaves | 31 k, 78 k |
| profiles | 3 profiles, 2 pages each | 118 k |
| newest | 4 jobs on pages of 2 in 2 parts, limits 0 to 3, from the start or the second job on, one created, one deleted | 185 k |
| get | 2 workloads, 3 listed workspaces and one unlisted, 2 regions | 140 k |
| usage | one node of a shared pool, pods on 2 pages, 2 changes | 198 k |
| nodes | one node, 2 queues and one elsewhere, 2 namespaces, 2 SSP clusters, 2 moves | 118 k |
| metrics | 2 workspaces in 2 regions for one slot, 3 scrapes with 2 restarts and a reset, 2 cards or containers with 2 samples each at 4 times, raw or by a step, one kubectl | 57 k |
| views | 3 queues in 2 clusters, two of one name; one change; two workspaces | 4 k |
| users | 2 users, a group, 2 policies with 4 bindings in 2 batches, one change; 2 kinds of workloads in 2 workspaces; 2 log profiles; one event | 42 k |

Why these bounds suffice to see the interesting cases:

- *transport*: with one slot a second caller has to queue; a GET reaches its third attempt
  with the POST between any two; hints are none, one the code waits for, and one above
  `MaxHint`; every duration is at least one tick, and they differ in order (the queue
  outlasts the request). Pacing needs three callers: two in flight whose answers, 429 with
  and without a Retry-After among them, come back in either order, and a third at the gate.
- *readings*: more profiles than workers and not a multiple of them; three pages, the last
  of them short; one entry created and one deleted, which is what keeps totals equal. Two of
  everything that can be taken for one another (workloads, workspaces, queues, users,
  cards), of which one is asked for, and one thing that moves while the rest are read.
  One node stands for all where nodes are classified one by one. Of the profiles that are
  asked all at once, one order stands for all, and profiles that are not asked hold one thing (`Alike`, a
  condition on initial states; the theorems have no such condition).
- *node_health*: more nodes than workers, one node with two checks that share a lookup and
  run commands while its pod is replaced; the others only query. Contexts of single callers,
  which the executor's interface would allow, are in the proofs about NodeExec.
- *renew*: two VCs claim one path (ambiguity), a third has the name of one of them (replacement
  between check and credential), the other path is in another environment (scope), one VC has no
  safe path; two edits are enough to change a file and change it back around the question. What
  edits, changes of VCs and a second run do are taken two at a time.
- *vc_config_update*: two flavors of one size and two sizes with one number of replicas,
  so that neither count nor size identifies a flavor.
- *files*: older form and profiles, current profile present and missing, a region
  with an address of its own, an address of the user's; sessions of a profile, of its
  pair and of a third one, for two users that overlap.
- *commands*: three members of which two answer to one name, two scopes of one name in two
  profiles, three policies in the IAMs of both with a page of one, two workspaces of one name, a
  node list whose argument names two nodes, up to three nodes to cordon of which two words mean
  one; and one thing that somebody else changes, which is enough to make each plan stale.

Deadlock checking is off where the system really stops (a command returns). For the lookups
of readings, NoLookupIsStuck takes its place: a lookup that has not ended can go on by
itself, and no such step can be taken twice.

### Fairness

Safety is checked without fairness. The liveness properties assume only

- that Go schedules a goroutine which can run (weak fairness of each caller's and updater's own
  steps; of NodeHealth's goroutines together, as none of them can repeat a step for ever);
- that time passes (`Tick`), and that a request to the *platform* whose deadline is over ends with
  an error: the transport gives each one 20 s (`http_timeout.go:11`, `http_throttle.go:62`) and
  the queue before it a limit of its own (`http_throttle.go:49`), which `net/http` enforces;
- for updaters, that the `--timeout` of the wait expires (`Expire`).

Kubernetes clients are built without a timeout (`kube/client.go:28`) and run under the context of
the command, which only a signal ends. Nothing is assumed of the requests they send:

- *node health* (`cmd/node_health.go:107`): fairness is of the pool and of the steps of a check that do not
  wait for an answer. RunReturns says that Run comes back unless one request is never answered
  (`Unanswered`). After an interrupt only a command sent to a node may still hold it up.
- *a changing command*: fairness is of its steps after the yes (`CommandSteps`), except where it waits for
  an API server (policy update, cordon, the creation of jobs and volumes) or where an auth grant may
  have to ask for a sign-in (`cmd/auth.go:942`). AgreedEnds says that the command ends unless it stays
  there for ever; the other commands ask the platform only, so they end.

Readings has no fairness. Nobody has to cancel, to answer a question, to replace a pod or to let
the control plane converge. Weak fairness is enough: no two fair steps disable each other for ever.

## 4. Proofs

All theorems hold for every value of the constants that the modules' ASSUMEs allow:
finite sets of callers, positive durations with the pacing gap no longer than the shortest
cooldown (250 ms against 1 s), any number of inputs and any width, any nodes, pods,
contexts, commands and configurations.

**PlatformTransport_proofs** (`TypeCorrect`, `SlotAccounting`, `RecoveryWindow`,
`EmbargoIsKept`, `RetriesAreDisciplined`, `RecoveryPacing`). The invariant `IInv` has a part
per caller and one per origin. SlotsAreHeld is not inductive by itself: the number of
tokens is the cardinality of the callers who hold one, so each action needs the set of
holders to grow by one, shrink by one or stay (`HoldersGrow`, `HoldersShrink`, `HoldersStay`),
which in turn needs every caller's place to say whether it holds. EmbargoIsKept needs that the
observer `embargo` never exceeds `cooldown` of its origin; RecoveryIsPaced that `next` is
at least what the gap since the last request still lacks whenever the origin recovers,
which is where `PaceGap <= MinCooldown` is used.

**Lists_proofs** (`MapTypeCorrect`, `EveryPosition`, `MapImplements` of BoundedMap; the lemmas about
NewestJobs and MetricsQueries that Readings_proofs rests on, see there). `MapInv`: an index
below the one offered next is being called or has its result, the rest are untouched, and a
worker leaves only when the channel is closed. The refinement maps an input's result to
todo, running or done; its only hard step is that an idle worker leaves room for one more
call, a counting argument over the busy workers (`RoomForOneMore`).

**NodeHealth_proofs** (`LookupsAreShared`, `CommandsStayOnTheirNode`, `AnswersAreKept` of NodeExec;
`SuccessMeansComplete`, `NothingIsLeftRunning`, `ReportsAreFinal`, `PoolSharesLookups`).
`ExecInv`: table and callers agree, in both directions, on who looks up what; a node that
is being looked up has no cached pod; an answer on its way is a pod of the caller's node.
`PoolInv` adds the pool: an index that was handed out is at a worker or reported, one
that is reported without an error has all its checks done, a check that is under way belongs to a
worker, and the channels close in the order jobs, results, return. From that order
follows that at return no worker is left and hence no check runs; success needs that
every index was collected without an error. Each step of the pool is a step of NodeExec or
leaves it alone, so ExecInv holds of the composition too.

**Files_proofs** (`LockHolds`, `ReadsWhole`, `NoUpdateIsLost`, `OthersAreKept`; `TokensAreOwn`,
`LostOnlyInOverlap`; `FilesAreSafe`). Of ConfigStore mutual exclusion comes first; from it, that only synced
data gets the file's name, and that what a command is about to write is still its change of the file
there is. For these the changes and the defaults stay unexpanded. OtherProfilesAreKept is about what they do:
`RoundKeepsOthers` follows a configuration through load, change, save and the next load, where a profile
is filled in twice (`DefaultsAreFinal`: the second time nothing changes) and a current profile that is missing
falls back to the first name (`CurrentIsThere`, by the smallest element of a set of names).
It needs two invariants: that file and disk hold configurations, and `NamesAreFree`, that a name
yet to be added is in neither, which is what ConfigAssumption asks of the names. `SessionInv`: a session with
tokens, in the file, in what a command has read and in what it holds, is of the profile whose
entry it is; and a command that nobody has overtaken has read what the file still is. FilesSpec implies the
specification of either file.

**VCRenew_proofs** (`RenewOneWriter`, `RenewNeverOverwrites`, `RenewRemovalsAreJustified`,
`RenewRemovedAsConfirmed`, `RenewAddedFilesAreUnambiguous`, `RenewManifestKeepsTheRest`). OneWriter
is inductive given the types, because a step moves the lock in one of four ways
(`LockMoves`). `RunInv` says, for each place of a run, what the steps before it have left: candidates
are among the missing paths and only of a complete inventory, what is checked was
answered, and the copy of the manifest differs from the manifest at most by what the run added and
removed. The last one is why OneWriter is needed: the manifest that a run copied must
still be there when it writes (`OthersKeepTheirs`). AddedFilesAreUnambiguous needs the references
to be a finite set, as it counts those of a path, and of a run between check and link that its VC
was there at the check and that the credential is of a VC with its address that has been there since
(`met`, an observer): what is published is the credential of the VC that was checked, or of one that
took its name in between, and not of any other. `IInv` was first checked with TLC on the
instance of run renew.

**VCConfigUpdate_proofs** (`OutcomesAreHonest`, `SendsWhatWasShown`, `ConvergedMeansReal`). `UpdateInv`
says of an updater that before its PATCH nothing of it is under way or applied, that one which waits
has its change or needs none, and that only a change that is wanted gets as far as the second
look. Of the platform it says one thing: a status that speaks of the Deployment's own generation
counts the pods of its size, or none. With it "converged" is about the pods that run: replicas
are positive, so what was counted for the generation that was seen can only be those
(`CountedForTheTarget`).

**Commands_proofs** (`ReportsAreTrue`, `KeepsItsWord`, `RemovesOnlyThatRole`, `ExclusionsStay`, `JobsCanRun`). `ConsentInv`
relates the plan of each command, by its place, to what was agreed and sent: before the answer nothing
is sent, after it what was agreed is what is planned, and no request is sent twice. The refinement
of ConfirmedWrite needs besides it `AskInv`: a request that names were resolved to is, while the
command is `Steady`, the one that was shown, because nobody changed what it was resolved from and only one
thing has the name. `RBACInv` to `MutationInv` have for each command what its report
stands on: that an answer which was lost leaves the object as the request would have made it, or
somebody else has touched it; that a policy which is deleted gave the role; that an object whose
version is still the one that was read is the object that was read. The proof has one lemma per
command and step, and one for what others change. `WizardInv` is what JobsAreWhole needs: the answers
given before the question that is being asked stand as they were checked, also after going back, because
more machines or fewer are followed by the question for the supernodes again; the division of chips
among supernodes is `BlocksAreWhole`.

**Readings_proofs** (`LookupsAreTrue`, `QueriesStayTrue`, `ListsStayWhole`, `UsageStaysTrue`). A
behaviour of Readings is one reading, and the variables of the others stand still, so each invariant
is first shown of a reading's own specification and then carried over (`ReadingsReadUsage` and the
like). `LookupInv`, on the invariant of the pool: what each stage of ate get may still find, as long
as nothing has failed. `UsageInv`: the labels and pods that were read agree with all that has lasted
since they were read. `NodeInv`: an answer that was given is where the node, or the pod, has been
since the command began. `ViewInv`: what is known of a queue, by UID, name and workspace, is of one
queue or of the one made anew in its place.

`QueryInv`: what was said is what the operation makes of what was read; and a file system that is
asked for by name, because nobody had it by UID, is where it was not read the first time (`UnreadHave`).
Then each operation's answer is taken by itself. `GetInv`: an inventory that is whole has every workspace
of its region, a reply that is whole has all that was asked for there (of air get: all that is in the
inventories it went by), and "missing" is not said before those were read. `MetricsInv`: what is known of
a workspace is part of what is there, and all of it when it has answered completely; a reading of a card
is available only if the series tells whose card it is. `UserInv` has a part for each thing a
command looks for: bindings that were read are, or were, those of their batch, logs come from the first
profile that has not failed, events are asked for with what the user was asked for.

ListsStayWhole is about counting. `InventoryInv` (VCs of a profile): as long as VCs were created or
deleted, but not both, a total that is what it was before means that nothing has happened, so what was
received is still there, and as many as there are is all there are (`SameCount`). `IAMInv` (lists of the
IAM): with totals, one change is told by the total or has not touched what was received, so that two
would have to cancel out; without them, and with nothing that changes, what was received before page n
is what ranks before (n - 1) * size. That needs the ranks to leave no gap (`RanksAreDense`, by the
smallest counterexample), so that a page with something after it is full (`PageHolds`), and a page that
is not ends the list rightly.

For the lists of the newest jobs the invariant says how many may be missing. A job *slips* when it is
there, recent enough and not received, and the reading of its part is already past its place, has an
older one, or ended without being full of newer ones. `NewestInv`: unless the list is one of those that
NewestAreListed excuses, no more of the jobs that were there all along have slipped than were deleted.
A created job moves the others away from what has been read; a deleted one moves at most one job across
it, the one that was next (`JobDeletedNext`); and a page loses none (`PageSlips`). This needs that the
places of the jobs are an order without a gap (`RanksFill`, which gives `PlaceIs`), that a page that is
not full is the last (`PageIs`), and that cutting keeps as many as the limit, and the newest (`CutIs`).

The samples of a metric. `RestartsInv`: the samples that were scraped, and the counter itself, are in one
order (`Leads`): of two of one life the counters differ by the restarts between them, and after a new
start there have been at least as many as the counter shows. So every rise lies after all that came before it (`RisesApart`), each
counted restart has a number of its own among those after the first sample and up to the last
(`NumberIs`, `NumbersDiffer`), and if the counter was not begun anew every one of those numbers is
counted (`EachIsCounted`); the bound and the equality of RestartsHappened are the cardinalities of that
injection. `MemoryInv`: the sums are those of the times that stand for the others; each time is
near exactly one of these (`OneAnchorEach`), and two points of one card are never near each other; those
of a container may be, and CountedOnceEach says that nothing else lets one be counted twice.

*Model-checked only*: the liveness properties and NoLookupIsStuck (fairness and ENABLED are outside the
proof system), which also rests on the count of steps that no step of Progress is taken twice. Every
safety invariant and every action property of a passing run is the statement of a theorem.

## 5. Findings

1. **An inventory called complete may miss a VC** (run vc_inventory_balanced).
   `docs/vc-renew.md:46` says that any incomplete inventory prevents all cleanup. Pages are
   requested by offset; a VC of an earlier page is deleted and another is created between
   two pages: `total_size` stays, nothing repeats, and a VC that existed throughout is
   skipped. The list is returned as complete, and the file of that VC becomes a candidate
   for removal (after the question; its hash and the scope are checked, its VC is not looked
   up again). Without such a balance the checks do catch every gap: ListsAreWhole of run readings.
2. **`cluster set` leaves addresses of the old cluster behind** (run config_cluster).
   Loading fills blank addresses with the current cluster's defaults; `cluster set` clears
   base and Kubernetes addresses and the subscription, not the IAM and monitor addresses, so the
   old cluster's are saved beside the new base address and stay there. Also, the subscription
   that is cleared may have been the user's own: d, dcloud and back loses it.

3. **A job that was found is reported not to exist** (run job_get).
   `docs/validation/rayctl-ate-not-found-20261022.md:11` allows "does not exist" only after a
   complete and empty search. When a job has been located in a VC and reading it fails, getJob
   (`job_get.go:90`) drops that error and searches the current cluster; its empty answer counts.
4. **A grant may be made in another environment than was shown** (run auth_environment).
   `profiles.go:130-132` says that writes must stay in the environment of the discovery. The dry
   run before the question and the call after it (`auth_service.go:575`) each discover the
   resource by name in all profiles, and the first that answers decides, each time anew.

What the models show besides, without a document that says otherwise. Where a property
excludes one of these cases, its comment says so.

*Not found, although*
- `ait get` of several: the first to load a region's inventory does so under its own timeout, and
  its failure is kept for the others, who had time left (they say "incomplete"); `air get`
  forgets that an inventory was partial.
- FindSSPQueueResource: the last profile answered although an earlier one had failed.
- `queue get`: a workspace failed; and an exact name in a failed or later place loses to one
  fuzzy match that was found first.
- FindStorageVolume swallows a failed search by UID; in FindAIComputeNodes one empty profile excuses
  the failures of others; metrics: a region that fails is dropped.

*Shown of another one*
- `ws get` joins by name where the UID is not told or not listed; `queue get` does not compare
  the identity of the details it asks for, as queue list does: a queue made anew may be shown
  with the old UID and the new workspace.
- An ELASTIC queue's nodes are the whole shared pool in `node list -q`; `ws node usage --free` does
  not ask whose they are; a VC known by name only marks the nodes of one made anew.
- Metrics select series by pod name, so a namesake in another workspace is added even with
  `-w`; candidates are merged by workspace name across regions.
- `metrics mem --step 1s`: samples of one container within 5 s are added up, so it seems to
  use several times its memory (`service.go:588`); docs/validation/rayctl-r123-20261022.md:15 describes the
  largest value per card first, and :78 says that a fixed step is not squeezed by the tolerance
  for raw samples. Both are true of gpu only.
- `auth remove` names a policy in its question, and after the yes looks for one anew
  (`cmd/auth.go:548`, `auth_service.go:780`): it deletes another one if somebody changed the policies
  or the resource meanwhile, or if resources of several profiles have the name. Likewise the scope of
  `auth grant` and the workspace of `auth ssp grant`. KeepsItsWord says that nothing else makes
  the request differ from the answer.
- Two users with one display name: both are shown as a group's collaborator if one is.
- Logs come from the first profile that answers, even if it does not have the VC.

*Less than there is, without a word*
- Catalog lists and a user's workloads skip failed workspaces; repeated page tokens end a list; AIR
  lists end after a page without a total; a limit is spent before `--workspace` filters; queues whose
  details fail are listed without their pool; a lagging watch cache hides a node.
- A port-forward that fails is cancelled and not waited for.

## 6. What is not modelled, and the plan

Decoding, formatting, certificates, hashes, request signing, credentials, PromQL texts and the
verdicts of checks are data; the modules keep the outcomes the control flow tells apart.
`net/http` is external: a request it redirects is one attempt here, and a response always
has a body, as its default transport guarantees. `Admit` is both the end of the wait at the gate
(`http_throttle.go:115`) and the sending that follows it without a lock (:63): a 429 of another
caller that arrives between these two is seen as if it came just after the request was sent; a
request cannot be called back, so no property forbids it. The roles and members that an IAM
has under a name are taken as fixed for a profile; resources, policies and workspaces are not. Two windows are in the models and no
property forbids what may happen in them, since the code does not claim to prevent it: an
edit between the last hash check and `os.Remove` (`vc_renew.go:312`), and another update
between the second read and the PATCH (`vc_config_update.go:108`).

Not modelled: the details of SSP jobs (checks of volumes, images and secrets: joins of one
job's answers, the concurrency is BoundedMap's), pod evidence (texts of pods and events put
together for a reader), the set-up of Kubernetes clients, and the output layer. Partly
modelled are, besides the components whose note says so, the matching of names by prefix and
substring (a set of what a name may mean stands for it), and the choice of the current profile by
flags and environment variables.

The order of the plan was: what every command uses (transport, map, executor), then the
commands that change something, then what they and the others read. Next:

*Compose.* The inventory of VCRenew replaced by VCInventory's listing of each profile, so that
RemovalsAreJustified is about VCs that exist and not about VCs that were listed.

*Prove.* What section 4 lists as model-checked only, liveness and ENABLED, is out of the prover's reach.
