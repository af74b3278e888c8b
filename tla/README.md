# A verification project for readtheplan

readtheplan reads infrastructure plans, gives every change a risk tier (safe,
review, dangerous, irreversible) and answers a *gate* question (proceed, warn,
block) for people, CI jobs and coding agents. In self-improving mode the gate
also learns: it records incidents, generates candidate rules and, after an
explicit approval, loads them into later runs. A site classifies plans in the
browser, and a hosted chat answers questions behind a rate limiter.

The models fall into two groups. The first are the parts whose correctness
depends on order, on what a crash leaves behind, on what a process has read and
may still rely on. The second are the parts where one meaning is computed twice,
by code that must not drift apart: the Python rules and their copy in the
browser, Terraform and the other planning tools, command line and MCP server, raw
and rendered states. Paths below are relative to the repository; `EV` is
`src/readtheplan/evolution.py`, `SH` is `rules/_shared.py`.

## 1. Inventory

| Component | State | Operations | Hard behaviours | What makes it correct |
|---|---|---|---|---|
| Rule approval (EV) | `patterns` and `rules_catalog` in SQLite; candidate directories; `approved-rules/` with its manifest; the approval lock | a gate run generates, verifies and saves candidates; `approve_rule`; `_load_auto_rules` | processes without a common transaction over database and files; failed writes; dead processes; readers without a lock | only verified bytes become rules; a success means published; a failed call can be repaired |
| Rule registry (SH) | `_RULE_REGISTRY`, `_CROSS_CUTTING`, `_current_source`, `_LOADED_APPROVED_RULES` | decorators, loading, verification with rollback, plugin discovery | threads; rollback beside other threads' registrations | a candidate never judges a plan; a rollback drops nothing of another's; provenance is right |
| Incidents (EV) | `runs`, `incidents`, `patterns`, `rules_catalog` | start with migration, record, count, update, save | processes on one database; rows read before the transaction that writes them; identities of an earlier version | legacy identities stay quarantined; a live rule has its pattern; a count is witnessed |
| Handoff dispatch (EV) | outbox and shared directory | write, copy in two formats, unlink | two dispatchers, a writer that replaces a file, failures between steps | what is listed is delivered; what failed is pending |
| Plan analysis and gate (`plan.py`, `overlays.py`, `controls.py`, `agent_gate.py`, `cli.py`) | one run's changes, findings, decision, exit code | classify, override, annotate, decide, report | rules of third parties, registered at any time, that raise or return odd risks | no verdict is masked; exit code 0 means clear |
| Rule tables (`rules/*.py`) and playground (`site/playground/classifier.js`) | tables | classify one change | two copies in two languages, early returns, floors computed with empty attributes | the browser is never lower; a worse change never looks better |
| Other planning tools, manifests, states, workloads, pipelines (`adapters/`) | none | translate, match, redact, walk | operations and names of every tool; identities of objects; nesting | judged like the same change in a plan; nothing that matters is dropped |
| Project scan and MCP project tool | discovered inputs, snapshot directory | identify, measure, analyse, aggregate | files that change under the scan; names that several adapters claim | what was found weighs in the decision; the copy that is judged is the one measured |
| CLI commands and MCP tools of single ecosystems | none | parse, analyse, report errors | two front ends over the same adapters | same verdict and same error whoever asks |
| Evidence, attestation, signing | one evidence file | analyze, digest, sign, write, verify | a plan that changes meanwhile, two writers, a crash, an edited or re-signed file | verified means authentic for that identity; honest evidence verifies |
| Chat rate limiter (Durable Object) | a window and an alarm per client | check, alarm | await points, late alarms, evictions | the quota; windows do not leak |
| Hosted chat function | a request, its deadline, its provider call | validate, ask the limiter, call | timer, answer and disconnect race | no call without admission; none outlives its request; an answer always comes |
| Control catalogs | none | lookup, overlay additions | - | part of the gate |
| Adapters for projects and configuration; CI and tools | none | parsers and lists of findings; scripts | - | a matter of tests and review |

How they interact. A gate run (`agent-gate --mode self-improving`) classifies
with the rules of the *registry*, records *incidents*, and calls candidate
generation, which verifies candidates in the same registry under its lock,
saves them for *approval* and writes *handoffs*. Approval, in another process,
publishes files that every later process loads into its *registry* at import.
The processes share the database and the directories; the threads of one process
share the registry. The *scan* identifies files, hands each to the *adapter* of
its ecosystem, whose changes pass through the rules again, and aggregates the
verdicts as the gate does. *Evidence* wraps what one run of the gate saw. The
chat function calls the limiter, a separate Worker, and the provider.

## 2. Modules

| Module | What it is | Source |
|---|---|---|
| `RuleApproval` | loops, approvers and loaders over one store | EV 173-341, 666-1261; SH 656-754 |
| `AllowList` | abstract: a write-once allow-list, and loaders that hold only what it lists | - |
| `RuleRegistry` | modules executing in the registry under its lock | SH 30-105, 560-790; EV 236-341 |
| `AtomicRegistry` | abstract: a module's registrations appear at once or not at all | - |
| `Incidents` | processes on one database, with the migration | EV 363-631, 1195-1240, 1373-1453 |
| `Handoffs` | gate runs and dispatchers over the outbox | EV 840-930, 1263-1369 |
| `RiskGate` | one run from the plan to the exit code | `plan.py`, SH, `overlays.py`, `controls.py`, `agent_gate.py`, `cli.py` |
| `SeverityCeiling` | abstract: verdicts are heard, then the decision is that of the highest | - |
| `RuleTables` | the shape of a rule: types, ladder of actions, findings | `rules/*.py` |
| `AwsRules`, `SaasRules`, `GitRules`, `CloudRules`, `K8sRules` | every rule as a row of a table | `rules/*.py` |
| `BrowserRules` | the playground's own rules | `classifier.js` |
| `Verdicts` | a change, classified by analyzer and playground while it is revised; extends the tables | `plan.py`, SH, `classifier.js`, `build-classifier-risk-floors.py` |
| `ToolAdapters` | operations, types and attributes of CloudFormation, Pulumi and Azure what-if | `adapters/{cloudformation,pulumi,azure,base}.py` |
| `KubernetesInput` | manifests before and after, matched by identity | `adapters/kubernetes.py` |
| `StateInput` | a Terraform state, raw and rendered | `adapters/terraform_state.py` |
| `WorkloadInputs` | a Compose service, a Nomad plan, a Nomad job | `adapters/{workloads,nomad_job}.py` |
| `PipelineInputs` | how the pipelines of eleven CI systems are walked | `adapters/pipelines.py` |
| `PlanInputs` | all these inputs under the rules of `Verdicts` | `adapters/base.py` and the above |
| `Discovery` | identification by name and content | `project_scan.py`, `adapters/__init__.py` |
| `FrontEnds` | the commands and MCP tools of the ecosystems | `cli.py`, `mcp_server.py` |
| `ProjectScan` | scan and MCP project tool over a tree that changes; either implements `SeverityCeiling` with its inputs as voters | `project_scan.py`, `mcp_server.py` |
| `Evidence` | runs, an evidence file and a verifier | `evidence.py`, `attestation.py`, `signing.py`, `cli.py` |
| `ChatLimiter` | one client's Durable Object | `site/workers/chat-rate-limiter/src/index.js` |
| `HostedChat` | requests over the limiter; extends `ChatLimiter` | `site/functions/api/chat.js` |

`MC*` modules give TLC its instances, `*Proofs` hold theorems. An operator under
a comment `\* Fault:` is a mutated form of the definition after it; nothing in a
specification uses it.

### Approval, registry, incidents, handoffs

One action is one database transaction, one atomic file replacement or one file
read, in the code's order. A loop of `RuleApproval` goes from a detected pattern
over `WriteRule`, `WriteTest`, `Verify` and `SaveEvolvedRule` to hashing *the
files as they are now* and writing `candidate.json`. A call of `approve_rule` is
`Request`, `Acquire`, the reads of metadata, rule and test, one of four outcomes
of the transaction, the two file writes and, on a failure, `Compensate`. A write
may fail and a process die between any two of them. A loader reads the manifest
once and then file by file, without a lock. The bytes of a rule are the pattern it
was generated for; a digest is equality of bytes.

In `RuleRegistry` a worker that holds the lock executes a module: a load, a
verification, or a plugin's entry point. Its decorators `Register`; approved and
candidate modules may also `Spoil` a bucket or the source. The end is a commit, a
rollback, or, for a plugin that raised, nothing. Other threads register in
two steps, the decorator's creation and its use; evaluators copy under the lock.

`Incidents` separates what the code reads from the transaction that uses it: the
migration selects patterns and rules (503-520) and then rewrites them, a gate run counts
(590) and then upserts (599-631). Patterns are identified by the old or the new hash:
the initial database holds up to `MaxLegacy` incidents, and the pattern, an earlier
version left under the broad hash. Processes die between any two steps and start again,
which runs the migration again.

A handoff is the rule it is for and the id it was written with; a dispatcher lists
the directory once, and per file reads, writes two copies and unlinks *by name*.

### Gate

`Register` adds a rule at any moment. `BeginChange` takes a snapshot of the rules
for one change, `Call` is one rule's answer, any list of `Returns`, `RuleRaises`
its exception, `Fold` is `_max_result`. Then findings, overlays, controls, the
decision and the exit code. `heard` is a history variable: every verdict given, by
whom, for which change.

### Verdicts and other inputs

A rule is a row: the types it is registered for, the ladder of risks by action, and
what its findings add on which actions. Two types or two tests that a rule treats
alike are one. A *fact* is the answer of one such test, so a change is a type, an
action and a set of facts, and a behaviour revises it one fact at a time. The
floors of the playground are computed as its build script does, from the Python
rules and empty attributes. `ToolAdapters` maps the operations of three tools to
risk and action, and says which facts each tool's attributes let a rule see.

`KubernetesInput` has the code's identity of an object (group, kind, namespace, name,
with its list of cluster-wide kinds), while `PlanInputs` compares with the cluster's.
`StateInput` holds a value's path of two keys, the marks of the schema in both
representations, the raw one with paths of keys or of step objects, tainted and deposed
objects, outputs, checks and postures of a database. A Nomad plan is one path of its
diff, a Nomad job one path of its blocks. `PipelineInputs` describes each adapter by
what it says of a document and of a step, where it looks for steps and which nestings it
follows; the walk is common. Where CI systems run steps the adapters do not walk is
listed apart.

### Scan, front ends, evidence

`Discovery` decides which adapter a file name and a content lead to, with the limits on
size and number. In `ProjectScan` a file may be rewritten, removed or made unreadable
between identification, measurement and analysis; the MCP tool works on a copy.
`FrontEnds` has a row for each of the 92 commands and 59 tools: what a command takes and
which handler it reaches, which adapter a handler or a tool asks for and how, and with
which parameters a tool is served and its handler called. What all handlers do alike,
and all tools, is written once (`CliOutcome`, `McpOutcome`): the file is read, parsed
and recognised, the catalog of the framework loaded, and the gate printed, each step
with its error. A framework that does not load ends a scan before it looks at the tree;
the run has one that loads, the theorems are for all three cases. In `Evidence` two runs
analyze, digest, sign and write one file; the plan changes in between, and what lies
there is edited, reformatted or given another signature before it is verified for an
identity. A write truncates the file first, so that one that fails, an error the run
reports, may leave it torn. Signatures are abstract: one is made by an identity over a
digest and cannot be made otherwise.

### Chat

Time is a counter that `Tick` moves up to `MaxTime`, so an alarm may run late. A
check is a transaction and, when it opened a window, a later `SetAlarm`; an
eviction may strike in between. `HostedChat` adds to each check the request it
belongs to, the provider call, the deadline, and a client that may leave.

## 3. What the runs check

| Run | Instance | Distinct states | Shows |
|---|---|---|---|
| `rule_approval` | 2 patterns, scores 95 and 100, 2 approvers, 1 loop, 1 loader, 2 loop runs, 2 calls, one fault of each kind | 366,500 | a success means published (`ApprovedIsPublished`), database and disk can be repaired (`RetryCanRepair`), only executed bytes are published, the whole implements `AllowList`, every call returns |
| `approval_two_loops` | 2 gate processes, 2 patterns of one rule id, 1 approver, no faults | violation | see findings |
| `registry_threads` | 2 workers, an approved rule, a candidate, a plugin hook, a caller, an evaluator, 2 executions | 88,000 | candidates never run, provenance, loads once, implements `AtomicRegistry` |
| `handoff_dispatch` | 2 rules, 2 dispatchers, 3 handoffs, 2 faults, a foreign file | 166,000 | listed is delivered, no rule vanishes, listed again only when superseded |
| `incident_patterns` | 2 processes, old and new pattern identities, 2 incidents of the earlier version, up to 4 in all, 2 gate runs, deaths and restarts | 354,000 | a migrated identity is never live, a live rule has its pattern, a count was true at some time |
| `risk_gate` | 6 plans, 5 command lines, 2 rules, 4 lists of results | 83,000 | early rules are asked, exit 0 is clear, implements `SeverityCeiling` |
| `added_controls` | 1 change, 1 overlay control | violation | see findings |
| `verdicts` | all types of the tables, all actions, pairs of facts; 2 edits of manifests, 3 steps of a state, a workload, a pipeline | 190,900 | the playground is never lower and agrees where it has rules; the tools agree; a diff, a state, a workload are reported for what is in them; worse never looks better |
| `project_scan` | a tree for each row of the identification tables, trees whose files change, 2 changes, limits of 2 files and 3 units of size | 85,000 | proceed means clear, the copy is the one measured, what was found is analysed, the front ends agree |
| `evidence` | 2 runs, 2 identities, a plan with 2 contents, edits and replays of the file | 1,467,000 | verified means authentic, honest evidence verifies, every run accounts for its file |
| `chat_limiter` | 5 checks, limit 2, window 3 ticks, 2 ticks a second, time 0..7, 1 eviction | 1,573,000 | fewer than twice the limit in any stretch as long as a window, Retry-After, every window is deleted |
| `chat_requests` | 2 requests, limit 1, window 2, time 0..4, 1 eviction | 37,000 | fails closed, no orphaned call, a gone client is not paid for, every ask is answered |

Every property of a passing run has at least one mutant in `PROJECT.json`, a
`Fault` operator in the place of the code's, under which TLC finds the property
violated: evidence that the instance is large enough for the case it is about.

**Bounds.** All are in guards and named. `MaxRuns`, `MaxCalls`, `MaxLoopFaults`,
`MaxWriteFaults`, `MaxDeaths` (approval): two calls suffice for every race of the lock
and for one that repairs what a failed or dead one left, two loop runs for a candidate
that is regenerated under a call. `MaxExecs` (registry), `MaxWrites`, `MaxFaults`
(handoffs). `MaxRuns`, `MaxEdits` (evidence): two runs are two writers of one file, one
edit separates what the plan was from what it is. `MinIncidents` is the code's
threshold, lowered so that two incidents qualify; `MaxIncidents`, `MaxLegacy`,
`MaxGates` (incidents) let a pattern qualify twice and a legacy pattern be met by two
starts. `MaxFiles`, `MaxFileBytes` and `PrefixBytes` (scan) are limits of the code at a
small size, `MaxChanges` the edits of the tree. `MaxLearnt`: a rule tests at most two
facts together, so all its combinations are met. `MaxManifestEdits`, `MaxStateSteps`,
`MaxWorkloadSteps`, `MaxPipelineSteps`: two edits are needed for a rename or a move,
three for what stands in a nest in a nest. `MaxTime`, `MaxCrashes` (chat): the limiter's
time spans two windows and more, so that an alarm set for the first may run in the
second or after it, and five checks are two windows that meet one stretch, admitting
between them more than the quota, and a refused one.

**Fairness.** `rule_approval` assumes weak fairness of each approver's step: a live
process goes on, and the wait for the lock (EV 66-81) ends for one of the waiting calls
whenever the lock is free. Nothing is assumed of users, loops and loaders.
`chat_limiter` assumes what the platform promises: time passes, a check or alarm that
has begun goes on, alarms fire. `WindowIsDeleted` excepts one window, whose opener was
evicted between its transaction and the alarm (`Orphaned`): nothing deletes it until a
check of that client finds it expired (`index.js` 54-57). `chat_requests` assumes
*less*, only that the two timers fire: limiter and provider may stay silent forever,
which is the case the timers are for.

**Deadlock.** Where a cfg says `CHECK_DEADLOCK FALSE` the bounded system really
stops: all calls made, all time used, no revision left. The registry and handoff
runs are checked for deadlock.

## 4. Findings

`added_controls`: an overlay control that the catalog does not already give ends the
run with an AttributeError, because overlay mappings have no `mapping_kind`
(`overlays.py` 40, `controls.py` 74). `PROJECT.json` quotes the test it contradicts.

`approval_two_loops`: approval publishes a rule that no verification has executed,
against the docstring at EV 963 ("copies the exact validated bytes"). Resource types
that normalise alike (104) give two patterns one rule id and so one candidate file. A
loop verifies what it reads at 761 and takes the digest from a second read at 813; if
another gate process writes its own rule in between, the digest recorded beside
`verified: true` is of the other rule. One loop, or distinct ids, exclude it, which
is what the theorem `PublishedBytesWereExecuted` says.

Further divergences met while modelling. The models do what the code does, and the
properties above are stated so that they hold of it; each exception is named there.

- Approval. A gate run between two approvals resets
  the status to pr-ready (1246), and approving the identical candidate again fails,
  which a test calls an idempotent success.
- Registry. A plugin hook that defines rules in its body registers copies at each
  discovery (SH 781; docstring 767). A plugin that raises keeps its rules (783).
- Handoffs. The unlink by name may delete a newer handoff (EV 1364).
- Incidents. A start that read before another process migrated disables, or with a
  reused id deletes, a pattern that qualified since; of two counts the lower may win
  (609); a UNIQUE failure (614) leaves the gate as an exception.
- Gate. An overlay that raises a risk leaves the source at the losing rule
  (`plan.py` 26), and overlays do not reach plan findings (`cli.py` 3306).
- Playground. Its list of deprecated runtimes is older than the rules' (`classifier.js`
  153, SH 363); a change without actions is a no-op for it and unknown for the analyzer;
  floors cannot see attributes. Whether an attribute changed it decides by how the
  values are written (`classifier.js` 103-120, SH 293-298): a null that becomes absent,
  the keys of an object in another order, `1` for `true`, and for health checks any two
  objects are changes for the browser and none for the analyzer. In the model such an
  attribute is *respelled*, and the browser's verdict is the one the analyzer would give
  had it changed, which is never lower (`AuditedAgree`, `BrowserNotLower`). Numbers too
  large for the browser and attributes of a wrong type are left out.
- Scan. The MCP project tool recognises files by name, and by content only those of
  three suffixes that no name test takes (`mcp_server.py` 267-290), unlike scan (README
  376). A file that cannot be read while it is identified is passed over
  (`project_scan.py` 733); an exception an adapter does not expect ends the scan.
- CloudFormation keeps CamelCase names of properties, which no rule reads, against the
  comment at 100-102; Pulumi's Azure resources come in the shape of the provider, where
  the rules look for that of the resource manager; what Azure only says to deploy comes
  without properties. All of these are judged as if nothing showed (`PlannersAgree`);
  `AWS::CloudWatch::LogGroup` is not a type of the tool.
- Kubernetes. Equal kind and name of two API groups make a diff malformed; a change of
  `webhooks` in a webhook configuration is no change; an object moved to another group
  with equal properties is no change.
- Terraform state. The raw form's check results are not read. Of raw sensitive paths
  only those of bare keys, as in the tests, are recognised; of those of step objects,
  which Terraform writes, none is, so that marked values with harmless names reach the
  rules and the report calls marked secrets unmarked (`terraform_state.py` 180-187).
  `SnapshotIsReported` says so of these snapshots, and that all others agree.
- Nomad. Canaries and preemptions alone are "no change"; several volumes of a JSON job
  are read as one without a type, and `ReservedPorts` not at all where there are
  `DynamicPorts` (`nomad_job.py` 430). A list that is null, as Nomad prints an empty
  one, ends the analysis of a JSON job with an error (99-104).
- CI pipelines. Not walked: GitLab's hidden jobs, CircleCI's `commands` and `when`,
  Azure's template expressions, Travis' `matrix`, Woodpecker's `clone`, Concourse's
  `on_error`; what they run is for review. A secret passed to an Azure template or a
  reusable GitHub workflow is not reported.
- Evidence. The file is not written atomically: a crash, a second writer, or a write
  that fails after the truncation (an error is printed and 1 returned) loses the
  evidence it held and may leave it torn (verification then fails). ADR 0008 lets the
  consumer judge the identity; the code requires it.
- Chat. The body is read without a deadline (`chat.js` 117); an answer of the provider
  that is not JSON is reported as a bad request (410).

## 5. What is proved

With TLAPS, for every value of the constants that meets the named assumptions.

**`RuleApprovalProofs`**: `TypeOK`, `PublishedFilesMatch`, `LoadedIsAllowed`,
`RecordsKept` and the refinement of `AllowList`. The inductive invariant adds who may be
where: at most one approver is past `Acquire`, it holds the lock, the manifest it read
is still the manifest, and once it has written the file, the file has the digest of the
record it is about to list. A loader's list is part of today's manifest because records
are only ever added.

Three more invariants build on it. `RowsInv`: a call that is past its transaction is for
the pattern whose rows it changed, so a row is approved only while its record is listed
or that call runs (`ApprovedIsPublished`, without further hypotheses). `ExecutedInv`: a
loop that has written a candidate still finds its own bytes there, and a digest recorded
as verified is of executed bytes (`PublishedWasValidated`, under `OneLoop \/
NoSharedIds`). `ResidueInv`: the candidate on disk is the one the rows describe
(`RetryCanRepair`, without further hypotheses). It is about candidates that one loop
wrote from begin to end with no other loop writing there since, which two history
variables record (`alone`, `whole`): what several loops wrote into each other, or one
left half-written, a later call refuses, and rightly. Only `PublishedWasValidated` needs
its hypothesis, which the code does not guarantee: the finding `approval_two_loops` is a
system in which it fails.

**`RuleRegistryProofs`**: `TypeOK`, `CandidatesNeverRun`, `SourceIsOwner`,
`RegistrationsKept`, `ApprovedLoadedOnce` and the refinement of `AtomicRegistry`.
Strengthening: exactly the holder of the lock executes a module; while the lock is free
the source is the default and no candidate's function is registered; while it is held,
the holder's snapshot is free of candidates, the source is the executing module (unless
it is a verification, whose registrations never outlive it), and a plugin has only
extended what it found. For the last two `ExecInv` adds that functions carry the number
of their execution: the running one is newer than all the registry held before it
(`GrowingInv`, `OlderInv`), and of an approved rule the committed registry holds one
execution at most, a loaded one (`OnceInv`). A step maps to the addition of a whole
module or to a stutter.

**`EvolutionProofs`** of `Handoffs`: `HandoffsTypeOK`, `ListedIsDelivered`,
`RuleIsHandedOff`, `PendingIsNotListed`, `ListedAgainOnlyIfSuperseded`. The last is a
counting argument: each listing of a handoff consumed a file, and the files of a rule
are at most the handoffs written for it, by cardinality over the finite set of ids.

**`RiskGateProofs`**: `TypeOK`, `SeverityIsKept`, `RiskHasItsSource`,
`EarlyRulesAreAsked`, `ExitZeroMeansClear` and the refinement of `SeverityCeiling`. The
invariant follows a change through the run: what has been collected for it and what is
still to be asked (`AskInv`), that the value folded so far is the highest of the
consumed candidates (`Weighed`), that nothing is heard about a change that has not begun
(`InOrder`), and that the plan's findings are all heard (`FindingsAreHeard`).

**`EvolutionProofs`** of `Incidents`: `TypeOK`, `LegacyQuarantined`,
`LiveRuleHasItsPattern`, `CountIsWitnessed`. `RowsInv` has the shapes of the rows, with
bounded ids; that the next id is unused needs a largest id, which finite sets have by
well-foundedness. `StartInv`: until a start has completed, the only row is the broad
one, every process is starting, and an id in the hands of one is that row's. After that,
the invariant is the two properties themselves: a migration, even one that works from an
id read long ago, disables the rules of the row it renames or deletes, and deletes it
only after its rules were given to another row. `StepAssumption` keeps the names of
steps apart from hashes.

`CountInv` is for the counts. A process counts in one transaction and writes in another,
and between them another process may move incidents away from the broad hash. The
invariant says what each process holds at the step it is at (`Fits`): what it has
counted for a hash is at most what is recorded under that hash by its own actions, which
no migration takes away, and it can have counted only after a start has completed, when
no incident is left to migrate (`Clean`). The count is a sum over the set of kinds,
`MapThenSumSet`, whose recursive definition no induction theorem reaches. The sum lemmas
go around it: two solutions of the equation of the sum agree on every subset, since of
those on which they differ there would be a smallest, and a solution exists for each
bound on the size, by the same argument.

**`EvidenceProofs`**: `TypeOK`, `VerifiedIsAuthentic`, `HonestVerifies`,
`RunsAccountForFile`. The invariant says of every bundle Sigstore issued that its bytes
are truthful, of every envelope written that it is unsigned or matches its bundle, of
what lies in the file, edited or not, that it shows only bundles that were issued, and
of a run at each step what it has read, built and signed, whether it has opened the
file, and whether anyone else has touched it since. `EvidenceAssumption` is that
options name known identities and plugins, and that JSON's null, a missing key and a
bundle differ.

**`ChatProofs`**: for the limiter `TypeOK`, `QuotaHolds`, `RetryAfterSuffices`; that
`HostedChat` implements the limiter's specification; `ChatTypeOK`, `FundedIsAdmitted`,
`NoOrphanedCall`, `GoneIsNotFunded`. `LimiterInv`: the stored count is the number
admitted in the stored window, windows that admitted are disjoint, none holds more than
the limit. A stretch as long as a window meets two of them at most, and both only if the
later one opens in it; its opener is then the first it admits (`OpenerInv`), so that the
two admit fewer than twice the limit in the stretch, which two limits less one reach.
`PageInv` relates the step of a request to its check and its provider call.

**`ProjectScanProofs`**: `TypeOK`, `ProceedMeansClear`, `CopyIsMeasured`, `FrontsAgree`,
`ToolsAgree` and, for either front end, the refinement of `SeverityCeiling`
(`ImplementsCeiling`). Every action is a *turn* of one front end (`Turn`), so that each
lemma is about one scan. `ProgressInv` counts: there are never more results and errors
than inputs found, each result is of an input found, and as long as there is no error
the k-th result is of the k-th input; so a decision to proceed, which needs no errors
and only safe results, has heard every input. `FoundInv` adds how much can be found and
that every tool found is one of the tables: it looks at each row of the identification
tables and of `FrontEnds`, of which the theorems before it use nothing. `StillInv`, of a
tree nobody has changed, says that what is found is what is identified at the places
looked at, and that each note is the one that place gets; `FrontsAgree` then compares
the notes of one place. For the refinement, what a scan has heard is the ranks of its
results, a review for its errors and, once discovery ended with nothing, a review for
that, so that the end of a discovery, each answer and the decision are steps of the
abstract gate and all others stutter. `TreesAssumption` gives trees and changes their
shape, `LimitAssumption` makes the two limits positive, the bound on changes a natural
number, and the framework one that is not asked for, loads or fails. `FrontsAgree`
excepts two things of the code. A file that an earlier test of content takes from a
later test of its name (a Puppet external fact `facts.d/hosts`) is the earlier tool's
for the command and the later one's for the MCP tool, which inspects no content there
(`project_scan.py` 301-313, `mcp_server.py` 267). And a file that cannot be read is an
error of both, for different reasons.

**`PlanInputsProofs`**: every property of the `verdicts` run, for any number of facts,
steps, instances and manifests. What the tables say is used one row at a time.

- `BrowserNotLower`, `AuditedAgree`, `EscalationNeverLowers`. Each rule of the analyzer
  is *sound*: its ladder rises with the action, what it finds irreversible it finds on
  every action, and for an audited type a row of the browser *mirrors* it, the same
  ladder and findings up to the runtime list (`BrowserBlind`). The browser is given what
  is respelled besides what changed. A highest of a larger set of verdicts is no lower,
  so tables built of such rows agree. `ChangeInv`: the verdicts are those of the change
  as it stands, whatever order it was learnt in.
- `PlannersAgree` is a fact about the maps of the adapters and the shape they hand over;
  no state is needed for it. What Azure's rules read under `properties` it sees there,
  what the rule for machines compares is lifted out of it (`ReadUnderProperties`). Types
  an adapter does not translate have no rules; Pulumi's azure-native machines are left
  out, and Terraform's own azurerm resources have no `properties`, so that findings on
  these types are those of what-if.
- `SnapshotIsReported`. `StateInv`: there are at most two instances, and a deposed one
  is never alone; the rendered form shows it only as a second object at one address.
- `WorkloadsAreReported`, but for the places not walked, the template secrets and the
  several volumes of a JSON job that the findings above name; a job with a null list
  gets no verdict. `WorkloadInv`: a Nomad plan that counts a step has something
  to report (else a diff of empty nodes would have to be dangerous), a Nomad job has a
  task only at the depth of tasks, a pipeline has places and nestings of its own system
  and a step that asks for something. What an adapter walks is read off its row once
  (`AdaptersWalk`).
- `ReportExplainsDiff`. `ManifestsInv` makes the two lists sequences of manifests. The
  parts of a report are then counted: where no two manifests of a list are of one
  object, removed, added and modified changes are each a bijection with the manifests
  gone, come and changed, and the three are disjoint. The code's test for ambiguity,
  fewer identities than manifests, holds exactly when two manifests are of one object: a
  surjection between finite sets of one size is injective.

Two forms were corrected for these proofs. `Rung` of `RuleTables` was a `CASE` whose
arms overlap, of which TLC takes the first and the prover may take either; it is the
`IF` chain of the code now. A `UNION` in `StateInput` was given the parentheses that TLC
and the prover agree on. `Handoffs` has names of its own (`HandoffsNext`,
`FinishDispatch`, the constant `Candidate`), so that one module of proofs can extend it
and `Incidents`, as one source file holds both.

Proved and no longer in a run, since the theorem is stronger: `TypeOK` of approval,
registry, incidents, scan, gate, evidence and limiter, `HandoffsTypeOK`, `ChatTypeOK`,
`PublishedFilesMatch`, `LoadedIsAllowed`, `RecordsKept`, `RegistrationsKept`,
`PendingIsNotListed`, `SeverityIsKept`, `RiskHasItsSource`.

Only model-checked:

- Liveness (`EveryCallReturns`, `WindowIsDeleted`, `EveryAskIsAnswered`), which is out
  of the prover's reach.
- `FoundIsAnalysed`: which content belongs to which tool is given by the trees of the
  instance, so that the property is about the instance together with the tables.

## 6. What is not modelled

- The adapters for projects and configuration (Ansible, Puppet, Chef, Jenkins and some
  fifty more): each parses one document and lists findings with a fixed risk, with no
  order, state or second computation to compare with. The scan takes their verdict on a
  content as given, and `FrontEnds` has how they are named, recognised and fail.
- Parsing, and the tests that turn attributes into facts; explanations and rendering.
- Path, link and permission tests on directories; the confinement of the MCP server.
- SQLite itself: a transaction is atomic, as `BEGIN IMMEDIATE` and single commits make
  it. `os.replace` is atomic; a power loss that reorders writes is not modelled.
- Cryptography and the transparency log; the MCP protocol; CORS, reply sanitising.
- CI configuration, the action and the development tools: scripts around the CLI.

## 7. Plan

Done: the core (approval, registry, handoffs, chat, gate) with first theorems;
incidents, scan, front ends, evidence; rule tables, playground and the other inputs.

Proofs of every safety property of a passing run but `FoundIsAnalysed`, of the types of
every state that changes in steps, and of the refinements of `AllowList`,
`AtomicRegistry`, `SeverityCeiling` and the limiter.

Open: the records of `Handoffs` on disk, which a crash of the machine may leave without
their rule in the database.
