# A verification development of GuardMCP

GuardMCP is a gateway between AI agents and databases. Every tool call of an agent becomes a
`Request(agent, collection, action, params, database)`, is decided against the agent's policy,
recorded in a signed audit log, held for a human where the policy asks for one, and only then
executed; what comes back is limited and masked. The gateway is one asyncio process: nothing is
preempted, and everything that is hard happens at an `await`. This directory holds TLA+ modules for
the parts in which that matters and for the algorithms they lean on, TLC configurations that check
them on small instances, and TLAPS proofs.

Paths below are relative to `src/src/guardmcp/` unless they begin with `docs/` or `tests/`.

## 1. Inventory

| Component | State | Operations | What is hard |
|---|---|---|---|
| Approval store, `core/approval/store.py` | records `pending/approved/denied`, an `asyncio.Event` per waiter | `create`, `wait_for_decision`, `resolve`, `prune`, `shutdown` | human, timer, prune loop and shutdown race one waiter; a cancelled caller |
| REST approval API, `api/approval.py` | none | `list`, `get`, `decide` | acknowledges a decision that may be too late |
| Audit logger, `core/audit/logger.py`, `verify.py` | queue, flusher task, chain head, file | `log`, `_flusher`, `_write_batch`, `aclose`, `_load_last_hash`; `verify_chain` | batches fail half way; crash and reseed; `aclose` against `log`; two flushers |
| Policy engine, `core/policy/{models,engine}.py`, `core/risk/engine.py`, `core/validation.py` | none (pure) | `evaluate`, `scope_for`, `mask_fields_for`, `classify`, `escalate_for_cost` | layers of lists that replace one another; what an empty list means |
| Policy loader, `core/policy/loader.py` | policy map, modification time | `load`, `_watch`, `_merge` | files come, go and change between any two system calls of a load, and contradict one another; inheritance drops fields |
| Policy explanation, `core/policy/{explain,trace}.py` | none | `diff_policies`, `classify_impact`, sentences | a rating made from lines of text |
| Guard pipeline, `core/pipeline.py` | locals of each call across its awaits | `run`, `execute_approved`, `evaluate`, cost step, aggregation guard, audit calls; discovery and switch variants | decide, record, wait, execute with stale policy; failing audit; cancellation |
| Confirm path, `server/tools/_common.py` | locals of each call | `_run_with_confirm`, `_elicit_confirm`, the effective database | the dialog lasts minutes |
| Rate limiter, `core/ratelimit/limiter.py` | a token bucket per agent | `check`, `_maybe_evict` | fractional tokens, eviction |
| `guardmcp_setup`, `server/tools/meta/setup.py` | none | writes the policy file, loads it | races the watcher |
| Lifecycle, `__main__.py` | tasks | prune loop, start, shutdown | order of the shutdown steps |
| Connections, `core/registry/{connections,registry}.py`, `adapter.py` | active backend and database in context variables | register, switch, resolve, forward | what one request switches, another reads |
| MongoDB executor, `plugins/mongodb/{executor,client,plugin}.py` | none | `execute` with retry, find, aggregate, explain, writes | a lost answer of a write; pages cut by size |
| Schema cache, `plugins/mongodb/{schema_cache,schema,relationships}.py` | samples per database and collection | fill, hit, expiry, eviction, type map | fills that race over one name in two databases |
| Marshalling and cost, `plugins/mongodb/{marshal,cost}.py` | none | coerce a filter, read a plan | a silent miss against a false refusal |
| Pipeline walker, `plugins/mongodb/guard.py` | none | stages, collections and paths of a pipeline | joins at any depth; masked fields under new names |
| Masker, `core/masking/masker.py` | transformers cached on policies | mask documents | recursion over nested data; a cache keyed too coarsely |
| Responses, limits and exports, `server/responses.py`, `core/response_limits.py`, `core/export.py` | export files | size limit, paging, markers | two limits cut one page |
| SQL plugins, `plugins/sql/`, `plugins/{postgres,mysql}/` | a pool | validate, translate, execute, estimate | one argument list for several clauses; counts differ by dialect |
| Planning, `core/planning/`, `core/context/` | none | discover, describe, plan, join keys, paths | each lookup reads the policy anew; some of them fail |
| Tools, `server/tools/{read,write,export}.py`, `meta/` | none | build requests, chain lookups | argument checks; two reads of the policy in one handler |
| Metrics, logs, config, paths, CLI, eval, conformance | counters, settings | formatting and I/O | little that TLC would reach |

Interactions. A read or export tool calls `GuardPipeline.run`: limiter, then evaluation under
`PolicyLoader.get`, then (with `max_cost`) a cost estimate by the plugin, then an audit record, then for
a held request the approval store until the REST endpoint, the timer or the shutdown hook answers,
then a second record, then the backend, whose documents are masked and cut before they are answered. A
write tool calls `_run_with_confirm`: evaluation, the dialog with the client for a held request, then
`execute_approved`, which evaluates again, records and executes. Listing, describing, switching and
planning go through the discovery variants of the pipeline, which only record. The loader's watcher
replaces the policy map at any await of any call. The MongoDB executor marshals a filter by the schema
cache, which may sample the server first. The shutdown of `__main__.py` stops the watcher, drains the
approval store and closes the audit log.

What makes each part correct:

* **approval store** - nobody is told "approved" without a human; an acknowledged verdict stands;
  nobody sleeps for ever;
* **audit log** - the file verifies at every moment; who was told "written" is in the file, who was
  told "failed" is not; every caller is answered;
* **policy** - an edit that tightens a policy tightens every decision, through inheritance too; what
  the simulator rates harmless is; escalation only makes stricter;
* **pipeline** - nothing runs without a permission in the trail; a held operation runs only after
  the consent of a human to that call; a refusal is final; a revoked permission is not used;
* **limiter** - burst plus rate bound every stretch of time; nobody is starved by polling;
* **loader** - only maps that validate and resolve come into force; no policy is lost to a broken file; what the
  files say in the end is enforced;
* **connections** - a call reads where it was judged, and answers name what was permitted;
* **executor** - a write takes effect once; a filter is read by the types of its own collection;
* **results** - what is masked stays hidden at any depth, and under any name the guard can tell; pages tile the
  result;
* **SQL** - a statement touches what its request means and is counted as it happened;
* **planning** - nothing is gathered that the policy withheld; join keys and paths are all there, once.

`PROJECT.json` lists the hazards one by one, each at its line and with the properties about it.

## 2. Modules

| Module | Models | State and actions |
|---|---|---|
| `ApprovalStore` | `core/approval/store.py`, `decide` of `api/approval.py`, prune loop and shutdown hook | per request: `status` (`none`, the three stored ones, `gone` after prune), `event`, `waiter`, `result`, `age`; `acked` is history: what the endpoint told the human. One action per operation; the timer is split into `TimerFires` and `WakeTimedOut`, since `wait_for` may time out in one turn of the loop and the coroutine run in a later one. Its definitions carry the prefix `Store`, as `GuardPipeline` extends it |
| `AuditLogger` | `core/audit/logger.py`, `verify_chain` | `queue`, flushers with their program counter, batch and base, `task`, `prev` (the head), `disk` (the file, as lines `[rec, prev]`), `call` per caller. `TakeBatch`, `SignBatch`, `WriteOk`, `WriteFails` are the stretches of the flusher; `CloseBegin`/`CloseEnd` are `aclose` before and after its await; `Restart` is the death of the process and `_load_last_hash` |
| `PolicyDecision` | `core/policy/{models,engine}.py`, `core/risk/engine.py`, `core/validation.py`, `_check_temporal`, `_guard_aggregation`, cost step | no state: `Evaluate(policy, request, now)` and the operators under it |
| `PolicyFiles` | inheritance in the loader; `diff_policies` and `classify_impact` | no state: `Resolved(files)`, the table of what each name comes to, as a recursive function; `Loadable(files)` with `NoCycle`; `Diff`, the lines of the simulator without their items, and `Impact`, the rating made from them |
| `CostEstimates` | `core/interfaces/cost.py`, `plugins/mongodb/cost.py`, `plugins/sql/cost.py` | no state: what each backend's reading of a plan makes of it |
| `PolicyEdits` | what an operator writes between two loads | `files`, `policy`, `edits`; one action per kind of tightening edit (collections and masks of the flat scope and of the blocks, actions, databases, fields, connections, mode, window, approval), in an agent's file or a role's |
| `Governance` | the promise: authorised, then recorded, then performed, and nothing after the end | four sets of calls |
| `GuardPipeline` | `run`, `execute_approved`, `_run_with_confirm`, `_execute_and_build` | extends `PolicyDecision` and the whole of `ApprovalStore`, whose state and actions it shares (`RunCalls` are the requests), with the awaits of each call: `pc`, `used`, `decision`, `entry`, `outcome`; refines `Governance` |
| `RateLimiter` | `core/ratelimit/limiter.py` | `buckets`, `now`; `admitted`, `refused` are history. Its definitions carry the prefix `Limiter`, so that the proofs can stand beside those of `Connections` |
| `PolicyLoader` | `core/policy/loader.py` (load, watch), `guardmcp_setup` | `present`, `file` (the content and mtime of each file there is), `dirTime`, `policies`, `mtime`, and where a load stands: the look for the path, the listing of a directory, each file read, the swap and the stat are steps of their own, as writers are other processes. `parsed` is what was read so far, `during` and `raced` are history: what each file has been since the load began, and whether anybody wrote during one. Its definitions carry the prefix `Loader`, so that the proofs can stand beside those of `PolicyEdits` |
| `Connections` | `core/registry/`, the handlers of `server/tools/read.py`, the discovery half of `core/pipeline.py` | `session` and each call's copy `ctx` of the context variables, `policy`, `held`, `target`, `verdict`, `trail`; a handler is `Begin`, its audit line, and a step for each time it reaches a backend or reads the policy again |
| `MongoExecutor` | `execute` with its retries, the schema cache, type maps, `marshal_filter` | `docs` at the server, `cache` and its `order`, `clock`; each operation's `pc`, `attempt`, `map`, `answer`, `rows`. The server's answer to a sample and the task's return to the cache are two steps; `Lost` and `AckLost` lose an answer before and after the effect |
| `Aggregation` | `plugins/mongodb/guard.py`, and the server's reading of the same pipeline | no state: a JSON tree is the set of its nodes (a place, and the tree that is there), down to `MaxNesting` levels; the guard is said over the nodes of a pipeline, and so is what the server reads and writes for it. A string after dollar signs is a `path` (`$a.b`) or a `variable` (`$$ROOT.a`), told apart by the server and not by the guard |
| `Results` | find and aggregate of the executor, the size limits, `core/masking/masker.py`, transformer cache, `core/export.py` | `store`, `policy`, `built` (the cache), `ask`, `held`, `answer`, and `book`: what an agent has read page by page. The server's answer to a pipeline is a constant, `Output`, which `MCResults` defines for the stages it uses; `ResultsAssumption` says that it is JSON, `ServerAssumption` by what means a pipeline gets at a stored value |
| `SqlStatements` | `plugins/sql/{validate,translate}_base.py` and the two dialects | no state: request to statement `[verb, one, clauses, args]`, where a clause is a text with numbered places; what a driver puts in those places |
| `SqlExecutor` | `registry/adapter.py`, `execute` of the two plugins | `table`, each call's `pc`, `req`, `query` (the statement it sends), `answer`, `docs`; `touched` is history; `wordy` and `WordyColumns` say which names hold the word RETURNING |
| `CrossDb` | `core/planning/cross_db.py` | no state: candidates, confidences, merging, chains |
| `Planning` | `meta/plan_query.py` over `core/planning/` and `core/context/` | one call as a sequence of lookups, each with the `policy` of its moment: `names`, `chosen`, `graph`, `plans`, `databases` (still to be listed), `queue` (their collections still to be described), `inventory`, `roles`, `matched`, `aligned`, `semantics`; `sampled` and `seen` are history |
| `*Proofs` | theorems: `GuardPipelineProofs` about `ApprovalStore` and `GuardPipeline`, `PolicyProofs` about `PolicyEdits` with `PolicyFiles` and `CostEstimates` under it, and about `PolicyLoader`, `SessionProofs` about `RateLimiter` and `Connections`, `ResultsProofs` about `Results` with `Aggregation` under it; the others about the module they are named for | section 5 |
| `MC*` | constants of the runs | |

Definitions called `X_Something` next to `X` are mutated forms of `X`: what a plausible slip in the
code would make of it. Each checked property is violated when its mutant takes the place of the original.

Abstractions. One step of a model is one stretch of code between two awaits, except in the loader, whose files other
processes write, and in the flusher, where file I/O goes to a thread and can fail. HMAC is a link to the predecessor
that is never forged. Requests of the pipeline carry the action, the collection, the database, whether the filter is
empty, and the collections and fields their aggregation touches. Modification times have the granularity of one write.
Of a policy file the loader's model keeps whether it is empty, parses and validates, and which agents it defines and
what they extend; an agent repeated within one file, where the last definition counts, and the several stats of one
poll are left out. Tokens of the limiter are integers in units of `1/Grain` token, so the model has no rounding (the
code uses floats). In `GuardPipeline` a cost estimate, the backend's outcome and a human's decision are free choices
of the environment; `CostEstimates` says where estimates come from. A MongoDB collection is, for marshalling, one
field with documents of a type and a text, and a date stands for the six types that are coerced; for masking it is a
list of JSON trees in which a stored scalar carries all the names it is stored under, from the top field down, and any
other scalar is a literal. Five of the twenty permitted stages stand for the others. An SQL request is its columns,
operators and values, and a table a function from row identities to rows. Planning keeps fields and sampled values,
which names are the same but for a plural ending (`Plural`, `Stem`) and which fields are unique by index and sample
(`Unique`); it leaves out the stamps of `known_stamps`, the verbosity levels and the plans' texts.

## 3. Runs

| Run | Bounds | Shows |
|---|---|---|
| `ApprovalStore_gate` | 2 requests, timeout 2 ticks, prune age 3 | consent (`ApprovedByHuman`), acknowledged verdicts stand (`AckedStands`), no lost wake-up, an approval is lost only to timer or prune, no decision after the answer; without a human every request that was not cancelled leaves pending, and resolved ones are pruned as long as the prune loop runs, which the shutdown cancels (`RecordsEnd`) |
| `AuditLogger_chain` | 3 records, 2 flushers, 2 failures, 2 deaths of the process, no `aclose`, atomic writes, fail-closed | the chain verifies; what callers were told agrees with the file, in the order of the calls (`FileMatchesCalls`); every caller is told |
| `AuditLogger_closing` | 3 records, 3 flushers, one `aclose` racing them, a failure, a death, a power failure, torn writes, fail-open | `aclose` returns; no record drops out of queue and hands (`WaitingIsHeld`) |
| `PolicyEdits_tighten` | 3 templates (two stand-alone files, one that inherits through two roles), up to 3 edits, 2 collections, 2 databases, 2 fields, 2 connections, 2 times | edits only tighten, in every layer and every file; a role's limits hold for who inherits them; what the simulator rates LOW widens nothing but the time window; cost escalation is sound for every plan of every backend |
| `GuardPipeline_calls` | one call of each path, 2 policies of which one expires, a reload, a tick, a lost audit write, timeout 1, prune age 1 | consent and refusals (`ConsentDecides`), recording, the trail's last word, revoked writes, the refinement of `Governance` (`KeepsPromise`), and the end of every call of the run path |
| `RateLimiter_rate` | 2 agents on a shared map, burst 2, two ticks per token, 6 ticks | burst plus rate, no starvation |
| `PolicyLoader_reload` | a file, and a directory of up to 2 files; 3 valid contents of which one extends another, a broken and an empty one, 3 writes, deletions and moves | what is in force validated, names no agent twice and has its bases (`OnlyWholeValidMaps`); no policy is lost unless its file was gone or empty (`PoliciesNotLost`); what the files say in the end is enforced, unless a write fell into a load |
| `Connections_requests` | 2 calls, 3 names of which one is not registered, 2 databases, 2 reloads | reads are recorded, and are never where another call has switched to (`ReadsAreGoverned`); answers name only what one version in force permitted (`ShownWasPermitted`) |
| `MongoExecutor_marshal` | 2 calls, 2 databases, a cache of one entry that lives one tick, one retry, one change by another client | no write takes effect twice; an operation with a map that still fits finds what is there and is refused only if nothing could match |
| `Results_masking` | page limits 1 and 3, a budget of 11 nodes, mask depth 1, JSON of 6 levels, one reload, nested documents and lists, pipelines that join, group and nest, by paths, variables and names | masks hide exactly what they name; no masked value under another name, unless by a means the guard does not compare (`PassesGuard`); joins only where permitted; pages tile |
| `SqlExecutor_statements` | 2 concurrent calls on tables of one or two rows that grow to four, both dialects, a table and a column with RETURNING in their names and without | each value in its own placeholder, rows of the filter and no others, counts that are true |
| `Planning_context` | 2 databases, 2 contents, 4 policy versions, 2 reloads, a failed lookup of any kind, one estimate, hops 3, samples of up to 2 | nothing gathered that every version withheld; join keys are complete and told once; paths are exactly the chains |

Why the bounds are enough: the interesting cases need two of a thing. Two requests let a decision reach
the wrong waiter. Three records give a batch of two with one behind it, or one on each side of a failure.
Two failures and two deaths reach a failure after a restart. Two policies with one reload make a decision
stale, and the tick makes it stale without one. Two ticks per token make halves occur. Three writes are a
change, a change back and one during a load, or the two files of a directory and one of them again; a base in one file and
what extends it in the other come apart by one. Two calls over two databases with a cache of one entry evict each
other and let the slower fill win. A sample of one in a collection of two is not representative. Two reloads
let a planning call go by three versions. Three edits strike two entries and
change a third place; one chain of two roles has a role between. A budget of 11 nodes cuts a page both before and
after its row limit does. Each bound is a constant that a guard of the module reads (`MaxFailures`, `MaxRestarts`,
`MaxCloses`, `MaxReloads`, `MaxNow`, `MaxAuditFailures`, `MaxEdits`, `MaxWrites`, `MaxTime`, `MaxChanges`, `Ids`);
`AgeCap` stops a record's age past the prune age, where it makes no difference. Deadlock is not
checked: with bounded environments all these systems end in a state in which nobody asks any more.

### Where the code and what is said of it disagree

Configurations in which TLC finds a counterexample; they are kept beside the runs above.

| Configuration, property | The code | What is said |
|---|---|---|
| `AuditLogger_reopen`, `ChainVerifies` | `aclose` sets `_task` to `None` although it may be a new flusher (`logger.py:115`); the next `log` starts a second one and the chain forks | `logger.py:58-59` "A single writer keeps the HMAC chain ordered" |
| `GuardPipeline_restapprove`, `RevokedApprovalStays` | after a REST approval `run` executes under the policy of before the wait (`pipeline.py:579`) | `docs/PROJECT_SSOT.md:349` "TOCTOU re-evaluation on approve" |
| `GuardPipeline_denials`, `DenialsRecorded` | `_run_with_confirm` answers a denial without a record (`_common.py:248`) | `docs/PROJECT_SSOT.md:332` "audit of every decision incl. denials" |
| `PolicyLoader_race`, `UpToDate` | the modification time is read after the files (`loader.py:195`): a write in between is never loaded | `loader.py:204`, `meta/setup.py:163` "hot-reloads changes every 30s" |
| `PolicyEdits_inherit`, `OwnDatabasesHold` | `_merge` leaves out `databases_allow`, `databases` and `max_cost` (`loader.py:45`), the child's own as well | the same fields without a base |
| `Connections_databases`, `DatabaseAxisHeld` | listing and describing the collections of a database look at the rules for collections and not at `databases_allow` (`pipeline.py:666`, `:690`) | `docs/superpowers/plans/2026-07-03-multi-db-governance-phase1.md:14`: a database not in it is denied |
| `Connections_switch`, `SwitchIsRemembered` | the switch is made in the request's own copy of the context and gone with it | `server/tools/read.py:255` "subsequent calls target" |
| `Results_truncation`, `TruncationIsTold` | some answers are cut without `has_more` or marker | `docs/FEATURE_STATUS.md:42` "never a silent truncation" |
| `Planning_masked`, `MaskedIsNoEndpoint` | relationships are inferred from schemas that were not masked (`plugins/mongodb/plugin.py:254`) | `docs/PROJECT_SSOT.md:712-713`: masked fields cannot be endpoints |

Properties of the same kind without a configuration of their own: `WiderFilterNotEasier` of `PolicyEdits` (with
`approval.high` and not `approval.critical` a delete with an empty filter is allowed where the targeted one is held:
`risk/engine.py:83` against `:55-57` "far more dangerous"), `UpdateOneIsSingle` of `SqlExecutor` (an SQL `update_one`
updates every matching row), `EveryRecordIsDropped` of `ApprovalStore` (the record of a cancelled call stays pending
and is never pruned: `store.py:64` against `__main__.py:223-224` "can't grow unbounded"), `RatedLowIsNoWiderInTime` of
`PolicyEdits` (a time window widened or taken away is rated LOW, as no prefix matches the lines of
`explain.py:197-200`, against `explain.py:236-237` "LOW if it only narrows or is a no-op"), `NoFileIsPassedOver` of
`PolicyLoader` (an empty file of a directory, such as one cut short by its writer, is skipped without an error and its
agents lose their policies, `loader.py:170-171`, against `loader.py:144-147` "never observes a half-built or empty
map"), `NoMaskedReferencePasses` of `Results` (`$$ROOT.email`, `$$CURRENT.email`, `$contact.email`, `$getField` and
`$objectToArray` bring a masked field back under another name, as `guard.py:114-118` compares only what comes first
after the dollar signs, against `guard.py:92-97` "any field-path reference"), and `MaskedIsNoInterpretation` of
`Planning` (a schema lists masked fields as "masked", `plugins/mongodb/schema.py:108`, and a plan may filter on one,
against `tests/integration/test_planning_security.py:77`).

What the models show besides, when a constant is set differently or an exception of a property is taken out:

* **Audit.** `PartialWrites = TRUE` in `AuditLogger_chain`: a write cut short leaves half a line to which the next
  batch is appended, and `ChainVerifies` fails for good (`logger.py:166`, against `logger.py:5-8`). `PowerLoss = TRUE`
  there: the file is flushed and never fsynced, and `FileMatchesCalls` fails (`logger.py:167`, against "one write +
  one fsync", `logger.py:125`). A record logged while `aclose` waits can stay in the queue behind the sentinel, and
  its caller waits on (`logger.py:112`, against "Drain the queue", `logger.py:110`); hence `CallsReturn` is checked
  without `aclose`.
* **Pipeline.** A call that is cancelled in the executor leaves no record of its outcome, although the operation may
  have taken effect (`pipeline.py:623` catches no cancellation); `TrailTellsOutcome` speaks of answered calls.
* **Policy.** A database block whose last entry is struck off falls through to the flat lists
  (`policy/models.py:162`); hence the edits leave one entry unless `Emptying` is `TRUE`, and `TighteningNeverWidens`
  fails if it is. A bound of the time window that a child did not have replaces its base's, be that narrower
  (`loader.py:52-53`), so `NarrowWindow` moves only bounds there are where a file extends another. The simulator does
  not look at the database axis, and rates an edit that empties `actions.allow`, `fields_allow` or `connections_allow`,
  which lifts the restriction, LOW (`explain.py:227`). It rates "Added readonly mode" HIGH. A child cannot
  put a readwrite base back to readonly (`loader.py:45`), and a child that denies what its role allows does not load
  at all. The simulation of `meta/explain.py:92-193` evaluates without a database and without parameters.
* **Cost.** `max_cost: UNKNOWN` validates, and its comparison raises outside the `try` (`pipeline.py:197`, against
  "never raises", `pipeline.py:162`); the policy `Permitting` of `MCGuardPipeline` has it, and the call ends "raised".
  The estimate request names neither a database nor a limit (`pipeline.py:186`): it measures the collection of that
  name in the active database, without the limit of the call. With `approval.high` alone a query estimated CRITICAL is
  let through where one estimated HIGH is held. Only the top node of a PostgreSQL plan and only the chain of
  `inputStage` in a MongoDB plan are read.
* **Limiter.** The sweep looks at the stored count of tokens, which an accepted check leaves below the burst:
  no bucket that was used is evicted (`limiter.py:70`, against `limiter.py:58-59`).
* **Loader.** A directory whose last file is deleted or emptied gives an empty map, and everybody is denied without a
  warning, where a path that is gone gives one. A policy edited and put back under its old modification time between
  two polls, after a race, stays stale.
* **Connections.** `db_list_databases` is unfiltered if the agent's policy is removed during the call, which
  `ShownWasPermitted` excepts. `relationships` takes no database. The adapter's methods for SQL plugins
  take no `database`, so calls through the pipeline fail on SQL connections. `db_schema`
  reports a `sample_size` it does not use. The direct permission of `_run_with_confirm` is recorded without the database.
* **Results.** A document in a list directly in a list is not masked (`masker.py:45` says "any depth"). Masks given as
  dotted paths are not covered by the guard against renaming (it compares the heads of paths), nor are fields outside
  `fields_allow`; the masks of a joined collection are not applied to its documents. A filter on a field named `from`
  or `coll` is taken for a collection. A document larger than the budget gives an empty page whose `next_skip` never
  advances, which `PagesTile` allows. Plans shown by explain start under keys of the plan, so dotted masks do not
  match in them.
* **Executor.** `sample_size` is ignored on a cache hit, and a small sample is cached for the marshaller too. A fill that
  is slower than another may put an older schema in the place of a newer one. A stale or unrepresentative map can miss;
  `Representative` excepts those.
* **SQL.** PostgreSQL's plugin looks for "RETURNING" in the whole text of a statement (`postgres/plugin.py:143`): a DELETE
  from a table, or with a filter on a column, whose name holds the word is answered 0, which `CountsAreTrue` excepts.
  Operators beside `$set` in an update are dropped without an error (`translate_base.py:257`).
  `update_many` always raises. `{col: {}}` gives no clause, so a `delete_many` with it deletes every row although the
  risk engine sees a filter. `= NULL` never matches; `sort` is dropped, as are the columns of later documents
  of an insert. MySQL's autocommit is assumed; only `tests/integration/test_live_backends.py:262` sets it.
* **Planning.** A document or an array in an id-shaped field raises in `set()` (`cross_db.py:49`), and the whole
  cross-database block comes out empty. Databases are discovered and described one after the other, so the block may
  mix versions of the policy. The relationship graph is cached for one call only, against `docs/PROJECT_SSOT.md:173`.
  A plan is decided without a database, so a per-database block may decide the real read otherwise. Fields outside
  `fields_allow` that are not masked are described and sampled; a sample is taken on the policy of the description
  before it; relationships in other databases are inferred from the home database's schemas; `databases_allow` is not
  looked at again by discovery and description.

## 4. Fairness

asyncio runs every ready task, and timers fire: `TimerFires`, the wake-ups, the prune loop, the flusher's steps, the
end of `aclose` and the watcher are weakly fair, as is the clock; the prune loop only until the shutdown, which
cancels it before it drains the store (`__main__.py:254-261`). A poll that fails is followed by another. The audit
flusher, the backend and the estimator are assumed to return in the liveness run of the pipeline (`pipeline.py` gives
the wait on them no bound of its own). Nothing is assumed of humans, agents, operators who write files, or of crashes:
`RecordsEnd`, `RunCallsEnd` and the others hold although no human ever answers. Weak fairness is enough throughout: no
action is disabled and re-enabled by others for ever. The other modules state safety only and have no fairness.

## 5. Proofs

Every theorem holds for all values of the constants that satisfy the module's assumptions, and the ones named here
for every size of environment: no theorem uses a bound other than as a bound.

`GuardPipelineProofs`, first part, the approval store alone (`StoreSpec`): `StoreTyped` (`StoreTypeOK`), `HumanGate`
(`ApprovedByHuman`), `DecisionStands` (`AckedStands`), `WakeupsDelivered` (`NoLostWakeup`), `ApprovalDelivered`
(`ApprovalLostOnlyToTimer`) and, as an action property, `AnswerIsFinal` (`NoDecisionAfterAnswer`). They come from one
inductive invariant (`StoreHolds`, theorem `StoreInductive`), which adds to the properties what relates the waiter to the
record: no property is inductive alone, because for instance `ApprovedByHuman` reads a stored status that only
`AckedStands` ties to the human, and both need that a request that was never created has no waiter. In the pipeline the
same holds: `PipelineUsesStore` says that every behaviour of `GuardPipeline` is one of `ApprovalStore` (each step is a step
of the store or leaves it alone), and `GateInPipeline` carries the four invariants over.

`AuditLoggerProofs`, assuming all-or-nothing writes (`~PartialWrites`) and no `aclose` (`MaxCloses = 0`), the two
cases in which section 3 shows the property to fail: `ChainCorrect` (`ChainVerifies`) and `OneWriter`
(`SingleWriter`). The invariant `ChainInv` adds that a flusher at work is the current task, so there is one, and that
the base from which its batch is signed is the signature of the file's last line. Power loss is allowed there: every
prefix of a chained file is a chained file (`PrefixVerifies`). Without it, `FileTellsTruth` proves `FileMatchesCalls`:
`StreamInv` says that the file, the batch being written and the queue, in this sequence, hold records in the order of
the calls and none twice, and `ToldInv` that who was told "ok" is on disk; neither is inductive without `ChainInv`,
which makes the batch the only one. `NobodyForgotten` (`WaitingIsHeld`) and `TypeCorrect` need no assumption:
`HeldInv` holds through closings, torn writes and deaths.

`GuardPipelineProofs`, second part, assuming that a call takes one path (`OnePath`): `RecordedFirst`
(`NothingUnrecorded`) from `RecordInv`, which adds that under `FailClosed` a call stands at "executing" only with a
permission in the trail, and that the trail only grows; `HumanDecides` (`ConsentDecides`) from `ConsentInv`, which
carries along what the embedded approval store guarantees (`StoreInv`: an "approved" was acknowledged) and, place by
place in the code, how a call's decision, verdict and effects are related (`CallInv`); `RevokedStays`
(`RevokedWriteStays`), from `RevokedInv`: a write whose permission went away during the dialog is on its way to a
refusal or has ended; `TrailTells` (`TrailTellsOutcome`), from `TellsInv`, which says what the last line is at each
place a call can be; and, with `FailClosed`, `PromiseKept`: the pipeline implements `Governance`, each initial state
mapping to one of its initial states and each step to one of its steps or to none.

`SessionProofs`, first part, the limiter: `BucketsInRange` (`LimiterTypeOK`) and `RateIsHeld` (`RateHeld`). The
invariant is an account: for every admitted call, what its agent drew since plus what it could draw now is at most the
burst plus the time since. A check moves a token from one side to the other, time adds no more to the bucket than to
the bound, and the sweep takes only full buckets, which come back full. `RateHeld` alone is not inductive, since it
says nothing of the tokens still in the bucket. `PollingNeverStarves` (`PollingDoesNotStarve`) adds `PollInv`: what
flowed in since the last admitted call is still in the bucket, up to the burst, so that a refused check takes nothing
away.

`PolicyProofs` is about policies, their inheritance and their loading. Its core is an order: `NoWider(p, q)` says,
list by list and for the time window, that p lets through nothing that q does not, and `Behind(p, q)` that it masks at
least as much. Evaluation is monotone in that order (for every request and moment), so is `_merge` in the child and in
the base, provided the child sets no bound of a window that it left to its base (`KeepsBounds`), and each edit moves
one file down in it. How far an edit reaches is a matter of inheritance. `Resolve` is a recursion along chains of any
length: that the recursive function `Resolved` satisfies its equation is proved first, from `NoCycle`, and then what
it does along a chain, both by taking a first name for which the claim would fail. The results: `FilesCorrect`
(`files` stay policies without cycles), `TightensDecisions` (`TighteningNeverWidens`) and `TightensMasks`
(`TighteningNeverUnmasks`), which assume `~Emptying`, the edit section 3 shows to widen; `RatedLowIsSafe`
(`RatedLowIsNoWider`); `LimitsInherited` (`InheritedLimitsHold`); `EscalatesSoundly` (`EscalationSound`), which needs
no state. `EditsAssumption` says that the templates are policies, as the code's models validate them, and that the
values for "none" are none of them; that their inheritance has no cycle is part of `Init` (`Loadable`), as the loader
refuses any other. The loader: `WholeValidMaps` (`OnlyWholeValidMaps`) and the action property `PoliciesKept`
(`PoliciesNotLost`), from `LoadInductive`. Its invariant `LoadInv` follows a load: what it has read validated, was
there while it ran and names no agent twice (`ParsedOK`); what a file is now is among what it has been since the load
began (`DuringOK`); and every file is still to be read, has been read, or was gone or empty for a while (`Accounted`),
without which a swap might lose one. Neither property is inductive alone: the map in force says nothing of the one
that is being built.

`SessionProofs`, second part, the connections, assuming the names of fields, databases and collections to be told
apart (`NamesAreTold`): `ReadsGoverned` (`ReadsAreGoverned`) from `ReadInv`, which ties each step of a handler to its
audit line and each call's context to the fresh one it was copied from; `AnswersGoverned` (`ShownWasPermitted`) from
`ShownInv`, which says of every handler under way that the policy it holds is one it has seen, and of every answer
that such a version backs it.

`MongoExecutorProofs`: `NoWriteTwice` (`WrittenAtMostOnce`) from `WriteInv`: a call that goes on has applied nothing,
because a write whose attempt failed does not go on. `MapsAreRight` (`MarshalsForItsCollection`) from `MapInv`: every
map, in the cache or in the hands of a task, is the type map of a sample of the database it is filed under (`Fits`),
so that it is right as long as no change of types has moved the `epoch` it was taken at. The key of the cache is what
the proof turns on.

`SqlExecutorProofs`: `StatementsMean` (`DoesWhatItSays`) and `CountsTold` (`CountsAreTrue`, which excepts the DELETEs
of section 3), assuming finitely many columns and rows, and requests that are sequences of conditions, assignments and
documents (`SqlAssumption`). A statement is a text cut into clauses that were translated apart, and its arguments are
one list: the lemmas say where the j-th argument of the i-th clause comes to stand (`ConcatPlaces`), that PostgreSQL's
renumbered places and MySQL's places in order of appearance both find it there, and hence that the rows a WHERE
selects are exactly those the request's filter means and every SET and VALUES gets its own values. The state invariant
says of each call under way that its query is the translation of its request, and of each that has ended what of the
table it touched.

`PlanningProofs`: `ContextGoverned` (`ContextIsGoverned`) from `PlanInv` and `CrossInv`, which say of everything a
planning call has in hand, from the queue of what is still to be looked at to the edges already made, by which version
it was open. `JoinKeysToldOnce` (`PairsToldOnce`) from `TellInv`: an edge was made of exactly the pairs that have left
a queue (`Told`), no pair stands in a queue twice or the other way round (`OneWay`, by the order of locations and
because no endpoint is a foreign and a primary identifier at once), so merging drops of two edges the weaker; and in a
call nothing disturbs, inventory and queue are together what the policy shows (`ExactInv`), so no join key is left
out. The assumptions on the contents say that locations are pairs, that samples are finite, and that no database or
collection has the name that stands for none. `PathsTold` (`PathsAreTheChains`) also rests on `TellInv`, which gives
that every edge joins two locations and that no two edges have the same ends. `IsChain` says nothing of an order:
connected, one location more than edges, no location of three edges. The edges of a walk are such a set
(`WalkIsChain`). Conversely a walk along a chain's edges that leaves some out goes on at one end or the other
(`WalkGoesOn`): as the chain is connected an edge left out touches the walk; its inner locations have their two edges
already (`InnerIsFull`), and an edge between its ends would close a cycle, which has as many edges as locations and no
location free for the rest of the chain (`EndsStayOpen`). So the longest walk uses the chain up (`ChainIsWalked`), and
the search finds it from where it starts (`WalksLead`). Two walks over the same edges from one start are equal
(`WalksAgree`), so of the two ways to walk a chain the search tells the one it meets first.

`ResultsProofs`: `JoinsPermitted` (`JoinsOnlyPermitted`), `PagesAreTiles` (`PagesTile`), `MaskedExactly`
(`MasksExactly`) and `MaskedUnderAnyName` (`HiddenUnderAnyName`), assuming that stored documents, pipelines and the
server's answers are JSON no deeper than the parsers take (`ResultsAssumption`). Everything rests on induction along
the levels of a tree: what goes down every step from the root holds of every node (`NodesInduct`). *Joins:* what the
server reads stands at nodes at which the guard looks, and a writing stage would be a banned operator at a node of an
accepted one; `CallInv` keeps, while a call waits for the server, that it was accepted under the policy it holds.
*Pages:* `PagesTile` is not inductive, because it does not bound where the next page begins; `PagesInv` does. A page
is the stretch of the store from there that both limits leave, and its `next_skip` is where that ends (`CappedIs`,
`PageIs`). *Masks:* the recursion of the masker has a value at each object, the deepest first (`WalkIs`); `Hidden`,
which tells from the whole way to a place whether what is there must not be seen, is told one step at a time
(`HiddenStep`), as the masker goes; hence every node it shows is the image of one that is not hidden, or a mark, and
every node that is not hidden has its image there (`ShownIsSeen`). `CacheInv` says that what a policy has cached under
a key are its rules for that collection and database. *Names:* `MaskedUnderAnyName` assumes in addition
`ServerAssumption`: a pipeline takes what is stored under a name only from under it, or by a path that begins with it,
or by one of the means of `PassesGuard`, a variable, a later key of a path, or an operator that takes names as data.
Then what is shown came under its name, where the masker hides it, or through a path for which the call was refused,
or the pipeline used such a means. That the server has no other way is a premise about MongoDB, not a result; that it
has these is why the property excepts them.

Model-checked only:

* everything under fairness, for which TLAPS has no rule: `RecordsEnd`, `CallsReturn`, `CloseReturns`, `RunCallsEnd`,
  `UpToDateUnlessRaced`.

Recursive functions over data are within reach where the data is well-founded by an assumption TLC evaluates
(`NoCycle` of the policy files) or counted (`Concat` of the SQL statements, the levels of a JSON tree): the library's
induction theorems take an operator as a parameter and cannot be cited, but a first place at which the claim fails can
be taken instead (`UpTo` of `ResultsProofs` and of `PlanningProofs`). The modules with theorems and those under them
declare no `RECURSIVE` operator; `MCResults`, which no proof uses, has two, for what the server of that run makes of a
pipeline.

## 6. Plan

What would come next, most important first:

1. `Shutdown` - the composition of approval store, pipeline, audit log and loader in the order of
   `__main__.py:249-263`: waiters released by the drain still want to audit while the log closes.
2. The sweep of expired exports.
3. Index and collection management of MongoDB, whose guards differ from those of documents.

## 7. Not modelled

Pure I/O and layout: the wording of answers and of explanations, log lines, metrics, the CLI, settings that are read
once (those that matter are constants). Developer tooling: evaluation and conformance. Quoting of SQL names,
listing of tables, and server statistics. The tenant branch of the alignment of roles (`RolesAlign`) is in the model
and not reached by the run's contents. `PROJECT.json` gives the reason for each component.
