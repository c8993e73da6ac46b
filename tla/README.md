# mcp-fuzz in TLA+

mcp-fuzz connects to an MCP server, calls each of its tools with one valid and several
invalid argument sets, and reports which calls crashed, hung, were rejected gracefully
or went through. It can call a tool over several connections at once, and run
create/read/delete chains over the tools of a resource. This directory holds TLA+ models
of that program, the TLC configurations that check them, and TLAPS proofs of every
safety property that a passing run checks. Sources are cited as `engine.py` etc. for
`src/mcp_fuzz/engine.py`; `README.md` is the repository's own.

## The system

| Component | State it keeps | Operations |
|---|---|---|
| server connection (`engine.py` 204–380) | the session, its exit stack, `unreachable` | `connect`, `close`, `_try_reconnect`, `_call_with_outcome` |
| fuzz run (`engine.py` 383–424, 628–754) | the report, the tool at hand and its outcomes, the main connection, one connection per concurrent call | `run_fuzz`, `_run_concurrent_valid_calls` |
| lifecycle and cross-resource checks (`engine.py` 427–625) | the steps of the chain, the extracted ids, the verdicts | `_run_sequence_checks`, `_run_cross_resource_checks` |
| resource grouping (`sequence.py`) | dictionaries of candidates per resource | `group_resource_tools`, `find_parent_child_pairs`; `extract_id`, `find_id_property`, `find_parent_link_property` |
| latency gate (`gate.py`) | durations and sizes per tool | `record`, `timed_call` |
| argument generator (`generator.py`) | the base call, the lists of variants | `generate_valid_arguments`, `missing_required_variants`, `wrong_type_variants` |
| report (`report.py`) | counters, percentages, flags | `build_report`, `render_text` |
| command line, trace (`cli.py`, `trace.py`) | the trace file, the exit code | `main`, `write_jsonl_trace` |

How they interact: `cli` calls `run_fuzz` and renders what it returns. `run_fuzz`
asks `generator` for argument sets, sends each over the main connection and
waits for the outcome; with `concurrency=N` it gathers N coroutines, each with
a connection of its own; with `sequential=True` it ends with the chains, which
use the main connection again and ask `sequence` for the groups, the pairs and
the ids. Over stdio each connection has launched a server process of its own;
over HTTP all connections share one remote service that mcp-fuzz cannot
relaunch. `LatencyGate` is a library class, used by other programs around their
own MCP sessions.

What makes it correct, component by component:

- *connection*: a call is answered by its own answer or is counted as timed out
  or crashed; nothing pending survives into the next call; `unreachable` tells
  the truth.
- *run*: every tool listed is judged once, in order; only losing the server
  excuses missing cases; the loss is reported and charged to the tool that
  caused it; every connection is closed; the run ends.
- *chains*: what is concluded about the server is true of the server; nobody
  else's object is deleted; every group and pair has its result.
- *grouping*: nothing ambiguous is used, in whatever order tools are listed.
- *gate*: a call is judged against the earlier answered calls of the same tool
  and no others; an outlier is flagged and only an outlier is.
- *generator*: the valid call is valid, and each bad one is bad in the one way it
  is meant to be.
- *report*: a mark, a flag or a percentage says of a tool what its calls say; the
  exit code says of each threshold what the percentages say.
- *trace*: what is in the file is the beginning of the run, and all of it when a
  report is printed.

What is hard in it: a request that outlives its timeout; a reconnect that fails inside
an `except` branch; flags set in one function, reset in another and read in a third;
several coroutines sharing a service or a gate; a server that restarts, forgets, or
executes a request late between two calls of a chain; flags that are looked up by a
name that need not be unique; percentages of nothing; a file that cannot be written
once the run is over. The list, with the line where each bites, is `hazards` in
`PROJECT.json`.

## The modules

| Module | Models | Uses |
|---|---|---|
| `ServerConnection` | one call over a `_ServerConnection`, for a set of connections, and the servers behind them | |
| `ChainRoles` | which call of a chain may follow which | |
| `Engine` | `run_fuzz` and the concurrent calls | extends both |
| `FuzzRun` | what `run_fuzz` promises about its list of results | instantiated by `Engine` |
| `ServerConnectionProofs`, `EngineProofs` | invariants of the engine, what its report says, and that it implements `FuzzRun`, proved | extend `ServerConnection`, `Engine` |
| `LifecycleChain` | the two kinds of chain against a server with objects | extends `ChainRoles` |
| `LifecycleProofs` | what the chains conclude, proved | extends `LifecycleChain` |
| `ResourceGroups` | grouping and pairing | |
| `GroupsProofs` | that exactly the unambiguous groups and runnable pairs are found, proved | extends `ResourceGroups` |
| `Outliers` | the median, and the two signals by which a time or a size is flagged | |
| `OutlierProofs` | what being flagged means, proved | extends `Outliers` |
| `LatencyGate` | the gate under interleaved calls | extends `Outliers` |
| `GateProofs` | that its calls are counted and judged right, proved | extends `LatencyGate`, `OutlierProofs` |
| `Report` | `main` from the end of `run_fuzz` on: scores, trace, marks, exit code | extends `Outliers` |
| `ReportProofs` | that they say what the calls say, proved | extends `Report`, `OutlierProofs` |
| `Generator` | the argument sets of a schema | |
| `SchemaConformance` | what JSON Schema says of them | extends `Generator` |
| `GeneratorProofs` | that they are what they are meant to be, for every schema, proved | extends `SchemaConformance` |
| `MCEngine`, `MCLifecycle`, `MCGroups`, `MCGate`, `MCReport`, `MCGenerator` | the small instances TLC checks | |

Operators whose comment says "Mutant of" are not part of any specification: each
is a plausible bug of the operator it names and breaks a property of a run.

### ServerConnection

`session[k]` is `conn.session` (`"none"` for `None`; `"broken"` when the server
behind it is gone, which the code cannot see), `unreachable[k]` is the flag of
that name, `step[k]` the place of the coroutine that awaits something on `k`,
and `wire[k]` the requests and answers in flight on the current session. Each
`await` that can be overtaken is a step boundary: `Call` sends the request;
`Receive`, `TimedOut` and `ConnectionLost` are the three ways it comes back;
`CloseForReconnect`, `Reconnected` and `ReconnectFails` are `_try_reconnect`;
`Connect`, `Connected`, `ConnectFails` are `connect` called by anyone else.
Answers are the four kinds that `_call_with_outcome` distinguishes.
`wait_for`'s timer and the SDK's own read timeout have the same effect and are
one action. Assumed of the SDK, which is not in the repository: it matches
answers to requests by id, and it reports a transport that has died under a
pending call (a transport that dies silently shows as a timeout, which `TimedOut`
allows at any point of a pending call).

The servers (external) answer pending requests in any order or never; a
session may break; over HTTP the service may die, breaking every session, and
be restarted by its operator. `suspects` is a history variable: which tools were
being served when the session died.

### Engine and FuzzRun

`pc` is where `run_fuzz` stands; `i`, `outcomes`, `report`, `terminated`,
`connectError` are its variables; `task[w]` the coroutine of a concurrent call;
`chain` and `steps` the lifecycle phase. Schemas appear as the numbers `Missing`
and `Wrong` of variants per tool, and as `Malformed`, the tools on whose schema
the generator raises. Chains appear as role-to-tool maps: `ChainRoles` says
which role may come after which, leaving open why, and `LifecycleChain`'s
property `StepsFollowRoles` shows that the real chains keep to it.

`FuzzRun` is the promise: verdicts are appended one per tool in the listed
order; a tool is tested only if allowed, gets all cases unless the server is
lost during them, and after that every tool is "unreachable". `Engine` implements
it under the mapping `Abstract`: a verdict per report entry, `lost` is
`terminated_early` being set.

### LifecycleChain

A server holds objects with ids. There are 32 kinds of it: does delete really
delete, cascade to children; do objects survive a restart; is the process remote;
may a create's response name another object before the new one. A call is
sent, executed at some point, and answered, or fails at any point between: after a failure a
launched server restarts, a remote one may restart or may still execute the
request later (`late`). `Init` admits one such leftover create from the tool
loop. `id` and `childId` are `extracted_id`, `parent_id`, `child_id`, and `Extract`
is `extract_id` with the assignment of its result: what it finds is the id of the
created object, none, or, on a `foreign` server, that of the first object in the
response. Whether the tool's parameter for the id is found (`find_id_property`) is
given with the group: `"found"`, `"unclear"`, or `"none"` when there is no such tool.

Assumed of the server: a read answers truthfully about the store. `extract_id` returns
`str(...)` of an integer id (`sequence.py` 127), and a read that is refused because the
id has become a string is a read that does not: the model has no such server. Three of the
properties are stated for servers whose `IdsAreTelling`: they give no id out twice
(`FreshIds`) and are not `foreign`. With natural keys a late create can re-create an
object between its delete and the read after it, and `NoFalseStale` is false; with
a `foreign` server the chain deletes somebody else's object, and `OnlyOwnDeleted` is.

### ResourceGroups

A tool is what the heuristics see: the first word of its name, the rest, and the
set of resources whose `{resource}_id` is in its schema. The first loop is one
action per classification, then one step per resource (`keys[k]`), then one per
parent and child (`groups[k]`, `groups[c]`). A "done" state holds what
`find_parent_child_pairs(group_resource_tools(names))` returns.

### LatencyGate

Coroutines start calls, time passes in ticks for all of them, an answer runs
`record` (which has no `await` in it, so it is one step), a crash or a timeout
records nothing. `judged` is the history of results returned and `unanswered` counts
the others; `HistoryIsJudged` says that every call made is in flight, recorded
or unanswered, and that what is recorded is what was judged, in that order. The median is
doubled to stay in the integers; `Smallest(k, values)` is the k-th element of the
sorted list, described without sorting. `GateAssumption` has the `min_calls` thresholds
at least 1: with 0 `_median` indexes an empty list.

### Report

What `run_fuzz` returned is `raw`: any value in which a tool that was not tested has
no calls, one that was has its valid call, once and first, and no call has an outcome
that its case cannot have. That `Engine` returns nothing else is its property
`ReportIsScorable`, so what is checked and proved of `Report` holds after every run.
`build_report` is one step per tool (`BuildTested`, `BuildSkipped`) and one for the
summaries; a percentage is a pair of numbers, and `None` when the second is 0. Then
the trace, a tool at a time, at each of which writing may fail (`WriteFails`: the
exception leaves `main`, and any part of what was written is in the file), then the
marks of `render_text`, then the exit code. Crashes and timeouts are sets of places in
a tool's outcomes. The one percentage that the code computes as `100.0 * (1 - bad /
of)` can come out below the number it stands for; `RoundsBelow` names the pairs for
which it does, and the proofs hold for any. The properties speak of `raw` and not of
the report's own counts: `Share` is a pair of sets of calls or tools, `Breaks` and
`BreaksUnderLoad` are what the repository's README calls a failure and an informative
one. `ExitIsTheVerdict` leaves nothing open: a share that equals its threshold passes,
except for the pairs `RoundedAway` names, which are those of `RoundsBelow`.

### Generator and SchemaConformance

A schema is a function on the keys it has, from `properties`, `required`, `type`,
`types` (a list of types), `const`, `default`, `enum`, `anyOf`, `oneOf`, `items`,
`format` and the bounds; where a value is a schema again it is the name of one, so
that schemas can be nested, shared or cyclic. `Value[rest][n]` is what
`generate_valid_value` makes of the fragment `n` when `_depth` is `rest` short of
passing `_MAX_SCHEMA_DEPTH`: `ValueOf` is its body, with the calls of itself as an
argument; an object costs two levels, one in `generate_valid_object`. An exception
inside is `Raises`, which `ArrayOf` and `ObjectOf` pass on; `pc = "raised"` is one that
leaves the generator, which `Engine` has as `Malformed`. One step per required
property and per typed property makes the variants. Numbers are counted in parts of 1:
`Unit` of them make 1, so that a bound can be a fraction, and `Truncated` is `int()`.
Arithmetic is exact; that 1e16 + 1.0 is 1e16 in floating point is left out.

`SchemaConformance` is the reference: `ConformsTo` is what JSON Schema says of a value,
independent of how it was made. `Conforming[k][n][v]` follows it `k` steps down, and is
false at the end of them; `v` is any of the `Values` there are (what is generated, given
in a schema or put in another's place, and their parts). `Conforms` starts with `Nesting
+ 1` steps. `OrdinaryInput`, by way of `Ordinary`, delimits the schemas for which the
valid call is claimed to be valid: room between the bounds (`HasRoom`: there is a value
of the type within them), none of the combinations in `Heeded`, a type that JSON has, no
keyword next to `anyOf` or `oneOf`, first alternatives of `oneOf` told from the others
by type, required properties that are declared, values given in the schema that conform
to it, nesting within `MaxDepth`. `Heeded` names what the code gets wrong: two keywords
on one bound, a format with a length, a fractional bound of an integer, less than 1
above an excluded lower bound of a number. The two about bounds of numbers with a type
of their own are what `generator_bounds` shows. The two properties of the bad calls hold
of every schema. Keywords that the code does not look at (`maxItems`, `pattern`,
`multipleOf`) are in neither module, nor is the format `date-time`, which is treated as
the other seven are.

## What the runs check

| Run | Instance and bounds | Properties |
|---|---|---|
| `engine_loop` | HTTP, four tools (allowed, with variants; not annotated read-only; allowed, without variants; allowed and malformed) | `TypeOK`, `CleanSession`, `FlagTellsTruth`, `FairBlame`, `LossIsReported`, `ReportIsScorable`, `NoDoomedCall`, `ImplementsFuzzRun` |
| `engine_workers` | stdio, one tool, two concurrent calls, one chain of each kind | `CleanSession`, `FlagTellsTruth`, `NothingLeftOpen`, `EveryWorkerReports`, `RunEnds` |
| `engine_blame` | HTTP, two tools, two concurrent calls | `FairBlame` violated |
| `engine_loss` | HTTP, one tool, one chain of each kind | `LossIsReported` violated |
| `lifecycle` | two groups (one whose read parameter is unclear), one pair, someone else's project and task; 18 servers, the 16 that name the created object first and two that need not | `TypeOK`, `NoFalseStale`, `StaleIsCaught`, `NoFalseOrphan`, `OnlyOwnDeleted`, `AllReported`, `StepsFollowRoles`, `ChecksEnd` |
| `lifecycle_false` | the same | `FalseMeansUnreadable` violated |
| `groups` | all lists of up to five of eight tools | `TypeOK`, `GroupsAreUnambiguous`, `PairsAreRunnable` |
| `groups_parents` | a child with two parents | `OneParentEach` violated |
| `gate` | two coroutines, two tools, four calls, timeout 3 ticks | `TypeOK`, `HistoryIsJudged`, `OutlierIsRare`, `OutliersAreCaught`, `CallsReturn` |
| `report` | lists of up to three of eight tools that differ in how they fail, and of three or four of five that differ in time and size; all names different, or the first and last the same; five commands, one with a trace, four with thresholds | `TypeOK`, `ExitIsTheVerdict`, `OkMeansClean`, `FailMeansBroken`, `OutliersStandOut`, `TraceIsHonest` |
| `generator` | input schemas with two properties, each any of 35 fragments (or, for one, no object), with four lists of required names; depth limit 5 | `TypeOK`, `ValidCallConforms`, `EachLacksOne`, `EachMistypesOne` |
| `generator_bounds` | one number, any of seven kinds of bounds | `BoundsAreRespected` violated |

Why these are enough. Calls are not numbered across a run except by `calls`, which the
program bounds itself (cases × tools), so `Engine` needs no artificial bound. Four tools
let the server be lost before, at and after each kind of tool; a second tool after a
gather is what makes blame go wrong; two workers let one be refused or killed while the
other is still waiting. In `lifecycle` two groups and a pair are enough for a request of
one chain to be executed in the middle of another. Five tools make a complete group plus
one duplicate under another verb, six in `groups_parents` a complete child and two
parents. Four calls give a history of three, one more than the `min_calls` thresholds of
2, with both an even and an odd median. In `report` three tools are enough for a
relative flag and for one name with two tools around another; the timed lists go to four
for an even median; for each of the four measures some share equals its threshold (1 of
5 and 20, which the code's arithmetic takes for less; 1 of 1 and 100; 3 of 4 and 75; 1
of 2 and 50). In `generator` a fragment of each kind of keyword stands next to each
other one, up to nesting that passes the depth limit (5; the code has 50, and the proofs
hold for any). Bounds by name: `MaxTools` (`ResourceGroups`), `MaxCalls` and `Slack`
(`LatencyGate`; how late a due timer may run), `MaxDepth` (`Generator`; the code's own
`_MAX_SCHEMA_DEPTH`), `Nesting` (`SchemaConformance`; one more than `MaxDepth`, so that
a conforming value is followed past the limit). The sizes the run reaches: 155 920
states for `engine_workers`, 217 137 for `groups`, 146 452 for `report`, 43 861 for
`generator`.

Symmetry is used for the workers of `engine_blame`, which checks no liveness. In
`engine_workers` there is none, and the gather of a second tool, which made the run too
long, is in the proof of `EveryWorkerReports` (any list of tools) and in `engine_blame`.

### Fairness

- `Engine`: weak fairness of `run_fuzz`'s own steps, of each coroutine of a gather,
  and of each connection's client side. The event loop runs every coroutine that
  can run, and `wait_for` makes `TimedOut` possible for every pending call, so no
  fairness of the server is needed, except that a handshake and `list_tools` end
  one way or the other: the code puts no timeout on them (`engine.py` 233, 665),
  and that is an assumption here, not a result.
- `LifecycleChain`: weak fairness of the checks, whose `Fails` is that same timeout.
- `LatencyGate`: time passes, and a due timer is run.
- `FuzzRun` states no liveness; `ResourceGroups`, `Report` and `Generator` are loops
  over lists and state none either.

### Disagreements found

Each is a run in which TLC finds what a sentence of the repository denies; the
details are `findings` in `PROJECT.json`.

1. `engine_blame`: the concurrent calls' own failures never reach
   `conn.unreachable`, so when one of them takes a remote server down,
   `terminated_early` names the next tool.
2. `engine_loss`: a remote server lost during the lifecycle chains is not
   reported at all, and the chains that follow call on a connection without a
   session.
3. `lifecycle_false`: `child_readable_after_parent_delete` is `False` also when
   the last read timed out or crashed.
4. `groups_parents`: a child with two plausible parents is paired with both; the
   docstring says it is "just not a pair".
5. `generator_bounds`: the value made for a number can be out of its bounds although
   there is room between them, against `generator.py` 6–8: `exclusiveMinimum` 0 and
   `exclusiveMaximum` 1 give 1.0 (line 69), and an integer with `minimum` 2.5 gives 2
   (line 74).

Others met on the way, which are in the models but have no run of their own:

- `README.md` 68 and `cli.py` 67 say that a resilience below the threshold fails; 1 good
  of 5 with `--fail-under 20` fails too, because `100.0 * (1 - 4/5)` (`report.py` 280) is
  19.999999999999996. `RoundedAway` makes it the one exception in `ExitIsTheVerdict`.
- `README.md` 62 calls the resilience percentage the share of bad calls that "came
  back as a structured error"; the code (`report.py` 280) also counts those the tool
  accepted. `Share` follows the code.
- `README.md` 166 says a tool is not flagged again if it fails "the exact same way" on
  each concurrent call; the code (`report.py` 431) asks only that it fails.
  `OkMeansClean` shows that this hides no failing tool.
- `trace.py` 12 says "nothing is lost"; the outcomes of concurrent calls and of
  chains are not written. `TraceIsHonest` is about the others.
- `generator.py` 24–29 says that a malformed schema never lets an exception
  propagate; `type: []`, and an `anyOf` or `enum` that is not a list, do. The first is
  in `Generator` (`pc = "raised"`).
- With both `minimum` and `exclusiveMinimum` the second's value is ignored
  (`generator.py` 66–71); a `format` that has a sample ignores the lengths; a
  `default` outside its own `enum` is sent as it is. `Heeded` leaves out the first two,
  and `Ordinary` asks that a given value conforms.
- `cli.py` 103 says the chain uses "the id the create call actually returned"; with a
  response that lists other objects first it need not be that of the created one.

## What is proved

### The engine

`EngineProofs` (on `ServerConnectionProofs`) proves, for any list of tools, any
variants, any finite set of workers, any chains and either
transport:

| Theorem | Property | Hypothesis |
|---|---|---|
| `TypeCorrect` | `TypeOK` | |
| `SessionsStartClean` | `CleanSession` | |
| `FlagIsTruthful` | `FlagTellsTruth` | |
| `AllIsClosed` | `NothingLeftOpen` | |
| `LossReported` | `LossIsReported` | no lifecycle chains (`~Sequential`) |
| `CallsHaveSessions` | `NoDoomedCall` | no lifecycle chains |
| `Refinement` | `ImplementsFuzzRun` | |
| `BlameIsFair` | `FairBlame` | no concurrent calls, or stdio |
| `AllWorkersReport` | `EveryWorkerReports` | no tool name is listed twice |
| `ScorableRun` | `ReportIsScorable` | |

`engine_loss` shows that `LossReported` fails without its hypothesis, on the way
to breaking `NoDoomedCall` too; `engine_blame` shows it of `BlameIsFair`; and
`terminated_early` is a name, so that with a name listed twice it does not say
which of the two tools was cut short. Other than the named assumptions on the constants
(`ClientsAssumption`, `TransportAssumption`, `ToolsAssumption`,
`FlagsAssumption`, `ChainsAssumption`) nothing is assumed; fairness is not used.

None of the properties is inductive. `IInv` is: it adds to `TypeOK` what every
place in the code means. `ConnInv` (in `ServerConnectionProofs`) is the part of
one connection: a session is missing while a reconnect is under way, nothing is
on the wire except while a call waits or is about to be torn down, an
unreachable connection has no session. `MainPlace` says where the main connection
can be at each `pc`, `WorkerPlace` the same for each coroutine of a gather (a
session exists only between its `connect` and its `finally`), `LoopPlace` ties
`i`, the report and `terminated_early` to the flag (at the head of the loop,
`terminated_early` is set exactly when the flag is), `ChainPlace` the chain's
steps to the connection. The proof goes action by action: a lemma for each
step of one connection shows `ConnInv` and that every other connection keeps its
state, and a lemma for each step of `run_fuzz` or of a worker shows the rest.

The refinement needs no more than `IInv`: the step that appends a verdict is the
abstract one, every other step changes nothing of what `Abstract` maps.
`BlameInv` adds who can be suspected of what: between two tools nobody, during a
tool's calls that tool alone (its requests are the only ones on the wire), and
once `terminated_early` is set at most the tool it names. `WorkersInv` says of
each entry of the report that its concurrent outcomes are complete if the tool was
tested and did not end the run, and absent otherwise. `KindInv` follows a case from
the call to the report: what is on the wire, and the verdict about to be returned,
belong to the case that the loop is at, so that each outcome in the report is one that its
case can have.

### The lifecycle checks

`LifecycleProofs` proves, for any groups, pairs and objects that were there before:

| Theorem | Property | Hypothesis in the property |
|---|---|---|
| `ChainTypes` | `TypeOK` | |
| `EveryItemReported` | `AllReported` | |
| `OthersObjectsSafe` | `OnlyOwnDeleted` | `IdsAreTelling` |
| `StaleIsTrue` | `NoFalseStale` | `IdsAreTelling` |
| `OrphanIsTrue` | `NoFalseOrphan` | `IdsAreTelling` |
| `KeepingIsFound` | `StaleIsCaught` | objects survive a restart |
| `ChainsAreAsInEngine` | `StepsFollowRoles` | |

The only assumption is `ChainAssumption`: the constants have their types, and the
objects that were there before have ids, and parents, of at most `SeedId`.
Everything rests on `SInv`: there is one call at a time, it is the pending last
step, and the request being executed is `RequestOf` that step's role. `OwnInv`
adds that the chain's ids, the ids of late deletes and the id in an answer are
above `SeedId` and at most `lastId`. From it follows `HeldShrinks`, the key to two
of the verdicts: under an id of this run, no step of anyone ever adds an object.
So once a delete is acknowledged nothing is held under the id, and stays so while
late requests are executed and servers restart, until the second read finds
nothing (`GoneInv`); and what is held under a child's id is a child of the chain's
own parent, so a cascading delete leaves nothing there (`OrphanInv`).
`KeptInv` is the converse for servers that keep everything (`HeldStays`): what the
delete was acknowledged for was there, whichever object that is, and still is.
`FollowInv` says that a group is read exactly if its read tool has a parameter for
the id, and before the delete; from it each call is shown to be one that
`NextRoles` allows. So the engine's theorems, which quantify over all chains with
those roles, cover the chains the code runs.

### Grouping

`GroupsProofs` proves, for any set of tools and resources and any length of the list,
`GroupsTypeOK` (`TypeOK`), `GroupsUnambiguous` (`GroupsAreUnambiguous`) and
`PairsRunnable` (`PairsAreRunnable`), from `ToolSetAssumption` alone. The reference
definition is about the list: `TheOne(Candidates(verbs, r))` counts the places that
have one of the verbs. `ListInv` connects the two: under each resource a dictionary has
no entry, the one candidate, or several, exactly as the list does (`Says`), and `keys`
are the resources with a create tool, each once. `GroupInv` says that the groups so
far are those of the qualifying resources among the keys gone through, each once;
`PairInv` the same of the pairs and the places (k, c) gone through. That no group or
pair is found twice is the equality of a length and a cardinality, by a bijection
(`EachOnce`).

### The gate

`GateProofs`, for any callers, tools, sizes, thresholds and number of calls, from
`GateAssumption`:

| Theorem | Property |
|---|---|
| `GateTypeOK` | `TypeOK` |
| `EveryCallCounted` | `HistoryIsJudged` |
| `FlagsAreEarned` | `OutlierIsRare` |
| `FlagsAreGiven` | `OutliersAreCaught` |

`OutlierProofs` shows first, for any non-empty finite family of naturals, that its
k-th smallest value exists (by well-ordering: the least v that k values do not
exceed) and what it bounds. So a value above a multiple of the median is above that multiple
of at least half the values, and one above that multiple of all is above the
median's. `HistInv` says that a tool's history is what was judged of it, `FlagInv` that the
flags of each call were given against the calls before it, and `CountInv` counts: calls
made = in flight + recorded + unanswered, for each tool.

### The report

`ReportProofs`, for any run, thresholds, options and any `RoundsBelow`, from
`RawAssumption` and `CommandAssumption`:

| Theorem | Property |
|---|---|
| `ReportTypeOK` | `TypeOK` |
| `ExitIsEarned` | `ExitIsTheVerdict` |
| `OkIsClean` | `OkMeansClean` |
| `FailIsEarned` | `FailMeansBroken` |
| `OutliersAreOutliers` | `OutliersStandOut` |
| `TraceIsTheRun` | `TraceIsHonest` |

`BuildInv` says that the reports so far are those of the tools gone through, `SumInv`
that the flags are what `Judge` and `Unsafe` say of them. `CountInv` makes each counter
the cardinality of a set of calls of those tools, so that `PercentInv` can say that
each percentage is the pair of cardinalities of its `Share`; `ExitInv` carries that
to the exit code. `TraceInv` says that the file has exactly the lines of the first
`written` tools, in order, or after a failed write an initial part of them.

### The generator

`GeneratorProofs`, for any schemas, however nested or cyclic, any depth limit and any
`Nesting` that is no less:

| Theorem | Property | Hypothesis in the property |
|---|---|---|
| `GeneratorTypeOK` | `TypeOK` | |
| `GeneratorValidCallConforms` | `ValidCallConforms` | `OrdinaryInput` |
| `GeneratorEachLacksOne` | `EachLacksOne` | |
| `GeneratorEachMistypesOne` | `EachMistypesOne` | |

They rest on `SchemaAssumption` (`Unit` is at least 1; names and keywords have their
types; a value given as an integer is whole; no schema has both a `type` and a list of
types, which are one keyword of JSON) and `NestingAssumption`.

`Value`, `Parts`, `Conforming` and `Ordinary` are recursive functions, each a CHOOSE of
a function that satisfies an equation. `ValueIs` and its like show that there is one, by
extending it one argument at a time; what an equation says of an argument depends only
on smaller ones (`ValueOfAgrees` and its like). The library states induction with an
operator as parameter; here it is `Naturals`, about a set, which follows from the
library's well-foundedness of `<` by the least counterexample. The four equations have
the same proof, which cannot be stated once for want of such a parameter.

`GenInv` is the inductive invariant: from the first step on `base` is the valid call,
never changed again; the first list is what it should be for each of the first required
names (`DropsInv`), the second for each name gone through that has one type, each once
(`SwapsInv`), so that its length is a cardinality by a bijection (`SwapsCounted`). That a
bad call does not conform takes one step of `ConformsTo` for a name that is missing
(`LackFails`) and two for a value of another type (`SwapFails`).

`ValidCallConforms` needs induction over the depth that is left. `Good(rest, n)` says
that the value of `n` is no exception and conforms, however far beyond its depth one
looks; it has to say the last because a value made with less depth left is a part of
values that are followed further. `OneLevel` shows it from the two levels below, by
cases as in `ValueOf`: a value given in the schema (`Ordinary` asks that it conforms);
the first alternative, which is then the only one of a `oneOf` (`BranchesFit`); arrays
and objects (`ArrayFits`, `FieldsFit`, `ObjectFits`); and what has no parts
(`SampleFits`, with the arithmetic of lengths and bounds in `StringFits`, `IntegerFits`
and `RealFits`, what `Truncated` does to whole numbers in `WholeNumbers`, and the first
type that is not null in `FirstType`). `OrdinaryConforms` goes up from 0, where nothing
is ordinary.

### Model-checked only

Liveness: `RunEnds`, `ChecksEnd` and `CallsReturn` need fairness and ENABLED, which are
out of the prover's reach. Every other property of a passing run is proved.

## Plan

Done: the engine and its refinement, the chains, grouping, the gate, the report with
the trace and the exit code, the generator; proofs about all of them. What is left, in
this order:

1. `find_id_property`: which property the id is put into, so that a wrong one (the
   fallback at `sequence.py` 157) becomes a behaviour of `LifecycleChain`.
2. The counts of lifecycle and cross-resource findings in the report.

## Not modelled

- `report.py`: the letter grades (a function of the percentage), the estimate of token
  cost, the two sums over lifecycle results, the wording and layout of the text and of
  the JSON.
- `cli.py`: option parsing and the choice of target; the checks it makes before
  `run_fuzz` end the program at once.
- `trace.py`: what a line contains.
- `find_id_property`: what it finds is an input of `LifecycleChain`; it changes no
  state.
- `generator.py`: lengths and `minItems` that are not integers, and values of the wrong
  JSON type under keywords other than `properties` and `required`. `$ref` is not
  resolved by the code.
- The thresholds in `LatencyGate` and `Report` are natural numbers.
- The MCP SDK and asyncio: external, as described above. Cancellation of `run_fuzz`
  itself (Ctrl-C) is not modelled.
- `__init__.py` re-exports names.
