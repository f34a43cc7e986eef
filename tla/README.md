# gpuha in TLA+

TLA+ modules for the code under `src/`: the telemetry contract, the worker
selection and the L7 router of a pool, the Tier-1 DNS responder in front of the
pools, the orchestrator that creates and destroys them with its adapters, its
wiring and its topology files, the dead man's script that cleans up after it,
and the first generation under `legacy/`. TLC checks the modules on small
instances; TLAPS proves nearly all of the safety properties, and that the router and
both adapters implement their abstract specifications, for instances of any
size.

    cd tla
    tlasany Router.tla                                # parse
    tlc -config MCRouter_one.cfg MCRouter.tla         # model-check a run
    tlapm RouterProofs.tla                            # check the proofs

Runs of `Telemetry`, `DeadMan`, `Lambda` and `RunPod` need no MC module: their
configurations instantiate the modules themselves.

`PROJECT.json` lists the runs, the source lines every definition models, one
broken variant of the code per property (the definitions marked `Mutant:`,
which no specification uses), the hazards and the theorems.

## The system

| component | source | state | operations |
|---|---|---|---|
| telemetry contract | `telemetry.py` | per node: backend, last seq, arrival time, drop counter | parse a frame, ingest it, list fresh nodes |
| emitters | `vllm_telemetry_shim.py`, `stub_emitter.py`, `fake_worker.py` | seq | seed, scrape, send once per interval |
| selection | `selection.py` | per worker: last seen, breaker, metrics | eligible, score, select, retry plan, trip breaker |
| L7 router | `router.py` | counters; per request: plan, attempt, the `committed` latch | sync from ingest, open upstream, forward chunks, fail over |
| Tier-1 | `tier1_dns.py` | pool map, views, last answer | query, ingest, monitor, SIGHUP reload |
| whale | `whale.py` | none between connections | degraded completion |
| orchestrator | `orchestrator/engine.py`, `state.py`, `cli.py` | run file: status, resources, pools | `up`, `down`, `reap`, `status` |
| adapters | `orchestrator/adapters/` | the provider's account | acquire, bootstrap, verify, teardown, reap |
| wiring | `orchestrator/wiring.py` | pool map in memory, on disk, in Tier-1 | add, remove, apply |
| topology | `orchestrator/topology.py` | none | parse |
| dead man, deployment | `deadman.sh`, `gpuha`, `deploy/` | the ids of the last list | list and terminate, per provider; backstop |
| legacy aggregator and plugin | `legacy/` | reports, pending and committed address, debounce timer, zone file | ingest, broadcast, merge, commit, rewrite |

Emitters send UDP frames to the routers of their pool and to Tier-1, each of
which runs its own `TelemetryIngest`. The router copies arrival times from its
ingest into the selector every half second. Tier-1 answers with the pools that
have a fresh node. The orchestrator writes the pool map that Tier-1 reads when
it is restarted; every command is a process of its own, and several may write
the same map. The dead man runs from a timer on the plane, next to whatever
commands are alive.

What is hard in each:

- *Telemetry*: the network loses, repeats and reorders; emitters restart.
  Silence must mean death, and a restarted emitter must be heard again.
- *Selection*: ties, fewer workers than attempts, breakers that trip while
  plans that name the worker are in use.
- *Router*: one coroutine with a dozen awaits, each of which can time out,
  raise, or find the client gone; before the first token everything is
  retried, after it nothing may be.
- *Tier-1*: three threads, a dict and a map without a lock, a signal handler.
- *Orchestrator*: real money. Creates that half succeed, deletes that fail, a
  kill between any two steps, and three records (the provider's account, the
  run's file, the pool map) that must not drift apart for good.
- *Wiring*: a map that is read when a command starts and written back when it
  ends, a temporary file of one name for everybody, and a restart that forgets
  who is alive.
- *Adapters*: requests whose answer is lost although they were carried out,
  errors that mean several things, two instances behind one handle, and a reap
  that deletes beside the run that creates.
- *Dead man*: loops over lists that may have failed, and no way to ask again.
- *Topology*: nesting told by indentation alone.
- *Legacy*: a timer that may have fired when it is stopped, and a file written
  outside the mutex.

## The modules

| module | models | extends / instantiates |
|---|---|---|
| `Telemetry` | emitters, network, ingest | |
| `TelemetryProofs` | theorems about `Telemetry` | extends `Telemetry` |
| `Selection` | the selector as operators on ages, breakers and scores | |
| `RetryPlan` | `select_with_retry_plan`, pick by pick | extends `Selection` |
| `RetryPlanProofs` | a theorem about `RetryPlan` | extends `RetryPlan` |
| `FirstToken` | the contract of one completion request as the client sees it | |
| `Router` | `handle` await by await, `sync_from_ingest`, the clock | extends `Selection`, instantiates `FirstToken` |
| `RouterProofs` | theorems about `Router` | extends `Router` |
| `Tier1` | query, ingest, monitor and reload, step by step | |
| `Tier1Proofs` | theorems about `Tier1` | extends `Tier1` |
| `Orchestrator` | one run: `up` with its threads, `down`, `reap`, kills | |
| `OrchestratorProofs` | theorems about `Orchestrator` | extends `Orchestrator` |
| `Fabric` | commands of several runs on one pool map, Tier-1's restarts, the pools' frames | |
| `FabricProofs` | theorems about `Fabric` | extends `Fabric` |
| `Provider` | what an adapter promises the engine for one pool | |
| `Lambda` | `lambda_gpu.py`, request by request | instantiates `Provider` |
| `LambdaProofs` | theorems about `Lambda` | extends `Lambda` |
| `RunPod` | `runpod_gpu.py`, request by request | instantiates `Provider` |
| `DeadMan` | `deadman.sh`, request by request | |
| `Topology` | the parser, function by function, and a rendering to compare it with | |
| `Legacy` | aggregator, listener, debounce timer and zone file | |
| `MCAlgorithms` | instance of the pure algorithms | extends `RetryPlan`, `Topology` |
| `MCAccounts` | instance of the three that create and destroy instances | extends `Lambda`, instantiates `RunPod`, `DeadMan` |
| `AccountsProofs` | theorems about the three | extends `MCAccounts`, `LambdaProofs` |
| other `MC*` | instances for TLC | extend the module they are named after |

**Time.** All clocks are ticks. An age past the freshness window is as good as
any other, so ages saturate at `Stale`, one tick past it: that keeps the state
space finite without cutting a behaviour off.

**Telemetry.** `Start`, `Crash`, `Toggle` and `Emit` are the emitter process
(`Seed` is `int(time.time())` for the shim and the stub, 0 for the fake worker);
`Deliver` and `Lose` are the network, where a delivered frame may stay and be
delivered again; `Deliver` is `TelemetryIngest.ingest` with its version check,
its gap counter and its `seq` check, in the code's order. `first_seq`,
`accepted` and `sent` are history.

**Selection and RetryPlan.** The weighted draw is abstracted to the set of
workers it can return (all weights are positive). `Router` does not repeat the
scores: it takes any plan of `RetryPlans`, and the run `algorithms` shows that
the code's loop builds only such plans, from every state of the selector.

**Router.** `pc[r]` names the await that request `r` is at; an action is what
`handle` does from one await to the next, which is what asyncio makes atomic.
Every outcome of an await is an action: the upstream refuses, answers, says
something other than 200, breaks, ends its body, or raises what the inner
`except` does not list (`Fault`); `wait_for` expires; `drain` returns or raises.
`AttemptFails`, `MidstreamFails` and `Forward` are the effects several of them
share. `wire` is what was written to the client.

**FirstToken.** The abstract specification: a request waits, is answered from
one worker, ends, is refused, or is lost, and its voice never changes.
`Router!Contract` instantiates it with `phase <- Phase` and `voice <-
servedBy`; `FirstTokenContract` is the refinement, checked by `router_one` and
proved as `Refinement`.

**Tier1.** Python may switch threads between any two steps outside the lock, so
`fresh_nodes` is a loop of `Visit` steps, and `current_pools`,
`note_transition` and `answer_ips` are steps of their own that each read the
map as it is by then. An exception in a query drops the query; in the monitor
it ends the thread (`dead`). Losses and reordering are left to `Telemetry`: an
emitter sends once in a tick or not at all. Several emitters may send under one
node id, for pools of their own, as those that the Lambda bootstrap starts do; what
then counts is how far the counter of each lags behind the wall clock (`slow`,
`behind`), for a counter is seeded with the clock and runs with it.

**Orchestrator.** `cloud` is the provider's account and bills; `status`, `res`
and `wired` are the run's file, which every mutator of `RunState` saves; `mem`,
`file` and `served` are the pool map in the process, on disk and in the
restarted Tier-1. `up` has a thread per pool; a thread's `acquire` is one
`Create` per instance, which may be refused, may be created and then be
unusable (or be created and its answer lost), and may be cleaned up as the adapter
does: `lambda` terminates a head when its sibling fails and goes on with the next
region on capacity-out, `gcp_stub` and `runpod` clean nothing up. What Lambda's
`acquire` goes on without, because a request about it raised, stays behind as
`<<p, 0>>`, which no handle covers. `Teardown`, `TeardownMisled` and
`TeardownFails` are one iteration of `_teardown_all`: the delete happened; it was
taken for done and was not (runpod ignores what `_delete` returns, Lambda takes
"not found" and an empty list for success), which `missed` remembers; or it raised,
and is reported (`erred`). `AdapterFails` is `_adapter()` raising outside the try
of that loop (`engine.py:138`), which ends a `down`; it may do so only before the
first handle of a provider, as the adapter is kept afterwards. The model does not
remember an adapter whose handles were all torn down, which only adds behaviours.
`Kill` ends a command between any two steps; a create in flight may land later
(`late`), a delete in flight may have happened. Two abstractions: a command that
edits a file does it in one step (`os.replace`), and `reap` lists all providers it
reaches at its start, which can only make it miss an instance that lands in
between.

**Fabric** composes what `Orchestrator` and `Tier1` model apart, with several
runs. A run has one pool, brought up in one step; the map is kept in detail.
`Start` reads it (`RealWiring.__init__`), `Acquire` and `Teardown` change the
copy in memory and the run's file, `Open`, `Write` and `Replace` are `apply`.
`fd[r]` is what the open descriptor of a command points at by now: another
command's `os.replace` may have turned its temporary file into the map, or
another's `open(tmp, "w")` may have truncated it; text written over a longer one
leaves lines of the longer one (`Overwritten`). `Restart` takes Tier-1 down and
`Load` is the new process, which has heard nobody; a restart that raises may have
stopped Tier-1 or not. An `up` that fails may leave a machine that emits or not,
and its verification may fail although the pool is answered (`cli.py:90`).
`Answer` is what a query gets. All pools send in the same `Tick`, which is the unit
of `Window`. Every command is given the same map file. Three histories say what a
run is exempt from: `overlapped`, `owner` (the last of the runs of one name to
publish) and `cut` (its `down` was killed between its two files).

**Provider, Lambda and RunPod.** `Provider` is the promise of
`adapters/base.py`: `acquire` creates, and either returns handles that cover all
that exists or raises; after that instances only disappear. `Lambda` and
`RunPod` model each request and its outcomes (carried out or not, answered or
not), `acquire`, `bootstrap`, `verify` and `teardown` in the process of the run,
and `reap` in another at any time; `KeepsThePromise` is the refinement of each.
What the engine does on an exception (tear down the handles it has) is part of
the step that raises.

`_api` of Lambda raises `CapacityError` for whatever request failed with such a
text, and ignores curl's exit status, so that a 200 without a body is an empty
answer. So a GET that waits for an instance, or lists what is left of a half-built
head, can send `acquire` on to the next region with an instance alive
(`WaitFails`, `Raises`, `NextRegion`), and a list can come back empty
(`ListEmpty`), which like a "not found" for the batch (`NotFound`) makes
`_terminate` return for what lives (`ReturnMisled`). What is left behind so is in
the history `strays`; the promise is about everything else.

RunPod's pods may stop serving and come back (`Stops`); `served` is history.

**DeadMan.** `at` is the loop the script is in, `ids` its last list. A request
that fails may have been carried out in part (`Deleted`). `Joined` is the
comma that `split()` does not split at. `backstop` says whether the orchestrator's
`reap` at the end still works, and is chosen for a whole behaviour. `disturbed` is
history: a request failed, or an `up` was still creating.

**Topology.** A line is its indentation, its dash, what is before the colon and
what is after it. The parser's functions are operators of the same names and
call one another; `Render` writes a value the way the module's docstring
describes the subset.

**Legacy.** A tick is a second. The listener handles a snapshot in one step,
under the mutex; the timer's callback is a goroutine of three: it starts
(`Fire`), commits under the mutex (`Commit`), and writes the file after it
(`Rewrite`). `Stop` does not reach it once it has started, and nothing waits for
it: up to `Callbacks` of them are in flight at once, over any number of ticks, and
their writes happen in any order and may fail. One write is taken as a whole
(`os.WriteFile` truncates and writes; two at the same instant could mix).
`spoiled` is history: whether the write of what was committed last has failed, or
had an earlier one still to come.

## The runs

| run | instance | what it shows |
|---|---|---|
| `telemetry` | one node, window 1, clock to 3, 4 frames, versions 1 and 2 | `DropsAddUp`: each sequence number between the first and the last kept frame is kept or counted as dropped, once. `SeedCatchesUp`: the ingest never remembers more than one number ahead of the clock, so a restarted emitter loses at most one frame. `SilenceIsDeath`: a node that stops emitting leaves the fresh set for good, whatever late or repeated frames arrive. |
| `algorithms` | four workers, three attempts, top 2, three levels of load; every tree of mappings and lists with up to two entries, nested as topology files nest, and all documents of up to four lines at indentations 0, 2, 4, 6 | `PlanIsSound`: a finished plan names each eligible worker at most once, leaves none out while attempts remain, and beats all but `top_n - 1` of those left out. `RoundTrip`: a value of the documented subset is read as it was rendered. `EveryLineCounts`: a document that begins at the margin and is read as a mapping has every line in the result. |
| `router_one` | one request, two workers, deadline 2, window 2 | `OneVoice`: all chunks come from the worker the head names. `FirstTokenContract`: the refinement. `WaitIsBounded`: at most two deadlines per attempt before the first token. `PreTokenEnds`, `EveryRequestEnds`: liveness. |
| `router_two` | two requests, two workers, deadline 1, symmetry | `WellFramed`: one end of stream, no apology after a token. `StatsAddUp`: the counters of `/__stats` account for every request. `LatchIsOneWay`: nothing is retried after the first token. `PlannedAreLive`: silence is death for new plans, and a broken worker is not planned. `TripsTheCulprit`: a breaker trips for the attempt that ended, under two requests. |
| `tier1` | three emitters on two pools, one of them under the node id of another pool's, a second behind it; window 0; no whale; reloads that add or remove a pool | `AnswerIsCurrent`: an answer holds every pool that was mapped and heard all through its query and none that never was; FAILSAFE only if there is none. `EmittersAreSeen`: no emitter that keeps sending is shut out by one that is behind it. `EvacuationIsNoticed`: a silent pool leaves the recorded answer, unless the monitor thread is dead. |
| `orchestrator` | a Lambda head with its sibling, two RunPod pods, two regions, quorum 1; `up` and `reap` may be killed, adapters and Tier-1's restart may fail | `TornDownIsGone`: what the file calls torn down is gone, sibling included, but for what a delete was wrongly taken for done about. `UpIsLive`: up means quorum, verified and served. `DownIsDown`: down means all recorded is torn down (or reported) and nothing is served. `EveryCommandEnds`: no pool's failure blocks the join, if requests return. `ReapIsTheBackstop`: if they do, repeated sweeps leave nothing billed, recorded or not. |
| `fabric` | two runs with names of their own, overlapping; window 0; `up` and `down` may be killed, adapters, deletes and Tier-1 restarts may fail | `DeadIsDark`: nothing is answered unless a pool of that name emitted within the window, whatever is left in the map. `StatusIsHonest`: until commands have overlapped, a run that is up is in the map on disk, and a run that is down is not answered, even if its deletes failed, unless a `down` of it was killed between its two files. `UpComesBack`: once commands rest, every pool that is up is answered again after all the restarts, unless commands overlapped. |
| `accounts` | Lambda: a head and its sibling, two regions, two rounds of terminate. RunPod: two pods, or a head and its sibling, two rounds, all faults. Dead man: one Lambda instance, two pods, one GCP instance, two rounds, failing requests and a live `up`, with and without the backstop. Each on its own | `BothKeepThePromise`: the adapters implement `Provider`, strays of Lambda apart. `ReturnedMeansGone`: what `_terminate` returned for is gone or dying, unless a "not found" or an empty list misled it. `UpServes`: every router of a RunPod pool that came up has served. `BothSweptClean`: after the run is over, repeated sweeps empty the account, recorded or not. `DoneMeansZero`: undisturbed, the dead man leaves nothing, also by himself. `RequestsAreBounded`: each of his requests that returns brings his end nearer. |
| `legacy` | two targets, window 1, debounce 2, two callbacks at once | `Settles`: once one target stays preferred, the zone names it for good, unless the last commit's write failed or crossed another. |

**Why the bounds are enough.** Workers, requests and pools interact only
pairwise in this code (one request's breaker in another's plan, one pool's
threads beside another's), so two of each reach every interaction, and the
proofs of the safety properties drop the bound. `router_one` has two ticks per deadline,
so that a deadline can be half over when something happens, and a window longer
than a tick, so that the copy can be stale but fresh. `Uptime` is beyond the
window (see the observations for what happens below it). In `telemetry` the
clock's horizon lets an emitter seed, send, crash, restart in the same second
and in a later one while old frames are in flight; after it ages still grow, so
liveness is about real silence. A plan used up to its last attempt, both regions out of
capacity and a map emptied by `down` are all reached. In `tier1` two nodes
are enough to grow the dict under a loop that has begun, and a window of 0 leaves
an emitter two states, heard in this tick or late. In `fabric` two
commands reach all three fates of a descriptor (`fd` is `tmp`, `map`, `gone`)
and texts of two lengths over one another; a window of 0 means that a pool is
stale one missed tick after its last frame, and since all pools send in one
tick a longer window only adds ticks in which nothing changes; the proof is for
any window and number of runs. The run gives runs names of their own; the theorems
do not, and `MCFabric_stale.cfg` shares one. Two regions, two rounds and two instances reach
each way from one to the next and out of the last; the dead man has one Lambda
instance, with which `DoneMeansZero` holds without his backstop, and `deadman_alone`
has two; `RunPod` and `Lambda` share
no state with one another or with the dead man, so `accounts` lets one of them
work and the others rest. The trees of `algorithms` go one level deeper than a
topology file, and a tree that is a list in a mapping in a list is the deepest
that the grammar tells apart. In `legacy` a window below the debounce time lets
reports expire while a route is pending, and two callbacks are enough for each to
find what the other committed, wrote or has still to write.

**Fairness.** `Tick`, `Sync`, `Timeout` and the last drains are weakly fair in
the router: the event loop runs what is due. `PreTokenEnds` needs no more,
upstreams may do nothing at all. `EveryRequestEnds` assumes besides, in its
antecedent, that clients read or leave and that a stream, once begun, ends or
breaks (a strongly fair step, because tokens may come in between); the code
gives no such guarantee, which is the finding `router_hang`. In Tier-1 time
passes, the monitor is scheduled and a query once begun is; queries need not
come. In the orchestrator a command takes the steps that are its own (`FairSpec`).
That a request ever returns is another matter. Lambda's `curl`, `gcloud`, and
the `ssh` that waits for a pod, run without a timeout (`lambda_gpu.py:164`,
`gcp_stub.py:55`, `runpod_gpu.py:79`), the threads of `up` are joined without one (`engine.py:78`),
and `docs/NOMAD_NOTES.md:78` reports a reap that hung and asks for a timeout. So it
is an assumption that the properties name: `RequestsReturn`, in the antecedent of
`EveryCommandEnds` and `ReapIsTheBackstop`. Given it, every loop of waiting has a
bounded number of tries. `OperatorSweeps`, in the antecedent of the second, says that
somebody runs `reap` again and again and that a delete is not refused for ever.
`Lambda` and `RunPod` have the same in their `Fairness` (strong for `Reap` and for a
delete by it, weak for the loops of `_terminate` and `_delete` in a sweep, whose
tries are counted, and for the account, which does what it accepted); RunPod's
requests do have a timeout, Lambda's are assumed to return. The run itself has none:
it may stand still anywhere. Nor has the dead man, whose requests have no timeout
either: `RequestsAreBounded` is a safety property. In `Fabric` only Tier-1's
start (systemd) and the tick are weakly fair; a command may hang or never come,
and `UpComesBack` assumes in its antecedent that commands rest. In `Legacy` the
timer, its callbacks and the clock are weakly fair (the Go runtime), and `Snapshot`
strongly: datagrams are lost, not all of them.

**Deadlock** is checked everywhere except where things end: a finished plan or
document (`algorithms`), a pool that is over or a script that is done
(`accounts`, `deadman_alone`).

### Runs that end in a counterexample

Three runs state what a document says of the program and find the code doing
something else.

| run | says | does |
|---|---|---|
| `router_hang` | `ARCHITECTURE.md:122-124`: silence is death, a worker that dies after the first token means a clean truncation | chunks after the first are awaited without a deadline (`router.py:143`); a worker that vanishes without closing holds a reading client's stream open for ever |
| `router_deadline` | `router.py:5`: the deadline covers connect and first token per attempt | connection and headers are awaited under one deadline (`router.py:126`) and the first chunk under a second (`router.py:140`): an attempt may take two, which is the bound that does hold (`WaitIsBounded`) |
| `deadman_alone` | `deadman.sh:2`: nukes all managed instances, no orchestrator dependency | the ids are joined by commas and split at blanks (`deadman.sh:10`, `:13`): two Lambda instances or more are never terminated by the script itself, only by the `gpuha reap` at its end |

More configurations end in a counterexample. They are not runs of
`PROJECT.json`; `tlc -config <cfg> <module>` shows each.

| cfg (module) | property | says | does |
|---|---|---|---|
| `MCRouter_unanswered` (`MCRouter`) | `EveryClientIsAnswered` | `ARCHITECTURE.md:123`: dies before the first token, silent retry | an exception the inner `except` does not list (no route to host, malformed status line) closes the waiting client without a response, retry or counter (`router.py:173`) |
| `MCTier1_shared` (`MCTier1`) | `EveryPoolIsSeen` | `tier1_dns.py:11`: a pool is in the answer iff it has a node with fresh telemetry | the bootstrap scripts give the shims of several Lambda pools one node id (`lambda_gpu.py:51`, `:82`, `:112`), and Tier-1 keeps one backend and one sequence number per id: one of the pools is never seen |
| `MCTier1_empty` (`MCTier1`) | `NeverEmpty` | `tier1_dns.py:12`: never NXDOMAIN/empty | a reload installs an empty map (`tier1_dns.py:180`); without a failsafe address the answer is empty |
| `MCOrchestrator_orphan` (`MCOrchestrator`) | `FailedIsTornDown` | `orchestrator/README.md:13`: an error during `up` tears down the partial fabric | the stub's `acquire` raises after its first create and returns no handle; `up` ends as failed, with no teardown error, while the instance runs. `reap` finds it |
| `MCOrchestrator_killed` (`MCOrchestrator`) | `DownIsDown` | `orchestrator/README.md:12`: `down` is idempotent | a `down` killed (or failing) after `unset_pool` and before the map is written: the next `down` ends as down, with the pool still in the map and served |
| `MCFabric_lost` (`MCFabric`) | `UpStaysWired` | `tests/test_loop.py:43`: the pool of a run that is up is wired | two overlapping commands write back the map each read at its start (`wiring.py:43`): the later one drops the other's pool |
| `MCFabric_stale` (`MCFabric`) | `SilenceIsDeath` | `docs/BUILD_YOUR_OWN.md:107`: never stale-as-live | a failed `up` leaves its pool in the map; the next run of the same topology emits under the same backend name and makes the dead address look alive until it is wired itself |
| `MCFabric_rewire` (`MCFabric`) | `RewireIsLive` | `docs/BUILD_YOUR_OWN.md:113`: the orchestrator can rewire live | `apply` restarts Tier-1 (`wiring.py:66`): a pool that is up and emits leaves the answer until its next frame |
| `MCFabric_blank` (`MCFabric`) | `NeverSilent` | `docs/BUILD_YOUR_OWN.md:107`: fail-open, never fail-empty | an instance without an address is wired as `name=` (`gcp_stub.py:108`); while its pool is fresh `inet_aton("")` raises for every query |
| `RunPod_unconfirmed` (`RunPod`) | `ReapIsHonest` | `docs/NOMAD_NOTES.md:54`: reap confirms empty | an empty or garbled answer to the confirming GET is taken for the pod being gone (`runpod_gpu.py:269`): reap reports as killed what still bills |
| `Lambda_gone` (`Lambda`) | `TakenIsGone` | `lambda_gpu.py:311`: treat already gone as success | if the provider rejects the batch because one of the pair is gone, "not found" is taken for success (`lambda_gpu.py:321`) and the other runs on |
| `Lambda_stray` (`Lambda`) | `HandleCoversAll` | `adapters/base.py:25`: acquire returns handles of what it created | the answer to a GET in `_wait_active` reads like a capacity error (`lambda_gpu.py:173`): `acquire` goes on to the next region, and the instance it waited for is in no handle |
| `MCLegacy_crossed` (`MCLegacy`) | `SettlesAnyway` | `legacy/RECOVERY.md:9-10`: a commit rewrites the zone | the file is written outside the mutex (`gpuha.go:94`): two callbacks write in the other order, and the zone keeps the old address, for the new one is committed and never written again (`gpuha.go:79`) |
| `MCLegacy_emptied` (`MCLegacy`) | `NeverEmptied` | `legacy/RECOVERY.md:8`: picks the lowest-TTFT node | two callbacks commit, the second after the first has cleared `PendingIP` (`gpuha.go:84`): the zone is written with an empty address |
| `MCAlgorithms_colon` (`MCAlgorithms`) | `RoundTrip` | `topology.py:5`: lists of scalars | a list item with a colon in it (a URL) is read as a mapping (`topology.py:101`) |
| `MCAlgorithms_dedent` (`MCAlgorithms`) | `EveryLineCounts` | `topology.py:3`: exactly the constrained subset | what is less indented than the first line is dropped without an error (`topology.py:137`) |
| `DeadMan_clean` (`DeadMan`) | `CleanIsClean` | `docs/NOMAD_NOTES.md:58` takes the log line for confirmation | a list that failed is empty, and an empty list is logged as clean (`deadman.sh:12`) |

## The proofs

Eight modules hold the theorems, one beside each component and `AccountsProofs`
beside the three that share nothing. Each theorem follows from the assumptions
that the module of the component declares (`SelectionAssumption`,
`RouterAssumption` and so on: finite sets, positive deadlines, distinct names of
what is no name) and from the hypotheses in the last column, each an `ASSUME` or an antecedent in
its theorem. `Loads` only gives a type; the others name what the code relies on
and does not enforce, and the paragraphs below say what happens without them.

| module | theorem | proves, of `Spec` | under |
|---|---|---|---|
| `TelemetryProofs` | `TypeCorrect`, `DropsAddUpHolds`, `SeedCatchesUpHolds` | `TypeOK`, `DropsAddUp`, `SeedCatchesUp` | |
| | `SilenceRunsOut` | the safety half of `SilenceIsDeath` | |
| `RetryPlanProofs` | `PlanIsSoundHolds` | `PlanIsSound` | `Loads` |
| `RouterProofs` | `TypeCorrect`, `OneVoiceHolds`, `LatchHolds`, `Refinement` | `TypeOK`, `OneVoice`, `LatchIsOneWay`, `FirstTokenContract` | |
| | `WaitIsBoundedHolds`, `WellFramedHolds`, `StatsAddUpHolds`, `TripsTheCulpritHolds` | `WaitIsBounded`, `WellFramed`, `StatsAddUp`, `TripsTheCulprit` | |
| | `PlannedAreLiveHolds` | `PlannedAreLive` | `Booted` |
| | `FirstTokenWithin` | `WaitIsBounded` in terms of `Deadline` and `MaxAttempts` alone | |
| | `UnansweredHolds` | which two ends leave a client unanswered | |
| `Tier1Proofs` | `TypeCorrect` | `TypeOK` | |
| | `AnswerIsCurrentHolds`, `EmittersAreSeenHolds` | `AnswerIsCurrent`, `EmittersAreSeen` | |
| | `NeverEmptyHolds` | `NeverEmpty` | `NeverDry` |
| | `LostOnlyToGrowth` | what a query and the monitor can be lost to | `OneMap` |
| `OrchestratorProofs` | `TypeCorrect`, `TornDownIsGoneHolds`, `UpIsLiveHolds` | `TypeOK`, `TornDownIsGone`, `UpIsLive` | |
| | `DownIsDownHolds` | `DownIsDown`, and `DownDestroys` of a run that is down | `Careful`, the second without |
| | `FailedLeavesWhatAcquireLost` | what a failed `up` may leave | |
| | `DownLeavesWhatWasNotRecorded` | what a `down` may leave | |
| `FabricProofs` | `TypeCorrect`, `DeadIsDarkHolds`, `StatusIsHonestHolds` | `TypeOK`, `DeadIsDark`, `StatusIsHonest` | |
| | `NeverSilentHolds` | `NeverSilent` | `~MayBeBlank` |
| | `OnlyRestartsDisturb` | what takes a pool that emits out of the answer | `~MayBeBlank` |
| `LambdaProofs` | `TypeCorrect`, `ReturnedMeansGoneHolds`, `Refinement` | `TypeOK`, `ReturnedMeansGone`, `KeepsThePromise` | |
| `AccountsProofs` (of `MCSpec`) | `TypesCorrect`, `UpServesHolds`, `BothRefine` | `TypesOK`, `UpServes`, `BothKeepThePromise` | |
| | `DoneMeansZeroHolds` | `DoneMeansZero` | `backstop`, or `Alone` |
| | `OnlyLambdaIsLeft` | that an undisturbed dead man leaves at most Lambda instances | |
| | `CleanIsCleanHolds` | `CleanIsClean` | `~Flaky` |
| | `CleanStaysClean` | that undisturbed, what was logged as clean stays empty | |
| | `RequestsAreBoundedHolds` | `RequestsAreBounded` | |
| | `ReapIsHonestHolds` | `ReapIsHonest` | `"unusable" \notin Faults` |

Every module states an inductive invariant (`IInv`; `ServiceInv`, `HonestInv` and
`LeftInv` extend it in the second parts of `RouterProofs`, `FabricProofs` and
`OrchestratorProofs`, `PromiseInv` in `LambdaProofs`; in `AccountsProofs` it is
`AccountsInv`), proves it of the initial states and of each action in a lemma
of its own, and draws the theorems from it. Proofs of refinement show that the
initial states map to initial states and that each step maps to a step or a
stutter.

**Telemetry.** For any nodes, window, horizon and network. Of a node that the
ingest has never heard, no frame may be on the account (`UnknownIsClear`), or
its first frame would begin with a wrong balance: that makes `DropsAddUp`
inductive. `SeedCatchesUp` speaks of what the ingest remembers and has to be
followed back to where it came from: no number is ahead of the clock in the
emitter, nor more than one ahead in a frame (`NotAhead`). That a silent node
leaves the fresh set for good needs fairness; that nothing can hold it there for
ever does not. Only a frame with a number above the last one kept is a sign of
life (`Signs`), there are finitely many in flight (`FiniteInv`: the proof counts
them with the theorems about finite sets), a silent node adds none, and each
that is taken is used up with its duplicates (`SilenceRunsOut`).

**Retry plans.** For any finite set of workers, any loads, any `TopN` and number
of attempts; `Loads` says that loads are records of natural numbers, of which
TLC is given a few. The plan so far names different workers, all of them
eligible (`PlanInv`), and the loop ends only when no attempt or no worker is
left (`EndInv`). The second half needs that `select` always finds somebody:
among finitely many bounded scores there is a best (`BestExists`, by the
well-foundedness of the natural numbers), so fewer than `TopN` beat him
(`SelectsSomebody`). With `RetryPlansType` this closes the gap between the loop
and `Router`, which draws any plan of `RetryPlans`.

**Router.** For any finite sets of workers and requests and any deadlines.
`OneVoice` is not inductive: it says nothing of the worker the *next* chunk
will come from. `IInv` adds per request that the attempt is an index of its plan
while `handle` is in its loop (`AttInv`), that once committed the request is
past its deadlines and the current worker is still the one its head names
(`LatchInv`), and that until then nothing was forwarded and, while it may still
be answered, nothing was said (`QuietInv`).

The lemma about a step, `HandleStep`, proves four things at once (`GoodStep`):
the invariant holds afterwards, other requests are untouched, the latch holds
(`LatchStep`), and what the client sees makes one legal move or none
(`PhaseStep`). It is proved per exit of `handle` (`AttemptFailsStep`,
`MidstreamFailsStep`, `ForwardStep`, `ArriveStep`, `PlainMoves`), and
`OtherStep` covers the telemetry, the clock and stuttering.

The second half of the module looks at a step of `handle` from outside, as one of
nine turns (`Planned`, `Refused503`, `Retried`, `GivenUp`, `Truncated`,
`Forwarded`, `Moved`, `Finished`, `Departed`); each of the other invariants is
then shown to survive each turn. A request has waited at most twice the deadline
for each attempt behind it, plus what has run of this one (`WaitInv`: without
the part about the attempt at hand it is not inductive). What was written to a
client says how many terminators there may be at each await (`FrameInv`).
`StatsAddUp` counts requests, so its proof counts sets: a turn moves one request
between `InFlight`, `Cut` and the settled ones, and the counter it bumps is that
of the set it joins. For `PlannedAreLive` the selector must never take a
worker for fresher than its telemetry (`HeardInv`). `Booted` says that the
machine has been up for longer than the window, for `last_seen = 0.0` of a worker
that was never heard is otherwise recent. `UnansweredHolds` goes through the
turns once more: a client that stays gets a head or is told, by every turn but
two, and these are both before the first token.

**Tier-1.** For any emitters, pools, maps and window, and any interleaving of
query, monitor, ingest and reload. A query reads the map three times and the
views one by one, so `AnswerIsCurrent` speaks of two histories: what was there
all through the query (`current`, a node and the pool it is heard for), and what
ever was (`everFresh`, `everMapped`). `QueryInv` says, for each place the query may
be at, that a pool still current has been taken for fresh or is before the loop and
will be, and that all taken was fresh once. A node may speak for several pools, as
under the bootstrap scripts it does: its view then changes its backend, and what was
current ends there. `SeenInv` ties the age of a view to the silence of the emitter in
front, and says that a frame of his that is due is ahead of the view; `SpeakerInv`
says whose number a view holds. So who is behind is shut out, by somebody who is
heard (`MCTier1_shared.cfg` is what remains of the documented promise). `NeverDry` says that there is a
whale or that no reload finds an empty map; then the answer under way has
something in it at every place of a query (`AddressInv`). `OneMap` says that
reloads change nothing; then a pool that was matched can still be looked up
(`LookupInv`), and a loop over the views that has not raised can only do so when
one has joined since it began (`GrowthInv`, by the cardinality of the views).

**Orchestrator.** For any pools, sizes, regions, quorum and faults, with kills
between any two steps. `PhaseInv` says which command may be where and with what
status, `ThreadInv` that a pool is in the file only after its last create and in
the map only when all its handles are verified, `LateInv` that a create which
outlives its `up` is of a pool that nobody recorded: that is why nothing marked
torn down comes back. `TodoInv` cuts a teardown in what lies before it and what
lies behind. `ApplyInv` follows the map from memory to disk to Tier-1, which
is what `UpIsLive` needs. `DownIsDown` has two halves. That all recorded is gone
or reported holds always (`DownDestroys`); that nothing is mapped needs `Careful`:
no `down` is killed and the map can be written, for otherwise a pool may have left
the run's file and not the map (`MCOrchestrator_killed.cfg`). An adapter that
raises ends a `down` before it unsets anything, so nothing depends on it.
`missed` grows only by what a delete was taken for done about, which is what keeps
`TornDownIsGone` true of all three providers.

`FailedIsTornDown` is refuted by what an `acquire` loses that raises. The last
part shows that this is all that is lost. A pool is recorded whole or not at all
(`Whole`), except while its thread is between two `add_resource` (`WholeInv`),
and the teardown of `up` has before it what it has not tried (`GoneInv`). So
when `up` has failed and nothing is reported, every instance that is left is one a
delete was wrong about (`missed`), one that Lambda's `acquire` had left in an
earlier region, or of a pool of which the run's file has no handle (`UnknownPool`).
Of a `down` less can be said, and `DownLeavesWhatWasNotRecorded` says it: what a
handle in the file covers is gone, but for `missed`. TLC shows that it is no more
than that: an `up` killed between two `add_resource` leaves half a pool recorded,
and `down` takes the half it knows.

**Fabric.** For any finite set of runs, any names, shared or not, and any window.
`DeadIsDark` speaks of the answer, which depends on the map that Tier-1
loaded, which some command wrote from a copy it read when it began, or left half
overwritten. `IInv` says what survives all of that: in no map there is, in a
command, on disk, in a temporary file or in Tier-1, does the address of a run
stand under the name of another (`MapsInv`); a descriptor on the temporary file
means that there is one (`FdInv`); and Tier-1 has never heard of a name more
recently than some run of that name has run (`AgeInv`). So a fresh entry has a name
that somebody emitted under within the window. That this need not be the run
whose address it is, if a topology is run again, is `MCFabric_stale.cfg`.
`OverwrittenMine` is the fact about files: writing over a text mixes two maps entry
by entry.

`StatusIsHonest` is about histories without overlap, so its invariant,
`HonestInv`, is guarded by `~overlapped`: then commands are serial, and each run
is `Orderly`: the command owns the disk (`OwnsDisk`), its copy differs from the
map at most in its own entry (`CopyInv`), an entry in the map is known to the
run's file or about to be overwritten (`EntryInv`). Each action is shown to leave
its own run orderly and to stay `Apart` from the others, and `ApartKeeps` does
the rest. Runs of one name take each other's place in the map, which `owner`
follows; and a run whose `down` was killed between its two files (`cut`) may be down
and mapped for as long as nobody else writes, which is why `CopyInv` and `EntryInv`
except it.

With addresses for all (`~MayBeBlank`), no map that anybody holds has an empty
one, written over or not (`NoBlank`, `AddressInv`), so `inet_aton` never raises
and the answer is never empty (`NeverSilentHolds`). `OnlyRestartsDisturb` then
goes through all actions, with names shared or not: the map that Tier-1 answers
from changes only when it starts, and a running pool's age only grows by a tick,
in which it sends.

**Lambda.** For any number of regions and rounds. An id that was released must
never come to life again. It cannot, because `acquire` never goes back: `Past(i)`
says that the launch of `i` lies behind it, and the invariant that everything
released, batched, held in a handle or existing is `Past` (`HeldArePast`,
`ExistingArePast`). `Launch` makes an instance that is not. `released` holds what
`_terminate` returned for because it asked or saw that it was gone; two answers
make it return for what lives, a "not found" for a batch of which one is gone, and a
list whose body was lost, and the theorem says that there are no others.
`Onward` is what every exit of `acquire`, `bootstrap` and `verify` has
in common. The refinement needs where the instances are that live and are no
strays: in the region at hand, and when `acquire` goes on to the next, nowhere
(`PromiseInv`). A stray is made only where `acquire` goes on because a request about
it raised (`NextRegion`) or misled it (`ReturnMisled`).

**RunPod, the dead man.** `AccountsProofs` is about the composition that the run
checks, with the two as instances `R` and `D`. RunPod's handles are all of the
pods or none (`PodsAcquired`), and the pods behind the run have been verified and so
have served (`PodsVerified`), whether or not they still do; what anybody else does to
a pod is to let it age, stop or go (`Ages`), so `UpServes` and the promise follow. Of the dead man, `Swept` says
what is empty behind the script as long as nobody disturbs. `DoneMeansZero` needs
the orchestrator's reap as a backstop, or that there is no more than one Lambda
instance (`Alone`): that is the defect of the run `deadman_alone`, delimited
from the other side, and `OnlyLambdaIsLeft` says that nothing else is. His log
is right at the moment he writes it if no request fails (`CleanIsCleanHolds`) and
stays right if nobody creates besides (`CleanStaysClean`). `RequestsLeft` counts
the requests before him in the worst case; that each lowers it, failing or not,
is `RequestsAreBoundedHolds`. For `ReapIsHonestHolds`, what `reap` looks at lies behind
the run's creates, and what it has reported does not exist (`ReportInv`): pods
never come back. An answer that is taken for one and is none (`"unusable"`) is
what breaks it.

**The counterexamples, delimited.** For each configuration that ends in a
counterexample in the orchestrator, the data plane or the accounts, a theorem
says what has to be true for the property to hold, or what is left of it without:

| cfg | theorem |
|---|---|
| `MCRouter_unanswered` | `UnansweredHolds`: two ends, both before the first token |
| `MCRouter_deadline` | `WaitIsBoundedHolds`, `FirstTokenWithin`: two deadlines, and no more |
| `MCTier1_shared` | `EmittersAreSeenHolds`: only who is behind somebody that is heard |
| `MCTier1_empty` | `NeverEmptyHolds`: with a whale, or without an empty map |
| `MCOrchestrator_orphan` | `FailedLeavesWhatAcquireLost`: only what the run's file never heard of |
| `MCOrchestrator_killed` | `DownIsDownHolds`: if no `down` is killed and the map can be written |
| `MCFabric_lost` | `StatusIsHonestHolds`: until commands have overlapped |
| `MCFabric_stale` | `DeadIsDarkHolds`: only while another pool of that name emits |
| `MCFabric_rewire` | `OnlyRestartsDisturb`: a restart and nothing else |
| `MCFabric_blank` | `NeverSilentHolds`: if providers give addresses |
| `RunPod_unconfirmed` | `ReapIsHonestHolds`: if what answers is an answer |
| `Lambda_gone` | `ReturnedMeansGoneHolds`: "not found" and an empty list, and no other answer |
| `Lambda_stray` | `Refinement`: only strays, which a request about them raised or lied about |
| `DeadMan_clean` | `CleanIsCleanHolds`, `CleanStaysClean`: if no request fails, and nobody creates |
| `DeadMan_alone` | `DoneMeansZeroHolds`, `OnlyLambdaIsLeft`: with the backstop, and Lambda only |

Those of `Legacy` and `Topology` have none.

**Only model-checked.** All liveness, which is out of the prover's reach:
`SilenceIsDeath`, `PreTokenEnds`, `EveryRequestEnds`, `EvacuationIsNoticed`,
`EveryCommandEnds`, `ReapIsTheBackstop`, `UpComesBack`, `BothSweptClean`,
`Settles`. Of one of them the part that is safety is proved
(`SilenceRunsOut`), and of `PreTokenEnds` the bound (`FirstTokenWithin`). What rests on recursive operators: `RoundTrip`,
`EveryLineCounts`. That is: every other property of a passing run is a theorem,
under the hypotheses of the table.

## Observed while modelling

Behaviour the models have or leave out on purpose, that a reader of the code may
want to know, and that no configuration above states.

- A shim restarted within the second of its last frame repeats that frame's
  number, and that frame is ignored (`vllm_telemetry_shim.py:56`): the "one" in
  `SeedCatchesUp`.
- After a restart `dropped_frames` also counts the numbers between the last one
  sent and the new seed, which were never sent (`telemetry.py:61`).
- A plan is made once; a retry may go to a worker that has meanwhile fallen
  silent (`router.py:118`).
- `last_seen = 0.0` stands for never (`router.py:26`), but is recent while the
  host's monotonic clock is below the window: `Uptime` in `Router`.
- A `Content-Length` body that ends before its first byte is answered with a bare
  terminator, without a head, and counted as ok (`router.py:58`, `router.py:151`);
  `Phase` calls such a request lost.
- A client that leaves mid-stream trips the breaker of a healthy worker
  (`router.py:153`).
- A query is dropped with a logged exception when a reload removes a pool it has
  already matched, or a node's first frame grows the dict it iterates
  (`tier1_dns.py:104`, `telemetry.py:73`); the second also ends the monitor thread
  (`tier1_dns.py:124`).
- `runpod` ignores what `_delete` returns (`orchestrator/adapters/runpod_gpu.py:277`),
  so its resources may be marked torn down, without an error, and still exist:
  `TornDownIsGone` excepts them by `missed`.
- Requests to Lambda and `gcloud` have no timeout, nor has the join of the threads of
  `up`: one that hangs holds its command for ever, and the dead man too
  (`orchestrator/adapters/lambda_gpu.py:164`, `orchestrator/engine.py:78`,
  `deadman.sh:8`).
- A route of the legacy plugin that is pending is not withdrawn when the committed one
  is the best again: it is committed first, and the better one after another debounce
  (`legacy/gpuha.go:79`).
- An `up` that fails after wiring leaves its pools in the map until `down`; only
  their silence keeps them out of the answer (`DeadIsDark`).
- `down` without `--topology` edits the default map (`orchestrator/cli.py:123`): the
  pools of a run whose topology names another map stay wired there.
- The Lambda and stub adapters file a handle under the pool's name, the map under
  its backend; a topology in which they differ has two names for one pool.
- The whale judges a request by its first segment (`whale.py:138`): a body that
  arrives later asks for a stream in vain, and bytes that arrive after its close
  may reset the connection before the client has read the answer.
- A snapshot longer than the 2048-byte buffer of the legacy listener
  (`legacy/gpuha.go:57`) is cut, fails to parse and is ignored.
- `gcloud` deletes of an instance that is already gone fail, so a `down` that was
  killed mid-delete reports an error for it the next time.

## Not modelled

- The DNS and HTTP wire formats, Prometheus text, logs and events: data no
  property is about.
- The weights of the draw in `select` (only which workers it can return).
- `__stats` and 404 answers of the router: they change no state.
- The whale: one read, one look and one precomputed reply per connection, with
  nothing shared or remembered. `Tier1` and `Fabric` have it as an address.
- The command lines of curl, ssh and gcloud and the bootstrap scripts they push:
  their outcomes are actions. `gcp_stub` is modelled as the engine sees it
  (`Orchestrator`), not request by request.
- `GPUHA_SERIAL`, two commands of one run at the same time, and commands that
  are given different map files.
- Types of scalars, comments, JSON and the schema in the topology parser.
- The installation of the plane and the `gpuha` wrapper (shell without state),
  NOTIFY in the legacy plugin, tests and drills.

## Plan

Done, in this order: `Telemetry`, `Selection`, `RetryPlan`, `FirstToken`,
`Router`, `Tier1`, `Orchestrator`, `RouterProofs`; `Fabric` as the composition of
the orchestrator's map with Tier-1's answer, `FabricProofs`; `Provider`,
`RunPod`, `Lambda`, `LambdaProofs`; `DeadMan`, `Topology`, `Legacy`; the proofs of
the safety properties that were only model-checked, in `TelemetryProofs`,
`RetryPlanProofs`, `Tier1Proofs`, `OrchestratorProofs` and `AccountsProofs` and
in further parts of `RouterProofs`, `FabricProofs` and `LambdaProofs`; the
theorems that delimit the counterexamples. Left:

1. `gcp_stub` request by request, as a third implementation of `Provider`.
2. Theorems about `Legacy`, whose run states liveness only.

That a run implements `Provider` pool by pool, once planned, is not so and not
missed: a create that is still under way when `up` is killed lands after its
pool is over, and an `up` killed between `acquire` and `add_resource` has
handles that no file has. What the engine promises instead is that what it
forgets is never in its file: `FailedLeavesWhatAcquireLost` and
`DownLeavesWhatWasNotRecorded`.
