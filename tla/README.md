# Prequal load balancer: models and proofs

TLA+ models of the Go load balancer in `src/`, their TLC runs, and TLAPS proofs.
Line numbers refer to `src/pkg/loadbalancer/balancer.go` unless another file is
named (`types.go`, `metrics.go` in the same directory, `backend/main.go`,
`cmd/balancer/main.go`, `cmd/bgload/main.go`).

## 1. The system

A *balancer* process accepts HTTP requests, picks one of a fixed list of
*backends* for each by the configured algorithm, and relays it. Background
goroutines probe the backends and feed the algorithm.

| component | state | operations | correct when |
|---|---|---|---|
| `ProbePool` (`types.go:72-192`) | `entries`, a slice of `*ProbeEntry` under its own mutex | `Add` (evicts the oldest at capacity), `Fresh` (copies what is not stale), `MarkUsed` (reuse budget), `RemoveWorst` | bounded; a spent entry is gone; evictions and removals never keep the worse entry |
| Prober and health (141-296) | `Server.IsHealthy` and last signals, under `lb.mu`; `lb_server_health` | a batch of probes per tick; `ProbeRatePerQuery` probes per request; each probe is a goroutine with a timeout | health and its gauge follow the backends, whatever the order of the results; probes do not pile up |
| `selectPrequal` (418-471) | locals over a copy of the pool | hot/cold classification by the QRIF quantile, choice, `MarkUsed`, random fallback | never picks an entry when a healthy candidate is better in both signals |
| Probe remover (301-309) | `removeToggle` | every half interval: threshold, then `RemoveWorst` | as above for the entry it drops |
| Other selectors (313-345, 473-589) | `rrIdx`, `EWMALatency`, `Weight` | round robin, random, least loaded, LL-Po2C, weighted round robin and its refresh | one rotation for all requests; choices off by no more than what changed meanwhile; draws follow the weights |
| Forwarding (593-653) | `ClientRIF` per server, `Stats`, metrics | `ServeHTTP`, `forwardRequest`, `ErrorHandler`, the deferred function | in-flight counts exact; each ending counted as the names say |
| Backend (`backend/main.go`) | `serverRIF`, `concQueue`, `concSem`, latency buckets | `/`, with a bounded waiting room and a timeout; `/health` | counts and tokens exact; every request answered |
| Process (`cmd/balancer/main.go`) | server list | register, start goroutines, serve, shut down, be restarted | nothing is counted for ever; requests in flight survive a shutdown (they do not) |
| Load generator (`cmd/bgload`) | - | sends at a fixed rate straight to the backends | none: it is the load the balancer does not see |

**Interaction.** A request triggers probes in goroutines of their own (600), is
assigned by the results of *earlier* probes (603) and forwarded (615). A probe is
`GET /health`: the backend answers 200 with `X-RIF`, the number of requests and
probes it is serving. The result goes to `Server` under `lb.mu`, and then, in
other critical sections, to a gauge and to the pool. The remover and the weight
updater run beside all of that.

**What is hard.** A selection works on a copy of the pool while the entries are
used up and removed under it (425 against 469). `IsHealthy` is read unlocked
(436). The remover's threshold and its removal are two critical sections
(305-307). Probe results land out of order, failed ones included. The other
selectors read counters and weights one at a time while they change. Gauges are
set by a load and a separate store (626, 632). A forwarding can end in five ways,
one of them a panic. Capacity is two channels with deferred releases on three
paths. A client, or the whole balancer, may go away while the backend works on.
`PROJECT.json` lists each hazard at its line, with the property that covers it or
the reason why none does.

## 2. The modules

### `PoolOps` - the rules, as set operators
What `Fresh`, `Add`, `removeOldestLocked`, `RemoveWorst`, the HCL choice,
`rifQuantile` and `computeBreuse` compute, on a set of probes and a function that
gives each its entry. A loop that keeps the first of several equal entries
becomes the *set* of the entries it might keep: which one is first depends only
on positions in a slice. Arithmetic is exact: QRIF is a fraction `QNum / QDen`
and the rates are integers, as in every configuration in the repository. The
source computes in `float64`, so an index or a budget that is an exact integer
may come out one lower there; that rounding is not modelled. A negative QRIF is
out of the model (the source would index out of range).

### `Prequal` - the core
One balancer running `AlgorithmPrequal`, one action per access to shared state:

| action | code |
|---|---|
| `ProbeAll` | a tick of `runPeriodicProber`, 141-160 |
| `Respond(p, r)` | `probeServer` returns `r`, the health is recorded, 162-176, 210-250, 275-285 |
| `Add(p)` | the entry is built and added, 187-197, 287-293 |
| `Arrive(h)` | `ServeHTTP` and `triggerAsyncProbes`, 255-274, 593-603 |
| `TakeFresh(h)` | `pool.Fresh()`, 425-430 |
| `Classify(h, p)` | one iteration of the loop with its unlocked read of `IsHealthy`, 435-444 |
| `MarkUsed(h, p)` | choice and `pool.MarkUsed`, 446-470 |
| `SelectRandom(h, s)` | `selectRandom`, 428-429, 465-467, 538-546 |
| `ScanThreshold`, `RemoveWorst` | the two halves of a tick of `runProbeRemover`, 304-308 |
| `Tick` | time |

- A probe is named by its server and a number; it stands for the goroutine, the
  HTTP call and the entry. Its delay is unbounded. `MaxProbes` bounds the probes
  of one server: the probes after that are ones that never answer.
- `Respond` picks `firedAt` between the moment of the `go` statement and the
  answer, which is when the goroutine first ran.
- Servers are healthy at the start (`cmd/balancer/main.go:85`) and their list
  never changes after it, so `computeBreuse` is the constant `MaxUses`.
- `MarkUsed` is one step from the end of the loop to the return: the choice reads
  only locals and fields of entries that never change, so it commutes with
  whatever happens before the pool's mutex is taken.
- A triggered probe that is unhealthy ends as `dropped` (276), any other as `done`:
  the second are the entries that were added (`Added`).
- The loop of `selectPrequal` visits the snapshot in any order: its order is that
  of landing and does not matter for what is found.
- `LatencyMs`, `ServerRIF`, `CPULoad` and `LastProbeAt` of `Server` are written
  and not read on this path. They are left out.
- Ticks of the prober and the remover happen at any time: nothing is assumed of
  their intervals or of request rates.

### `Pool`, `PoolSlice` - the pool in two levels
`Pool` is what a caller may rely on: a bounded set, one atomic change per call,
ties open, each entry added once and used at most `Overshoot` times beyond its
budget, by callers that still have a copy. `PoolSlice` has the slice and the loops
as written, with folds: `RemoveOldestLocked`, `RemoveEntryLocked`, `WorstLoop`;
`Split`, `Fastest` and `LeastLoaded` for the three loops of `selectPrequal`; `Sorted`
for `sort.Slice`, by what it returns, and `RifQuantileLoop`. `RefinesPool` maps the
slice to its set of elements and says that `PoolSlice` implements `Pool`;
`ImplementsPool`, in `Prequal`, says that the goroutines use the pool as `Pool`
allows, with `Overshoot` one less than the requests. The three `...LoopCorrect`
invariants say of every reachable slice that a loop ends in what the rule of
`PoolOps` allows, so that `Prequal`, which uses the rules, stands for the loops.
For the quantile the rule and the loop share the index computation, so
`QuantileLoopCorrect` also says what the value is without it (`IsQuantile`: how
many entries may be below it, and how many must not be above it).

### `Detector`, `Health` - the recorded health in two levels
`Detector` is what a reader of a health bit may rely on: any verdict while the
backend comes and goes, the right one later than `Memory` ticks after its last
change, and never a wrong one for longer than `Lag`. `Health` has one backend, the
ticker (`ProbeAll`), the periodic and the triggered probes (`Send`, `Trigger`),
the deadline of each call (`left`), the results a call can still return (`may`),
and the two places a result goes to: `Record` under `lb.mu`, then `Publish` for
the gauge; `RecordTriggered` only ever reports success. Time is discrete. A
backend that changes while a call is under way may have met it in either state.
`HealthDetects` and `GaugeDetects` are two refinement mappings to `Detector`, with
`view` as `IsHealthy` and as the gauge; `Memory` is the timeout and `Lag` is
`Timeout + Interval + Timeout`. A goroutine whose call has returned takes its
steps within the tick; with the scheduler stalled for longer than that the lag
grows by the stall.

### `Selectors` - the algorithms Prequal is compared with
Each access to shared state is a step: the copy of the healthy list under
`lb.mu` (`Snapshot`), `AddUint32` (`Ticket`), each load of `ClientRIF`
(`Load`, `Compare`, `LoadFirst`, `CompareSecond`), each read of a weight (`Sum`,
`Scan`), and beside them `Probed`, `Enter`, `Leave` and `Refresh`, which changes one
server's weight a step while it holds `lb.mu`, a lock the readers of the weights
do not take. `rrIdx` wraps at `Word`; its conversion to `int` is that of a 64-bit
machine (with an `int` of 32 bits the index would be negative after half the
counter's range). Floating point becomes integers: latencies
in ms, `Scale` for 1000, `EWMAAlpha` a fraction, quotients rounded down; the draw
is the integer below it. `moved` and `turns` are history variables for the
properties: `moved` is by how much what a request reads has changed since it
began to select, which is `ClientRIF` for the least-loaded rules (`LoadMoved`) and
the weights for weighted round robin (`WeightMoved`). `Candidates` are the whole list or, for LL-Po2C, any two of it in
either order.

### `Forward` - requests and counters
`ServeHTTP` and `forwardRequest`, one action per atomic operation, metric update
or return. `Select` returns *any* server or nil, so it covers all six selectors.
`httputil.ReverseProxy` is known by its results: it relays an answer, calls
`ErrorHandler`, or panics with `ErrAbortHandler` (which `net/http` recovers and
which still runs the deferred function). `BadAddress` are the servers whose
address `url.Parse` rejects.

### `Backend` - the capacity gate
`serverRIF`, the number of tokens in `concQueue` and `concSem`, and where each
goroutine is; the deferred calls are steps, in their reverse order. A freed slot
goes to any waiter, and the timer may fire at any time. A send to a full channel
and a receive from an empty one block, as in Go; `ReleasesNeverBlock` proves that
a deferred receive never does. `X-RIF` is a read of
`serverRIF`; the model says what that counter is at every moment and keeps no
header.

### `Service` - the composition
`Backend` with a balancer process in front of it and other clients beside it. It
extends `Backend`: a step of a backend goroutine is a step of `Backend` and
leaves the balancer alone (`BackendAlone`), or is one that both take together
(`Send` is the `Arrive` of the backend). Of the balancer it has `ClientRIF`, where
`forwardRequest` is for each request (`Accept` ... `Finish`), and the life of the
process: `Shutdown` closes the listeners, `MainReturns` does not wait for it,
`Crash` is a kill or `os.Exit`, and `docker-compose.yml` restarts the container
(`Restart`). A call may fail before it arrives, a client may give up while the
backend goes on (its handler does not look at the request's context), and
`cmd/bgload` sends requests of its own.

## 3. What the runs check

| run | instance | what it shows |
|---|---|---|
| `prequal_selection` | 3 servers, 1 request at a time, pool of 3, RIF and latency in {1, 2}, failing probes | `TypeOK`; `ChoiceNotDominated`; `HotOnlyWhenColdUnhealthy`; `RemovalNotDominating`; `UseOvershootBounded`, with the fallback budget |
| `prequal_pool` | 3 servers, 2 concurrent requests, pool of 2 with a budget of 2, age limit 0 and a clock of 2 values | `PoolBounded`; `UseOvershootBounded`; `EvictionSparesFresh`; `ImplementsPool` (refinement); `Inv`, the inductive invariant |
| `pool_slice` | 4 entries, a pool of 3, two values of each signal, thresholds at, above and below them | refinement and the loops |
| `forward` | 2 servers, one with a bad address, 3 goroutines, 4 requests | `InFlightExact`; `Ledger` |
| `health` | timeout 2, interval 1, 4 goroutines of the prober, 1 triggered | `HealthDetects`, `GaugeDetects` (refinement, with the detector's liveness); `ProbesBounded`; `HealthFollows` |
| `selectors` | 3 servers, up to 3 requests at once, `Word` = 16, latencies {0, 2, 8} | `RotationFair`; `LeastLoadedWithinDrift`; `ShareWithinDrift`; `EstimateInRange` |
| `service` | 2 requests of the balancer, 2 of the load generator, 1 probe, 1 slot and 3 places | `TokensExact`; `RIFsReconcile`; `ServiceTypeOK`; `EveryRequestAnswered`; `ForwardedEnd` |

What the less obvious ones say:

- `HotOnlyWhenColdUnhealthy`: a request that settles for a hot entry has no cold
  candidate left, although more than a QRIF share of the other entries it copied
  were cold. A quantile index that is too low breaks the second part; one that is
  too high makes no entry hot and is caught by `QuantileLoopCorrect`.
- `HealthDetects` / `GaugeDetects`: late results do overwrite newer ones, but only
  for a timeout; `Lag` is tight (the run fails with a `Lag` one smaller).
- `RotationFair`: concurrent requests draw from one rotation, on the list each of
  them copied; where `rrIdx` wraps the rotation starts over at the wrong place,
  and no server waits for more than twice the length of the list.
- `LeastLoadedWithinDrift`: two loads of `ClientRIF` are of different moments, so
  "least loaded" is false in general. The choice has at most one request more
  than any candidate for each change since the selection began.
- `ShareWithinDrift`: the draw is made from one total of the weights and compared
  with another when a refresh comes in between. The server it ends on, by the fall
  through to the last one too, is the one whose share the draw falls in, within
  the sum of what the weights changed by; with no change it is exact.
- `EstimateInRange`: a probe that fails at once measures 0 ms; the estimate stays
  among the positive measurements and so the weight positive and finite, and the
  branches of 337, 482 and 492 for zero are never taken.
- `RIFsReconcile` makes `types.go:44` precise ("equals server-local RIF when there
  is a single LB instance"): the two differ by the calls on their way and by what
  the backend does for others, given-up requests and those of a balancer that
  died included.

Five runs are expected to end in a counterexample. Each is a disagreement of the
code with a sentence beside it, quoted in `PROJECT.json`:

- `prequal_signals`: a failed *periodic* probe puts an entry with RIF -1 in the
  pool (190), which triggered probes do not (276). It counts as cold, pulls the
  quantile down, and is chosen once the server is marked healthy again.
- `forward_gauge`: `lb_server_rif` can keep a stale value with no request in
  progress.
- `forward_failures`: a 500 for a bad address and a broken-off response are not
  counted as errors. (`Ledger` says exactly what the counters do mean: `ok`
  includes every 502 and 500.)
- `backend_room`: a request holds its place in the waiting room while it is
  served, so only two times the active slots can wait, not three.
- `service_shutdown`: `main` returns, and the process ends, as soon as `Shutdown`
  has closed the listeners, with requests still in progress.

**Bounds.** *Prequal*: one probe per server and a pool of 2 or 3 already give a
full pool, an eviction, a spent entry in a snapshot, a removal by a threshold of
an earlier pool, and health that changes during classification; two values of a
signal are enough for better, equal and worse; two concurrent requests are what
an overshoot needs. `ProbeRate` = 6 with a pool of 2 gives a budget of 2 through the
positive denominator of `computeBreuse`; in the other run, with a pool as large as
the fleet, the denominator is negative and the budget that of the fallback. An age limit of 0 with one tick makes fresh and stale entries meet.
*Health*: with a timeout of two intervals three probes overlap, and a fourth
goroutine is there to show that it is never needed (`ProbesBounded`); `Start` covers a first tick
that is late. *Selectors*: 16 = 1 mod 3, as 2^32 is, so the wrap does to three
servers what it does in the source, and requests come again without a bound, so
the counter gets there; `MCAtOnce` and `MCMaxProbes` bound each algorithm by what disturbs
it (three requests for least loaded, so that both operands of a comparison move;
weighted requests write nothing others read, so one at a time); `MaxRefresh` = 2 lets
weights change before and during a selection, also between the sum and the scan.
*Service*: one request more than
the places makes "queue full" happen; two requests of each kind are enough for
one of them to be given up and another to hold what it waits for; names are
used again, so nothing bounds the length of a behaviour. *Forward*:
`MaxRequests` lets a goroutine serve a second request. *PoolSlice*:
quantiles up to 2 take the index past the end, to its clamp;
`MaxUses + Overshoot` bounds the uses of an entry; 1 is enough for a use after
removal.
Symmetry is used in runs without liveness only. Deadlock is checked everywhere
but in `Forward`, which stops after `MaxRequests`.

**Fairness.** `Service` (and `Backend`): a goroutine of a handler that can run
eventually does (Go preempts; the work, the delays and the timer end), and while
the balancer lives its goroutines send a call or see it fail, relay an answer and
run their deferred functions. Nothing is assumed of arrivals, of who gets a slot,
of clients giving up, crashes or restarts. `Health`: the clock and the ticker go
on, and a call returns by its deadline, which `http.Client` enforces by the
context. Nothing is assumed of the backend or of triggered probes starting.
`Forward` states none: the proxy's transport has no timeout, so a request to a
silent backend may hang (`ForwardedEnd` holds because this backend answers).

## 4. What is proved

For every value of the constants that satisfies the named assumptions
(`ConstantsAssumption`, `PoolSliceAssumption`, `ForwardAssumption`,
`BackendAssumption`, `ServiceAssumption`, `HealthAssumption`,
`SelectorsAssumption`: finite fleets and goroutines, positive capacities and
budgets, natural rates and times, a counter that wraps at no less than twice the
number of servers), **every invariant, every action property and the safety of
every refinement that a passing run checks**. `PROJECT.json` lists the theorems.

- **`PoolOpsProofs`.** A finite non-empty set of entries has an oldest, a fastest,
  a least loaded one (so the rules always yield something). `QuantileAttained`:
  the quantile is the RIF of one of the entries. `QuantileShare`: no more than the
  quantile share of the other entries is below it, and more than that share is at
  it or below, or all are; the truncated index is the whole part of the share
  (`DivisionRoundsDown`), and the clamp is where all are. `BreusePositive`: the budget is
  at least 1, on both branches of `computeBreuse`.
- **`PrequalProofs`.** `TypeCorrect` is inductive as it stands, given those.
  `OvershootBounded` is not: "at most `MaxUses + |Handler| - 1` uses" says nothing
  of how many more are coming. `Inv` counts them: `Holders(p)` are the requests
  with `p` in their snapshot. While `p` is in the pool its use count is below the
  budget. The step that takes it out leaves at most `MaxUses` uses and, for that
  step or any before it, at most `|Handler|` holders, less the one that has just
  used it. After that nobody can copy `p` any more, and each use takes a holder
  away. `SnapshotOK` (candidates are in the snapshot) and `UnaddedUnknown` (nobody
  knows an entry that is not added, and it is added once) are what the induction
  needs besides. `PoolNeverOverflows` follows from the cardinality of `AfterAdd`.
  `ChoiceNeverDominated`, `RemovalNeverDominating` are a case analysis on hot and
  cold; no property of the threshold is needed beyond its being an integer, which
  is why the races on health and on the pool do no harm. `HotChoiceExplained` does
  need it: the rule takes a cold candidate if there is one, so none is left, and
  `QuantileShare` counts the entries of the snapshot that were cold. `EvictionNeverWastes` follows from
  the definition of the oldest entry.
- **`PrequalProofs`: `SharedPoolIsPool`.** Each step of `Prequal` is a step of `Pool`
  or a stutter. `SharedInv` adds to `Inv` that an entry which is, or is about to be,
  added carries what its probe observed (`SignalsOK`), with a time that is not in
  the future (`ClockOK`), and that the remover's threshold is 0 or the RIF an entry
  had, also after that entry has gone (`BoundaryOK`, by `QuantileAttained`). The
  rules look at entries of the pool only, and those are all added
  (`RulesSeeAdded`), so they see the same in both specifications. That a use is
  within the `Overshoot` of `Pool` is `UseBudget` again: the request that makes it is
  one of the holders.
- **`FoldProofs`, `PoolSliceProofs`: `SliceImplementsPool`, `WorstLoopAlwaysCorrect`,
  `ChoiceLoopAlwaysCorrect`, `QuantileLoopAlwaysCorrect`, `TypeCorrect`.** The loops
  are folds, which the community modules define by a recursive function on a set
  of indices. No induction theorem with an operator parameter can be used, so
  `UpTo` does induction up to a number with a *set* (the numbers for which the claim
  holds contain 0 and are closed under successor; a least one that is missing is
  a contradiction), `FoldExists` builds the recursive function out of those on
  shorter prefixes, and `KeepsBest` then gives the one loop invariant that all the
  scans share: nothing visited is better than the candidate kept, in any
  strict order (irreflexive and transitive). The scan of `RemoveWorst`
  has such an order too: hot before cold, hot entries by RIF, cold ones by latency
  (`WorstLoop` looks at two orders at once, but compares in one). `Split` has an
  invariant of its own: the lists are the cold and the hot healthy part of the
  visited prefix. For the quantile, `SortExists` proves that an ascending
  rearrangement exists (insertion of a last element), and `OneAtRank` and
  `SortedAtRank` that the member at position `k` of any of them is the only value
  with at most `k` entries below it and more than `k` at or below it, equal RIFs
  included; that this is a quantile is `QuantileShare`. A slice has no entry twice, which makes the in-place removal the
  removal of one element of the set.
- **`ForwardProofs`: `InFlightStaysExact`, `LedgerBalances`.** A step changes the
  locals of one goroutine (`StepOnlyMoves`), so each set that is counted grows or
  shrinks by that goroutine at most (`CountsFollow`), and one lemma per property
  goes through the actions. `InFlightExact` is inductive beside `TypeOK`, which
  says where a goroutine has a server. `Ledger` is not: a rejected request must
  be one that holds the result "noServer" and the other way round (`ResultFits`),
  or the step that ends it would enter it under another name.
- **`ServiceProofs`: `TypeCorrect`, `TokensStayExact`, `ReleasesNeverBlock`** (of the
  backend). Types and counts are inductive together only: the capacities come from
  the guards, but that `serverRIF` never falls below zero follows from whoever
  counts itself out being counted (`GoCounts`). In the same way whoever releases a
  token holds one, so the channel it receives from is not empty.
- **`ServiceProofs`** (of the composition). Every step of `Service` is one of `Backend`
  or leaves it alone (`BackendSteps`), so `Service` implements the safety part of
  `Backend` (`BackendIsUnaware`) and the backend's invariant carries over:
  `TokensExactBehindBalancer`. `CountersStayReconciled`: `ClientRIF` is the number
  of requests in progress here (with `ServiceTypeOK` an inductive invariant, and why
  it never falls below zero),
  `serverRIF` is that of requests there (`TokensExact`), and the two sets differ by
  `InTransit` and `Foreign`; cardinalities do the rest.
- **`HealthProofs`: `HealthIsDetector`, `GaugeIsDetector`.** Each step of `Health` is
  a step of `Detector` or a stutter. The invariant follows the results on their
  way: a call that can still return the wrong state was sent before the last
  change, so its deadline is within a timeout of it (`Calls`); the ticker is
  never further than an interval away (`Ticker`); and as long as the bit, or the
  gauge, is wrong there is a periodic probe under way whose only result is the
  truth, or the next tick of the ticker comes in time for one to be back by `Lag`
  (`HealthDue`, `GaugeDue`). It is the safety of `Detector`; its liveness is
  `HealthDetects` and `GaugeDetects` in the run.
- **`HealthProofs`: `ProbesStayBounded`.** The number of probes under way is not
  inductive: it says nothing of when they were sent. `SpacedInv` says that there
  is an age for each of them, at most a timeout, that the ages are an interval
  apart, and that the youngest is as old as the ticker says; so they are no more
  than the multiples of an interval in a timeout, and one.
- **`SelectorsProofs`: `EstimateStaysInRange`.** A weighted mean of two numbers in an
  interval, rounded down, is in the interval (`Smoothing`: nonlinear arithmetic,
  done by multiplying out); the invariant `Weights` needs the latencies and the
  place of the refresh besides.
- **`SelectorsProofs`: `LeastLoadedStaysWithinDrift`, `TypeCorrect`.** The bound at the
  end of a selection is not inductive, and neither is the obvious one for its
  middle. After the load of the next server two numbers are uncertain, that load
  and the best so far, and adding up an error for each would double the bound.
  `Sound` therefore relates *three* loads at once: best and next together against
  any earlier candidate and the loaded value. A change of one server then costs
  one (`OneChange`). `moved` counts no further than there are requests, which is
  enough as no two servers have more than that together (`CountedIsCapped`, from
  `Counted`: `ClientRIF` is the number of requests at a server).
- **`SelectorsProofs`: `RotationStaysFair`.** `Rotation`: the tickets remembered are
  consecutive, lead up to `rrIdx`, and come down at most once. Consecutive numbers
  meet every residue, so a window without a wrap meets every server; a window of
  two lengths less one has a whole length on one side of the wrap.
- **`SelectorsProofs`: `ShareStaysWithinDrift`.** `Drawing`: what `Sum` has added up,
  and what `Scan` has subtracted or compared, is the sum of the present weights up
  to the position it has reached, within `moved`; and the draw is below the whole
  sum, within `moved`, so the fall through to the last server is covered too.
  `SumsShift`: a weight that changes by `d` shifts each of these sums by at most `d`,
  as no list holds a server twice, which is what `moved` grows by. Other requests
  leave `moved` alone. `BeforeIsSum` proves what the fold in `Before` adds when it is
  extended by a position.

Four findings have a theorem that says how far the disagreement goes:

| run | theorem | what the code does keep |
|---|---|---|
| `prequal_signals` | `OnlyPeriodicProbesMissSignals` | a choice by an entry without a RIF takes a periodic probe, or a healthy answer without the header |
| `forward_failures` | `OnlyTwoEndingsUncounted` | the metric is exact but for the 500 and the broken-off response |
| `forward_gauge` | `GaugeSettlesWithoutOverlap` | with one request at a time the gauge settles, on every path |
| `backend_room` | `RefusalsHaveTakenRoom` | a refusal takes two times the active slots of requests that hold a place and are not being served |

Only model-checked: liveness (`EveryRequestAnswered`, `ForwardedEnd`,
`HealthFollows`, and the fairness part of `Detector` in `HealthDetects` and
`GaugeDetects`), which is out of the prover's reach as `ENABLED` is; and the five
counterexamples. No theorem says anything of the values that `Breuse` or
`RifQuantile` have in `float64` (section 2).

## 5. Not modelled, and seen on the way

- The latency buckets of the backend (`backend/main.go:32-84`): they feed the
  `X-Latency-Estimate` header alone, which nothing in the repository reads.
- Floating point: rates, quantiles and weights are exact fractions or integers
  here, so rounding errors and ties that only `float64` makes are out.
- The remaining gauges and histograms (`serverLatency`, CPU load), `/info`,
  `/healthz` formatting, the reading of the environment, logging, Prometheus
  registration, deployment files and scripts: input and output only.
- Crashes of a backend with what it holds: `Health` has the backend come and go as
  seen by probes, `Forward` has calls that fail; no module restarts `Backend`.
- What the weight of a server should be just after it was down: the latency of a
  failed probe is recorded like any other (168), so a refused connection makes a
  server look fast; no sentence of the repository says otherwise.
- Read in the code, without a run: `updateWRRAfterRequest` is "Called by
  forwardRequest via defer" (508) but by nobody; `types.go:48` names
  `ProbePool.mu` for fields that are written under `LoadBalancer.mu`;
  `types.go:213` gives a default of 0.3 where `applyDefaults` sets 0.15 (111);
  `types.go:203` speaks of removals per query where the remover is periodic;
  the repository's README gives an age limit of 1 s where `cmd/balancer` sets 5 s.

## 6. Plan

Done, in this order: `PoolOps`, `Prequal`, `Pool` and `PoolSlice`, `Forward`,
`Backend`, `Detector` and `Health`, `Selectors`, `Service`, each with its proofs.

Left:

1. A theorem for an invariant of `Detector` that a reader of `lb_server_health` could
   use directly, without the refinement.
2. The capped samples and the median of the latency buckets, should anything
   come to read their header.
