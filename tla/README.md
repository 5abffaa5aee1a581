# Cisco-UET: models, checks and proofs

TLA+ models of the Ultra Ethernet daemons in this repository, the TLC runs that
check them on small instances, and TLAPS proofs of the properties that matter
most for every instance. Paths below are relative to `src/`; `FM`, `CM`, `TD`
stand for `sonic-ue-transportd/src/ue_flow_manager.cpp`,
`ue_congestion_manager.cpp`, `ue_transportd.cpp`, and `LM`, `LD`, `PM` for
`sonic-ue-linkd/src/ue_llr_manager.cpp`, `ue_linkd.cpp`, `ue_pri_manager.cpp`; `VH` for
`ue_transport_v4v6.h`, `PY` for `ue_dual_stack_config_mgr.py`, `P4` for `ue_forwarding.p4`.

    tlc -workers 2 -config MCFlowTable.cfg MCFlowTable
    tlapm UEFlowManagerProofs.tla

## 1. The system

Two daemons turn operator configuration (CONFIG_DB) into the state other SONiC
processes read (APPL_DB, STATE_DB, COUNTERS_DB). Each has one main thread that
blocks in `swss::Select`; the databases are the only thing the two share. The
databases survive a daemon, its memory does not.

| Component | State | Operations | Talks to |
|---|---|---|---|
| Flow manager (`FM`) | active flows, statistics, five settings, two timestamps | configuration SET, create, remove, update state, spray, set paths, packet, round-trip sample, periodic task | APPL_DB (settings), STATE_DB (a row per flow) |
| Congestion manager (`CM`) | state of each interface, counters, a queue of 100 events, paths and weights, settings | configuration SET, periodic task (detect, rebalance, publish) | APPL_DB (ECN entries), STATE_DB |
| Transport daemon (`TD`) | the running flag | select, handle an entry, run the periodic tasks on timeout, stop on a signal | owns the two managers above |
| LLR manager (`LM`) | global configuration, configured interfaces, statistics | global SET/DEL, interface SET/DEL, periodic task | APPL_DB, STATE_DB |
| Link daemon (`LD`) | the running flag, one detached thread per FEC monitor | handle an entry (up to five writes), monitor FEC, stop on a signal | all four databases |
| PRI manager (`PM`) | global configuration, interfaces, statistics | global SET, periodic task; the rest is declared and not defined | APPL_DB, STATE_DB |
| RDMA connections (`ue_rdma.c`, `VH`) | the list of connections of an endpoint | look up, write; creation is not in the repository | callers on any thread |
| Dual-stack helpers (`VH`) | none; path statistics of an endpoint | address conversion, multipath set-up | |
| Dual-stack configuration (`PY`) | none that lasts: every run of the program is one load | load (five tables), validate; the command line writes entries | CONFIG_DB, APPL_DB, orchagent |
| P4 pipeline (`P4`) | per packet only | parse, spray, select a path, mark | the tables a control plane fills |

`ue_provider.c`, `ue_inc.c`, `ue_transport.h`, `sai_ue_extensions.h`, the
packaging and the start script hold declarations, function tables and calls of
functions that are not in the repository. The headers `ue_llr_manager.h`,
`ue_flow_manager.h` and `ue_congestion_manager.h` are absent too, so the types
of members are read off their uses. `ue_linkd.cpp` writes the LLR and PRI rows
itself and never creates the LLR or the PRI manager; each is therefore modelled
as a component of its own and not composed with the daemon. What the LLR manager
does share with another part is its table UE_INTERFACE, which the dual-stack
program reads and whose entries the dual-stack command line writes:
`UEConfigPlane` composes the two.

### What is hard

* **Two maps for one thing.** Flows and their statistics, configured interfaces
  and theirs, are kept in separate maps by different functions, and `operator[]`
  quietly inserts. Rows in the databases are a third copy that outlives both.
* **Deaths between writes.** The link daemon announces LLR, PRI and FEC in
  APPL_DB before it initialises them, one database command after the other.
* **Threads.** FEC monitors read, compute and write back, against the main thread
  that resets the same counters and against further monitors of the same port.
* **Notifications.** An entry may change or vanish between the notification and
  the moment it is read; the deletion of one is not repeated after a restart.
* **Time.** Periodic tasks run only when `select` times out, and measure time by
  the wall clock, which may be set back.
* **No locks.** A connection is looked up, stamped with the time, or created and
  put on the list, by any number of threads and with nothing to keep them apart.
* **No transactions.** The dual-stack load is a sequence of single commands; an
  exception anywhere ends it, logs a line and leaves what is written.
* **Undefined behaviour.** `disableGlobalLLR` erases the element its range-for
  stands on and goes on using a reference to the erased key.
* **Arithmetic.** `100 / num_paths`, an average that may wrap, zero as the mark of
  "no sample yet", a clock and a time to live that wrap, and a total added where
  an increment is meant.

`PROJECT.json` lists each hazard at its line with the properties that cover it,
or the reason none does.

### What makes each component correct

* Flow manager: the tables agree; a published row belongs to a tracked flow and
  never runs ahead of, nor falls behind what was shown of, its counter; growth
  respects the limit in force; what is configured is published.
* LLR manager: while enabled, every configured interface is applied and the
  global entry shown; nothing is left behind without a cause; counters balance.
* Link daemon: an edit is never lost; what a row announces is initialised; FEC
  is monitored; the daemon catches up and stops when told.
* Congestion manager: every change is counted and queued, the queue tells the
  present state, weights follow states.
* Transport daemon: expired flows leave in quiet times; what it cannot parse ends it.
* Configuration plane: what orchagent is told of an interface is what APPL_DB
  holds; a load that fails leaves a prefix; LLR follows the table.
* Connections: an offered one has been used lately; races create a bounded number.
* P4: packets leave when routes do, whatever the rest of the tables.

## 2. Modules

| Module | Models | Proofs |
|---|---|---|
| `UEMaps` | `std::unordered_map` and database tables as functions on a set of keys: `Put`, `PutAll`, `Without`; sums over their values | `UEMapsProofs` |
| `UEFlowRtt` | `updateFlowRTT` as a function of the statistics and a sample | `UEFlowManagerProofs` |
| `UEFlowTable` | abstract: what the flow manager promises | |
| `UEFlowManager` | the flow manager, refines `UEFlowTable` | `UEFlowManagerProofs` |
| `UELLRManager` | the LLR manager | `UELLRManagerProofs` |
| `UELinkD` | the link daemon with its threads | `UELinkDProofs` |
| `UECongestionManager` | the congestion manager | `UECongestionManagerProofs` |
| `UETransportd` | the transport daemon's loop and its clock | `UETransportdProofs` |
| `UEDualStackConfig` | the dual-stack load and the command line | `UEConfigPlaneProofs` |
| `UEConfigPlane` | UE_INTERFACE between the two and the LLR manager (an INSTANCE of `UELLRManager`), refines the latter | `UEConfigPlaneProofs` |
| `UEConnectionPool` | the pool of connections, its look-up and its callers | `UEDataPlaneProofs` |
| `UEPriManager` | the PRI manager | `UEDataPlaneProofs` |
| `UEForwarding` | P4 switches and a packet passing them | `UEDataPlaneProofs` |
| `MC*` | values for TLC; `MCDataPlane` puts the last three side by side | |

**`UEFlowManager`** has the members of the class as variables under their own
names, the function-local statics of `doPeriodicTask`, the wall clock `now`, and
the two tables it writes. Each public method is one action, with its early
returns as guards: `ProcessTransportConfig` applies every field that passes its
check and publishes the result, `ProcessIncomingPacket` creates the flow it
misses unless the table is full, `DoPeriodicTask` publishes and then cleans up,
each if its period has passed. `inherited` is a history variable: the rows that a
former process published and this one has not yet replaced. `EnablePacketSpraying`
with 0 paths is `Restart`, since integer division by zero ends the process.

**`UEFlowTable`** keeps one counter per flow and the copies a reader sees. Its
four actions (track, count, maintain, crash) are what a client may rely on. The
refinement mapping hides settings, clock and the second table.

**`UELLRManager`** has one action per entry handed to `doTask`. The loop of
`disableGlobalLLR` (`LM:223`) is undefined as soon as an interface is configured;
it is a choice among its plausible outcomes: the process dies with any of the
rows deleted, or the loop visits some interfaces and can still read the keys of
some of those (`LoopSurvives`, `LoopDies`). `untended` is history: interfaces
whose rows a dead process or an unreadable key left behind.

**`UELinkD`** is the finest: one database command per step. `pc` is the place of
the main thread in `run` and `processLinkConfig`; `monitors` is the sequence of
FEC threads, each of which reads and writes in separate steps; `events` is the
subscriber's queue, of which the model assumes what swss does: a SET is
delivered with the contents the entry has when it is popped, and a new
subscriber begins with a SET of every key there is, in any order. A death
(`Crash`) may come between any two steps.

**`UECongestionManager`** has one action for the periodic task, whose order is that
of the code: detection, with rebalancing in the middle of it on states that are
one detection old, then the copy of the states to the paths, then the periodic
rebalancing, then publication. `processInterfaceConfig` and
`updateCongestionState` are called but not defined in the repository; they are
taken to register an interface and to copy the states, and marked external.

**`UETransportd`** is the select loop against the clock. Of the flow manager it
keeps how long each flow has been idle; the rest is in `UEFlowManager`. A second
passes only while the thread is blocked in `select`, and at most one entry
arrives in a second: the slowest stream that still keeps `select` from ever
timing out, so faster streams add nothing.

**`UEDualStackConfig`** goes command by command: `GetTable` reads the next of the five
tables, `ApplyEntry` turns an entry into the list of its commands (`hset`, `publish`, or
an exception), `Command` does the first of them, and `Fail` may end the load between
any two. A list of IP versions is the set of its parts, which the loader compares
without stripping blanks, so that `"4, 6"` enables IPv4 only. The history variable
`whole` keeps the entry last applied to an interface from its first command to its
last. Of the commands that copy one setting after the other without a look at it,
one stands for all those of a key.

**`UEConfigPlane`** adds the LLR manager as a second reader of UE_INTERFACE: `HandleInterface` is
`doTask` with the contents the entry has when its notification is handled. The two
readers write different tables, so a behaviour runs one of them. `RestartLlr` is the end of the
process, in the undefined loop or anywhere else, and its start.

**Consumers.** The type of the managers' consumers is a member in the one header there is
(`sonic-ue-linkd/src/ue_pri_manager.h:81-82`) and comes from swss, which is not in the repository.
One assumption is made of all of them: a consumer delivers every key that exists when it
starts, as a SET with the contents the entry has when it is handled, and is told of no key
that was deleted before. `UELinkD.Start`, `UETransportd.Start` and `UEConfigPlane.RestartLlr` are
this assumption. `UEFlowManager`, `UELLRManager`, `UECongestionManager` and `UEPriManager` by themselves take any
entry at any time, of which a replay is one case; so does `HandleGlobal` with the key
"global" of the LLR table.

**`UEConnectionPool`** keeps the list `active_conns` in order and splits the look-up where
another thread can come between: `GetEphemeralConn` finds, `StampActivity` stamps. The type
invariant has a connection that was found on the list until it is stamped, which is so only
because no look-up takes an expired one off. `Tick`
moves the clock, which wraps at `2 * HalfRange`; `idle` is the true age, which the code
does not keep. New connections join either end, since the function that creates
them is not there; one that fails makes `_v2` return an error and the other write
through a null pointer, which ends the process.

**`UEPriManager`** is configuration and statistics; what is not defined in the repository
(disabling, the functions on interfaces) may do anything its callers expect.

**`UEForwarding`** has one packet and several switches, each with tables of its own.
`ecmp_group_id` is never assigned, so that paths are looked up in group 0; `set_nhop`
replaces the packet's destination by the next hop's address, and the next switch
looks that up; anything but IPv4 leaves by port 0.

## 3. What the runs check

States are the distinct states TLC finds; each run takes less than two minutes.

| Run | Question | States | Result |
|---|---|---|---|
| `flow_table` | tables, rows, limit, configuration, and the refinement of `UEFlowTable` | 699,520 | holds |
| `flow_values` | round-trip statistics with zero and overflowing samples; weights at 0, 3, 100 and 101 paths, and whatever callers hand over | 256,536 | holds |
| `flow_rtt` | the average stays above the minimum, for positive samples that do not wrap | 41,616 | holds |
| `llr` | both databases in step with the configuration, with every outcome of the undefined loop | 27,588 | holds |
| `llr_disable` | "Disable on all interfaces" (`LM:222`) | until violated | violated |
| `linkd` | the databases and monitors follow CONFIG_DB; the daemon catches up and stops | 134,649 | holds |
| `linkd_fec` | "Update every 10 seconds" (`LD:213`) | until violated | violated |
| `congestion` | events, counters, rebalancings as counted and as allowed | 671,250 | holds |
| `transportd` | expiry in quiet times, an entry that does not parse | 4,528 | holds |
| `transportd_load` | "Cleanup expired flows every 60 seconds" (`FM:380`) | 4,528 | violated |
| `config_plane` | what failing loads and edits leave in APPL_DB; LLR follows the table, across deaths of its daemon | 1,149,852 | holds |
| `data_plane` | the connection pool, the PRI statistics and the P4 switches: three parts that share nothing, one per behaviour | 407,252 | holds |

The three violated runs are disagreements between a comment and the code.
(1) With an interface configured, `disableGlobalLLR` erases the element it stands
on; after it an interface may still be configured or its row still in APPL_DB.
(2) Every SET with a FEC mode starts one more monitor and none is stopped, so after
two SETs a port is updated twice in ten seconds. (3) A configuration entry once a
second starves the periodic tasks, cleanup included.

What the passing runs say of the code is not always what a user would wish; each
property is stated with the exception the code makes.

* The command line, enabling Ultra Ethernet on an interface, replaces its entry and
  so switches LLR off (`PY:353`, `LM:157`); disabling LLR globally forgets what the
  table still says, until the daemon starts anew and is told again (`LlrFollowsTable`).
* The command line without a version flag enables both versions and gives paths for
  neither; the validator would refuse the entry (`PY:239`) and the loader applies it
  with defaults. Disabling an interface withdraws none of its rows. The validator
  strips blanks of the global versions (`PY:230`); the loader does not.
* ECMP groups as CONFIG_DB can hold them, fields that are strings, make the load
  raise before the RDMA settings (`PartialLoadIsPrefix`).
* A connection idle for half the range of the clock counts as active again; with
  64 bits that does not happen, and `ActiveIsRecent` holds up to there. A sender that
  stalls between test and stamp revives a connection others have replaced;
  `InUseWithinSenders` bounds the harm. No connection is ever taken off the list.
* Bytes saved grow with the square of the packets (`SavingsTriangular`): at the default
  of 25 per cent the eighth update reports over 100.
* A loop of switches holds a packet for ever, since ttl wraps: `PacketsLeave` has the
  absence of loops as its premise.
* Whatever paths and weights a caller hands to `updateFlowPaths` and `updateFlowState`
  are stored unchecked (`FM:243-273`): none, all zero, or not as many as the paths.
  `WeightKeptUnlessGivenUp` therefore asks that a flow that carries a weight loses its last one
  only in a call that gives it up, and not by creation, packets, samples, sharing among up to
  100 paths, configuration or the clock.
* A rebalancing in the middle of detection uses the states of the detection before
  (`CM:174`); `RebalancesAsCounted` says so, along with when one may be counted.
* A zero sample is also "no sample yet", and a sum that overflows pulls the average down;
  `RttFollowsSamples` says how far either goes, `RttAverageAboveMinimum` holds without them.
* Of the fields of one SET, those that are refused are skipped and the others applied;
  what is published is what is in force (`ConfigPublished`).
* An interface copies the retries and timeout in force when it is set (`LM:141-146`);
  `AppliedWhenEnabled` is about this copy. Nothing in the repository says whether a
  later global SET ought to reach it.

### Bounds, and why they are enough

* Flows: two that are symmetric, and packets that name none (too short, IPv6,
  source 0). The code never looks at two flows at once except in the count
  against the limit and in the two walks over the tables; two flows, with a
  limit of 1 or 2, make both interesting. Code limits of 1000 to 10,000,000 and
  timeouts of 10 to 3600 seconds are scaled down; the model only compares them.
* Clock: four values, free to move either way, so that publication and cleanup
  are due together, apart or never, and flows expire early or late, with a timeout of
  one second or two. Entries have one field or two, of which one may be refused.
* Weights in `flow_values`: 100 and 0, two of 0, and none; path counts of 0, 3, 100 (which
  shares one per cent each) and 101 (which shares nothing); callers may combine weights
  with a number of paths that does not match them.
* Packets per flow: 2, enough for a row to lag and for a re-created flow to
  start below its former row.
* `Word` is 64 in `flow_values`, where 7 * 9 + 9 wraps, and 128 in `flow_rtt`, where it
  does not; the width of the real members is unknown and the proofs hold for
  every width. With the samples of `flow_values`, the property of `flow_rtt` fails:
  both premises, positive samples and no wrap, are needed.
* LLR: two interfaces (a loop that visits one of two), global entries that are
  accepted, refused field by field, and disabling; one or two statistics updates.
* Link daemon: two ports, an entry that asks for everything and one that asks
  for nothing, three edits: enough for two monitors of one port with work
  pending for another. Counters stop at 2 updates.
* Congestion: two interfaces, one reading per state, a queue of 2 (100 in the
  code) that overflows, two changes per interface.
* Transport daemon: two flows, timeout 2, period 3; ages saturate at their sum.

* Configuration plane: two interfaces, two edits (one may fall into a load, one before
  it, and any number of loads follow), entries of the command line with every
  combination of flags and two of an operator, one with a blank in its versions.
* Connection pool: two senders, one per kind of write, two destinations, a list of
  two; a clock of 6 ticks and a timeout of 2, so that it wraps and an idle
  connection passes every age up to the one the clock cannot tell.
* PRI: three updates per interface; ratios 25 and 200, a product of 32 bits scaled to
  13 so that the second wraps.
* P4: two switches, two ports, two paths and two addresses; of each switch any of 27
  tables and four wirings, which give loops through one switch and through two. Two
  values of ttl, since it is compared with nothing but zero by the wrap.

### Fairness

`linkd` assumes `WF(Main)`: the operating system runs the main thread. Monitors,
signals, edits, crashes and restarts are not fair: nothing obliges them. The
transport daemon assumes `WF(Main)` and `WF(Tick)`: its thread runs and time
passes; nobody has to configure, send, signal or restart. Under exactly this
fairness `CleanupEvery60Seconds` fails and `QuietCleansUp` holds: the premise that
configuration stops arriving is what the code lacks. The
connection pool assumes `WF(Tick)`: time passes, and senders may do nothing or stop
anywhere; `DuplicatesExpire` needs no more. `UEForwarding` assumes `WF(Ingress)`: a switch
that has a packet processes it. The other modules have safety properties only and
no fairness.

Deadlock is checked in every run.

## 4. What is proved

Every invariant and every action property that a passing run checks is a theorem, for
every value of the constants that meets the modules' `ASSUME`s. Three theorems name a premise
of their own, given below: `AverageStaysAboveMinimum`, `CountsBalance`, and `TypeCorrect` of the
link daemon. Four invariants are proved and not run, since they show less than the
properties beside them or are no more than a step of their proofs: `RebalancesWithinChanges`,
`ConfiguredHaveStats`, `GlobalPublished`, `CountersBalance`. The `ASSUME`s say no more than what the code or its types provide:

* sets of numbers are numbers, defaults are accepted values, limits are positive;
* sets of packets and of interfaces are finite;
* entries of CONFIG_DB are among the ones the models distinguish, and no interface
  is named like one of the other keys of APPL_DB (`DualStackAssumption`; the code gives
  interfaces a prefix of their own);
* an entry of the P4 table `path_select` names a port and an address (`ForwardingAssumption`;
  the two places off the network that the model gives a packet, "out" and "dropped", are not switches).

`UEMapsProofs` has what all of them need: what `Put`, `PutAll` and `Without` do to a map,
and sums over its values. The library states induction with an operator as parameter,
which the provers cannot instantiate; here it is stated of sets instead: a set of numbers
that has 0 and with each number the next has all of them (`NatClosed`), a set of finite
sets that has the empty one and is closed under adding an element has every subset of a
finite set (`SubsetInduction`). From it follows that the recursive function which defines
a sum exists and does what one expects (`SumsExist`, `SumFacts`, `SumGrows`).

**Flow manager** (`UEFlowManagerProofs`). The invariant is built in layers.

1. `TypeCorrect`: `Spec => []TypeOK`, one lemma per method.
2. `KindsOfSteps` abstracts: with types and agreeing tables, every step leaves the
   counters alone, opens a flow, counts a packet, forgets flows (after a report
   or without one), or dies. Everything after this reasons about five kinds of
   step instead of eleven methods.
3. `TablesAgree`: flows and statistics name the same keys. It is inductive only
   with the types and is what makes the next layer so: that a flow which is opened
   has no statistics, hence no row of this process, follows from it.
4. `RowsFollowFlows`: `RowsShowLiveFlows`, from 1 and 3.
5. From it, `CountsNeverFall` (the action property a reader of STATE_DB relies on):
   a report overwrites a row with a counter that is at least as large.
6. `GrowthIsLimited` needs the table to be finite (`TableIsFinite`), for its size
   to be a number. `ConfigIsPublished` is inductive by itself.
7. `TimesStayOrdered` and `AverageStaysAboveMinimum` rest on the two theorems
   about one sample, `UpdateKeepsOrder` and `UpdateKeepsAverageAboveMinimum`: a
   weighted average lies below any bound of both values whether or not it wraps,
   and above any lower bound if it does not. The second needs the strengthening
   `SetTogether`: minimum and average are both unset or both set, and the average
   is within the bound on samples. It assumes samples of 1 to `bound` with
   `8 * bound < Word`.
8. `TimesFollowSamples` and `WeightIsKept` are about steps: from `KindsOfSteps`, only a
   sample touches the times of a flow that stays, and only the calls on paths touch its
   weights. Neither has a premise: callers may hand over any paths and weights.
9. `ManagerImplementsTable`: `Spec => FlowTable!Spec`, from 1, 2 and 3.

**LLR manager** (`UELLRManagerProofs`). `TypeCorrect`, then `EnabledIsApplied`,
`EnabledIsPublished`, `StatsAreKept`, `NoUnexplainedOrphans` and `CountsBalance`, each
inductive together with the types, over the cases of `KindsOfSteps`. They hold in
every outcome given to the undefined loop, for any number of interfaces.
`CountsBalance` assumes what the simulation guarantees: nine successes per retry.

**Connection pool** (`UEDataPlaneProofs`). `OfferedAreRecent`: the invariant `PoolInv` says that on
the clock the time since the last use is the true age, unless that has lapsed; a
tick adds one to both (`TickAddsOne`), and below half the range and a timeout the
signed comparison is "less" on the time elapsed (`BeforeIsRecent`).
`ConnectionsWithinSenders` is the theorem about races. Every step either makes no more of the
connections and creators of a destination than there are (`Quiet`), trades a creator for a
connection (`Created`), or is a look-up that found nothing (`Starting`). The last is the case
that needs an argument: nothing found means nothing young (by `OfferedAreRecent`), so each connection
in use is held by a finder of its own, finders are not creators, and the sender that
starts is neither (`EachForItsSender`, a surjection from finders to connections).

**PRI manager** (`UEDataPlaneProofs`). `SavingsStayTriangular`: adding n + 1 thousand times a reduction takes a
bound for n terms to one for n + 1 (`NextTriangle`), below with the smaller, above with the greater
of the reduction so far and the one in force.

**Link daemon** (`UELinkDProofs`), for any number of ports, entries, edits and monitors, with deaths
and restarts between any two writes. `TypeCorrect` assumes that FEC modes of entries are
FEC modes. The invariant `LinkInv` adds five parts to the types:

1. `QueueInv`: the last notification queued for a port agrees with CONFIG_DB on whether
   the port has an entry. Only an edit can change that, and it appends one (`EditQueue`);
   the port whose last notification is popped becomes the job it needs (`PopQueue`); a new
   subscriber is told of every entry (`StartQueue`).
2. `MirrorInv`: with nothing queued, a port is about to be written as configured, about to
   be removed as it should, an orphan, or as configured. `EditsAreMirrored` follows.
3. `JobInv`: what `processLinkConfig` has written when it is at a given place.
4. `ServedInv`: a port with nothing queued and nobody at work on it has all its row asks
   for. It needs 1, because rows that a dead process left half done are queued again, and 3.
   `AnnouncedIsInitialised` and `SettledFecIsMonitored` follow.
5. `CountInv`: the port of every monitor has counters; none are ever removed.
   `CountersAreThere` follows, and the writes of monitors keep 4.

**Transport daemon** (`UETransportdProofs`). `QuietExpiresFlows`: for any timeout and any cleanup
period, one second without an entry is enough to be rid of the flows idle for longer
than the two together. The invariant `DaemonInv` says that a cleanup of the last
`CleanupPeriod` seconds left nothing that had expired and that all flows have aged alike
since (`CleanedLately`), and that after a timeout no cleanup is overdue, because the next
timeout comes in a second or an entry does (`QuietIsOnTime`, `WaitedInFull`). `BadEntriesAreFatal` is
inductive as it stands.

**Lost counts of FEC** (`UELinkDProofs`). `CountsFallOnlyInRaces` is about steps: a count falls by the
reset of a SET or at a port with two monitors. Its invariant `SeenInv` says that what a
monitor *alone on its port* has read is not behind the count when it comes to write.
A reset keeps it (zero is not ahead of anything), other monitors write other ports, and
a monitor that is started makes its port's monitors less alone, not more. A count that falls is
then that of a writer with company, so at least two (`FS_AddElement`).

**Congestion manager** (`UECongestionManagerProofs`). `CongestionInv` adds to the types:

1. `KeysOK` and `PathsKnowStates`: paths and states have the same keys and, between two
   tasks, the same states. `RebalancingIsFreshHolds` follows, since in a task the copy
   comes before the periodic rebalancing. So does `RebalancesAsCountedHolds`: an
   entry of the counters grows exactly for an interface that becomes congested while
   rebalancing is allowed (`CountedRebalances`), which is when the paths are rebalanced, on
   the states they still know (`DetectionCounts`).
2. `CountersOK`: the bound of `RebalancesWithinChanges` is not inductive. Outside CONGESTED it
   is tighter by one (`Paired`), because the visit has been left by a change that
   brought no rebalancing; that slack is what the next visit uses. A row of STATE_DB copies
   counters and outlives them, so the bound is stated of rows as well.
3. `QueueOK`: the last event of an interface tells its state, and of two successive ones
   the second differs. A task appends events of distinct interfaces, each with a state
   that is new (`ReportsTell`), and drops the oldest (`LatestKeptTells`); neither hurts.
4. `LengthOK`: the queue is as long as the sum of the counts, or at its limit. A task
   adds as much to the sum as it appends (`ChangesGrow`, by `SumGrows`).

`EventsFollowStatesHolds` puts 3 and 4 together.

**Configuration plane** (`UEConfigPlaneProofs`). The invariant `DsInv` of the load:

1. `CommandsOK`: of the interface being applied, every row is written or still among the
   commands, the notification is the last of these, and it is not vouched for (not in
   `whole`) meanwhile. `WholeOK`: of an interface that is, all rows are written and what
   orchagent was told is what they say. `AnnouncedRowsWholeHolds` follows. A load that
   fails leaves the interface out of `whole`; one of another interface, or of another table, writes other
   rows (here the prefix of the keys is needed); the row of a path is
   written with the one value that the entry gives it (`RowsAgree`).
2. `Progress`: tables behind the stage are done; of the table at the stage, an entry is
   among those to be applied, among the commands, or done. An ECMP group that raises is
   never done, hence nothing behind it is. `PartialLoadIsPrefixHolds` needs it only where
   the stage moves on.

`ImplementsLlrManager` is a refinement: `Spec => LLR!Spec`. Handling a notification with
whatever the entry has become is one of the calls `UELLRManager` allows, edits and loads
are stutters. `LlrManagerHolds` therefore carries the theorems of `UELLRManagerProofs`
over without a new proof. `TypeCorrect` takes the types of the two readers from there and
from `DsInv`. `LlrFollowsTableHolds` is inductive as it stands, with the definition of
`pending`: an edit marks the interface, handling unmarks it, a restart marks all that have an entry.

**The data plane together** (`UEDataPlaneProofs`). `AllTypesCorrect`: a step of one part is a step
or a stutter of every part (`AllSpec` implies each part's safety specification), so the
types proved of each by itself hold side by side.

**P4 switches** (`UEDataPlaneProofs`). `HopsDescend`: the premise of `PacketsLeave`, that the exits a
packet may take descend in a ranking of the switches, is kept by every hop (tables and
links stay, the kind of a packet too), and a hop that stays among the switches uses one of
these exits, whichever path the hash picks. So no switch is passed twice.

**Only model-checked.** Liveness: `CatchesUp`, `SignalStops`, `QuietCleansUp`, `DuplicatesExpire`,
`PacketsLeave` need fairness and `ENABLED`, which the provers do not support. What
`QuietCleansUp` and `PacketsLeave` turn on besides is proved: the bound on the time a
cleanup takes to come (`QuietExpiresFlows`), and that no packet passes a switch twice
(`HopsDescend`). The three violated runs are
counterexamples and need no proof.

## 5. Abstractions, and what is not modelled

* Names, addresses and enumerations are model values; logging is left out.
  Fields no method reads (sequence numbers, the congestion window, the
  selective-repeat flag) are left out; a method that is called from nowhere in the
  repository (`createFlow`, `updateFlowRTT`, ...) is a call from outside.
* A database command is atomic and succeeds, or the process dies. The FEC
  monitors share one hiredis connection with the main thread without a lock, and
  `delete g_ueLinkD` frees what they use: of the outcomes of either, the model has
  the death of the process at any point.
* The type of `last_activity` is not declared in the repository; seconds are
  compared as mathematical integers.
* Byte counters, simulated packet counts and error rates are not kept.
* Of the dual-stack header: address conversions, copies and comparison are
  straight-line and keep no state; the multipath set-up clears as many entries as an
  external query returns; `ue_send_v2` breaks off in its declarations.
* `UltraEthernetManager` (`sonic_ue_mgr.py`) writes one entry under a key its only reader refuses
  (`sonic_ue_mgr.py:37`, `CM:55`) and otherwise calls a function that is not there.
* `ue_provider.c` and `ue_inc.c` consist of allocations, assignments of function tables and calls of
  functions that are not in the repository; `ue_transport.h` and `sai_ue_extensions.h` are declarations.
* The dual-stack program's two functions that only read, and its subscriber, which
  is made and never read.

## 6. Plan

Done: every component whose code is in the repository and keeps state; of these, every
invariant and action property is proved (section 4).

To prove next:

* Of `UELinkD`, the safety part of `CatchesUp`: a measure (notifications queued, writes
  left of the current one) that every step of the main thread lowers.
* Of `UEConnectionPool`, the safety part of `DuplicatesExpire`: a look-up stamps only the
  first connection that it finds, so the others only age.
