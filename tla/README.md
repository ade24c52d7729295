# Archipel Labs in TLA+

Specifications of the concurrent parts of this repository, the TLC runs that
check them on small instances, and proofs that TLAPS checks for every instance.
Paths are relative to the repository's root, `src/` here.

## 1. The system

A simulated company: a PrestaShop shop, a simulator that drives customers
through it and keeps its catalogue, stock and payments in order, seven analysts
(agents) that investigate questions about it, and a portal from which people ask
them and change the simulator's settings. The parts talk over one Redis bus (an
external library, `runtime`): an *action* has one executant and one reply, an
*event* fans out to every subscriber.

| Component | Code | State | Operations | Hard behaviour |
|---|---|---|---|---|
| Ask desk | `portal/backend/app/bus.py`, `main.py` | who holds each analyst, a bounded queue per request, who was heard | ask, deliver, stream, close, watchdog, restart | three tasks free the same analyst; full queues; readers that leave, come late or come twice |
| Portal settings | `main.py` 166-194 | none | describe, apply over the bus | a late answer reported as a refusal |
| Portal session | `auth.py` | signed cookie | issue, validate, revoke | expiry; closed when unconfigured |
| Bus consumers' sweep | `bus.py` 349-415, `agents/core/sweep.py` | consumer groups in Redis | delete idle consumers | check, then act |
| Configuration | `simulator/src/services/configuration`, `technical_flows/configuration` | table, in-process snapshot, switch registry in Redis | set, clear, pause, describe, background reload, boot replay | reloads that overwrite newer rows; a decision committed and not projected; a wiped Redis |
| Arrivals | `external_flows/customer_arrivals` | addresses handed out | tick, rate, dispatch with a time to live | expired arrivals, paused flow, uniqueness |
| Journey | `external_flows/customer_journey` | slots, a browser context per run, the run's record | run a graph of states, record | no redelivery: an order may be placed by a run recorded as failed |
| Catalogue | `internal_flows/catalog` | the shop's products | additive pass, periodic check | partial passes, a shop that changes meanwhile |
| Payments, stock | `internal_flows/payments`, `stock` | orders' states, quantities | settle, refill | lost updates, permanently failing orders |
| Investigation | `agents/core/run.py`, `service.py` | one slot, live steps, publications in flight, the record | take, collect, publish, settle, finish | concurrent narration; crash in the middle; unwritable record |
| Loops | `agents/core/harness/*` | a subprocess, a server or a library run | drive the model to a verdict | deadlines, readiness, orphans, results out of order |
| Records | `agents/core/record.py` | files | pair calls and results, write, read | concurrent calls |
| Tools of the employees | `agents/roles/*` | saved tables and log files of one investigation | bounded reads, filters, joins, comparisons, log overviews | an answer that is partial and reads as the whole; files written over between two awaits |
| Frontend, gateway, routes, provisioning | `portal/frontend`, `sidecars`, `workspaces` | third-party programs | | |

What would make each correct: the desk never refuses a question while nothing
runs and never leaves a reader without a verdict; the registry enforces what the
database decided; a narration never goes on behind its end, and what was shown is
in the record; a run leaves at most one order and exactly one observation; a
catalogue pass converges; money and stock are moved once.

## 2. Modules

| Module | Models |
|---|---|
| `AskPromise` | what the desk promises, with no queue, reader or timer: one request per analyst, a request that is over holds nobody and never returns |
| `AskDesk` | the desk in full: `Requests`, `work`, `nobody_answered`, `ask_events`, `stream`, restart |
| `AnalystPromise` | what an analyst's process promises the bus: one ticket at a time, events while at work, a record before an answer |
| `Investigation` | one employee: `run.investigate` mounted by `service.serve`, shown to implement `AnalystPromise` |
| `AskSystem` | `AskDesk` extended with `AnalystPromise` and the bus between them |
| `LoopContract` | what `harness/base.py` promises of any loop, and `Investigation` relies on |
| `CodexLoop`, `OpencodeLoop`, `PydanticLoop` | the three loops in detail |
| `RunRecord` | `record.from_steps`, as recursive functions over a sequence of steps |
| `Loops` | one run of whichever loop, shown to implement `LoopContract`, with its record |
| `ControlPlane` | the configuration service, its snapshot, its actions, the boot replay |
| `CustomerArrivals`, `CustomerJourney`, `Customers` | the producer, the pool and its walks, and the two composed over their queue |
| `CatalogSync` | a pass of the catalogue, call by call, over a shop that is edited |
| `BackOffice` | the settlement pass, the backlog script and the refill, with customers who buy |
| `AskSystemProofs`, `ControlPlaneProofs`, `InvestigationProofs`, `LoopsProofs`, `CustomersProofs`, `CatalogSyncProofs`, `BackOfficeProofs`, `EvidenceProofs` | theorems about the module each is named after; `AskSystemProofs` also about the desk that it extends |
| `EvidenceTables`, `EvidenceLogs`, `Evidence` | the employees' reads, tables and log overviews, and one employee at work on either |
| `MC...` | an instance of a module for TLC: definitions of its constants, symmetry |

Three pairs are an abstract specification and a detailed one shown to implement
it: `AskDesk` implements `AskPromise` (`KeepsPromise`, checked and proved),
`Investigation` implements `AnalystPromise` (`KeepsAnalystPromise`, checked and
proved), and the loops implement `LoopContract` (`KeepsContract`, checked and
proved, whatever lines codex writes).
`AskSystem` composes the desk with `AnalystPromise` in the place of the
investigation, and is proved to implement both `AskDesk` and `AnalystPromise`;
`Investigation` takes its loop at the word of the contract.

### AskDesk

A step is what runs between two suspensions of the event loop. `async with
self._lock` never suspends in this code, because nothing holds the lock across an
await, so `open`, `done` and `close` are atomic and so is the end of `work()`.
`busy`, `registered` and `heard` are `_busy`, the keys of `_queues`, and `_heard`.
The queue objects are a variable of their own, because `work()` and a reader keep
theirs after `close` has dropped it from the registry. A reader is `connected`
between `queue_for` and the first run of `body()`, then `reading`, and `told` once
it has been given a terminal event; the agent it will name to `close` is looked up
in between, as in the code. `PutVerdict` is two `put_nowait`s, each of which
leaves a full queue as it was: the first exception ends `work()`'s `try`, and the
queue is still full at every later attempt of that step. The exception of the
watchdog's task ends it, which the model shows as `over`.

The bus and the analysts are the environment: an event of a registered request
may arrive at any time, early, late, after the reply, or never; a call returns or
raises. `started` and `step` are one kind, because the desk treats them alike.

### ControlPlane

`db` is the table, `snap` and `fresh` the in-process snapshot and whether it is
within its ttl, `registry` the flags in Redis. A load is two steps, the SELECT and
the assignment, and anything may run between them. `job` is the one slot of the
service `configuration` (`max_slots=1`), `reload` the one background reload,
`replay` the boot task. A set_enabled that raises after Redis has applied it is
`JobProjects` or `ReplayLands` followed by a failure. Two history variables say which
flows the registry cannot be expected to be right about: `pending`, those decided or wiped and not
projected since, and `contested`, those decided or wiped while the replay ran.

### Investigation

`phase` follows `investigate()` through its awaits. `collect` schedules a
publication per step, `publishing` holds those not yet ended, `stream` is what
reached the bus, in order. The loop is the environment, held to
`LoopContract`: it reports steps, then returns an Outcome whose steps are those it
reported or fewer, or it raises. `cut` remembers the tickets whose loop handed back
some of its steps and lost others, which `run.py` cannot tell and records as they
come: `ShownIsRecorded` is of all the others. An Outcome is abstracted to what `_settle`
tells apart: error or not, and an answer that is absent, empty, unusable or valid.
Evidence is counted in steps; how steps are paired into calls is `RunRecord`'s.
The refinement to `AnalystPromise` forgets the phases, the publications in flight
and how a failed run failed.

### AskSystem

`calls` is the analyst's action stream, taken from in order by one slot. What the
analyst narrates is relayed to the desk once each, in any order, at any time or
never; the reply comes, or the call expires. The desk's restart forgets its
requests and leaves the calls where they are; the analyst's death leaves a ticket
without reply. One analyst, because the desk keeps analysts apart by name.

### Loops

`phase` is where `investigate()` of the loop is, `heard` the steps `on_step` was
given, `billed` the requests the vendor reported. Codex is a pipe of lines that
may stop, break, or be unreadable anywhere; `wait_for`'s deadline and the
cancellation of the slot may come between any two, and a cancellation also while
`_reap` waits for a codex that was sent TERM (`Interrupted`), where nothing catches
it and KILL is never sent. Opencode is a server that may
die, be slow or answer nonsense; its steps are read once, at the end, with tools
given by MCP or by a desk of files. Pydantic-ai is a run of turns whose calls end
in any order, under `UsageLimits`. `Loops` chooses one at the start; the three
share `phase`, `heard`, `billed`, `outcome` and `process`. A line is `torn` when its
text holds U+2028 or its like: `_pump` reads and narrates it whole, `_events` cuts it
in pieces. They do not parse and are dropped, unless one is JSON by itself, a number
for example, which is no object and makes `_steps` raise (`PieceRaises`); a piece that
is an object, and so an event of its own, is left out. `LoopContract` has what is kept
of the reports beside what was heard (`kept`): a report may be lost to the record,
whole, but when it is made and not by how the run ends. `Kept` is what codex's lines
come to when they are read again, and everything that was heard for the other two.

### Customers

`CustomerArrivals` is the tick: it draws how many arrive, mints an identity for
each and dispatches them one by one. `CustomerJourney` is the handler of one
arrival in `Slots` slots: context, walk, summary, row, close, where any page,
Playwright, the database and the process may fail. The three journeys are the
graphs of the code; a page answers what its state tells apart: it goes on, it
cannot, it raises, an order is placed and seen or not seen. `Customers` joins
them by the queue with its time to live and by the process, whose crash loses the
addresses issued and whatever was in a slot.

### CatalogSync

A pass reads labels, products and variants, then works through the PIM's order,
one call a step. `labels`, `shelf` and `variants` are the shop; `pass` is what the
pass has read and where it is. Any call may fail, be cut before or after the shop
did it, or be done by the shop later (`late`). A row has the name and the reference
of some product of the PIM, or of none, and `IdOf` looks for the reference first and
for the name when no row has it, as `sync_catalog` does. People delete rows, give a
product's row any other reference or name, another product's among them, do the same
to variants, drop images and spoil what else there is of a row, `right`. Rows that
people add by hand are left out. `Claims` are the rows that are a product's by either
key, and `given` counts the edits that made a row one of them.

### BackOffice

`state` and `accepted` are the orders and their history rows, `pass` the orders
the settlement pass has listed and not yet come to, which it takes in the order
of their ids, `script` the page and the finds of `settle_backlog.py`, `round` the
refill. `shared` remembers the orders that two
writers had in hand at once, which nothing in the code prevents.

### Evidence

A resource is the rows 1..`matched`, more of which may come. Angel's tools (dana's
are the same text), blair's and charlie's are three answers to one question, so
the operators are separate (`AngelRead`, `BlairRead`, `CharlieRead`, the two
reports) under one action. A table carries, beside its rows and what it says of
itself, the rows it would have if every read behind it had been whole. The log
side has a clock in windows, the lines logged in each, a file that every fetch of
the current window writes over, and an overview in two steps, which is where
another call may come between.

## 3. Runs

| Run | Instance | Shows |
|---|---|---|
| `desk_safety` | 2 analysts, 2 requests, 2 browsers, queues of 3 | the safety invariants, and `AskPromise` |
| `desk_liveness` | 1 analyst, 2 requests, 2 browsers, queues of 2 | readers are released, analysts are freed |
| `config_control` | 2 flows, one of them mounted, 1 tunable; 2 changes, 2 faults | the registry, the snapshot and the answers |
| `config_diverges` | 1 flow, 1 tunable, 2 changes, 1 fault | **violation**: a change during the boot replay is overwritten |
| `investigation` | 2 tickets, 2 steps each, 1 fault | order and completeness of narration and record, and `AnalystPromise` |
| `loops` | codex: 4 lines; opencode: 3 parts; pydantic-ai: 3 requests, 3 calls | `LoopContract`, the record of what was narrated, what is handed over against what was watched, no process left, every loop ends |
| `ask_system` | 1 analyst, 2 requests, 1 browser, queues of 3, `started` alone narrated | what is shown is what was answered; whose events are whose; who waits behind whom |
| `customers` | 2 markets of one town, 1 address each; 2 arrivals, 2 slots, 1 crash | one order, true rows, nothing left open, fresh addresses, every arrival ends |
| `back_office` | 2 references, 3 orders of which one is refused for good, passes of 2, pages of 1, 2 faults | one acceptance, no starved order, no shelf left low |
| `catalog_sync` | a product with 2 variants and a plain one; 2 edits, 1 fault | no duplicates but those accounted for, convergence up to a conflict, quiet when converged |
| `evidence` | pages of 1, up to 3 rows, limits of none and 2, 2 tables; fetches of 2 lines, 3 lines a window, 3 windows | honest answers, pages that meet, comparisons that are true |
| `evidence_tail` | the same, angel | **violation**: a tail saved as a whole dataset |

Three further configurations are kept for section 5 and are not among the runs:
`tlc -config AskDeskReader.cfg AskDesk` finds the reader whose departure frees the
analyst, `tlc -config AskDeskStream.cfg AskDesk` the reader who waits for ever, and
`tlc -config LoopsOrphan.cfg Loops` the codex that a cancelled slot leaves running.

**Bounds.** A queue of three is the smallest that a step, a verdict and a sentinel
fill exactly, so that every mixture of fitting, half fitting and not fitting
occurs; the code's 256 differs only in how long filling it takes. Two requests
are what it takes for an older one to free the analyst of a newer one, two
browsers for a second tab. The safety runs of the desk use symmetry; no liveness
run does. Two changes are a decision and its reversal; two faults allow a
failure and then a crash, the crash being how the replay is run again. Two steps
publish in either order, two tickets let the events of one follow another's.
Four lines are a call, its result and an ending with one line to spare; three
parts let calls of one turn end in either order; three calls in three requests
are a turn of two and one behind it, and the limit is met. In `ask_system` two
questions swap places, which is what an early release leads to. Two arrivals in
two slots race; one address per town is used up by the second. In `back_office`
the refused order stands at the head of a pass of two, the largest share it may
take (`RefusedFitInAPass`), and pages of one make the script's offset move under a
list that shrinks. In `catalog_sync` one product stands behind another that may
be stuck. In `evidence` a read may be shorter than a page, a page, or longer than
a page and still short of the rows, which three rows and a page of one are the
least to give; two lines per fetch and up to three in a window put one
below, at and above the ceiling.
`Investigation`, `Loops` and the others that come to an end do not check for
deadlock; the desk and the configuration service never stop.

**What no bound hides.** `ReaderReleased` is stated for two browsers. The verdict
and the sentinel each release one reader, so a third browser on the same request
is not released by them; with three readers TLC finds it waiting.

**Fairness.** `AskDesk`: a call has a ttl of fifteen minutes, so `work` ends, and
the loop runs a reader's task when its queue has something (weak fairness each).
Nothing is assumed of deliveries, browsers, or the watchdog. `ControlPlane`: a
container that stops is restarted, tasks that can run are run, time passes, and
stale reads recur, because the arrivals tick and every journey read settings. Faults
are bounded, so a reload succeeds in the end. `Investigation`: every loop has a
deadline of its own, and publications, settling and the reply run when they can.
`Loops`: codex is never relied on, since `wait_for`'s deadline comes; opencode
neither, since the probe and each request time out; the library's requests end, by
the HTTP client's timeout, and `PydanticLoop` has no deadline besides. `Customers`:
pages time out, the database answers or refuses, the container is restarted, and
the flow is not paused for ever. `BackOffice`, `CatalogSync`: the schedules tick,
calls end, failures and edits are bounded, and the shop finishes what it began.

## 4. Proofs

Each module `XProofs` is about the specification of module `X`, for every value
of its constants that the named assumptions of `X` allow. TLC evaluates these
assumptions in the runs. Every invariant below has the same three facts: it holds
initially, every action keeps it, and it implies the property.

**The desk** (`AskSystemProofs`): any sets of analysts, requests and browsers, any
depth. Assumed: `NoneAssumption` (the null values are none of the others) and
`DepthAssumption` (the depth is positive).

- `TypeCorrect`: `TypeOK` is inductive. It includes the bound on the queues.
- `NeverLockedOut`: `HeldOnlyWhileCalling` is not inductive, because closing a
  stream drops the queue of whatever request it names and frees the analyst only
  if it names the right one. `StreamKnowsHolder` says that it does, and holds
  because a request that has not been asked is known to no reader (`Unasked`).
  `HInv` is their conjunction.
- `HeldUntilLetGo`: a request whose call is out, that can be found and that the
  watchdog has not given up still holds its analyst. This is the other direction,
  and what the proofs about the whole need of the desk.
- `HeardIsNeverGivenUp`: an action property, from `HInv`; proved only, no run checks it.
- `DeskKeepsPromise`: initial states map to initial states, and each action to
  `Admit`, `LetGo`, `Conclude` or a stutter; that an analyst freed is held by the
  request that ends, and by no other, comes from `HInv`.
- `NoStreamEndsSilently`, `VerdictIsKept`: from `QInv`, which adds that a sentinel
  in a queue has a verdict in front of it or a reader who was given one
  (`VerdictFirst`), that the queue of a request that was never settled holds no
  verdict (`Unwritten`), and that an ended work has an ended watchdog
  (`WatchdogGuards`).

**The configuration** (`ControlPlaneProofs`): any flows, tunables and values, any
number of changes and faults. Assumed: what is mounted is a flow, no tunable is
one (`FlowsAssumption`), and an absent value is none of the values
(`ValuesAssumption`).

- `TypeCorrect`, and from `CInv`: `RegistryAsDecided` (`CarriedAsDecided`),
  `ReplayLeavesNothing` (`ReplayCarriesAll`), `AnswerIsTheDecision`
  (`AnswersTheDecision`). None of them is inductive, since a projection sends what was
  read several steps before. `JobIsCurrent`: only a job writes the table and there
  is one slot, so what it read is still there; `DownIsIdle`: nothing of the
  process outlives it; `ReplayIsCurrent`: whatever older rows a late reload puts
  into the snapshot under the replay, they differ from the table in contested
  flows only; `ReplayOwes`: what is pending while the replay runs is what it has
  still to send.

**The investigation** (`InvestigationProofs`): any tickets, any number of steps
and faults. Assumed: `TicketAssumption`, `BoundAssumption`.

- `TypeCorrect`, from `TInv`, which adds what there is of an investigation in
  each phase (`AtWork`).
- `NothingAfterFinished`, `ShownStepsAreRecorded`, `RecordsExplainThemselves`,
  from `IInv`, which adds that the record is paired from as many steps as were
  narrated, or from none (`StepsAgree`), that a ticket without slot and without
  reply has left no trace (`RecordOfSlot`), and that the stream holds of the
  ticket at work only what was collected, each step once, and not what is still
  to be published (`EventsOfSlot`).
- `EmployeeKeepsPromise`: the step of each action under the refinement mapping.

**The loops** (`LoopsProofs`): any lines, parts, calls and limits. Assumed:
`LoopBounds` (the bounds are numbers, the limit on requests is positive, and
codex's lines are of the kinds that the driver tells apart).

What `Found` and `Joined` compute of a list is a recursive function of it, and the
proofs need to know it of every list. They induct over sets instead of predicates:
a set of naturals that holds 0 and the successor of each of its members holds all
(`SetInduction`, from the well-foundedness of finite sets under inclusion). From
that, the functions exist, are unique, and obey their equations, so that the record
of a list with one step more is one turn of `from_steps` further (`FoundMore`), the
steps of a list with one piece more are longer by that piece (`JoinedMore`), and a
count goes up by one or stays (`UpToNext`).

- `RecordAlwaysTrue` (`RecordIsTrue`): not inductive, because it says nothing of
  what is open. For steps without ids, of codex and opencode, it is `Sound`: what
  waits for a result is the last call, so that a result by position is its own.
  `LineIsSound` keeps it over a line, given that codex runs one command at a time
  (`InTurn`); `ReplayedAll` has it of a conversation replayed at the end. For steps
  with ids, of pydantic-ai, it is `Keyed`: the ids that wait are exactly the calls
  in flight, in whatever order they end.
- `RefusalsReadAsErrors` (`RefusalsAreErrors`): `ReplayedAll` also gives each call
  of a conversation the status its part had, and `TellsWhatItRead` that what is
  replayed is the whole conversation.
- `LoopsKeepContract` (`KeepsContract`) and `WatchedIsKept` (`SameRun`): the steps
  of `LoopContract` under the mapping, for each loop, with no assumption on codex's
  lines. Its Outcome is computed from the lines again, and `NarratesLines` says that
  they come to what was narrated when none is torn, and to fewer steps otherwise; `KeptIsHanded` says that this is what is returned. `SameRun`
  is therefore an equivalence: what is handed over is what was watched if and only if
  no line was torn.
- `LoopsLeaveNoProcess` (`NoProcessLeft`): from `RunsWhileDriven`, which names the
  phases in which a process may run; every way out of them, by an ending, the
  deadline or a cancelled slot, finds it gone or kills it, but one: a slot cancelled
  while codex is being reaped. That one is named in the property, because the code
  has it (section 5).

**The desk and the analyst** (`AskSystemProofs`): any requests, browsers and
depth, one analyst (`OneAnalyst`, used where a question meets a free analyst).

- `SystemKeepsDesk` and `SystemKeepsAnalyst`: the composition implements both
  sides. The desk's theorems, in the same module, then hold of the whole, since
  every behaviour of it is one of the desk: `SystemKeepsPromise`.
- `AnswersAreTrue`, `EventsFindTheirRequest`: from `EInv`, that a queue holds an
  answer only of a request whose reply completed.
- `NobodyQueuesUnseen` (`QueuesOnlyBehindAbandoned`): from `BehindInv`, that whatever
  waits or is worked on was asked, with the lemma that letting go is for good
  (`LetGoIsForGood`) and `HeldUntilLetGo` of the desk.

**The customers** (`CustomersProofs`): any towns, hosts and mixes, any slots,
arrivals and crashes. Assumed: `CustomerBounds`.

- `VisitorsAreFresh`: from `PInv`; the pool remembers the address of everyone it
  made (`Remembered`).
- `NobodyOrdersTwice`, `RowsTellTheTruth`, `NothingIsLeftBehind`: from `SInv`,
  which says for each phase of a handler what is known of its arrival (`Handled`):
  while it walks, the order is placed by the last step but one (`OnItsWay`, from
  the shape of the three graphs, `GraphsEndWell`); once it leaves, what the walk
  says of the shop is so (`WalkIsTrue`), and then the summary and the row
  (`RowIsTrue`). `ContextsInHand` gives every context a handler that will close
  it, `SlotsFit` counts.

**The catalogue** (`CatalogSyncProofs`): any PIM, edits and failing, cut or late
calls. Assumed: `CatalogBounds`, and `ProductsDiffer` (no product
twice, as in `data/pim/products.json`).

- `OneRowAlways` (`OneRowPerProduct`): from `CInv`. The property is not inductive: a
  patch gives the pass's row its product's reference and name, and in the meantime
  somebody may have taken both from the row, or made the row another product's. So
  `Bounded` counts, for each product, what is its in the shop, what was its when the
  pass read, and the row that the pass has taken for it (`Holds`); a patch then adds
  nothing, and what somebody adds is counted by `given`. `NotYetMade` says that while
  a pass that has seen no row of a product has not come to it either, every row of
  it landed late or was given to it, which leaves room for the one it creates.
- `QuietAlways` (`QuietWhenConverged`): from `QInv`. A pass knows what it has read
  only as long as that was right; `KnowsWhatItRead` says so, `RowIsFound` and
  `ImageIsOfThisOne` tie the pass to its product. The proof found an error of the
  model: a variant's upload was carried over to the next product, whereas the
  code's `image_added` is of one combination (`sync.py:466`). The instance's second
  product is plain, which is why TLC had not seen it.

**Payments** (`BackOfficeProofs`): any orders, faults and sizes of a listing.
Assumed: `ClerkBounds`.

- `PaidOnce` (`AcceptedOnce`): from `BInv`. An order that awaits has no acceptance
  (`AwaitsUntilAccepted`); one that was never shared is in one hand at most: the
  pass's, the script's or the shop's, whose caller is gone (`OneHand`); and
  until that hand lets go it is not accepted (`UnpaidInHand`).

**The evidence** (`EvidenceProofs`): any employees of the three, page sizes,
limits and numbers of rows and lines. Assumed: `EvidenceBounds`.

- `ReadsAreHonestAlways`, `WhatIsGoneIsGone`, and the action property
  `FollowingMissesNothing` (`PagesMeet`): from `TInv`, that the last answer is a
  page of the rows there were and says where the rest begins (`AnswerShowsAPage`),
  and that a table of blair's that says it is complete is (`CompleteIsWhole`).
- `WhatIsNewIsNew` (`NoveltyIsReal`): from `LInv`, that between two fetches with
  nothing in between the clock stands still for angel and the file for blair
  (`NothingBetween`).

**Model-checked only.** Liveness is out of the prover's reach: `ReaderReleased`,
`AnalystFreed`, `SnapshotCatchesUp`, `EveryTicketIsAnswered`, `EveryLoopEnds`,
`EveryArrivalEnds`, `EveryOrderSettles`, `ShelvesRefilled`, `Converges`. Every
other property of a passing run is the statement of a theorem above.
The two violations are counterexamples, which TLC finds.

## 5. Where the code and its comments disagree

The two violations among the runs are `findings` of `PROJECT.json`: the boot
replay may undo a change made while it runs, and angel's sorted reads from an
offset are saved as complete datasets. The models show more, some of it only by
what a property has to leave out:

- `Requests.close` (`bus.py:194`) frees an analyst who is still working when the
  reader leaves, against `main.py:282`, "**The analyst is freed here, not when the
  reader leaves.**" `QueuesOnlyBehindAbandoned` is what remains of the promise:
  the second question waits behind one that nobody at the desk holds any more.
- A full queue drops the newest events (`bus.py:219-222`), not "the oldest"
  (`bus.py:104`), and the verdict and sentinel with them: the reader waits for
  ever, against `main.py:256`.
- Codex's stream is cut into lines twice, as it comes (`codex.py:282`) and with
  `str.splitlines()` (`codex.py:393`), which also ends a line at U+2028, U+2029 and
  U+0085, all of which JSON allows inside a string. A command that printed one is
  narrated with its result, and handed over and recorded without it, against
  `codex.py:288`, "a watcher and the record must see the same run"; a piece that is a
  number makes the loop raise over the whole run. `SameRun` says that these lines,
  and no others, are what parts the two.
- A slot that is cancelled while `_reap` waits its five seconds, or cancelled a
  second time, leaves a codex that ignored TERM running: only `TimeoutError` is
  caught there (`codex.py:250-255`), against `codex.py:229-235`, where the `finally`
  is there because "a Ctrl-C or a cancelled slot left codex running". `NoProcessLeft`
  leaves out that one way, and `LoopsOrphan.cfg` shows it: `NoOrphan` is what the
  comment wants.
- The wait for opencode's server to end (`opencode_api.py:524`) blocks the event
  loop, with every other employee of the process, for up to ten seconds.
- `config.describe` reads the flows before it refreshes the snapshot
  (`actions.py:184-187`), against its comment "From the database".
- `investigate` raises when the workspace or the record cannot be written
  (`run.py:139`, `run.py:303`), against "**Returns, never raises.**" (`run.py:128`);
  pydantic-ai's `keep` and the opening of its dependencies raise likewise
  (`pydantic_ai.py:215`, `264`), and opencode's reply is parsed outside its
  handlers (`opencode_api.py:431`). `LoopContract` therefore has `Raise`.
- Charlie's `window` asks whether it cut before it asks whether the shop did
  (`charlie/bounded.py:63`), so a limit of 100 tells a total of 100 of 709 rows:
  the very order that angel's comment (`angel/tools/bounded.py:69`) names as the
  bug. `ReadsAreHonest` leaves charlie's total out.
- Blair drops an offset that comes without a limit (`blair/tools/shop.py:112`):
  following `next_offset` reads page one again, for ever. Angel's `query_params`
  describes this defect and repairs it. `PagesMeet` leaves that read out.
- Angel's report from an offset tells a total without it
  (`angel/tools/analytics.py:131`), and blair's, behind the end of the report, tells
  the offset (`blair/tools/analytics.py:105`). `ReadsAreHonest` leaves both out.
- Angel's `join` and `filter_` save without saying how complete they are
  (`data.py:235`, `294`), so that the mark `save` was given to carry is lost after
  one step; `aggregate` and `compare` never tell it. `GoneIsGone` is blair's only.
- Angel's overview compares windows cut at the ceiling without saying so, and its
  second window moves with the clock between the two awaits (`logs.py:356`, `388`),
  so the two may overlap, which `fetch`'s docstring says a comparison must not.
  Blair's overview reads a file that another call may have written over meanwhile
  (`blair/tools/logs.py:60-66`) and keeps its claim to be complete.
- A product's row that is given the reference of one behind it becomes that other
  product with the next pass, and the first is created anew by the pass after it
  (`sync.py:565-600`): the shop then has two rows of one product, although "pass is
  safe to re-run: products/combinations use stable references" (`sync.py:4`).
  `OneRowPerProduct` counts such a row with `given`.
- Two variants that each hold half of what identifies one stop every pass of the
  catalogue there (`sync.py:466`); the products behind are never reached, which
  `Converges` says.
- The backlog script counts its offset from a list that shrinks while the pass
  settles, and skips orders; the pass takes them up later.
- Five hundred orders refused for good would fill the settlement pass
  (`accept.py:95`): `RefusedFitInAPass` assumes there are fewer.
- The refill writes an absolute quantity over purchases made since it read one.
- The addresses issued are forgotten when the simulator restarts.

## 6. Not modelled

Rendering, wording, SQL and HTTP shapes; authentication; the third-party programs;
the prompts; single reads of a file or of one long log line. The consumers' sweep
depends on what Redis does with a group's pending entries, which no source here
says. The runtime library is outside the repository and is modelled by how
it is used: a call ends with a reply or an exception, an action runs in at most
`max_slots` slots, a subscriber may see events at any time, nothing redelivers a
message whose executant died. Of several portals or simulators on one bus nothing
is said: the code is written for one process each.

## 7. Plan

Done: `AskPromise`, `AskDesk`, `ControlPlane`, `Investigation` and
`AnalystPromise`, `AskSystem`, `Customers`, `BackOffice`, `CatalogSync` and
`Evidence`, the loops, their contract and `RunRecord`, each with its proofs. In
order of importance, what is left:

1. Type invariants as theorems where the inductive invariants already contain
   them, and the parts of `AskSystem` that one analyst stands for, with several.
2. The consumers' sweep of the bus, and the portal's session.
