# A verification of the voting dapp

TLA+ models of the poll contract, of the indexer that replays its events, and of
the web and deployment code around them; TLC configurations that check them on
small instances; and TLAPS proofs of what matters most for instances of any
size. Paths below are relative to the repository root; `Poll.sol` stands for
`contracts/contracts/Poll.sol`, and TypeScript files are under `web/src/lib/`
unless they say otherwise.

Run everything from this directory:

    tlc -workers 4 -config MCPoll_public.cfg MCPoll
    tlapm PollProofs.tla

## 1. Inventory

The contracts are the source of truth (ADR-0001). The web layer keeps a
disposable copy of their events in MySQL, shows it, and compares it with the
chain. Scripts release the web layer into two slots behind nginx.

| component | state | operations | interacts with |
|---|---|---|---|
| Poll (`Poll.sol`) | phase and deadlines, options and counts, whitelist and weights, delegations, sealed and open ballots, stakes, one queued execution | about twenty transactions: administration by the owner, ballots by voters, closing, refunds and execution by anyone | calls out when it pays or executes; emits every event the index lives on |
| PollMechanisms (`PollMechanisms.sol`) | none | `validate`, `validateGovernance` | called by factory and poll; mirrored by `mechanisms.ts` |
| VotingFactory (`VotingFactory.sol`) | polls, allowed creators and the switch of that list | `createPoll`, the allowlist | clones and initialises a Poll in one transaction |
| Indexer (`indexer/sync.ts`, `plan.ts`, `decode.ts`) | cursor and event tables, in MySQL; a plan and fetched logs, in memory | `syncOnce`, run by the loop and by `POST /api/index/sync` | reads the chain, writes the tables; nothing serialises two of them |
| Endpoint rotation (`indexer/endpoints.ts`) | active endpoint, failures in a row | `attempt`, `recordFailure` | between the indexer and the nodes |
| Server process (`data.ts`) | migration promise, loop handle, recorded database failure | start-up, the loop, the route, `/api/health` | owns the rotation and the pool |
| Consistency check (`report.ts`) | none between requests | `checkConsistency`, one request or command each | index snapshot, then chain |
| Read cache (`cache.ts`) | one entry: a promise and its expiry | `get` | wraps the slow read of the poll list |
| Notifications (`notify/index.ts`, two routes, one page) | a watermark per subscription; per tab a list and a request | subscribe, list, mark read | cursor and event tables |
| Poll page (`ballot-reasons.ts`, `PollBallot`, `PollAdmin`, `ExecutionPanel`) | writes in flight | the condition of each button | mirrors the contract's guards |
| Create form (`CreatePollForm`, `draft.ts`, `templates.ts`) | fields, autosave timer, draft in `localStorage`, one transaction | edit, autosave, discard, submit, receipt | factory, wallet, storage |
| Blue-green deployment (`ops/deploy/*.sh`, two workflows) | state files, metrics, `upstream.conf`, two containers, nginx workers | release, rollback, switch, gate, observe | one script at a time, by the workflows' lock |
| Schema, mechanism mirror, other read queries, reports, monitoring, the rest of the interface | tables; none | see section 7 | |

What is hard here:

- **Poll.** Transactions of the owner, of voters and of passers-by come in any
  order, and four mechanisms (several selections, weights, delegation, commit
  and reveal) change what a ballot is. Counts, powers and stakes are each kept
  in two places that must agree after any history. Deadlines can be overtaken
  by an early close. Money leaves by four ways that must exclude each other.
- **Indexer and check.** Reads of the head, the cursor, the known polls and the
  logs are separate awaits, followed by one transaction. The process can die
  between any two. Endpoints can be behind. The youngest blocks can be replaced.
  Two syncers can work at once, and a check compares two moving sides.
- **Server, cache, notifications.** A failure counter shared by two callers, one
  recorded failure shared by all requests, a promise shared by a burst, a
  watermark against a cursor that rewinds, two tabs.
- **Pages.** Guards written twice, in Solidity and in TypeScript; a timer that
  fires after what it saves was dropped.
- **Deployment.** Two scripts of many steps, each of which can fail or be killed,
  and four records of who serves.

`PROJECT.json` lists the hazards line by line with the properties that guard
them, or why none does.

## 2. Modules

    PollMechanisms   Totals ........        EventChain      IndexLedger     Endpoints
       |    \         /             .            |              /    |          |
       |     Poll -- StakeEscrow     .         Indexer         /   Reader     Server
       |       |      /               .          |            /      |          |
       |   PollProperties              .   IndexerProperties     MCReader    MCServer
       |     /         \                .   /     |      \      ReaderProofs ServerProofs
       |  PollPage   PollProofs     Consistency   |   ChainProofs
       |    |                        /      |  MCIndexer   |
       |  MCPoll                    / MCConsistency   IndexerProofs
       |                           /                       |
       |                          +-- ReconcileProofs -----+
       |
       +--- Creation --- ReadCache             BlueGreen --- MCBlueGreen
               |                                   |
         MCCreation, CreationProofs          BlueGreenProofs

| module | models | correspondence |
|---|---|---|
| `PollMechanisms` | `PollMechanisms.sol` | the configuration record and the operators that admit it |
| `Totals` | sums over voters or options, for `Poll` and `Consistency` | cardinality of the units counted, so that sums can be proved about without recursion |
| `Poll` | one poll after `initialize` | one action per transaction that succeeds; a call whose guard fails reverts and is no step. The guards have names (`CanVote`, `CanRefund`, ...), for the page to be compared with, and keep the order and content of the `revert`s, and checked arithmetic is a guard (`MaxUint`). `Tick` moves `block.timestamp`; `ForceEther` is ether that arrives without a call |
| `StakeEscrow` | abstract: what a poll promises about deposits | implemented by `Poll` under the mapping in `PollProperties` (`open` is Setup or Voting, `holding` the addresses with something to get back, `pot` the balance without forced ether) |
| `PollProperties` | properties of a poll | |
| `PollPage` | the buttons of a poll's page | an operator per button, compared with the guard of the contract's action |
| `EventChain` | the chain as the indexer sees it | blocks of logs; `Accepted` keeps histories to those the contracts can emit; `Mine` and `Reorg` belong to the network |
| `Indexer` | `syncOnce`, the loop, the tables | one action per await: `ReadHead`, then the cursor with the three plans (`PlanReorgRewind`, `PlanNextRange`, `CaughtUp`), `DiscardAbove`, `ReadKnownPolls`, `GetLogs` per address, `DiscoverPolls`, then the two halves of `persistBatch`: its look-up of prior voters (`ReadPriorVoters`) and its writes (`PersistBatch`); `Fail` is an exception or a crash anywhere in between |
| `IndexLedger` | abstract: settled events, a cursor within them, exactly the events up to the cursor | implemented by `Indexer` with one syncer; it is the index that `Reader` stands on |
| `IndexerProperties` | properties of the index | the chain's side is an independent replay of the logs, a fold over them in order (`Standing`), the index's side the view `current_votes` |
| `Consistency` | `checkConsistency` beside the indexer | `ReadIndexSnapshot`; `ReadOnChain`, a height and the tally there; `Report`, the logs up to that height and the verdict; `Unavailable` is a read that throws |
| `Endpoints` | the rotating reader with several reads in flight | `Send`, `ReadSucceeds`, `ReadFails`; `stale` and `borrowed` are history |
| `Server` | the process of `data.ts` | migration, `ensureSyncLoop`, the awaits of `syncOnce` as far as they read the chain or the database, index reads and what they record |
| `Reader` | subscriptions and notifications | one action per query or click of each tab |
| `ReadCache` | the entry, the shared promise, its failure | the reads' contents are supplied by `Creation` |
| `Creation` | form, draft, wallet, factory, and the list the server reads through its cache | one action per handler, timer, wallet answer, mined transaction or await |
| `BlueGreen` | `deploy.sh`, `rollback.sh`, the two workflows | one action per command that can fail; `Crash` is a killed script |
| `MC*` | instances for TLC | |
| `*Proofs` | proofs | section 5 |

Operators whose comment begins with "Mutant" are not part of a specification.
Each is a plausible bug in the definition that follows it, kept to show that a
property notices.

### Abstractions

`Poll`. Labels, the question and the rules fingerprint decide nothing a ballot
or a stake depends on and are left out. A commitment is the option list it
commits to, `None` is the word zero, the hash is collision free; commitments to
lists that cannot be opened are enumerated too. Every account can be paid, and a
payment is one step, so the reentrancy locks and the clear-before-pay order are
taken as they are, not examined. An execution's call succeeds or fails freely.

`PollPage`. The page has read the current block and has no write of its own
outstanding: the module asks whether the two copies of the guards agree, not
what a stale page shows. Where page and contract knowingly differ, the property
names the difference (section 6). The comparison is with the named guards of
`Poll`. That each is what its action is enabled by is plain from the actions,
which are a guard and then assignments; TLC confirmed `CanX <=> ENABLED X` once in
every state of the public and the sealed instance.

`Indexer`. A log keeps its address, event, subject and options. A label is the
log that set it. Rows carry block and log index in place of the transaction
hash; they identify a log as long as only settled blocks are read, which is
checked and proved (`OnlySettledLogs`). Refund, whitelist and phase rows are
stored by the same `INSERT IGNORE` as polls and votes and feed no derived state.
They are left out, and so are removed options, whose renumbering the index does
not replay by design. A read of the database is one statement. The writes of a
transaction are one step: each locks what it meets until the commit, and the
connection of another syncer sees none of them before. A plain `SELECT` locks
nothing, so the look-up of prior voters, which the batch's inserts rely on, is a
step of its own; the other transaction of a syncer, `discardAbove`, only writes.

`Consistency`. Ballots have power 1. The height comes from an endpoint that may be
`MaxLag` blocks behind. Height and tally are one step: a height that has become
old when the tally is read is a height that is further behind. The logs are read
on whatever chain there is then. The model keeps no verdict: a request ends with
its answer.

`Server`, `Reader`. An endpoint fails everything, or `getLogs` only. A query
sees the database as it is when it is sent. The contents of the chain and of an
answer do not matter to the rotation and to health, and are left to `Indexer`.
The order of events within a block is arbitrary in a list of notifications.

`Creation`. The fields are one value, blank or complete, because only a complete
form can be sent; templates and admission are compared with the contract by a
pure formula over all that the form can combine. One tab, one wallet.

`BlueGreen`. A slot's container is an image, whether it runs, and whether it
passed the gate. Time counts inside the two
polling loops only. nginx is not restarted between scripts; the comparison of
`upstream.conf` with who serves says what such a restart would do.

## 3. Runs

| run | instance | shows |
|---|---|---|
| `public` | 2 voters, 2 to 3 options, ballots of up to two, quorum 60 %, timelock, one wei forced in, executions with a value of 0 or 1 | types, ether, cached verdict, no edit moves a verdict, one execution after its timelock, and a page that agrees with the contract in every state but for the cases its property names |
| `delegable` | 3 voters, weights, delegation | exact books one hop deep, tally = ballots, power conserved, a ballot is worth what its holder controls |
| `sealed` | 3 voters, open poll, commit and reveal, early and late close, no fairness for the owner | nothing is counted that was not sealed in time; stakes of sealed and opened ballots; deposits implement `StakeEscrow`; the poll ends and every stake comes back or is swept (nothing is executed here) |
| `replay` | 4 blocks, one syncer, one late answer of up to 2 blocks, one reorganisation, one failure, a check beside it whose endpoint is up to 2 blocks behind | nothing is skipped, the view agrees with the chain at the cursor, the index catches up and implements `IndexLedger`, a check does not accuse an index that lags by first ballots, but for a height behind the cursor and a reorganisation between its last two reads |
| `concurrent` | 4 blocks, loop and route, commit and reveal, one reorganisation, one late answer of up to 2 blocks | only settled logs, whole ballots, a reveal labelled a change only when a rewind comes between look-up and insert |
| `server` | 2 endpoints, threshold 2, loop and route, two requests, three faults | an endpoint answers for its own failures, reads resume, outages are reported while they last |
| `reader` | one poll, two tabs, 3 blocks, lists of one, one rewind, one failed query | an event no request has listed stays unread, what is read stays read |
| `create` | one text, two requests, a time to live of 1, one fault, one reload | drafts, offers, list and cache keep their word |
| `deploys` | 4 jobs, 3 releases, all six kinds of failing step, kills at all eight stages | gated traffic and a warm rollback until a late kill or failure, true files and visible drift again after the next script that ends well, loops within their budget |
| `zero_commitment`, `stale_plan`, `accused` | | each ends in a violation, section 6 |

**Bounds.** Voters, options, weights and time are small; every hazard above is
a conflict of at most three accounts (delegator, delegate and another), of two
syncers, two tabs or two requests. Three options are needed for `removeOption`,
which renumbers, next to ballots of two. `MaxTime` reaches past deadline, reveal
window, timelock and grace period. `MaxUint` is far above every sum in these
runs: where arithmetic overflows is a guard, and no run reaches it. Four blocks
with chunks of two and one confirmation let a poll be created, voted on,
withdrawn from and voted on again across a chunk boundary, and let the cursor be
ahead of an old head. A lag of two rewinds a cursor to a lower block, or away
altogether, in `concurrent` under a batch that has looked its voters up; and it
takes the height of a check below the cursor, as the exceptions of
`RevealsAreCast` and `FirstBallotsReconcile` say: TLC violates either property
when its exception is dropped. `MaxLags`, `MaxReorgs`, `MaxFailures` and `MaxFaults` end the
disturbances so that liveness is meaningful: without such an end the index owes
nobody progress. Three faults of two endpoints break one, repair it and break
the other. A list of one entry makes every second notification exceed the limit.
Four jobs let a failed release meet a warm and a cold slot. Three releases are
one serving, one before it and one to come.

Symmetry is used where identities are only compared, and never in a run with
liveness. `CHECK_DEADLOCK FALSE` is set for polls, the form and the deployment:
a settled, swept poll, a page left alone and a host after its last job are
really at rest. The indexer, the server and the reader never rest.

**Fairness.** In `sealed`: time passes, and `closeAfterDeadline`,
`closeRevealWindow` and `refund` happen when they stay possible. They are
permissionless, or in the voter's own hand, and the code comments name a creator
who walked away as the case they are for; no owner action is fair. In `replay`:
the loop keeps taking steps, which is what `startSyncLoop` does while its process
runs, and the chain keeps growing. In `server`: the process runs what it has
started, the loop schedules its next iteration itself, health is probed for ever.
The on-demand route is never fair. The other runs check safety only and state no
fairness.

## 4. Properties worth reading first

- `PowerConserved`, `BallotCarriesControlledPower`, `DelegationBooks`: the three
  faces of "authority moves exactly once per poll" in `delegate`.
- `ImplementsEscrow`: withdrawals, refunds, sealed withdrawals and the sweep pay
  each deposit at most once, over any history.
- `EditsMoveNoVerdict`, `CachedVerdictIsCurrent`: a frozen denominator and a
  cached verdict that stay right.
- `PageFollowsPoll`, `OfferedIsAccepted`: guards written twice that agree,
  including the last second of a timelock and the display of a quorum.
- `SnapshotAgrees`, `ImplementsLedger`: after any mixture of failures, rewinds
  and replays the view shows each voter's selection as the poll held it at the
  cursor's block, and outside observers only see a ledger of settled events.
- `FirstBallotsReconcile`: what the check's reconciliation is good for, and by
  name the cases in which it still accuses a healthy index.
- `RevealsAreCast`: the one race of two syncers that mislabels a ballot.
- `NothingSwallowed`: an event of a followed poll stays unread until a request
  has listed it, whatever is indexed between the queries.
- `OutageIsReported`: one recorded failure for all requests still ends up right.
- `DraftIsKept`, `CacheIsSound`: timers and promises that outlive their reason.
- `TrafficIsGated`, `RollbackIsWarm`: what a release may rely on after any
  sequence of failed ones.

## 5. Proofs

Every safety property that the passing runs check is proved, for instances of any
size. What the proofs assume of the constants is named where these are declared:
the assumptions of `Poll` (voters are finite and differ from `None`; the
configuration passes `Validate`), `ChainAssumption` and `IndexerAssumption`,
those of the server and the reader, `DeployAssumption`, `CacheAssumption` and
`CreationAssumption`. All but one say what kind of thing a constant is; the one
is about the network, and says that a reorganisation is no deeper than the
confirmations the indexer waits for. TLC evaluates each in the runs. Where a
theorem needs more, the hypothesis has a name and stands in its statement.

| theorem | module | says |
|---|---|---|
| `TypesHold` | `PollProofs` | every variable keeps its type, counters that are subtracted from as integers |
| `StakesAreSummed` | `PollProofs` | `totalStaked` is the sum of the stakes until the sweep |
| `BallotsAreBacked` | `PollProofs` | while the poll is open, exactly the holders of a ballot, sealed or open, have one stake |
| `EtherIsTheStakes` | `PollProofs` | balance = `totalStaked` + forced ether - what the execution spent |
| `PollImplementsEscrow` | `PollProofs` | every step is a step of `StakeEscrow` or a stutter |
| `ClosedIsClosed` | `PollProofs` | after the close ballots only appear from their own commitments |
| `VerdictIsFinal` | `PollProofs` | the cached verdict is the computed one |
| `CarriedOutOnce`, `TimelockIsKept` | `PollProofs` | one execution at most, of a passed poll, after its timelock |
| `WhitelistMovesNoVerdict` | `PollProofs` | edits after the opening change no verdict |
| `DelegationsAreBooked`, `BallotsCarryPower`, `PowerIsConserved` | `PollProofs` | the books of delegation |
| `CountsAreTheBallots` | `PollProofs` | counts = ballots |
| `TypeIsKept` | `PollProofs` | `TypeOK`: nothing subtracted from ever falls below zero |
| `VerdictStaysComputable` | `PollProofs` | for which weights `outcome` cannot overflow |
| `PollsCanBeClosed` | `PollProofs` | where weights and times fit, no call that closes a poll reverts once its time has come |
| `RecordedStakesArePaid` | `PollProofs` | an ended poll that is solvent pays every recorded stake until the sweep |
| `ExitsStayOffered` | `PollProofs` | under every mechanism the page withholds no withdrawal, no refund and no close past the deadline; two ways out are the contract's alone (section 6) |
| `OwnerPanelIsExact`, `ExecutionPanelIsExact` | `PollProofs` | under every mechanism whose weights and times fit these panels offer what the contract takes |
| `PageStaysTrue` | `PollProofs` | with public ballots the voter's panel, too, offers what the contract takes, the cases of section 6 aside |
| `StoredIsSettled` | `IndexerProofs` | however many syncers race, everything stored, and the cursor, is settled |
| `BallotsAreShownWhole` | `IndexerProofs` | however many syncers race, the view shows whole ballots |
| `OnlyRewoundRevealsAreChanges` | `IndexerProofs` | however many race, a reveal becomes a change only if a rewind overtakes the look-up of its batch |
| `LoneSyncerLabelsReveals` | `IndexerProofs` | one syncer never labels a reveal a change |
| `LoneSyncerSkipsNothing` | `IndexerProofs` | one syncer's cursor passes nothing that is not stored |
| `LoneSyncerAgrees` | `IndexerProofs` | its view is what the poll held at the cursor's block |
| `LoneSyncerImplementsLedger` | `IndexerProofs` | its steps are steps of `IndexLedger`, or stutters |
| `LoneSyncerReconciles` | `ReconcileProofs` | a check beside it accuses no index that only lacks first ballots, where its height and the chain below it last |
| `ServerRotates`, `ServerJudgesFairly` | `ServerProofs` | the server implements `Endpoints`, and an endpoint answers for its own failures |
| `NothingIsSwallowed`, `WhatIsReadStaysRead` | `ReaderProofs` | no notification is lost, no watermark moves back |
| `LoopsAreBounded` | `BlueGreenProofs` | gate and observation end within their budget, whatever fails |
| `TrafficStaysGated`, `FilesAreTrue`, `RollbackStaysWarm`, `DriftStaysVisible` | `BlueGreenProofs` | what a release may rely on after any sequence of jobs |
| `CacheStaysSound` | `CreationProofs` | one read per time to live, no failure kept, for any readers |
| `ListStaysRecent` | `CreationProofs` | a served list has every poll older than the time to live |
| `DraftStaysKept` | `CreationProofs` | saved is stored, dropped stays dropped |
| `VerdictsAgree`, `OfferedStaysAccepted` | `CreationProofs` | form and contract admit the same configurations, for any number of options |

**Stakes.** `Types` is proved first, with `voteCount` and the delegation
surplus, from which the code subtracts, as integers. `StakesSum` is not
inductive by itself. A withdrawal of a sealed ballot subtracts the stake of an
address with a commitment, so one must know that such an address has exactly one
stake (`Backed`), and which kinds of ballot can exist in which phase (`Modes`: no
open ballot before the reveal of a sealed poll, no commitment in a plain one, no
ballot in Setup). `StakeInv` is the three together, `CustodyInv` adds the ether.
The refinement combines both: a step that pays maps to `Return` because the
stake of the payee is the whole `Stake`, and the sweep maps to `Forfeit` because
the sum of what is owed is what it sends.

**Outcome.** `SealInv` adds to `Modes` that nobody has a commitment and an open
ballot at once, which is what a reveal needs. `VerdictInv` ties the cached
verdict, the end of the vote and the queued execution together (`RecordInv`): a
queue entry exists only in a poll that ended and passed, and its `readyAt` is a
timelock after the end, so an execution needs no memory of how often it was
queued. `ResultStep` is the fact all the rest is drawn from: a step either ends
the poll, or leaves alone what its result is computed from.

**Power.** `PowerInv` says that delegations are one hop and booked on both
sides, that a ballot weighs what its holder controls, and that it weighs more
than nothing. The last is what the guards of `delegate` need: they look at the
weight of a ballot to know whether there is one. Conservation follows from the
books without an invariant of its own, by splitting what all addresses brought
by whom they named (`TotalSplit`). `TallyInv` then gives the counts, and with
both, `TypeOK`, the invariant that looks easiest and comes last: that a
subtraction stays natural depends on all the books.

**Page.** What keeps the page honest are facts no guard states. The verdict must
not overflow, or nobody can close the poll: an option collects no more than all
addresses control (`TallyIsTheBallots`), that is no more than they brought
(`PowerConserved`), and nobody brought more than the largest weight (`ScaleInv`).
A stake must be payable, or the refund the page offers reverts: each is part of
`totalStaked` (`StakesSum`), which the balance covers (`Custody`). `MomentInv` is
about time: the page takes a poll with `votingEndedAt` set for closed, and a call
that failed was due, so that a retry needs no wait. The page rounds the turnout
down where the verdict multiplies; `RoundedDown` shows that both clear the quorum
together. `PollsCanBeClosed` and `RecordedStakesArePaid` draw from the same facts
the safety halves of `OpenPollEnds` and `EveryStakeComesBack`: which of the calls
whose fairness these two assume can be refused when their time has come, and why.
A close is refused by arithmetic only. A refund is refused only when an execution
has spent more than was forced in (`Solvent`); the zero word costs no recorded
stake its refund, for a stake it strands is recorded nowhere (`Covered`).

**Sums** are cardinalities of sets of units (`Totals`), and `PollProofs` begins
with what a change of one summand, or a transfer between two, does to them,
from the library's facts on finite sets.

**Histories.** What the contracts can emit is defined by folds over the logs so
far, and a property of all histories is an induction over them. The library's
induction theorems cannot be used with an operator, so `ChainProofs` does it with
a set of good lengths and the natural numbers' least element. `ChainHistory` is
what comes out: a poll is announced before anything else is said of it
(`Announced`), once (`CreatedOnce`), a voter of a sealed poll reveals last
(`RevealedLast`), and what stands for a voter after a history is the voter's last
ballot in it, unless withdrawn (`BallotStands`). It also carries places in the
history over to blocks and indexes within them, and shows that a prefix no
reorganisation reaches is the same history before and after.

**Indexer, any syncers.** `OnlySettledLogs` is not inductive: a syncer acts on a
head, a range and logs it read several awaits ago, while the chain and the other
syncers moved on. `SettledInv` says what such stale knowledge is still good for:
the safe head of any head once read, the end of any planned range or rewind, and
every log in hand are settled (`SyncerInv`), and at most `FinalityDepth` blocks
are not (`ChainInv`). `VotesInv` adds that every stored row is a row of a settled
log and that a log is stored with all its rows or none (`WholeVotes`), so that the
newest row of a voter brings its whole ballot. A reveal is the only log of its
kind that its voter has, so a voter already recorded is recorded by that log
itself, whose rows are kept as they are if they are still there: what a batch
looked up and no longer finds must have been rewound since (`OnlyBatchesStore`).
Alone, a syncer finds what it looked up (`LookUpStands`), and no reveal is ever
mislabelled. No lock between syncers is needed
for these, in contrast to `NothingSkipped`, which `stale_plan` shows they do break.

**Indexer, alone.** The hypothesis is `Syncers = {Loop}`. `LoneInv` adds `Exact`:
the tables are the rows of the logs up to the cursor, no more and no fewer. It needs what the syncer knows between two awaits. While it fetches,
its range begins right above the cursor (`Abreast`), and it holds every log of
that range from the addresses it has asked; when none is left to ask, the polls
known before it started and those the range announces are all there are
(`Asked`). So what it stores is the whole range. `LoneSyncerAgrees` puts this
together with `BallotStands`: the last row of a voter at the cursor is the last
ballot in the history up to it. The ledger's events are the logs of `Exact`.
The theorems about one syncer also have the hypothesis `[]FactoryIsIndexed`:
no poll is created below the start block, which by default is the block the
factory was deployed in (`config.ts:151`).

**Check.** A snapshot taken beside a lone syncer is the contract's tally at the
cursor's block, and stays so while the chain goes on, because that block is
settled (`CheckInv`). What a voter holds at the height of the check is then what
the voter held there, or the options of the voter's first ballot since
(`HeldAtTheHeight`), provided the height is not below the cursor and the logs are
of the chain the tally was read on; the two
exclude each other, so the voters of an option add up, and the rows the check
counts as pending are in bijection with the new ones (`PendingAreNew`). The sum
over the options follows from `SumOfTerms`, a bijection of units.

**Server.** The property is proved of `Endpoints` alone, and every step of the
server is shown to be one of its steps or to leave it alone.

**Reader.** `ReaderInv` says of every height a tab holds in its hands (a head
read for a subscription, a mark about to be written) that everything at or below
it has been listed or is older than the subscription, so that writing it late is
harmless. That a rewind cannot invalidate this rests on `IndexIsPast`: what is
indexed again are the same settled events.

**Deployment.** `ClockInv` bounds the clock of a loop that goes on, by the loop's
own test of what is left, and holds whatever fails. `DeployInv` has the rest.
Whatever fails, what a running script remembers of the files is what they say,
from the gate on its target runs its image (`JobInv`), and once it has moved the
traffic that is on its target, however wrong the files were before (`FilesInv`):
so the files a script writes at its end are true. While nothing has gone wrong
late, in addition, a running container has passed the gate unless it is the one
being gated, the slot the files name runs all along (`HostInv`), and a script that
ends well leaves the predecessor running beside it (`WarmInv`). The theorems have
no hypothesis on what fails. What a late kill or failure costs is in the
properties, through the history variable `harm`; section 6 says what each leaves
behind.

**Read cache.** `CacheInv` says who refers to each read (`KeptInv`) and that every
read in flight that is not the entry's began a time to live ago (`EntryInv`), from
which two reads in flight are a time to live apart whichever ended first. That a
read can always be started is a count: each of the finitely many readers refers to
one read at most, so a number is left. `ListInv` adds that a list was complete when
its read began, and that whoever waits for it asked while it was fresh; with a
time to live of 0 the entry is never fresh, and `ListStaysRecent` has the
hypothesis `Ttl > 0`.

**Form.** `DraftInv` says that a pending timer will save what the form says now. `VerdictsAgree` compares two formulas for every number
of options from two up; the runs compare them for the numbers they have.

Four hypotheses are needed for polls. `NoZeroWord`: nobody commits to the
word zero (`StakesAreSummed`, `BallotsAreBacked`, `PollImplementsEscrow`); it is a
condition on polls with sealed ballots only. `NoValue`: no execution carries ether
(`PollImplementsEscrow`, because the escrow knows of none). `PowerFits(W)`: no weight
is above `W`, and options, voters, `W` and `MAX_BPS` multiply to at most `MaxUint`,
which for a uint256 leaves weights up to some 2^200. `ClockFits`: neither the reveal
window nor the timelock, added to the latest moment of the model, overflows. The
code excludes none of the four. Without the first, `zero_commitment` is the
counterexample; the others are in section 6, and a poll with heavier weights or a
longer window may be impossible to close. Of the theorems on the page and the end
of a poll, `PageStaysTrue`, `OwnerPanelIsExact` and `PollsCanBeClosed` have
`PowerFits` and `ClockFits`, `ExecutionPanelIsExact` only `ClockFits`,
`VerdictStaysComputable` only `PowerFits`; `ExitsStayOffered`,
`RecordedStakesArePaid`, `EtherIsTheStakes` and those on outcome and power have
none.

Every inductive invariant was checked by TLC on the instance of its run before
it was proved.

Only model-checked: liveness (`CatchesUp`, `ReadsResume`, `OutageIsReported`,
`EveryStakeComesBack`, `OpenPollEnds`), which is beyond the prover. The
typed invariants of indexer, rotation and reader are parts of their inductive invariants; the `TypeOK` of other modules documents
their state.

## 6. Where the code differs from what is said of it

Each with a run:

| run | the code | what is said |
|---|---|---|
| `zero_commitment` | `commit(bytes32(0))` is accepted and reads as no commitment: committing again strands the first stake | "Sum of every outstanding stake" (`Poll.sol:427`) |
| `stale_plan` | with two syncers, one mistakes the other's progress for a reorganisation and discards blocks, the other commits a range planned above them | "no state where the cursor has moved past events that were never persisted" (`db/schema.ts:233`) |
| `accused` | a poll whose creation is still within the confirmations is reported divergent: its options are not indexed, and pending ballots are only added to indexed ones | "A disagreement after reconciliation is a real fault." (`report.ts:167`) |

Observed while modelling, without a run. A property that one of these would break
is stated so that it excludes the case, or checked and proved on instances that
do, and its comment says which.

*Contract.* An execution's value is paid from the stakes, after which refunds
fail (`Poll.sol:1307`): `Custody` accounts for what was spent, `Solvent` says
that it was covered by forced ether. The quorum reads the total of selections, so two
selections of one ballot weigh as two voters, against `Poll.sol:1904`.
`closeRevealWindow` announces nothing; `CommitmentExpired` waits for a refund,
against `Poll.sol:1181`. `outcome` reverts when weights make `tally * MAX_BPS`
overflow, which also blocks every call that closes the poll; a reveal window or a
timelock near 2^256 overflows in `_closeVoting` and `queueExecution`. A poll started with
an empty whitelist has a frozen power of 0, which the comment in `_quorumMet`
holds impossible. The rules fingerprint covers labels and whitelist but not
weights, which may be set after voters looked.

*Indexer.* The first vote after a withdrawal is labelled `changed`, against
`indexer/sync.ts:124`; a change inside one batch is labelled `cast`. Of two
syncers, one looks up the prior voters of a range the other has stored already,
the other's rewind, from a head that is behind, deletes those rows and commits,
and the first then inserts its batch with the label `changed` for voters who never
voted before (`indexer/sync.ts:157`, `232`, `355`); of a reveal, the comment there
says that it must not be told as a change. The rows stay so, because a later
replay ignores what is stored. A rewind
below genesis cannot be stored in the unsigned cursor, and is retried until the
chain has grown. After a rewind an option whose label was updated is missing
until the update is fetched again. With two syncers the cursor can step back
below stored rows. A poll whose list of options shrank in Setup keeps a stale
trailing row, which `indexer/decode.ts:229` accepts knowingly; the check then
reports that poll divergent.

*Check.* Pending ballots count 1 each whatever their power, and a changed ballot
is added without the one it replaced being taken off, so both make a lagging
index look divergent. "The height is at least the cursor the index just
reported" (`report.ts:242`), but it comes from `getBlockNumber`, which an endpoint
that is behind answers with less: no block counts as pending then, the tally is
that of an older block, and a healthy index that is ahead of it is called
divergent. The same verdict comes of a reorganisation between the tally and the
logs, against "both pinned to that one height, so the chain
side is a single description of one instant" (`report.ts:244`): a height names no
block for good. `FirstBallotsReconcile` sets both aside by name
(`BehindTheCursor`, `TallyIsGone`). A query that fails inside the snapshot's transaction
releases its connection without a rollback (`report.ts:226`).

*Endpoints and server.* An endpoint that fails `getLogs` only is never left,
because each head it answers clears the count (`endpoints.ts:188`, against the
comment above it). A migration that failed at start is never tried again, and
every `ready()` records its failure once more, so health flickers between the
last index read and the old failure (`data.ts:105`). Stopping the loop clears no
timer.

*Notifications.* `POST /api/notifications` lists again and acknowledges what was
indexed after the page was drawn, or lay beyond the page's limit, against the
comment at `route.ts:86`; `NothingSwallowed` therefore speaks of events some
request has listed. When the head cannot be read but the row can be written, a
subscription starts at 0 and lists the poll's whole past.

*Page.* The vote button looks at neither sealing, delegation nor weight: in a
sealed, weighted or delegable poll it can be offered where `vote` reverts
(`PageFollowsPoll` is about public ballots, and sets weight and delegation aside). A refund is offered from the deadline on although
the poll must be closed first, and after a sweep, or when an execution has spent
the stakes. A sealed ballot can be withdrawn after the
deadline by the contract, not by the page. Changing a multi-select ballot to the
first option it already holds is refused by the page only. Starting is offered
for a poll in Voting, sweeping when nothing is staked. Nothing on the page
commits, reveals, delegates or closes a reveal window: the last is a way out that
`ExitsAreOffered` names and sets aside, for the refunds of a poll left in its
reveal window wait for a call nobody is offered. Each of the three panels
waits for its own writes only, and after a receipt its buttons follow the old
reads until the new ones are back (`PollBallot.tsx:53` says every control stays
disabled while any write is under way); all reads come from one block only where
multicall is deployed.

*Creation.* Clearing a restored form stores an all-blank draft, which the next
reload announces as restored. The fields stay editable while a transaction is
confirmed. A reload in that time brings the draft back, and the poll can be
created twice. Two tabs share one slot. A cap above the number of options "is not
a contract rule" (`templates.ts:37`), yet `initialize` refuses it
(`Poll.sol:723`). A poll whose reads fail is "reported rather than dropped"
(`data.ts:307`), yet the list is cached without it. With a time to live of 0
concurrent readers do not share a read, against `cache.ts:68`. The page knows
nothing of the factory's allowlist, so `OfferedIsAccepted` sets it aside.

*Deployment.* A release that fails before the switch is followed by the
workflow's rollback, which serves the release before the one that was healthy
(`.github/workflows/release.yml:382`). A script killed in the gate leaves
a slot running and ungated that the next failure may switch to; one killed
between switch and record, or whose switch back fails, leaves files that name
the other slot, and the rollback that `deploy.sh` then recommends restarts the slot
that serves; a failed reload leaves `upstream.conf` naming a slot that is
stopped next. The run has all of these. `harm` remembers them: a "late" one ends
what `TrafficIsGated` and `RollbackIsWarm` promise, one that sets files and traffic
"apart" suspends `FilesTellWhoServes` and `DriftIsVisible` until a script ends
well. After a rollback the
drift alert keeps firing, as intent is not published. An operator who runs a
script by hand is outside the workflows' lock and not modelled.

## 7. Not modelled, and the plan

- *Reentrancy.* A payment is one step. Splitting it at the call would examine
  the locks that `delegate`, `queueExecution` and `sweepUnclaimed` do without.
- *The rules fingerprint and labels* (`rulesHash`, `trust.ts`), and the
  ownership transfer of a poll.
- *A write's life on the page*: signing, receipt, invalidation, reads that come
  back torn or late. The parts are described in section 6.
- *Rows nothing is derived from*, option removals and upgrades of the schema.
- *Instances the runs do not reach*: weights that overflow, several polls behind
  one cursor, reveals of several voters, more than two syncers.
- *Deep reorganisations and endpoints that lie about settled blocks*, which the
  source itself declares outside what the indexer can notice
  (`indexer/endpoints.ts:30`).

Most lines of the repository hold nothing a state machine is about: the
generated ABI (2597 lines), the tables of messages in several languages (1471),
drills that drive a browser or a chain (`web/scripts/*-drill.ts`), labels,
formats, metrics, reports and the JSX around the guards above, and the
configuration of monitors. They are listed in `PROJECT.json` and stay out, and
the share of lines the models stand for is small for that reason.
