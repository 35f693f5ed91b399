------------------------------- MODULE Indexer -------------------------------
(***************************************************************************)
(* The indexer: it replays the logs of the factory and of its polls into   *)
(* tables, behind a cursor.  The background loop and the route that        *)
(* indexes on demand are both a syncer; nothing locks one out while the    *)
(* other works.  Every step below is one await of syncOnce: a call to the  *)
(* chain, a query, or a transaction of the database.  A transaction that   *)
(* stores a batch is two: it looks up who has voted by a plain SELECT,     *)
(* which locks nothing, and its writes, which lock what they meet, take    *)
(* effect as one on the tables of a later moment.                          *)
(*                                                                         *)
(* Blocks that are planned are settled already, so it makes no difference  *)
(* how the calls for several addresses interleave with new blocks.         *)
(***************************************************************************)
EXTENDS EventChain

CONSTANTS
    Syncers,
    Loop,           \* the syncer that never stops
    Confirmations,
    ChunkBlocks,
    StartBlock,     \* 0 when it is not configured
    MaxLag,         \* how far behind an endpoint may answer
    MaxLags,        \* bound: answers that are behind
    MaxFailures     \* bound: failed or crashed iterations

ASSUME IndexerAssumption ==
    /\ Loop \in Syncers
    /\ Confirmations \in Nat /\ FinalityDepth <= Confirmations
    /\ ChunkBlocks \in Nat \ {0}
    /\ StartBlock \in Nat
    /\ MaxLag \in Nat /\ MaxLags \in Nat /\ MaxFailures \in Nat
    /\ None \notin Int

VARIABLES
    cursor,     \* sync_cursor.last_block, None when there is no row
    polls,      \* rows [address, block, index]
    options,    \* rows [poll, option, block, index]: whose label the row has
    votes,      \* rows [poll, voter, option, type, block, index]
    sync,       \* where each syncer is in its iteration, and what it has read
    lags,
    failures

tableVars == <<cursor, polls, options, votes>>
indexVars == <<cursor, polls, options, votes, sync, lags, failures>>
vars == <<chain, settled, reorgs, cursor, polls, options, votes, sync, lags,
          failures>>

Idle == [pc |-> "idle", head |-> 0, from |-> 0, to |-> 0,
         todo |-> {}, asked |-> {}, entries |-> {}, prior |-> {}]

-----------------------------------------------------------------------------
(***************************************************************************)
(* What to do next.                                                        *)
(***************************************************************************)

SafeHead(head) == head - Confirmations

LastIndexed == IF cursor = None THEN StartBlock - 1 ELSE cursor

\* Mutant: the head itself counts as safe.
PlannedToTheHead(head, last) ==
    LET to == last + ChunkBlocks
    IN  [from |-> last + 1, to |-> IF to < head THEN to ELSE head]

\* Mutant: the safe head is left out of the range.
PlannedBelowSafeHead(head, last) ==
    LET to == last + ChunkBlocks
    IN  [from |-> last + 1,
         to |-> IF to < SafeHead(head) THEN to ELSE SafeHead(head) - 1]

\* The range to fetch after block last, empty when there is none.
Planned(head, last) ==
    LET to == last + ChunkBlocks
    IN  [from |-> last + 1,
         to |-> IF to < SafeHead(head) THEN to ELSE SafeHead(head)]

RewindTo(head) == IF SafeHead(head) > 0 THEN SafeHead(head) ELSE -1

-----------------------------------------------------------------------------
(***************************************************************************)
(* Logs and the rows they become.                                          *)
(***************************************************************************)

Fetched(address, from, to) ==
    {e \in UNION {{[block |-> n, index |-> i, log |-> chain[n][i]] :
                       i \in DOMAIN chain[n]} : n \in (from..to) \cap (1..ChainHead)} :
        e.log.address = address}

PollRows(entries) ==
    {[address |-> e.log.subject, block |-> e.block, index |-> e.index] :
        e \in {x \in entries : x.log.event = "PollCreated"}}

OptionRows(entries) ==
    UNION {{[poll |-> e.log.address, option |-> o,
             block |-> e.block, index |-> e.index] : o \in e.log.ids} :
        e \in {x \in entries : x.log.event \in {"OptionAdded", "OptionUpdated"}}}

VoteType == [VoteRecorded |-> "cast", VoteWithdrawn |-> "withdrawn",
             Committed |-> "committed", CommitmentExpired |-> "expired"]

\* One row for each option of a ballot; option 0 in the rows of other events.
VoteRows(entries) ==
    UNION {{[poll |-> e.log.address, voter |-> e.log.subject, option |-> o,
             type |-> VoteType[e.log.event],
             block |-> e.block, index |-> e.index] :
                o \in IF e.log.event = "VoteRecorded" THEN e.log.ids ELSE {0}} :
        e \in {x \in entries : x.log.event \in DOMAIN VoteType}}

Later(r, s) == r.block > s.block \/ (r.block = s.block /\ r.index > s.index)

Counted == {"cast", "changed"}

\* Mutant: whatever is not a withdrawal is a vote.
VotersUnlessWithdrawn(rows) ==
    {<<r.poll, r.voter>> : r \in {x \in rows : x.type # "withdrawn"}}

\* Whose votes there are among rows of the table or of a batch.
VotersOf(rows) == {<<r.poll, r.voter>> : r \in {x \in rows : x.type \in Counted}}

\* Who votes in the batch of a syncer and has a vote in the table already.
VotersAlreadyRecorded(s) == VotersOf(VoteRows(sync[s].entries)) \cap VotersOf(votes)

\* "cast" becomes "changed" for a voter who had a vote in the table.
Labelled(rows, prior) ==
    {[r EXCEPT !.type = IF r.type = "cast" /\ <<r.poll, r.voter>> \in prior
                        THEN "changed" ELSE r.type] : r \in rows}

\* INSERT IGNORE under the unique keys of polls and of votes.
InsertPolls(rows) ==
    polls \cup {r \in rows : \A old \in polls : old.address # r.address}

SameLog(r, s) == r.block = s.block /\ r.index = s.index

\* Mutant: the unique key of a vote is its log alone.
InsertVotesByLog(rows) ==
    votes \cup {r \in rows : \A old \in votes \cup rows :
                    ~(SameLog(r, old) /\ (old \in votes \/ old.option < r.option))}

InsertVotes(rows) ==
    votes \cup {r \in rows : \A old \in votes :
                    ~(SameLog(r, old) /\ r.option = old.option)}

\* ON DUPLICATE KEY UPDATE: the last row of the batch replaces what is stored.
SameOption(r, s) == r.poll = s.poll /\ r.option = s.option

UpsertOptions(rows) ==
    {r \in rows : \A s \in rows : SameOption(r, s) => ~Later(s, r)}
        \cup {old \in options : \A r \in rows : ~SameOption(old, r)}

UpTo(block, rows) == {r \in rows : r.block <= block}

\* Mutant: a new poll is first asked in the next pass.
DiscoveredNextPass(s) == {}

\* The polls a batch announces and was not asked for.
Discovered(s) ==
    {r.address : r \in PollRows(sync[s].entries)} \ sync[s].asked

-----------------------------------------------------------------------------
Init ==
    /\ ChainInit
    /\ cursor = None
    /\ polls = {} /\ options = {} /\ votes = {}
    /\ sync = [s \in Syncers |-> Idle]
    /\ lags = 0 /\ failures = 0

At(s, pc) == sync[s].pc = pc

\* getBlockNumber, answered by an endpoint that may be some blocks behind.
ReadHead(s, lag) ==
    /\ At(s, "idle")
    /\ lag <= ChainHead
    /\ lag > 0 => lags < MaxLags
    /\ lags' = lags + (IF lag > 0 THEN 1 ELSE 0)
    /\ sync' = [sync EXCEPT ![s].pc = "cursor", ![s].head = ChainHead - lag]
    /\ UNCHANGED <<tableVars, failures>>

\* readCursor and the plans: the three that follow.
PlanReorgRewind(s) ==
    /\ At(s, "cursor")
    /\ LastIndexed > sync[s].head
    /\ sync' = [sync EXCEPT ![s] =
                    [Idle EXCEPT !.pc = "rewind", !.to = RewindTo(sync[s].head)]]
    /\ UNCHANGED <<tableVars, lags, failures>>

PlanNextRange(s) ==
    LET range == Planned(sync[s].head, LastIndexed)
    IN  /\ At(s, "cursor")
        /\ LastIndexed <= sync[s].head
        /\ range.from <= range.to
        /\ sync' = [sync EXCEPT ![s] = [Idle EXCEPT !.pc = "known",
                        !.from = range.from, !.to = range.to]]
        /\ UNCHANGED <<tableVars, lags, failures>>

CaughtUp(s) ==
    LET range == Planned(sync[s].head, LastIndexed)
    IN  /\ At(s, "cursor")
        /\ LastIndexed <= sync[s].head
        /\ range.from > range.to
        /\ sync' = [sync EXCEPT ![s] = Idle]
        /\ UNCHANGED <<tableVars, lags, failures>>

\* Mutant: the votes above the new cursor stay.
DiscardAllButVotes(s) ==
    /\ At(s, "rewind")
    /\ sync[s].to >= 0
    /\ polls' = UpTo(sync[s].to, polls)
    /\ options' = UpTo(sync[s].to, options)
    /\ cursor' = sync[s].to
    /\ sync' = [sync EXCEPT ![s] = Idle]
    /\ UNCHANGED <<votes, lags, failures>>

\* One transaction.
DiscardAbove(s) ==
    /\ At(s, "rewind")
    /\ sync[s].to >= 0
    /\ polls' = UpTo(sync[s].to, polls)
    /\ options' = UpTo(sync[s].to, options)
    /\ votes' = UpTo(sync[s].to, votes)
    /\ cursor' = sync[s].to
    /\ sync' = [sync EXCEPT ![s] = Idle]
    /\ UNCHANGED <<lags, failures>>

\* The column is unsigned: -1 is out of range, and the transaction rolls back.
DiscardRejected(s) ==
    /\ At(s, "rewind")
    /\ sync[s].to < 0
    /\ sync' = [sync EXCEPT ![s] = Idle]
    /\ UNCHANGED <<tableVars, lags, failures>>

ReadKnownPolls(s) ==
    /\ At(s, "known")
    /\ LET known == {Factory} \cup {r.address : r \in polls}
       IN  sync' = [sync EXCEPT ![s].pc = "fetch",
                                ![s].todo = known, ![s].asked = known]
    /\ UNCHANGED <<tableVars, lags, failures>>

GetLogs(s, address) ==
    /\ At(s, "fetch")
    /\ address \in sync[s].todo
    /\ sync' = [sync EXCEPT ![s].todo = @ \ {address},
                            ![s].entries = @ \cup
                                Fetched(address, sync[s].from, sync[s].to)]
    /\ UNCHANGED <<tableVars, lags, failures>>

\* The polls of this range are asked for their logs in the same range.
DiscoverPolls(s) ==
    /\ At(s, "fetch")
    /\ sync[s].todo = {} /\ Discovered(s) # {}
    /\ sync' = [sync EXCEPT ![s].todo = Discovered(s),
                            ![s].asked = @ \cup Discovered(s)]
    /\ UNCHANGED <<tableVars, lags, failures>>

\* The SELECT that opens the transaction.
ReadPriorVoters(s) ==
    /\ At(s, "fetch")
    /\ sync[s].todo = {} /\ Discovered(s) = {}
    /\ sync' = [sync EXCEPT ![s].pc = "store", ![s].prior = VotersAlreadyRecorded(s)]
    /\ UNCHANGED <<tableVars, lags, failures>>

\* The INSERTs, the cursor and the commit.
PersistBatch(s) ==
    /\ At(s, "store")
    /\ polls' = InsertPolls(PollRows(sync[s].entries))
    /\ options' = UpsertOptions(OptionRows(sync[s].entries))
    /\ votes' = InsertVotes(Labelled(VoteRows(sync[s].entries), sync[s].prior))
    /\ cursor' = sync[s].to
    /\ sync' = [sync EXCEPT ![s] = Idle]
    /\ UNCHANGED <<lags, failures>>

\* A call throws, or the process dies: an open transaction is rolled back.
Fail(s) ==
    /\ ~At(s, "idle")
    /\ failures < MaxFailures
    /\ failures' = failures + 1
    /\ sync' = [sync EXCEPT ![s] = Idle]
    /\ UNCHANGED <<tableVars, lags>>

SyncStep(s) ==
    \/ \E lag \in 0..MaxLag : ReadHead(s, lag)
    \/ PlanReorgRewind(s)
    \/ PlanNextRange(s)
    \/ CaughtUp(s)
    \/ DiscardAbove(s)
    \/ DiscardRejected(s)
    \/ ReadKnownPolls(s)
    \/ \E address \in {Factory} \cup Polls : GetLogs(s, address)
    \/ DiscoverPolls(s)
    \/ ReadPriorVoters(s)
    \/ PersistBatch(s)

Next ==
    \/ ChainNext /\ UNCHANGED indexVars
    \/ \E s \in Syncers : (SyncStep(s) \/ Fail(s)) /\ UNCHANGED chainVars

Spec == Init /\ [][Next]_vars

\* The loop goes on as long as its process runs, and the chain grows again
\* after a reorganisation.
FairSpec ==
    /\ Spec
    /\ WF_vars(SyncStep(Loop) /\ UNCHANGED chainVars)
    /\ WF_vars(Mine(<<>>) /\ UNCHANGED indexVars)
=============================================================================
