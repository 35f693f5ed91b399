-------------------------- MODULE IndexerProperties --------------------------
(***************************************************************************)
(* What the index promises about the chain.                                *)
(***************************************************************************)
EXTENDS Indexer

EntryType == [block : 1..MaxHeight, index : Nat, log : 
                [address : {Factory} \cup Polls, event : STRING,
                 subject : Polls \cup Voters \cup {None}, ids : SUBSET OptionIds]]

\* The variables have their types.
TypeOK ==
    /\ \A n \in DOMAIN chain : \A i \in DOMAIN chain[n] :
          [block |-> n, index |-> i, log |-> chain[n][i]] \in EntryType
    /\ settled \in 0..MaxHeight
    /\ reorgs \in 0..MaxReorgs
    /\ cursor \in 0..MaxHeight \cup {None}
    /\ polls \subseteq [address : Polls, block : 1..MaxHeight, index : Nat]
    /\ options \subseteq [poll : Polls, option : OptionIds,
                          block : 1..MaxHeight, index : Nat]
    /\ votes \subseteq [poll : Polls, voter : Voters, option : 0..NumOptions,
                        type : Counted \cup {"withdrawn", "committed", "expired"},
                        block : 1..MaxHeight, index : Nat]
    /\ sync \in [Syncers ->
            [pc : {"idle", "cursor", "rewind", "known", "fetch", "store"},
             head : 0..MaxHeight, from : 0..MaxHeight + 1, to : -1..MaxHeight,
             todo : SUBSET ({Factory} \cup Polls),
             asked : SUBSET ({Factory} \cup Polls),
             entries : SUBSET EntryType, prior : SUBSET (Polls \X Voters)]]
    /\ lags \in 0..MaxLags
    /\ failures \in 0..MaxFailures

-----------------------------------------------------------------------------
(***************************************************************************)
(* The chain's side of the comparison.                                     *)
(***************************************************************************)

\* The logs of the contracts in a range of blocks.
Entries(from, to) ==
    UNION {Fetched(address, from, to) : address \in {Factory} \cup Polls}

\* One row for each option a log is about, whatever its label.
HasRow(r) == \E stored \in votes : SameLog(r, stored) /\ r.option = stored.option

\* The selection of a voter after one more log: a ballot replaces the one
\* before it, a withdrawal clears it.
Replayed(p, v, selection, l) ==
    IF l.address # p \/ l.subject # v THEN selection
    ELSE CASE l.event = "VoteRecorded" -> l.ids
           [] l.event = "VoteWithdrawn" -> {}
           [] OTHER -> selection

\* Poll.votedFor after a history of logs.
Standing(p, v, logs) ==
    FoldLeft(LAMBDA selection, l : Replayed(p, v, selection, l), {}, logs)

LogsUpTo(n) == FlattenSeq(SubSeq(chain, 1, n))

\* The view current_votes: the options of the voter's last rows.
CurrentVotes(p, v) ==
    LET own == {r \in votes : r.poll = p /\ r.voter = v}
    IN  {r.option : r \in {x \in own : x.type \in Counted
                                       /\ \A y \in own : ~Later(y, x)}}

-----------------------------------------------------------------------------
(***************************************************************************)
(* Safety.                                                                 *)
(***************************************************************************)

\* There is no state where the cursor has moved past events that were never
\* stored, whatever fails, is retried or is discarded in between by a syncer
\* that nobody races.
NothingSkipped ==
    cursor # None =>
        /\ PollRows(Entries(StartBlock, cursor)) \subseteq polls
        /\ \A r \in VoteRows(Entries(StartBlock, cursor)) : HasRow(r)

\* Whatever races, nothing that a reorganisation could take back is stored,
\* and the cursor is no further than that.
OnlySettledLogs ==
    /\ cursor # None => cursor <= settled
    /\ polls \subseteq PollRows(Entries(0, settled))
    /\ options \subseteq OptionRows(Entries(0, settled))
    /\ \A stored \in votes : \E r \in VoteRows(Entries(0, settled)) :
          SameLog(r, stored) /\ r.option = stored.option

\* The tally and the cursor of one snapshot, beside a syncer that nobody races,
\* describe the same block: the view of each voter's current selection is the
\* one the poll held there.
SnapshotAgrees ==
    cursor # None =>
        \A p \in Polls, v \in Voters :
            CurrentVotes(p, v) = Standing(p, v, LogsUpTo(cursor))

\* Opening a sealed ballot is reported as a change of vote for one reason
\* only: the batch that stores it looked up the voter while an earlier copy of
\* that same ballot was stored, and a rewind of another syncer has taken the
\* copy away before the insert.  Whatever else the syncers store, fetch or
\* fail at meanwhile, the reveal is cast.
RevealsAreCast ==
    [][\A r \in votes' \ votes : r.poll \in SealedPolls /\ r.type = "changed" =>
          \E s \in Syncers :
              /\ At(s, "store") /\ sync'[s] = Idle
              /\ <<r.poll, r.voter>> \in sync[s].prior \ VotersOf(votes)
      ]_vars

\* The selection a voter is shown with is a ballot of that voter, never a part
\* of one or a mixture of two, whichever syncer stored it and however often.
SelectionsAreWhole ==
    \A p \in Polls, v \in Voters :
        \/ CurrentVotes(p, v) = {}
        \/ \E n \in DOMAIN chain : \E i \in DOMAIN chain[n] :
              chain[n][i] = Log(p, "VoteRecorded", v, CurrentVotes(p, v))

\* An option carries the label of its last update up to the cursor, or of a
\* later one.  A rewind breaks this until the update is fetched again.
LabelsAreNotStale ==
    cursor # None =>
        \A u \in OptionRows(Entries(StartBlock, cursor)) : \E r \in options :
            SameOption(r, u) /\ ~Later(u, r)

\* The chain and the votes table of a lone syncer, as a reader of the index
\* sees them.
SettledFacts ==
    [n \in 1..settled |->
        {p \in Polls : \E i \in DOMAIN chain[n] :
            chain[n][i].address = p /\ chain[n][i].event \in DOMAIN VoteType}]

StoredEvents == {[block |-> r.block, poll |-> r.poll] : r \in votes}

LastStored == IF cursor = None THEN 0 ELSE cursor

Ledger == INSTANCE IndexLedger WITH
    MaxBlock <- MaxHeight, facts <- SettledFacts,
    cursor <- LastStored, indexed <- StoredEvents

\* Whatever fails, lags or is reorganised, a lone syncer shows its readers
\* settled blocks only, each in whole, and never the same block twice with
\* other events.
ImplementsLedger == Ledger!LedgerSpec

-----------------------------------------------------------------------------
(***************************************************************************)
(* Liveness.                                                               *)
(***************************************************************************)

\* Once the chain stands still a syncer that nobody races brings the index to
\* its last safe block, with every poll, every ballot and the last label of
\* every option there.
CatchesUp ==
    <>[](/\ LastIndexed >= SafeHead(ChainHead)
         /\ NothingSkipped
         /\ LabelsAreNotStale)
=============================================================================
