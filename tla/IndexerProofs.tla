---------------------------- MODULE IndexerProofs ----------------------------
(***************************************************************************)
(* Whatever the chain, the delays of the endpoints and the failures: only  *)
(* settled logs are stored and ballots are shown whole, however many       *)
(* syncers race, and a reveal is newly labelled a change only in a batch   *)
(* whose look-up a rewind has overtaken; and the loop alone mislabels no   *)
(* reveal, skips nothing, agrees with the chain at the cursor, and         *)
(* implements the ledger.                                                  *)
(***************************************************************************)
EXTENDS ChainProofs

\* A block of the chain; what its logs are plays no part in the argument.
Blocks == {Mined(txs) : txs \in Menu}

SyncFields == {"pc", "head", "from", "to", "todo", "asked", "entries", "prior"}

\* Blocks that are not settled are at most FinalityDepth.
ChainInv ==
    /\ chain \in Seq(Blocks)
    /\ settled \in Nat
    /\ settled <= Len(chain)
    /\ Len(chain) <= settled + FinalityDepth

\* What a syncer remembers between two awaits is about settled blocks only,
\* even when the chain and the cursor have moved on since.
SyncerInv(s) ==
    /\ DOMAIN sync[s] = SyncFields
    /\ sync[s].head \in Int /\ sync[s].from \in Int /\ sync[s].to \in Int
    /\ SafeHead(sync[s].head) <= settled
    /\ sync[s].to <= settled
    /\ sync[s].entries \subseteq Entries(0, settled)

SyncInv ==
    /\ DOMAIN sync = Syncers
    /\ \A s \in Syncers : SyncerInv(s)

CursorInv == cursor \in Int \cup {None}

SettledInv == ChainInv /\ SyncInv /\ CursorInv /\ OnlySettledLogs

\* The logs up to a settled block stay: what a step of the chain may do.
Grows ==
    /\ settled <= settled'
    /\ \A n \in 1..settled : n \in 1..Len(chain') /\ chain'[n] = chain[n]

-----------------------------------------------------------------------------
(***************************************************************************)
(* Ranges of logs and the rows they become.                                *)
(***************************************************************************)

\* A syncer's eth_getLogs below the settled block returns settled logs.
LEMMA FetchedAreSettled ==
    ASSUME ChainInv, NEW address \in {Factory} \cup Polls,
           NEW from \in Int, NEW to \in Int, to <= settled
    PROVE  Fetched(address, from, to) \subseteq Entries(0, settled)
<1>1. (from..to) \cap (1..ChainHead) \subseteq (0..settled) \cap (1..ChainHead)
    BY DEF ChainInv, ChainHead
<1>2. Fetched(address, from, to) \subseteq Fetched(address, 0, settled)
    BY <1>1 DEF Fetched
<1> QED
    BY <1>2 DEF Entries

\* Neither a new block nor a reorganisation takes a settled log away.
LEMMA SettledLogsStay ==
    ASSUME ChainInv, Grows, settled' \in Nat
    PROVE  Entries(0, settled) \subseteq Entries(0, settled)'
<1> SUFFICES ASSUME NEW address \in {Factory} \cup Polls,
                    NEW e \in Fetched(address, 0, settled)
             PROVE  e \in Fetched(address, 0, settled)'
    BY DEF Entries
<1>1. PICK n \in (0..settled) \cap (1..ChainHead) :
          e \in {[block |-> n, index |-> i, log |-> chain[n][i]] :
                     i \in DOMAIN chain[n]}
    BY DEF Fetched
<1>2. /\ n \in (0..settled') \cap (1..ChainHead')
      /\ chain'[n] = chain[n]
    BY DEF Grows, ChainInv, ChainHead
<1>3. e.log.address = address
    BY DEF Fetched
<1> QED
    BY <1>1, <1>2, <1>3 DEF Fetched

\* A row of the index comes from a log of the range, so more logs, more rows.
LEMMA RowsOfMoreLogs ==
    ASSUME NEW few, NEW many, few \subseteq many
    PROVE  /\ PollRows(few) \subseteq PollRows(many)
           /\ OptionRows(few) \subseteq OptionRows(many)
           /\ VoteRows(few) \subseteq VoteRows(many)
<1>1. PollRows(few) \subseteq PollRows(many)
    BY DEF PollRows
<1>2. OptionRows(few) \subseteq OptionRows(many)
    BY DEF OptionRows
<1>3. VoteRows(few) \subseteq VoteRows(many)
    BY DEF VoteRows
<1> QED
    BY <1>1, <1>2, <1>3

-----------------------------------------------------------------------------
(***************************************************************************)
(* The chain.                                                              *)
(***************************************************************************)

\* A block the network adds.
LEMMA MineStep ==
    ASSUME ChainInv, NEW txs \in Menu, Mine(txs)
    PROVE  ChainInv' /\ Grows
<1> USE ChainAssumption
<1> DEFINE block == Mined(txs)
<1>1. block \in Blocks
    BY DEF Blocks
<1>2. chain' = Append(chain, block) /\ chain \in Seq(Blocks)
    BY DEF Mine, ChainInv
<1> HIDE DEF block
<1>3. /\ chain' \in Seq(Blocks)
      /\ Len(chain') = Len(chain) + 1
      /\ \A n \in 1..Len(chain) : chain'[n] = chain[n]
    BY <1>1, <1>2
<1>4. /\ settled' \in Nat /\ settled <= settled'
      /\ settled' <= Len(chain) + 1
      /\ Len(chain) + 1 <= settled' + FinalityDepth
    BY DEF Mine, ChainInv, ChainHead
<1> QED
    BY <1>3, <1>4 DEF ChainInv, Grows

\* A reorganisation forks above what is settled.
LEMMA ReorgStep ==
    ASSUME ChainInv, NEW fork \in 0..MaxHeight, Reorg(fork)
    PROVE  ChainInv' /\ Grows
<1> USE ChainAssumption
<1>1. /\ settled' = settled /\ chain' = SubSeq(chain, 1, fork)
      /\ settled <= fork /\ fork < Len(chain) /\ fork \in Nat
      /\ chain \in Seq(Blocks)
    BY DEF Reorg, ChainInv, ChainHead
<1>2. /\ chain' \in Seq(Blocks)
      /\ Len(chain') = fork
      /\ \A n \in 1..fork : chain'[n] = chain[n]
    BY <1>1
<1> QED
    BY <1>1, <1>2 DEF ChainInv, Grows

\* What is settled stays settled, in the tables and in the syncers' hands.
LEMMA ChainStep ==
    ASSUME SettledInv, ChainInv', Grows, UNCHANGED indexVars
    PROVE  SettledInv'
<1>1. settled <= settled' /\ settled \in Nat /\ settled' \in Nat
    BY DEF SettledInv, ChainInv, Grows
<1>2. Entries(0, settled) \subseteq Entries(0, settled)'
    BY <1>1, SettledLogsStay DEF SettledInv
<1>3. SyncInv'
  <2>1. ASSUME NEW s \in Syncers
        PROVE  SyncerInv(s)'
    <3>1. SyncerInv(s)
        BY DEF SettledInv, SyncInv
    <3>2. sync' = sync
        BY DEF indexVars
    <3>3. SafeHead(sync[s].head) \in Int /\ SafeHead(sync[s].head) <= settled'
        BY <1>1, <3>1, IndexerAssumption DEF SyncerInv, SafeHead
    <3> QED
        BY <1>1, <1>2, <3>1, <3>2, <3>3 DEF SyncerInv, SafeHead
  <2> QED
    BY <2>1 DEF SettledInv, SyncInv, indexVars
<1>4. OnlySettledLogs'
  <2>1. /\ PollRows(Entries(0, settled)) \subseteq PollRows(Entries(0, settled))'
        /\ OptionRows(Entries(0, settled)) \subseteq OptionRows(Entries(0, settled))'
        /\ VoteRows(Entries(0, settled)) \subseteq VoteRows(Entries(0, settled))'
    BY <1>2, RowsOfMoreLogs
  <2>2. UNCHANGED <<cursor, polls, options, votes>>
    BY DEF indexVars
  <2>3. cursor # None => cursor \in Int /\ cursor <= settled
    BY DEF SettledInv, CursorInv, OnlySettledLogs
  <2> QED
    BY <1>1, <2>1, <2>2, <2>3 DEF SettledInv, OnlySettledLogs, SameLog
<1> QED
    BY <1>3, <1>4 DEF SettledInv, CursorInv, indexVars

-----------------------------------------------------------------------------
(***************************************************************************)
(* A syncer.                                                               *)
(***************************************************************************)

\* What the other syncers hold is not disturbed by a step of s.
LEMMA OneSyncerMoves ==
    ASSUME SettledInv, UNCHANGED chainVars, NEW s \in Syncers, NEW next,
           sync' = [sync EXCEPT ![s] = next], SyncerInv(s)'
    PROVE  ChainInv' /\ SyncInv'
<1>1. ChainInv'
    BY DEF SettledInv, ChainInv, chainVars
<1>2. Entries(0, settled)' = Entries(0, settled)
    BY DEF Entries, Fetched, ChainHead, chainVars
<1>3. ASSUME NEW other \in Syncers, other # s
      PROVE  SyncerInv(other)'
    BY <1>2, <1>3 DEF SettledInv, SyncInv, SyncerInv, SafeHead, chainVars
<1>4. DOMAIN sync' = Syncers
    BY DEF SettledInv, SyncInv
<1> QED
    BY <1>1, <1>3, <1>4 DEF SyncInv

\* A step that stores nothing.
LEMMA NothingStored ==
    ASSUME SettledInv, UNCHANGED chainVars, UNCHANGED tableVars
    PROVE  CursorInv' /\ OnlySettledLogs'
<1>1. Entries(0, settled)' = Entries(0, settled)
    BY DEF Entries, Fetched, ChainHead, chainVars
<1>2. /\ PollRows(Entries(0, settled))' = PollRows(Entries(0, settled))
      /\ OptionRows(Entries(0, settled))' = OptionRows(Entries(0, settled))
      /\ VoteRows(Entries(0, settled))' = VoteRows(Entries(0, settled))
    BY <1>1 DEF PollRows, OptionRows, VoteRows
<1> QED
    BY <1>2 DEF SettledInv, CursorInv, OnlySettledLogs, SameLog, tableVars,
                chainVars

\* An iteration that ends, however it does, leaves nothing behind.
LEMMA IdleHoldsNothing ==
    ASSUME SettledInv, UNCHANGED chainVars, NEW s \in Syncers,
           sync' = [sync EXCEPT ![s] = Idle]
    PROVE  SyncerInv(s)'
<1>1. sync'[s] = Idle
    BY DEF SettledInv, SyncInv
<1>2. settled' = settled /\ settled \in Nat
    BY DEF SettledInv, ChainInv, chainVars
<1> QED
    BY <1>1, <1>2, IndexerAssumption
    DEF SyncerInv, Idle, SyncFields, SafeHead

\* The height an endpoint answers is never above the head.
LEMMA ReadHeadStep ==
    ASSUME SettledInv, UNCHANGED chainVars, NEW s \in Syncers,
           NEW lag \in 0..MaxLag, ReadHead(s, lag)
    PROVE  SettledInv'
<1> DEFINE next == [[sync[s] EXCEPT !.pc = "cursor"] EXCEPT !.head = ChainHead - lag]
<1>1. sync' = [sync EXCEPT ![s] = next]
    BY DEF ReadHead, SettledInv, SyncInv
<1>2. SyncerInv(s)'
  <2>1. SyncerInv(s) /\ sync'[s] = next
    BY <1>1 DEF SettledInv, SyncInv
  <2>2. /\ ChainHead - lag \in Int
        /\ SafeHead(ChainHead - lag) <= settled
    BY IndexerAssumption, ChainAssumption
    DEF SettledInv, ChainInv, ChainHead, SafeHead
  <2>3. Entries(0, settled)' = Entries(0, settled) /\ settled' = settled
    BY DEF Entries, Fetched, ChainHead, chainVars
  <2>4. /\ DOMAIN next = SyncFields
        /\ next.head = ChainHead - lag
        /\ next.from = sync[s].from /\ next.to = sync[s].to
        /\ next.entries = sync[s].entries
    BY <2>1 DEF SyncerInv, SyncFields
  <2> QED
    BY <2>1, <2>2, <2>3, <2>4 DEF SyncerInv, SafeHead
<1>3. UNCHANGED tableVars
    BY DEF ReadHead
<1> QED
    BY <1>1, <1>2, <1>3, OneSyncerMoves, NothingStored DEF SettledInv

\* A rewind is planned to a safe block of the head the syncer read.
LEMMA PlanReorgRewindStep ==
    ASSUME SettledInv, UNCHANGED chainVars, NEW s \in Syncers,
           PlanReorgRewind(s)
    PROVE  SettledInv'
<1> DEFINE target == RewindTo(sync[s].head)
           next == [Idle EXCEPT !.pc = "rewind", !.to = target]
<1>1. sync' = [sync EXCEPT ![s] = next]
    BY DEF PlanReorgRewind
<1>2. SyncerInv(s)'
  <2>1. SyncerInv(s) /\ sync'[s] = next
    BY <1>1 DEF SettledInv, SyncInv
  <2>2. settled' = settled /\ settled \in Nat
    BY DEF SettledInv, ChainInv, chainVars
  <2>3. target \in Int /\ target <= settled
    BY <2>1, <2>2, IndexerAssumption DEF SyncerInv, RewindTo, SafeHead
  <2> HIDE DEF target
  <2> QED
    BY <2>1, <2>2, <2>3, IndexerAssumption
    DEF SyncerInv, Idle, SyncFields, SafeHead
<1>3. UNCHANGED tableVars
    BY DEF PlanReorgRewind
<1> QED
    BY <1>1, <1>2, <1>3, OneSyncerMoves, NothingStored DEF SettledInv

\* The range ends at a safe block of the head the syncer read.
LEMMA PlanNextRangeStep ==
    ASSUME SettledInv, UNCHANGED chainVars, NEW s \in Syncers,
           PlanNextRange(s)
    PROVE  SettledInv'
<1> DEFINE range == Planned(sync[s].head, LastIndexed)
           next == [Idle EXCEPT !.pc = "known", !.from = range.from,
                                !.to = range.to]
<1>1. sync' = [sync EXCEPT ![s] = next]
    BY DEF PlanNextRange
<1>2. SyncerInv(s)'
  <2>1. SyncerInv(s) /\ sync'[s] = next
    BY <1>1 DEF SettledInv, SyncInv
  <2>2. settled' = settled /\ settled \in Nat
    BY DEF SettledInv, ChainInv, chainVars
  <2>3. LastIndexed \in Int
    BY IndexerAssumption DEF SettledInv, CursorInv, LastIndexed
  <2>4. range.from \in Int /\ range.to \in Int /\ range.to <= settled
    BY <2>1, <2>2, <2>3, IndexerAssumption DEF SyncerInv, Planned, SafeHead
  <2> HIDE DEF range
  <2> QED
    BY <2>1, <2>2, <2>4, IndexerAssumption
    DEF SyncerInv, Idle, SyncFields, SafeHead
<1>3. UNCHANGED tableVars
    BY DEF PlanNextRange
<1> QED
    BY <1>1, <1>2, <1>3, OneSyncerMoves, NothingStored DEF SettledInv

\* An iteration that finds nothing to do, is refused by the database, or
\* fails, stores nothing.
LEMMA GivingUpStep ==
    ASSUME SettledInv, UNCHANGED chainVars, NEW s \in Syncers,
           CaughtUp(s) \/ DiscardRejected(s) \/ Fail(s)
    PROVE  SettledInv'
<1>1. sync' = [sync EXCEPT ![s] = Idle] /\ UNCHANGED tableVars
    BY DEF CaughtUp, DiscardRejected, Fail
<1> QED
    BY <1>1, IdleHoldsNothing, OneSyncerMoves, NothingStored DEF SettledInv

\* Discarding rows keeps what is left settled, and the cursor goes to a
\* settled block.
LEMMA DiscardAboveStep ==
    ASSUME SettledInv, UNCHANGED chainVars, NEW s \in Syncers, DiscardAbove(s)
    PROVE  SettledInv'
<1>1. sync' = [sync EXCEPT ![s] = Idle]
    BY DEF DiscardAbove
<1>2. SyncerInv(s) /\ settled' = settled
    BY DEF SettledInv, SyncInv, chainVars
<1>3. CursorInv'
    BY <1>2 DEF DiscardAbove, CursorInv, SyncerInv
<1>4. OnlySettledLogs'
  <2>1. Entries(0, settled)' = Entries(0, settled)
    BY DEF Entries, Fetched, ChainHead, chainVars
  <2>2. /\ polls' \subseteq polls /\ options' \subseteq options
        /\ votes' \subseteq votes
    BY DEF DiscardAbove, UpTo
  <2>3. cursor' <= settled
    BY <1>2 DEF DiscardAbove, SyncerInv
  <2> QED
    BY <1>2, <2>1, <2>2, <2>3
    DEF SettledInv, OnlySettledLogs, PollRows, OptionRows, VoteRows, SameLog
<1> QED
    BY <1>1, <1>3, <1>4, IdleHoldsNothing, OneSyncerMoves DEF SettledInv

\* The addresses to ask may come from rows another syncer wrote meanwhile.
LEMMA AskStep ==
    ASSUME SettledInv, UNCHANGED chainVars, NEW s \in Syncers,
           ReadKnownPolls(s) \/ DiscoverPolls(s)
    PROVE  SettledInv'
<1>1. PICK pc, todo, asked :
          sync' = [sync EXCEPT ![s] = [[[sync[s] EXCEPT !.pc = pc]
                                         EXCEPT !.todo = todo]
                                         EXCEPT !.asked = asked]]
  <2>1. CASE ReadKnownPolls(s)
    <3> DEFINE known == {Factory} \cup {r.address : r \in polls}
    <3>1. sync' = [sync EXCEPT ![s] = [[[sync[s] EXCEPT !.pc = "fetch"]
                                         EXCEPT !.todo = known]
                                         EXCEPT !.asked = known]]
        BY <2>1 DEF ReadKnownPolls, SettledInv, SyncInv
    <3> QED
        BY <3>1
  <2>2. CASE DiscoverPolls(s)
    <3> DEFINE more == sync[s].asked \cup Discovered(s)
    <3>1. SyncerInv(s)
        BY DEF SettledInv, SyncInv
    <3>2. [[[sync[s] EXCEPT !.pc = sync[s].pc] EXCEPT !.todo = Discovered(s)]
              EXCEPT !.asked = more]
            = [sync[s] EXCEPT !.todo = Discovered(s), !.asked = more]
        OBVIOUS
    <3>3. sync' = [sync EXCEPT ![s] = [[sync[s] EXCEPT !.todo = Discovered(s)]
                                         EXCEPT !.asked = more]]
        BY <2>2 DEF DiscoverPolls, SettledInv, SyncInv
    <3> QED
        BY <3>2, <3>3
  <2> QED
    BY <2>1, <2>2
<1> DEFINE next == [[[sync[s] EXCEPT !.pc = pc] EXCEPT !.todo = todo]
                        EXCEPT !.asked = asked]
<1>2. SyncerInv(s)'
  <2>1. SyncerInv(s) /\ sync'[s] = next
    BY <1>1 DEF SettledInv, SyncInv
  <2>2. Entries(0, settled)' = Entries(0, settled) /\ settled' = settled
    BY DEF Entries, Fetched, ChainHead, chainVars
  <2>3. /\ DOMAIN next = SyncFields
        /\ next.head = sync[s].head
        /\ next.from = sync[s].from /\ next.to = sync[s].to
        /\ next.entries = sync[s].entries
    BY <2>1 DEF SyncerInv, SyncFields
  <2> QED
    BY <2>1, <2>2, <2>3 DEF SyncerInv, SafeHead
<1>3. UNCHANGED tableVars
    BY DEF ReadKnownPolls, DiscoverPolls
<1> QED
    BY <1>1, <1>2, <1>3, OneSyncerMoves, NothingStored DEF SettledInv

\* The look-up that opens a transaction adds to what is remembered only.
LEMMA LookUpStep ==
    ASSUME SettledInv, UNCHANGED chainVars, NEW s \in Syncers, ReadPriorVoters(s)
    PROVE  SettledInv'
<1> DEFINE next == [[sync[s] EXCEPT !.pc = "store"]
                        EXCEPT !.prior = VotersAlreadyRecorded(s)]
<1>1. sync' = [sync EXCEPT ![s] = next]
    BY DEF ReadPriorVoters, SettledInv, SyncInv
<1>2. SyncerInv(s)'
  <2>1. SyncerInv(s) /\ sync'[s] = next
    BY <1>1 DEF SettledInv, SyncInv
  <2>2. Entries(0, settled)' = Entries(0, settled) /\ settled' = settled
    BY DEF Entries, Fetched, ChainHead, chainVars
  <2>3. /\ DOMAIN next = SyncFields
        /\ next.head = sync[s].head
        /\ next.from = sync[s].from /\ next.to = sync[s].to
        /\ next.entries = sync[s].entries
    BY <2>1 DEF SyncerInv, SyncFields
  <2> QED
    BY <2>1, <2>2, <2>3 DEF SyncerInv, SafeHead
<1>3. UNCHANGED tableVars
    BY DEF ReadPriorVoters
<1> QED
    BY <1>1, <1>2, <1>3, OneSyncerMoves, NothingStored DEF SettledInv

\* The chain is asked for a range that was planned earlier: it is settled
\* still.
LEMMA GetLogsStep ==
    ASSUME SettledInv, UNCHANGED chainVars, NEW s \in Syncers,
           NEW address \in {Factory} \cup Polls, GetLogs(s, address)
    PROVE  SettledInv'
<1> DEFINE logs == Fetched(address, sync[s].from, sync[s].to)
           next == [[sync[s] EXCEPT !.todo = sync[s].todo \ {address}]
                        EXCEPT !.entries = sync[s].entries \cup logs]
<1>1. SyncerInv(s)
    BY DEF SettledInv, SyncInv
<1>2. sync' = [sync EXCEPT ![s] = next]
    BY <1>1 DEF GetLogs, SettledInv, SyncInv, SyncerInv, SyncFields
<1>3. SyncerInv(s)'
  <2>1. sync'[s] = next
    BY <1>2 DEF SettledInv, SyncInv
  <2>2. Entries(0, settled)' = Entries(0, settled) /\ settled' = settled
    BY DEF Entries, Fetched, ChainHead, chainVars
  <2>3. logs \subseteq Entries(0, settled)
    BY <1>1, FetchedAreSettled DEF SettledInv, SyncerInv
  <2> HIDE DEF logs
  <2>4. /\ DOMAIN next = SyncFields
        /\ next.head = sync[s].head
        /\ next.from = sync[s].from /\ next.to = sync[s].to
        /\ next.entries = sync[s].entries \cup logs
    BY <1>1 DEF SyncerInv, SyncFields
  <2> QED
    BY <1>1, <2>1, <2>2, <2>3, <2>4 DEF SyncerInv, SafeHead
<1>4. UNCHANGED tableVars
    BY DEF GetLogs
<1> QED
    BY <1>2, <1>3, <1>4, OneSyncerMoves, NothingStored DEF SettledInv

\* Relabelling a vote leaves its place in the chain and its option alone.
LEMMA LabelledKeepsPlace ==
    ASSUME NEW entries, NEW prior, NEW stored \in Labelled(VoteRows(entries), prior)
    PROVE  \E r \in VoteRows(entries) :
              SameLog(r, stored) /\ r.option = stored.option
<1>1. PICK r \in VoteRows(entries) :
          stored = [r EXCEPT !.type =
                      IF r.type = "cast" /\ <<r.poll, r.voter>> \in prior
                      THEN "changed" ELSE r.type]
    BY DEF Labelled
<1>2. /\ stored.block = r.block /\ stored.index = r.index
      /\ stored.option = r.option
    BY <1>1 DEF VoteRows
<1> QED
    BY <1>2 DEF SameLog

\* A batch holds settled logs only, so its rows do as well.
LEMMA PersistBatchStep ==
    ASSUME SettledInv, UNCHANGED chainVars, NEW s \in Syncers, PersistBatch(s)
    PROVE  SettledInv'
<1> DEFINE batch == sync[s].entries
           prior == sync[s].prior
           place(rows, row) == \E r \in rows :
                                  SameLog(r, row) /\ r.option = row.option
<1>1. sync' = [sync EXCEPT ![s] = Idle]
    BY DEF PersistBatch
<1>2. SyncerInv(s) /\ settled' = settled
    BY DEF SettledInv, SyncInv, chainVars
<1>3. CursorInv'
    BY <1>2 DEF PersistBatch, CursorInv, SyncerInv
<1>4. OnlySettledLogs'
  <2>1. Entries(0, settled)' = Entries(0, settled)
    BY DEF Entries, Fetched, ChainHead, chainVars
  <2>2. /\ PollRows(Entries(0, settled))' = PollRows(Entries(0, settled))
        /\ OptionRows(Entries(0, settled))' = OptionRows(Entries(0, settled))
        /\ VoteRows(Entries(0, settled))' = VoteRows(Entries(0, settled))
    BY <2>1 DEF PollRows, OptionRows, VoteRows
  <2>3. /\ PollRows(batch) \subseteq PollRows(Entries(0, settled))
        /\ OptionRows(batch) \subseteq OptionRows(Entries(0, settled))
        /\ VoteRows(batch) \subseteq VoteRows(Entries(0, settled))
    BY <1>2, RowsOfMoreLogs DEF SyncerInv
  <2>4. cursor' <= settled
    BY <1>2 DEF PersistBatch, SyncerInv
  <2>5. polls' \subseteq PollRows(Entries(0, settled))
    BY <2>3 DEF PersistBatch, InsertPolls, SettledInv, OnlySettledLogs
  <2>6. options' \subseteq OptionRows(Entries(0, settled))
    BY <2>3 DEF PersistBatch, UpsertOptions, SettledInv, OnlySettledLogs
  <2>7. ASSUME NEW stored \in votes'
        PROVE  place(VoteRows(Entries(0, settled)), stored)
    <3>1. CASE stored \in votes
        BY <3>1 DEF SettledInv, OnlySettledLogs
    <3>2. CASE stored \notin votes
      <4>1. stored \in Labelled(VoteRows(batch), prior)
        BY <3>2 DEF PersistBatch, InsertVotes
      <4>2. place(VoteRows(batch), stored)
        BY <4>1, LabelledKeepsPlace
      <4> QED
        BY <4>2, <2>3
    <3> QED
        BY <3>1, <3>2
  <2> QED
    BY <1>2, <2>2, <2>4, <2>5, <2>6, <2>7 DEF OnlySettledLogs, SameLog
<1> QED
    BY <1>1, <1>3, <1>4, IdleHoldsNothing, OneSyncerMoves DEF SettledInv

-----------------------------------------------------------------------------
\* Nothing is stored and nothing is mined yet.
LEMMA SettledInit == Init => SettledInv
<1> SUFFICES ASSUME Init PROVE SettledInv
    OBVIOUS
<1> USE DEF Init, ChainInit
<1>1. ChainInv
    BY ChainAssumption DEF ChainInv
<1>2. ASSUME NEW s \in Syncers PROVE SyncerInv(s)
  <2>1. sync[s] = Idle
    OBVIOUS
  <2> QED
    BY <2>1, IndexerAssumption DEF SyncerInv, Idle, SyncFields, SafeHead
<1>3. SyncInv
    BY <1>2 DEF SyncInv
<1>4. CursorInv /\ OnlySettledLogs
    BY DEF CursorInv, OnlySettledLogs
<1> QED
    BY <1>1, <1>3, <1>4 DEF SettledInv

\* Every step of the chain and of every syncer keeps SettledInv.
LEMMA SettledNext == SettledInv /\ [Next]_vars => SettledInv'
<1> SUFFICES ASSUME SettledInv, [Next]_vars PROVE SettledInv'
    OBVIOUS
<1>1. ASSUME NEW txs \in Menu, Mine(txs), UNCHANGED indexVars
      PROVE  SettledInv'
    BY <1>1, MineStep, ChainStep DEF SettledInv
<1>2. ASSUME NEW fork \in 0..MaxHeight, Reorg(fork), UNCHANGED indexVars
      PROVE  SettledInv'
    BY <1>2, ReorgStep, ChainStep DEF SettledInv
<1>3. ASSUME NEW s \in Syncers, SyncStep(s) \/ Fail(s), UNCHANGED chainVars
      PROVE  SettledInv'
    BY <1>3, ReadHeadStep, PlanReorgRewindStep, PlanNextRangeStep,
       GivingUpStep, DiscardAboveStep, AskStep, GetLogsStep, LookUpStep,
       PersistBatchStep
    DEF SyncStep
<1>4. CASE UNCHANGED vars
  <2>1. UNCHANGED chainVars /\ UNCHANGED tableVars /\ UNCHANGED indexVars
    BY <1>4 DEF vars, chainVars, tableVars, indexVars
  <2>2. ChainInv' /\ Grows
    BY <2>1 DEF SettledInv, ChainInv, Grows, chainVars
  <2> QED
    BY <2>1, <2>2, ChainStep
<1> QED
    BY <1>1, <1>2, <1>3, <1>4 DEF Next, ChainNext

\* Whatever races, nothing that a reorganisation could take back is ever
\* stored: for every number of syncers, every chain, every delay and failure.
THEOREM StoredIsSettled == Spec => []OnlySettledLogs
<1>1. SettledInv => OnlySettledLogs
    BY DEF SettledInv
<1> QED
    BY <1>1, SettledInit, SettledNext, PTL DEF Spec

-----------------------------------------------------------------------------
(***************************************************************************)
(* Votes, whoever stores them: the rows of a log are stored together, and  *)
(* with the fields of that log.                                            *)
(***************************************************************************)

\* A row as the log alone tells it.
Unlabelled(r) == [r EXCEPT !.type = IF @ = "changed" THEN "cast" ELSE @]

Stored == {Unlabelled(r) : r \in votes}

\* The options a log has a row for.
Rowed(l) == IF l.event = "VoteRecorded" THEN l.ids ELSE {0}

RowOf(e, o) ==
    [poll |-> e.log.address, voter |-> e.log.subject, option |-> o,
     type |-> VoteType[e.log.event], block |-> e.block, index |-> e.index]

WholeVotes ==
    /\ Stored \subseteq VoteRows(Entries(0, settled))
    /\ \A e \in Entries(0, settled), r \in votes : SameLog(e, r) =>
          \A o \in Rowed(e.log) : \E other \in votes :
              SameLog(other, r) /\ other.option = o

VotesInv == SettledInv /\ ChainHistory /\ WholeVotes

\* The rows of a set of entries, one by one.
LEMMA VoteRowsAre ==
    ASSUME NEW entries
    PROVE  /\ \A r \in VoteRows(entries) : \E e \in entries :
                /\ e.log.event \in DOMAIN VoteType
                /\ \E o \in Rowed(e.log) : r = RowOf(e, o)
           /\ \A e \in entries : e.log.event \in DOMAIN VoteType =>
                \A o \in Rowed(e.log) : RowOf(e, o) \in VoteRows(entries)
    BY DEF VoteRows, Rowed, RowOf

\* Whatever the label a row was given, the log's own is found again.
LEMMA LabelIsUndone ==
    ASSUME NEW entries, NEW prior, NEW r \in Labelled(VoteRows(entries), prior)
    PROVE  /\ Unlabelled(r) \in VoteRows(entries)
           /\ r.type = "changed" => <<r.poll, r.voter>> \in prior
<1>1. PICK row \in VoteRows(entries) :
          r = [row EXCEPT !.type =
                  IF row.type = "cast" /\ <<row.poll, row.voter>> \in prior
                  THEN "changed" ELSE row.type]
    BY DEF Labelled
<1>2. PICK e \in entries : /\ e.log.event \in DOMAIN VoteType
                           /\ \E o \in Rowed(e.log) : row = RowOf(e, o)
    BY VoteRowsAre
<1>3. PICK o \in Rowed(e.log) : row = RowOf(e, o)
    BY <1>2
<1>4. VoteType[e.log.event] # "changed"
    BY <1>2 DEF VoteType
<1>5. /\ row.type = VoteType[e.log.event]
      /\ DOMAIN row = {"poll", "voter", "option", "type", "block", "index"}
    BY <1>3 DEF RowOf
<1>6. r.type = "changed" => <<row.poll, row.voter>> \in prior
    BY <1>1, <1>3, <1>4, <1>5 DEF RowOf
<1>7. r.poll = row.poll /\ r.voter = row.voter
    BY <1>1, <1>3 DEF RowOf
<1>8. Unlabelled(r) = row
  <2>1. CASE r.type = "changed"
    <3>1. row.type = "cast" /\ r = [row EXCEPT !.type = "changed"]
        BY <1>1, <1>3, <1>4, <1>5, <2>1 DEF RowOf
    <3> QED
        BY <1>3, <1>5, <3>1 DEF Unlabelled, RowOf
  <2>2. CASE r.type # "changed"
    <3>1. r = [row EXCEPT !.type = row.type]
        BY <1>1, <1>3, <2>2 DEF RowOf
    <3> QED
        BY <1>3, <1>4, <1>5, <3>1 DEF Unlabelled, RowOf
  <2> QED
    BY <2>1, <2>2
<1> QED
    BY <1>6, <1>7, <1>8

\* The same, for a row of the table: its fields but for the label.
LEMMA RowIsOfLog ==
    ASSUME NEW entries, NEW r, Unlabelled(r) \in VoteRows(entries)
    PROVE  \E e \in entries :
              /\ e.log.event \in DOMAIN VoteType /\ SameLog(e, r)
              /\ r.option \in Rowed(e.log)
              /\ r.poll = e.log.address /\ r.voter = e.log.subject
              /\ r.type \in Counted <=> e.log.event = "VoteRecorded"
              /\ Unlabelled(r) = RowOf(e, r.option)
<1>1. PICK e \in entries : /\ e.log.event \in DOMAIN VoteType
                           /\ \E o \in Rowed(e.log) : Unlabelled(r) = RowOf(e, o)
    BY VoteRowsAre
<1>2. PICK o \in Rowed(e.log) : Unlabelled(r) = RowOf(e, o)
    BY <1>1
<1> DOMAIN r = {"poll", "voter", "option", "type", "block", "index"}
  <2>1. DOMAIN Unlabelled(r) = DOMAIN r
    BY DEF Unlabelled
  <2> QED
    BY <1>2, <2>1 DEF RowOf
<1>3. /\ r.poll = Unlabelled(r).poll /\ r.voter = Unlabelled(r).voter
      /\ r.option = Unlabelled(r).option /\ r.block = Unlabelled(r).block
      /\ r.index = Unlabelled(r).index
      /\ Unlabelled(r).type = IF r.type = "changed" THEN "cast" ELSE r.type
    BY DEF Unlabelled
<1>4. /\ r.poll = e.log.address /\ r.voter = e.log.subject /\ r.option = o
      /\ r.block = e.block /\ r.index = e.index
      /\ (IF r.type = "changed" THEN "cast" ELSE r.type) = VoteType[e.log.event]
    BY <1>2, <1>3 DEF RowOf
<1>5. r.type \in Counted <=> e.log.event = "VoteRecorded"
  <2>1. VoteType[e.log.event] = "cast" <=> e.log.event = "VoteRecorded"
    BY <1>1 DEF VoteType
  <2> QED
    BY <1>4, <2>1 DEF Counted
<1> QED
    BY <1>1, <1>2, <1>4, <1>5 DEF SameLog

\* A step that stores no vote, and leaves the chain alone.
LEMMA NoVoteStored ==
    ASSUME VotesInv, UNCHANGED chainVars, UNCHANGED votes
    PROVE  ChainHistory' /\ WholeVotes'
<1>1. Entries(0, settled)' = Entries(0, settled)
    BY DEF Entries, Fetched, ChainHead, chainVars
<1>2. VoteRows(Entries(0, settled))' = VoteRows(Entries(0, settled))
    BY <1>1 DEF VoteRows
<1>3. chain' = chain
    BY DEF chainVars
<1>4. ChainHistory'
    BY <1>3 DEF VotesInv, ChainHistory, LogsUpTo, History, Announced,
                CreatedOnce, RevealedLast, BallotStands
<1> QED
    BY <1>1, <1>2, <1>4
    DEF VotesInv, WholeVotes, Stored, SameLog

\* Rows go with all the rows of their block.
LEMMA DiscardAboveKeepsVotes ==
    ASSUME VotesInv, UNCHANGED chainVars, NEW s \in Syncers, DiscardAbove(s)
    PROVE  WholeVotes'
<1>1. Entries(0, settled)' = Entries(0, settled)
    BY DEF Entries, Fetched, ChainHead, chainVars
<1>2. VoteRows(Entries(0, settled))' = VoteRows(Entries(0, settled))
    BY <1>1 DEF VoteRows
<1>3. votes' = {r \in votes : r.block <= sync[s].to}
    BY DEF DiscardAbove, UpTo
<1>5. Stored' \subseteq VoteRows(Entries(0, settled))
    BY <1>2, <1>3 DEF VotesInv, WholeVotes, Stored
<1>6. ASSUME NEW e \in Entries(0, settled), NEW r \in votes', SameLog(e, r),
             NEW o \in Rowed(e.log)
      PROVE  \E other \in votes' : SameLog(other, r) /\ other.option = o
  <2>1. r \in votes /\ r.block <= sync[s].to
    BY <1>3
  <2>2. PICK other \in votes : SameLog(other, r) /\ other.option = o
    BY <1>6, <2>1 DEF VotesInv, WholeVotes
  <2>3. other.block = r.block
    BY <2>2 DEF SameLog
  <2> QED
    BY <1>3, <2>1, <2>2, <2>3
<1> QED
    BY <1>1, <1>2, <1>5, <1>6 DEF WholeVotes, SameLog

\* The rows of a batch of settled logs, as the table takes them.
LEMMA InsertedVotes ==
    ASSUME NEW batch, NEW prior,
           NEW r \in InsertVotes(Labelled(VoteRows(batch), prior)), r \notin votes
    PROVE  /\ Unlabelled(r) \in VoteRows(batch)
           /\ r.type = "changed" => <<r.poll, r.voter>> \in prior
           /\ \A old \in votes : ~(SameLog(r, old) /\ r.option = old.option)
<1>1. /\ r \in Labelled(VoteRows(batch), prior)
      /\ \A old \in votes : ~(SameLog(r, old) /\ r.option = old.option)
    BY DEF InsertVotes
<1> QED
    BY <1>1, LabelIsUndone

\* After the insertion every log of the batch has all its rows.
LEMMA BatchIsStored ==
    ASSUME NEW batch, NEW prior, NEW e \in batch, e.log.event \in DOMAIN VoteType,
           NEW o \in Rowed(e.log)
    PROVE  \E r \in InsertVotes(Labelled(VoteRows(batch), prior)) :
              SameLog(r, e) /\ r.option = o
<1> DEFINE row == RowOf(e, o)
           type == IF row.type = "cast" /\ <<row.poll, row.voter>> \in prior
                   THEN "changed" ELSE row.type
           r == [row EXCEPT !.type = type]
<1>1. row \in VoteRows(batch)
    BY VoteRowsAre
<1>2. r \in Labelled(VoteRows(batch), prior)
    BY <1>1 DEF Labelled
<1>3. SameLog(r, e) /\ r.option = o /\ r.block = e.block /\ r.index = e.index
    BY DEF RowOf, SameLog
<1> HIDE DEF r
<1>4. CASE \E old \in votes : SameLog(r, old) /\ r.option = old.option
    BY <1>3, <1>4 DEF InsertVotes, SameLog
<1>5. CASE \A old \in votes : ~(SameLog(r, old) /\ r.option = old.option)
    BY <1>2, <1>3, <1>5 DEF InsertVotes
<1> QED
    BY <1>4, <1>5

\* A step that is what RevealsAreCast allows.
ChangesAreRewound ==
    \A r \in votes' \ votes : r.poll \in SealedPolls /\ r.type = "changed" =>
        \E s \in Syncers :
            /\ At(s, "store") /\ sync'[s] = Idle
            /\ <<r.poll, r.voter>> \in sync[s].prior \ VotersOf(votes)

\* A batch that overlaps what another syncer has stored adds whole ballots
\* only, and a reveal that was not stored is nobody's second ballot.
LEMMA PersistBatchKeepsVotes ==
    ASSUME VotesInv, UNCHANGED chainVars, NEW s \in Syncers, PersistBatch(s)
    PROVE  WholeVotes' /\ ChangesAreRewound
<1> DEFINE batch == sync[s].entries
           prior == sync[s].prior
           all == Entries(0, settled)
<1>1. Entries(0, settled)' = all
    BY DEF Entries, Fetched, ChainHead, chainVars
<1>2. VoteRows(Entries(0, settled))' = VoteRows(all)
    BY <1>1 DEF VoteRows
<1>3. batch \subseteq all
    BY DEF VotesInv, SettledInv, SyncInv, SyncerInv
<1>4. ChainHistory /\ settled \in 0..Len(chain)
    BY DEF VotesInv, SettledInv, ChainInv
<1>5. /\ Stored \subseteq VoteRows(all)
      /\ \A e \in all, r \in votes : SameLog(e, r) =>
            \A o \in Rowed(e.log) : \E other \in votes :
                SameLog(other, r) /\ other.option = o
    BY DEF VotesInv, WholeVotes
<1>6. /\ votes' = InsertVotes(Labelled(VoteRows(batch), prior))
      /\ votes \subseteq votes'
    BY DEF PersistBatch, InsertVotes
<1>7. \A d \in all, e \in all :
          /\ SameLog(d, e) <=> d = e
          /\ Later(d, e) \/ Later(e, d) \/ SameLog(d, e)
    BY <1>4, EntriesInOrder
<1> HIDE DEF batch, prior, all
<1>8. ASSUME NEW r \in votes', r \notin votes
      PROVE  /\ Unlabelled(r) \in VoteRows(batch)
             /\ r.type = "changed" => <<r.poll, r.voter>> \in prior
             /\ \A old \in votes : ~(SameLog(r, old) /\ r.option = old.option)
             /\ \E e \in batch :
                  /\ e.log.event \in DOMAIN VoteType /\ SameLog(e, r)
                  /\ r.option \in Rowed(e.log)
                  /\ r.poll = e.log.address /\ r.voter = e.log.subject
                  /\ r.type \in Counted <=> e.log.event = "VoteRecorded"
  <2>1. /\ Unlabelled(r) \in VoteRows(batch)
        /\ r.type = "changed" => <<r.poll, r.voter>> \in prior
        /\ \A old \in votes : ~(SameLog(r, old) /\ r.option = old.option)
    BY <1>6, <1>8, InsertedVotes
  <2> QED
    BY <2>1, RowIsOfLog
<1>9. Stored' \subseteq VoteRows(all)
  <2> SUFFICES ASSUME NEW r \in votes'
               PROVE  Unlabelled(r) \in VoteRows(all)
    BY DEF Stored
  <2>1. CASE r \in votes
    BY <1>5, <2>1 DEF Stored
  <2>2. CASE r \notin votes
    BY <1>3, <1>8, <2>2, RowsOfMoreLogs
  <2> QED
    BY <2>1, <2>2
<1>10. ASSUME NEW e \in all, NEW r \in votes', SameLog(e, r), NEW o \in Rowed(e.log)
       PROVE  \E other \in votes' : SameLog(other, r) /\ other.option = o
  <2>1. CASE r \in votes
    BY <1>5, <1>6, <1>10, <2>1
  <2>2. CASE r \notin votes
    <3>1. PICK d \in batch : d.log.event \in DOMAIN VoteType /\ SameLog(d, r)
        BY <1>8, <2>2
    <3>2. d = e
        BY <1>3, <1>7, <1>10, <3>1 DEF SameLog
    <3>3. e \in batch /\ e.log.event \in DOMAIN VoteType
        BY <3>1, <3>2
    <3>4. \E other \in InsertVotes(Labelled(VoteRows(batch), prior)) :
              SameLog(other, e) /\ other.option = o
        BY <1>10, <3>3, BatchIsStored
    <3>5. \E other \in votes' : SameLog(other, e) /\ other.option = o
        BY <1>6, <3>4
    <3> QED
        BY <1>10, <3>5 DEF SameLog
  <2> QED
    BY <2>1, <2>2
<1>11. ASSUME NEW r \in votes' \ votes, r.poll \in SealedPolls, r.type = "changed",
              <<r.poll, r.voter>> \in VotersOf(votes)
       PROVE  FALSE
  <2>1. r \notin votes
    BY <1>11
  <2>2. PICK e \in batch :
            /\ e.log.event \in DOMAIN VoteType /\ SameLog(e, r)
            /\ r.option \in Rowed(e.log)
            /\ r.poll = e.log.address /\ r.voter = e.log.subject
            /\ r.type \in Counted <=> e.log.event = "VoteRecorded"
    BY <1>8, <2>1
  <2>3. PICK old \in votes :
            old.poll = r.poll /\ old.voter = r.voter /\ old.type \in Counted
    BY <1>11 DEF VotersOf
  <2>4. PICK d \in all :
            /\ SameLog(d, old)
            /\ old.poll = d.log.address /\ old.voter = d.log.subject
            /\ d.log.event = "VoteRecorded"
    <3>1. Unlabelled(old) \in VoteRows(all)
        BY <1>5 DEF Stored
    <3> QED
        BY <2>3, <3>1, RowIsOfLog
  <2>5. /\ e \in all /\ e.log.event = "VoteRecorded"
        /\ e.log.address \in SealedPolls /\ d.log.address = e.log.address
        /\ d.log.subject = e.log.subject
    BY <1>3, <1>11, <2>2, <2>3, <2>4 DEF Counted
  <2>6. ~Later(e, d) /\ ~Later(d, e)
    BY <1>4, <2>4, <2>5, RevealsComeLast DEF About, all
  <2>7. d = e
    BY <1>7, <2>4, <2>5, <2>6
  <2>8. PICK other \in votes : SameLog(other, old) /\ other.option = r.option
    BY <1>5, <2>2, <2>4, <2>5, <2>7
  <2>9. SameLog(r, other)
    BY <2>2, <2>4, <2>7, <2>8 DEF SameLog
  <2> QED
    BY <1>8, <2>1, <2>8, <2>9
<1>12. ChangesAreRewound
  <2> SUFFICES ASSUME NEW r \in votes' \ votes, r.poll \in SealedPolls,
                      r.type = "changed"
               PROVE  \E t \in Syncers :
                          /\ At(t, "store") /\ sync'[t] = Idle
                          /\ <<r.poll, r.voter>> \in sync[t].prior \ VotersOf(votes)
    BY DEF ChangesAreRewound
  <2>1. <<r.poll, r.voter>> \in sync[s].prior
    BY <1>8 DEF prior
  <2>2. <<r.poll, r.voter>> \notin VotersOf(votes)
    BY <1>11
  <2>3. At(s, "store") /\ sync'[s] = Idle
    BY DEF PersistBatch, VotesInv, SettledInv, SyncInv
  <2> QED
    BY <2>1, <2>2, <2>3
<1> QED
    BY <1>1, <1>2, <1>9, <1>10, <1>12 DEF WholeVotes, SameLog

\* More settled logs, none of them below those of the rows.
LEMMA ChainKeepsVotes ==
    ASSUME VotesInv, ChainHistory', ChainInv', Grows, UNCHANGED indexVars
    PROVE  WholeVotes'
<1> DEFINE all == Entries(0, settled)
           more == Entries(0, settled)'
<1>1. all \subseteq more
    BY SettledLogsStay DEF VotesInv, SettledInv, ChainInv
<1>2. VoteRows(all) \subseteq VoteRows(more)
    BY <1>1, RowsOfMoreLogs
<1>3. VoteRows(Entries(0, settled))' = VoteRows(more)
    BY DEF VoteRows
<1>4. votes' = votes /\ Stored' = Stored
    BY DEF indexVars, Stored
<1>5. \A d \in more, e \in more : d.block = e.block /\ d.index = e.index => d = e
    BY DEF Entries, Fetched
<1> HIDE DEF all, more
<1>6. /\ Stored \subseteq VoteRows(all)
      /\ \A e \in all, r \in votes : SameLog(e, r) =>
            \A o \in Rowed(e.log) : \E other \in votes :
                SameLog(other, r) /\ other.option = o
    BY DEF VotesInv, WholeVotes, all
<1>7. ASSUME NEW e \in more, NEW r \in votes, SameLog(e, r), NEW o \in Rowed(e.log)
      PROVE  \E other \in votes : SameLog(other, r) /\ other.option = o
  <2>1. Unlabelled(r) \in VoteRows(all)
    BY <1>6 DEF Stored
  <2>2. PICK d \in all : SameLog(d, r)
    BY <2>1, RowIsOfLog
  <2>3. d = e
    BY <1>1, <1>5, <1>7, <2>2 DEF SameLog
  <2> QED
    BY <1>6, <1>7, <2>2, <2>3
<1> QED
    BY <1>2, <1>3, <1>4, <1>6, <1>7 DEF WholeVotes, SameLog, more

LEMMA VotesInit == Init => VotesInv
<1> SUFFICES ASSUME Init PROVE VotesInv
    OBVIOUS
<1>1. SettledInv /\ ChainHistory
    BY SettledInit, HistoryInit DEF Init
<1>2. votes = {}
    BY DEF Init
<1> QED
    BY <1>1, <1>2 DEF VotesInv, WholeVotes, Stored

\* Every step of the chain and of every syncer keeps VotesInv.
LEMMA VotesNext == VotesInv /\ [Next]_vars => VotesInv'
<1> SUFFICES ASSUME VotesInv, [Next]_vars PROVE VotesInv'
    OBVIOUS
<1>1. SettledInv'
    BY SettledNext DEF VotesInv
<1>2. ASSUME NEW txs \in Menu, Mine(txs), UNCHANGED indexVars
      PROVE  VotesInv'
    BY <1>1, <1>2, MineStep, HistoryMine, ChainKeepsVotes DEF VotesInv, SettledInv
<1>3. ASSUME NEW fork \in 0..MaxHeight, Reorg(fork), UNCHANGED indexVars
      PROVE  VotesInv'
    BY <1>1, <1>3, ReorgStep, HistoryReorg, ChainKeepsVotes DEF VotesInv, SettledInv
<1>4. ASSUME NEW s \in Syncers, SyncStep(s) \/ Fail(s), UNCHANGED chainVars
      PROVE  VotesInv'
  <2>1. CASE DiscardAbove(s)
    <3>1. ChainHistory'
        BY <1>4 DEF VotesInv, chainVars, ChainHistory, LogsUpTo, History,
                    Announced, CreatedOnce, RevealedLast, BallotStands
    <3> QED
        BY <1>1, <1>4, <2>1, <3>1, DiscardAboveKeepsVotes DEF VotesInv
  <2>2. CASE PersistBatch(s)
    <3>1. ChainHistory'
        BY <1>4 DEF VotesInv, chainVars, ChainHistory, LogsUpTo, History,
                    Announced, CreatedOnce, RevealedLast, BallotStands
    <3> QED
        BY <1>1, <1>4, <2>2, <3>1, PersistBatchKeepsVotes DEF VotesInv
  <2>3. CASE UNCHANGED votes
    BY <1>1, <1>4, <2>3, NoVoteStored DEF VotesInv
  <2> QED
    BY <1>4, <2>1, <2>2, <2>3
    DEF SyncStep, Fail, ReadHead, PlanReorgRewind, PlanNextRange, CaughtUp,
        DiscardRejected, ReadKnownPolls, GetLogs, DiscoverPolls, ReadPriorVoters,
        tableVars
<1>5. CASE UNCHANGED vars
    BY <1>1, <1>5, NoVoteStored DEF VotesInv, vars, chainVars
<1> QED
    BY <1>2, <1>3, <1>4, <1>5 DEF Next, ChainNext

\* Only the storing of a batch adds a vote.
LEMMA OnlyBatchesStore ==
    ASSUME VotesInv, [Next]_vars
    PROVE  ChangesAreRewound
<1>1. CASE \E s \in Syncers : PersistBatch(s) /\ UNCHANGED chainVars
    BY <1>1, PersistBatchKeepsVotes
<1>2. CASE votes' \subseteq votes
    BY <1>2 DEF ChangesAreRewound
<1>3. ASSUME NEW s \in Syncers, DiscardAbove(s)
      PROVE  votes' \subseteq votes
    BY <1>3 DEF DiscardAbove, UpTo
<1>4. ASSUME NEW s \in Syncers, SyncStep(s) \/ Fail(s), ~PersistBatch(s),
             ~DiscardAbove(s)
      PROVE  votes' = votes
    BY <1>4 DEF SyncStep, Fail, ReadHead, PlanReorgRewind, PlanNextRange, CaughtUp,
        DiscardRejected, ReadKnownPolls, GetLogs, DiscoverPolls, ReadPriorVoters,
        tableVars
<1>5. UNCHANGED indexVars \/ UNCHANGED vars => votes' = votes
    BY DEF indexVars, vars
<1> QED
    BY <1>1, <1>2, <1>3, <1>4, <1>5 DEF Next

\* However many syncers store a reveal, in batches that overlap or not, it is
\* labelled a change only after a rewind has taken its own earlier copy away
\* between a batch's look-up of prior voters and its insert.
THEOREM OnlyRewoundRevealsAreChanges == Spec => RevealsAreCast
<1>1. VotesInv /\ [Next]_vars => ChangesAreRewound
    BY OnlyBatchesStore
<1>2. ChangesAreRewound =>
          [\A r \in votes' \ votes : r.poll \in SealedPolls /\ r.type = "changed" =>
              \E s \in Syncers :
                  /\ At(s, "store") /\ sync'[s] = Idle
                  /\ <<r.poll, r.voter>> \in sync[s].prior \ VotersOf(votes)]_vars
    BY DEF ChangesAreRewound
<1> QED
    BY <1>1, <1>2, VotesInit, VotesNext, PTL DEF Spec, RevealsAreCast

\* No reveal in the table is labelled a change.
RevealsAllCast ==
    \A r \in votes : r.poll \in SealedPolls => r.type # "changed"

\* Whom a lone syncer has looked up has a vote in the table still.
LookUpStands(s) == At(s, "store") => sync[s].prior \subseteq VotersOf(votes)

LabelInv ==
    /\ VotesInv /\ RevealsAllCast
    /\ \A s \in Syncers : LookUpStands(s)

\* Every step of the chain and of the only syncer keeps LabelInv.
LEMMA LabelNext ==
    ASSUME Syncers = {Loop}, LabelInv, [Next]_vars
    PROVE  LabelInv'
<1>1. VotesInv'
    BY VotesNext DEF LabelInv
<1>2. RevealsAllCast'
  <2> SUFFICES ASSUME NEW r \in votes', r.poll \in SealedPolls, r.type = "changed"
               PROVE  FALSE
    BY DEF RevealsAllCast
  <2>1. r \in votes' \ votes
    BY DEF LabelInv, RevealsAllCast
  <2>2. ChangesAreRewound
    BY OnlyBatchesStore DEF LabelInv
  <2> QED
    BY <2>1, <2>2 DEF ChangesAreRewound, LabelInv, LookUpStands
<1>3. ASSUME NEW s \in Syncers
      PROVE  LookUpStands(s)'
  <2>1. DOMAIN sync = Syncers /\ DOMAIN sync[s] = SyncFields /\ Syncers = {s}
    BY DEF LabelInv, VotesInv, SettledInv, SyncInv, SyncerInv
  <2>2. CASE UNCHANGED indexVars \/ UNCHANGED vars
    <3>1. sync' = sync /\ votes' = votes
        BY <2>2 DEF indexVars, vars
    <3> QED
        BY <3>1 DEF LabelInv, LookUpStands, At, VotersOf
  <2>3. CASE ReadPriorVoters(s)
    <3>1. sync'[s].prior = VotersAlreadyRecorded(s) /\ votes' = votes
        BY <2>1, <2>3 DEF ReadPriorVoters, SyncFields, tableVars
    <3> QED
        BY <3>1 DEF LookUpStands, VotersAlreadyRecorded, VotersOf
  <2>4. CASE (SyncStep(s) \/ Fail(s)) /\ ~ReadPriorVoters(s)
    <3>1. CASE CaughtUp(s) \/ DiscardAbove(s) \/ DiscardRejected(s)
               \/ PersistBatch(s) \/ Fail(s)
      <4>1. sync'[s] = Idle
        BY <2>1, <3>1 DEF CaughtUp, DiscardAbove, DiscardRejected, PersistBatch, Fail
      <4> QED
        BY <4>1 DEF LookUpStands, At, Idle
    <3>2. CASE PlanReorgRewind(s) \/ PlanNextRange(s)
        BY <2>1, <3>2 DEF PlanReorgRewind, PlanNextRange, Idle, LookUpStands, At
    <3>3. CASE (\E lag \in 0..MaxLag : ReadHead(s, lag)) \/ ReadKnownPolls(s)
      <4>1. sync'[s].pc \in {"cursor", "fetch"}
        <5>1. CASE \E lag \in 0..MaxLag : ReadHead(s, lag)
            BY <2>1, <5>1 DEF ReadHead, SyncFields
        <5>2. CASE ReadKnownPolls(s)
            BY <2>1, <5>2 DEF ReadKnownPolls, SyncFields
        <5> QED
            BY <3>3, <5>1, <5>2
      <4> QED
        BY <4>1 DEF LookUpStands, At
    <3>4. CASE (\E address \in {Factory} \cup Polls : GetLogs(s, address))
               \/ DiscoverPolls(s)
      <4>1. sync'[s].pc = "fetch"
        <5>1. ASSUME NEW address \in {Factory} \cup Polls, GetLogs(s, address)
              PROVE  sync'[s].pc = "fetch"
            BY <2>1, <5>1 DEF GetLogs, SyncFields, At
        <5>2. CASE DiscoverPolls(s)
            BY <2>1, <5>2 DEF DiscoverPolls, SyncFields, At
        <5> QED
            BY <3>4, <5>1, <5>2
      <4> QED
        BY <4>1 DEF LookUpStands, At
    <3> QED
        BY <2>4, <3>1, <3>2, <3>3, <3>4 DEF SyncStep
  <2> QED
    BY <2>1, <2>2, <2>3, <2>4 DEF Next
<1> QED
    BY <1>1, <1>2, <1>3 DEF LabelInv

\* A syncer that nobody races never labels a reveal a change, whatever lags,
\* fails or is rewound and stored again.
THEOREM LoneSyncerLabelsReveals ==
    ASSUME Syncers = {Loop}
    PROVE  Spec => []RevealsAllCast
<1>1. Init => LabelInv
  <2> SUFFICES ASSUME Init PROVE LabelInv
    OBVIOUS
  <2>1. VotesInv
    BY VotesInit
  <2>2. votes = {} /\ \A s \in Syncers : sync[s].pc = "idle"
    BY DEF Init, Idle
  <2> QED
    BY <2>1, <2>2 DEF LabelInv, RevealsAllCast, LookUpStands, At
<1>2. LabelInv /\ [Next]_vars => LabelInv'
    BY LabelNext
<1>3. LabelInv => RevealsAllCast
    BY DEF LabelInv
<1> QED
    BY <1>1, <1>2, <1>3, PTL DEF Spec

\* The last rows of a voter are those of one ballot, all of them.
LEMMA LastRowsAreOneBallot == VotesInv => SelectionsAreWhole
<1> SUFFICES ASSUME VotesInv, NEW p \in Polls, NEW v \in Voters,
                    CurrentVotes(p, v) # {}
             PROVE  \E n \in DOMAIN chain : \E i \in DOMAIN chain[n] :
                        chain[n][i] = Log(p, "VoteRecorded", v, CurrentVotes(p, v))
    BY DEF SelectionsAreWhole
<1> DEFINE all == Entries(0, settled)
           own == {r \in votes : r.poll = p /\ r.voter = v}
           IsLast(x) == x.type \in Counted /\ \A y \in own : ~Later(y, x)
<1>1. ChainHistory /\ settled \in 0..Len(chain) /\ settled \in Int /\ 0 \in Int
    BY DEF VotesInv, SettledInv, ChainInv
<1>2. \A d \in all, e \in all :
          /\ SameLog(d, e) <=> d = e
          /\ Later(d, e) \/ Later(e, d) \/ SameLog(d, e)
    BY <1>1, EntriesInOrder
<1>3. \A e \in all, r \in votes : SameLog(e, r) =>
          \A o \in Rowed(e.log) : \E other \in votes :
              SameLog(other, r) /\ other.option = o
    BY DEF VotesInv, WholeVotes
<1>4. CurrentVotes(p, v) = {x.option : x \in {y \in own : IsLast(y)}}
    BY DEF CurrentVotes
<1> HIDE DEF all
<1>5. ASSUME NEW r \in votes
      PROVE  \E e \in all :
                /\ SameLog(e, r) /\ r.option \in Rowed(e.log)
                /\ r.poll = e.log.address /\ r.voter = e.log.subject
                /\ r.type \in Counted <=> e.log.event = "VoteRecorded"
  <2>1. Unlabelled(r) \in VoteRows(all)
    BY DEF VotesInv, WholeVotes, Stored, all
  <2> QED
    BY <2>1, RowIsOfLog
<1>6. PICK x \in own : IsLast(x)
    BY <1>4
<1>7. PICK e \in all :
          /\ SameLog(e, x) /\ p = e.log.address /\ v = e.log.subject
          /\ e.log.event = "VoteRecorded"
    BY <1>5, <1>6
<1>8. Rowed(e.log) = e.log.ids
    BY <1>7 DEF Rowed
<1>9. ASSUME NEW y \in own, IsLast(y)
      PROVE  y.option \in e.log.ids
  <2>1. PICK d \in all : SameLog(d, y) /\ y.option \in Rowed(d.log)
    BY <1>5
  <2>2. ~Later(y, x) /\ ~Later(x, y)
    BY <1>6, <1>9
  <2>3. ~Later(d, e) /\ ~Later(e, d)
    BY <1>7, <2>1, <2>2 DEF SameLog, Later
  <2>4. d = e
    BY <1>2, <2>3
  <2> QED
    BY <1>8, <2>1, <2>4
<1>10. ASSUME NEW o \in e.log.ids
       PROVE  \E y \in own : IsLast(y) /\ y.option = o
  <2>1. PICK other \in votes : SameLog(other, x) /\ other.option = o
    BY <1>3, <1>7, <1>8
  <2>2. PICK d \in all :
            /\ SameLog(d, other)
            /\ other.poll = d.log.address /\ other.voter = d.log.subject
            /\ other.type \in Counted <=> d.log.event = "VoteRecorded"
    BY <1>5
  <2>3. d = e
    BY <1>2, <1>7, <2>1, <2>2 DEF SameLog
  <2>4. other \in own /\ other.type \in Counted
    BY <1>7, <2>2, <2>3
  <2>5. \A y \in own : ~Later(y, other)
    BY <1>6, <2>1 DEF SameLog, Later
  <2> QED
    BY <2>1, <2>4, <2>5
<1>11. CurrentVotes(p, v) = e.log.ids
    BY <1>4, <1>9, <1>10
<1>12. /\ e.block \in 1..Len(chain) /\ e.index \in DOMAIN chain[e.block]
       /\ e.log = chain[e.block][e.index] /\ e.log \in Logs
    BY <1>1, EntriesAre DEF all
<1>13. e.log = Log(p, "VoteRecorded", v, e.log.ids)
    BY <1>7, <1>12 DEF Log, Logs
<1>14. DOMAIN chain = 1..Len(chain)
    BY <1>1 DEF ChainHistory
<1> QED
    BY <1>11, <1>12, <1>13, <1>14

\* The selection a voter is shown with is a ballot of that voter, never a part
\* of one or a mixture of two, whichever syncers race to store it.
THEOREM BallotsAreShownWhole == Spec => []SelectionsAreWhole
    BY LastRowsAreOneBallot, VotesInit, VotesNext, PTL DEF Spec

-----------------------------------------------------------------------------
(***************************************************************************)
(* A lone syncer whose start block is not above the factory's first poll:  *)
(* the tables hold exactly the logs up to the cursor.                      *)
(***************************************************************************)

\* No poll is created below the block indexing starts at.
FactoryIsIndexed ==
    \A n \in DOMAIN chain : n < StartBlock =>
        \A i \in DOMAIN chain[n] : chain[n][i].event # "PollCreated"

\* The tables, against the cursor.
Exact ==
    IF cursor = None THEN polls = {} /\ votes = {}
    ELSE /\ cursor \in Nat
         /\ polls = PollRows(Entries(0, cursor))
         /\ Stored = VoteRows(Entries(0, cursor))

\* The addresses asked so far, and what they answered.
Asked(s) ==
    /\ Factory \in sync[s].asked
    /\ \A r \in polls : r.address \in sync[s].asked
    /\ \A address \in sync[s].asked \ sync[s].todo :
          Fetched(address, sync[s].from, sync[s].to) \subseteq sync[s].entries
    /\ sync[s].entries \subseteq Entries(sync[s].from, sync[s].to)

\* What a syncer has planned agrees with the cursor still.
Abreast(s) ==
    /\ sync[s].pc \in {"known", "fetch", "store"} =>
          sync[s].from = LastIndexed + 1 /\ sync[s].from <= sync[s].to
    /\ sync[s].pc = "known" => sync[s].entries = {}
    /\ sync[s].pc = "rewind" => sync[s].to < 0 \/ sync[s].to < LastIndexed
    /\ sync[s].pc \in {"fetch", "store"} => Asked(s)
    /\ sync[s].pc = "store" => sync[s].todo = {} /\ Discovered(s) = {}

LoneInv ==
    /\ VotesInv /\ Exact
    /\ \A s \in Syncers : Abreast(s)

\* A range of blocks is what it is up to a block of it and from there on.
LEMMA RangesJoin ==
    ASSUME ChainHistory, NEW mid \in Int, NEW to \in Int, -1 <= mid, mid <= to
    PROVE  /\ Entries(0, to) = Entries(0, mid) \cup Entries(mid + 1, to)
           /\ \A e \in Entries(0, to) : e \in Entries(0, mid) <=> e.block <= mid
           /\ \A e \in Entries(mid + 1, to) : e.block > mid
<1>1. 0 \in Int /\ mid + 1 \in Int
    OBVIOUS
<1>2. \A e \in Entries(0, mid) : /\ e.block \in 1..Len(chain) /\ e.block <= mid
                                 /\ e.index \in DOMAIN chain[e.block]
                                 /\ e = EntryAt(e.block, e.index) /\ e.block \in Nat
    BY <1>1, EntriesAre
<1>3. \A e \in Entries(mid + 1, to) : /\ e.block \in 1..Len(chain)
                                      /\ mid + 1 <= e.block /\ e.block <= to
                                      /\ e.index \in DOMAIN chain[e.block]
                                      /\ e = EntryAt(e.block, e.index) /\ e.block \in Nat
    BY <1>1, EntriesAre
<1>4. \A e \in Entries(0, to) : /\ e.block \in 1..Len(chain) /\ e.block <= to
                                /\ e.index \in DOMAIN chain[e.block]
                                /\ e = EntryAt(e.block, e.index) /\ e.block \in Nat
    BY <1>1, EntriesAre
<1>5. \A n \in 1..Len(chain) : \A i \in DOMAIN chain[n] :
          /\ n <= mid => EntryAt(n, i) \in Entries(0, mid)
          /\ n <= to => EntryAt(n, i) \in Entries(0, to)
          /\ mid + 1 <= n /\ n <= to => EntryAt(n, i) \in Entries(mid + 1, to)
  <2>1. \A n \in 1..Len(chain) : 0 <= n
    BY DEF ChainHistory
  <2> QED
    BY <1>1, <2>1, EntriesAre
<1>6. Entries(0, mid) \subseteq Entries(0, to)
    BY <1>2, <1>5
<1>7. Entries(mid + 1, to) \subseteq Entries(0, to)
    BY <1>3, <1>5
<1>8. \A e \in Entries(0, to) :
          /\ e.block <= mid => e \in Entries(0, mid)
          /\ e.block > mid => e \in Entries(mid + 1, to)
  <2> TAKE e \in Entries(0, to)
  <2>1. /\ e.block \in 1..Len(chain) /\ e.block <= to /\ e.block \in Nat
        /\ e.index \in DOMAIN chain[e.block] /\ e = EntryAt(e.block, e.index)
    BY <1>4
  <2>2. e.block > mid => mid + 1 <= e.block
    BY <2>1
  <2> QED
    BY <1>5, <2>1, <2>2
<1>9. \A e \in Entries(0, to) : e.block <= mid \/ e.block > mid
    BY <1>4
<1>10. \A e \in Entries(mid + 1, to) : e.block > mid
    BY <1>3
<1> QED
    BY <1>2, <1>6, <1>7, <1>8, <1>9, <1>10

\* The rows of a range, cut at a block of it.
LEMMA RowsAreCut ==
    ASSUME ChainHistory, NEW mid \in Int, NEW to \in Int, -1 <= mid, mid <= to
    PROVE  /\ UpTo(mid, PollRows(Entries(0, to))) = PollRows(Entries(0, mid))
           /\ UpTo(mid, VoteRows(Entries(0, to))) = VoteRows(Entries(0, mid))
<1> DEFINE few == Entries(0, mid)
           many == Entries(0, to)
<1>1. few \subseteq many /\ \A e \in many : e \in few <=> e.block <= mid
    BY RangesJoin
<1> HIDE DEF few, many
<1>2. UpTo(mid, PollRows(many)) = PollRows(few)
    BY <1>1 DEF UpTo, PollRows
<1>3. UpTo(mid, VoteRows(many)) = VoteRows(few)
  <2>1. \A r \in VoteRows(many) : r.block <= mid => r \in VoteRows(few)
    <3> TAKE r \in VoteRows(many)
    <3>1. PICK e \in many : /\ e.log.event \in DOMAIN VoteType
                            /\ \E o \in Rowed(e.log) : r = RowOf(e, o)
        BY VoteRowsAre
    <3>2. PICK o \in Rowed(e.log) : r = RowOf(e, o)
        BY <3>1
    <3>3. r.block = e.block
        BY <3>2 DEF RowOf
    <3> QED
        BY <1>1, <3>1, <3>2, <3>3, VoteRowsAre
  <2>2. \A r \in VoteRows(few) : r.block <= mid /\ r \in VoteRows(many)
    <3> TAKE r \in VoteRows(few)
    <3>1. PICK e \in few : /\ e.log.event \in DOMAIN VoteType
                           /\ \E o \in Rowed(e.log) : r = RowOf(e, o)
        BY VoteRowsAre
    <3>2. PICK o \in Rowed(e.log) : r = RowOf(e, o)
        BY <3>1
    <3>3. r.block = e.block
        BY <3>2 DEF RowOf
    <3> QED
        BY <1>1, <3>1, <3>3, RowsOfMoreLogs
  <2> QED
    BY <2>1, <2>2 DEF UpTo
<1> QED
    BY <1>2, <1>3 DEF few, many

\* Nothing to index stands below the start block, so even an empty index holds
\* the rows up to the block it counts as its last.
LEMMA NothingBelowStart ==
    ASSUME VotesInv, Exact, FactoryIsIndexed
    PROVE  /\ LastIndexed \in Int /\ -1 <= LastIndexed
           /\ polls = PollRows(Entries(0, LastIndexed))
           /\ Stored = VoteRows(Entries(0, LastIndexed))
<1>1. CASE cursor # None
    BY <1>1 DEF Exact, LastIndexed
<1>2. CASE cursor = None
  <2>1. LastIndexed = StartBlock - 1 /\ StartBlock \in Nat
    BY <1>2, IndexerAssumption DEF LastIndexed
  <2> DEFINE none == Entries(0, StartBlock - 1)
             all == Entries(0, Len(chain))
  <2>2. /\ ChainHistory /\ 0 \in Int /\ StartBlock - 1 \in Int
        /\ Len(chain) \in 0..Len(chain) /\ Len(chain) \in Int
    BY <2>1 DEF VotesInv, ChainHistory
  <2>3. \A e \in none : /\ e.block \in 1..Len(chain) /\ e.block < StartBlock
                        /\ e.index \in DOMAIN chain[e.block]
                        /\ e = EntryAt(e.block, e.index)
                        /\ e.log = chain[e.block][e.index] /\ e.log \in Logs
                        /\ e.block \in Nat
    <3>1. \A e \in none : /\ e.block \in 1..Len(chain) /\ e.block <= StartBlock - 1
                          /\ e.index \in DOMAIN chain[e.block]
                          /\ e = EntryAt(e.block, e.index)
                          /\ e.log = chain[e.block][e.index] /\ e.log \in Logs
                          /\ e.block \in Nat
        BY <2>2, EntriesAre
    <3> QED
        BY <2>1, <3>1
  <2>4. none \subseteq all
    <3>1. \A n \in 1..Len(chain) : \A i \in DOMAIN chain[n] : EntryAt(n, i) \in all
      <4>1. \A n \in 1..Len(chain) : 0 <= n /\ n <= Len(chain)
        BY <2>2
      <4> QED
        BY <2>2, <4>1, EntriesAre
    <3> QED
        BY <2>3, <3>1
  <2>5. \A e \in all : /\ e.block \in 1..Len(chain)
                       /\ e.index \in DOMAIN chain[e.block]
                       /\ e.log = chain[e.block][e.index] /\ e.block \in Nat
    BY <2>2, EntriesAre
  <2>6. DOMAIN chain = 1..Len(chain)
    BY <2>2 DEF ChainHistory
  <2>7. \A e \in all : e.block < StartBlock => e.log.event # "PollCreated"
    BY <2>5, <2>6 DEF FactoryIsIndexed
  <2>8. \A e \in none : e.log.address \notin Polls
    <3> SUFFICES ASSUME NEW e \in none, e.log.address \in Polls
                 PROVE  FALSE
        OBVIOUS
    <3>1. PICK d \in all : d.log.event = "PollCreated" /\ d.block <= e.block
        BY <2>2, <2>4, PollsAreAnnounced
    <3> QED
        BY <2>1, <2>3, <2>5, <2>7, <3>1
  <2>9. \A e \in none : e.log.event \notin DOMAIN VoteType
                        /\ e.log.event # "PollCreated"
    <3>1. \A e \in none : e.log.event # "PollCreated"
        BY <2>3, <2>4, <2>7
    <3>2. \A e \in none : e.log.address = Factory
        BY <2>3, <2>8 DEF Logs
    <3> QED
        BY <2>3, <3>1, <3>2 DEF Logs
  <2> HIDE DEF none
  <2>10. PollRows(none) = {} /\ VoteRows(none) = {}
    BY <2>9 DEF PollRows, VoteRows
  <2>11. polls = {} /\ Stored = {}
    BY <1>2 DEF Exact, Stored
  <2> QED
    BY <2>1, <2>10, <2>11 DEF none
<1> QED
    BY <1>1, <1>2

\* A poll that is announced in the range, or was before, has been asked.
LEMMA WholeRange ==
    ASSUME LoneInv, FactoryIsIndexed, NEW s \in Syncers,
           At(s, "store")
    PROVE  sync[s].entries = Entries(LastIndexed + 1, sync[s].to)
<1> DEFINE from == LastIndexed + 1
           to == sync[s].to
           batch == sync[s].entries
<1> sync[s].todo = {} /\ Discovered(s) = {}
    BY DEF LoneInv, Abreast, At
<1>1. /\ LastIndexed \in Int /\ -1 <= LastIndexed
      /\ polls = PollRows(Entries(0, LastIndexed))
    BY NothingBelowStart DEF LoneInv
<1>2. /\ ChainHistory /\ 0 \in Int /\ to \in Int /\ from \in Int /\ from <= to
      /\ sync[s].from = from /\ Asked(s)
    BY <1>1 DEF LoneInv, Abreast, At, VotesInv, SettledInv, SyncInv, SyncerInv
<1>3. /\ Factory \in sync[s].asked
      /\ \A r \in polls : r.address \in sync[s].asked
      /\ \A address \in sync[s].asked : Fetched(address, from, to) \subseteq batch
      /\ batch \subseteq Entries(from, to)
    BY <1>2 DEF Asked
<1>4. \A r \in PollRows(batch) : r.address \in sync[s].asked
    BY DEF Discovered
<1>5. /\ Entries(0, to) = Entries(0, LastIndexed) \cup Entries(from, to)
      /\ \A e \in Entries(0, to) : e \in Entries(0, LastIndexed) <=> e.block <= LastIndexed
    BY <1>1, <1>2, RangesJoin
<1>6. settled \in 0..Len(chain) /\ to \in 0..Len(chain)
  <2>1. settled \in Nat /\ settled <= Len(chain) /\ to <= settled /\ Len(chain) \in Nat
    BY <1>2 DEF LoneInv, VotesInv, SettledInv, SyncInv, SyncerInv, ChainInv
  <2> QED
    BY <1>1, <1>2, <2>1
<1>7. \A e \in Entries(from, to) :
          e \in Fetched(e.log.address, from, to)
          /\ e.log.address \in {Factory} \cup Polls
    BY DEF Entries, Fetched
<1> HIDE DEF from, to, batch
<1>8. ASSUME NEW e \in Entries(from, to)
      PROVE  e.log.address \in sync[s].asked
  <2>1. CASE e.log.address = Factory
    BY <1>3, <2>1
  <2>2. CASE e.log.address \in Polls
    <3>1. PICK d \in Entries(0, to) :
              /\ d.log.event = "PollCreated" /\ d.log.address = Factory
              /\ d.log.subject = e.log.address
        BY <1>2, <1>5, <1>6, <2>2, PollsAreAnnounced
    <3>2. CASE d \in Entries(0, LastIndexed)
      <4>1. [address |-> d.log.subject, block |-> d.block, index |-> d.index]
                \in PollRows(Entries(0, LastIndexed))
        BY <3>1, <3>2 DEF PollRows
      <4> QED
        BY <1>1, <1>3, <3>1, <4>1
    <3>3. CASE d \in Entries(from, to)
      <4>1. d \in batch
        BY <1>3, <1>7, <3>1, <3>3
      <4>2. [address |-> d.log.subject, block |-> d.block, index |-> d.index]
                \in PollRows(batch)
        BY <3>1, <4>1 DEF PollRows
      <4> QED
        BY <1>4, <3>1, <4>2
    <3> QED
        BY <1>5, <3>1, <3>2, <3>3
  <2> QED
    BY <1>7, <2>1, <2>2
<1>9. Entries(from, to) \subseteq batch
    BY <1>3, <1>7, <1>8
<1> QED
    BY <1>3, <1>9 DEF from, to, batch

\* The tables move to the end of the range with the cursor.
LEMMA PersistBatchIsExact ==
    ASSUME LoneInv, FactoryIsIndexed, UNCHANGED chainVars, NEW s \in Syncers,
           PersistBatch(s)
    PROVE  Exact'
<1> DEFINE old == Entries(0, LastIndexed)
           new == Entries(LastIndexed + 1, sync[s].to)
           all == Entries(0, sync[s].to)
<1>1. /\ LastIndexed \in Int /\ -1 <= LastIndexed
      /\ polls = PollRows(old) /\ Stored = VoteRows(old)
    BY NothingBelowStart DEF LoneInv
<1>2. sync[s].entries = new
    BY WholeRange DEF PersistBatch
<1>3. /\ ChainHistory /\ sync[s].to \in Int /\ LastIndexed + 1 <= sync[s].to
      /\ sync[s].to <= settled /\ settled \in Nat /\ settled <= Len(chain)
      /\ Len(chain) \in Nat
  <2>1. ChainHistory /\ Len(chain) \in Nat
    BY DEF LoneInv, VotesInv, SettledInv, ChainInv, ChainHistory
  <2>2. settled \in Nat /\ settled <= Len(chain)
    BY DEF LoneInv, VotesInv, SettledInv, ChainInv
  <2>3. At(s, "store")
    BY DEF PersistBatch
  <2>4. sync[s].to \in Int /\ sync[s].to <= settled
    BY <2>3 DEF LoneInv, VotesInv, SettledInv, SyncInv, SyncerInv, At
  <2>5. LastIndexed + 1 <= sync[s].to
    BY <2>3 DEF LoneInv, Abreast, At
  <2> QED
    BY <2>1, <2>2, <2>4, <2>5
<1>4. LastIndexed <= sync[s].to /\ sync[s].to \in 0..Len(chain) /\ sync[s].to \in Nat
    BY <1>1, <1>3
<1>5. /\ all = old \cup new
      /\ \A e \in all : e \in old <=> e.block <= LastIndexed
      /\ \A e \in new : e.block > LastIndexed
    BY <1>1, <1>3, <1>4, RangesJoin
<1>6. \A e \in all, d \in all : SameLog(d, e) <=> d = e
    BY <1>3, <1>4, EntriesInOrder
<1>7. \A d \in all, e \in all :
          /\ d.log.event = "PollCreated" /\ e.log.event = "PollCreated"
          /\ d.log.subject = e.log.subject
          => d = e
    BY <1>3, <1>4, PollsAreCreatedOnce
<1>8. \A e \in all : e.block \in Int
  <2>1. 0 \in Int
    OBVIOUS
  <2> QED
    BY <1>3, <2>1, EntriesAre
<1>9. /\ polls' = InsertPolls(PollRows(new))
      /\ votes' = InsertVotes(Labelled(VoteRows(new), sync[s].prior))
      /\ cursor' = sync[s].to
    BY <1>2 DEF PersistBatch
<1>11. ASSUME NEW to, to = sync[s].to
       PROVE  Entries(0, to)' = Entries(0, to)
    BY DEF Entries, Fetched, ChainHead, chainVars
<1> HIDE DEF old, new, all
<1>12. new \cap old = {}
    BY <1>1, <1>5, <1>8
<1>13. polls' = PollRows(all)
  <2>1. \A r \in PollRows(new), q \in PollRows(old) : q.address # r.address
    BY <1>5, <1>7, <1>12 DEF PollRows
  <2>2. polls' = PollRows(old) \cup PollRows(new)
    BY <1>1, <1>9, <2>1 DEF InsertPolls
  <2>3. PollRows(all) = PollRows(old) \cup PollRows(new)
    BY <1>5 DEF PollRows
  <2> QED
    BY <2>2, <2>3
<1>14. Stored' = {Unlabelled(r) : r \in votes'}
    BY DEF Stored
<1>15. \A r \in votes' : Unlabelled(r) \in VoteRows(all)
  <2> TAKE r \in votes'
  <2>1. CASE r \in votes
    <3>1. Unlabelled(r) \in VoteRows(old)
        BY <1>1, <2>1 DEF Stored
    <3> QED
        BY <1>5, <3>1, RowsOfMoreLogs
  <2>2. CASE r \notin votes
    <3>1. Unlabelled(r) \in VoteRows(new)
        BY <1>9, <2>2, InsertedVotes
    <3> QED
        BY <1>5, <3>1, RowsOfMoreLogs
  <2> QED
    BY <2>1, <2>2
<1>16. \A row \in VoteRows(all) : \E r \in votes' : Unlabelled(r) = row
  <2> TAKE row \in VoteRows(all)
  <2>1. PICK e \in all : /\ e.log.event \in DOMAIN VoteType
                         /\ \E o \in Rowed(e.log) : row = RowOf(e, o)
    BY VoteRowsAre
  <2>2. PICK o \in Rowed(e.log) : row = RowOf(e, o)
    BY <2>1
  <2>3. CASE e \in old
    <3>1. row \in Stored
        BY <1>1, <2>1, <2>2, <2>3, VoteRowsAre
    <3>2. votes \subseteq votes'
        BY <1>9 DEF InsertVotes
    <3> QED
        BY <3>1, <3>2 DEF Stored
  <2>4. CASE e \in new
    <3>1. PICK r \in votes' : SameLog(r, e) /\ r.option = o
      <4> DEFINE prior == sync[s].prior
      <4>1. votes' = InsertVotes(Labelled(VoteRows(new), prior))
        BY <1>9
      <4> HIDE DEF prior
      <4>2. e.log.event \in DOMAIN VoteType
        BY <2>1
      <4>3. \E stored \in InsertVotes(Labelled(VoteRows(new), prior)) :
                SameLog(stored, e) /\ stored.option = o
        BY ONLY <2>4, <4>2, o \in Rowed(e.log), BatchIsStored
      <4> QED
        BY <4>1, <4>3
    <3>2. Unlabelled(r) \in VoteRows(all)
        BY <1>15, <3>1
    <3>3. PICK d \in all : SameLog(d, r) /\ Unlabelled(r) = RowOf(d, r.option)
        BY <3>2, RowIsOfLog
    <3>4. d = e
        BY <1>6, <3>1, <3>3 DEF SameLog
    <3> QED
        BY <2>2, <3>1, <3>3, <3>4
  <2> QED
    BY <1>5, <2>1, <2>3, <2>4
<1>17. Stored' = VoteRows(all)
    BY <1>14, <1>15, <1>16
<1>18. cursor' \in Nat /\ cursor' # None
    BY <1>4, <1>9, IndexerAssumption
<1>19. ASSUME NEW to, to = sync[s].to
       PROVE  /\ PollRows(Entries(0, to))' = PollRows(Entries(0, to))
              /\ VoteRows(Entries(0, to))' = VoteRows(Entries(0, to))
    BY <1>11, <1>19 DEF PollRows, VoteRows
<1>20. ASSUME NEW to, to = sync[s].to
       PROVE  Exact'
  <2>1. cursor' = to
    BY <1>9, <1>20
  <2>2. /\ polls' = PollRows(Entries(0, to))'
        /\ Stored' = VoteRows(Entries(0, to))'
    BY <1>13, <1>17, <1>19, <1>20 DEF all
  <2>3. /\ PollRows(Entries(0, cursor))' = PollRows(Entries(0, to))'
        /\ VoteRows(Entries(0, cursor))' = VoteRows(Entries(0, to))'
    BY <2>1
  <2> QED
    BY <1>18, <2>2, <2>3 DEF Exact
<1> QED
    BY <1>20

\* A rewind leaves the rows up to the block it goes back to.
LEMMA DiscardAboveIsExact ==
    ASSUME LoneInv, FactoryIsIndexed, UNCHANGED chainVars, NEW s \in Syncers,
           DiscardAbove(s)
    PROVE  Exact'
<1>1. /\ LastIndexed \in Int /\ -1 <= LastIndexed
      /\ polls = PollRows(Entries(0, LastIndexed))
      /\ Stored = VoteRows(Entries(0, LastIndexed))
    BY NothingBelowStart DEF LoneInv
<1>2. /\ ChainHistory /\ sync[s].to \in Int /\ 0 <= sync[s].to
      /\ sync[s].to < LastIndexed
    BY DEF LoneInv, Abreast, At, VotesInv, SettledInv, SyncInv, SyncerInv,
           DiscardAbove
<1>3. /\ cursor' = sync[s].to
      /\ polls' = UpTo(sync[s].to, polls) /\ votes' = UpTo(sync[s].to, votes)
    BY DEF DiscardAbove
<1>4. ASSUME NEW to \in Int, 0 <= to, to < LastIndexed, to = sync[s].to
      PROVE  Exact'
  <2>1. /\ UpTo(to, PollRows(Entries(0, LastIndexed))) = PollRows(Entries(0, to))
        /\ UpTo(to, VoteRows(Entries(0, LastIndexed))) = VoteRows(Entries(0, to))
    <3>1. -1 <= to /\ to <= LastIndexed
        BY <1>1, <1>4
    <3> QED
        BY <1>1, <1>2, <3>1, RowsAreCut
  <2>2. Entries(0, to)' = Entries(0, to)
    BY DEF Entries, Fetched, ChainHead, chainVars
  <2>3. /\ PollRows(Entries(0, to))' = PollRows(Entries(0, to))
        /\ VoteRows(Entries(0, to))' = VoteRows(Entries(0, to))
    BY <2>2 DEF PollRows, VoteRows
  <2>4. polls' = PollRows(Entries(0, to))
    BY <1>1, <1>3, <1>4, <2>1
  <2>5. Stored' = UpTo(to, Stored)
    <3>1. \A r \in votes : Unlabelled(r).block = r.block
      <4> TAKE r \in votes
      <4>1. Unlabelled(r) \in VoteRows(Entries(0, LastIndexed))
        BY <1>1 DEF Stored
      <4>2. PICK e \in Entries(0, LastIndexed) :
                SameLog(e, r) /\ Unlabelled(r) = RowOf(e, r.option)
        BY <4>1, RowIsOfLog
      <4> QED
        BY <4>2 DEF SameLog, RowOf
    <3> QED
        BY <1>3, <1>4, <3>1 DEF Stored, UpTo
  <2>6. cursor' = to /\ to \in Nat /\ to # None
    BY <1>3, <1>4, IndexerAssumption
  <2>7. /\ PollRows(Entries(0, cursor))' = PollRows(Entries(0, to))'
        /\ VoteRows(Entries(0, cursor))' = VoteRows(Entries(0, to))'
    BY <2>6
  <2> QED
    BY <1>1, <2>1, <2>3, <2>4, <2>5, <2>6, <2>7 DEF Exact
<1> QED
    BY <1>2, <1>4

\* A range that is settled is answered alike before and after a step of the
\* chain.
LEMMA SettledRangeStays ==
    ASSUME ChainInv, ChainInv', Grows, NEW from \in Int, NEW to \in Int, to <= settled
    PROVE  /\ \A address : Fetched(address, from, to)' = Fetched(address, from, to)
           /\ Entries(from, to)' = Entries(from, to)
           /\ PollRows(Entries(from, to))' = PollRows(Entries(from, to))
           /\ VoteRows(Entries(from, to))' = VoteRows(Entries(from, to))
<1>1. /\ (from..to) \cap (1..ChainHead) = (from..to) \cap (1..settled)
      /\ ((from..to) \cap (1..ChainHead))' = (from..to) \cap (1..settled)
    BY DEF ChainInv, Grows, ChainHead
<1>2. \A n \in (from..to) \cap (1..settled) : chain'[n] = chain[n]
    BY DEF Grows
<1>3. \A address : Fetched(address, from, to)' = Fetched(address, from, to)
    BY <1>1, <1>2 DEF Fetched
<1>4. Entries(from, to)' = Entries(from, to)
    BY <1>3 DEF Entries
<1> QED
    BY <1>3, <1>4 DEF PollRows, VoteRows

\* The chain disturbs neither the tables nor a plan.
LEMMA ChainKeepsExact ==
    ASSUME LoneInv, ChainInv', Grows, UNCHANGED indexVars
    PROVE  Exact' /\ \A s \in Syncers : Abreast(s)'
<1>1. ChainInv
    BY DEF LoneInv, VotesInv, SettledInv
<1>2. /\ cursor' = cursor /\ polls' = polls /\ votes' = votes /\ sync' = sync
      /\ Stored' = Stored /\ LastIndexed' = LastIndexed
    BY DEF indexVars, Stored, LastIndexed
<1>3. Exact'
  <2>1. CASE cursor = None
    BY <1>2, <2>1 DEF LoneInv, Exact
  <2>2. CASE cursor # None
    <3> DEFINE to == cursor
    <3>1. to \in Int /\ to <= settled /\ 0 \in Int
        BY <2>2 DEF LoneInv, Exact, VotesInv, SettledInv, OnlySettledLogs
    <3>2. /\ PollRows(Entries(0, cursor))' = PollRows(Entries(0, cursor))
          /\ VoteRows(Entries(0, cursor))' = VoteRows(Entries(0, cursor))
      <4>1. ASSUME NEW c \in Int, c <= settled
            PROVE  /\ PollRows(Entries(0, c))' = PollRows(Entries(0, c))
                   /\ VoteRows(Entries(0, c))' = VoteRows(Entries(0, c))
        BY <1>1, <4>1, SettledRangeStays
      <4>2. ASSUME NEW c, c = cursor
            PROVE  /\ PollRows(Entries(0, cursor))' = PollRows(Entries(0, c))'
                   /\ VoteRows(Entries(0, cursor))' = VoteRows(Entries(0, c))'
        BY <1>2, <4>2
      <4> QED
        BY <3>1, <4>1, <4>2
    <3> QED
        BY <1>2, <2>2, <3>2 DEF LoneInv, Exact
  <2> QED
    BY <2>1, <2>2
<1>4. ASSUME NEW s \in Syncers
      PROVE  Abreast(s)'
  <2>1. Abreast(s) /\ sync'[s] = sync[s]
    BY <1>2 DEF LoneInv
  <2>2. sync[s].from \in Int /\ sync[s].to \in Int /\ sync[s].to <= settled
    BY DEF LoneInv, VotesInv, SettledInv, SyncInv, SyncerInv
  <2>3. Asked(s) => Asked(s)'
    <3>1. ASSUME NEW from \in Int, NEW to \in Int, to <= settled
          PROVE  /\ \A address : Fetched(address, from, to)' = Fetched(address, from, to)
                 /\ Entries(from, to)' = Entries(from, to)
        BY <1>1, <3>1, SettledRangeStays
    <3>2. ASSUME NEW from, from = sync[s].from, NEW to, to = sync[s].to
          PROVE  /\ \A address : Fetched(address, sync[s].from, sync[s].to)'
                                    = Fetched(address, from, to)'
                 /\ Entries(sync[s].from, sync[s].to)' = Entries(from, to)'
        BY <1>2, <3>2 DEF Fetched, Entries
    <3>3. /\ \A address : Fetched(address, sync[s].from, sync[s].to)'
                            = Fetched(address, sync[s].from, sync[s].to)
          /\ Entries(sync[s].from, sync[s].to)' = Entries(sync[s].from, sync[s].to)
        BY <2>2, <3>1, <3>2
    <3> QED
        BY <1>2, <3>3 DEF Asked
  <2>4. Discovered(s)' = Discovered(s)
    BY <1>2 DEF Discovered, PollRows
  <2> QED
    BY <1>2, <2>1, <2>3, <2>4 DEF Abreast
<1> QED
    BY <1>3, <1>4

\* A step of the syncer that stores nothing.
LEMMA PlanKeepsExact ==
    ASSUME LoneInv, UNCHANGED chainVars, UNCHANGED tableVars, NEW s \in Syncers,
           SyncStep(s) \/ Fail(s)
    PROVE  Exact' /\ Abreast(s)'
<1>1. /\ cursor' = cursor /\ polls' = polls /\ votes' = votes
      /\ Stored' = Stored /\ LastIndexed' = LastIndexed
    BY DEF tableVars, Stored, LastIndexed
<1>2. \A from, to : /\ Entries(from, to)' = Entries(from, to)
                    /\ \A address : Fetched(address, from, to)' = Fetched(address, from, to)
    BY DEF Entries, Fetched, ChainHead, chainVars
<1>3. Exact'
  <2>1. Entries(0, cursor)' = Entries(0, cursor)
    BY <1>1 DEF Entries, Fetched, ChainHead, chainVars
  <2>2. /\ PollRows(Entries(0, cursor))' = PollRows(Entries(0, cursor))
        /\ VoteRows(Entries(0, cursor))' = VoteRows(Entries(0, cursor))
    BY <2>1 DEF PollRows, VoteRows
  <2> QED
    BY <1>1, <2>2 DEF LoneInv, Exact
<1> SUFFICES Abreast(s)'
    BY <1>3
<1>4. /\ DOMAIN sync = Syncers /\ DOMAIN sync[s] = SyncFields /\ Abreast(s)
    BY DEF LoneInv, VotesInv, SettledInv, SyncInv, SyncerInv
<1>5. CASE sync'[s] = Idle
  <2>1. sync'[s].pc = "idle"
    BY <1>5 DEF Idle
  <2> QED
    BY <2>1 DEF Abreast
<1>6. ASSUME NEW lag \in 0..MaxLag, ReadHead(s, lag)
      PROVE  Abreast(s)'
  <2>1. sync'[s].pc = "cursor"
    BY <1>4, <1>6 DEF ReadHead, SyncFields
  <2> QED
    BY <2>1 DEF Abreast
<1>7. CASE PlanReorgRewind(s)
  <2>1. sync'[s] = [Idle EXCEPT !.pc = "rewind", !.to = RewindTo(sync[s].head)]
    BY <1>4, <1>7 DEF PlanReorgRewind
  <2>2. sync'[s].pc = "rewind" /\ sync'[s].to = RewindTo(sync[s].head)
    BY <2>1 DEF Idle
  <2>3. sync[s].head \in Int /\ LastIndexed \in Int /\ LastIndexed > sync[s].head
    BY <1>7, IndexerAssumption
    DEF LoneInv, VotesInv, SettledInv, SyncInv, SyncerInv, CursorInv,
        LastIndexed, PlanReorgRewind
  <2>4. RewindTo(sync[s].head) < 0 \/ RewindTo(sync[s].head) < LastIndexed
    BY <2>3, IndexerAssumption DEF RewindTo, SafeHead
  <2>5. sync'[s].to < 0 \/ sync'[s].to < LastIndexed'
    BY <1>1, <2>2, <2>4
  <2> QED
    BY <2>2, <2>5 DEF Abreast
<1>8. CASE PlanNextRange(s)
  <2> DEFINE range == Planned(sync[s].head, LastIndexed)
  <2>1. /\ sync'[s] = [Idle EXCEPT !.pc = "known", !.from = range.from,
                                    !.to = range.to]
        /\ range.from <= range.to
    BY <1>4, <1>8 DEF PlanNextRange
  <2>2. range.from = LastIndexed + 1
    BY DEF Planned
  <2> HIDE DEF range
  <2>3. /\ sync'[s].pc = "known" /\ sync'[s].entries = {}
        /\ sync'[s].from = range.from /\ sync'[s].to = range.to
    BY <2>1 DEF Idle
  <2> QED
    BY <1>1, <2>1, <2>2, <2>3 DEF Abreast
<1>9. CASE ReadKnownPolls(s)
  <2> DEFINE known == {Factory} \cup {r.address : r \in polls}
  <2>1. /\ sync'[s].pc = "fetch" /\ sync'[s].todo = known /\ sync'[s].asked = known
        /\ sync'[s].from = sync[s].from /\ sync'[s].to = sync[s].to
        /\ sync'[s].entries = {} /\ sync[s].pc = "known"
    BY <1>4, <1>9 DEF ReadKnownPolls, SyncFields, At, Abreast
  <2>2. Asked(s)'
    BY <1>1, <2>1 DEF Asked
  <2> QED
    BY <1>1, <1>4, <2>1, <2>2 DEF Abreast
<1>10. ASSUME NEW address \in {Factory} \cup Polls, GetLogs(s, address)
       PROVE  Abreast(s)'
  <2> DEFINE logs == Fetched(address, sync[s].from, sync[s].to)
  <2>1. /\ sync'[s].pc = "fetch" /\ sync[s].pc = "fetch"
        /\ sync'[s].todo = sync[s].todo \ {address}
        /\ sync'[s].asked = sync[s].asked
        /\ sync'[s].from = sync[s].from /\ sync'[s].to = sync[s].to
        /\ sync'[s].entries = sync[s].entries \cup logs
    BY <1>4, <1>10 DEF GetLogs, SyncFields, At
  <2>2. logs \subseteq Entries(sync[s].from, sync[s].to)
    BY DEF Entries
  <2>3. Asked(s)
    BY <1>4, <2>1 DEF Abreast
  <2>4. /\ Entries(sync[s].from, sync[s].to)' = Entries(sync[s].from, sync[s].to)
        /\ \A a : Fetched(a, sync[s].from, sync[s].to)'
                    = Fetched(a, sync[s].from, sync[s].to)
    BY <2>1 DEF Entries, Fetched, ChainHead, chainVars
  <2>5. Asked(s)'
    BY <1>1, <2>1, <2>2, <2>3, <2>4 DEF Asked
  <2> QED
    BY <1>1, <1>4, <2>1, <2>5 DEF Abreast
<1>11. CASE DiscoverPolls(s)
  <2>1. /\ sync'[s].pc = "fetch" /\ sync[s].pc = "fetch" /\ sync[s].todo = {}
        /\ sync'[s].todo = Discovered(s)
        /\ sync'[s].asked = sync[s].asked \cup Discovered(s)
        /\ sync'[s].from = sync[s].from /\ sync'[s].to = sync[s].to
        /\ sync'[s].entries = sync[s].entries
    BY <1>4, <1>11 DEF DiscoverPolls, SyncFields, At
  <2>2. Asked(s)
    BY <1>4, <2>1 DEF Abreast
  <2>3. /\ Entries(sync[s].from, sync[s].to)' = Entries(sync[s].from, sync[s].to)
        /\ \A a : Fetched(a, sync[s].from, sync[s].to)'
                    = Fetched(a, sync[s].from, sync[s].to)
    BY <2>1 DEF Entries, Fetched, ChainHead, chainVars
  <2>4. Asked(s)'
    BY <1>1, <2>1, <2>2, <2>3 DEF Asked
  <2> QED
    BY <1>1, <1>4, <2>1, <2>4 DEF Abreast
<1>12. CASE ReadPriorVoters(s)
  <2>1. /\ sync'[s].pc = "store" /\ sync[s].pc = "fetch"
        /\ sync'[s].todo = sync[s].todo /\ sync'[s].asked = sync[s].asked
        /\ sync'[s].from = sync[s].from /\ sync'[s].to = sync[s].to
        /\ sync'[s].entries = sync[s].entries
        /\ sync[s].todo = {} /\ Discovered(s) = {}
    BY <1>4, <1>12 DEF ReadPriorVoters, SyncFields, At
  <2>2. Asked(s)
    BY <1>4, <2>1 DEF Abreast
  <2>3. /\ Entries(sync[s].from, sync[s].to)' = Entries(sync[s].from, sync[s].to)
        /\ \A a : Fetched(a, sync[s].from, sync[s].to)'
                    = Fetched(a, sync[s].from, sync[s].to)
    BY <2>1 DEF Entries, Fetched, ChainHead, chainVars
  <2>4. Asked(s)'
    BY <1>1, <2>1, <2>2, <2>3 DEF Asked
  <2>5. Discovered(s)' = Discovered(s)
    BY <2>1 DEF Discovered, PollRows
  <2> QED
    BY <1>1, <1>4, <2>1, <2>4, <2>5 DEF Abreast
<1>13. CASE CaughtUp(s) \/ DiscardAbove(s) \/ DiscardRejected(s)
            \/ PersistBatch(s) \/ Fail(s)
  <2>1. sync'[s] = Idle
    BY <1>4, <1>13 DEF CaughtUp, DiscardAbove, DiscardRejected, PersistBatch, Fail
  <2> QED
    BY <1>5, <2>1
<1> QED
    BY <1>3, <1>6, <1>7, <1>8, <1>9, <1>10, <1>11, <1>12, <1>13 DEF SyncStep

LEMMA LoneInit == Init => LoneInv
<1> SUFFICES ASSUME Init PROVE LoneInv
    OBVIOUS
<1>1. VotesInv
    BY VotesInit
<1>2. cursor = None /\ polls = {} /\ votes = {}
    BY DEF Init
<1>3. \A s \in Syncers : sync[s].pc = "idle"
    BY DEF Init, Idle
<1> QED
    BY <1>1, <1>2, <1>3 DEF LoneInv, Exact, Abreast

\* Every step of the chain and of the only syncer keeps LoneInv.
LEMMA LoneNext ==
    ASSUME Syncers = {Loop}
    PROVE  LoneInv /\ FactoryIsIndexed /\ [Next]_vars => LoneInv'
<1> SUFFICES ASSUME LoneInv, FactoryIsIndexed, [Next]_vars PROVE LoneInv'
    OBVIOUS
<1>1. VotesInv'
    BY VotesNext DEF LoneInv
<1>2. ChainInv
    BY DEF LoneInv, VotesInv, SettledInv
<1>3. ASSUME NEW txs \in Menu, Mine(txs), UNCHANGED indexVars
      PROVE  LoneInv'
    BY <1>1, <1>2, <1>3, MineStep, ChainKeepsExact DEF LoneInv
<1>4. ASSUME NEW fork \in 0..MaxHeight, Reorg(fork), UNCHANGED indexVars
      PROVE  LoneInv'
    BY <1>1, <1>2, <1>4, ReorgStep, ChainKeepsExact DEF LoneInv
<1>5. ASSUME NEW s \in Syncers, SyncStep(s) \/ Fail(s), UNCHANGED chainVars
      PROVE  LoneInv'
  <2>1. Syncers = {s}
    OBVIOUS
  <2>2. CASE DiscardAbove(s) \/ PersistBatch(s)
    <3>1. Exact'
        BY <1>5, <2>2, DiscardAboveIsExact, PersistBatchIsExact
    <3>2. sync'[s] = Idle
        BY <2>2 DEF DiscardAbove, PersistBatch, LoneInv, VotesInv, SettledInv, SyncInv
    <3>3. sync'[s].pc = "idle"
        BY <3>2 DEF Idle
    <3>4. Abreast(s)'
        BY <3>3 DEF Abreast
    <3> QED
        BY <1>1, <2>1, <3>1, <3>4 DEF LoneInv
  <2>3. CASE UNCHANGED tableVars
    <3>1. Exact' /\ Abreast(s)'
        BY <1>5, <2>3, PlanKeepsExact
    <3> QED
        BY <1>1, <2>1, <3>1 DEF LoneInv
  <2> QED
    BY <1>5, <2>2, <2>3
    DEF SyncStep, Fail, ReadHead, PlanReorgRewind, PlanNextRange, CaughtUp,
        DiscardRejected, ReadKnownPolls, GetLogs, DiscoverPolls, ReadPriorVoters
<1>6. CASE UNCHANGED vars
  <2>1. UNCHANGED chainVars /\ UNCHANGED indexVars
    BY <1>6 DEF vars, chainVars, indexVars
  <2>2. ChainInv' /\ Grows
    BY <1>2, <2>1 DEF ChainInv, Grows, chainVars
  <2> QED
    BY <1>1, <2>1, <2>2, ChainKeepsExact DEF LoneInv
<1> QED
    BY <1>3, <1>4, <1>5, <1>6 DEF Next, ChainNext

\* The cursor of an exact index stands above nothing that is not stored.
LEMMA ExactSkipsNothing == LoneInv => NothingSkipped
<1> SUFFICES ASSUME LoneInv, cursor # None
             PROVE  /\ PollRows(Entries(StartBlock, cursor)) \subseteq polls
                    /\ \A r \in VoteRows(Entries(StartBlock, cursor)) : HasRow(r)
    BY DEF NothingSkipped
<1> DEFINE some == Entries(StartBlock, cursor)
           all == Entries(0, cursor)
<1>1. /\ cursor \in Nat /\ polls = PollRows(all) /\ Stored = VoteRows(all)
      /\ ChainHistory /\ StartBlock \in Int /\ 0 \in Int /\ 0 <= StartBlock
    BY IndexerAssumption DEF LoneInv, Exact, VotesInv
<1>2. some \subseteq all
    BY <1>1 DEF Entries, Fetched
<1> HIDE DEF some, all
<1>3. ASSUME NEW row \in VoteRows(some)
      PROVE  HasRow(row)
  <2>1. row \in VoteRows(all)
    BY <1>2, RowsOfMoreLogs
  <2>2. PICK r \in votes : Unlabelled(r) = row
    BY <1>1, <2>1 DEF Stored
  <2>3. PICK e \in all : SameLog(e, r) /\ row = RowOf(e, r.option)
    BY <2>1, <2>2, RowIsOfLog
  <2> QED
    BY <2>3 DEF HasRow, SameLog, RowOf
<1> QED
    BY <1>1, <1>2, <1>3, RowsOfMoreLogs DEF some, all

\* Whatever fails, lags or is discarded in between, a lone syncer's cursor
\* never moves past an event that is not stored.
THEOREM LoneSyncerSkipsNothing ==
    ASSUME Syncers = {Loop}
    PROVE  Spec /\ []FactoryIsIndexed => []NothingSkipped
<1>1. LoneInv /\ FactoryIsIndexed /\ [Next]_vars => LoneInv'
    BY LoneNext
<1> QED
    BY <1>1, ExactSkipsNothing, LoneInit, PTL DEF Spec

\* The last rows of a voter are the last logs of that voter up to the cursor.
LEMMA ExactAgrees == LoneInv => SnapshotAgrees
<1> SUFFICES ASSUME LoneInv, cursor # None, NEW p \in Polls, NEW v \in Voters
             PROVE  CurrentVotes(p, v) = Standing(p, v, LogsUpTo(cursor))
    BY DEF SnapshotAgrees
<1> DEFINE all == Entries(0, cursor)
           own == {r \in votes : r.poll = p /\ r.voter = v}
           LastRow(x) == x.type \in Counted /\ \A y \in own : ~Later(y, x)
           LastEntry(e) == /\ About(p, v, e.log) /\ e.log.event = "VoteRecorded"
                           /\ \A d \in all : About(p, v, d.log) => ~Later(d, e)
<1>1. /\ cursor \in Nat /\ Stored = VoteRows(all) /\ ChainHistory
      /\ cursor \in Int /\ 0 \in Int
    BY DEF LoneInv, Exact, VotesInv
<1>2. cursor \in 0..Len(chain)
  <2>1. cursor <= settled /\ settled \in Nat /\ settled <= Len(chain) /\ Len(chain) \in Nat
    BY <1>1 DEF LoneInv, VotesInv, SettledInv, OnlySettledLogs, ChainInv, ChainHistory
  <2> QED
    BY <1>1, <2>1
<1>3. \A e \in all : e.log \in Logs
    BY <1>1, EntriesAre
<1>4. Standing(p, v, LogsUpTo(cursor)) =
          {o \in OptionIds : \E e \in all : LastEntry(e) /\ o \in e.log.ids}
  <2>1. Standing(p, v, LogsUpTo(cursor)) =
          {o \in OptionIds : \E e \in all :
              /\ About(p, v, e.log)
              /\ e.log.event = "VoteRecorded" /\ o \in e.log.ids
              /\ \A d \in all : About(p, v, d.log) => ~Later(d, e)}
    BY <1>1, <1>2, StandingIsLastEntry
  <2> QED
    BY <2>1
<1>5. CurrentVotes(p, v) = {x.option : x \in {y \in own : LastRow(y)}}
    BY DEF CurrentVotes
<1> HIDE DEF all
<1>6. ASSUME NEW r \in votes
      PROVE  \E e \in all :
                /\ SameLog(e, r) /\ r.option \in Rowed(e.log)
                /\ r.poll = e.log.address /\ r.voter = e.log.subject
                /\ r.type \in Counted <=> e.log.event = "VoteRecorded"
  <2>1. Unlabelled(r) \in VoteRows(all)
    BY <1>1 DEF Stored
  <2> QED
    BY <2>1, RowIsOfLog
<1>7. ASSUME NEW e \in all, About(p, v, e.log), NEW o \in Rowed(e.log)
      PROVE  \E r \in own :
                /\ SameLog(e, r) /\ r.option = o
                /\ r.type \in Counted <=> e.log.event = "VoteRecorded"
  <2>1. e.log.event \in DOMAIN VoteType
    BY <1>3, <1>7, ChainAssumption DEF Logs, About
  <2>2. RowOf(e, o) \in VoteRows(all)
    BY <1>7, <2>1, VoteRowsAre
  <2>3. PICK r \in votes : Unlabelled(r) = RowOf(e, o)
    BY <1>1, <2>2 DEF Stored
  <2>4. PICK d \in all : /\ SameLog(d, r)
                         /\ r.poll = d.log.address /\ r.voter = d.log.subject
                         /\ r.type \in Counted <=> d.log.event = "VoteRecorded"
                         /\ Unlabelled(r) = RowOf(d, r.option)
    BY <2>2, <2>3, RowIsOfLog
  <2>5. SameLog(d, e) /\ r.option = o
    BY <2>3, <2>4 DEF RowOf, SameLog
  <2>6. d = e
    BY <1>1, <1>2, <2>5, EntriesInOrder DEF all
  <2> QED
    BY <1>7, <2>4, <2>5, <2>6 DEF About
<1>8. ASSUME NEW e \in all, About(p, v, e.log)
      PROVE  \E r \in own : SameLog(e, r)
  <2>1. Rowed(e.log) # {}
    BY <1>3 DEF Rowed, Logs
  <2> QED
    BY <1>7, <1>8, <2>1
<1>9. ASSUME NEW x \in own, NEW e \in all, SameLog(e, x)
      PROVE  (\A y \in own : ~Later(y, x))
                <=> (\A d \in all : About(p, v, d.log) => ~Later(d, e))
  <2>1. ASSUME \A y \in own : ~Later(y, x), NEW d \in all, About(p, v, d.log)
        PROVE  ~Later(d, e)
    <3>1. PICK y \in own : SameLog(d, y)
        BY <1>8, <2>1
    <3> QED
        BY <1>9, <2>1, <3>1 DEF Later, SameLog
  <2>2. ASSUME \A d \in all : About(p, v, d.log) => ~Later(d, e), NEW y \in own
        PROVE  ~Later(y, x)
    <3>1. PICK d \in all : /\ SameLog(d, y)
                           /\ y.poll = d.log.address /\ y.voter = d.log.subject
        BY <1>6
    <3>2. About(p, v, d.log)
        BY <3>1 DEF About
    <3> QED
        BY <1>9, <2>2, <3>1, <3>2 DEF Later, SameLog
  <2> QED
    BY <2>1, <2>2
<1> HIDE DEF own
<1>10. ASSUME NEW x \in own, LastRow(x)
       PROVE  \E e \in all : LastEntry(e) /\ x.option \in e.log.ids /\ x.option \in OptionIds
  <2>1. PICK e \in all : /\ SameLog(e, x) /\ x.option \in Rowed(e.log)
                         /\ x.poll = e.log.address /\ x.voter = e.log.subject
                         /\ x.type \in Counted <=> e.log.event = "VoteRecorded"
    BY <1>6 DEF own
  <2>2. e.log.event = "VoteRecorded" /\ x.option \in e.log.ids
    BY <1>10, <2>1 DEF Rowed
  <2>3. About(p, v, e.log)
    BY <2>1 DEF About, own
  <2>4. x.option \in OptionIds
    BY <1>3, <2>2 DEF Logs
  <2> QED
    BY <1>9, <1>10, <2>1, <2>2, <2>3, <2>4
<1>11. ASSUME NEW e \in all, LastEntry(e), NEW o \in e.log.ids
       PROVE  \E x \in own : LastRow(x) /\ x.option = o
  <2>1. o \in Rowed(e.log)
    BY <1>11 DEF Rowed
  <2>2. PICK x \in own : /\ SameLog(e, x) /\ x.option = o
                         /\ x.type \in Counted <=> e.log.event = "VoteRecorded"
    BY <1>7, <1>11, <2>1
  <2> QED
    BY <1>9, <1>11, <2>2
<1> QED
    BY <1>4, <1>5, <1>10, <1>11

\* The tally and the cursor of one snapshot describe the same block: a lone
\* syncer's view of each voter is the one the poll held at the cursor.
THEOREM LoneSyncerAgrees ==
    ASSUME Syncers = {Loop}
    PROVE  Spec /\ []FactoryIsIndexed => []SnapshotAgrees
<1>1. LoneInv /\ FactoryIsIndexed /\ [Next]_vars => LoneInv'
    BY LoneNext
<1> QED
    BY <1>1, ExactAgrees, LoneInit, PTL DEF Spec

-----------------------------------------------------------------------------
(***************************************************************************)
(* A lone syncer implements the ledger: the events stored are those of the *)
(* settled blocks up to the cursor, before every step and after it.        *)
(***************************************************************************)

LedgerInv == LoneInv /\ Len(chain) <= MaxHeight

LedgerAgrees ==
    /\ LastStored \in 0..settled /\ settled <= MaxHeight /\ settled \in Nat
    /\ StoredEvents = Ledger!Events(1, LastStored)

\* The facts of the settled blocks, as a sequence.
LEMMA FactsAreASequence ==
    ASSUME ChainInv
    PROVE  /\ SettledFacts \in Seq(SUBSET Polls) /\ Len(SettledFacts) = settled
           /\ DOMAIN SettledFacts = 1..settled
<1>1. settled \in Nat
    BY DEF ChainInv
<1>2. SettledFacts \in [1..settled -> SUBSET Polls]
    BY DEF SettledFacts
<1> QED
    BY <1>1, <1>2

LEMMA StoredUpToTheCursor == LedgerInv => LedgerAgrees
<1> SUFFICES ASSUME LedgerInv
             PROVE  /\ LastStored \in 0..settled /\ settled <= MaxHeight
                    /\ settled \in Nat
                    /\ StoredEvents = Ledger!Events(1, LastStored)
    BY DEF LedgerAgrees
<1>1. /\ settled \in Nat /\ settled <= Len(chain) /\ Len(chain) <= MaxHeight
      /\ Len(chain) \in Nat /\ ChainHistory
    BY DEF LedgerInv, LoneInv, VotesInv, SettledInv, ChainInv, ChainHistory
<1>2. settled <= MaxHeight
    BY <1>1, ChainAssumption
<1>3. CASE cursor = None
  <2>1. votes = {} /\ LastStored = 0
    BY <1>3 DEF LedgerInv, LoneInv, Exact, LastStored
  <2>2. 1..0 = {}
    OBVIOUS
  <2> QED
    BY <1>1, <1>2, <2>1, <2>2 DEF StoredEvents, Ledger!Events
<1>4. CASE cursor # None
  <2> DEFINE all == Entries(0, cursor)
  <2>1. /\ LastStored = cursor /\ cursor \in Nat /\ cursor <= settled
        /\ cursor \in Int /\ 0 \in Int /\ Stored = VoteRows(all)
    BY <1>4 DEF LedgerInv, LoneInv, Exact, VotesInv, SettledInv,
                OnlySettledLogs, LastStored
  <2>2. \A e \in all : /\ e.block \in 1..Len(chain) /\ e.block <= cursor
                       /\ e.index \in DOMAIN chain[e.block]
                       /\ e.log = chain[e.block][e.index] /\ e.log \in Logs
                       /\ e.block \in Nat
    BY <1>1, <2>1, EntriesAre
  <2>3. \A n \in 1..Len(chain) : \A i \in DOMAIN chain[n] :
            n <= cursor => EntryAt(n, i) \in all
    <3>1. \A n \in 1..Len(chain) : 0 <= n
        BY <1>1
    <3> QED
        BY <1>1, <2>1, <3>1, EntriesAre
  <2> HIDE DEF all
  <2>4. ASSUME NEW r \in votes
        PROVE  r.block \in 1..cursor /\ r.poll \in SettledFacts[r.block]
    <3>1. Unlabelled(r) \in VoteRows(all)
        BY <2>1 DEF Stored
    <3>2. PICK e \in all : /\ e.log.event \in DOMAIN VoteType /\ SameLog(e, r)
                           /\ r.poll = e.log.address
        BY <3>1, RowIsOfLog
    <3>3. e.log.address \in Polls
        BY <2>2, <3>2 DEF Logs, VoteType
    <3>4. r.block = e.block /\ e.block \in 1..cursor /\ e.block \in 1..settled
        BY <1>1, <2>1, <2>2, <3>2 DEF SameLog
    <3> QED
        BY <2>2, <3>2, <3>3, <3>4 DEF SettledFacts
  <2>5. ASSUME NEW n \in 1..cursor, NEW p \in SettledFacts[n]
        PROVE  \E r \in votes : r.block = n /\ r.poll = p
    <3>1. n \in 1..settled /\ n \in 1..Len(chain) /\ n <= cursor
        BY <1>1, <2>1
    <3>2. PICK i \in DOMAIN chain[n] :
              chain[n][i].address = p /\ chain[n][i].event \in DOMAIN VoteType
        BY <3>1 DEF SettledFacts
    <3> DEFINE e == EntryAt(n, i)
    <3>3. e \in all /\ e.log = chain[n][i] /\ e.block = n
        BY <2>3, <3>1 DEF EntryAt
    <3> HIDE DEF e
    <3>4. PICK o : o \in Rowed(e.log)
        BY <2>2, <3>3 DEF Rowed, Logs
    <3>5. RowOf(e, o) \in Stored
        BY <2>1, <3>2, <3>3, <3>4, VoteRowsAre
    <3>6. PICK r \in votes : Unlabelled(r) = RowOf(e, o)
        BY <3>5 DEF Stored
    <3>7. PICK d \in all : Unlabelled(r) = RowOf(d, r.option) /\ SameLog(d, r)
                           /\ r.poll = d.log.address
        BY <2>1, <3>5, <3>6, RowIsOfLog
    <3> QED
        BY <3>2, <3>3, <3>6, <3>7 DEF RowOf, SameLog
  <2>6. StoredEvents = Ledger!Events(1, cursor)
    BY <2>4, <2>5 DEF StoredEvents, Ledger!Events
  <2> QED
    BY <1>1, <1>2, <2>1, <2>6
<1> QED
    BY <1>3, <1>4

\* The events up to a block are those up to a lower one, and those above it.
LEMMA EventsJoin ==
    ASSUME NEW mid \in Nat, NEW to \in Nat, mid <= to
    PROVE  /\ Ledger!Events(1, to) = Ledger!Events(1, mid) \cup Ledger!Events(mid + 1, to)
           /\ {e \in Ledger!Events(1, to) : e.block <= mid} = Ledger!Events(1, mid)
<1>1. 1..to = (1..mid) \cup (mid + 1..to)
    OBVIOUS
<1>2. \A n \in 1..to : n \in 1..mid <=> n <= mid
    OBVIOUS
<1> QED
    BY <1>1, <1>2 DEF Ledger!Events

\* The settled blocks stay, and one more may join them.
LEMMA ChainImplementsLedger ==
    ASSUME LedgerInv, LedgerInv', Grows, settled' \in {settled, settled + 1},
           UNCHANGED indexVars
    PROVE  [Ledger!LedgerNext]_Ledger!ledgerVars
<1>1. UNCHANGED <<LastStored, StoredEvents>>
    BY DEF indexVars, LastStored, StoredEvents
<1>2. ChainInv /\ ChainInv'
    BY DEF LedgerInv, LoneInv, VotesInv, SettledInv
<1>3. \A n \in 1..settled : SettledFacts'[n] = SettledFacts[n] /\ n \in 1..settled'
    BY <1>2 DEF Grows, SettledFacts, ChainInv
<1>4. /\ SettledFacts \in Seq(SUBSET Polls) /\ Len(SettledFacts) = settled
      /\ settled \in Nat
    BY <1>2, FactsAreASequence DEF ChainInv
<1>5. SettledFacts' \in [1..settled' -> SUBSET Polls] /\ settled' \in Nat
    BY <1>2 DEF SettledFacts, ChainInv
<1>6. CASE settled' = settled
  <2>1. SettledFacts \in [1..settled -> SUBSET Polls]
    BY DEF SettledFacts
  <2>2. SettledFacts' = SettledFacts
    BY <1>3, <1>5, <1>6, <2>1
  <2> QED
    BY <1>1, <2>2 DEF Ledger!ledgerVars
<1>7. CASE settled' = settled + 1
  <2> DEFINE happened == SettledFacts'[settled + 1]
  <2>1. happened \in SUBSET Polls
    BY <1>4, <1>5, <1>7
  <2>2. SettledFacts' = Append(SettledFacts, happened)
    <3>1. /\ Append(SettledFacts, happened) \in Seq(SUBSET Polls)
          /\ Len(Append(SettledFacts, happened)) = settled + 1
          /\ \A n \in 1..settled : Append(SettledFacts, happened)[n] = SettledFacts[n]
          /\ Append(SettledFacts, happened)[settled + 1] = happened
        BY <1>4, <2>1, AppendProperties
    <3>2. SettledFacts' \in Seq(SUBSET Polls) /\ Len(SettledFacts') = settled + 1
        BY <1>4, <1>5, <1>7
    <3> HIDE DEF happened
    <3> DEFINE longer == Append(SettledFacts, happened)
    <3> HIDE DEF longer
    <3>3. \A n \in 1..settled + 1 : SettledFacts'[n] = longer[n]
      <4>1. \A n \in 1..settled + 1 : n \in 1..settled \/ n = settled + 1
        BY <1>4
      <4> QED
        BY <1>3, <3>1, <4>1 DEF happened, longer
    <3>4. longer \in Seq(SUBSET Polls) /\ Len(longer) = settled + 1
        BY <3>1 DEF longer
    <3>5. SettledFacts' = longer
        BY <3>2, <3>3, <3>4, SeqEqual
    <3> QED
        BY <3>5 DEF longer
  <2>3. settled < MaxHeight
    <3>1. settled' <= Len(chain)' /\ Len(chain)' <= MaxHeight /\ Len(chain)' \in Nat
        BY <1>2 DEF LedgerInv, LoneInv, VotesInv, ChainInv
    <3> QED
        BY <1>4, <1>7, <3>1, ChainAssumption
  <2> HIDE DEF happened
  <2>4. Ledger!Settle
    BY <1>1, <1>4, <2>1, <2>2, <2>3 DEF Ledger!Settle
  <2> QED
    BY <2>4 DEF Ledger!LedgerNext
<1> QED
    BY <1>6, <1>7

\* The cursor moves on or back, and the events stored with it.
LEMMA SyncerImplementsLedger ==
    ASSUME LedgerInv, LedgerAgrees, LedgerAgrees', UNCHANGED chainVars
    PROVE  [Ledger!LedgerNext]_Ledger!ledgerVars
<1>1. SettledFacts' = SettledFacts /\ settled' = settled
    BY DEF SettledFacts, chainVars
<1>2. /\ LastStored \in 0..settled /\ settled <= MaxHeight /\ settled \in Nat
      /\ StoredEvents = Ledger!Events(1, LastStored)
    BY DEF LedgerAgrees
<1>3. /\ LastStored' \in 0..settled /\ StoredEvents' = Ledger!Events(1, LastStored)'
    BY <1>1 DEF LedgerAgrees
<1>4. StoredEvents' = Ledger!Events(1, LastStored')
    BY <1>1, <1>3 DEF Ledger!Events
<1>5. Len(SettledFacts) = settled
    BY FactsAreASequence DEF LedgerInv, LoneInv, VotesInv, SettledInv
<1>6. LastStored' \in 0..MaxHeight /\ LastStored \in Nat /\ LastStored' \in Nat
    BY <1>2, <1>3, ChainAssumption
<1>7. CASE LastStored' = LastStored
    BY <1>1, <1>2, <1>4, <1>7 DEF Ledger!ledgerVars
<1>8. CASE LastStored < LastStored'
  <2>1. StoredEvents' = StoredEvents \cup Ledger!Events(LastStored + 1, LastStored')
    BY <1>2, <1>4, <1>6, <1>8, EventsJoin
  <2>2. Ledger!Advance(LastStored')
    BY <1>1, <1>3, <1>5, <1>8, <2>1 DEF Ledger!Advance
  <2> QED
    BY <1>6, <2>2 DEF Ledger!LedgerNext
<1>9. CASE LastStored' < LastStored
  <2>1. StoredEvents' = {e \in StoredEvents : e.block <= LastStored'}
    BY <1>2, <1>4, <1>6, <1>9, EventsJoin
  <2>2. Ledger!Rewind(LastStored')
    BY <1>1, <1>9, <2>1 DEF Ledger!Rewind
  <2> QED
    BY <1>6, <2>2 DEF Ledger!LedgerNext
<1> QED
    BY <1>6, <1>7, <1>8, <1>9

LEMMA LedgerInvInit == Init => LedgerInv /\ Ledger!LedgerInit
<1> SUFFICES ASSUME Init PROVE LedgerInv /\ Ledger!LedgerInit
    OBVIOUS
<1>1. LoneInv /\ Len(chain) = 0 /\ cursor = None /\ votes = {} /\ settled = 0
    BY LoneInit DEF Init, ChainInit
<1>2. LedgerInv
    BY <1>1, ChainAssumption DEF LedgerInv
<1>3. SettledFacts = <<>>
  <2>1. ChainInv
    BY <1>1 DEF LoneInv, VotesInv, SettledInv
  <2>2. SettledFacts \in Seq(SUBSET Polls) /\ Len(SettledFacts) = 0
    BY <1>1, <2>1, FactsAreASequence
  <2> QED
    BY <2>2
<1>4. LastStored = 0 /\ StoredEvents = {}
    BY <1>1 DEF LastStored, StoredEvents
<1> QED
    BY <1>2, <1>3, <1>4 DEF Ledger!LedgerInit

LEMMA LedgerInvNext ==
    ASSUME Syncers = {Loop}
    PROVE  LedgerInv /\ FactoryIsIndexed /\ [Next]_vars => LedgerInv'
<1> SUFFICES ASSUME LedgerInv, FactoryIsIndexed, [Next]_vars PROVE LedgerInv'
    OBVIOUS
<1>1. LoneInv'
    BY LoneNext DEF LedgerInv
<1>2. Len(chain) \in Nat /\ Len(chain) <= MaxHeight /\ chain \in Seq(Blocks)
    BY DEF LedgerInv, LoneInv, VotesInv, SettledInv, ChainInv
<1>3. ASSUME NEW txs \in Menu, Mine(txs)
      PROVE  Len(chain') <= MaxHeight
  <2> DEFINE block == Mined(txs)
  <2>1. chain' = Append(chain, block) /\ block \in Blocks /\ Len(chain) < MaxHeight
    BY <1>3 DEF Mine, ChainHead, Blocks
  <2> HIDE DEF block
  <2>2. Len(chain') = Len(chain) + 1
    BY <1>2, <2>1
  <2> QED
    BY <1>2, <2>1, <2>2, ChainAssumption
<1>4. ASSUME NEW fork \in 0..MaxHeight, Reorg(fork)
      PROVE  Len(chain') <= MaxHeight
  <2>1. chain' = SubSeq(chain, 1, fork) /\ fork < Len(chain) /\ fork \in Nat
    BY <1>4 DEF Reorg, ChainHead
  <2>2. Len(chain') = fork
    BY <1>2, <2>1
  <2> QED
    BY <1>2, <2>1, <2>2, ChainAssumption
<1>5. UNCHANGED chainVars => Len(chain') <= MaxHeight
    BY <1>2 DEF chainVars
<1>6. UNCHANGED vars => UNCHANGED chainVars
    BY DEF vars, chainVars
<1> QED
    BY <1>1, <1>3, <1>4, <1>5, <1>6 DEF LedgerInv, Next, ChainNext

LEMMA LedgerStep ==
    LedgerInv /\ LedgerAgrees /\ LedgerInv' /\ LedgerAgrees' /\ [Next]_vars
        => [Ledger!LedgerNext]_Ledger!ledgerVars
<1> SUFFICES ASSUME LedgerInv, LedgerAgrees, LedgerInv', LedgerAgrees', [Next]_vars
             PROVE  [Ledger!LedgerNext]_Ledger!ledgerVars
    OBVIOUS
<1>1. ChainInv
    BY DEF LedgerInv, LoneInv, VotesInv, SettledInv
<1>2. ASSUME NEW txs \in Menu, Mine(txs), UNCHANGED indexVars
      PROVE  [Ledger!LedgerNext]_Ledger!ledgerVars
  <2>1. settled' \in {settled, settled + 1}
    BY <1>1, <1>2, ChainAssumption DEF Mine, ChainInv, ChainHead
  <2> QED
    BY <1>1, <1>2, <2>1, MineStep, ChainImplementsLedger
<1>3. ASSUME NEW fork \in 0..MaxHeight, Reorg(fork), UNCHANGED indexVars
      PROVE  [Ledger!LedgerNext]_Ledger!ledgerVars
  <2>1. settled' = settled
    BY <1>3 DEF Reorg
  <2> QED
    BY <1>1, <1>3, <2>1, ReorgStep, ChainImplementsLedger
<1>4. CASE UNCHANGED chainVars
    BY <1>4, SyncerImplementsLedger
<1>5. UNCHANGED vars => UNCHANGED chainVars
    BY DEF vars, chainVars
<1> QED
    BY <1>2, <1>3, <1>4, <1>5 DEF Next, ChainNext

\* A lone syncer shows its readers settled blocks only, each in whole, and
\* never the same block twice with other events: it implements IndexLedger.
THEOREM LoneSyncerImplementsLedger ==
    ASSUME Syncers = {Loop}
    PROVE  Spec /\ []FactoryIsIndexed => ImplementsLedger
<1>1. LedgerInv /\ FactoryIsIndexed /\ [Next]_vars => LedgerInv'
    BY LedgerInvNext
<1> QED
    BY <1>1, LedgerInvInit, StoredUpToTheCursor, LedgerStep, PTL
    DEF Spec, ImplementsLedger, Ledger!LedgerSpec

=============================================================================
