----------------------------- MODULE Consistency -----------------------------
(***************************************************************************)
(* The consistency check of one poll (web/src/lib/report.ts): the tally    *)
(* the index holds against the one the contract holds, with the ballots of *)
(* the blocks the index has not read added back.  It runs in requests of   *)
(* its own, beside the indexer and the chain: it reads a snapshot of the   *)
(* index, then the height and the tally of the chain, then its logs.       *)
(* Every ballot has power 1 here.                                          *)
(***************************************************************************)
EXTENDS IndexerProperties, Totals

CONSTANT MaxUnindexedBlocks   \* a longer range is not enumerated

ASSUME CheckAssumption == MaxUnindexedBlocks \in Nat /\ IsFiniteSet(Voters)

VARIABLE check   \* the check in progress, and what it has read so far

checkedVars == <<chainVars, indexVars, check>>

NoCheck == [pc |-> "idle"]

-----------------------------------------------------------------------------
(***************************************************************************)
(* Tallies: how many ballots name each option, over the options known.     *)
(***************************************************************************)

\* The view option_tally.
IndexedTally(p) ==
    [o \in {r.option : r \in {x \in options : x.poll = p}} |->
        Cardinality({v \in Voters : o \in CurrentVotes(p, v)})]

\* results() of the contract after a block, empty before the poll exists.
OnChainTally(p, n) ==
    [o \in IF Exists(p, LogsUpTo(n)) THEN OptionIds ELSE {} |->
        Cardinality({v \in Voters : o \in Standing(p, v, LogsUpTo(n))})]

\* One for every row of the blocks that are not indexed, withdrawals aside.
PendingVotes(p, from, to) ==
    LET rows == {r \in VoteRows(Fetched(p, from, to)) : r.type # "withdrawn"}
    IN  [o \in 0..NumOptions |-> Cardinality({r \in rows : r.option = o})]

CompareTally(onChain, indexed, pending) ==
    /\ DOMAIN indexed = DOMAIN onChain
    /\ \A o \in DOMAIN onChain : onChain[o] = indexed[o] + pending[o]
    /\ Total(onChain, DOMAIN onChain)
         = Total(indexed, DOMAIN indexed) + Total(pending, DOMAIN pending)

ClassifyConsistency(consistent, reconciled) ==
    IF consistent THEN "consistent" ELSE IF reconciled THEN "divergent" ELSE "lagging"

-----------------------------------------------------------------------------
(***************************************************************************)
(* The steps of one check.  The tally and the logs are both pinned to the  *)
(* height, on whatever chain there is when each of them is read.           *)
(***************************************************************************)

\* Tally and cursor in one transaction.
ReadIndexSnapshot(p) ==
    /\ check.pc = "idle"
    /\ check' = [pc |-> "chain", poll |-> p, indexed |-> IndexedTally(p),
                 cursor |-> cursor, head |-> 0, tally |-> <<>>]

\* getBlockNumber and the tally at that height.  The endpoint may answer some
\* blocks behind, and then behind the cursor; a height that is old by the time
\* the tally is read is one that is further behind.  A poll that is not on the
\* chain at that height cannot be read.
ReadOnChain(lag) ==
    LET head == ChainHead - lag
    IN  /\ check.pc = "chain"
        /\ lag <= ChainHead
        /\ Exists(check.poll, LogsUpTo(head))
        /\ check' = [check EXCEPT !.pc = "logs", !.head = head,
                                  !.tally = OnChainTally(check.poll, head)]

\* Mutant: the cursor is read on its own, later than the tally.
FromLatestBlock == LastIndexed + 1

FromBlock == IF check.cursor = None THEN 0 ELSE check.cursor + 1

UnindexedBlocks ==
    IF check.head >= FromBlock THEN check.head - FromBlock + 1 ELSE 0

\* The status of the check, from the logs of the range that is not indexed if
\* it is short enough.
Status ==
    LET reconciled == UnindexedBlocks <= MaxUnindexedBlocks
        pending == IF reconciled THEN PendingVotes(check.poll, FromBlock, check.head)
                                 ELSE [o \in 0..NumOptions |-> 0]
    IN  ClassifyConsistency(CompareTally(check.tally, check.indexed, pending),
                            reconciled)

\* The logs, and the answer: the request keeps nothing.
Report(status) == check.pc = "logs" /\ check' = NoCheck /\ status = Status

\* A read that throws: the status is unavailable.
Unavailable == check.pc # "idle" /\ check' = NoCheck

CheckNext ==
    \/ \E p \in Polls : ReadIndexSnapshot(p)
    \/ \E lag \in 0..MaxLag : ReadOnChain(lag)
    \/ Unavailable
    \/ \E status \in {"consistent", "lagging", "divergent"} : Report(status)

CheckedNext ==
    \/ Next /\ UNCHANGED check
    \/ CheckNext /\ UNCHANGED <<chainVars, indexVars>>

CheckedSpec ==
    /\ Init /\ check = NoCheck
    /\ [][CheckedNext]_checkedVars
    /\ WF_vars(SyncStep(Loop) /\ UNCHANGED chainVars)
    /\ WF_vars(Mine(<<>>) /\ UNCHANGED indexVars)

-----------------------------------------------------------------------------
\* The logs of the poll under check that the index has not read.
Unread == {e \in Fetched(check.poll, FromBlock, check.head) :
              e.log.event \in DOMAIN VoteType}

\* The endpoint that gave the height had not seen the block of the cursor.
BehindTheCursor == check.cursor # None /\ check.head < check.cursor

\* A reorganisation has come between the tally and the logs.
TallyIsGone ==
    \/ check.head > ChainHead
    \/ check.tally # OnChainTally(check.poll, check.head)

\* The index of a poll whose options it holds, where nothing but first ballots
\* has happened since, is not accused, however the check is caught between two
\* steps of the indexer and however far the chain has moved on between its own,
\* but for two cases the code does not exclude: the height came from an
\* endpoint behind the cursor, or the chain was reorganised between the last
\* two reads.
FirstBallotsReconcile ==
    [][Report("divergent") =>
        \/ DOMAIN check.indexed # OptionIds
        \/ BehindTheCursor \/ TallyIsGone
        \/ \E e \in Unread :
              \/ e.log.event # "VoteRecorded"
              \/ \E d \in Unread \ {e} : d.log.subject = e.log.subject
              \/ Standing(check.poll, e.log.subject, LogsUpTo(FromBlock - 1)) # {}
      ]_checkedVars

\* A disagreement after reconciliation is a real fault: the index did not hold
\* at its cursor what the contract held there.
DivergenceIsAFault ==
    [][Report("divergent") /\ check.cursor # None =>
        check.indexed # OnChainTally(check.poll, check.cursor)]_checkedVars
=============================================================================
