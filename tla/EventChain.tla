----------------------------- MODULE EventChain -----------------------------
(***************************************************************************)
(* The chain as the indexer sees it: blocks of logs, emitted by the        *)
(* factory and by the polls it created.  A block can still be replaced     *)
(* until FinalityDepth blocks are above it; settled is the highest block   *)
(* that no reorganisation can take away any more.                          *)
(*                                                                         *)
(* Only the logs the index keeps a table for are here, and of those the    *)
(* refunds, the whitelist and the phases are left out: they are stored     *)
(* by the same insert as the votes and nothing is derived from them.  No   *)
(* option is removed: the index does not replay the renumbering.           *)
(***************************************************************************)
EXTENDS Integers, Sequences, SequencesExt

CONSTANTS
    Factory,        \* the address of the factory
    Polls,          \* the addresses polls are deployed at
    SealedPolls,    \* the polls whose ballots are committed and then revealed
    Voters,
    NumOptions,     \* options of a new poll
    None,           \* nobody, nothing
    Menu,           \* the blocks that may be mined: sequences of transactions
    FinalityDepth,  \* no reorganisation goes deeper than this
    MaxHeight,      \* bound: blocks on the chain
    MaxReorgs       \* bound: reorganisations

\* The options a ballot can name.
OptionIds == 1..NumOptions

\* The calls that leave logs.
Transactions ==
    [call : {"createPoll", "updateOption", "vote", "withdrawVote", "commit",
             "reveal", "refund"},
     poll : Polls, voter : Voters, ids : SUBSET OptionIds]

ASSUME ChainAssumption ==
    /\ Factory \notin Polls /\ None \notin Voters
    /\ \A txs \in Menu : txs \in Seq(Transactions)
    /\ SealedPolls \subseteq Polls
    /\ NumOptions \in Nat
    /\ FinalityDepth \in Nat
    /\ MaxHeight \in Nat
    /\ MaxReorgs \in Nat

VARIABLES
    chain,      \* chain[n]: the logs of block n; block 0 holds none
    settled,    \* history: no block up to this height is ever replaced
    reorgs      \* the reorganisations so far

chainVars == <<chain, settled, reorgs>>

ChainHead == Len(chain)

-----------------------------------------------------------------------------
(***************************************************************************)
(* Transactions and the logs they leave.                                   *)
(***************************************************************************)

Log(address, event, subject, ids) ==
    [address |-> address, event |-> event, subject |-> subject, ids |-> ids]

\* One log for each option, and then the factory's own.
Created(p) ==
    [o \in OptionIds |-> Log(p, "OptionAdded", None, {o})]
        \o <<Log(Factory, "PollCreated", p, {})>>

\* A transaction [call, poll, voter, ids] that does not revert.
EmittedBy(tx) ==
    CASE tx.call = "createPoll" -> Created(tx.poll)
      [] tx.call = "updateOption" ->
            <<Log(tx.poll, "OptionUpdated", None, tx.ids)>>
      [] tx.call \in {"vote", "reveal"} ->
            <<Log(tx.poll, "VoteRecorded", tx.voter, tx.ids)>>
      [] tx.call = "withdrawVote" ->
            <<Log(tx.poll, "VoteWithdrawn", tx.voter, {})>>
      [] tx.call = "commit" ->
            <<Log(tx.poll, "Committed", tx.voter, {})>>
      [] tx.call = "refund" ->
            <<Log(tx.poll, "CommitmentExpired", tx.voter, {})>>

\* The logs a poll has emitted about an account, by their places.
Own(p, v, logs) ==
    {i \in DOMAIN logs : logs[i].address = p /\ logs[i].subject = v}

\* The last of them is of this event.
LastWas(p, v, event, logs) ==
    \E i \in Own(p, v, logs) :
        logs[i].event = event /\ \A j \in Own(p, v, logs) : j <= i

Happened(p, event, logs) ==
    \E i \in DOMAIN logs : logs[i].address = p /\ logs[i].event = event

Exists(p, logs) ==
    \E i \in DOMAIN logs : logs[i].address = Factory /\ logs[i].subject = p

\* A ballot names options of the poll, and at least one.
Selection(ids) == ids # {} /\ ids \subseteq OptionIds

\* The contracts accept tx after a history of logs.
Accepted(tx, logs) ==
    LET p == tx.poll
        last(event) == LastWas(p, tx.voter, event, logs)
        closed == \E e \in {"VoteRecorded", "CommitmentExpired"} :
                      Happened(p, e, logs)
    IN  CASE tx.call = "createPoll" -> ~Exists(p, logs)
          [] tx.call = "updateOption" ->    \* in Setup only
                /\ Exists(p, logs) /\ tx.ids \subseteq OptionIds
                /\ \A e \in {"VoteRecorded", "Committed"} : ~Happened(p, e, logs)
          [] tx.call = "vote" ->
                Exists(p, logs) /\ p \notin SealedPolls /\ Selection(tx.ids)
          [] tx.call = "withdrawVote" ->
                \/ p \notin SealedPolls /\ last("VoteRecorded")
                \/ last("Committed") /\ ~closed
          [] tx.call = "commit" ->
                /\ Exists(p, logs) /\ p \in SealedPolls /\ ~closed
                /\ Own(p, tx.voter, logs) = {} \/ last("VoteWithdrawn")
          [] tx.call = "reveal" ->
                /\ last("Committed") /\ ~Happened(p, "CommitmentExpired", logs)
                /\ Selection(tx.ids)
          [] tx.call = "refund" -> last("Committed")

Mined(txs) == FlattenSeq([i \in DOMAIN txs |-> EmittedBy(txs[i])])

\* Every transaction of a block is accepted after the ones before it.
Valid(txs) ==
    \A i \in DOMAIN txs :
        Accepted(txs[i], FlattenSeq(chain) \o Mined(SubSeq(txs, 1, i - 1)))

-----------------------------------------------------------------------------
ChainInit == chain = <<>> /\ settled = 0 /\ reorgs = 0

Mine(txs) ==
    /\ ChainHead < MaxHeight
    /\ Valid(txs)
    /\ chain' = Append(chain, Mined(txs))
    /\ settled' = IF ChainHead + 1 - FinalityDepth > settled
                  THEN ChainHead + 1 - FinalityDepth ELSE settled
    /\ UNCHANGED reorgs

\* The chain leaves its youngest blocks for a branch that forks below them.
Reorg(fork) ==
    /\ reorgs < MaxReorgs
    /\ settled <= fork /\ fork < ChainHead
    /\ chain' = SubSeq(chain, 1, fork)
    /\ reorgs' = reorgs + 1
    /\ UNCHANGED settled

ChainNext ==
    \/ \E txs \in Menu : Mine(txs)
    \/ \E fork \in 0..MaxHeight : Reorg(fork)
=============================================================================
