---------------------------- MODULE IndexLedger ----------------------------
(***************************************************************************)
(* What the readers of the index rely on: blocks that no reorganisation    *)
(* can take away, a cursor that stays within them, and the events of       *)
(* exactly the blocks up to the cursor.  Events and cursor move together,  *)
(* forward by a batch and back by a rewind.                                *)
(***************************************************************************)
EXTENDS Integers, Sequences

CONSTANTS
    Polls,
    MaxBlock    \* bound: settled blocks

VARIABLES
    facts,      \* facts[n]: the polls something happened to in settled block n
    cursor,     \* sync_cursor.last_block
    indexed     \* the events stored: [block, poll]

ledgerVars == <<facts, cursor, indexed>>

Events(from, to) ==
    UNION {{[block |-> n, poll |-> p] : p \in facts[n]} : n \in from..to}

LedgerInit == facts = <<>> /\ cursor = 0 /\ indexed = {}

Settle ==
    /\ Len(facts) < MaxBlock
    /\ \E happened \in SUBSET Polls : facts' = Append(facts, happened)
    /\ UNCHANGED <<cursor, indexed>>

Advance(to) ==
    /\ cursor < to /\ to <= Len(facts)
    /\ cursor' = to
    /\ indexed' = indexed \cup Events(cursor + 1, to)
    /\ UNCHANGED facts

Rewind(to) ==
    /\ to < cursor
    /\ cursor' = to
    /\ indexed' = {e \in indexed : e.block <= to}
    /\ UNCHANGED facts

LedgerNext == Settle \/ \E to \in 0..MaxBlock : Advance(to) \/ Rewind(to)

LedgerSpec == LedgerInit /\ [][LedgerNext]_ledgerVars
=============================================================================
