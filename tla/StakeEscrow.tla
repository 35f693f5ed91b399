----------------------------- MODULE StakeEscrow ----------------------------
(***************************************************************************)
(* What a poll promises about deposits, without ballots, phases or books:  *)
(* an account deposits one stake at a time and only while the escrow is    *)
(* open, gets it back once, and what nobody took back can be forfeited as  *)
(* a whole after the escrow has closed.                                    *)
(***************************************************************************)
EXTENDS Naturals, FiniteSets

CONSTANTS Accounts, Stake

VARIABLES
    open,     \* whether deposits are taken
    holding,  \* the accounts that have a stake to get back
    pot       \* the ether held

vars == <<open, holding, pot>>

Init == open = TRUE /\ holding = {} /\ pot = 0

Deposit(a) ==
    /\ open /\ a \notin holding
    /\ holding' = holding \cup {a}
    /\ pot' = pot + Stake
    /\ UNCHANGED open

Return(a) ==
    /\ a \in holding
    /\ holding' = holding \ {a}
    /\ pot' = pot - Stake
    /\ UNCHANGED open

Close == open /\ open' = FALSE /\ UNCHANGED <<holding, pot>>

Forfeit ==
    /\ ~open /\ holding # {}
    /\ holding' = {} /\ pot' = 0
    /\ UNCHANGED open

Next ==
    \/ \E a \in Accounts : Deposit(a) \/ Return(a)
    \/ Close
    \/ Forfeit

Spec == Init /\ [][Next]_vars
=============================================================================
