--------------------------- MODULE PollMechanisms ---------------------------
(***************************************************************************)
(* The creation-time configuration of a poll and the predicate that        *)
(* decides whether a configuration may be used, after the Solidity library *)
(* PollMechanisms.  The refusal sentences are abstracted to their names;   *)
(* the order in which the rules are tried is kept, because the library     *)
(* calls it part of its interface.                                         *)
(***************************************************************************)
EXTENDS Naturals

\* 100% of the eligible power, in basis points.
MaxBps == 10000

\* Everything that decides how a vote is counted.
PollConfig ==
    [openToAll : BOOLEAN, multiSelect : BOOLEAN, maxSelections : Nat,
     weighted : BOOLEAN, delegable : BOOLEAN,
     commitReveal : BOOLEAN, revealWindowSeconds : Nat,
     quorumBps : Nat, timelockSeconds : Nat]

\* Single-select, equal weight, no delegation, public ballots, whitelist.
DefaultConfig ==
    [openToAll |-> FALSE, multiSelect |-> FALSE, maxSelections |-> 0,
     weighted |-> FALSE, delegable |-> FALSE,
     commitReveal |-> FALSE, revealWindowSeconds |-> 0,
     quorumBps |-> 0, timelockSeconds |-> 0]

\* The first governance rule the configuration breaks, or "ok".
ValidateGovernance(c) ==
    IF c.quorumBps > MaxBps THEN "quorumAboveMax"
    ELSE IF c.quorumBps # 0 /\ c.openToAll THEN "quorumNeedsWhitelist"
    ELSE "ok"

\* The first rule the configuration breaks, in the library's order, or "ok".
Validate(c) ==
    IF c.multiSelect /\ c.maxSelections < 2 THEN "multiSelectNeedsTwo"
    ELSE IF c.weighted /\ c.openToAll       THEN "weightedNeedsWhitelist"
    ELSE IF c.commitReveal /\ c.revealWindowSeconds = 0
         THEN "commitRevealNeedsWindow"
    ELSE IF c.commitReveal /\ c.delegable   THEN "commitRevealNotDelegable"
    ELSE ValidateGovernance(c)
=============================================================================
