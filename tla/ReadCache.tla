----------------------------- MODULE ReadCache -----------------------------
(***************************************************************************)
(* The read-through cache in front of the poll list: one entry, a time to  *)
(* live, and the promise of the read in flight shared by whoever asks      *)
(* meanwhile.  What is read, and when, is the business of the module that  *)
(* extends this one; no caller in the program drops the entry by hand.     *)
(***************************************************************************)
EXTENDS Integers, FiniteSets

CONSTANTS
    Readers,  \* requests of the server that want the list
    Ttl       \* ttlMs

ASSUME CacheAssumption == IsFiniteSet(Readers) /\ Ttl \in Nat

VARIABLES
    now,      \* Date.now()
    entry,    \* the promise the cache keeps and the moment it expires
    promise,  \* the reads: when each started, how it ended, what it returned
    holds     \* reader -> the read it awaits and when it asked for it

cacheVars == <<entry, promise, holds>>

Reads == 1 .. Cardinality(Readers) + 1
NoEntry == [read |-> 0, expiresAt |-> 0]
NoRead == [startedAt |-> 0, status |-> "free", value |-> {}]
NotAsking == [read |-> 0, askedAt |-> 0]

CacheInit ==
    /\ entry = NoEntry
    /\ promise = [n \in Reads |-> NoRead]
    /\ holds = [r \in Readers |-> NotAsking]

\* A read in flight has answered nothing; "listed" is a part of the way.
Flying(n) == promise[n].status \in {"flying", "listed"}

\* A promise nobody refers to any more is garbage, and its number is reused.
Referenced(p) ==
    [n \in Reads |->
        IF n = entry'.read \/ \E r \in Readers : holds'[r].read = n THEN p[n]
        ELSE NoRead]

Unused == {n \in Reads : promise[n] = NoRead}

Start(r) ==
    LET n == CHOOSE m \in Unused : TRUE
    IN  /\ entry' = [read |-> n, expiresAt |-> now + Ttl]
        /\ holds' = [holds EXCEPT ![r] = [read |-> n, askedAt |-> now]]
        /\ promise' = Referenced([promise EXCEPT ![n] =
               [startedAt |-> now, status |-> "flying", value |-> {}]])

\* Shares the read the cache holds, in flight or not, or starts one and keeps
\* it before it has answered.
Get(r) ==
    /\ holds[r] = NotAsking
    /\ \/ /\ entry.read # 0 /\ entry.expiresAt > now
          /\ holds' = [holds EXCEPT ![r] = [read |-> entry.read, askedAt |-> now]]
          /\ UNCHANGED <<entry, promise>>
       \/ /\ entry.read = 0 \/ entry.expiresAt <= now
          /\ Start(r)

\* Mutant: the time to live is counted from the answer.
SettleAndExtend(n, list) ==
    /\ Flying(n)
    /\ promise' = [promise EXCEPT ![n].status = "ok", ![n].value = list]
    /\ entry' = IF entry.read = n THEN [entry EXCEPT !.expiresAt = now + Ttl]
                                  ELSE entry
    /\ UNCHANGED holds

\* What the read returns is what its source held at some moment of the read.
Settle(n, list) ==
    /\ Flying(n)
    /\ promise' = [promise EXCEPT ![n].status = "ok", ![n].value = list]
    /\ UNCHANGED <<entry, holds>>

\* Mutant: a failure drops whatever the cache holds by then.
FailAndDrop(n) ==
    /\ Flying(n)
    /\ promise' = [promise EXCEPT ![n].status = "failed"]
    /\ entry' = NoEntry
    /\ UNCHANGED holds

\* The cache stops holding a failed read, unless it holds another by then.
Fail(n) ==
    /\ Flying(n)
    /\ promise' = [promise EXCEPT ![n].status = "failed"]
    /\ entry' = IF entry.read = n THEN NoEntry ELSE entry
    /\ UNCHANGED holds

\* The awaiting request goes on with the list, or with the rejection.
Receive(r) ==
    /\ holds[r] # NotAsking /\ ~Flying(holds[r].read)
    /\ holds' = [holds EXCEPT ![r] = NotAsking]
    /\ UNCHANGED entry
    /\ promise' = Referenced(promise)

-----------------------------------------------------------------------------
\* Whatever fails or expires meanwhile, two reads in flight were started a
\* whole time to live apart: a burst of requests costs one read, and the
\* failure of an old read does not cost the new one its place.
OneReadPerTtl ==
    \A m, n \in Reads :
        m # n /\ Flying(m) /\ Flying(n) =>
            \/ promise[m].startedAt >= promise[n].startedAt + Ttl
            \/ promise[n].startedAt >= promise[m].startedAt + Ttl

\* A read that failed is not served to anyone who asks later ("a FAILED read
\* is never cached").
NoFailureIsCached == entry.read # 0 => promise[entry.read].status # "failed"

\* A slow, failing source costs one call per time to live and no outage longer
\* than itself.
CacheIsSound == OneReadPerTtl /\ NoFailureIsCached
=============================================================================
