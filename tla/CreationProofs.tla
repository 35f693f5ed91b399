--------------------------- MODULE CreationProofs ---------------------------
(***************************************************************************)
(* The creation of a poll, for any readers, texts, time to live and        *)
(* bounds: the cache in front of the list of polls, the list it serves,    *)
(* and the draft of the form.                                              *)
(***************************************************************************)
EXTENDS Creation, FiniteSetTheorems, TLAPS

CacheShape ==
    /\ now \in Nat
    /\ DOMAIN entry = {"read", "expiresAt"}
    /\ entry.read \in Reads \cup {0} /\ entry.expiresAt \in Nat
    /\ DOMAIN promise = Reads
    /\ \A n \in Reads :
         /\ DOMAIN promise[n] = {"startedAt", "status", "value"}
         /\ promise[n].startedAt \in Nat
    /\ DOMAIN holds = Readers
    /\ \A r \in Readers :
         /\ DOMAIN holds[r] = {"read", "askedAt"}
         /\ holds[r].read \in Reads \cup {0} /\ holds[r].askedAt \in Nat
         /\ holds[r].read = 0 => holds[r] = NotAsking

\* Who refers to a read, and what a read that somebody refers to is like.
Held(n) == \E r \in Readers : holds[r].read = n

KeptInv ==
    /\ \A n \in Reads : \/ promise[n] = NoRead
                        \/ promise[n].status # "free" /\ (n = entry.read \/ Held(n))
    /\ \A n \in Reads : Held(n) => promise[n].status # "free"
    /\ \A n \in Reads : Flying(n) => Held(n)

\* The entry expires a time to live after its read began, and every other read
\* in flight began a time to live ago.
EntryInv ==
    /\ entry.read # 0 =>
         /\ promise[entry.read].status \in {"flying", "listed", "ok"}
         /\ entry.expiresAt = promise[entry.read].startedAt + Ttl
    /\ \A n \in Reads :
         Flying(n) /\ n # entry.read => promise[n].startedAt + Ttl <= now
    /\ \A n \in Reads : promise[n].startedAt <= now

CacheInv == CacheShape /\ KeptInv /\ EntryInv /\ OneReadPerTtl

\* A list has the polls that were there when its read began, and whoever holds
\* it asked while it was fresh.
ListInv ==
    /\ polls \in Seq([creator : {Wallet}, text : Texts, at : Nat])
    /\ \A n \in Reads : promise[n].status \in {"listed", "ok"} =>
         \A i \in DOMAIN polls : polls[i].at < promise[n].startedAt =>
            \E row \in promise[n].value : row.poll = i
    /\ \A r \in Readers : holds[r].read # 0 =>
         \/ holds[r].askedAt < promise[holds[r].read].startedAt + Ttl
         \/ holds[r].askedAt = promise[holds[r].read].startedAt

\* The pending autosave is of what the form says; blank is never dropped.
DraftInv ==
    /\ form \in Forms /\ draft \in Forms \cup {Nothing}
    /\ saveTimer \in {Nothing, form}
    /\ gone \subseteq Texts
    /\ tx \in Transactions /\ orphan \in Transactions
    /\ DraftIsKept

-----------------------------------------------------------------------------
(***************************************************************************)
(* The cache.                                                              *)
(***************************************************************************)

LEMMA ReadsAreFinite ==
    /\ Cardinality(Readers) \in Nat /\ Reads \subseteq Nat \ {0}
    /\ IsFiniteSet(Reads) /\ Cardinality(Reads) = Cardinality(Readers) + 1
<1>1. Cardinality(Readers) \in Nat
    BY CacheAssumption, FS_CardinalityType
<1>2. IsFiniteSet(Reads) /\ Cardinality(Reads) = Cardinality(Readers) + 1
    BY <1>1, FS_Interval DEF Reads
<1> QED
    BY <1>1, <1>2 DEF Reads

\* There is a number for a read that begins: a reader that is not waiting
\* refers to none, the others and the cache to one each.
LEMMA AReadIsUnused ==
    ASSUME CacheShape, KeptInv, NEW r \in Readers, holds[r] = NotAsking
    PROVE  \E n \in Reads : promise[n] = NoRead
<1> DEFINE Others == Readers \ {r}
           reading == [q \in Others |-> holds[q].read]
           Waited == {holds[q].read : q \in Others}
<1>1. IsFiniteSet(Others) /\ Cardinality(Others) = Cardinality(Readers) - 1
    BY CacheAssumption, FS_RemoveElement
<1>2. IsFiniteSet(Waited) /\ Cardinality(Waited) <= Cardinality(Others)
  <2>1. reading \in Surjection(Others, Waited)
    BY DEF Surjection
  <2> HIDE DEF reading, Waited, Others
  <2> QED
    BY <1>1, <2>1, FS_Surjection
<1> HIDE DEF reading, Others
<1>3. /\ IsFiniteSet(Waited \cup {entry.read})
      /\ Cardinality(Waited \cup {entry.read}) <= Cardinality(Readers)
  <2> HIDE DEF Waited
  <2>1. Cardinality(Waited) \in Nat
    BY <1>2, FS_CardinalityType
  <2>2. /\ IsFiniteSet(Waited \cup {entry.read})
        /\ Cardinality(Waited \cup {entry.read}) <= Cardinality(Waited) + 1
    BY <1>2, <2>1, FS_AddElement
  <2> QED
    BY <1>1, <1>2, <2>1, <2>2, ReadsAreFinite, FS_CardinalityType
<1>4. SUFFICES ASSUME \A n \in Reads : promise[n] # NoRead
               PROVE  FALSE
    OBVIOUS
<1>5. Reads \in SUBSET (Waited \cup {entry.read})
  <2> SUFFICES ASSUME NEW n \in Reads, n # entry.read
               PROVE  n \in Waited
      OBVIOUS
  <2>1. PICK q \in Readers : holds[q].read = n
    BY <1>4 DEF KeptInv, Held
  <2>2. q # r
    BY <2>1, ReadsAreFinite DEF NotAsking
  <2> QED
    BY <2>1, <2>2 DEF Others
<1> HIDE DEF Waited
<1>6. Cardinality(Reads) <= Cardinality(Waited \cup {entry.read})
    BY <1>3, <1>5, FS_Subset
<1>7. Cardinality(Waited \cup {entry.read}) \in Nat
    BY <1>3, FS_CardinalityType
<1> QED
    BY <1>3, <1>6, <1>7, ReadsAreFinite

\* A read that begins: its number was free, the entry and the reader refer to
\* it, and of the others only those nobody refers to are dropped.
LEMMA Begins ==
    ASSUME CacheShape, KeptInv, NEW r \in Readers, holds[r] = NotAsking, Start(r)
    PROVE  \E n \in Reads :
             /\ promise[n] = NoRead
             /\ entry' = [read |-> n, expiresAt |-> now + Ttl]
             /\ holds' = [holds EXCEPT ![r] = [read |-> n, askedAt |-> now]]
             /\ DOMAIN promise' = Reads
             /\ promise'[n] = [startedAt |-> now, status |-> "flying", value |-> {}]
             /\ \A m \in Reads \ {n} :
                  promise'[m] = IF Held(m)' THEN promise[m] ELSE NoRead
<1> DEFINE n == CHOOSE m \in Unused : TRUE
<1>1. n \in Unused
    BY AReadIsUnused DEF Unused
<1>2. n \in Reads /\ promise[n] = NoRead
    BY <1>1 DEF Unused
<1>3. /\ entry' = [read |-> n, expiresAt |-> now + Ttl]
      /\ holds' = [holds EXCEPT ![r] = [read |-> n, askedAt |-> now]]
      /\ promise' = Referenced([promise EXCEPT ![n] =
               [startedAt |-> now, status |-> "flying", value |-> {}]])
    BY DEF Start
<1> HIDE DEF n
<1>4. /\ DOMAIN promise' = Reads
      /\ promise'[n] = [startedAt |-> now, status |-> "flying", value |-> {}]
    BY <1>2, <1>3 DEF Referenced, CacheShape
<1>5. ASSUME NEW m \in Reads \ {n}
      PROVE  promise'[m] = IF Held(m)' THEN promise[m] ELSE NoRead
    BY <1>2, <1>3 DEF Referenced, CacheShape, Held
<1> QED
    BY <1>2, <1>3, <1>4, <1>5

LEMMA StartKeeps ==
    ASSUME CacheInv, NEW r \in Readers, holds[r] = NotAsking, Start(r),
           entry.read = 0 \/ entry.expiresAt <= now, UNCHANGED now
    PROVE  CacheInv'
<1>1. CacheShape /\ KeptInv /\ EntryInv /\ OneReadPerTtl
    BY DEF CacheInv
<1>2. PICK n \in Reads :
        /\ promise[n] = NoRead
        /\ entry' = [read |-> n, expiresAt |-> now + Ttl]
        /\ holds' = [holds EXCEPT ![r] = [read |-> n, askedAt |-> now]]
        /\ DOMAIN promise' = Reads
        /\ promise'[n] = [startedAt |-> now, status |-> "flying", value |-> {}]
        /\ \A m \in Reads \ {n} :
             promise'[m] = IF Held(m)' THEN promise[m] ELSE NoRead
    BY <1>1, Begins
<1>3. n # 0 /\ 0 \notin Reads /\ now \in Nat /\ Ttl \in Nat /\ ~Flying(n)
    BY <1>1, <1>2, ReadsAreFinite, CacheAssumption DEF CacheShape, Flying, NoRead
<1>4. /\ DOMAIN holds' = Readers
      /\ holds'[r] = [read |-> n, askedAt |-> now]
      /\ \A q \in Readers \ {r} : holds'[q] = holds[q]
    BY <1>1, <1>2 DEF CacheShape
<1>5. \A m \in Reads \ {n} : Held(m)' <=> Held(m)
    BY <1>1, <1>3, <1>4 DEF Held, NotAsking
<1>6. CacheShape'
    BY <1>1, <1>2, <1>3, <1>4 DEF CacheShape, NoRead
<1>7. Held(n)'
    BY <1>4 DEF Held
<1>8. \A m \in Reads \ {n} :
        \/ promise'[m] = promise[m]
        \/ promise'[m] = NoRead /\ ~Held(m)'
    BY <1>2
<1>9. \A m \in Reads \ {n} :
        Flying(m)' => Flying(m) /\ promise'[m] = promise[m]
    BY <1>8 DEF Flying, NoRead
<1>10. KeptInv'
  <2>1. \A m \in Reads : \/ promise'[m] = NoRead
                         \/ promise'[m].status # "free" /\ Held(m)'
    BY <1>1, <1>2, <1>5, <1>7, <1>8 DEF KeptInv
  <2>2. \A m \in Reads : Held(m)' => promise'[m].status # "free"
    BY <1>1, <1>2, <1>5, <1>8 DEF KeptInv
  <2>3. \A m \in Reads : Flying(m)' => Held(m)'
    BY <1>1, <1>5, <1>7, <1>9 DEF KeptInv
  <2> QED
    BY <2>1, <2>2, <2>3 DEF KeptInv
<1>11. \A m \in Reads \ {n} : Flying(m)' => promise'[m].startedAt + Ttl <= now
    BY <1>1, <1>3, <1>9 DEF EntryInv, CacheShape
<1>12. EntryInv'
  <2>1. \A m \in Reads : promise'[m].startedAt <= now
    BY <1>1, <1>2, <1>3, <1>8 DEF EntryInv, NoRead
  <2>2. /\ entry'.read = n /\ promise'[n].status = "flying"
        /\ promise'[n].startedAt = now /\ entry'.expiresAt = now + Ttl
    BY <1>2
  <2> QED
    BY <1>3, <1>11, <2>1, <2>2 DEF EntryInv
<1>13. OneReadPerTtl'
  <2> SUFFICES ASSUME NEW k \in Reads, NEW m \in Reads, k # m, Flying(k)', Flying(m)'
               PROVE  \/ promise'[k].startedAt >= promise'[m].startedAt + Ttl
                      \/ promise'[m].startedAt >= promise'[k].startedAt + Ttl
      BY DEF OneReadPerTtl
  <2>0. promise'[n].startedAt = now
    BY <1>2
  <2>1. CASE k = n
    BY <1>3, <1>6, <1>11, <2>0, <2>1 DEF CacheShape
  <2>2. CASE m = n
    BY <1>3, <1>6, <1>11, <2>0, <2>2 DEF CacheShape
  <2>3. CASE k # n /\ m # n
    BY <1>1, <1>9, <2>3 DEF OneReadPerTtl
  <2> QED
    BY <2>1, <2>2, <2>3
<1> QED
    BY <1>6, <1>10, <1>12, <1>13 DEF CacheInv

\* A reader shares the read of the cache, finished or not.
LEMMA ShareKeeps ==
    ASSUME CacheInv, NEW r \in Readers, holds[r] = NotAsking, entry.read # 0,
           holds' = [holds EXCEPT ![r] = [read |-> entry.read, askedAt |-> now]],
           UNCHANGED <<entry, promise, now>>
    PROVE  CacheInv'
<1>1. CacheShape /\ KeptInv /\ EntryInv /\ OneReadPerTtl
    BY DEF CacheInv
<1>2. /\ DOMAIN holds' = Readers
      /\ holds'[r] = [read |-> entry.read, askedAt |-> now]
      /\ \A q \in Readers \ {r} : holds'[q] = holds[q]
      /\ entry.read \in Reads /\ 0 \notin Reads
    BY <1>1, ReadsAreFinite DEF CacheShape
<1>3. \A m \in Reads : Held(m)' <=> Held(m) \/ m = entry.read
    BY <1>1, <1>2 DEF Held, NotAsking
<1>4. \A m \in Reads : Flying(m)' <=> Flying(m)
    BY DEF Flying
<1>5. CacheShape'
    BY <1>1, <1>2 DEF CacheShape
<1>6. KeptInv'
    BY <1>1, <1>2, <1>3, <1>4 DEF KeptInv, EntryInv
<1>7. EntryInv' /\ OneReadPerTtl'
    BY <1>1, <1>4 DEF EntryInv, OneReadPerTtl
<1> QED
    BY <1>5, <1>6, <1>7 DEF CacheInv

\* A read answers, in part or at last.
LEMMA AnswerKeeps ==
    ASSUME CacheInv, NEW n \in Reads, Flying(n),
           NEW status \in {"listed", "ok"}, NEW list,
           promise' = [promise EXCEPT ![n].status = status, ![n].value = list],
           UNCHANGED <<entry, holds, now>>
    PROVE  CacheInv'
<1>1. CacheShape /\ KeptInv /\ EntryInv /\ OneReadPerTtl
    BY DEF CacheInv
<1>2. /\ DOMAIN promise' = Reads
      /\ DOMAIN promise'[n] = {"startedAt", "status", "value"}
      /\ promise'[n].status = status
      /\ promise'[n].startedAt = promise[n].startedAt
      /\ \A m \in Reads \ {n} : promise'[m] = promise[m]
    BY <1>1 DEF CacheShape
<1>3. \A m \in Reads : Held(m)' <=> Held(m)
    BY DEF Held
<1>4. \A m \in Reads : Flying(m)' => Flying(m)
    BY <1>2 DEF Flying
<1>5. CacheShape'
    BY <1>1, <1>2 DEF CacheShape
<1>6. KeptInv'
    BY <1>1, <1>2, <1>3, <1>4 DEF KeptInv
<1>7. EntryInv'
    BY <1>1, <1>2, <1>4 DEF EntryInv, CacheShape
<1>8. OneReadPerTtl'
    BY <1>1, <1>2, <1>4 DEF OneReadPerTtl
<1> QED
    BY <1>5, <1>6, <1>7, <1>8 DEF CacheInv

\* The entry of a read that fails is given up, that of another is not.
LEMMA FailKeeps ==
    ASSUME CacheInv, NEW n \in Reads, Fail(n), UNCHANGED now
    PROVE  CacheInv'
<1>1. CacheShape /\ KeptInv /\ EntryInv /\ OneReadPerTtl
    BY DEF CacheInv
<1>2. /\ DOMAIN promise' = Reads
      /\ DOMAIN promise'[n] = {"startedAt", "status", "value"}
      /\ promise'[n].status = "failed"
      /\ promise'[n].startedAt = promise[n].startedAt
      /\ \A m \in Reads \ {n} : promise'[m] = promise[m]
      /\ Flying(n) /\ UNCHANGED holds
      /\ entry' = (IF entry.read = n THEN NoEntry ELSE entry)
    BY <1>1 DEF CacheShape, Fail
<1>3. \A m \in Reads : Held(m)' <=> Held(m)
    BY <1>2 DEF Held
<1>4. \A m \in Reads : Flying(m)' => Flying(m) /\ m # n
    BY <1>2 DEF Flying
<1>5. CacheShape'
    BY <1>1, <1>2 DEF CacheShape, NoEntry
<1>6. KeptInv'
    BY <1>1, <1>2, <1>3, <1>4 DEF KeptInv
<1>7. EntryInv'
  <2>1. \A m \in Reads : promise'[m].startedAt = promise[m].startedAt
    BY <1>2
  <2>2. CASE entry.read = n
    <3>1. entry'.read = 0
      BY <1>2, <2>2 DEF NoEntry
    <3> QED
      BY <1>1, <1>4, <2>1, <2>2, <3>1 DEF EntryInv
  <2>3. CASE entry.read # n
    <3>1. entry.read # 0 => promise'[entry.read] = promise[entry.read]
      BY <1>1, <1>2, <2>3 DEF CacheShape
    <3> QED
      BY <1>1, <1>2, <1>4, <2>1, <2>3, <3>1 DEF EntryInv
  <2> QED
    BY <2>2, <2>3
<1>8. OneReadPerTtl'
    BY <1>1, <1>2, <1>4 DEF OneReadPerTtl
<1> QED
    BY <1>5, <1>6, <1>7, <1>8 DEF CacheInv

\* A reader goes on; a finished read it alone referred to is dropped.
LEMMA ReceiveKeeps ==
    ASSUME CacheInv, NEW r \in Readers, Receive(r), UNCHANGED now
    PROVE  CacheInv'
<1>1. CacheShape /\ KeptInv /\ EntryInv /\ OneReadPerTtl
    BY DEF CacheInv
<1>2. /\ DOMAIN holds' = Readers /\ holds'[r] = NotAsking
      /\ \A q \in Readers \ {r} : holds'[q] = holds[q]
      /\ ~Flying(holds[r].read) /\ UNCHANGED entry
      /\ now \in Nat /\ 0 \notin Reads
    BY <1>1, ReadsAreFinite DEF CacheShape, Receive
<1>3. /\ DOMAIN promise' = Reads
      /\ \A m \in Reads : promise'[m] = IF m = entry.read \/ Held(m)' THEN promise[m]
                                        ELSE NoRead
    BY <1>1, <1>2 DEF CacheShape, Receive, Referenced, Held
<1>4. \A m \in Reads : /\ Held(m)' => Held(m)
                       /\ Held(m) => Held(m)' \/ m = holds[r].read
    BY <1>2 DEF Held, NotAsking
<1>5. \A m \in Reads : Flying(m)' => Flying(m) /\ promise'[m] = promise[m]
    BY <1>3 DEF Flying, NoRead
<1>6. CacheShape'
    BY <1>1, <1>2, <1>3 DEF CacheShape, NoRead, NotAsking
<1>7. KeptInv'
  <2>1. \A m \in Reads : \/ promise'[m] = NoRead
                         \/ promise'[m].status # "free" /\ (m = entry.read \/ Held(m)')
    BY <1>1, <1>3 DEF KeptInv
  <2>2. \A m \in Reads : Held(m)' => promise'[m].status # "free"
    BY <1>1, <1>3, <1>4 DEF KeptInv
  <2>3. \A m \in Reads : Flying(m)' => Held(m)'
    BY <1>1, <1>2, <1>4, <1>5 DEF KeptInv
  <2> QED
    BY <1>2, <2>1, <2>2, <2>3 DEF KeptInv
<1>8. EntryInv'
  <2>1. entry.read # 0 => promise'[entry.read] = promise[entry.read]
    BY <1>1, <1>3 DEF CacheShape
  <2>2. \A m \in Reads : promise'[m].startedAt <= now
    BY <1>1, <1>2, <1>3 DEF EntryInv, NoRead
  <2> QED
    BY <1>1, <1>2, <1>5, <2>1, <2>2 DEF EntryInv
<1>9. OneReadPerTtl'
    BY <1>1, <1>5 DEF OneReadPerTtl
<1> QED
    BY <1>6, <1>7, <1>8, <1>9 DEF CacheInv

\* Time passes, or nothing of the cache changes.
LEMMA TickKeeps ==
    ASSUME CacheInv, UNCHANGED cacheVars, now' \in Nat, now <= now'
    PROVE  CacheInv'
<1>1. CacheShape'
    BY DEF CacheInv, CacheShape, cacheVars
<1>2. KeptInv'
    BY DEF CacheInv, KeptInv, Held, Flying, cacheVars
<1>3. EntryInv'
    BY CacheAssumption DEF CacheInv, CacheShape, EntryInv, Flying, cacheVars
<1>4. OneReadPerTtl'
    BY DEF CacheInv, OneReadPerTtl, Flying, cacheVars
<1> QED
    BY <1>1, <1>2, <1>3, <1>4 DEF CacheInv

LEMMA CacheStarts == Init => CacheInv
<1> SUFFICES ASSUME Init PROVE CacheInv
    OBVIOUS
<1>1. /\ now = 0 /\ entry = NoEntry /\ promise = [n \in Reads |-> NoRead]
      /\ holds = [r \in Readers |-> NotAsking]
    BY DEF Init, CacheInit
<1>2. \A n \in Reads : ~Held(n) /\ ~Flying(n) /\ promise[n] = NoRead
    BY <1>1, ReadsAreFinite DEF Held, Flying, NoRead, NotAsking
<1>3. CacheShape
    BY <1>1 DEF CacheShape, NoEntry, NoRead, NotAsking
<1>4. KeptInv /\ EntryInv /\ OneReadPerTtl
    BY <1>1, <1>2 DEF KeptInv, EntryInv, OneReadPerTtl, NoEntry, NoRead
<1> QED
    BY <1>3, <1>4 DEF CacheInv

LEMMA CacheKeeps == CacheInv /\ [Next]_vars => CacheInv'
<1> SUFFICES ASSUME CacheInv, [Next]_vars PROVE CacheInv'
    OBVIOUS
<1>1. now \in Nat
    BY DEF CacheInv, CacheShape
<1>2. CASE ListStep
  <2>1. ASSUME NEW r \in Readers, Get(r), UNCHANGED now
        PROVE  CacheInv'
    BY <2>1, ShareKeeps, StartKeeps DEF Get
  <2>2. ASSUME NEW r \in Readers, Receive(r), UNCHANGED now
        PROVE  CacheInv'
    BY <2>2, ReceiveKeeps
  <2>3. ASSUME NEW n \in Reads, ReadPolls(n), UNCHANGED now
        PROVE  CacheInv'
    BY <2>3, AnswerKeeps DEF ReadPolls, Flying
  <2>4. ASSUME NEW n \in Reads, Summarised(n), UNCHANGED now
        PROVE  CacheInv'
    BY <2>4, AnswerKeeps DEF Summarised, Settle
  <2> QED
    BY <1>2, <2>1, <2>2, <2>3, <2>4 DEF ListStep
<1>3. CASE ListFails
    BY <1>3, FailKeeps DEF ListFails
<1>4. CASE Tick
    BY <1>1, <1>4, TickKeeps DEF Tick
<1>5. CASE PageStep \/ ChainStep \/ UNCHANGED vars
  <2>1. UNCHANGED <<now, cacheVars>>
    BY <1>5 DEF PageStep, ChainStep, vars, Edit, Autosave, Discard, Reload,
       Submit, Refuse, Sign, Confirm, SetCreatorAllowlistEnabled,
       SetCreatorAllowlist, Mine, MineOrphan
  <2> QED
    BY <1>1, <2>1, TickKeeps
<1> QED
    BY <1>2, <1>3, <1>4, <1>5 DEF Next

\* For every time to live, number of readers and length of reads: two reads in
\* flight began a time to live apart, and no failure is served to a later
\* reader (createReadCache).
THEOREM CacheStaysSound == Spec => []CacheIsSound
<1>1. CacheInv => CacheIsSound
    BY DEF CacheInv, EntryInv, CacheIsSound, NoFailureIsCached
<1> QED
    BY <1>1, CacheStarts, CacheKeeps, PTL DEF Spec

-----------------------------------------------------------------------------
(***************************************************************************)
(* The draft.                                                              *)
(***************************************************************************)

LEMMA DraftStarts == Init => DraftInv
    BY CreationAssumption
    DEF Init, DraftInv, DraftIsKept, SavedIsStored, NothingComesBack, Forms, Transactions

\* A transaction that has a text at any stage.
LEMMA StageKeepsText ==
    ASSUME NEW transaction \in Transactions, transaction # Nothing,
           NEW stage \in Stages
    PROVE  /\ [transaction EXCEPT !.stage = stage] \in Transactions
           /\ transaction.text \in Texts
    BY CreationAssumption DEF Transactions

LEMMA DraftKeeps == DraftInv /\ [Next]_vars => DraftInv'
<1> SUFFICES ASSUME DraftInv, [Next]_vars PROVE DraftInv'
    OBVIOUS
<1> USE CreationAssumption
<1>0. /\ Blank \in Forms /\ Texts \subseteq Forms /\ Nothing \notin Forms
      /\ Nothing \in Transactions /\ Nothing \notin Texts /\ Blank \notin Texts
    BY DEF Forms, Transactions
<1>1. ASSUME NEW f \in Forms, Edit(f)
      PROVE  DraftInv'
    BY <1>0, <1>1 DEF Edit, DraftInv, DraftIsKept, SavedIsStored, NothingComesBack, txVars
<1>2. CASE Autosave
    BY <1>0, <1>2 DEF Autosave, DraftInv, DraftIsKept, SavedIsStored, NothingComesBack,
       txVars
<1>3. CASE Discard
    BY <1>0, <1>3 DEF Discard, DraftInv, DraftIsKept, SavedIsStored, NothingComesBack,
       txVars
<1>4. CASE Reload
  <2>1. form' \in {draft, Blank} /\ form' \in Forms
    BY <1>0, <1>4 DEF Reload, DraftInv
  <2>2. tx' \in Transactions /\ orphan' \in Transactions
    BY <1>0, <1>4 DEF Reload, DraftInv
  <2>3. saveTimer' = form' /\ UNCHANGED <<draft, gone>>
    BY <1>4 DEF Reload
  <2> QED
    BY <1>0, <2>1, <2>2, <2>3 DEF DraftInv, DraftIsKept, SavedIsStored, NothingComesBack
<1>5. CASE Confirm
  <2>1. tx.text \in Texts
    BY <1>5, StageKeepsText DEF Confirm, DraftInv, Stages
  <2>2. tx' \in Transactions /\ orphan' \in Transactions
    BY <1>0, <1>5 DEF Confirm, DraftInv
  <2>3. form' = Blank /\ saveTimer' = Blank /\ draft' \in {draft, Nothing}
        /\ gone' \in {gone, gone \cup {tx.text}}
        /\ (draft' # draft => draft' = Nothing)
        /\ (gone' # gone => draft' = Nothing)
    BY <1>5 DEF Confirm
  <2> QED
    BY <1>0, <2>1, <2>2, <2>3 DEF DraftInv, DraftIsKept, SavedIsStored, NothingComesBack
<1>6. ASSUME UNCHANGED formVars, tx' \in Transactions, orphan' \in Transactions
      PROVE  DraftInv'
    BY <1>6 DEF DraftInv, DraftIsKept, SavedIsStored, NothingComesBack, formVars
<1>7. CASE Submit \/ Refuse \/ Sign
  <2>1. CASE Submit
    <3>1. form \in Texts
      BY <2>1 DEF Submit, SubmitOffered
    <3>2. tx' \in Transactions /\ orphan' \in Transactions
      BY <2>1, <3>1 DEF Submit, Transactions, Stages, DraftInv
    <3> QED
      BY <1>6, <2>1, <3>2 DEF Submit
  <2>2. CASE Refuse
    BY <1>0, <1>6, <2>2 DEF Refuse, DraftInv
  <2>3. CASE Sign
    <3>1. tx' \in Transactions
      BY <2>3, StageKeepsText DEF Sign, DraftInv, Stages
    <3> QED
      BY <1>6, <2>3, <3>1 DEF Sign, DraftInv
  <2> QED
    BY <1>7, <2>1, <2>2, <2>3
<1>8. CASE ChainStep
  <2>1. CASE Mine
    <3>1. tx' \in Transactions
      BY <2>1, StageKeepsText DEF Mine, DraftInv, Stages
    <3> QED
      BY <1>6, <2>1, <3>1 DEF Mine, DraftInv
  <2>2. CASE MineOrphan
    BY <1>0, <1>6, <2>2 DEF MineOrphan, DraftInv
  <2>3. ASSUME UNCHANGED <<formVars, txVars>>
        PROVE  DraftInv'
    BY <1>6, <2>3 DEF DraftInv, txVars
  <2> QED
    BY <1>8, <2>1, <2>2, <2>3
    DEF ChainStep, SetCreatorAllowlistEnabled, SetCreatorAllowlist
<1>9. CASE ListStep \/ ListFails \/ Tick \/ UNCHANGED vars
  <2>1. UNCHANGED <<formVars, txVars>>
    BY <1>9 DEF ListStep, ListFails, Tick, vars
  <2> QED
    BY <1>6, <2>1 DEF DraftInv, txVars
<1> QED
    BY <1>1, <1>2, <1>3, <1>4, <1>5, <1>7, <1>8, <1>9 DEF Next, PageStep

\* Whatever the storage refuses and whenever the page is reloaded, a draft the
\* page calls saved is stored, and what was discarded or created stays gone
\* (CreatePollForm, poll-drafts).
THEOREM DraftStaysKept == Spec => []DraftIsKept
<1>1. DraftInv => DraftIsKept
    BY DEF DraftInv
<1> QED
    BY <1>1, DraftStarts, DraftKeeps, PTL DEF Spec

-----------------------------------------------------------------------------
(***************************************************************************)
(* The list.                                                               *)
(***************************************************************************)

\* The reads and the polls a step leaves as they are.
LEMMA ListSame ==
    ASSUME ListInv, UNCHANGED <<cacheVars, polls>>
    PROVE  ListInv'
    BY DEF ListInv, cacheVars

LEMMA ListStartKeeps ==
    ASSUME CacheInv, ListInv, NEW r \in Readers, holds[r] = NotAsking, Start(r),
           UNCHANGED <<now, polls>>
    PROVE  ListInv'
<1>1. CacheShape /\ KeptInv
    BY DEF CacheInv
<1>2. PICK n \in Reads :
        /\ promise[n] = NoRead
        /\ entry' = [read |-> n, expiresAt |-> now + Ttl]
        /\ holds' = [holds EXCEPT ![r] = [read |-> n, askedAt |-> now]]
        /\ DOMAIN promise' = Reads
        /\ promise'[n] = [startedAt |-> now, status |-> "flying", value |-> {}]
        /\ \A m \in Reads \ {n} :
             promise'[m] = IF Held(m)' THEN promise[m] ELSE NoRead
    BY <1>1, Begins
<1>3. /\ holds'[r] = [read |-> n, askedAt |-> now]
      /\ \A q \in Readers \ {r} : holds'[q] = holds[q]
    BY <1>1, <1>2 DEF CacheShape
<1>4. \A m \in Reads : promise'[m].status \in {"listed", "ok"} =>
                         promise'[m] = promise[m]
    BY <1>2 DEF NoRead
<1>5. \A q \in Readers \ {r} : holds[q].read # 0 =>
        promise'[holds[q].read] = promise[holds[q].read]
  <2> SUFFICES ASSUME NEW q \in Readers \ {r}, holds[q].read # 0
               PROVE  promise'[holds[q].read] = promise[holds[q].read]
      OBVIOUS
  <2>1. holds[q].read \in Reads /\ Held(holds[q].read)
    BY <1>1 DEF CacheShape, Held
  <2>2. promise[holds[q].read].status # "free"
    BY <1>1, <2>1 DEF KeptInv
  <2>3. holds[q].read # n
    BY <1>2, <2>2 DEF NoRead
  <2>4. Held(holds[q].read)'
    BY <1>3, <2>1 DEF Held
  <2> QED
    BY <1>2, <2>1, <2>3, <2>4
<1>6. \A q \in Readers : holds'[q].read # 0 =>
         \/ holds'[q].askedAt < promise'[holds'[q].read].startedAt + Ttl
         \/ holds'[q].askedAt = promise'[holds'[q].read].startedAt
    BY <1>2, <1>3, <1>5 DEF ListInv
<1> QED
    BY <1>4, <1>6 DEF ListInv

LEMMA ListKeeps == CacheInv /\ DraftInv /\ ListInv /\ [Next]_vars => ListInv'
<1> SUFFICES ASSUME CacheInv, DraftInv, ListInv, [Next]_vars PROVE ListInv'
    OBVIOUS
<1>1. CacheShape /\ KeptInv /\ EntryInv
    BY DEF CacheInv
<1>2. ASSUME NEW r \in Readers, Get(r), UNCHANGED <<now, polls>>
      PROVE  ListInv'
  <2>1. CASE Start(r)
    BY <1>2, <2>1, ListStartKeeps DEF Get
  <2>2. CASE /\ entry.read # 0 /\ entry.expiresAt > now
             /\ holds' = [holds EXCEPT ![r] = [read |-> entry.read, askedAt |-> now]]
             /\ UNCHANGED <<entry, promise>>
    <3>1. /\ holds'[r].read = entry.read /\ holds'[r].askedAt = now
          /\ \A q \in Readers \ {r} : holds'[q] = holds[q]
      BY <1>1, <2>2 DEF CacheShape
    <3>2. now < promise[entry.read].startedAt + Ttl
      BY <1>1, <2>2, CacheAssumption DEF CacheShape, EntryInv
    <3> QED
      BY <1>2, <2>2, <3>1, <3>2 DEF ListInv
  <2> QED
    BY <1>2, <2>1, <2>2 DEF Get
<1>3. ASSUME NEW r \in Readers, Receive(r), UNCHANGED <<now, polls>>
      PROVE  ListInv'
  <2>1. /\ holds'[r] = NotAsking
        /\ \A q \in Readers \ {r} : holds'[q] = holds[q]
        /\ \A m \in Reads : promise'[m] = IF m = entry'.read \/ Held(m)' THEN promise[m]
                                          ELSE NoRead
    BY <1>1, <1>3 DEF CacheShape, Receive, Referenced, Held
  <2>2. \A m \in Reads : promise'[m].status \in {"listed", "ok"} =>
                           promise'[m] = promise[m]
    BY <2>1 DEF NoRead
  <2>3. \A q \in Readers \ {r} : holds[q].read # 0 =>
          promise'[holds[q].read] = promise[holds[q].read]
    BY <1>1, <2>1 DEF Held, CacheShape
  <2> QED
    BY <1>3, <2>1, <2>2, <2>3 DEF ListInv, NotAsking
<1>4. ASSUME NEW n \in Reads, NEW list, NEW status,
             promise' = [promise EXCEPT ![n].status = status, ![n].value = list],
             status \in {"listed", "ok"} =>
               \A i \in DOMAIN polls : polls[i].at < promise[n].startedAt =>
                 \E row \in list : row.poll = i,
             UNCHANGED <<holds, polls>>
      PROVE  ListInv'
  <2>1. /\ promise'[n].status = status /\ promise'[n].value = list
        /\ \A m \in Reads : promise'[m].startedAt = promise[m].startedAt
        /\ \A m \in Reads \ {n} : promise'[m] = promise[m]
    BY <1>1, <1>4 DEF CacheShape
  <2>2. \A q \in Readers : holds[q].read # 0 => holds[q].read \in Reads
    BY <1>1 DEF CacheShape
  <2>3. \A m \in Reads : promise'[m].status \in {"listed", "ok"} =>
          \A i \in DOMAIN polls : polls[i].at < promise[m].startedAt =>
            \E row \in promise'[m].value : row.poll = i
    <3>1. ASSUME NEW m \in Reads \ {n}, promise'[m].status \in {"listed", "ok"},
                 NEW i \in DOMAIN polls, polls[i].at < promise[m].startedAt
          PROVE  \E row \in promise'[m].value : row.poll = i
      BY <2>1, <3>1 DEF ListInv
    <3>2. status \in {"listed", "ok"} =>
            \A i \in DOMAIN polls : polls[i].at < promise[n].startedAt =>
              \E row \in promise'[n].value : row.poll = i
      BY <1>4, <2>1
    <3> QED
      BY <2>1, <3>1, <3>2
  <2>4. \A q \in Readers : holds[q].read # 0 =>
           \/ holds[q].askedAt < promise'[holds[q].read].startedAt + Ttl
           \/ holds[q].askedAt = promise'[holds[q].read].startedAt
    BY <2>1, <2>2 DEF ListInv
  <2>5. polls' = polls /\ holds' = holds
    BY <1>4
  <2> QED
    BY <2>1, <2>3, <2>4, <2>5 DEF ListInv
<1>5. ASSUME NEW n \in Reads, ReadPolls(n), UNCHANGED polls
      PROVE  ListInv'
  <2> DEFINE list == {Row(i, TRUE) : i \in DOMAIN polls}
  <2>1. \A i \in DOMAIN polls : \E row \in list : row.poll = i
    <3>1. \A i \in DOMAIN polls : Row(i, TRUE) \in list
      OBVIOUS
    <3>2. \A i \in DOMAIN polls : Row(i, TRUE).poll = i
      BY DEF Row
    <3> QED
      BY <3>1, <3>2
  <2>2. /\ promise' = [promise EXCEPT ![n].status = "listed", ![n].value = list]
        /\ UNCHANGED holds
    BY <1>5 DEF ReadPolls
  <2> HIDE DEF list
  <2> QED
    BY <1>4, <1>5, <2>1, <2>2
<1>6. ASSUME NEW n \in Reads, Summarised(n), UNCHANGED polls
      PROVE  ListInv'
  <2>1. \A i \in DOMAIN polls : polls[i].at < promise[n].startedAt =>
          \E row \in promise[n].value : row.poll = i
    BY <1>6 DEF Summarised, ListInv
  <2>2. CASE Settle(n, promise[n].value)
    BY <1>4, <1>6, <2>1, <2>2 DEF Settle
  <2>3. ASSUME NEW row \in promise[n].value,
               Settle(n, (promise[n].value \ {row}) \cup {Row(row.poll, FALSE)})
        PROVE  ListInv'
    <3> DEFINE list == (promise[n].value \ {row}) \cup {Row(row.poll, FALSE)}
    <3>1. Row(row.poll, FALSE) \in list /\ Row(row.poll, FALSE).poll = row.poll
          /\ \A other \in promise[n].value : other = row \/ other \in list
      BY DEF Row
    <3>2. /\ promise' = [promise EXCEPT ![n].status = "ok", ![n].value = list]
          /\ UNCHANGED holds
      BY <2>3 DEF Settle
    <3> HIDE DEF list
    <3>3. \A i \in DOMAIN polls : polls[i].at < promise[n].startedAt =>
            \E other \in list : other.poll = i
      BY <2>1, <3>1
    <3> QED
      BY <1>4, <1>6, <3>2, <3>3
  <2> QED
    BY <1>6, <2>2, <2>3 DEF Summarised
<1>7. CASE ListStep
    BY <1>2, <1>3, <1>5, <1>6, <1>7 DEF ListStep, factoryVars
<1>8. CASE ListFails
  <2>1. PICK n \in Reads : Fail(n)
    BY <1>8 DEF ListFails
  <2>2. /\ promise'[n].status = "failed"
        /\ \A m \in Reads : promise'[m].startedAt = promise[m].startedAt
        /\ \A m \in Reads \ {n} : promise'[m] = promise[m]
        /\ UNCHANGED <<holds, polls>>
    BY <1>1, <1>8, <2>1 DEF CacheShape, Fail, ListFails, factoryVars
  <2>3. \A q \in Readers : holds[q].read # 0 => holds[q].read \in Reads
    BY <1>1 DEF CacheShape
  <2> QED
    BY <2>2, <2>3 DEF ListInv
<1>9. ASSUME NEW t \in Texts, CreatePoll(Wallet, t), UNCHANGED cacheVars
      PROVE  ListInv'
  <2> DEFINE poll == [creator |-> Wallet, text |-> t, at |-> now]
             Poll == [creator : {Wallet}, text : Texts, at : Nat]
  <2>1. poll \in Poll /\ poll.at = now /\ polls \in Seq(Poll) /\ polls' = Append(polls, poll)
    BY <1>1, <1>9 DEF ListInv, CreatePoll, CacheShape
  <2> HIDE DEF poll, Poll
  <2>2. /\ polls' \in Seq(Poll) /\ DOMAIN polls = 1 .. Len(polls)
        /\ DOMAIN polls' = 1 .. Len(polls) + 1 /\ Len(polls) \in Nat
        /\ \A i \in DOMAIN polls : polls'[i] = polls[i]
        /\ polls'[Len(polls) + 1] = poll
    BY <2>1
  <2>3. \A m \in Reads : ~(now < promise[m].startedAt)
    BY <1>1 DEF CacheShape, EntryInv
  <2>4. \A i \in DOMAIN polls' : i \in DOMAIN polls \/ polls'[i] = poll
    BY <2>2
  <2>5. \A m \in Reads : promise[m].status \in {"listed", "ok"} =>
          \A i \in DOMAIN polls' : polls'[i].at < promise[m].startedAt =>
            \E row \in promise[m].value : row.poll = i
    BY <2>1, <2>2, <2>3, <2>4 DEF ListInv
  <2> QED
    BY <1>9, <2>2, <2>5 DEF ListInv, cacheVars, Poll
<1>10. CASE ChainStep
  <2>1. CASE Mine
    <3>1. tx.text \in Texts
      BY <2>1, StageKeepsText DEF Mine, DraftInv, Stages
    <3> QED
      BY <1>9, <2>1, <3>1, ListSame DEF Mine, factoryVars
  <2>2. CASE MineOrphan
    <3>1. orphan.text \in Texts
      BY <2>2, StageKeepsText DEF MineOrphan, DraftInv, Stages
    <3> QED
      BY <1>9, <2>2, <3>1, ListSame DEF MineOrphan, factoryVars
  <2> QED
    BY <1>10, <2>1, <2>2, ListSame
    DEF ChainStep, SetCreatorAllowlistEnabled, SetCreatorAllowlist
<1>11. CASE PageStep \/ Tick \/ UNCHANGED vars
  <2>1. UNCHANGED <<cacheVars, polls>>
    BY <1>11 DEF PageStep, Tick, vars, Edit, Autosave, Discard, Reload, Submit,
       Refuse, Sign, Confirm, factoryVars
  <2> QED
    BY <2>1, ListSame
<1> QED
    BY <1>7, <1>8, <1>10, <1>11 DEF Next

LEMMA ListStarts == Init => ListInv
<1> SUFFICES ASSUME Init PROVE ListInv
    OBVIOUS
<1>1. polls = <<>> /\ DOMAIN polls = {}
    BY DEF Init
<1>2. \A r \in Readers : holds[r].read = 0
    BY DEF Init, CacheInit, NotAsking
<1> QED
    BY <1>1, <1>2 DEF ListInv

\* With a time to live, a list that is served has every poll that was on chain
\* that long before it was asked for, however slow the read was and whoever
\* shared it (createReadCache, readPollListUncached).  With none, a poll of the
\* millisecond in which the read began can be missing.
THEOREM ListStaysRecent ==
    ASSUME Ttl > 0
    PROVE  Spec => []ListIsRecent
<1>1. CacheInv /\ ListInv => ListIsRecent
  <2> SUFFICES ASSUME CacheInv, ListInv, NEW r \in Readers, NEW i \in DOMAIN polls,
                      holds[r].read # 0, promise[holds[r].read].status = "ok",
                      polls[i].at + Ttl <= holds[r].askedAt
               PROVE  \E row \in promise[holds[r].read].value : row.poll = i
      BY DEF ListIsRecent
  <2> DEFINE n == holds[r].read
  <2>1. n \in Reads /\ promise[n].startedAt \in Nat /\ holds[r].askedAt \in Nat
    BY DEF CacheInv, CacheShape
  <2>2. polls[i].at \in Nat
    <3> DEFINE Poll == [creator : {Wallet}, text : Texts, at : Nat]
    <3>1. polls \in Seq(Poll)
      BY DEF ListInv
    <3>2. \A poll \in Poll : poll.at \in Nat
      OBVIOUS
    <3> HIDE DEF Poll
    <3> QED
      BY <3>1, <3>2
  <2>3. \/ holds[r].askedAt < promise[n].startedAt + Ttl
        \/ holds[r].askedAt = promise[n].startedAt
    BY DEF ListInv
  <2>4. polls[i].at < promise[n].startedAt
    BY <2>1, <2>2, <2>3, CacheAssumption
  <2> QED
    BY <2>1, <2>4 DEF ListInv
<1> QED
    BY <1>1, CacheStarts, CacheKeeps, DraftStarts, DraftKeeps, ListStarts, ListKeeps,
       PTL DEF Spec

-----------------------------------------------------------------------------
(***************************************************************************)
(* The form's verdict.                                                     *)
(***************************************************************************)

\* The cap that is submitted: the template's, lowered to the options there
\* are, and never below two.
LEMMA CapIsLowered ==
    ASSUME NEW cap \in Nat, NEW n \in Nat, cap >= 2, n >= 2
    PROVE  Max({2, Min({cap, n})}) = IF cap <= n THEN cap ELSE n
<1> DEFINE least == IF cap <= n THEN cap ELSE n
<1>1. Min({cap, n}) = least
    BY DEF Min
<1>2. Max({2, least}) = least
    BY DEF Max
<1> QED
    BY <1>1, <1>2

\* For any number of options, whatever template and admission are chosen, the
\* page's verdict on the configuration is the contract's.
THEOREM VerdictsAgree ==
    ASSUME NEW template \in DOMAIN Overrides, NEW openToAll \in BOOLEAN,
           NEW n \in Nat, n >= 2
    PROVE  LET c == BuildPollConfig(template, openToAll, n)
           IN  ValidateConfig(c) <=> Initializable(c, n)
<1> DEFINE c == BuildPollConfig(template, openToAll, n)
           base == [Overrides[template] EXCEPT !.openToAll = openToAll]
<1>1. template \in {"none", "single", "multiSelect", "weighted"}
    BY DEF Overrides
<1>2. CASE template = "multiSelect"
  <2>1. /\ base.multiSelect /\ base.maxSelections = 4 /\ ~base.weighted
        /\ ~base.commitReveal /\ base.quorumBps = 0
    BY <1>2 DEF Overrides, DefaultConfig
  <2>2. DOMAIN base = DOMAIN DefaultConfig
    BY <1>2 DEF Overrides
  <2> HIDE DEF base
  <2>3. c = [base EXCEPT !.maxSelections = Max({2, Min({4, n})})]
    BY <2>1 DEF BuildPollConfig, base
  <2>4. Max({2, Min({4, n})}) = IF 4 <= n THEN 4 ELSE n
    BY CapIsLowered
  <2>5. /\ c.multiSelect /\ ~c.weighted /\ ~c.commitReveal /\ c.quorumBps = 0
        /\ c.maxSelections = IF 4 <= n THEN 4 ELSE n
    BY <2>1, <2>2, <2>3, <2>4 DEF DefaultConfig
  <2> HIDE DEF c
  <2>6. ValidateConfig(c) /\ Validate(c) = "ok" /\ c.maxSelections <= n
    BY <2>5 DEF ValidateConfig, Validate, ValidateGovernance, MaxBps
  <2> QED
    BY <2>6 DEF Initializable, c
<1>3. CASE template # "multiSelect"
  <2>1. /\ ~base.multiSelect /\ ~base.commitReveal /\ base.quorumBps = 0
        /\ base.openToAll = openToAll
    BY <1>1, <1>3 DEF Overrides, DefaultConfig
  <2> HIDE DEF base
  <2>2. c = base
    BY <2>1 DEF BuildPollConfig, base
  <2>3. ValidateConfig(base) <=> Initializable(base, n)
    BY <2>1 DEF ValidateConfig, Initializable, Validate, ValidateGovernance, MaxBps
  <2> QED
    BY <2>2, <2>3
<1> QED
    BY <1>2, <1>3

\* What the page lets a reader submit the factory takes, its allowlist aside
\* (CreatePollForm's reason, buildPollConfig and validateConfig against
\* PollMechanisms.validate and initialize).
THEOREM OfferedStaysAccepted == Spec => []OfferedIsAccepted
<1>1. OfferedIsAccepted
  <2>1. SubmitOffered => (MayCreate(Wallet) => Creatable(Wallet, form))
    BY DEF SubmitOffered, Creatable
  <2> QED
    BY <2>1, VerdictsAgree DEF OfferedIsAccepted
<1> QED
    BY <1>1, PTL
=============================================================================
