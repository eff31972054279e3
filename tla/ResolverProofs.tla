--------------------------- MODULE ResolverProofs ---------------------------
(***************************************************************************)
(* Proofs about Resolver, for every appearance, bound and length of run.   *)
(*                                                                         *)
(* The inductive invariant: whatever memory says of a key (the cache, what *)
(* is staged, an answer already given) is Right of the tables it was       *)
(* learned from, and the tables that a rollback would restore agree with   *)
(* what stays in memory then.                                              *)
(***************************************************************************)
EXTENDS Resolver, FiniteSetTheorems, FunctionTheorems, SequenceTheorems, TLAPS

Row == [key : Keys, addr : Nat]
Alias == [key : Keys, id : Nat]
Seen == [key : Keys, look : Appearance, id : Nat]

TypeOK ==
    /\ pc \in {"down", "idle", "cycle"}
    /\ devices \in Seq(Row) /\ aliases \in Seq(Alias)
    /\ saved \in [devices : Seq(Row), aliases : Seq(Alias), pruned : SUBSET Keys]
    /\ cache \in [Keys -> Nat] /\ aliasKeys \in SUBSET Keys /\ recent \in Seq(Seen)
    /\ pendKeys \in [Keys -> Nat] /\ pendAlias \in SUBSET Keys /\ pendRecent \in Seq(Seen)
    /\ answers \in [Keys -> Nat] /\ told \in [Keys -> Nat] /\ pruned \in SUBSET Keys

\* The tables give the key to the device: it founded it, or is an alias of it.
IsAlias(k, als) == \E a \in Range(als) : a.key = k
Bound(k, id, devs, als) ==
    \/ id \in DOMAIN devs /\ devs[id].key = k
    \/ \E a \in Range(als) : a.key = k /\ a.id = id

\* An alias belongs to a device that is there, no key founds a device and is an
\* alias, and no key belongs to two devices.
TablesOK(devs, als) ==
    /\ \A a \in Range(als) : a.id \in DOMAIN devs
    /\ \A a \in Range(als), id \in DOMAIN devs : a.key # devs[id].key
    /\ \A a, b \in Range(als) : a.key = b.key => a.id = b.id
    /\ \A x, y \in DOMAIN devs : devs[x].key = devs[y].key => x = y

\* A key may be said to be this device's: the device is there, the tables give
\* the key to no other, and to this one unless its alias is gone.
Right(k, id, devs, als, gone) ==
    /\ id \in DOMAIN devs
    /\ \A x \in DOMAIN devs : Bound(k, x, devs, als) => x = id
    /\ k \notin gone => Bound(k, id, devs, als)

\* The cache and the committed answers against a state of the tables.
Agree(devs, als, gone) ==
    /\ TablesOK(devs, als)
    /\ \A k \in Holds(cache) :
          Right(k, cache[k], devs, als, gone) /\ (IsAlias(k, als) => k \in aliasKeys)
    /\ \A k \in Holds(told) : k \notin gone => Bound(k, told[k], devs, als)

\* What is staged, and the answers of this cycle.
StagedOK ==
    /\ \A k \in Holds(pendKeys) :
          /\ Right(k, pendKeys[k], devices, aliases, pruned)
          /\ IsAlias(k, aliases) => k \in pendAlias
    /\ \A e \in Range(pendRecent) : e.id # None /\ e.id = pendKeys[e.key]
    /\ \A k \in Holds(answers) : Right(k, answers[k], devices, aliases, pruned)
    /\ \A k \in pruned \ Holds(answers), x \in DOMAIN devices : ~Bound(k, x, devices, aliases)

\* The window may name a device that lost the key, until the key is staged anew.
WindowOK ==
    \A e \in Range(recent) :
        /\ e.id \in DOMAIN saved.devices
        /\ \A x \in DOMAIN saved.devices :
              Bound(e.key, x, saved.devices, saved.aliases) => x = e.id
        /\ \A x \in DOMAIN devices :
              Bound(e.key, x, devices, aliases) => x = e.id \/ e.key \in Holds(pendKeys)

SavedOK ==
    /\ saved.pruned \subseteq pruned
    /\ Len(saved.devices) <= Len(devices)
    /\ \A k \in saved.pruned, x \in DOMAIN saved.devices :
          ~Bound(k, x, saved.devices, saved.aliases)
    /\ pc # "cycle" =>
          /\ devices = saved.devices /\ aliases = saved.aliases /\ pruned = saved.pruned
          /\ pendKeys = Nothing /\ pendAlias = {} /\ pendRecent = << >> /\ answers = Nothing

IInv ==
    /\ TypeOK
    /\ Agree(devices, aliases, pruned)
    /\ Agree(saved.devices, saved.aliases, saved.pruned)
    /\ StagedOK /\ WindowOK /\ SavedOK

-----------------------------------------------------------------------------
\* Constants, and the operators on sequences that the model is built from.

LEMMA Parameters ==
    /\ Len(Appearances) \in Nat /\ Keys = 1..Len(Appearances) /\ IsFiniteSet(Keys)
    /\ \A k \in Keys : Appearances[k] \in Appearance
    /\ Window \in Nat \ {0} /\ MaxKeyCache \in Nat \ {0} /\ MaxAliases \in Nat \ {0}
    /\ MaxLegacy \in 0..Len(Appearances)
<1>1. Appearances \in Seq(Appearance)
  BY ResolverAssumption
<1>2. Len(Appearances) \in Nat /\ Keys = 1..Len(Appearances)
  BY <1>1, LenProperties DEF Keys
<1>3. IsFiniteSet(1..Len(Appearances))
  BY <1>2, FS_Interval
<1>4. QED
  BY <1>1, <1>2, <1>3, ElementOfSeq, ResolverAssumption

\* An order by ranks is an enumeration of the set: the ranks of a strict total
\* order are distinct numbers below the size of the set, so each one occurs.
LEMMA InOrderEnumerates ==
    ASSUME NEW S, IsFiniteSet(S), NEW before \in [S -> SUBSET S],
           \A i \in S : i \notin before[i],
           \A i, j \in S : i # j => i \in before[j] \/ j \in before[i],
           \A i, j \in S : i \in before[j] => before[i] \subseteq before[j]
    PROVE  /\ Cardinality(S) \in Nat
           /\ DOMAIN InOrder(before) = 1..Cardinality(S)
           /\ \A n \in 1..Cardinality(S) : InOrder(before)[n] \in S
<1> DEFINE C == Cardinality(S)
           rank == [i \in S |-> Cardinality(before[i])]
<1>1. C \in Nat
  BY FS_CardinalityType
<1>2. ASSUME NEW i \in S
      PROVE  rank[i] \in 0..(C - 1)
  <2>1. before[i] \subseteq S /\ IsFiniteSet(before[i]) /\ Cardinality(before[i]) \in Nat
    BY FS_Subset, FS_CardinalityType
  <2>2. Cardinality(before[i]) <= C
    BY <2>1, FS_Subset
  <2>3. Cardinality(before[i]) # C
    BY <2>1, FS_Subset
  <2>4. QED
    BY <1>1, <2>1, <2>2, <2>3
<1>3. rank \in [S -> 0..(C - 1)]
  BY <1>2
<1>4. ASSUME NEW i \in S, NEW j \in S, i # j
      PROVE  rank[i] # rank[j]
  <2>1. ASSUME NEW x \in S, NEW y \in S, x \in before[y]
        PROVE  Cardinality(before[x]) # Cardinality(before[y])
    <3>1. before[x] \in SUBSET before[y] /\ before[x] # before[y]
      BY <2>1
    <3>2. IsFiniteSet(before[y])
      BY FS_Subset
    <3>3. QED
      BY <3>1, <3>2, FS_Subset
  <2>2. QED
    BY <1>4, <2>1
<1>5. rank \in Injection(S, 0..(C - 1))
  BY <1>3, <1>4 DEF Injection, IsInjective
<1>6. IsFiniteSet(0..(C - 1)) /\ Cardinality(0..(C - 1)) = C
  BY <1>1, FS_Interval
<1>7. rank \in Surjection(S, 0..(C - 1))
  BY <1>5, <1>6, FS_Injection
<1>8. ASSUME NEW n \in 1..C
      PROVE  \E i \in S : Cardinality(before[i]) = n - 1
  <2>1. n - 1 \in 0..(C - 1)
    BY <1>1
  <2>2. PICK i \in S : rank[i] = n - 1
    BY <1>7, <2>1 DEF Surjection
  <2>3. QED
    BY <2>2
<1>9. DOMAIN before = S
  OBVIOUS
<1>10. QED
  BY <1>1, <1>8, <1>9 DEF InOrder

\* What At returns are rows at the positions it is given.
LEMMA AtSelects ==
    ASSUME NEW R, NEW rows \in Seq(R), NEW S \in SUBSET DOMAIN rows
    PROVE  /\ At(rows, S) \in Seq(R)
           /\ \A e \in Range(At(rows, S)) : \E i \in S : e = rows[i]
<1> DEFINE before == [i \in S |-> {j \in S : j < i}]
           position == InOrder(before)
<1>1. Len(rows) \in Nat /\ DOMAIN rows = 1..Len(rows) /\ \A i \in DOMAIN rows : rows[i] \in R
  BY LenProperties, ElementOfSeq
<1>2. S \subseteq Nat /\ IsFiniteSet(S)
  <2>1. IsFiniteSet(1..Len(rows))
    BY <1>1, FS_Interval
  <2>2. S \in SUBSET (1..Len(rows))
    BY <1>1
  <2>3. QED
    BY <2>1, <2>2, FS_Subset
<1>3. before \in [S -> SUBSET S]
  OBVIOUS
<1>4. /\ \A i \in S : i \notin before[i]
      /\ \A i, j \in S : i # j => i \in before[j] \/ j \in before[i]
      /\ \A i, j \in S : i \in before[j] => before[i] \subseteq before[j]
  BY <1>2
<1> HIDE DEF before
<1>5. /\ Cardinality(S) \in Nat
      /\ DOMAIN position = 1..Cardinality(S)
      /\ \A n \in 1..Cardinality(S) : position[n] \in S
  BY <1>2, <1>3, <1>4, InOrderEnumerates
<1>6. At(rows, S) = [n \in DOMAIN position |-> rows[position[n]]]
  BY DEF At, before
<1> HIDE DEF position
<1>7. \A n \in 1..Cardinality(S) : rows[position[n]] \in R
  BY <1>1, <1>5
<1>8. At(rows, S) \in [1..Cardinality(S) -> R]
  BY <1>5, <1>6, <1>7
<1>9. At(rows, S) \in Seq(R)
  BY <1>5, <1>8, SeqDef
<1>10. \A n \in DOMAIN At(rows, S) : \E i \in S : At(rows, S)[n] = rows[i]
  BY <1>5, <1>6
<1>11. QED
  BY <1>9, <1>10 DEF Range

\* Capping aliases deletes rows and nothing else.
LEMMA CappedDeletes ==
    ASSUME NEW R, NEW rows \in Seq(R), NEW ids
    PROVE  Capped(rows, ids) \in Seq(R) /\ Range(Capped(rows, ids)) \subseteq Range(rows)
<1> DEFINE S == {i \in DOMAIN rows : rows[i].id \in ids =>
                    Cardinality({j \in AliasesOf(rows[i].id, rows) : i < j}) < MaxAliases}
<1>1. S \in SUBSET DOMAIN rows
  OBVIOUS
<1>2. Capped(rows, ids) = At(rows, S)
  BY Zenon DEF Capped
<1> HIDE DEF S
<1>3. /\ At(rows, S) \in Seq(R)
      /\ \A e \in Range(At(rows, S)) : \E i \in S : e = rows[i]
  BY <1>1, AtSelects
<1>4. \A e \in Range(At(rows, S)) : e \in Range(rows)
  BY <1>1, <1>3 DEF Range
<1>5. QED
  BY <1>2, <1>3, <1>4

LEMMA OwnerInRow ==
    ASSUME NEW k, NEW rows
    PROVE  \/ (\A a \in Range(rows) : a.key # k) /\ OwnerIn(k, rows) = None
           \/ \E a \in Range(rows) : a.key = k /\ OwnerIn(k, rows) = a.id
<1>1. CASE \E i \in DOMAIN rows : rows[i].key = k
  <2>1. PICK i \in DOMAIN rows : rows[i].key = k /\ OwnerIn(k, rows) = rows[i].id
    BY <1>1 DEF OwnerIn
  <2>2. QED
    BY <2>1 DEF Range
<1>2. CASE ~(\E i \in DOMAIN rows : rows[i].key = k)
  BY <1>2 DEF OwnerIn, Range
<1>3. QED
  BY <1>1, <1>2

LEMMA GoneKeys ==
    ASSUME NEW before, NEW after
    PROVE  \A k : k \in Gone(before, after) <=> IsAlias(k, before) /\ ~IsAlias(k, after)
BY DEF Gone, IsAlias, Range

-----------------------------------------------------------------------------
\* The tables.

LEMMA OneOwner ==
    ASSUME NEW devs, NEW als, TablesOK(devs, als), NEW k, NEW x, NEW y,
           Bound(k, x, devs, als), Bound(k, y, devs, als)
    PROVE  x = y /\ x \in DOMAIN devs
BY DEF TablesOK, Bound

\* The lookups of resolve find whom the tables give the key to.
LEMMA OwnerIsBound ==
    ASSUME TypeOK, TablesOK(devices, aliases), NEW k \in Keys
    PROVE  /\ Owner(k) # None => Owner(k) \in DOMAIN devices /\ Bound(k, Owner(k), devices, aliases)
           /\ Owner(k) = None => /\ Founded(k) = None /\ Aliased(k) = None
                                 /\ ~IsAlias(k, aliases)
                                 /\ \A id \in DOMAIN devices : devices[id].key # k
                                 /\ \A x : ~Bound(k, x, devices, aliases)
           /\ Founded(k) # None => /\ Founded(k) \in DOMAIN devices
                                   /\ devices[Founded(k)].key = k
                                   /\ ~IsAlias(k, aliases)
           /\ Aliased(k) # None => /\ Aliased(k) \in DOMAIN devices
                                   /\ Bound(k, Aliased(k), devices, aliases)
<1>1. DOMAIN devices = 1..Len(devices) /\ Len(devices) \in Nat
  BY LenProperties DEF TypeOK
<1>2. None \notin DOMAIN devices
  BY <1>1 DEF None
<1>3. \/ (\A a \in Range(aliases) : a.key # k) /\ Aliased(k) = None
      \/ \E a \in Range(aliases) : a.key = k /\ Aliased(k) = a.id
  BY OwnerInRow DEF Aliased
<1>4. \/ /\ \A id \in DOMAIN devices : devices[id].key # k
         /\ Founded(k) = None
      \/ Founded(k) \in DOMAIN devices /\ devices[Founded(k)].key = k
  BY DEF Founded
<1>5. QED
  BY <1>2, <1>3, <1>4 DEF Owner, TablesOK, Bound, IsAlias

\* _best_match answers with the device of an entry that it saw.
LEMMA BestMatchSeen ==
    ASSUME TypeOK, NEW k \in Keys, BestMatch(k) # None
    PROVE  \E e \in Range(recent) \cup Range(pendRecent) : BestMatch(k) = e.id
<1> DEFINE candidates == recent \o pendRecent
           score == [i \in DOMAIN candidates |-> Score(Appearances[k], candidates[i].look)]
           best == {i \in DOMAIN candidates :
                       /\ score[i] >= MinScore
                       /\ \A j \in DOMAIN candidates :
                             score[j] < score[i] \/ (score[j] = score[i] /\ i <= j)}
<1>1. BestMatch(k) = IF best = {} THEN None ELSE candidates[CHOOSE i \in best : TRUE].id
  BY DEF BestMatch
<1>2. best \subseteq DOMAIN candidates
  OBVIOUS
<1> HIDE DEF best
<1>3. PICK i \in DOMAIN candidates : BestMatch(k) = candidates[i].id
  BY <1>1, <1>2
<1>4. Range(candidates) = Range(recent) \cup Range(pendRecent)
  BY RangeConcatenation DEF TypeOK
<1> HIDE DEF candidates
<1>5. candidates[i] \in Range(candidates)
  BY DEF Range
<1>6. QED
  BY <1>3, <1>4, <1>5

-----------------------------------------------------------------------------
\* Where the entries of a derived sequence come from.

LEMMA RearrangedRange ==
    ASSUME NEW R, NEW rows \in Seq(R), NEW A \in SUBSET DOMAIN rows, NEW B \in SUBSET DOMAIN rows
    PROVE  /\ At(rows, A) \o At(rows, B) \in Seq(R)
           /\ Range(At(rows, A) \o At(rows, B)) \subseteq Range(rows)
<1>1. ASSUME NEW S \in SUBSET DOMAIN rows
      PROVE  At(rows, S) \in Seq(R) /\ Range(At(rows, S)) \subseteq Range(rows)
  <2>1. At(rows, S) \in Seq(R) /\ \A e \in Range(At(rows, S)) : \E i \in S : e = rows[i]
    BY AtSelects
  <2>2. \A e \in Range(At(rows, S)) : e \in Range(rows)
    BY <2>1 DEF Range
  <2>3. QED
    BY <2>1, <2>2
<1>2. Range(At(rows, A) \o At(rows, B)) = Range(At(rows, A)) \cup Range(At(rows, B))
  BY <1>1, RangeConcatenation
<1>3. At(rows, A) \o At(rows, B) \in Seq(R)
  BY <1>1, ConcatProperties
<1>4. QED
  BY <1>1, <1>2, <1>3

LEMMA SubSeqRange ==
    ASSUME NEW R, NEW s \in Seq(R), NEW m \in Nat \ {0}, NEW n \in Nat, n <= Len(s)
    PROVE  /\ SubSeq(s, m, n) \in Seq(R)
           /\ Len(SubSeq(s, m, n)) = IF m <= n THEN n - m + 1 ELSE 0
           /\ Range(SubSeq(s, m, n)) \subseteq Range(s)
<1> DEFINE u == SubSeq(s, m, n)
<1>1. Len(s) \in Nat /\ DOMAIN s = 1..Len(s) /\ \A i \in DOMAIN s : s[i] \in R
  BY LenProperties, ElementOfSeq
<1>2. \A i \in m..n : s[i] \in R
  BY <1>1
<1>3. /\ u \in Seq(R) /\ Len(u) = IF m <= n THEN n - m + 1 ELSE 0
      /\ \A j \in 1..n - m + 1 : u[j] = s[m + j - 1]
  BY <1>2, SubSeqProperties
<1>4. DOMAIN u = 1..Len(u)
  BY <1>3, LenProperties
<1> HIDE DEF u
<1>5. ASSUME NEW j \in DOMAIN u
      PROVE  u[j] \in Range(s)
  <2>1. j \in 1..n - m + 1
    BY <1>3, <1>4
  <2>2. m + j - 1 \in DOMAIN s
    BY <1>1, <2>1
  <2>3. QED
    BY <1>3, <2>1, <2>2 DEF Range
<1>6. Range(u) \subseteq Range(s)
  BY <1>5, Zenon DEF Range
<1>7. QED
  BY <1>3, <1>6 DEF u

LEMMA UptoTakes ==
    ASSUME NEW R, NEW s \in Seq(R), NEW n \in Nat
    PROVE  /\ Upto(s, n) \in Seq(R)
           /\ Len(Upto(s, n)) = Smaller(n, Len(s))
           /\ Range(Upto(s, n)) \subseteq Range(s)
<1> DEFINE c == Smaller(n, Len(s))
<1>1. Len(s) \in Nat
  BY LenProperties
<1>2. c \in Nat /\ c <= Len(s)
  BY <1>1 DEF Smaller
<1>3. Upto(s, n) = SubSeq(s, 1, c)
  BY DEF Upto
<1> HIDE DEF c
<1>4. /\ SubSeq(s, 1, c) \in Seq(R)
      /\ Len(SubSeq(s, 1, c)) = IF 1 <= c THEN c - 1 + 1 ELSE 0
      /\ Range(SubSeq(s, 1, c)) \subseteq Range(s)
  BY <1>2, SubSeqRange
<1>5. QED
  BY <1>2, <1>3, <1>4 DEF c

LEMMA AppendRange ==
    ASSUME NEW R, NEW s \in Seq(R), NEW e \in R
    PROVE  /\ Append(s, e) \in Seq(R) /\ Len(Append(s, e)) = Len(s) + 1 /\ Len(s) \in Nat
           /\ DOMAIN s = 1..Len(s) /\ DOMAIN Append(s, e) = 1..Len(s) + 1
           /\ \A i \in 1..Len(s) : Append(s, e)[i] = s[i]
           /\ Append(s, e)[Len(s) + 1] = e
           /\ Range(Append(s, e)) = Range(s) \cup {e}
<1> DEFINE u == Append(s, e)
<1>1. u \in Seq(R) /\ Len(u) = Len(s) + 1
  BY AppendProperties
<1>2. DOMAIN u = 1..Len(u) /\ Len(s) \in Nat /\ DOMAIN s = 1..Len(s)
  BY <1>1, LenProperties
<1>3. (\A i \in 1..Len(s) : u[i] = s[i]) /\ u[Len(s) + 1] = e
  BY AppendProperties
<1> HIDE DEF u
<1>4. DOMAIN u = 1..Len(s) + 1
  BY <1>1, <1>2
<1>5. DOMAIN u = DOMAIN s \cup {Len(s) + 1}
  BY <1>2, <1>4
<1>6. \A i \in DOMAIN s : u[i] = s[i]
  BY <1>2, <1>3
<1>7. Range(u) = Range(s) \cup {e}
  BY <1>3, <1>5, <1>6 DEF Range
<1>8. QED
  BY <1>1, <1>2, <1>3, <1>4, <1>7 DEF u

-----------------------------------------------------------------------------
\* resolve.

LEMMA EntryType ==
    ASSUME NEW k \in Keys, NEW id \in Nat
    PROVE  Entry(k, Appearances[k], id) \in Seen /\ Appearances[k].addr \in Nat
BY Parameters DEF Entry, Seen, Appearance

LEMMA Domains ==
    ASSUME TypeOK
    PROVE  /\ Len(devices) \in Nat /\ DOMAIN devices = 1..Len(devices)
           /\ \A id \in DOMAIN devices : devices[id] \in Row
           /\ Len(aliases) \in Nat /\ DOMAIN aliases = 1..Len(aliases)
           /\ \A i \in DOMAIN aliases : aliases[i] \in Alias
           /\ Len(recent) \in Nat /\ DOMAIN recent = 1..Len(recent)
           /\ \A i \in DOMAIN recent : recent[i] \in Seen
           /\ Len(pendRecent) \in Nat /\ DOMAIN pendRecent = 1..Len(pendRecent)
           /\ \A i \in DOMAIN pendRecent : pendRecent[i] \in Seen
           /\ Len(saved.devices) \in Nat /\ DOMAIN saved.devices = 1..Len(saved.devices)
           /\ \A id \in DOMAIN saved.devices : saved.devices[id] \in Row
           /\ DOMAIN saved.aliases = 1..Len(saved.aliases)
           /\ \A i \in DOMAIN saved.aliases : saved.aliases[i] \in Alias
           /\ \A e \in Range(recent) \cup Range(pendRecent) : e.key \in Keys /\ e.id \in Nat
           /\ \A a \in Range(aliases) : a.key \in Keys /\ a.id \in Nat
<1>1. /\ devices \in Seq(Row) /\ aliases \in Seq(Alias)
      /\ recent \in Seq(Seen) /\ pendRecent \in Seq(Seen)
      /\ saved.devices \in Seq(Row) /\ saved.aliases \in Seq(Alias)
  BY DEF TypeOK
<1>2. /\ Range(recent) \in SUBSET Seen /\ Range(pendRecent) \in SUBSET Seen
      /\ Range(aliases) \in SUBSET Alias
  BY <1>1, RangeOfSeq
<1>3. /\ \A e \in Range(recent) \cup Range(pendRecent) : e.key \in Keys /\ e.id \in Nat
      /\ \A a \in Range(aliases) : a.key \in Keys /\ a.id \in Nat
  BY <1>2 DEF Seen, Alias
<1>4. QED
  BY <1>1, <1>3, LenProperties, ElementOfSeq

\* A device's address is no part of what the tables say of keys.
LEMMA TouchedKeeps ==
    ASSUME TypeOK, NEW k \in Keys, NEW id
    PROVE  /\ Touched(id, k) \in Seq(Row) /\ Len(Touched(id, k)) = Len(devices)
           /\ DOMAIN Touched(id, k) = DOMAIN devices
           /\ \A x \in DOMAIN devices : Touched(id, k)[x].key = devices[x].key
<1>1. /\ Len(devices) \in Nat /\ DOMAIN devices = 1..Len(devices)
      /\ \A x \in DOMAIN devices : devices[x] \in Row
  BY Domains
<1>2. Appearances[k].addr \in Nat
  BY EntryType, Parameters DEF Appearance
<1> DEFINE one == [x \in DOMAIN devices |->
                      IF x = id THEN [devices[x] EXCEPT !.addr = Appearances[k].addr]
                      ELSE devices[x]]
<1>3. \A x \in DOMAIN devices : one[x] \in Row /\ one[x].key = devices[x].key
  BY <1>1, <1>2 DEF Row
<1>4. one \in [1..Len(devices) -> Row]
  BY <1>1, <1>3
<1>5. one \in Seq(Row)
  BY <1>1, <1>4, SeqDef
<1>6. Touched(id, k) = one
  BY DEF Touched
<1>7. DOMAIN one = 1..Len(one) /\ DOMAIN one = DOMAIN devices
  BY <1>5, LenProperties
<1>8. Len(one) = Len(devices)
  BY <1>1, <1>5, <1>7, LenProperties
<1> HIDE DEF one
<1>9. QED
  BY <1>3, <1>5, <1>6, <1>7, <1>8

LEMMA SameKeys ==
    ASSUME NEW devs, NEW devs2, NEW als,
           DOMAIN devs2 = DOMAIN devs,
           \A x \in DOMAIN devs : devs2[x].key = devs[x].key
    PROVE  /\ TablesOK(devs, als) => TablesOK(devs2, als)
           /\ \A k, x : Bound(k, x, devs2, als) <=> Bound(k, x, devs, als)
           /\ \A k, x, gone : Right(k, x, devs, als, gone) => Right(k, x, devs2, als, gone)
<1>1. \A k, x : Bound(k, x, devs2, als) <=> Bound(k, x, devs, als)
  BY DEF Bound
<1>2. TablesOK(devs, als) => TablesOK(devs2, als)
  BY DEF TablesOK
<1>3. QED
  BY <1>1, <1>2 DEF Right

\* A step that leaves every key with its device keeps what memory says.
LEMMA SameKeysKeep ==
    ASSUME IInv, DOMAIN devices' = DOMAIN devices, Len(devices') = Len(devices),
           \A x \in DOMAIN devices : devices'[x].key = devices[x].key,
           pc = "cycle", UNCHANGED <<pc, aliases, saved, cache, aliasKeys, told, pruned>>
    PROVE  /\ Agree(devices, aliases, pruned)'
           /\ Agree(saved.devices, saved.aliases, saved.pruned)'
           /\ SavedOK'
           /\ \A k, x : Bound(k, x, devices', aliases') <=> Bound(k, x, devices, aliases)
           /\ \A k, x : Right(k, x, devices, aliases, pruned)
                           => Right(k, x, devices', aliases', pruned')
<1>1. PICK devs : devs = devices'
  OBVIOUS
<1>2. /\ TablesOK(devices, aliases) => TablesOK(devs, aliases)
      /\ \A k, x : Bound(k, x, devs, aliases) <=> Bound(k, x, devices, aliases)
      /\ \A k, x, gone : Right(k, x, devices, aliases, gone) => Right(k, x, devs, aliases, gone)
  <2>1. DOMAIN devs = DOMAIN devices /\ \A x \in DOMAIN devices : devs[x].key = devices[x].key
    BY <1>1
  <2>2. QED
    BY <2>1, SameKeys
<1>3. Agree(devices, aliases, pruned)
  BY DEF IInv
<1>4. Agree(devices, aliases, pruned)'
  BY <1>1, <1>2, <1>3 DEF Agree, Holds
<1>5. Agree(saved.devices, saved.aliases, saved.pruned)'
  BY DEF IInv, Agree, Holds
<1>6. SavedOK'
  BY DEF IInv, SavedOK
<1>7. QED
  BY <1>1, <1>2, <1>4, <1>5, <1>6

LEMMA RecallKeeps ==
    ASSUME IInv, NEW k \in Keys, Recall(k)
    PROVE  IInv'
<1> DEFINE id == InMemory(k)
<1>1. /\ pc = "cycle" /\ id # None
      /\ UNCHANGED <<pc, saved, cache, aliasKeys, told, aliases, pendKeys, pendAlias,
                     pendRecent, pruned>>
      /\ answers' = [answers EXCEPT ![k] = id]
      /\ recent' = At(recent, {i \in DOMAIN recent : recent[i].key # k})
                   \o At(recent, {i \in DOMAIN recent : recent[i].key = k})
      /\ devices' = Touched(id, k) \/ devices' = devices
  BY DEF Recall, Resolving, pending
<1>2. TypeOK
  BY DEF IInv
<1>3. Right(k, id, devices, aliases, pruned) /\ id \in Nat
  BY <1>1, <1>2 DEF IInv, TypeOK, Agree, StagedOK, Holds, InMemory
<1>4. /\ devices' \in Seq(Row) /\ DOMAIN devices' = DOMAIN devices /\ Len(devices') = Len(devices)
      /\ \A x \in DOMAIN devices : devices'[x].key = devices[x].key
  <2>1. CASE devices' = Touched(id, k)
    BY <1>2, <2>1, TouchedKeeps
  <2>2. CASE devices' = devices
    BY <1>2, <2>2 DEF TypeOK
  <2>3. QED
    BY <1>1, <2>1, <2>2
<1> HIDE DEF id
<1>5. /\ Agree(devices, aliases, pruned)'
      /\ Agree(saved.devices, saved.aliases, saved.pruned)'
      /\ SavedOK'
      /\ \A j, x : Bound(j, x, devices', aliases') <=> Bound(j, x, devices, aliases)
      /\ \A j, x : Right(j, x, devices, aliases, pruned)
                      => Right(j, x, devices', aliases', pruned')
  BY <1>1, <1>4, SameKeysKeep
<1>6. recent' \in Seq(Seen) /\ Range(recent') \subseteq Range(recent)
  <2> DEFINE A == {i \in DOMAIN recent : recent[i].key # k}
             B == {i \in DOMAIN recent : recent[i].key = k}
  <2>1. recent \in Seq(Seen) /\ A \in SUBSET DOMAIN recent /\ B \in SUBSET DOMAIN recent
    BY <1>2 DEF TypeOK
  <2>2. recent' = At(recent, A) \o At(recent, B)
    BY <1>1
  <2> HIDE DEF A, B
  <2>3. QED
    BY <2>1, <2>2, RearrangedRange
<1>7. TypeOK'
  BY <1>1, <1>2, <1>3, <1>4, <1>6 DEF TypeOK
<1>8. StagedOK'
  <2>1. StagedOK /\ answers \in [Keys -> Nat]
    BY <1>2 DEF IInv, TypeOK
  <2>2. \A j \in Holds(answers') : \/ answers'[j] = answers[j] /\ j \in Holds(answers)
                                   \/ answers'[j] = id /\ j = k
    BY <1>1, <2>1 DEF Holds
  <2>3. Holds(answers) \subseteq Holds(answers')
    BY <1>1, <2>1 DEF Holds
  <2>4. \A j \in Holds(answers') : Right(j, answers'[j], devices', aliases', pruned')
    BY <1>3, <1>5, <2>1, <2>2 DEF StagedOK, Holds
  <2>5. \A j \in pruned' \ Holds(answers'), x \in DOMAIN devices' : ~Bound(j, x, devices', aliases')
    BY <1>1, <1>4, <1>5, <2>1, <2>3 DEF StagedOK, Holds
  <2>6. \A j \in Holds(pendKeys') : /\ Right(j, pendKeys'[j], devices', aliases', pruned')
                                    /\ IsAlias(j, aliases') => j \in pendAlias'
    BY <1>1, <1>5, <2>1 DEF StagedOK, Holds
  <2>7. \A e \in Range(pendRecent') : e.id # None /\ e.id = pendKeys'[e.key]
    BY <1>1, <2>1 DEF StagedOK
  <2>8. QED
    BY <2>4, <2>5, <2>6, <2>7, Zenon DEF StagedOK
<1>9. WindowOK'
  <2>1. WindowOK
    BY DEF IInv
  <2>2. QED
    BY <1>1, <1>4, <1>5, <1>6, <2>1 DEF WindowOK, Holds
<1>10. QED
  BY <1>5, <1>7, <1>8, <1>9 DEF IInv

\* A lookup that stages its answer keeps the invariant when its writes change
\* the device of no other key.
LEMMA StageKeeps ==
    ASSUME IInv, NEW k \in Keys, NEW id \in Nat \ {None}, NEW alias \in BOOLEAN,
           Resolving(k), InMemory(k) = None, UNCHANGED recent, Stage(k, id, alias),
           devices' \in Seq(Row), aliases' \in Seq(Alias), pruned' \in SUBSET Keys,
           Len(devices) <= Len(devices'), pruned \subseteq pruned',
           TablesOK(devices', aliases'),
           \A j \in Keys \ {k} : \A x : Bound(j, x, devices', aliases') => Bound(j, x, devices, aliases),
           \A j \in Keys \ {k} : \A x :
              Bound(j, x, devices, aliases) /\ j \notin pruned' => Bound(j, x, devices', aliases'),
           \A j \in Keys \ {k} : \A x : j \in pruned' \ pruned => ~Bound(j, x, devices', aliases'),
           \A j \in Keys \ {k} : IsAlias(j, aliases') => IsAlias(j, aliases),
           Right(k, id, devices', aliases', pruned'),
           IsAlias(k, aliases') => alias,
           told[k] # None /\ k \notin pruned' => Bound(k, told[k], devices', aliases')
    PROVE  IInv'
<1>1. /\ pc = "cycle" /\ UNCHANGED <<pc, saved, cache, aliasKeys, told, recent>>
      /\ cache[k] = None /\ pendKeys[k] = None
      /\ pendKeys' = [pendKeys EXCEPT ![k] = id]
      /\ pendAlias' = IF alias THEN pendAlias \cup {k} ELSE pendAlias
      /\ pendRecent' = Append(pendRecent, Entry(k, Appearances[k], id))
      /\ answers' = [answers EXCEPT ![k] = id]
  BY DEF Resolving, Stage, InMemory
<1>2. TypeOK /\ Agree(devices, aliases, pruned) /\ StagedOK /\ WindowOK /\ SavedOK
      /\ Agree(saved.devices, saved.aliases, saved.pruned)
  BY DEF IInv
<1>3. Entry(k, Appearances[k], id) \in Seen /\ Entry(k, Appearances[k], id).key = k
      /\ Entry(k, Appearances[k], id).id = id
  BY EntryType DEF Entry
<1>4. /\ pendRecent' \in Seq(Seen)
      /\ Range(pendRecent') = Range(pendRecent) \cup {Entry(k, Appearances[k], id)}
  BY <1>1, <1>2, <1>3, AppendRange DEF TypeOK
<1>5. TypeOK'
  BY <1>1, <1>2, <1>4 DEF TypeOK
<1>6. /\ Len(devices) \in Nat /\ DOMAIN devices = 1..Len(devices)
      /\ Len(devices') \in Nat /\ DOMAIN devices' = 1..Len(devices')
      /\ DOMAIN devices \subseteq DOMAIN devices'
  <2>1. Len(devices) \in Nat /\ DOMAIN devices = 1..Len(devices)
    BY <1>2, Domains
  <2>2. Len(devices') \in Nat /\ DOMAIN devices' = 1..Len(devices')
    BY LenProperties
  <2>3. QED
    BY <2>1, <2>2
<1>7. ASSUME NEW j \in Keys \ {k}, NEW x, Right(j, x, devices, aliases, pruned)
      PROVE  Right(j, x, devices', aliases', pruned')
  <2>1. x \in DOMAIN devices'
    BY <1>6, <1>7 DEF Right
  <2>2. ASSUME NEW y \in DOMAIN devices', Bound(j, y, devices', aliases')
        PROVE  y = x
    <3>1. Bound(j, y, devices, aliases)
      BY <2>2
    <3>2. y \in DOMAIN devices
      BY <1>2, <3>1, OneOwner DEF Agree
    <3>3. QED
      BY <1>7, <3>1, <3>2 DEF Right
  <2>3. j \notin pruned' => Bound(j, x, devices', aliases')
    BY <1>7 DEF Right
  <2>4. QED
    BY <2>1, <2>2, <2>3 DEF Right
<1>8. Agree(devices, aliases, pruned)'
  <2>1. \A j \in Holds(cache) : /\ Right(j, cache[j], devices', aliases', pruned')
                                /\ IsAlias(j, aliases') => j \in aliasKeys
    BY <1>1, <1>2, <1>7 DEF Agree, Holds
  <2>2. \A j \in Holds(told) : j \notin pruned' => Bound(j, told[j], devices', aliases')
    BY <1>2 DEF Agree, Holds
  <2>3. QED
    BY <1>1, <2>1, <2>2 DEF Agree, Holds
<1>9. Agree(saved.devices, saved.aliases, saved.pruned)'
  BY <1>1, <1>2 DEF Agree, Holds
<1>10. StagedOK'
  <2>1. \A j \in Keys \ {k} : /\ pendKeys'[j] = pendKeys[j] /\ answers'[j] = answers[j]
                              /\ j \in pendAlias => j \in pendAlias'
    BY <1>1, <1>2 DEF TypeOK
  <2>2. pendKeys'[k] = id /\ answers'[k] = id /\ (alias => k \in pendAlias')
    BY <1>1, <1>2 DEF TypeOK
  <2>3. \A j \in Holds(pendKeys') : /\ Right(j, pendKeys'[j], devices', aliases', pruned')
                                    /\ IsAlias(j, aliases') => j \in pendAlias'
    BY <1>2, <1>7, <2>1, <2>2 DEF StagedOK, Holds
  <2>4. \A j \in Holds(answers') : Right(j, answers'[j], devices', aliases', pruned')
    BY <1>2, <1>7, <2>1, <2>2 DEF StagedOK, Holds
  <2>5. ASSUME NEW e \in Range(pendRecent')
        PROVE  e.id # None /\ e.id = pendKeys'[e.key]
    <3>1. CASE e \in Range(pendRecent)
      <4>1. e.id # None /\ e.id = pendKeys[e.key]
        BY <1>2, <3>1 DEF StagedOK
      <4>2. e.key \in Keys
        BY <1>2, <3>1, Domains
      <4>3. QED
        BY <1>1, <2>1, <4>1, <4>2
    <3>2. CASE e = Entry(k, Appearances[k], id)
      BY <1>3, <2>2, <3>2
    <3>3. QED
      BY <1>4, <3>1, <3>2
  <2>6. ASSUME NEW j \in pruned' \ Holds(answers'), NEW x \in DOMAIN devices'
        PROVE  ~Bound(j, x, devices', aliases')
    <3>1. j \in Keys \ {k} /\ j \notin Holds(answers)
      BY <2>1, <2>2, <2>6 DEF Holds
    <3>2. CASE j \notin pruned
      BY <2>6, <3>1, <3>2
    <3>3. CASE j \in pruned
      <4>1. SUFFICES ASSUME Bound(j, x, devices', aliases')
                     PROVE  FALSE
        OBVIOUS
      <4>2. Bound(j, x, devices, aliases)
        BY <3>1, <4>1
      <4>3. x \in DOMAIN devices
        BY <1>2, <4>2, OneOwner DEF Agree
      <4>4. QED
        BY <1>2, <3>1, <3>3, <4>2, <4>3 DEF StagedOK
    <3>4. QED
      BY <3>2, <3>3
  <2>7. QED
    BY <2>3, <2>4, <2>5, <2>6 DEF StagedOK
<1>11. WindowOK'
  <2>1. SUFFICES ASSUME NEW e \in Range(recent), NEW x \in DOMAIN devices',
                        Bound(e.key, x, devices', aliases')
                 PROVE  x = e.id \/ e.key \in Holds(pendKeys')
    BY <1>1, <1>2 DEF WindowOK, Holds
  <2>2. e.key \in Keys
    BY <1>2, Domains
  <2>3. CASE e.key = k
    BY <1>1, <1>2, <2>3 DEF Holds, TypeOK
  <2>4. CASE e.key # k
    <3>1. Bound(e.key, x, devices, aliases)
      BY <2>1, <2>2, <2>4
    <3>2. x \in DOMAIN devices
      BY <1>2, <3>1, OneOwner DEF Agree
    <3>3. QED
      BY <1>1, <1>2, <2>2, <2>4, <3>1, <3>2 DEF WindowOK, Holds, TypeOK
  <2>5. QED
    BY <2>3, <2>4
<1>12. SavedOK'
  BY <1>1, <1>2, <1>6, Domains DEF SavedOK
<1>13. QED
  BY <1>5, <1>8, <1>9, <1>10, <1>11, <1>12 DEF IInv

LEMMA LookupStages ==
    ASSUME IInv, NEW k \in Keys, NEW id \in Nat \ {None}, NEW alias \in BOOLEAN,
           Resolving(k), InMemory(k) = None, UNCHANGED <<recent, aliases, pruned>>,
           Stage(k, id, alias),
           devices' = devices \/ devices' = Touched(id, k),
           Bound(k, id, devices, aliases), IsAlias(k, aliases) => alias
    PROVE  IInv'
<1>1. TypeOK /\ Agree(devices, aliases, pruned) /\ TablesOK(devices, aliases)
  BY DEF IInv, Agree
<1>2. /\ devices' \in Seq(Row) /\ Len(devices') = Len(devices) /\ DOMAIN devices' = DOMAIN devices
      /\ \A x \in DOMAIN devices : devices'[x].key = devices[x].key
  <2>1. CASE devices' = devices
    BY <1>1, <2>1 DEF TypeOK
  <2>2. CASE devices' = Touched(id, k)
    BY <1>1, <2>2, TouchedKeeps
  <2>3. QED
    BY <2>1, <2>2
<1>3. Right(k, id, devices, aliases, pruned)
  BY <1>1, OneOwner DEF Right
<1>4. /\ TablesOK(devices', aliases)
      /\ \A j, x : Bound(j, x, devices', aliases) <=> Bound(j, x, devices, aliases)
      /\ Right(k, id, devices', aliases, pruned)
  <2>1. PICK devs : devs = devices'
    OBVIOUS
  <2>2. DOMAIN devs = DOMAIN devices /\ \A x \in DOMAIN devices : devs[x].key = devices[x].key
    BY <1>2, <2>1
  <2>3. /\ TablesOK(devices, aliases) => TablesOK(devs, aliases)
        /\ \A j, x : Bound(j, x, devs, aliases) <=> Bound(j, x, devices, aliases)
        /\ \A j, x, gone : Right(j, x, devices, aliases, gone) => Right(j, x, devs, aliases, gone)
    BY <2>2, SameKeys
  <2>4. QED
    BY <1>1, <1>3, <2>1, <2>3
<1>5. aliases' = aliases /\ aliases' \in Seq(Alias) /\ pruned' = pruned /\ pruned' \in SUBSET Keys
  BY <1>1 DEF TypeOK
<1>6. told[k] # None /\ k \notin pruned' => Bound(k, told[k], devices', aliases')
  BY <1>1, <1>4, <1>5 DEF Agree, Holds
<1>7. Len(devices) <= Len(devices')
  BY <1>1, <1>2, Domains
<1>8. QED
  BY <1>2, <1>4, <1>5, <1>6, <1>7, StageKeeps

LEMMA FindDeviceKeeps ==
    ASSUME IInv, NEW k \in Keys, FindDevice(k)
    PROVE  IInv'
<1>1. TypeOK /\ TablesOK(devices, aliases)
  BY DEF IInv, Agree
<1>2. PICK id : id = Founded(k)
  OBVIOUS
<1>3. /\ Resolving(k) /\ InMemory(k) = None /\ id # None /\ Stage(k, id, FALSE)
      /\ UNCHANGED <<devices, aliases, recent, pruned>>
  BY <1>2 DEF FindDevice, tables
<1>4. id \in DOMAIN devices /\ devices[id].key = k /\ ~IsAlias(k, aliases)
  BY <1>1, <1>2, <1>3, OwnerIsBound
<1>5. id \in Nat \ {None} /\ Bound(k, id, devices, aliases)
  BY <1>1, <1>3, <1>4, Domains DEF Bound
<1>6. QED
  BY <1>3, <1>4, <1>5, LookupStages

LEMMA FindAliasKeeps ==
    ASSUME IInv, NEW k \in Keys, FindAlias(k)
    PROVE  IInv'
<1>1. TypeOK /\ TablesOK(devices, aliases)
  BY DEF IInv, Agree
<1>2. PICK id : id = Aliased(k)
  OBVIOUS
<1>3. /\ Resolving(k) /\ InMemory(k) = None /\ id # None /\ Stage(k, id, TRUE)
      /\ devices' = Touched(id, k) /\ UNCHANGED <<aliases, recent, pruned>>
  BY <1>2 DEF FindAlias
<1>4. id \in DOMAIN devices /\ Bound(k, id, devices, aliases)
  BY <1>1, <1>2, <1>3, OwnerIsBound
<1>5. id \in Nat \ {None}
  BY <1>1, <1>3, <1>4, Domains
<1>6. QED
  BY <1>3, <1>4, <1>5, LookupStages

\* The entries that _best_match compares name devices that are there.
LEMMA BestMatchIsThere ==
    ASSUME IInv, NEW k \in Keys, BestMatch(k) # None
    PROVE  BestMatch(k) \in DOMAIN devices
<1>1. TypeOK /\ StagedOK /\ WindowOK /\ SavedOK
  BY DEF IInv
<1>2. PICK e \in Range(recent) \cup Range(pendRecent) : BestMatch(k) = e.id
  BY <1>1, BestMatchSeen
<1>3. CASE e \in Range(recent)
  BY <1>1, <1>2, <1>3, Domains DEF WindowOK, SavedOK
<1>4. CASE e \in Range(pendRecent)
  <2>1. e.id # None /\ e.id = pendKeys[e.key] /\ e.key \in Keys
    BY <1>1, <1>4, Domains DEF StagedOK
  <2>2. QED
    BY <1>1, <1>2, <2>1 DEF StagedOK, Holds, Right
<1>5. QED
  BY <1>2, <1>3, <1>4

LEMMA FuseKeeps ==
    ASSUME IInv, NEW k \in Keys, Fuse(k)
    PROVE  IInv'
<1>1. TypeOK /\ Agree(devices, aliases, pruned) /\ TablesOK(devices, aliases)
  BY DEF IInv, Agree
<1>2. PICK id : id = BestMatch(k)
  OBVIOUS
<1>3. PICK new : new = [key |-> k, id |-> id]
  OBVIOUS
<1>4. PICK rows : rows = Append(aliases, new)
  OBVIOUS
<1>5. /\ Resolving(k) /\ InMemory(k) = None /\ Owner(k) = None /\ id # None
      /\ Stage(k, id, TRUE) /\ devices' = Touched(id, k) /\ recent' = recent
      /\ aliases' = Capped(rows, {id}) /\ pruned' = pruned \cup Gone(rows, aliases')
  BY <1>2, <1>3, <1>4 DEF Fuse, Unknown
<1>6. id \in DOMAIN devices /\ id \in Nat \ {None}
  BY <1>1, <1>2, <1>5, BestMatchIsThere, Domains
<1>7. /\ rows \in Seq(Alias) /\ Range(rows) = Range(aliases) \cup {new}
      /\ new.key = k /\ new.id = id
  <2>1. new \in Alias
    BY <1>3, <1>6 DEF Alias
  <2>2. QED
    BY <1>1, <1>3, <1>4, <2>1, AppendRange DEF TypeOK
<1>8. aliases' \in Seq(Alias) /\ Range(aliases') \subseteq Range(rows)
  BY <1>5, <1>7, CappedDeletes
<1>9. /\ devices' \in Seq(Row) /\ Len(devices') = Len(devices) /\ DOMAIN devices' = DOMAIN devices
      /\ \A x \in DOMAIN devices : devices'[x].key = devices[x].key
  BY <1>1, <1>5, TouchedKeeps
<1>10. /\ ~IsAlias(k, aliases) /\ \A x \in DOMAIN devices : devices[x].key # k
       /\ \A x : ~Bound(k, x, devices, aliases)
  BY <1>1, <1>5, OwnerIsBound
<1>11. \A j : j \in Gone(rows, aliases') <=> IsAlias(j, rows) /\ ~IsAlias(j, aliases')
  BY GoneKeys
<1>12. TablesOK(devices', aliases')
  <2>1. \A a \in Range(aliases') : a \in Range(aliases) \/ a = new
    BY <1>7, <1>8
  <2>2. \A a \in Range(aliases') : a.id \in DOMAIN devices'
    BY <1>1, <1>6, <1>7, <1>9, <2>1 DEF TablesOK
  <2>3. \A a \in Range(aliases'), x \in DOMAIN devices' : a.key # devices'[x].key
    BY <1>1, <1>7, <1>9, <1>10, <2>1 DEF TablesOK
  <2>4. \A a, b \in Range(aliases') : a.key = b.key => a.id = b.id
    BY <1>1, <1>7, <1>10, <2>1 DEF TablesOK, IsAlias
  <2>5. \A x, y \in DOMAIN devices' : devices'[x].key = devices'[y].key => x = y
    BY <1>1, <1>9 DEF TablesOK
  <2>6. QED
    BY <2>2, <2>3, <2>4, <2>5 DEF TablesOK
<1>13. \A j \in Keys \ {k} : \A x : Bound(j, x, devices', aliases') => Bound(j, x, devices, aliases)
  BY <1>7, <1>8, <1>9 DEF Bound
<1>14. \A j \in Keys \ {k} : IsAlias(j, aliases') => IsAlias(j, aliases)
  BY <1>7, <1>8 DEF IsAlias
<1>15. ASSUME NEW j \in Keys, NEW a \in Range(rows), a.key = j, j \notin pruned'
       PROVE  \E b \in Range(aliases') : b.key = j /\ b.id = a.id
  <2>1. IsAlias(j, aliases')
    BY <1>5, <1>11, <1>15 DEF IsAlias
  <2>2. PICK b \in Range(aliases') : b.key = j
    BY <2>1 DEF IsAlias
  <2>3. b \in Range(rows)
    BY <1>8
  <2>4. b.id = a.id
    BY <1>1, <1>7, <1>10, <1>15, <2>2, <2>3 DEF TablesOK, IsAlias
  <2>5. QED
    BY <2>2, <2>4
<1>16. ASSUME NEW j \in Keys \ {k}, NEW x, Bound(j, x, devices, aliases), j \notin pruned'
       PROVE  Bound(j, x, devices', aliases')
  BY <1>7, <1>9, <1>15, <1>16 DEF Bound
<1>17. ASSUME NEW j \in Keys \ {k}, NEW x, j \in pruned' \ pruned
       PROVE  ~Bound(j, x, devices', aliases')
  <2>1. IsAlias(j, aliases) /\ ~IsAlias(j, aliases')
    BY <1>5, <1>7, <1>11, <1>17 DEF IsAlias
  <2>2. QED
    BY <1>1, <1>9, <2>1 DEF Bound, IsAlias, TablesOK
<1>18. Right(k, id, devices', aliases', pruned')
  <2>1. \A x : Bound(k, x, devices', aliases') => x = id
    BY <1>7, <1>8, <1>9, <1>10 DEF Bound, IsAlias
  <2>2. k \notin pruned' => Bound(k, id, devices', aliases')
    BY <1>7, <1>15 DEF Bound
  <2>3. QED
    BY <1>6, <1>9, <2>1, <2>2 DEF Right
<1>19. told[k] = None \/ k \in pruned'
  BY <1>1, <1>5, <1>10 DEF Agree, Holds
<1>20. pruned' \in SUBSET Keys
  <2>1. \A j \in Gone(rows, aliases') : j \in Keys
    BY <1>1, <1>7, <1>11, Domains DEF IsAlias
  <2>2. QED
    BY <1>1, <1>5, <2>1 DEF TypeOK
<1>21. Len(devices) <= Len(devices')
  BY <1>1, <1>9, Domains
<1>22. \A j \in Keys \ {k} : \A x :
          Bound(j, x, devices, aliases) /\ j \notin pruned' => Bound(j, x, devices', aliases')
  BY <1>16
<1>23. \A j \in Keys \ {k} : \A x : j \in pruned' \ pruned => ~Bound(j, x, devices', aliases')
  BY <1>17
<1>24. pruned \subseteq pruned' /\ TRUE \in BOOLEAN
  BY <1>5
<1>25. told[k] # None /\ k \notin pruned' => Bound(k, told[k], devices', aliases')
  BY <1>19
<1>26. QED
  BY <1>5, <1>6, <1>8, <1>9, <1>12, <1>13, <1>14, <1>18, <1>20, <1>21, <1>22, <1>23, <1>24,
     <1>25, StageKeeps

LEMMA CreateKeeps ==
    ASSUME IInv, NEW k \in Keys, Create(k)
    PROVE  IInv'
<1>1. TypeOK /\ Agree(devices, aliases, pruned) /\ TablesOK(devices, aliases)
  BY DEF IInv, Agree
<1>2. PICK id : id = Len(devices) + 1
  OBVIOUS
<1>3. PICK new : new = [key |-> k, addr |-> Appearances[k].addr]
  OBVIOUS
<1>4. /\ Resolving(k) /\ InMemory(k) = None /\ Owner(k) = None
      /\ Stage(k, id, FALSE) /\ devices' = Append(devices, new)
      /\ UNCHANGED <<aliases, recent, pruned>>
  BY <1>2, <1>3 DEF Create, Unknown
<1>5. new \in Row /\ new.key = k
  BY <1>3, EntryType DEF Row
<1>6. /\ devices' \in Seq(Row) /\ Len(devices') = Len(devices) + 1 /\ Len(devices) \in Nat
      /\ DOMAIN devices = 1..Len(devices) /\ DOMAIN devices' = 1..Len(devices) + 1
      /\ \A i \in 1..Len(devices) : devices'[i] = devices[i]
      /\ devices'[Len(devices) + 1] = new
  BY <1>1, <1>4, <1>5, AppendRange DEF TypeOK
<1>7. /\ id \in Nat \ {None} /\ id \notin DOMAIN devices
      /\ DOMAIN devices' = DOMAIN devices \cup {id}
      /\ \A x \in DOMAIN devices : devices'[x].key = devices[x].key
      /\ devices'[id].key = k
  BY <1>2, <1>5, <1>6 DEF None
<1>8. /\ ~IsAlias(k, aliases) /\ \A x \in DOMAIN devices : devices[x].key # k
      /\ \A x : ~Bound(k, x, devices, aliases)
  BY <1>1, <1>4, OwnerIsBound
<1>9. TablesOK(devices', aliases)
  BY <1>1, <1>7, <1>8 DEF TablesOK, IsAlias
<1>10. \A j \in Keys \ {k} : \A x : Bound(j, x, devices', aliases) <=> Bound(j, x, devices, aliases)
  BY <1>7 DEF Bound
<1>11. Right(k, id, devices', aliases, pruned)
  BY <1>7, <1>8 DEF Right, Bound, IsAlias
<1>12. told[k] = None \/ k \in pruned
  BY <1>1, <1>8 DEF Agree, Holds
<1>13. aliases' = aliases /\ aliases' \in Seq(Alias) /\ pruned' = pruned /\ pruned' \in SUBSET Keys
  BY <1>1, <1>4 DEF TypeOK
<1>14. Len(devices) <= Len(devices')
  BY <1>6
<1>15. /\ \A j \in Keys \ {k} : \A x :
              Bound(j, x, devices', aliases') => Bound(j, x, devices, aliases)
       /\ \A j \in Keys \ {k} : \A x :
              Bound(j, x, devices, aliases) /\ j \notin pruned' => Bound(j, x, devices', aliases')
       /\ \A j \in Keys \ {k} : \A x : j \in pruned' \ pruned => ~Bound(j, x, devices', aliases')
       /\ \A j \in Keys \ {k} : IsAlias(j, aliases') => IsAlias(j, aliases)
  BY <1>10, <1>13
<1>16. /\ TablesOK(devices', aliases') /\ Right(k, id, devices', aliases', pruned')
       /\ IsAlias(k, aliases') => FALSE
       /\ told[k] # None /\ k \notin pruned' => Bound(k, told[k], devices', aliases')
       /\ pruned \subseteq pruned' /\ UNCHANGED recent /\ FALSE \in BOOLEAN
  BY <1>4, <1>8, <1>9, <1>11, <1>12, <1>13
<1>17. QED
  BY <1>4, <1>6, <1>7, <1>13, <1>14, <1>15, <1>16, StageKeeps

-----------------------------------------------------------------------------
\* The cycle around resolve.

LEMMA NothingHeld == Holds(Nothing) = {} /\ Nothing \in [Keys -> Nat]
BY DEF Holds, Nothing, None

LEMMA BeginKeeps ==
    ASSUME IInv, Begin
    PROVE  IInv'
<1>1. /\ pc' = "cycle"
      /\ UNCHANGED <<devices, aliases, saved, cache, aliasKeys, recent, pendKeys, pendAlias,
                     pendRecent, answers, told, pruned>>
  BY DEF Begin, tables, memory, pending
<1>2. TypeOK'
  BY <1>1 DEF IInv, TypeOK
<1>3. Agree(devices, aliases, pruned)' /\ Agree(saved.devices, saved.aliases, saved.pruned)'
  BY <1>1 DEF IInv, Agree, Holds
<1>4. StagedOK'
  BY <1>1 DEF IInv, StagedOK, Holds
<1>5. WindowOK'
  BY <1>1 DEF IInv, WindowOK, Holds
<1>6. SavedOK'
  BY <1>1 DEF IInv, SavedOK
<1>7. QED
  BY <1>2, <1>3, <1>4, <1>5, <1>6 DEF IInv

\* A rollback, with the memory kept (Fail) or lost (Crash).
LEMMA RollbackKeeps ==
    ASSUME IInv, RolledBack, Cleared, UNCHANGED <<saved, told>>, pc' \in {"idle", "down"},
           \/ UNCHANGED <<cache, aliasKeys, recent>>
           \/ cache' = Nothing /\ aliasKeys' = {} /\ recent' = << >>
    PROVE  IInv'
<1>1. /\ devices' = saved.devices /\ aliases' = saved.aliases /\ pruned' = saved.pruned
      /\ saved' = saved /\ told' = told /\ pc' # "cycle"
      /\ pendKeys' = Nothing /\ pendAlias' = {} /\ pendRecent' = << >> /\ answers' = Nothing
  BY DEF RolledBack, Cleared
<1>2. /\ TypeOK /\ Agree(saved.devices, saved.aliases, saved.pruned) /\ WindowOK /\ SavedOK
  BY DEF IInv
<1>3. << >> \in Seq(Seen) /\ Range(<< >>) = {}
  BY DEF Range
<1>4. TypeOK'
  BY <1>1, <1>2, <1>3, NothingHeld DEF TypeOK
<1>5. Holds(cache') \subseteq Holds(cache) /\ \A k \in Holds(cache') : cache'[k] = cache[k]
  BY NothingHeld DEF Holds
<1>6. Holds(cache') # {} => aliasKeys' = aliasKeys
  BY NothingHeld
<1>7. /\ Agree(devices, aliases, pruned)'
      /\ Agree(saved.devices, saved.aliases, saved.pruned)'
  <2>1. \A k \in Holds(cache') :
           /\ Right(k, cache'[k], saved.devices, saved.aliases, saved.pruned)
           /\ IsAlias(k, saved.aliases) => k \in aliasKeys'
    BY <1>2, <1>5, <1>6 DEF Agree
  <2>2. QED
    BY <1>1, <1>2, <2>1 DEF Agree, Holds
<1>8. StagedOK'
  BY <1>1, <1>2, <1>3, NothingHeld DEF StagedOK, SavedOK, Holds
<1>9. WindowOK'
  <2>1. Range(recent') \subseteq Range(recent)
    BY <1>3
  <2>2. QED
    BY <1>1, <1>2, <2>1 DEF WindowOK
<1>10. SavedOK'
  <2>1. saved.pruned \subseteq saved.pruned /\ Len(saved.devices) <= Len(saved.devices)
    BY <1>2, Domains
  <2>2. QED
    BY <1>1, <1>2, <2>1 DEF SavedOK
<1>11. QED
  BY <1>4, <1>7, <1>8, <1>9, <1>10 DEF IInv

\* What a commit puts into the window: entries of keys that were not staged,
\* and what was staged.
LEMMA CommittedWindow ==
    ASSUME TypeOK, Commit
    PROVE  /\ recent' \in Seq(Seen)
           /\ \A e \in Range(recent') :
                 e \in Range(pendRecent) \/ (e \in Range(recent) /\ pendKeys[e.key] = None)
<1> DEFINE S == {i \in DOMAIN recent : pendKeys[recent[i].key] = None}
<1>1. PICK kept : kept = At(recent, S)
  OBVIOUS
<1>2. PICK window : window = kept \o pendRecent
  OBVIOUS
<1>3. recent' = SubSeq(window, 1 + Len(window) - Smaller(Window, Len(window)), Len(window))
  BY <1>1, <1>2 DEF Commit
<1>4. recent \in Seq(Seen) /\ pendRecent \in Seq(Seen) /\ S \in SUBSET DOMAIN recent
  BY DEF TypeOK
<1> HIDE DEF S
<1>5. kept \in Seq(Seen) /\ \A e \in Range(kept) : \E i \in S : e = recent[i]
  BY <1>1, <1>4, AtSelects
<1>6. window \in Seq(Seen) /\ Range(window) = Range(kept) \cup Range(pendRecent)
  BY <1>2, <1>4, <1>5, ConcatProperties, RangeConcatenation
<1>7. /\ Len(window) \in Nat
      /\ 1 + Len(window) - Smaller(Window, Len(window)) \in Nat \ {0}
  <2>1. Len(window) \in Nat /\ Window \in Nat
    BY <1>6, LenProperties, Parameters
  <2>2. QED
    BY <2>1 DEF Smaller
<1>8. recent' \in Seq(Seen) /\ Range(recent') \subseteq Range(window)
  <2>1. PICK m \in Nat \ {0} : m = 1 + Len(window) - Smaller(Window, Len(window))
    BY <1>7
  <2>2. /\ SubSeq(window, m, Len(window)) \in Seq(Seen)
        /\ Range(SubSeq(window, m, Len(window))) \subseteq Range(window)
    BY <1>6, <1>7, SubSeqRange
  <2>3. QED
    BY <1>3, <2>1, <2>2
<1>9. \A e \in Range(kept) : e \in Range(recent) /\ pendKeys[e.key] = None
  BY <1>5 DEF S, Range
<1>10. QED
  BY <1>6, <1>8, <1>9

LEMMA CommitKeeps ==
    ASSUME IInv, Commit
    PROVE  IInv'
<1>1. /\ TypeOK /\ Agree(devices, aliases, pruned) /\ TablesOK(devices, aliases)
      /\ StagedOK /\ WindowOK /\ SavedOK
  BY DEF IInv, Agree
<1>2. PICK full \in BOOLEAN :
         /\ cache' = [k \in Keys |-> IF pendKeys[k] # None THEN pendKeys[k]
                                     ELSE IF full THEN None ELSE cache[k]]
         /\ aliasKeys' = pendAlias \cup (IF full THEN {} ELSE aliasKeys)
  <2>1. PICK full : full = (Cardinality(Holds(cache)) + Cardinality(Holds(pendKeys)) > MaxKeyCache)
    OBVIOUS
  <2>2. full \in BOOLEAN
    BY <2>1
  <2>3. /\ cache' = [k \in Keys |-> IF pendKeys[k] # None THEN pendKeys[k]
                                    ELSE IF full THEN None ELSE cache[k]]
        /\ aliasKeys' = pendAlias \cup (IF full THEN {} ELSE aliasKeys)
    BY <2>1 DEF Commit
  <2>4. QED
    BY <2>2, <2>3
<1>3. /\ pc' = "idle" /\ devices' = devices /\ aliases' = aliases
      /\ pruned' = {k \in pruned : Owner(k) = None}
      /\ saved' = [devices |-> devices, aliases |-> aliases, pruned |-> pruned']
      /\ told' = [k \in Keys |-> IF answers[k] # None THEN answers[k] ELSE told[k]]
      /\ pendKeys' = Nothing /\ pendAlias' = {} /\ pendRecent' = << >> /\ answers' = Nothing
  BY DEF Commit, Cleared, tables
<1>4. saved'.devices = devices /\ saved'.aliases = aliases /\ saved'.pruned = pruned'
  BY <1>3
<1>5. /\ recent' \in Seq(Seen)
      /\ \A e \in Range(recent') :
            e \in Range(pendRecent) \/ (e \in Range(recent) /\ pendKeys[e.key] = None)
  BY <1>1, CommittedWindow
<1>6. TypeOK'
  <2>1. << >> \in Seq(Seen)
    OBVIOUS
  <2>2. cache' \in [Keys -> Nat] /\ aliasKeys' \in SUBSET Keys /\ told' \in [Keys -> Nat]
    BY <1>1, <1>2, <1>3 DEF TypeOK, None
  <2>3. pruned' \in SUBSET Keys
    BY <1>1, <1>3 DEF TypeOK
  <2>4. saved' \in [devices : Seq(Row), aliases : Seq(Alias), pruned : SUBSET Keys]
    BY <1>1, <1>3, <2>3 DEF TypeOK
  <2>5. QED
    BY <1>1, <1>3, <1>5, <2>1, <2>2, <2>3, <2>4, NothingHeld DEF TypeOK
<1>7. ASSUME NEW k \in Keys, NEW x, Right(k, x, devices, aliases, pruned)
      PROVE  Right(k, x, devices, aliases, pruned')
  <2>1. CASE k \in pruned /\ Owner(k) # None
    <3>1. Owner(k) \in DOMAIN devices /\ Bound(k, Owner(k), devices, aliases)
      BY <1>1, <2>1, OwnerIsBound
    <3>2. QED
      BY <1>7, <3>1 DEF Right
  <2>2. CASE k \notin pruned \/ Owner(k) = None
    BY <1>3, <1>7, <2>2 DEF Right
  <2>3. QED
    BY <2>1, <2>2
<1>8. \A k \in Holds(cache') : /\ Right(k, cache'[k], devices, aliases, pruned')
                               /\ IsAlias(k, aliases) => k \in aliasKeys'
  <2>1. SUFFICES ASSUME NEW k \in Keys, cache'[k] # None
                 PROVE  /\ Right(k, cache'[k], devices, aliases, pruned')
                        /\ IsAlias(k, aliases) => k \in aliasKeys'
    BY DEF Holds
  <2>2. CASE pendKeys[k] # None
    BY <1>1, <1>2, <1>7, <2>2 DEF StagedOK, Holds
  <2>3. CASE pendKeys[k] = None
    BY <1>1, <1>2, <1>7, <2>1, <2>3 DEF Agree, Holds
  <2>4. QED
    BY <2>2, <2>3
<1>9. ASSUME NEW k \in Keys, told'[k] # None, k \notin pruned'
      PROVE  Bound(k, told'[k], devices, aliases)
  <2>1. CASE answers[k] # None
    <3>1. Right(k, answers[k], devices, aliases, pruned)
      BY <1>1, <2>1 DEF StagedOK, Holds
    <3>2. QED
      BY <1>3, <1>7, <1>9, <2>1, <3>1 DEF Right
  <2>2. CASE answers[k] = None
    <3>1. told'[k] = told[k]
      BY <1>3, <2>2
    <3>2. CASE k \notin pruned
      BY <1>1, <1>9, <3>1, <3>2 DEF Agree, Holds
    <3>3. CASE k \in pruned
      <4>1. Owner(k) # None
        BY <1>3, <1>9, <3>3
      <4>2. Owner(k) \in DOMAIN devices /\ Bound(k, Owner(k), devices, aliases)
        BY <1>1, <4>1, OwnerIsBound
      <4>3. QED
        BY <1>1, <2>2, <3>3, <4>2 DEF StagedOK, Holds
    <3>4. QED
      BY <3>2, <3>3
  <2>3. QED
    BY <2>1, <2>2
<1>10. Agree(devices, aliases, pruned)' /\ Agree(saved.devices, saved.aliases, saved.pruned)'
  BY <1>1, <1>3, <1>4, <1>8, <1>9 DEF Agree, Holds
<1>11. \A k \in pruned', x \in DOMAIN devices : ~Bound(k, x, devices, aliases)
  <2>1. \A k \in pruned' : k \in Keys /\ Owner(k) = None
    BY <1>1, <1>3 DEF TypeOK
  <2>2. QED
    BY <1>1, <2>1, OwnerIsBound
<1>12. StagedOK'
  <2>1. Range(<< >>) = {}
    BY DEF Range
  <2>2. QED
    BY <1>3, <1>11, <2>1, NothingHeld DEF StagedOK, Holds
<1>13. WindowOK'
  <2>1. SUFFICES ASSUME NEW e \in Range(recent')
                 PROVE  /\ e.id \in DOMAIN devices
                        /\ \A x \in DOMAIN devices : Bound(e.key, x, devices, aliases) => x = e.id
    BY <1>3, <1>4 DEF WindowOK
  <2>2. CASE e \in Range(pendRecent)
    <3>1. e.key \in Holds(pendKeys) /\ e.id = pendKeys[e.key]
      BY <1>1, <2>2, Domains DEF StagedOK, Holds
    <3>2. QED
      BY <1>1, <3>1 DEF StagedOK, Right
  <2>3. CASE e \in Range(recent) /\ pendKeys[e.key] = None
    <3>1. e.id \in DOMAIN saved.devices /\ e.key \notin Holds(pendKeys)
      BY <1>1, <2>3 DEF WindowOK, Holds
    <3>2. e.id \in DOMAIN devices
      BY <1>1, <3>1, Domains DEF SavedOK
    <3>3. QED
      BY <1>1, <2>3, <3>1, <3>2 DEF WindowOK
  <2>4. QED
    BY <1>5, <2>2, <2>3
<1>14. SavedOK'
  <2>1. Len(devices) <= Len(devices)
    BY <1>1, Domains
  <2>2. QED
    BY <1>3, <1>4, <1>11, <2>1 DEF SavedOK
<1>15. QED
  BY <1>6, <1>10, <1>12, <1>13, <1>14 DEF IInv

-----------------------------------------------------------------------------
\* seed().

LEMMA RowsPicked ==
    ASSUME TypeOK, NEW rows \in RecentRows(DOMAIN devices)
    PROVE  LET c == Smaller(Window, Len(devices))
           IN  /\ c \in Nat /\ c <= Window /\ Len(rows) = c /\ DOMAIN rows = 1..c
               /\ \A n \in 1..c : rows[n] \in DOMAIN devices
               /\ \A m, n \in 1..c : rows[m] = rows[n] => m = n
<1>1. Len(devices) \in Nat /\ DOMAIN devices = 1..Len(devices)
  BY Domains
<1>2. Cardinality(DOMAIN devices) = Len(devices)
  <2>1. PICK n \in Nat : n = Len(devices) /\ DOMAIN devices = 1..n
    BY <1>1
  <2>2. Cardinality(1..n) = IF 1 > n THEN 0 ELSE n - 1 + 1
    BY FS_Interval
  <2>3. QED
    BY <2>1, <2>2
<1> DEFINE c == Smaller(Window, Len(devices))
<1>3. c \in Nat /\ c <= Window
  BY <1>1, Parameters DEF Smaller
<1> HIDE DEF c
<1>4. rows \in [1..c -> DOMAIN devices] /\ \A m, n \in DOMAIN rows : rows[m] = rows[n] => m = n
  BY <1>2 DEF RecentRows, c
<1>5. rows \in Seq(DOMAIN devices)
  BY <1>3, <1>4, SeqDef
<1>6. DOMAIN rows = 1..c /\ DOMAIN rows = 1..Len(rows) /\ Len(rows) \in Nat
  BY <1>4, <1>5, LenProperties
<1>7. Len(rows) = c
  BY <1>3, <1>6
<1>8. QED
  BY <1>3, <1>4, <1>6, <1>7 DEF c

\* One window entry per row, under its founding key.
LEMMA FoundingSeedsFrom ==
    ASSUME TypeOK, NEW rows \in RecentRows(DOMAIN devices)
    PROVE  /\ FoundingSeeds(rows) \in Seq(Seen) /\ Len(FoundingSeeds(rows)) = Len(rows)
           /\ \A e \in Range(FoundingSeeds(rows)) :
                 e.id \in Range(rows) /\ e.id \in DOMAIN devices /\ e.key = devices[e.id].key
           /\ \A id \in Range(rows) : \E e \in Range(FoundingSeeds(rows)) : e.id = id
<1>1. PICK c \in Nat : /\ Len(rows) = c /\ DOMAIN rows = 1..c
                       /\ \A n \in 1..c : rows[n] \in DOMAIN devices
  BY RowsPicked
<1> DEFINE idOf(n) == rows[c + 1 - n]
           seed(n) == Entry(devices[idOf(n)].key,
                            [Appearances[devices[idOf(n)].key] EXCEPT
                                !.addr = devices[idOf(n)].addr, !.stable = FALSE],
                            idOf(n))
<1>2. FoundingSeeds(rows) = [n \in 1..c |-> seed(n)]
  BY <1>1 DEF FoundingSeeds
<1>3. ASSUME NEW n \in 1..c
      PROVE  /\ seed(n) \in Seen /\ seed(n).id = idOf(n) /\ idOf(n) \in DOMAIN devices
             /\ seed(n).key = devices[idOf(n)].key /\ idOf(n) \in Range(rows)
  <2>1. c + 1 - n \in 1..c
    BY <1>1
  <2>2. idOf(n) \in DOMAIN devices /\ idOf(n) \in Range(rows)
    BY <1>1, <2>1 DEF Range
  <2>3. PICK id \in DOMAIN devices : id = idOf(n)
    BY <2>2
  <2>4. id \in Nat /\ devices[id].key \in Keys /\ devices[id].addr \in Nat
    BY Domains DEF Row
  <2>5. PICK look \in Appearance : look = Appearances[devices[id].key]
    BY <2>4, Parameters
  <2>6. [look EXCEPT !.addr = devices[id].addr, !.stable = FALSE] \in Appearance
    BY <2>4 DEF Appearance
  <2>7. QED
    BY <2>2, <2>3, <2>4, <2>5, <2>6 DEF Entry, Seen
<1> HIDE DEF seed
<1>4. FoundingSeeds(rows) \in [1..c -> Seen]
  BY <1>2, <1>3
<1>5. FoundingSeeds(rows) \in Seq(Seen)
  BY <1>1, <1>4, SeqDef
<1>6. DOMAIN FoundingSeeds(rows) = 1..c
  BY <1>4
<1>7. Len(FoundingSeeds(rows)) = Len(rows)
  BY <1>1, <1>5, <1>6, LenProperties
<1>8. ASSUME NEW e \in Range(FoundingSeeds(rows))
      PROVE  e.id \in Range(rows) /\ e.id \in DOMAIN devices /\ e.key = devices[e.id].key
  <2>1. PICK n \in 1..c : e = seed(n)
    BY <1>2 DEF Range
  <2>2. QED
    BY <1>3, <2>1
<1>9. ASSUME NEW id \in Range(rows)
      PROVE  \E e \in Range(FoundingSeeds(rows)) : e.id = id
  <2>1. PICK m \in 1..c : id = rows[m]
    BY <1>1 DEF Range
  <2>2. c + 1 - m \in 1..c /\ c + 1 - (c + 1 - m) = m
    BY <1>1
  <2>3. seed(c + 1 - m).id = id
    BY <1>3, <2>1, <2>2
  <2>4. seed(c + 1 - m) \in Range(FoundingSeeds(rows))
    BY <1>2, <2>2 DEF Range
  <2>5. QED
    BY <2>3, <2>4
<1>10. QED
  BY <1>5, <1>7, <1>8, <1>9

\* The other entries are aliases of these rows.
LEMMA AliasSeedsFrom ==
    ASSUME TypeOK, NEW rows \in RecentRows(DOMAIN devices), NEW table \in Seq(Alias)
    PROVE  /\ AliasSeeds(rows, table) \in Seq(Seen)
           /\ \A e \in Range(AliasSeeds(rows, table)) :
                 /\ e.id \in Range(rows)
                 /\ \E a \in Range(table) : a.key = e.key /\ a.id = e.id
<1>1. PICK c \in Nat : DOMAIN rows = 1..c
  BY RowsPicked
<1> DEFINE mine == {i \in DOMAIN table : \E n \in DOMAIN rows : rows[n] = table[i].id}
           row == [i \in mine |-> CHOOSE n \in DOMAIN rows : rows[n] = table[i].id]
           before == [i \in mine |->
                         {j \in mine : row[j] < row[i] \/ (row[j] = row[i] /\ i < j)}]
           found == InOrder(before)
           entry(i) == Entry(table[i].key, [Appearances[table[i].key] EXCEPT !.stable = FALSE],
                             table[i].id)
<1>2. AliasSeeds(rows, table) = [n \in DOMAIN found |-> entry(found[n])]
  BY DEF AliasSeeds
<1>3. Len(table) \in Nat /\ DOMAIN table = 1..Len(table)
      /\ \A i \in DOMAIN table : table[i] \in Alias
  BY LenProperties, ElementOfSeq
<1>4. IsFiniteSet(mine) /\ mine \subseteq 1..Len(table)
  <2>1. IsFiniteSet(1..Len(table)) /\ mine \in SUBSET (1..Len(table))
    BY <1>3, FS_Interval
  <2>2. QED
    BY <2>1, FS_Subset
<1>5. \A i \in mine : row[i] \in 1..c
  BY <1>1
<1>6. \A i \in mine : i \in DOMAIN table /\ i \in Nat /\ table[i].id \in Range(rows)
  BY <1>3, <1>4 DEF Range
<1> HIDE DEF mine, row
<1>7. before \in [mine -> SUBSET mine]
  OBVIOUS
<1>8. /\ \A i \in mine : i \notin before[i]
      /\ \A i, j \in mine : i # j => i \in before[j] \/ j \in before[i]
      /\ \A i, j \in mine : i \in before[j] => before[i] \subseteq before[j]
  BY <1>5, <1>6
<1> HIDE DEF before
<1>9. /\ Cardinality(mine) \in Nat /\ DOMAIN found = 1..Cardinality(mine)
      /\ \A n \in 1..Cardinality(mine) : found[n] \in mine
  BY <1>4, <1>7, <1>8, InOrderEnumerates
<1> HIDE DEF found
<1>10. ASSUME NEW i \in mine
       PROVE  /\ entry(i) \in Seen /\ entry(i).id \in Range(rows)
              /\ \E a \in Range(table) : a.key = entry(i).key /\ a.id = entry(i).id
  <2>1. PICK a \in Alias : a = table[i]
    BY <1>3, <1>6
  <2>2. a \in Range(table) /\ a.key \in Keys /\ a.id \in Nat
    BY <1>6, <2>1 DEF Range, Alias
  <2>3. PICK look \in Appearance : look = Appearances[a.key]
    BY <2>2, Parameters
  <2>4. [look EXCEPT !.stable = FALSE] \in Appearance
    BY DEF Appearance
  <2>5. entry(i) \in Seen /\ entry(i).key = a.key /\ entry(i).id = a.id
    BY <2>1, <2>2, <2>3, <2>4 DEF Entry, Seen
  <2>6. QED
    BY <1>6, <2>1, <2>2, <2>5
<1> HIDE DEF entry
<1>11. AliasSeeds(rows, table) \in [1..Cardinality(mine) -> Seen]
  BY <1>2, <1>9, <1>10
<1>12. AliasSeeds(rows, table) \in Seq(Seen)
  BY <1>9, <1>11, SeqDef
<1>13. \A e \in Range(AliasSeeds(rows, table)) : \E i \in mine : e = entry(i)
  BY <1>2, <1>9 DEF Range
<1>14. QED
  BY <1>10, <1>12, <1>13

\* What seed() leaves in memory comes from the rows it read and their aliases;
\* every one of the rows is in the window.
LEMMA SeedFills ==
    ASSUME TypeOK, Seed
    PROVE  \E rows \in RecentRows(DOMAIN devices) :
              /\ cache' \in [Keys -> Nat] /\ aliasKeys' \in SUBSET Keys /\ recent' \in Seq(Seen)
              /\ \A k \in Holds(cache') :
                    \/ cache'[k] \in DOMAIN devices /\ devices[cache'[k]].key = k
                    \/ /\ \E a \in Range(aliases') : a.key = k /\ a.id = cache'[k]
                       /\ k \in aliasKeys'
              /\ \A e \in Range(recent') :
                    /\ e.id \in Range(rows)
                    /\ \/ devices[e.id].key = e.key
                       \/ \E a \in Range(aliases') : a.key = e.key /\ a.id = e.id
              /\ \A id \in Range(rows) : \E e \in Range(recent') : e.id = id
<1>1. PICK rows \in RecentRows(DOMAIN devices) :
         LET founding == FoundingSeeds(rows)
             more == AliasSeeds(rows, aliases')
             first == Upto(founding, MaxKeyCache)
             rest == Upto(more, MaxKeyCache - Len(first))
             held == first \o rest
         IN  /\ cache' = [k \in Keys |-> OwnerIn(k, held)]
             /\ aliasKeys' = {rest[i].key : i \in DOMAIN rest}
             /\ recent' = SeededWindow(founding, more)
  BY Zenon DEF Seed
<1>2. PICK founding : founding = FoundingSeeds(rows)
  OBVIOUS
<1>3. PICK more : more = AliasSeeds(rows, aliases')
  OBVIOUS
<1>4. PICK first : first = Upto(founding, MaxKeyCache)
  OBVIOUS
<1>5. PICK rest : rest = Upto(more, MaxKeyCache - Len(first))
  OBVIOUS
<1>6. PICK held : held = first \o rest
  OBVIOUS
<1>7. /\ cache' = [k \in Keys |-> OwnerIn(k, held)]
      /\ aliasKeys' = {rest[i].key : i \in DOMAIN rest}
      /\ recent' = founding \o Upto(more, Window - Len(founding))
  BY <1>1, <1>2, <1>3, <1>4, <1>5, <1>6 DEF SeededWindow
<1>8. /\ founding \in Seq(Seen) /\ Len(founding) = Len(rows)
      /\ \A e \in Range(founding) :
            e.id \in Range(rows) /\ e.id \in DOMAIN devices /\ e.key = devices[e.id].key
      /\ \A id \in Range(rows) : \E e \in Range(founding) : e.id = id
  BY <1>2, FoundingSeedsFrom
<1>9. aliases' \in Seq(Alias)
  BY CappedDeletes DEF Seed, TypeOK
<1>10. /\ more \in Seq(Seen)
       /\ \A e \in Range(more) : /\ e.id \in Range(rows)
                                 /\ \E a \in Range(aliases') : a.key = e.key /\ a.id = e.id
  <2>1. PICK table \in Seq(Alias) : table = aliases'
    BY <1>9
  <2>2. more = AliasSeeds(rows, table)
    BY <1>3, <2>1
  <2>3. QED
    BY <2>1, <2>2, AliasSeedsFrom
<1>11. /\ first \in Seq(Seen) /\ Range(first) \subseteq Range(founding)
       /\ MaxKeyCache - Len(first) \in Nat
  <2>1. /\ first \in Seq(Seen) /\ Len(first) = Smaller(MaxKeyCache, Len(founding))
        /\ Range(first) \subseteq Range(founding) /\ MaxKeyCache \in Nat
    BY <1>4, <1>8, UptoTakes, Parameters
  <2>2. Len(founding) \in Nat
    BY <1>8, LenProperties
  <2>3. QED
    BY <2>1, <2>2 DEF Smaller
<1>12. rest \in Seq(Seen) /\ Range(rest) \subseteq Range(more)
  <2>1. PICK n \in Nat : n = MaxKeyCache - Len(first)
    BY <1>11
  <2>2. QED
    BY <1>5, <1>10, <2>1, UptoTakes
<1>13. held \in Seq(Seen) /\ Range(held) = Range(first) \cup Range(rest)
  BY <1>6, <1>11, <1>12, ConcatProperties, RangeConcatenation
<1>14. \A e \in Range(held) : e.key \in Keys /\ e.id \in Nat
  <2>1. Range(held) \in SUBSET Seen
    BY <1>13, RangeOfSeq
  <2>2. QED
    BY <2>1 DEF Seen
<1>15. aliasKeys' = {e.key : e \in Range(rest)} /\ aliasKeys' \in SUBSET Keys
  BY <1>7, <1>13, <1>14 DEF Range
<1>16. ASSUME NEW k \in Keys
       PROVE  \/ cache'[k] = None
              \/ \E e \in Range(held) : e.key = k /\ cache'[k] = e.id
  BY <1>7, OwnerInRow
<1>17. cache' \in [Keys -> Nat]
  BY <1>7, <1>14, <1>16 DEF None
<1>18. ASSUME NEW k \in Holds(cache')
       PROVE  \/ cache'[k] \in DOMAIN devices /\ devices[cache'[k]].key = k
              \/ /\ \E a \in Range(aliases') : a.key = k /\ a.id = cache'[k]
                 /\ k \in aliasKeys'
  <2>1. PICK e \in Range(held) : e.key = k /\ cache'[k] = e.id
    BY <1>16, <1>18 DEF Holds
  <2>2. CASE e \in Range(first)
    BY <1>8, <1>11, <2>1, <2>2
  <2>3. CASE e \in Range(rest)
    BY <1>10, <1>12, <1>15, <2>1, <2>3
  <2>4. QED
    BY <1>13, <2>1, <2>2, <2>3
<1>19. /\ recent' \in Seq(Seen) /\ Range(founding) \subseteq Range(recent')
       /\ Range(recent') \subseteq Range(founding) \cup Range(more)
  <2>1. Window - Len(founding) \in Nat
    BY <1>8, RowsPicked, Parameters
  <2>2. PICK fill : fill = Upto(more, Window - Len(founding))
    OBVIOUS
  <2>3. fill \in Seq(Seen) /\ Range(fill) \subseteq Range(more)
    <3>1. PICK n \in Nat : n = Window - Len(founding)
      BY <2>1
    <3>2. QED
      BY <1>10, <2>2, <3>1, UptoTakes
  <2>4. recent' = founding \o fill
    BY <1>7, <2>2
  <2>5. founding \o fill \in Seq(Seen) /\ Range(founding \o fill) = Range(founding) \cup Range(fill)
    BY <1>8, <2>3, ConcatProperties, RangeConcatenation
  <2>6. QED
    BY <2>3, <2>4, <2>5
<1>20. \A e \in Range(recent') :
          /\ e.id \in Range(rows)
          /\ \/ devices[e.id].key = e.key
             \/ \E a \in Range(aliases') : a.key = e.key /\ a.id = e.id
  BY <1>8, <1>10, <1>19
<1>21. \A id \in Range(rows) : \E e \in Range(recent') : e.id = id
  BY <1>8, <1>19
<1>22. \A k \in Holds(cache') :
          \/ cache'[k] \in DOMAIN devices /\ devices[cache'[k]].key = k
          \/ /\ \E a \in Range(aliases') : a.key = k /\ a.id = cache'[k]
             /\ k \in aliasKeys'
  BY <1>18
<1>23. QED
  BY <1>15, <1>17, <1>19, <1>20, <1>21, <1>22

LEMMA SeedKeeps ==
    ASSUME IInv, Seed
    PROVE  IInv'
<1>1. /\ TypeOK /\ Agree(devices, aliases, pruned) /\ TablesOK(devices, aliases) /\ SavedOK
      /\ pc = "down"
  BY DEF IInv, Agree, Seed
<1>2. /\ pc' = "idle" /\ UNCHANGED <<devices, pendKeys, pendAlias, pendRecent, answers, told>>
      /\ aliases' = Capped(aliases, DOMAIN devices)
      /\ pruned' = pruned \cup Gone(aliases, aliases')
      /\ saved' = [devices |-> devices, aliases |-> aliases', pruned |-> pruned']
  BY DEF Seed, pending
<1>3. saved'.devices = devices /\ saved'.aliases = aliases' /\ saved'.pruned = pruned'
  BY <1>2
<1>4. aliases' \in Seq(Alias) /\ Range(aliases') \subseteq Range(aliases)
  BY <1>1, <1>2, CappedDeletes DEF TypeOK
<1>5. \A k : k \in Gone(aliases, aliases') <=> IsAlias(k, aliases) /\ ~IsAlias(k, aliases')
  BY GoneKeys
<1>6. PICK rows \in RecentRows(DOMAIN devices) :
         /\ cache' \in [Keys -> Nat] /\ aliasKeys' \in SUBSET Keys /\ recent' \in Seq(Seen)
         /\ \A k \in Holds(cache') :
               \/ cache'[k] \in DOMAIN devices /\ devices[cache'[k]].key = k
               \/ /\ \E a \in Range(aliases') : a.key = k /\ a.id = cache'[k]
                  /\ k \in aliasKeys'
         /\ \A e \in Range(recent') :
               /\ e.id \in Range(rows)
               /\ \/ devices[e.id].key = e.key
                  \/ \E a \in Range(aliases') : a.key = e.key /\ a.id = e.id
  BY <1>1, SeedFills
<1>7. Range(rows) \subseteq DOMAIN devices
  BY <1>1, RowsPicked DEF Range
<1>8. /\ pendKeys = Nothing /\ pendAlias = {} /\ pendRecent = << >> /\ answers = Nothing
      /\ pruned = saved.pruned /\ saved.aliases = aliases /\ saved.devices = devices
  BY <1>1 DEF SavedOK
<1>9. TypeOK'
  <2>1. pruned' \in SUBSET Keys
    <3>1. \A k \in Gone(aliases, aliases') : k \in Keys
      BY <1>1, <1>5, Domains DEF IsAlias
    <3>2. QED
      BY <1>1, <1>2, <3>1 DEF TypeOK
  <2>2. saved' \in [devices : Seq(Row), aliases : Seq(Alias), pruned : SUBSET Keys]
    BY <1>1, <1>2, <1>4, <2>1 DEF TypeOK
  <2>3. QED
    BY <1>1, <1>2, <1>4, <1>6, <2>1, <2>2 DEF TypeOK
<1>10. TablesOK(devices, aliases')
  BY <1>1, <1>4 DEF TablesOK
<1>11. \A k, x : Bound(k, x, devices, aliases') => Bound(k, x, devices, aliases)
  BY <1>4 DEF Bound
<1>12. ASSUME NEW k \in Keys, NEW x, Bound(k, x, devices, aliases'), NEW y, Bound(k, y, devices, aliases')
       PROVE  x = y /\ x \in DOMAIN devices
  BY <1>10, <1>12, OneOwner
<1>13. \A k \in Holds(cache') : /\ Right(k, cache'[k], devices, aliases', pruned')
                                /\ IsAlias(k, aliases') => k \in aliasKeys'
  <2>1. SUFFICES ASSUME NEW k \in Keys, k \in Holds(cache')
                 PROVE  /\ Right(k, cache'[k], devices, aliases', pruned')
                        /\ IsAlias(k, aliases') => k \in aliasKeys'
    BY DEF Holds
  <2>2. Bound(k, cache'[k], devices, aliases')
    BY <1>6, <2>1 DEF Bound
  <2>3. Right(k, cache'[k], devices, aliases', pruned')
    BY <1>12, <2>2 DEF Right
  <2>4. IsAlias(k, aliases') => k \in aliasKeys'
    BY <1>6, <1>10, <2>1 DEF IsAlias, TablesOK
  <2>5. QED
    BY <2>3, <2>4
<1>14. ASSUME NEW k \in Keys, told[k] # None, k \notin pruned'
       PROVE  Bound(k, told[k], devices, aliases')
  <2>1. Bound(k, told[k], devices, aliases)
    BY <1>1, <1>2, <1>14 DEF Agree, Holds
  <2>2. CASE told[k] \in DOMAIN devices /\ devices[told[k]].key = k
    BY <2>2 DEF Bound
  <2>3. CASE \E a \in Range(aliases) : a.key = k /\ a.id = told[k]
    <3>1. PICK a \in Range(aliases) : a.key = k /\ a.id = told[k]
      BY <2>3
    <3>2. IsAlias(k, aliases')
      BY <1>2, <1>5, <1>14, <3>1 DEF IsAlias
    <3>3. PICK b \in Range(aliases') : b.key = k
      BY <3>2 DEF IsAlias
    <3>4. b.id = told[k]
      BY <1>1, <1>4, <3>1, <3>3 DEF TablesOK
    <3>5. QED
      BY <3>3, <3>4 DEF Bound
  <2>4. QED
    BY <2>1, <2>2, <2>3 DEF Bound
<1>15. Agree(devices, aliases, pruned)' /\ Agree(saved.devices, saved.aliases, saved.pruned)'
  BY <1>2, <1>3, <1>10, <1>13, <1>14 DEF Agree, Holds
<1>16. ASSUME NEW k \in pruned', NEW x \in DOMAIN devices
       PROVE  ~Bound(k, x, devices, aliases')
  <2>1. CASE k \in pruned
    BY <1>1, <1>8, <1>11, <2>1 DEF SavedOK
  <2>2. CASE IsAlias(k, aliases) /\ ~IsAlias(k, aliases')
    BY <1>1, <2>2 DEF Bound, IsAlias, TablesOK
  <2>3. QED
    BY <1>2, <1>5, <2>1, <2>2
<1>17. StagedOK'
  <2>1. Range(<< >>) = {}
    BY DEF Range
  <2>2. QED
    BY <1>2, <1>8, <1>16, <2>1, NothingHeld DEF StagedOK, Holds
<1>18. WindowOK'
  <2>1. SUFFICES ASSUME NEW e \in Range(recent')
                 PROVE  /\ e.id \in DOMAIN devices
                        /\ \A x \in DOMAIN devices : Bound(e.key, x, devices, aliases') => x = e.id
    BY <1>2, <1>3 DEF WindowOK
  <2>2. e.id \in DOMAIN devices /\ Bound(e.key, e.id, devices, aliases')
    BY <1>6, <1>7 DEF Bound
  <2>3. QED
    BY <1>10, <2>2, OneOwner
<1>19. SavedOK'
  <2>1. Len(devices) <= Len(devices)
    BY <1>1, Domains
  <2>2. QED
    BY <1>2, <1>3, <1>8, <1>16, <2>1 DEF SavedOK
<1>20. QED
  BY <1>9, <1>15, <1>17, <1>18, <1>19 DEF IInv

-----------------------------------------------------------------------------
\* The invariant.

LEMMA InitKeeps == Init => IInv
<1> SUFFICES ASSUME Init
             PROVE  IInv
  OBVIOUS
<1>1. PICK n \in 0..MaxLegacy :
         /\ devices = [id \in 1..Smaller(n, 1) |-> [key |-> id, addr |-> Appearances[id].addr]]
         /\ aliases = [i \in 1..(n - Smaller(n, 1)) |-> [key |-> i + 1, id |-> 1]]
  BY DEF Init
<1>2. PICK d \in {0, 1} : d = Smaller(n, 1) /\ d <= n /\ (d = 0 => n = 0)
  BY <1>1 DEF Smaller
<1>3. n \in Nat /\ d \in Nat /\ n - d \in Nat
      /\ (\A id \in 1..d : id \in Keys) /\ (\A i \in 1..(n - d) : i + 1 \in Keys)
  BY <1>2, Parameters
<1>4. /\ devices \in [1..d -> Row] /\ \A id \in 1..d : devices[id].key = id
      /\ aliases \in [1..(n - d) -> Alias]
      /\ \A i \in 1..(n - d) : aliases[i].key = i + 1 /\ aliases[i].id = 1
  <2>1. \A id \in 1..d : [key |-> id, addr |-> Appearances[id].addr] \in Row
    BY <1>3, EntryType DEF Row
  <2>2. \A i \in 1..(n - d) : [key |-> i + 1, id |-> 1] \in Alias
    BY <1>3 DEF Alias
  <2>3. QED
    BY <1>1, <1>2, <2>1, <2>2
<1>5. /\ devices \in Seq(Row) /\ aliases \in Seq(Alias)
      /\ DOMAIN devices = 1..d /\ DOMAIN aliases = 1..(n - d)
  BY <1>3, <1>4, SeqDef
<1>6. /\ pc = "down" /\ pruned = {}
      /\ saved = [devices |-> devices, aliases |-> aliases, pruned |-> pruned]
      /\ cache = Nothing /\ aliasKeys = {} /\ recent = << >>
      /\ pendKeys = Nothing /\ pendAlias = {} /\ pendRecent = << >>
      /\ answers = Nothing /\ told = Nothing
  BY DEF Init
<1>7. << >> \in Seq(Seen) /\ Range(<< >>) = {}
  BY DEF Range
<1>8. TypeOK
  BY <1>5, <1>6, <1>7, NothingHeld DEF TypeOK
<1>9. ASSUME NEW a \in Range(aliases)
      PROVE  \E i \in 1..(n - d) : a.key = i + 1 /\ a.id = 1
  <2>1. PICK i \in 1..(n - d) : a = aliases[i]
    BY <1>5 DEF Range
  <2>2. QED
    BY <1>4, <2>1
<1>10. TablesOK(devices, aliases)
  <2>1. ASSUME NEW a \in Range(aliases)
        PROVE  a.id = 1 /\ a.id \in DOMAIN devices /\ \A id \in DOMAIN devices : a.key # devices[id].key
    <3>1. PICK i \in 1..(n - d) : a.key = i + 1 /\ a.id = 1
      BY <1>9
    <3>2. d = 1
      BY <1>2, <1>3
    <3>3. QED
      BY <1>4, <1>5, <3>1, <3>2
  <2>2. \A x, y \in DOMAIN devices : devices[x].key = devices[y].key => x = y
    BY <1>4, <1>5
  <2>3. QED
    BY <2>1, <2>2 DEF TablesOK
<1>11. saved.devices = devices /\ saved.aliases = aliases /\ saved.pruned = pruned
  BY <1>6
<1>12. Agree(devices, aliases, pruned) /\ Agree(saved.devices, saved.aliases, saved.pruned)
  BY <1>6, <1>10, <1>11, NothingHeld DEF Agree
<1>13. StagedOK /\ WindowOK
  BY <1>6, <1>7, NothingHeld DEF StagedOK, WindowOK
<1>14. SavedOK
  <2>1. Len(devices) <= Len(devices)
    BY <1>8, Domains
  <2>2. QED
    BY <1>6, <1>11, <2>1 DEF SavedOK
<1>15. QED
  BY <1>8, <1>12, <1>13, <1>14 DEF IInv

LEMMA NextKeeps == IInv /\ [Next]_vars => IInv'
<1> SUFFICES ASSUME IInv, [Next]_vars
             PROVE  IInv'
  OBVIOUS
<1>1. CASE Seed
  BY <1>1, SeedKeeps
<1>2. CASE Begin
  BY <1>2, BeginKeeps
<1>3. CASE Commit
  BY <1>3, CommitKeeps
<1>4. CASE Fail
  <2>1. /\ RolledBack /\ Cleared /\ UNCHANGED <<saved, told>> /\ pc' \in {"idle", "down"}
        /\ UNCHANGED <<cache, aliasKeys, recent>>
    BY <1>4 DEF Fail, memory
  <2>2. QED
    BY <2>1, RollbackKeeps
<1>5. CASE Crash
  <2>1. /\ RolledBack /\ Cleared /\ UNCHANGED <<saved, told>> /\ pc' \in {"idle", "down"}
        /\ cache' = Nothing /\ aliasKeys' = {} /\ recent' = << >>
    BY <1>5 DEF Crash
  <2>2. QED
    BY <2>1, RollbackKeeps
<1>6. ASSUME NEW k \in Keys, Recall(k) \/ FindDevice(k) \/ FindAlias(k) \/ Fuse(k) \/ Create(k)
      PROVE  IInv'
  BY <1>6, RecallKeeps, FindDeviceKeeps, FindAliasKeeps, FuseKeeps, CreateKeeps
<1>7. CASE UNCHANGED vars
  <2>1. UNCHANGED <<pc, devices, aliases, saved, cache, aliasKeys, recent, pendKeys, pendAlias,
                    pendRecent, answers, told, pruned>>
    BY <1>7 DEF vars, tables, memory, pending
  <2>2. TypeOK'
    BY <2>1 DEF IInv, TypeOK
  <2>3. Agree(devices, aliases, pruned)' /\ Agree(saved.devices, saved.aliases, saved.pruned)'
    BY <2>1 DEF IInv, Agree, Holds
  <2>4. StagedOK'
    BY <2>1 DEF IInv, StagedOK, Holds
  <2>5. WindowOK'
    BY <2>1 DEF IInv, WindowOK, Holds
  <2>6. SavedOK'
    BY <2>1 DEF IInv, SavedOK
  <2>7. QED
    BY <2>2, <2>3, <2>4, <2>5, <2>6 DEF IInv
<1>8. QED
  BY <1>1, <1>2, <1>3, <1>4, <1>5, <1>6, <1>7 DEF Next

\* Every state of a run satisfies the inductive invariant, through any series
\* of cycles, rollbacks, crashes and restarts (resolver.py, repository.py).
THEOREM Invariance == Spec => []IInv
BY InitKeeps, NextKeeps, PTL DEF Spec

\* Every variable keeps its type: ids and keys stay what the tables hold.
THEOREM TypeCorrect == Spec => []TypeOK
<1>1. IInv => TypeOK
  BY DEF IInv
<1>2. QED
  BY <1>1, Invariance, PTL

\* No cycle runs into a ValueError of record_alias, whatever the bounds on
\* cache, window and aliases and however often a cycle failed.
THEOREM NeverRefused == Spec => []NothingIsRefused
<1>1. IInv => NothingIsRefused
  <2>1. SUFFICES ASSUME IInv, NEW k \in Keys, Unknown(k), BestMatch(k) # None
                 PROVE  MayBind(k, BestMatch(k))
    BY DEF NothingIsRefused
  <2>2. BestMatch(k) \in DOMAIN devices
    BY <2>1, BestMatchIsThere
  <2>3. Founded(k) = None /\ Aliased(k) = None
    BY <2>1, OwnerIsBound DEF IInv, Agree, Unknown
  <2>4. QED
    BY <2>2, <2>3 DEF MayBind
<1>2. QED
  BY <1>1, Invariance, PTL

\* Between two cycles memory says of a key what the tables say, unless its
\* alias was pruned (resolve, commit, abort, seed).
THEOREM MemoryIsRight == Spec => []MemoryAgreesWithTables
<1>1. IInv => MemoryAgreesWithTables
  <2>1. SUFFICES ASSUME IInv, pc = "idle"
                 PROVE  MemoryAgreesWithTables
    BY DEF MemoryAgreesWithTables
  <2>2. /\ TypeOK /\ Agree(devices, aliases, pruned) /\ TablesOK(devices, aliases)
        /\ WindowOK /\ SavedOK
    BY <2>1 DEF IInv, Agree
  <2>3. pendKeys = Nothing /\ devices = saved.devices /\ aliases = saved.aliases
    BY <2>1, <2>2 DEF SavedOK
  <2>4. ASSUME NEW k \in Holds(cache)
        PROVE  /\ cache[k] \in DOMAIN devices /\ Owner(k) \in {None, cache[k]}
               /\ Aliased(k) # None => k \in aliasKeys
    <3>1. k \in Keys /\ Right(k, cache[k], devices, aliases, pruned)
          /\ (IsAlias(k, aliases) => k \in aliasKeys)
      BY <2>2 DEF Agree, Holds
    <3>2. Owner(k) = None \/ (Owner(k) \in DOMAIN devices /\ Bound(k, Owner(k), devices, aliases))
      BY <2>2, <3>1, OwnerIsBound
    <3>3. Aliased(k) # None => IsAlias(k, aliases)
      BY OwnerInRow DEF Aliased, IsAlias
    <3>4. QED
      BY <3>1, <3>2, <3>3 DEF Right
  <2>5. ASSUME NEW i \in DOMAIN recent
        PROVE  recent[i].id \in DOMAIN devices /\ Owner(recent[i].key) \in {None, recent[i].id}
    <3>1. recent[i] \in Range(recent)
      BY DEF Range
    <3>2. PICK e \in Range(recent) : e = recent[i] /\ e.key \in Keys
      BY <2>2, <3>1, Domains
    <3>3. /\ e.id \in DOMAIN devices
          /\ \A x \in DOMAIN devices : Bound(e.key, x, devices, aliases) => x = e.id
      BY <2>2, <2>3, <3>2, NothingHeld DEF WindowOK
    <3>4. \/ Owner(e.key) = None
          \/ Owner(e.key) \in DOMAIN devices /\ Bound(e.key, Owner(e.key), devices, aliases)
      BY <2>2, <3>2, OwnerIsBound
    <3>5. QED
      BY <3>2, <3>3, <3>4
  <2>6. QED
    BY <2>3, <2>4, <2>5, NothingHeld DEF MemoryAgreesWithTables
<1>2. QED
  BY <1>1, Invariance, PTL

\* A key that a committed cycle resolved is given another device only if its
\* alias was pruned (schema.md; resolve, record_alias).
THEOREM OnlyPrunedSplit == Spec => OnlyPrunedKeysSplit
<1>1. IInv /\ [Next]_vars =>
         [\A k \in Keys : told[k] # None /\ told'[k] # told[k] => k \in pruned]_vars
  <2>1. SUFFICES ASSUME IInv, [Next]_vars, NEW k \in Keys, told[k] # None, told'[k] # told[k]
                 PROVE  k \in pruned
    OBVIOUS
  <2>2. Commit
    <3>1. CASE UNCHANGED vars
      BY <2>1, <3>1 DEF vars
    <3>2. CASE Next
      BY <2>1, <3>2 DEF Next, Seed, Begin, Fail, Crash, Recall, FindDevice, FindAlias, Fuse,
                        Create, Resolving
    <3>3. QED
      BY <2>1, <3>1, <3>2
  <2>3. told'[k] = answers[k] /\ answers[k] # None
    BY <2>1, <2>2 DEF Commit
  <2>4. Right(k, answers[k], devices, aliases, pruned)
    BY <2>1, <2>3 DEF IInv, StagedOK, Holds
  <2>5. ASSUME k \notin pruned
        PROVE  FALSE
    <3>1. Bound(k, told[k], devices, aliases) /\ Bound(k, answers[k], devices, aliases)
      BY <2>1, <2>4, <2>5 DEF IInv, Agree, Holds, Right
    <3>2. told[k] = answers[k]
      BY <2>1, <3>1, OneOwner DEF IInv, Agree
    <3>3. QED
      BY <2>1, <2>3, <3>2
  <2>6. QED
    BY <2>5
<1>2. QED
  BY <1>1, Invariance, PTL DEF Spec, OnlyPrunedKeysSplit

\* After a restart every device the window has room for is in it, however many
\* aliases the others have (seed).
THEOREM SeedKeepsDevices == Spec => SeedKeepsEveryDevice
<1>1. IInv /\ [Next]_vars =>
         [pc = "down" /\ pc' = "idle" =>
            Cardinality({recent'[i].id : i \in DOMAIN recent'}) = Smaller(Window, Len(devices))]_vars
  <2>1. SUFFICES ASSUME IInv, [Next]_vars, pc = "down", pc' = "idle"
                 PROVE  Cardinality({recent'[i].id : i \in DOMAIN recent'})
                           = Smaller(Window, Len(devices))
    OBVIOUS
  <2>2. Seed
    <3>1. CASE UNCHANGED vars
      BY <2>1, <3>1 DEF vars
    <3>2. CASE Next
      BY <2>1, <3>2 DEF Next, Begin, Commit, Fail, Crash, Recall, FindDevice, FindAlias, Fuse,
                        Create, Resolving
    <3>3. QED
      BY <2>1, <3>1, <3>2
  <2>3. TypeOK
    BY <2>1 DEF IInv
  <2>4. PICK rows \in RecentRows(DOMAIN devices) :
           /\ \A e \in Range(recent') : e.id \in Range(rows)
           /\ \A id \in Range(rows) : \E e \in Range(recent') : e.id = id
    BY <2>2, <2>3, SeedFills
  <2>5. {recent'[i].id : i \in DOMAIN recent'} = Range(rows)
    BY <2>4 DEF Range
  <2>6. PICK c \in Nat : /\ c = Smaller(Window, Len(devices)) /\ DOMAIN rows = 1..c
                         /\ rows \in [1..c -> DOMAIN devices]
                         /\ \A m, n \in 1..c : rows[m] = rows[n] => m = n
    <3>1. PICK c \in Nat : /\ c = Smaller(Window, Len(devices)) /\ DOMAIN rows = 1..c
                           /\ \A m, n \in 1..c : rows[m] = rows[n] => m = n
      BY <2>3, RowsPicked
    <3>2. rows \in [1..c -> DOMAIN devices]
      BY <3>1 DEF RecentRows
    <3>3. QED
      BY <3>1, <3>2
  <2>7. rows \in Bijection(1..c, Range(rows))
    BY <2>6 DEF Bijection, Injection, IsInjective, Surjection, Range
  <2>8. Cardinality(Range(rows)) = c
    BY <2>7, FS_CountingElements DEF ExistsBijection
  <2>9. QED
    BY <2>5, <2>6, <2>8
<1>2. QED
  BY <1>1, Invariance, PTL DEF Spec, SeedKeepsEveryDevice
=============================================================================
