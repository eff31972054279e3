------------------------------ MODULE Resolver ------------------------------
(***************************************************************************)
(* The fusion resolver (resolver.py) over the tables devices and           *)
(* device_aliases (storage/repository.py): which device an advertisement   *)
(* belongs to, in memory that is published only after a commit, dropped on *)
(* a rollback, bounded three ways (key cache, window, aliases of a device) *)
(* and warmed from the tables after a restart.                             *)
(*                                                                         *)
(* A fingerprint key is the number of its appearance: the address and the  *)
(* fields of the advertisement that scoring compares. Two keys never have  *)
(* the same appearance, an address always has the same provenance.         *)
(* Scores are counted in twentieths.                                       *)
(***************************************************************************)
EXTENDS Integers, Sequences, FiniteSets

CONSTANTS
    Appearances,    \* the appearance of each key
    MinScore,       \* min_score, in twentieths
    Window,         \* recent_window
    MaxKeyCache,    \* _MAX_KEY_CACHE
    MaxAliases,     \* _MAX_ALIASES_PER_DEVICE
    MaxLegacy       \* bound: rows an earlier version left behind

None == 0           \* an absent field, an unknown id
Keys == DOMAIN Appearances

\* hap: the HAP device id inside the payload; uuids: the set as a whole.
Appearance == [addr: Nat, stable: BOOLEAN, company: Nat, payload: Nat,
               hap: Nat, uuids: Nat, name: Nat]

ASSUME ResolverAssumption ==
    /\ Appearances \in Seq(Appearance)
    /\ \A a, b \in Keys :
          /\ a # b => Appearances[a] # Appearances[b]
          /\ Appearances[a].addr = Appearances[b].addr =>
                Appearances[a].stable = Appearances[b].stable
    /\ MinScore \in Nat /\ MinScore > 6     \* "min_score > COMPANY_ONLY_WEIGHT"
    /\ {Window, MaxKeyCache, MaxAliases} \subseteq Nat \ {0}
    /\ MaxLegacy \in 0..Len(Appearances)

VARIABLES
    pc,         \* "down", "idle", "cycle" (a transaction is open)
    devices,    \* by id: founding key and current address
    aliases,    \* device_aliases in id order
    saved,      \* both tables, and pruned, as last committed
    cache,      \* _key_cache (None: absent)
    aliasKeys,  \* _alias_keys
    recent,     \* _recent, oldest first
    pendKeys,   \* _pending_keys
    pendAlias,  \* _pending_alias_keys
    pendRecent, \* _pending_recent
    answers,    \* history: what resolve returned in this cycle
    told,       \* history: what it last returned in a committed cycle
    pruned      \* history: keys whose alias was deleted and not recorded anew

tables  == <<devices, aliases>>
memory  == <<cache, aliasKeys, recent>>
pending == <<pendKeys, pendAlias, pendRecent>>
vars == <<pc, tables, saved, memory, pending, answers, told, pruned>>

Nothing == [k \in Keys |-> None]
Holds(map) == {k \in Keys : map[k] # None}
Smaller(m, n) == IF m < n THEN m ELSE n

-----------------------------------------------------------------------------
\* Scoring.

If(condition, weight) == IF condition THEN weight ELSE 0

\* fusion_score: two known-stable addresses that differ veto, two HAP ids
\* decide, and otherwise the weights of the equal fields add up.
Score(a, b) ==
    IF a.stable /\ b.stable /\ a.addr # b.addr THEN 0
    ELSE IF a.hap # None /\ b.hap # None THEN If(a.hap = b.hap, 20)
    ELSE If(a.company # None /\ a.company = b.company, If(a.payload = b.payload, 10) + If(a.payload # b.payload, 6))
         + If(a.uuids # None /\ a.uuids = b.uuids, 5)
         + If(a.name # None /\ a.name = b.name, 5)
         + If(a.addr = b.addr, 12)

\* A window entry: the appearance as it was then, and its device.
Entry(k, look, id) == [key |-> k, look |-> look, id |-> id]

\* _best_match: the first of the highest scores, over what is committed and
\* then what is staged.
BestMatch(k) ==
    LET candidates == recent \o pendRecent
        score == [i \in DOMAIN candidates |-> Score(Appearances[k], candidates[i].look)]
        best == {i \in DOMAIN candidates :
                    /\ score[i] >= MinScore
                    /\ \A j \in DOMAIN candidates :
                          score[j] < score[i] \/ (score[j] = score[i] /\ i <= j)}
    IN  IF best = {} THEN None ELSE candidates[CHOOSE i \in best : TRUE].id

-----------------------------------------------------------------------------
\* The tables.

AliasesOf(id, rows) == {i \in DOMAIN rows : rows[i].id = id}

\* get_by_fingerprint, get_by_alias: the id, or None.
OwnerIn(k, rows) ==
    IF \E i \in DOMAIN rows : rows[i].key = k
    THEN rows[CHOOSE i \in DOMAIN rows : rows[i].key = k].id ELSE None
Founded(k) == IF \E id \in DOMAIN devices : devices[id].key = k
              THEN CHOOSE id \in DOMAIN devices : devices[id].key = k ELSE None
Aliased(k) == OwnerIn(k, aliases)
Owner(k) == IF Founded(k) # None THEN Founded(k) ELSE Aliased(k)

\* touch_address (updated_at decides an order that Seed leaves open).
Touched(id, k) ==
    [i \in DOMAIN devices |-> IF i = id THEN [devices[i] EXCEPT !.addr = Appearances[k].addr]
                              ELSE devices[i]]

\* The members of a finite set in an order given by what comes before each
\* (an ORDER BY; written by ranks and not recursively, so that proofs reach it).
InOrder(before) ==
    [n \in 1..Cardinality(DOMAIN before) |->
        CHOOSE i \in DOMAIN before : Cardinality(before[i]) = n - 1]

\* The rows at the positions S, in their order.
At(rows, S) ==
    LET position == InOrder([i \in S |-> {j \in S : j < i}])
    IN  [n \in DOMAIN position |-> rows[position[n]]]

\* _prune_oldest_aliases for each of the devices: the newest MaxAliases stay.
Capped(rows, ids) ==
    At(rows, {i \in DOMAIN rows : rows[i].id \in ids =>
                  Cardinality({j \in AliasesOf(rows[i].id, rows) : i < j}) < MaxAliases})

Gone(before, after) == {before[i].key : i \in DOMAIN before} \ {after[i].key : i \in DOMAIN after}

-----------------------------------------------------------------------------
\* resolve, in the order of its lookups. Its writes are in the open
\* transaction; what it learns is staged.

InMemory(k) == IF cache[k] # None THEN cache[k] ELSE pendKeys[k]

Resolving(k) == pc = "cycle" /\ UNCHANGED <<pc, saved, cache, aliasKeys, told>>

Stage(k, id, alias) ==
    /\ pendKeys' = [pendKeys EXCEPT ![k] = id]
    /\ pendAlias' = IF alias THEN pendAlias \cup {k} ELSE pendAlias
    /\ pendRecent' = Append(pendRecent, Entry(k, Appearances[k], id))
    /\ answers' = [answers EXCEPT ![k] = id]

\* A key in memory: its window entry is renewed, and an alias brings its
\* device's address up to date.
Recall(k) ==
    /\ Resolving(k) /\ InMemory(k) # None
    /\ recent' = At(recent, {i \in DOMAIN recent : recent[i].key # k})
                 \o At(recent, {i \in DOMAIN recent : recent[i].key = k})
    /\ devices' = IF k \in aliasKeys \cup pendAlias THEN Touched(InMemory(k), k) ELSE devices
    /\ answers' = [answers EXCEPT ![k] = InMemory(k)]
    /\ UNCHANGED <<aliases, pending, pruned>>

FindDevice(k) ==
    /\ Resolving(k) /\ InMemory(k) = None /\ Founded(k) # None
    /\ Stage(k, Founded(k), FALSE)
    /\ UNCHANGED <<tables, recent, pruned>>

FindAlias(k) ==
    /\ Resolving(k) /\ InMemory(k) = None /\ Founded(k) = None /\ Aliased(k) # None
    /\ Stage(k, Aliased(k), TRUE)
    /\ devices' = Touched(Aliased(k), k)
    /\ UNCHANGED <<aliases, recent, pruned>>

Unknown(k) == InMemory(k) = None /\ Owner(k) = None

\* record_alias raises for a device that is not there and for a key that is
\* taken; the cycle then fails.
MayBind(k, id) == id \in DOMAIN devices /\ Founded(k) = None /\ Aliased(k) \in {None, id}

\* Mutant: the alias is only remembered.
FuseUnrecorded(k) ==
    /\ Resolving(k) /\ Unknown(k) /\ BestMatch(k) # None /\ MayBind(k, BestMatch(k))
    /\ Stage(k, BestMatch(k), TRUE)
    /\ devices' = Touched(BestMatch(k), k)
    /\ UNCHANGED <<aliases, recent, pruned>>

\* Window fusion: the key becomes an alias of the best match.
Fuse(k) ==
    /\ Resolving(k) /\ Unknown(k) /\ BestMatch(k) # None /\ MayBind(k, BestMatch(k))
    /\ Stage(k, BestMatch(k), TRUE)
    /\ devices' = Touched(BestMatch(k), k)
    /\ LET rows == Append(aliases, [key |-> k, id |-> BestMatch(k)])
       IN  /\ aliases' = Capped(rows, {BestMatch(k)})
           /\ pruned' = pruned \cup Gone(rows, aliases')
    /\ UNCHANGED recent

\* upsert; ids are one more than the largest, which a rollback gives back.
Create(k) ==
    /\ Resolving(k) /\ Unknown(k) /\ BestMatch(k) = None
    /\ devices' = Append(devices, [key |-> k, addr |-> Appearances[k].addr])
    /\ Stage(k, Len(devices) + 1, FALSE)
    /\ UNCHANGED <<aliases, recent, pruned>>

-----------------------------------------------------------------------------
\* The cycle around it.

Begin ==
    /\ pc = "idle" /\ pc' = "cycle"
    /\ UNCHANGED <<tables, saved, memory, pending, answers, told, pruned>>

Cleared ==
    /\ pendKeys' = Nothing /\ pendAlias' = {} /\ pendRecent' = << >>
    /\ answers' = Nothing

\* The transaction commits and commit() publishes what was staged: a cache that
\* would overflow is emptied first, the window drops its oldest entries.
Commit ==
    /\ pc = "cycle" /\ pc' = "idle"
    /\ pruned' = {k \in pruned : Owner(k) = None}
    /\ saved' = [devices |-> devices, aliases |-> aliases, pruned |-> pruned']
    /\ LET full == Cardinality(Holds(cache)) + Cardinality(Holds(pendKeys)) > MaxKeyCache
           window == At(recent, {i \in DOMAIN recent : pendKeys[recent[i].key] = None}) \o pendRecent
       IN  /\ cache' = [k \in Keys |-> IF pendKeys[k] # None THEN pendKeys[k]
                                       ELSE IF full THEN None ELSE cache[k]]
           /\ aliasKeys' = pendAlias \cup (IF full THEN {} ELSE aliasKeys)
           /\ recent' = SubSeq(window, 1 + Len(window) - Smaller(Window, Len(window)), Len(window))
    /\ told' = [k \in Keys |-> IF answers[k] # None THEN answers[k] ELSE told[k]]
    /\ Cleared
    /\ UNCHANGED tables

RolledBack ==
    /\ devices' = saved.devices /\ aliases' = saved.aliases /\ pruned' = saved.pruned

\* Mutant: abort() is not called.
FailKeepsPending ==
    /\ pc = "cycle" /\ pc' = "idle"
    /\ RolledBack /\ answers' = Nothing
    /\ UNCHANGED <<saved, memory, pending, told>>

\* The transaction is rolled back: abort().
Fail ==
    /\ pc = "cycle" /\ pc' = "idle"
    /\ RolledBack /\ Cleared
    /\ UNCHANGED <<saved, memory, told>>

Crash ==
    /\ pc # "down" /\ pc' = "down"
    /\ RolledBack /\ Cleared
    /\ cache' = Nothing /\ aliasKeys' = {} /\ recent' = << >>
    /\ UNCHANGED <<saved, told>>

-----------------------------------------------------------------------------
\* seed()

\* list_recent, here in any order of updated_at, a wall-clock time.
RecentRows(ids) ==
    {rows \in [1..Smaller(Window, Cardinality(ids)) -> ids] :
        \A i, j \in DOMAIN rows : rows[i] = rows[j] => i = j}

\* The founding keys of the rows, oldest first, at their current address ...
FoundingSeeds(rows) ==
    [n \in DOMAIN rows |->
        LET id == rows[Len(rows) + 1 - n]
            k == devices[id].key
        IN  Entry(k, [Appearances[k] EXCEPT !.addr = devices[id].addr, !.stable = FALSE], id)]

\* ... and their aliases: of the newest row first, of a row the newest first
\* (by id; created_at is wall-clock time).
AliasSeeds(rows, table) ==
    LET mine == {i \in DOMAIN table : \E n \in DOMAIN rows : rows[n] = table[i].id}
        row == [i \in mine |-> CHOOSE n \in DOMAIN rows : rows[n] = table[i].id]
        found == InOrder([i \in mine |->
                    {j \in mine : row[j] < row[i] \/ (row[j] = row[i] /\ i < j)}])
    IN  [n \in DOMAIN found |->
            LET k == table[found[n]].key
            IN  Entry(k, [Appearances[k] EXCEPT !.stable = FALSE], table[found[n]].id)]

Upto(s, n) == SubSeq(s, 1, Smaller(n, Len(s)))

\* Mutant: aliases enter the window unbounded and evict as in commit().
WindowOfAliases(founding, more) ==
    LET all == founding \o more
    IN  SubSeq(all, 1 + Len(all) - Smaller(Window, Len(all)), Len(all))

\* Aliases take the slots that the founding keys leave.
SeededWindow(founding, more) == founding \o Upto(more, Window - Len(founding))

Seed ==
    /\ pc = "down" /\ pc' = "idle"
    /\ aliases' = Capped(aliases, DOMAIN devices)
    /\ pruned' = pruned \cup Gone(aliases, aliases')
    /\ saved' = [devices |-> devices, aliases |-> aliases', pruned |-> pruned']
    /\ \E rows \in RecentRows(DOMAIN devices) :
          LET founding == FoundingSeeds(rows)
              more == AliasSeeds(rows, aliases')
              first == Upto(founding, MaxKeyCache)
              rest == Upto(more, MaxKeyCache - Len(first))
              held == first \o rest
          IN  /\ cache' = [k \in Keys |-> OwnerIn(k, held)]
              /\ aliasKeys' = {rest[i].key : i \in DOMAIN rest}
              /\ recent' = SeededWindow(founding, more)
    /\ UNCHANGED <<devices, pending, answers, told>>

\* An empty database, or one with a device whose aliases nobody ever capped.
Init ==
    /\ pc = "down"
    /\ \E n \in 0..MaxLegacy :
          /\ devices = [id \in 1..Smaller(n, 1) |-> [key |-> id, addr |-> Appearances[id].addr]]
          /\ aliases = [i \in 1..(n - Smaller(n, 1)) |-> [key |-> i + 1, id |-> 1]]
    /\ pruned = {}
    /\ saved = [devices |-> devices, aliases |-> aliases, pruned |-> pruned]
    /\ cache = Nothing /\ aliasKeys = {} /\ recent = << >>
    /\ pendKeys = Nothing /\ pendAlias = {} /\ pendRecent = << >>
    /\ answers = Nothing /\ told = Nothing

Next ==
    \/ Seed \/ Begin \/ Commit \/ Fail \/ Crash
    \/ \E k \in Keys :
          Recall(k) \/ FindDevice(k) \/ FindAlias(k) \/ Fuse(k) \/ Create(k)

Spec == Init /\ [][Next]_vars

-----------------------------------------------------------------------------

\* No cycle ever runs into a ValueError of record_alias: whatever was rolled
\* back, evicted or pruned, memory never offers a device that is not there, and
\* no key is bound twice. (Such a cycle would fail again with every window.)
NothingIsRefused ==
    pc = "cycle" => \A k \in Keys :
        Unknown(k) /\ BestMatch(k) # None => MayBind(k, BestMatch(k))

\* What memory says of a key between two cycles is what the tables say, unless
\* its alias was pruned; a cached alias still moves its device's address
\* (resolve, commit, abort, seed).
MemoryAgreesWithTables ==
    pc = "idle" =>
        /\ \A k \in Holds(cache) :
              /\ cache[k] \in DOMAIN devices /\ Owner(k) \in {None, cache[k]}
              /\ Aliased(k) # None => k \in aliasKeys
        /\ \A i \in DOMAIN recent :
              recent[i].id \in DOMAIN devices /\ Owner(recent[i].key) \in {None, recent[i].id}
        /\ Holds(pendKeys) = {}

\* "A pruned key ... opens a new device row (split identity)" (schema.md), and
\* nothing else does: a key once resolved in a committed cycle is never given
\* another device unless its alias was pruned, through rollbacks, restarts, a
\* full cache and a window that has forgotten it.
OnlyPrunedKeysSplit ==
    [][\A k \in Keys : told[k] # None /\ told'[k] # told[k] => k \in pruned]_vars

\* "one chatty rotator cannot evict every other device" (seed): after a restart
\* every device the window has room for is in it.
SeedKeepsEveryDevice ==
    [][pc = "down" /\ pc' = "idle" =>
          Cardinality({recent'[i].id : i \in DOMAIN recent'}) = Smaller(Window, Len(devices))]_vars

\* "Identical twin products must never fuse across distinct stable addresses"
\* (test_resolver.py): the keys of a device have one stable address at most.
TwinsStayDistinct ==
    \A j, k \in Keys :
        /\ Appearances[j].stable /\ Appearances[k].stable
        /\ Appearances[j].addr # Appearances[k].addr
        /\ Owner(j) # None
        => Owner(j) # Owner(k)

=============================================================================
