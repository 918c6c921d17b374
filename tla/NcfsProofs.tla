------------------------------ MODULE NcfsProofs ------------------------------
(* The storage core of NCFS v3, for every device, cache capacity, number   *)
(* of inodes and retention window, with any number of writes, power        *)
(* failures and failed commands: every mount finds a whole volume but for  *)
(* the blocks that refused evictions have lost, no block in use is given   *)
(* away, no other buffered write is lost, and every step is one of the     *)
(* atomic volume or invisible to it.                                       *)
EXTENDS Ncfs, FiniteSetTheorems, WellFoundedInduction, TLAPS

-----------------------------------------------------------------------------
(* The inductive invariant.                                                *)
Distinct(t) ==
  t # NoSnap => \A i, j \in Inodes : t[i] = t[j] /\ t[i] # NoBlock => i = j

BlocksIn(sb) == BlocksOf(sb.tree) \union BlocksOf(sb.snap)

Held == BlocksOf(tree) \union BlocksOf(snap)

(* A superblock whose counts cover its own trees: one that may be mounted. *)
Sound(sb) ==
  /\ Distinct(sb.tree) /\ Distinct(sb.snap)
  /\ \A b \in Data :
       sb.refs[b] >= One(b \in BlocksOf(sb.tree)) + One(b \in BlocksOf(sb.snap))

(* The allocation map: a block that was released is held by no tree.       *)
MapInv ==
  /\ Distinct(tree) /\ Distinct(snap)
  /\ \A b \in Data :
       /\ refs[b] >= Holders(b)
       /\ freed[b] # 0 => b \notin Held

(* The cache: dirty entries are queued, clean ones agree with the device,  *)
(* no block of a snapshot is dirty, and past the barrier nothing is        *)
(* unwritten.                                                              *)
CacheInv ==
  /\ \A b \in Data : cache[b] # NoEntry /\ cache[b].dirty => b \in dirty
  /\ \A b \in Held :
       /\ cache[b] # NoEntry /\ ~ cache[b].dirty => cache[b].data = dev[b]
       /\ View(b) \in Objects \/ b \in lost
  /\ \A b \in BlocksOf(snap) : cache[b] # NoEntry => ~ cache[b].dirty
  /\ pc \in {"slot", "slotflush", "root"} =>
       dirty = {} /\ dev = disk /\ \A b \in Data : pend[b] = {}

Slotted(s) == ({sbDisk[s]} \union sbPend[s]) \ {NoSb}

(* The slots: one holds the superblock the volume stands on, flushed; the  *)
(* other holds older ones or attempts at the next generation.              *)
SlotInv ==
  /\ \A s \in Slots : \A sb \in Slotted(s) : SlotFor(sb.gen) = s /\ Sound(sb)
  /\ \A s \in Slots : sbDev[s] \in {sbDisk[s]} \union sbPend[s]
  /\ pc # "down" =>
       /\ committed <= base.gen
       /\ sbDisk[SlotFor(base.gen)] = base
       /\ sbPend[SlotFor(base.gen)] = {}
       /\ \A sb \in sbPend[SlotFor(base.gen + 1)] : sb.gen = base.gen + 1
       /\ \A sb \in Slotted(SlotFor(base.gen + 1)) : sb.gen <= base.gen + 1
  /\ pc \in {"slot", "slotflush", "root"} => base.gen < MaxGen
  /\ pc \in {"slotflush", "root"} => sbDev[SlotFor(base.gen + 1)] = NextSb
  /\ pc = "root" => /\ sbDisk[SlotFor(base.gen + 1)] = NextSb
                    /\ sbPend[SlotFor(base.gen + 1)] = {}

(* A block on which a mount may come to depend: it is not given away       *)
(* before the next commit, and its contents are on the medium unless it    *)
(* was lost before it was committed.                                       *)
Secured(b) ==
  /\ refs[b] > 0 /\ freed[b] \in {0, base.gen}
  /\ disk[b] \in Objects \/ b \in lost
  /\ dev[b] = disk[b] /\ pend[b] = {}
  /\ cache[b] # NoEntry => ~ cache[b].dirty /\ cache[b].data = dev[b]

SecuredInv ==
  pc # "down" => \A sb \in {base} \union Attempts : \A b \in BlocksIn(sb) : Secured(b)

DownInv ==
  pc = "down" =>
    /\ dev = disk /\ dirty = {}
    /\ \A b \in Data : pend[b] = {} /\ cache[b] = NoEntry
    /\ \A s \in Slots : sbPend[s] = {}
    /\ Valid # {} /\ Best.gen >= committed
    /\ \A b \in BlocksIn(Best) : disk[b] \in Objects \/ b \in lost
    /\ Held = {}

NcfsInv == TypeOK /\ MapInv /\ CacheInv /\ SlotInv /\ SecuredInv /\ DownInv

-----------------------------------------------------------------------------
(* Facts about the operators.                                              *)
LEMMA LeastIsElement == ASSUME NEW S \in SUBSET Nat, S # {} PROVE Min(S) \in S
<1> DEFINE R == OpToRel(<, Nat)
<1>1. IsWellFoundedOn(R, Nat)
  BY NatLessThanWellFounded
<1>2. \A x, y \in Nat : x < y => <<x, y>> \in R
  BY DEF OpToRel
<1> HIDE DEF R
<1>3. PICK x \in S : \A y \in S : ~ (<<y, x>> \in R)
  BY <1>1, WFMin
<1>4. ASSUME NEW y \in S PROVE x <= y
  <2>1. ~ (<<y, x>> \in R) /\ x \in Nat /\ y \in Nat
    BY <1>3
  <2>2. y < x => <<y, x>> \in R
    BY <1>2, <2>1
  <2> QED BY <2>1, <2>2
<1> QED BY <1>4 DEF Min

LEMMA SlotFacts ==
  ASSUME NEW g \in Nat
  PROVE  /\ SlotFor(g) \in Slots /\ SlotFor(g + 1) \in Slots
         /\ SlotFor(g + 1) # SlotFor(g) /\ SlotFor(g + 2) = SlotFor(g)
         /\ \A s \in Slots : s = SlotFor(g) \/ s = SlotFor(g + 1)
BY DEF SlotFor, Slots

LEMMA DataFacts == Data \subseteq Nat /\ NoBlock \notin Data
BY NcfsAssumption DEF Data, Reserved

LEMMA TreeBlocks ==
  ASSUME NEW t \in Trees
  PROVE  /\ t # NoSnap /\ BlocksOf(t) \subseteq Data
         /\ \A i \in Inodes : t[i] # NoBlock => t[i] \in BlocksOf(t) /\ t[i] \in Data
         /\ \A b \in BlocksOf(t) : \E i \in Inodes : t[i] = b
<1>1. t # NoSnap
  BY NcfsAssumption DEF Trees
<1>2. BlocksOf(t) = {t[i] : i \in Inodes} \ {NoBlock}
  BY <1>1 DEF BlocksOf
<1> QED BY <1>1, <1>2 DEF Trees

LEMMA SnapBlocks ==
  ASSUME NEW t \in Trees \union {NoSnap} PROVE BlocksOf(t) \subseteq Data
BY TreeBlocks DEF BlocksOf

LEMMA BlocksInData == ASSUME NEW sb \in Superblocks PROVE BlocksIn(sb) \subseteq Data
BY SnapBlocks DEF BlocksIn, Superblocks

LEMMA InsertedBlocks ==
  ASSUME NEW t \in Trees, Distinct(t), NEW i \in Inodes, NEW b \in Data, b \notin BlocksOf(t)
  PROVE  /\ WithInserted(t, i, b) \in Trees
         /\ Distinct(WithInserted(t, i, b))
         /\ BlocksOf(WithInserted(t, i, b)) = (BlocksOf(t) \ {t[i]}) \union {b}
<1> DEFINE u == WithInserted(t, i, b)
<1>1. /\ u \in Trees /\ u[i] = b /\ \A j \in Inodes : j # i => u[j] = t[j]
  BY DEF WithInserted, Trees
<1> HIDE DEF u
<1>2. t # NoSnap /\ u # NoSnap /\ b # NoBlock
  BY <1>1, TreeBlocks, DataFacts
<1>3. \A j, k \in Inodes : t[j] = t[k] /\ t[j] # NoBlock => j = k
  BY <1>2 DEF Distinct
<1>4. \A j \in Inodes : t[j] # b
  BY <1>2, TreeBlocks
<1>5. Distinct(u)
  BY <1>1, <1>3, <1>4 DEF Distinct
<1>6. BlocksOf(u) = {u[j] : j \in Inodes} \ {NoBlock}
      /\ BlocksOf(t) = {t[j] : j \in Inodes} \ {NoBlock}
  BY <1>2 DEF BlocksOf
<1>7. BlocksOf(u) = (BlocksOf(t) \ {t[i]}) \union {b}
  <2>1. ASSUME NEW x \in BlocksOf(u) PROVE x \in (BlocksOf(t) \ {t[i]}) \union {b}
    <3>1. PICK j \in Inodes : x = u[j]
      BY <1>6
    <3> QED BY <1>1, <1>3, <1>6, <3>1
  <2>2. ASSUME NEW x \in (BlocksOf(t) \ {t[i]}) \union {b} PROVE x \in BlocksOf(u)
    BY <1>1, <1>2, <1>6
  <2> QED BY <2>1, <2>2
<1> QED BY <1>1, <1>5, <1>7 DEF u

LEMMA RemovedBlocks ==
  ASSUME NEW t \in Trees, Distinct(t), NEW i \in Inodes
  PROVE  /\ WithRemoved(t, i) \in Trees
         /\ Distinct(WithRemoved(t, i))
         /\ BlocksOf(WithRemoved(t, i)) = BlocksOf(t) \ {t[i]}
<1> DEFINE u == WithRemoved(t, i)
<1>1. /\ u \in Trees /\ u[i] = NoBlock /\ \A j \in Inodes : j # i => u[j] = t[j]
  BY DEF WithRemoved, Trees
<1> HIDE DEF u
<1>2. t # NoSnap /\ u # NoSnap
  BY <1>1, TreeBlocks
<1>3. \A j, k \in Inodes : t[j] = t[k] /\ t[j] # NoBlock => j = k
  BY <1>2 DEF Distinct
<1>5. Distinct(u)
  BY <1>1, <1>3 DEF Distinct
<1>6. BlocksOf(u) = {u[j] : j \in Inodes} \ {NoBlock}
      /\ BlocksOf(t) = {t[j] : j \in Inodes} \ {NoBlock}
  BY <1>2 DEF BlocksOf
<1>7. BlocksOf(u) = BlocksOf(t) \ {t[i]}
  <2>1. ASSUME NEW x \in BlocksOf(u) PROVE x \in BlocksOf(t) \ {t[i]}
    <3>1. PICK j \in Inodes : x = u[j]
      BY <1>6
    <3> QED BY <1>1, <1>3, <1>6, <3>1
  <2>2. ASSUME NEW x \in BlocksOf(t) \ {t[i]} PROVE x \in BlocksOf(u)
    BY <1>1, <1>2, <1>6
  <2> QED BY <2>1, <2>2
<1> QED BY <1>1, <1>5, <1>7 DEF u

LEMMA DropFacts ==
  ASSUME NEW r \in [Data -> Nat], NEW D, Drop(D, r),
         freed \in [Data -> 0 .. MaxGen], base.gen \in 1 .. MaxGen
  PROVE  /\ refs' \in [Data -> Nat] /\ freed' \in [Data -> 0 .. MaxGen]
         /\ \A b \in Data :
              /\ b \notin D => refs'[b] = r[b] /\ freed'[b] = freed[b]
              /\ b \in D /\ r[b] > 1 => refs'[b] = r[b] - 1 /\ freed'[b] = freed[b]
              /\ b \in D /\ r[b] = 1 => refs'[b] = 1 /\ freed'[b] = base.gen
BY NcfsAssumption DEF Drop

(* Block x after evict_to_capacity: untouched, or the victim.              *)
Evicted(c, b, x) ==
  \/ cache'[x] = c[x] /\ dev'[x] = dev[x] /\ pend'[x] = pend[x]
  \/ /\ x # b /\ c[x] # NoEntry /\ cache'[x] = NoEntry
     /\ \/ ~ c[x].dirty /\ dev'[x] = dev[x] /\ pend'[x] = pend[x]
        \/ c[x].dirty /\ dev'[x] = c[x].data

LEMMA EntryFacts ==
  ASSUME NEW x \in Cell, NEW p \in BOOLEAN
  PROVE  /\ [data |-> x, dirty |-> p] \in Entries
         /\ [data |-> x, dirty |-> p] # NoEntry
         /\ [data |-> x, dirty |-> p].data = x /\ [data |-> x, dirty |-> p].dirty = p
<1>1. [data |-> x, dirty |-> p] \in Entries
  BY DEF Entries
<1> QED BY <1>1, SentinelAssumption

(* evict_to_capacity changes one block at most, and loses no dirty entry.  *)
LEMMA EvictFacts ==
  ASSUME NEW c \in [Data -> Entries \union {NoEntry}], NEW q \in SUBSET Data, NEW b \in Data,
         dev \in [Data -> Cell], pend \in [Data -> SUBSET Cell],
         \A x \in Data : c[x] # NoEntry /\ c[x].dirty => x \in q,
         EvictToCapacity(c, q, b)
  PROVE  /\ cache' \in [Data -> Entries \union {NoEntry}] /\ dirty' \subseteq Data
         /\ dev' \in [Data -> Cell] /\ pend' \in [Data -> SUBSET Cell]
         /\ \A x \in Data : cache'[x] # NoEntry /\ cache'[x].dirty => x \in dirty'
         /\ \A x \in Data : Evicted(c, b, x)
<1>1. CASE cache' = c /\ dirty' = q /\ UNCHANGED <<dev, pend>>
  BY <1>1 DEF Evicted
<1>2. ASSUME NEW v \in Resident(c) \ {b},
             cache' = [c EXCEPT ![v] = NoEntry],
             IF c[v].dirty THEN DevWrite(v, c[v].data) /\ dirty' = q \ {v}
             ELSE dirty' = q /\ UNCHANGED <<dev, pend>>
      PROVE  /\ cache' \in [Data -> Entries \union {NoEntry}] /\ dirty' \subseteq Data
             /\ dev' \in [Data -> Cell] /\ pend' \in [Data -> SUBSET Cell]
             /\ \A x \in Data : cache'[x] # NoEntry /\ cache'[x].dirty => x \in dirty'
             /\ \A x \in Data : Evicted(c, b, x)
  <2>1. v \in Data /\ v # b /\ c[v] # NoEntry /\ c[v] \in Entries /\ c[v].data \in Cell
    BY DEF Resident, Entries
  <2>2. /\ cache' \in [Data -> Entries \union {NoEntry}] /\ cache'[v] = NoEntry
        /\ \A x \in Data : x # v => cache'[x] = c[x]
    BY <1>2, <2>1
  <2>3. CASE c[v].dirty
    <3>1. /\ dirty' = q \ {v} /\ dev' = [dev EXCEPT ![v] = c[v].data]
          /\ pend' = [pend EXCEPT ![v] = pend[v] \union {c[v].data}]
      BY <1>2, <2>3 DEF DevWrite
    <3>2. /\ dev' \in [Data -> Cell] /\ pend' \in [Data -> SUBSET Cell]
          /\ dev'[v] = c[v].data
          /\ \A x \in Data : x # v => dev'[x] = dev[x] /\ pend'[x] = pend[x]
      BY <2>1, <3>1
    <3> QED BY <2>1, <2>2, <2>3, <3>1, <3>2 DEF Evicted
  <2>4. CASE ~ c[v].dirty
    BY <1>2, <2>1, <2>2, <2>4 DEF Evicted
  <2> QED BY <2>3, <2>4
<1> QED BY <1>1, <1>2 DEF EvictToCapacity
(* A count that was enough before a reference is dropped is enough after.  *)
LEMMA DropMap ==
  ASSUME TypeOK, NEW r \in [Data -> Nat], NEW D, Drop(D, r), NEW b \in Data,
         r[b] >= One(b \in BlocksOf(tree)') + One(b \in BlocksOf(snap)')
                   + One(b \in D) + One(freed[b] # 0),
         freed[b] # 0 => b \notin Held' /\ b \notin D
  PROVE  /\ refs'[b] >= Holders(b)'
         /\ freed'[b] # 0 => b \notin Held'
<1>1. /\ b \notin D => refs'[b] = r[b] /\ freed'[b] = freed[b]
      /\ b \in D /\ r[b] > 1 => refs'[b] = r[b] - 1 /\ freed'[b] = freed[b]
      /\ b \in D /\ r[b] = 1 => refs'[b] = 1 /\ freed'[b] = base.gen
  BY DropFacts DEF TypeOK, Superblocks
<1>2. r[b] \in Nat
  OBVIOUS
<1>3. Holders(b)' = One(b \in BlocksOf(tree)') + One(b \in BlocksOf(snap)') + One(freed'[b] # 0)
  BY DEF Holders
<1>4. b \in Held' <=> b \in BlocksOf(tree)' \/ b \in BlocksOf(snap)'
  BY DEF Held
<1> QED BY <1>1, <1>2, <1>3, <1>4 DEF One

(* Dropping references takes nothing away before the next commit.          *)
LEMMA DropSecures ==
  ASSUME TypeOK, NEW r \in [Data -> Nat], NEW D, Drop(D, r), NEW b \in Data,
         r[b] >= refs[b], refs[b] > 0, freed[b] \in {0, base.gen}
  PROVE  refs'[b] > 0 /\ freed'[b] \in {0, base.gen}
<1>1. /\ b \notin D => refs'[b] = r[b] /\ freed'[b] = freed[b]
      /\ b \in D /\ r[b] > 1 => refs'[b] = r[b] - 1 /\ freed'[b] = freed[b]
      /\ b \in D /\ r[b] = 1 => refs'[b] = 1 /\ freed'[b] = base.gen
  BY DropFacts DEF TypeOK, Superblocks
<1>2. r[b] \in Nat /\ refs[b] \in Nat
  BY DEF TypeOK
<1> QED BY <1>1, <1>2

LEMMA AttemptsUp ==
  ASSUME TypeOK, pc # "down"
  PROVE  /\ Standing = base
         /\ Attempts = {sb \in Slotted(SlotFor(base.gen + 1)) : sb.gen = base.gen + 1}
         /\ Attempts \subseteq Superblocks
<1>1. Standing = base
  BY DEF Standing
<1>2. Attempts = {sb \in Slotted(SlotFor(base.gen + 1)) : sb.gen = base.gen + 1}
  BY <1>1 DEF Attempts, Slotted
<1>3. SlotFor(base.gen + 1) \in Slots
  BY SlotFacts DEF TypeOK, Superblocks
<1>4. Slotted(SlotFor(base.gen + 1)) \subseteq Superblocks
  BY <1>3 DEF Slotted, TypeOK
<1> QED BY <1>1, <1>2, <1>4

LEMMA SecuredFrame ==
  ASSUME NcfsInv, pc # "down", pc' # "down", base' = base, Attempts' \subseteq Attempts,
         \A b \in Data : Secured(b) => Secured(b)'
  PROVE  SecuredInv'
<1>1. SecuredInv /\ TypeOK
  BY DEF NcfsInv
<1>2. {base} \union Attempts \subseteq Superblocks
  BY <1>1, AttemptsUp DEF TypeOK
<1>3. ASSUME NEW sb \in {base} \union Attempts, NEW b \in BlocksIn(sb) PROVE Secured(b)'
  <2>1. b \in Data
    BY <1>2, BlocksInData
  <2>2. Secured(b)
    BY <1>1, <1>3 DEF SecuredInv
  <2> QED BY <2>1, <2>2
<1>4. ASSUME NEW sb \in ({base} \union Attempts)', NEW b \in BlocksIn(sb) PROVE Secured(b)'
  BY <1>3
<1> QED BY <1>4 DEF SecuredInv

(* What an operation of the file system between commits has to keep.       *)
LEMMA OperationFrame ==
  ASSUME NcfsInv, pc = "idle", UNCHANGED <<pc, disk, slotVars, base>>,
         TypeOK', MapInv', CacheInv',
         \A b \in Data : Secured(b) => Secured(b)'
  PROVE  NcfsInv'
<1>1. pc' = "idle" /\ base' = base /\ sbDisk' = sbDisk /\ sbPend' = sbPend
      /\ sbDev' = sbDev /\ committed' = committed
  BY DEF slotVars
<1>2. SlotInv'
  BY <1>1 DEF NcfsInv, SlotInv, Slotted
<1>3. Attempts' = Attempts
  BY <1>1 DEF Attempts, Standing
<1>4. SecuredInv'
  BY <1>1, <1>3, SecuredFrame
<1>5. DownInv'
  BY <1>1 DEF DownInv
<1> QED BY <1>2, <1>4, <1>5 DEF NcfsInv

LEMMA CacheFrame ==
  ASSUME CacheInv, UNCHANGED <<cache, dirty, lost, dev>>, pc' = "idle", Held' \subseteq Held,
         BlocksOf(snap)' \subseteq BlocksOf(snap)
  PROVE  CacheInv'
BY DEF CacheInv, View

LEMMA RemoveObjectKeeps ==
  ASSUME NcfsInv, NEW i \in Inodes, RemoveObject(i) PROVE NcfsInv'
<1>1. /\ TypeOK /\ MapInv /\ CacheInv /\ pc = "idle" /\ tree[i] # NoBlock
      /\ tree' = WithRemoved(tree, i) /\ Drop({tree[i]}, refs)
      /\ UNCHANGED <<disk, pend, dev, slotVars, cache, dirty, lost, base, snap, pc, writes, failures>>
  BY DEF NcfsInv, RemoveObject, blockVars, cacheVars, bounds
<1>2. tree \in Trees /\ Distinct(tree) /\ refs \in [Data -> Nat] /\ tree[i] \in Data
      /\ tree[i] \in BlocksOf(tree)
  BY <1>1, TreeBlocks DEF TypeOK, MapInv
<1>3. /\ tree' \in Trees /\ Distinct(tree')
      /\ BlocksOf(tree') = BlocksOf(tree) \ {tree[i]}
  BY <1>1, <1>2, RemovedBlocks
<1>4. refs' \in [Data -> Nat] /\ freed' \in [Data -> 0 .. MaxGen]
  BY <1>1, <1>2, DropFacts DEF TypeOK, Superblocks
<1>5. TypeOK'
  BY <1>1, <1>3, <1>4 DEF TypeOK, slotVars
<1>6. BlocksOf(tree)' = BlocksOf(tree) \ {tree[i]} /\ BlocksOf(snap)' = BlocksOf(snap)
      /\ Held' \subseteq Held
  BY <1>1, <1>3 DEF Held
<1>7. ASSUME NEW b \in Data
      PROVE  refs'[b] >= Holders(b)' /\ (freed'[b] # 0 => b \notin Held')
  <2>1. refs[b] >= Holders(b) /\ (freed[b] # 0 => b \notin Held) /\ refs[b] \in Nat
    BY <1>1 DEF MapInv, TypeOK
  <2>2. refs[b] >= One(b \in BlocksOf(tree)') + One(b \in BlocksOf(snap)')
                   + One(b \in {tree[i]}) + One(freed[b] # 0)
    BY <1>2, <1>6, <2>1 DEF Holders, One
  <2>3. freed[b] # 0 => b \notin Held' /\ b \notin {tree[i]}
    BY <1>2, <1>6, <2>1 DEF Held
  <2> QED BY <1>1, <1>2, <2>2, <2>3, DropMap
<1>8. MapInv'
  <2>1. Distinct(tree)' /\ Distinct(snap)'
    BY <1>1, <1>3 DEF MapInv, Distinct
  <2> QED BY <1>7, <2>1 DEF MapInv
<1>9. CacheInv'
  BY <1>1, <1>6, CacheFrame
<1>10. ASSUME NEW b \in Data, Secured(b) PROVE Secured(b)'
  <2>1. refs[b] >= refs[b] /\ refs[b] > 0 /\ freed[b] \in {0, base.gen}
    BY <1>2, <1>10 DEF Secured
  <2>2. refs'[b] > 0 /\ freed'[b] \in {0, base.gen}
    BY <1>1, <1>2, <2>1, DropSecures
  <2> QED BY <1>1, <1>10, <2>2 DEF Secured
<1> QED BY <1>1, <1>5, <1>8, <1>9, <1>10, OperationFrame

LEMMA DeleteSnapshotKeeps == ASSUME NcfsInv, DeleteSnapshot PROVE NcfsInv'
<1>1. /\ TypeOK /\ MapInv /\ CacheInv /\ pc = "idle" /\ snap # NoSnap
      /\ snap' = NoSnap /\ Drop(BlocksOf(snap), refs)
      /\ UNCHANGED <<disk, pend, dev, slotVars, cache, dirty, lost, base, tree, pc, writes, failures>>
  BY DEF NcfsInv, DeleteSnapshot, blockVars, cacheVars, bounds
<1>2. refs \in [Data -> Nat]
  BY <1>1 DEF TypeOK
<1>3. refs' \in [Data -> Nat] /\ freed' \in [Data -> 0 .. MaxGen]
  BY <1>1, <1>2, DropFacts DEF TypeOK, Superblocks
<1>4. TypeOK'
  BY <1>1, <1>3 DEF TypeOK, slotVars
<1>5. BlocksOf(tree)' = BlocksOf(tree) /\ BlocksOf(snap)' = {} /\ Held' \subseteq Held
  BY <1>1 DEF Held, BlocksOf
<1>6. ASSUME NEW b \in Data
      PROVE  refs'[b] >= Holders(b)' /\ (freed'[b] # 0 => b \notin Held')
  <2>1. refs[b] >= Holders(b) /\ (freed[b] # 0 => b \notin Held) /\ refs[b] \in Nat
    BY <1>1 DEF MapInv, TypeOK
  <2>2. refs[b] >= One(b \in BlocksOf(tree)') + One(b \in BlocksOf(snap)')
                   + One(b \in BlocksOf(snap)) + One(freed[b] # 0)
    BY <1>5, <2>1 DEF Holders, One
  <2>3. freed[b] # 0 => b \notin Held' /\ b \notin BlocksOf(snap)
    BY <1>5, <2>1 DEF Held
  <2> QED BY <1>1, <1>2, <2>2, <2>3, DropMap
<1>7. MapInv'
  <2>1. Distinct(tree)' /\ Distinct(snap)'
    BY <1>1 DEF MapInv, Distinct
  <2> QED BY <1>6, <2>1 DEF MapInv
<1>8. CacheInv'
  BY <1>1, <1>5, CacheFrame
<1>9. ASSUME NEW b \in Data, Secured(b) PROVE Secured(b)'
  <2>1. refs[b] >= refs[b] /\ refs[b] > 0 /\ freed[b] \in {0, base.gen}
    BY <1>2, <1>9 DEF Secured
  <2>2. refs'[b] > 0 /\ freed'[b] \in {0, base.gen}
    BY <1>1, <1>2, <2>1, DropSecures
  <2> QED BY <1>1, <1>9, <2>2 DEF Secured
<1> QED BY <1>1, <1>4, <1>7, <1>8, <1>9, OperationFrame

LEMMA RetainedFacts ==
  ASSUME TypeOK, NEW G
  PROVE  /\ Retained(G) \in [Data -> Nat]
         /\ \A b \in Data : Retained(G)[b] = refs[b] + One(b \in G)
BY DEF TypeOK, Retained, One

LEMMA CloneFromKeeps == ASSUME NcfsInv, CloneFrom PROVE NcfsInv'
<1> DEFINE r == Retained(BlocksOf(snap))
<1>1. /\ TypeOK /\ MapInv /\ CacheInv /\ pc = "idle" /\ snap # NoSnap
      /\ tree' = snap /\ Drop(BlocksOf(tree), r)
      /\ UNCHANGED <<disk, pend, dev, slotVars, cache, dirty, lost, base, snap, pc, writes, failures>>
  BY DEF NcfsInv, CloneFrom, blockVars, cacheVars, bounds
<1>2. r \in [Data -> Nat] /\ \A b \in Data : r[b] = refs[b] + One(b \in BlocksOf(snap))
  BY <1>1, RetainedFacts
<1> HIDE DEF r
<1>3. refs' \in [Data -> Nat] /\ freed' \in [Data -> 0 .. MaxGen]
  BY <1>1, <1>2, DropFacts DEF TypeOK, Superblocks
<1>4. TypeOK'
  BY <1>1, <1>3 DEF TypeOK, slotVars
<1>5. BlocksOf(tree)' = BlocksOf(snap) /\ BlocksOf(snap)' = BlocksOf(snap) /\ Held' \subseteq Held
  BY <1>1 DEF Held
<1>6. ASSUME NEW b \in Data
      PROVE  refs'[b] >= Holders(b)' /\ (freed'[b] # 0 => b \notin Held')
  <2>1. refs[b] >= Holders(b) /\ (freed[b] # 0 => b \notin Held) /\ refs[b] \in Nat
    BY <1>1 DEF MapInv, TypeOK
  <2>2. r[b] >= One(b \in BlocksOf(tree)') + One(b \in BlocksOf(snap)')
                   + One(b \in BlocksOf(tree)) + One(freed[b] # 0)
    BY <1>2, <1>5, <2>1 DEF Holders, One
  <2>3. freed[b] # 0 => b \notin Held' /\ b \notin BlocksOf(tree)
    BY <1>5, <2>1 DEF Held
  <2> QED BY <1>1, <1>2, <2>2, <2>3, DropMap
<1>7. MapInv'
  <2>1. Distinct(tree)' /\ Distinct(snap)'
    BY <1>1 DEF MapInv, Distinct
  <2> QED BY <1>6, <2>1 DEF MapInv
<1>8. CacheInv'
  BY <1>1, <1>5, CacheFrame
<1>9. ASSUME NEW b \in Data, Secured(b) PROVE Secured(b)'
  <2>1. r[b] >= refs[b] /\ refs[b] > 0 /\ freed[b] \in {0, base.gen}
    BY <1>1, <1>2, <1>9 DEF Secured, One, TypeOK
  <2>2. refs'[b] > 0 /\ freed'[b] \in {0, base.gen}
    BY <1>1, <1>2, <2>1, DropSecures
  <2> QED BY <1>1, <1>9, <2>2 DEF Secured
<1> QED BY <1>1, <1>4, <1>7, <1>8, <1>9, OperationFrame

LEMMA BaseFacts ==
  ASSUME NcfsInv, pc # "down"
  PROVE  base \in Superblocks /\ Sound(base) /\ base.tree \in Trees
<1>1. TypeOK /\ SlotInv
  BY DEF NcfsInv
<1>2. SlotFor(base.gen) \in Slots /\ base \in Superblocks /\ base # NoSb
  BY <1>1, SlotFacts, SentinelAssumption DEF TypeOK, Superblocks
<1>3. base \in Slotted(SlotFor(base.gen))
  BY <1>1, <1>2 DEF SlotInv, Slotted
<1> QED BY <1>1, <1>2, <1>3 DEF SlotInv, Superblocks

LEMMA TakeSnapshotKeeps == ASSUME NcfsInv, TakeSnapshot PROVE NcfsInv'
<1> DEFINE B == BlocksOf(base.tree)
           G == {b \in B : freed[b] = 0}
<1>1. /\ TypeOK /\ MapInv /\ CacheInv /\ pc = "idle" /\ snap = NoSnap
      /\ snap' = base.tree /\ refs' = Retained(G)
      /\ freed' = [b \in Data |-> IF b \in B THEN 0 ELSE freed[b]]
      /\ UNCHANGED <<disk, pend, dev, slotVars, cache, dirty, lost, base, tree, pc, writes, failures>>
  BY DEF NcfsInv, TakeSnapshot, blockVars, cacheVars, bounds
<1>2. base.tree \in Trees /\ Distinct(base.tree) /\ B \subseteq Data
  BY <1>1, BaseFacts, TreeBlocks DEF Sound
<1>3. ASSUME NEW b \in B PROVE Secured(b)
  BY <1>1 DEF NcfsInv, SecuredInv, BlocksIn
<1>4. /\ refs' \in [Data -> Nat]
      /\ \A b \in Data : refs'[b] = refs[b] + One(b \in G)
      /\ freed' \in [Data -> 0 .. MaxGen]
      /\ \A b \in Data : freed'[b] = IF b \in B THEN 0 ELSE freed[b]
  BY <1>1, RetainedFacts, NcfsAssumption DEF TypeOK
<1>5. TypeOK'
  BY <1>1, <1>2, <1>4 DEF TypeOK, slotVars
<1>6. /\ BlocksOf(tree)' = BlocksOf(tree) /\ BlocksOf(snap)' = B /\ BlocksOf(snap) = {}
      /\ Held' = Held \union B
  BY <1>1 DEF Held, BlocksOf
<1> HIDE DEF B
<1>7. ASSUME NEW b \in Data
      PROVE  refs'[b] >= Holders(b)' /\ (freed'[b] # 0 => b \notin Held')
  <2>1. refs[b] >= Holders(b) /\ (freed[b] # 0 => b \notin Held) /\ refs[b] \in Nat
    BY <1>1 DEF MapInv, TypeOK
  <2>2. refs[b] >= One(b \in BlocksOf(tree)) + One(freed[b] # 0)
    BY <1>6, <2>1 DEF Holders, One
  <2>3. refs'[b] >= One(b \in BlocksOf(tree)) + One(b \in B) + One(freed'[b] # 0)
    BY <1>4, <2>1, <2>2 DEF One
  <2>4. Holders(b)' = One(b \in BlocksOf(tree)) + One(b \in B) + One(freed'[b] # 0)
    BY <1>6 DEF Holders
  <2>5. freed'[b] # 0 => b \notin Held'
    BY <1>4, <1>6, <2>1
  <2> QED BY <2>3, <2>4, <2>5
<1>8. MapInv'
  <2>1. Distinct(tree)' /\ Distinct(snap)'
    BY <1>1, <1>2 DEF MapInv, Distinct
  <2> QED BY <1>7, <2>1 DEF MapInv
<1>9. CacheInv'
  <2>1. ASSUME NEW b \in B
        PROVE  /\ cache[b] # NoEntry => ~ cache[b].dirty /\ cache[b].data = dev[b]
               /\ View(b) \in Objects \/ b \in lost
    BY <1>3 DEF Secured, View
  <2>2. \A b : View(b)' = View(b)
    BY <1>1 DEF View
  <2> QED BY <1>1, <1>6, <2>1, <2>2 DEF CacheInv
<1>10. ASSUME NEW b \in Data, Secured(b) PROVE Secured(b)'
  <2>1. refs'[b] > 0
    BY <1>1, <1>4, <1>10 DEF Secured, One, TypeOK
  <2>2. freed'[b] \in {0, base.gen}
    BY <1>4, <1>10 DEF Secured
  <2> QED BY <1>1, <1>10, <2>1, <2>2 DEF Secured
<1> QED BY <1>1, <1>5, <1>8, <1>9, <1>10, OperationFrame

(* A block that the retention tracker gives back is one no mount needs.    *)
LEMMA ReleaseKeeps ==
  ASSUME NcfsInv, NEW b \in Data, pc = "idle", freed[b] # 0, committed > freed[b],
         freed' = [freed EXCEPT ![b] = 0], refs' = [refs EXCEPT ![b] = @ - 1],
         UNCHANGED <<disk, slotVars, cacheVars, base, tree, snap, pc, bounds>>,
         dev' \in [Data -> Cell], pend' \in [Data -> SUBSET Cell],
         \A x \in Data : x # b => dev'[x] = dev[x] /\ pend'[x] = pend[x]
  PROVE  NcfsInv'
<1>1. /\ TypeOK /\ MapInv /\ CacheInv /\ SlotInv
      /\ UNCHANGED <<disk, slotVars, cache, dirty, lost, base, tree, snap, pc, writes, failures>>
  BY DEF NcfsInv, cacheVars, bounds
<1>2. refs \in [Data -> Nat] /\ freed \in [Data -> 0 .. MaxGen] /\ refs[b] >= 1 /\ b \notin Held
  <2>1. refs[b] >= Holders(b) /\ b \notin Held
    BY <1>1 DEF MapInv
  <2> QED BY <1>1, <2>1 DEF TypeOK, Holders, One
<1>3. /\ refs' \in [Data -> Nat] /\ freed' \in [Data -> 0 .. MaxGen]
      /\ refs'[b] = refs[b] - 1 /\ freed'[b] = 0
      /\ \A x \in Data : x # b => refs'[x] = refs[x] /\ freed'[x] = freed[x]
  BY <1>2, NcfsAssumption
<1>4. TypeOK'
  BY <1>1, <1>3 DEF TypeOK, slotVars
<1>5. BlocksOf(tree)' = BlocksOf(tree) /\ BlocksOf(snap)' = BlocksOf(snap) /\ Held' = Held
  BY <1>1 DEF Held
<1>6. ASSUME NEW x \in Data
      PROVE  refs'[x] >= Holders(x)' /\ (freed'[x] # 0 => x \notin Held')
  <2>1. refs[x] >= Holders(x) /\ (freed[x] # 0 => x \notin Held) /\ refs[x] \in Nat
    BY <1>1 DEF MapInv, TypeOK
  <2>2. refs'[x] >= One(x \in BlocksOf(tree)') + One(x \in BlocksOf(snap)') + One(freed'[x] # 0)
    BY <1>2, <1>3, <1>5, <2>1 DEF Holders, One
  <2> QED BY <1>3, <1>5, <2>1, <2>2 DEF Holders
<1>7. MapInv'
  <2>1. Distinct(tree)' /\ Distinct(snap)'
    BY <1>1 DEF MapInv, Distinct
  <2> QED BY <1>6, <2>1 DEF MapInv
<1>8. CacheInv'
  <2>1. Held \subseteq Data
    BY <1>1, SnapBlocks DEF Held, TypeOK
  <2>2. \A x \in Held : dev'[x] = dev[x]
    BY <1>2, <2>1
  <2> QED BY <1>1, <1>5, <2>2 DEF CacheInv, View
<1>9. ASSUME NEW x \in Data, Secured(x) PROVE Secured(x)'
  <2>1. committed <= base.gen /\ base.gen \in Nat
    BY <1>1 DEF SlotInv, TypeOK, Superblocks
  <2>2. x # b
    BY <1>1, <1>9, <2>1 DEF Secured, TypeOK
  <2> QED BY <1>1, <1>3, <1>9, <2>2 DEF Secured
<1> QED BY <1>1, <1>4, <1>7, <1>8, <1>9, OperationFrame

LEMMA ReuseKeeps == ASSUME NcfsInv, NEW b \in Data, Reuse(b) PROVE NcfsInv'
<1>1. TypeOK
  BY DEF NcfsInv
<1>2. UNCHANGED <<dev, pend, disk>>
  BY DEF Reuse, blockVars
<1>3. dev' \in [Data -> Cell] /\ pend' \in [Data -> SUBSET Cell]
  BY <1>1, <1>2 DEF TypeOK
<1> QED BY <1>2, <1>3, ReleaseKeeps DEF Reuse, IsReusable

LEMMA TrimKeeps == ASSUME NcfsInv, NEW b \in Data, Trim(b) PROVE NcfsInv'
<1>1. TypeOK
  BY DEF NcfsInv
<1>2. /\ dev' \in [Data -> Cell] /\ pend' \in [Data -> SUBSET Cell]
      /\ \A x \in Data : x # b => dev'[x] = dev[x] /\ pend'[x] = pend[x]
  BY <1>1 DEF Trim, DevWrite, TypeOK, Cell
<1>3. committed > freed[b] /\ freed[b] # 0
  BY <1>1, NcfsAssumption DEF Trim, IsTrimmable, TypeOK
<1> QED BY <1>2, <1>3, ReleaseKeeps DEF Trim

(* A block reads the same after an eviction as before.                     *)
LEMMA EvictView ==
  ASSUME NEW c \in [Data -> Entries \union {NoEntry}], NEW q \in SUBSET Data, NEW b \in Data,
         dev \in [Data -> Cell], pend \in [Data -> SUBSET Cell],
         \A x \in Data : c[x] # NoEntry /\ c[x].dirty => x \in q,
         EvictToCapacity(c, q, b),
         NEW x \in Data, c[x] # NoEntry /\ ~ c[x].dirty => c[x].data = dev[x]
  PROVE  /\ View(x)' = IF c[x] # NoEntry THEN c[x].data ELSE dev[x]
         /\ cache'[x] # NoEntry /\ ~ cache'[x].dirty => cache'[x].data = dev'[x]
<1>1. Evicted(c, b, x)
  BY EvictFacts
<1> QED BY <1>1 DEF View, Evicted

LEMMA EvictSecured ==
  ASSUME NEW c \in [Data -> Entries \union {NoEntry}], NEW q \in SUBSET Data, NEW b \in Data,
         dev \in [Data -> Cell], pend \in [Data -> SUBSET Cell],
         \A x \in Data : c[x] # NoEntry /\ c[x].dirty => x \in q,
         EvictToCapacity(c, q, b),
         NEW x \in Data, c[x] # NoEntry => ~ c[x].dirty /\ c[x].data = dev[x]
  PROVE  /\ dev'[x] = dev[x] /\ pend'[x] = pend[x]
         /\ cache'[x] # NoEntry => ~ cache'[x].dirty /\ cache'[x].data = dev'[x]
<1>1. Evicted(c, b, x)
  BY EvictFacts
<1> QED BY <1>1 DEF Evicted

(* The entry of block x once a miss has been filled.                       *)
Read(c, x) ==
  \/ c[x] = cache[x]
  \/ c[x] # NoEntry /\ cache[x] = NoEntry /\ ~ c[x].dirty /\ c[x].data = dev[x]

(* AfterRead of an object's block.                                         *)
LEMMA AfterReadFacts ==
  ASSUME NcfsInv, NEW i \in Inodes, ReadMisses(i)
  PROVE  /\ tree[i] \in Data /\ AfterRead(tree[i]) \in [Data -> Entries \union {NoEntry}]
         /\ \A x \in Data : AfterRead(tree[i])[x] # NoEntry /\ AfterRead(tree[i])[x].dirty =>
                              x \in dirty
         /\ \A x \in Data : Read(AfterRead(tree[i]), x)
<1> DEFINE b == tree[i]
           e == [data |-> dev[b], dirty |-> FALSE]
           c == AfterRead(b)
<1>1. TypeOK /\ CacheInv /\ tree[i] # NoBlock /\ cache[b] = NoEntry
  BY DEF NcfsInv, ReadMisses
<1>2. b \in Data
  BY <1>1, TreeBlocks DEF TypeOK
<1>3. e \in Entries /\ e # NoEntry /\ e.dirty = FALSE /\ e.data = dev[b]
  BY <1>1, <1>2, EntryFacts DEF TypeOK
<1>4. c = [cache EXCEPT ![b] = e]
  BY DEF AfterRead
<1> HIDE DEF e, c, b
<1>5. /\ c \in [Data -> Entries \union {NoEntry}] /\ c[b] = e
      /\ \A x \in Data : x # b => c[x] = cache[x]
  BY <1>1, <1>2, <1>3, <1>4 DEF TypeOK
<1>6. \A x \in Data : Read(c, x)
  BY <1>1, <1>3, <1>5 DEF Read
<1>7. \A x \in Data : c[x] # NoEntry /\ c[x].dirty => x \in dirty
  BY <1>1, <1>6 DEF CacheInv, Read
<1> QED BY <1>2, <1>5, <1>6, <1>7 DEF b, c

(* AfterWrite of a fresh block.                                            *)
LEMMA AfterWriteFacts ==
  ASSUME NcfsInv, NEW d \in Objects, NEW b \in Data, Alloc(b)
  PROVE  /\ refs[b] = 0 /\ b \notin Held /\ freed[b] = 0
         /\ AfterWrite(b, d) \in [Data -> Entries \union {NoEntry}]
         /\ \A x \in Data : AfterWrite(b, d)[x] # NoEntry /\ AfterWrite(b, d)[x].dirty =>
                              x \in dirty \union {b}
         /\ AfterWrite(b, d)[b] # NoEntry /\ AfterWrite(b, d)[b].dirty
         /\ AfterWrite(b, d)[b].data = d
         /\ \A x \in Data : x # b => AfterWrite(b, d)[x] = cache[x]
<1>1. TypeOK /\ CacheInv /\ MapInv
  BY DEF NcfsInv
<1> DEFINE e == [data |-> d, dirty |-> TRUE]
           c == AfterWrite(b, d)
<1>3. e \in Entries /\ e # NoEntry /\ e.dirty = TRUE /\ e.data = d
  BY EntryFacts DEF Cell
<1>4. c = [cache EXCEPT ![b] = e]
  BY DEF AfterWrite
<1> HIDE DEF e, c
<1>5. /\ c \in [Data -> Entries \union {NoEntry}] /\ c[b] = e
      /\ \A x \in Data : x # b => c[x] = cache[x]
  BY <1>1, <1>3, <1>4 DEF TypeOK
<1>6. \A x \in Data : c[x] # NoEntry /\ c[x].dirty => x \in dirty \union {b}
  BY <1>1, <1>5 DEF CacheInv
<1>7. refs[b] = 0 /\ b \notin Held /\ freed[b] = 0
  <2>1. refs[b] = 0 /\ refs[b] >= Holders(b)
    BY <1>1 DEF Alloc, MapInv
  <2> QED BY <2>1 DEF Holders, One, Held
<1> QED BY <1>3, <1>5, <1>6, <1>7 DEF c

LEMMA CacheReadKeeps == ASSUME NcfsInv, NEW i \in Inodes, CacheRead(i)
                        PROVE  NcfsInv' /\ \A x \in Held : View(x)' = View(x)
<1>1. /\ TypeOK /\ MapInv /\ CacheInv /\ pc = "idle"
      /\ UNCHANGED <<disk, lost, slotVars, refs, freed, base, tree, snap, pc, writes, failures>>
  BY DEF NcfsInv, CacheRead, ReadMisses, volVars, bounds
<1>2. PICK c \in [Data -> Entries \union {NoEntry}], b \in Data :
           /\ EvictToCapacity(c, dirty, b)
           /\ \A x \in Data : c[x] # NoEntry /\ c[x].dirty => x \in dirty
           /\ \A x \in Data : Read(c, x)
  BY AfterReadFacts DEF CacheRead
<1>3. dirty \in SUBSET Data /\ dev \in [Data -> Cell] /\ pend \in [Data -> SUBSET Cell]
  BY <1>1 DEF TypeOK
<1>4. /\ cache' \in [Data -> Entries \union {NoEntry}] /\ dirty' \subseteq Data
      /\ dev' \in [Data -> Cell] /\ pend' \in [Data -> SUBSET Cell]
      /\ \A x \in Data : cache'[x] # NoEntry /\ cache'[x].dirty => x \in dirty'
  BY <1>2, <1>3, EvictFacts
<1>5. TypeOK'
  BY <1>1, <1>4 DEF TypeOK, slotVars
<1>6. MapInv'
  BY <1>1 DEF MapInv, Distinct, Holders, Held
<1>7. Held' = Held /\ Held \subseteq Data
  BY <1>1, SnapBlocks DEF Held, TypeOK
<1>8. ASSUME NEW x \in Held
      PROVE  /\ View(x)' = View(x) /\ (View(x) \in Objects \/ x \in lost)
             /\ cache'[x] # NoEntry /\ ~ cache'[x].dirty => cache'[x].data = dev'[x]
  <2>1. /\ x \in Data /\ (View(x) \in Objects \/ x \in lost)
        /\ cache[x] # NoEntry /\ ~ cache[x].dirty => cache[x].data = dev[x]
    BY <1>1, <1>7 DEF CacheInv
  <2>2. /\ c[x] # NoEntry /\ ~ c[x].dirty => c[x].data = dev[x]
        /\ View(x) = IF c[x] # NoEntry THEN c[x].data ELSE dev[x]
    BY <1>2, <2>1 DEF View, Read
  <2>3. /\ View(x)' = IF c[x] # NoEntry THEN c[x].data ELSE dev[x]
        /\ cache'[x] # NoEntry /\ ~ cache'[x].dirty => cache'[x].data = dev'[x]
    BY <1>2, <1>3, <2>1, <2>2, EvictView
  <2> QED BY <2>1, <2>2, <2>3
<1>s. \A x \in BlocksOf(snap) : cache'[x] # NoEntry => ~ cache'[x].dirty
  <2> SUFFICES ASSUME NEW x \in BlocksOf(snap) PROVE cache'[x] # NoEntry => ~ cache'[x].dirty
    OBVIOUS
  <2>1. x \in Data /\ x \in Held
    BY <1>7 DEF Held
  <2>2. c[x] # NoEntry => ~ c[x].dirty
    BY <1>1, <1>2, <2>1 DEF CacheInv, Read
  <2>3. Evicted(c, b, x)
    BY <1>2, <1>3, <2>1, EvictFacts
  <2> QED BY <2>2, <2>3 DEF Evicted
<1>9. CacheInv'
  <2>1. BlocksOf(snap)' = BlocksOf(snap)
    BY <1>1
  <2> QED BY <1>1, <1>4, <1>7, <1>8, <1>s, <2>1 DEF CacheInv
<1>10. ASSUME NEW x \in Data, Secured(x) PROVE Secured(x)'
  <2>1. c[x] # NoEntry => ~ c[x].dirty /\ c[x].data = dev[x]
    BY <1>2, <1>10 DEF Secured, Read
  <2>2. /\ dev'[x] = dev[x] /\ pend'[x] = pend[x]
        /\ cache'[x] # NoEntry => ~ cache'[x].dirty /\ cache'[x].data = dev'[x]
    BY <1>2, <1>3, <2>1, EvictSecured
  <2> QED BY <1>1, <1>10, <2>2 DEF Secured
<1> QED BY <1>1, <1>5, <1>6, <1>8, <1>9, <1>10, OperationFrame

(* What a changed object does, with the fresh block named.                 *)
Rewritten(i, d, b, c) ==
  /\ refs[b] = 0 /\ b \notin Held /\ freed[b] = 0
  /\ EvictToCapacity(c, dirty \union {b}, b)
  /\ \A x \in Data : c[x] # NoEntry /\ c[x].dirty => x \in dirty \union {b}
  /\ c[b] # NoEntry /\ c[b].dirty /\ c[b].data = d
  /\ \A x \in Data : x # b => c[x] = cache[x]
  /\ lost' = lost \ {b}
  /\ tree' = WithInserted(tree, i, b)
  /\ Drop({tree[i]} \ {NoBlock}, [refs EXCEPT ![b] = 1])

LEMMA WriteObjectFacts ==
  ASSUME NcfsInv, NEW i \in Inodes, NEW d \in Objects, WriteObject(i, d)
  PROVE  \E b \in Data, c \in [Data -> Entries \union {NoEntry}] : Rewritten(i, d, b, c)
<1>1. PICK b \in Data : /\ Alloc(b)
                        /\ EvictToCapacity(AfterWrite(b, d), dirty \union {b}, b)
                        /\ lost' = lost \ {b}
                        /\ tree' = WithInserted(tree, i, b)
                        /\ Drop({tree[i]} \ {NoBlock}, [refs EXCEPT ![b] = 1])
  BY DEF WriteObject
<1> DEFINE c == AfterWrite(b, d)
<1>2. /\ refs[b] = 0 /\ b \notin Held /\ freed[b] = 0
      /\ c \in [Data -> Entries \union {NoEntry}]
      /\ \A x \in Data : c[x] # NoEntry /\ c[x].dirty => x \in dirty \union {b}
      /\ c[b] # NoEntry /\ c[b].dirty /\ c[b].data = d
      /\ \A x \in Data : x # b => c[x] = cache[x]
  BY <1>1, AfterWriteFacts
<1>3. EvictToCapacity(c, dirty \union {b}, b)
  BY <1>1
<1> HIDE DEF c
<1>4. Rewritten(i, d, b, c)
  BY <1>1, <1>2, <1>3 DEF Rewritten
<1> QED BY <1>2, <1>4

LEMMA WriteObjectKeeps ==
  ASSUME NcfsInv, NEW i \in Inodes, NEW d \in Objects, WriteObject(i, d)
  PROVE  /\ NcfsInv'
         /\ \E b \in Data : /\ tree' = WithInserted(tree, i, b) /\ b \notin Held /\ View(b)' = d
                            /\ lost' = lost \ {b} /\ ~ Secured(b)
                            /\ \A x \in Held : View(x)' = View(x)
<1>1. /\ TypeOK /\ MapInv /\ CacheInv /\ pc = "idle" /\ writes < MaxWrites
      /\ writes' = writes + 1
      /\ UNCHANGED <<disk, slotVars, base, snap, pc, failures>>
  BY DEF NcfsInv, WriteObject
<1>0. PICK b \in Data, c \in [Data -> Entries \union {NoEntry}] : Rewritten(i, d, b, c)
  BY WriteObjectFacts
<1>2. /\ refs[b] = 0 /\ b \notin Held /\ freed[b] = 0
      /\ EvictToCapacity(c, dirty \union {b}, b)
      /\ \A x \in Data : c[x] # NoEntry /\ c[x].dirty => x \in dirty \union {b}
      /\ c[b] # NoEntry /\ c[b].dirty /\ c[b].data = d
      /\ \A x \in Data : x # b => c[x] = cache[x]
      /\ lost' = lost \ {b}
      /\ tree' = WithInserted(tree, i, b)
      /\ Drop({tree[i]} \ {NoBlock}, [refs EXCEPT ![b] = 1])
  BY <1>0 DEF Rewritten
<1> DEFINE q == dirty \union {b}
           D == {tree[i]} \ {NoBlock}
           r == [refs EXCEPT ![b] = 1]
<1>3. q \in SUBSET Data /\ dev \in [Data -> Cell] /\ pend \in [Data -> SUBSET Cell]
  BY <1>1 DEF TypeOK
<1>4. /\ cache' \in [Data -> Entries \union {NoEntry}] /\ dirty' \subseteq Data
      /\ dev' \in [Data -> Cell] /\ pend' \in [Data -> SUBSET Cell]
      /\ \A x \in Data : cache'[x] # NoEntry /\ cache'[x].dirty => x \in dirty'
  BY <1>2, <1>3, EvictFacts
<1>5. /\ tree \in Trees /\ Distinct(tree) /\ b \notin BlocksOf(tree)
  BY <1>1, <1>2 DEF TypeOK, MapInv, Held
<1>6. /\ tree' \in Trees /\ Distinct(tree')
      /\ BlocksOf(tree') = (BlocksOf(tree) \ {tree[i]}) \union {b}
  BY <1>2, <1>5, InsertedBlocks
<1>7. r \in [Data -> Nat] /\ r[b] = 1 /\ \A x \in Data : x # b => r[x] = refs[x]
  BY <1>1 DEF TypeOK
<1> HIDE DEF r
<1>8. Drop(D, r)
  BY <1>2 DEF r
<1>9. refs' \in [Data -> Nat] /\ freed' \in [Data -> 0 .. MaxGen]
  BY <1>1, <1>7, <1>8, DropFacts DEF TypeOK, Superblocks
<1>10. TypeOK'
  <2>1. writes' \in 0 .. MaxWrites
    BY <1>1, NcfsAssumption DEF TypeOK
  <2> QED BY <1>1, <1>2, <1>4, <1>6, <1>9, <2>1 DEF TypeOK, slotVars
<1>11. /\ BlocksOf(tree)' = (BlocksOf(tree) \ {tree[i]}) \union {b}
       /\ BlocksOf(snap)' = BlocksOf(snap) /\ Held' \subseteq Held \union {b} /\ Held \subseteq Data
  BY <1>1, <1>6, SnapBlocks DEF Held, TypeOK
<1>12. ASSUME NEW x \in Data
       PROVE  refs'[x] >= Holders(x)' /\ (freed'[x] # 0 => x \notin Held')
  <2>1. refs[x] >= Holders(x) /\ (freed[x] # 0 => x \notin Held) /\ refs[x] \in Nat
    BY <1>1 DEF MapInv, TypeOK
  <2>2. x \in D => x \in BlocksOf(tree)
    BY <1>5, TreeBlocks
  <2>3. b \notin D /\ b \notin BlocksOf(snap)
    BY <1>2, <1>5, TreeBlocks DEF Held
  <2>4. D \subseteq {tree[i]}
    OBVIOUS
  <2> HIDE DEF D
  <2>5. r[x] >= One(x \in BlocksOf(tree)') + One(x \in BlocksOf(snap)')
                   + One(x \in D) + One(freed[x] # 0)
    <3>1. CASE x = b
      BY <1>2, <1>7, <1>11, <2>3, <3>1 DEF One
    <3>2. CASE x # b
      BY <1>7, <1>11, <2>1, <2>2, <2>4, <3>2 DEF Holders, One
    <3> QED BY <3>1, <3>2
  <2>6. freed[x] # 0 => x \notin Held' /\ x \notin D
    BY <1>2, <1>11, <2>1, <2>2 DEF Held
  <2> QED BY <1>1, <1>7, <1>8, <2>5, <2>6, DropMap
<1>13. MapInv'
  <2>1. Distinct(tree)' /\ Distinct(snap)'
    BY <1>1, <1>6 DEF MapInv, Distinct
  <2> QED BY <1>12, <2>1 DEF MapInv
<1>14. ASSUME NEW x \in Held
       PROVE  /\ x # b /\ View(x)' = View(x) /\ (View(x) \in Objects \/ x \in lost)
              /\ cache'[x] # NoEntry /\ ~ cache'[x].dirty => cache'[x].data = dev'[x]
  <2>1. /\ x \in Data /\ x # b /\ (View(x) \in Objects \/ x \in lost)
        /\ cache[x] # NoEntry /\ ~ cache[x].dirty => cache[x].data = dev[x]
    BY <1>1, <1>2, <1>11 DEF CacheInv
  <2>2. /\ c[x] # NoEntry /\ ~ c[x].dirty => c[x].data = dev[x]
        /\ View(x) = IF c[x] # NoEntry THEN c[x].data ELSE dev[x]
    BY <1>2, <2>1 DEF View
  <2>3. /\ View(x)' = IF c[x] # NoEntry THEN c[x].data ELSE dev[x]
        /\ cache'[x] # NoEntry /\ ~ cache'[x].dirty => cache'[x].data = dev'[x]
    BY <1>2, <1>3, <2>1, <2>2, EvictView
  <2> QED BY <2>1, <2>2, <2>3
<1>15. /\ View(b)' = d
       /\ cache'[b] # NoEntry /\ ~ cache'[b].dirty => cache'[b].data = dev'[b]
  <2>1. c[b] # NoEntry /\ ~ c[b].dirty => c[b].data = dev[b]
    BY <1>2
  <2> QED BY <1>2, <1>3, <2>1, EvictView
<1>16. CacheInv'
  <2>1. ASSUME NEW x \in BlocksOf(snap) PROVE cache'[x] # NoEntry => ~ cache'[x].dirty
    <3>1. x \in Data /\ x \in Held /\ x # b
      BY <1>2, <1>11 DEF Held
    <3>2. c[x] # NoEntry => ~ c[x].dirty
      BY <1>1, <1>2, <2>1, <3>1 DEF CacheInv
    <3>3. Evicted(c, b, x)
      BY <1>2, <1>3, <3>1, EvictFacts
    <3> QED BY <3>2, <3>3 DEF Evicted
  <2>2. ASSUME NEW x \in Held'
        PROVE  /\ cache'[x] # NoEntry /\ ~ cache'[x].dirty => cache'[x].data = dev'[x]
               /\ View(x)' \in Objects \/ x \in lost'
    BY <1>2, <1>11, <1>14, <1>15, <2>2
  <2> QED BY <1>1, <1>4, <1>11, <2>1, <2>2 DEF CacheInv
<1>17. ASSUME NEW x \in Data, Secured(x) PROVE Secured(x)'
  <2>1. x # b
    BY <1>2, <1>17 DEF Secured
  <2>2. c[x] # NoEntry => ~ c[x].dirty /\ c[x].data = dev[x]
    BY <1>2, <1>17, <2>1 DEF Secured
  <2>3. /\ dev'[x] = dev[x] /\ pend'[x] = pend[x]
        /\ cache'[x] # NoEntry => ~ cache'[x].dirty /\ cache'[x].data = dev'[x]
    BY <1>2, <1>3, <2>2, EvictSecured
  <2>4. r[x] >= refs[x] /\ refs[x] > 0 /\ freed[x] \in {0, base.gen}
    BY <1>1, <1>7, <1>17, <2>1 DEF Secured, TypeOK
  <2>5. refs'[x] > 0 /\ freed'[x] \in {0, base.gen}
    BY <1>1, <1>7, <1>8, <2>4, DropSecures
  <2> QED BY <1>1, <1>2, <1>17, <2>1, <2>3, <2>5 DEF Secured
<1>18. NcfsInv'
  BY <1>1, <1>10, <1>13, <1>16, <1>17, OperationFrame
<1>19. ~ Secured(b)
  BY <1>2 DEF Secured
<1> QED BY <1>2, <1>14, <1>15, <1>18, <1>19

(* A refused eviction loses one block, which no mount needs and no         *)
(* snapshot holds.                                                         *)
LEMMA RefusedKeeps ==
  ASSUME NcfsInv, pc = "idle", NEW q \in SUBSET Data, NEW b \in Data,
         NEW c \in [Data -> Entries \union {NoEntry}], EvictionRefused(c, q, b),
         \A x \in Data : c[x] # NoEntry /\ c[x].dirty => x \in q,
         \A x \in Held : Read(c, x), \A x \in Data : Secured(x) => Read(c, x),
         UNCHANGED <<disk, slotVars, volVars, pc>>, writes' \in 0 .. MaxWrites
  PROVE  /\ NcfsInv'
         /\ \E v \in Data : /\ lost' = lost \union {v}
                            /\ v \notin BlocksOf(snap) /\ ~ Secured(v)
                            /\ \A x \in Held : x # v => View(x)' = View(x)
<1>1. /\ TypeOK /\ MapInv /\ CacheInv
      /\ UNCHANGED <<disk, slotVars, refs, freed, base, tree, snap, pc, dev, pend>>
      /\ failures < MaxFailures /\ failures' = failures + 1 /\ dirty' = q
  BY DEF NcfsInv, volVars, EvictionRefused
<1>2. PICK v \in Resident(c) \ {b} :
           c[v].dirty /\ cache' = [c EXCEPT ![v] = NoEntry] /\ lost' = lost \union {v}
  BY DEF EvictionRefused
<1>3. /\ v \in Data /\ c[v] # NoEntry /\ cache' \in [Data -> Entries \union {NoEntry}]
      /\ cache'[v] = NoEntry /\ \A x \in Data : x # v => cache'[x] = c[x]
  BY <1>2 DEF Resident
<1>4. failures' \in 0 .. MaxFailures
  BY <1>1, NcfsAssumption DEF TypeOK
<1>5. TypeOK'
  BY <1>1, <1>2, <1>3, <1>4 DEF TypeOK, slotVars
<1>6. MapInv'
  BY <1>1 DEF MapInv, Distinct, Holders, Held
<1>7. Held' = Held /\ Held \subseteq Data /\ BlocksOf(snap)' = BlocksOf(snap)
  BY <1>1, SnapBlocks DEF Held, TypeOK
<1>8. ASSUME NEW x \in Held, x # v
      PROVE  /\ View(x)' = View(x) /\ (View(x) \in Objects \/ x \in lost)
             /\ cache'[x] # NoEntry /\ ~ cache'[x].dirty => cache'[x].data = dev[x]
             /\ x \in BlocksOf(snap) /\ cache'[x] # NoEntry => ~ cache'[x].dirty
  <2>1. /\ View(x) \in Objects \/ x \in lost
        /\ cache[x] # NoEntry /\ ~ cache[x].dirty => cache[x].data = dev[x]
        /\ x \in BlocksOf(snap) /\ cache[x] # NoEntry => ~ cache[x].dirty
    BY <1>1 DEF CacheInv
  <2>2. cache'[x] = c[x] /\ Read(c, x) /\ dev' = dev
    BY <1>1, <1>3, <1>7, <1>8
  <2> QED BY <2>1, <2>2 DEF View, Read
<1>9. v \notin BlocksOf(snap)
  <2> SUFFICES ASSUME v \in BlocksOf(snap) PROVE FALSE
    OBVIOUS
  <2>1. Read(c, v) /\ (cache[v] # NoEntry => ~ cache[v].dirty)
    BY <1>1 DEF Held, CacheInv
  <2> QED BY <1>2, <1>3, <2>1 DEF Read
<1>10. ~ Secured(v)
  BY <1>2, <1>3 DEF Secured, Read
<1>11. CacheInv'
  <2>1. \A x \in Data : cache'[x] # NoEntry /\ cache'[x].dirty => x \in dirty'
    BY <1>1, <1>3
  <2>2. ASSUME NEW x \in Held
        PROVE  /\ cache'[x] # NoEntry /\ ~ cache'[x].dirty => cache'[x].data = dev'[x]
               /\ View(x)' \in Objects \/ x \in lost'
    <3>1. CASE x = v
      BY <1>2, <1>3, <3>1
    <3>2. CASE x # v
      BY <1>1, <1>2, <1>8, <3>2
    <3> QED BY <3>1, <3>2
  <2>3. ASSUME NEW x \in BlocksOf(snap) PROVE cache'[x] # NoEntry => ~ cache'[x].dirty
    <3>1. x \in Held /\ x # v
      BY <1>9 DEF Held
    <3> QED BY <1>8, <3>1
  <2> QED BY <1>1, <1>7, <2>1, <2>2, <2>3 DEF CacheInv
<1>12. ASSUME NEW x \in Data, Secured(x) PROVE Secured(x)'
  <2>1. x # v /\ Read(c, x)
    BY <1>10, <1>12
  <2>2. cache'[x] # NoEntry => ~ cache'[x].dirty /\ cache'[x].data = dev[x]
    BY <1>3, <1>12, <2>1 DEF Secured, Read
  <2> QED BY <1>1, <1>2, <1>12, <2>2 DEF Secured
<1>13. NcfsInv'
  BY <1>1, <1>5, <1>6, <1>11, <1>12, OperationFrame
<1> QED BY <1>2, <1>3, <1>8, <1>9, <1>10, <1>13

LEMMA RefusedOperations ==
  ASSUME NcfsInv, \/ \E i \in Inodes : ReadRefused(i)
                  \/ \E d \in Objects : WriteRefused(d)
  PROVE  /\ NcfsInv' /\ UNCHANGED <<disk, slotVars, volVars, pc>> /\ pc = "idle"
         /\ \E v \in Data : /\ lost' = lost \union {v}
                            /\ v \notin BlocksOf(snap) /\ ~ Secured(v)
                            /\ \A x \in Held : x # v => View(x)' = View(x)
<1>1. TypeOK /\ Held \subseteq Data
  BY SnapBlocks DEF NcfsInv, TypeOK, Held
<1>2. CASE \E i \in Inodes : ReadRefused(i)
  <2>1. PICK i \in Inodes : ReadRefused(i)
    BY <1>2
  <2>2. /\ ReadMisses(i) /\ EvictionRefused(AfterRead(tree[i]), dirty, tree[i])
        /\ UNCHANGED <<disk, slotVars, volVars, pc, writes>>
    BY <2>1 DEF ReadRefused
  <2>3. writes' \in 0 .. MaxWrites /\ dirty \in SUBSET Data /\ pc = "idle"
    BY <1>1, <2>2 DEF TypeOK, ReadMisses
  <2>4. PICK c \in [Data -> Entries \union {NoEntry}], b \in Data :
             /\ EvictionRefused(c, dirty, b)
             /\ \A x \in Data : c[x] # NoEntry /\ c[x].dirty => x \in dirty
             /\ \A x \in Data : Read(c, x)
    BY <2>2, AfterReadFacts
  <2>5. \A x \in Held : Read(c, x)
    BY <1>1, <2>4
  <2> QED BY <2>2, <2>3, <2>4, <2>5, RefusedKeeps
<1>3. CASE \E d \in Objects : WriteRefused(d)
  <2>1. PICK d \in Objects : WriteRefused(d)
    BY <1>3
  <2>2. /\ pc = "idle" /\ writes < MaxWrites /\ writes' = writes + 1
        /\ UNCHANGED <<disk, slotVars, volVars, pc>>
    BY <2>1 DEF WriteRefused
  <2>3. PICK b \in Data : Alloc(b) /\ EvictionRefused(AfterWrite(b, d), dirty \union {b}, b)
    BY <2>1 DEF WriteRefused
  <2> DEFINE c == AfterWrite(b, d)
             q == dirty \union {b}
  <2>4. /\ refs[b] = 0 /\ b \notin Held
        /\ c \in [Data -> Entries \union {NoEntry}]
        /\ \A x \in Data : c[x] # NoEntry /\ c[x].dirty => x \in q
        /\ \A x \in Data : x # b => c[x] = cache[x]
    BY <2>3, AfterWriteFacts
  <2>5. EvictionRefused(c, q, b) /\ q \in SUBSET Data
    BY <1>1, <2>3 DEF TypeOK
  <2> HIDE DEF c, q
  <2>6. writes' \in 0 .. MaxWrites
    BY <1>1, <2>2, NcfsAssumption DEF TypeOK
  <2>7. (\A x \in Held : Read(c, x)) /\ \A x \in Data : Secured(x) => Read(c, x)
    BY <1>1, <2>4 DEF Read, Secured
  <2> QED BY <2>2, <2>4, <2>5, <2>6, <2>7, RefusedKeeps
<1> QED BY <1>2, <1>3

-----------------------------------------------------------------------------
(* A commit, one device command at a time.                                 *)
LEMMA CommitFrame ==
  ASSUME NcfsInv, pc # "down", pc' # "down", UNCHANGED <<refs, freed, base, tree, snap>>,
         TypeOK', CacheInv', SlotInv', Attempts' \subseteq Attempts,
         \A b \in Data : Secured(b) => Secured(b)'
  PROVE  NcfsInv'
<1>1. MapInv'
  BY DEF NcfsInv, MapInv, Distinct, Holders, Held
<1>2. SecuredInv'
  BY SecuredFrame
<1>3. DownInv'
  BY DEF DownInv
<1> QED BY <1>1, <1>2, <1>3 DEF NcfsInv

(* A device command fails: only pc changes.                                *)
LEMMA CommandFailsKeeps == ASSUME NcfsInv, CommandFails PROVE NcfsInv'
<1>1. /\ pc # "down" /\ pc' = "idle"
      /\ UNCHANGED <<disk, pend, dev, sbDisk, sbPend, sbDev, committed, cache, dirty, lost,
                     refs, freed, base, tree, snap, writes>>
  BY DEF CommandFails, blockVars, slotVars, cacheVars, volVars
<1>2. TypeOK /\ CacheInv /\ SlotInv
  BY DEF NcfsInv
<1>3. failures' \in 0 .. MaxFailures
  BY <1>2, NcfsAssumption DEF CommandFails, TypeOK
<1>4. TypeOK'
  BY <1>1, <1>2, <1>3 DEF TypeOK
<1>5. CacheInv'
  BY <1>1, <1>2 DEF CacheInv, Held, View
<1>6. SlotInv'
  BY <1>1, <1>2 DEF SlotInv, Slotted
<1>7. Attempts' = Attempts
  BY <1>1 DEF Attempts, Standing
<1>8. \A b \in Data : Secured(b) => Secured(b)'
  BY <1>1 DEF Secured
<1> QED BY <1>1, <1>4, <1>5, <1>6, <1>7, <1>8, CommitFrame

LEMMA WriteBackKeeps ==
  ASSUME NcfsInv, WriteBack PROVE NcfsInv' /\ \A x \in Held : View(x)' = View(x)
<1>1. /\ TypeOK /\ CacheInv /\ SlotInv /\ pc \in {"idle", "barrier"} /\ dirty # {}
      /\ pc' = "barrier"
      /\ UNCHANGED <<disk, lost, sbDisk, sbPend, sbDev, committed, refs, freed, base, tree, snap,
                     writes, failures>>
  BY DEF NcfsInv, WriteBack, slotVars, volVars, bounds
<1> DEFINE b == Min(dirty)
<1>2. b \in dirty /\ b \in Data
  BY <1>1, LeastIsElement, DataFacts DEF TypeOK
<1>3. /\ dirty' = dirty \ {b}
      /\ IF cache[b] # NoEntry /\ cache[b].dirty
           THEN /\ DevWrite(b, cache[b].data)
                /\ cache' = [cache EXCEPT ![b].dirty = FALSE]
           ELSE UNCHANGED <<dev, pend, cache>>
  BY DEF WriteBack
<1> HIDE DEF b
<1>4. Held' = Held /\ Held \subseteq Data
  BY <1>1, SnapBlocks DEF Held, TypeOK
<1>5. SlotInv'
  BY <1>1 DEF SlotInv, Slotted
<1>6. Attempts' = Attempts
  BY <1>1 DEF Attempts, Standing
<1>7. CASE cache[b] # NoEntry /\ cache[b].dirty
  <2> DEFINE e == [cache[b] EXCEPT !.dirty = FALSE]
  <2>1. cache[b] \in Entries /\ cache[b].data \in Cell
    BY <1>1, <1>2, <1>7 DEF TypeOK, Entries
  <2>2. e \in Entries /\ e # NoEntry /\ e.dirty = FALSE /\ e.data = cache[b].data
    <3>1. e \in Entries /\ e.dirty = FALSE /\ e.data = cache[b].data
      BY <2>1 DEF Entries
    <3> HIDE DEF e
    <3> QED BY <3>1, SentinelAssumption
  <2>3. /\ dev' = [dev EXCEPT ![b] = cache[b].data]
        /\ pend' = [pend EXCEPT ![b] = pend[b] \union {cache[b].data}]
        /\ cache' = [cache EXCEPT ![b] = e]
    BY <1>3, <1>7 DEF DevWrite
  <2> HIDE DEF e
  <2>4. /\ dev' \in [Data -> Cell] /\ pend' \in [Data -> SUBSET Cell]
        /\ cache' \in [Data -> Entries \union {NoEntry}]
        /\ dev'[b] = cache[b].data /\ cache'[b] = e
        /\ \A x \in Data : x # b =>
             dev'[x] = dev[x] /\ pend'[x] = pend[x] /\ cache'[x] = cache[x]
    BY <1>1, <1>2, <2>1, <2>2, <2>3 DEF TypeOK
  <2>5. TypeOK'
    BY <1>1, <1>3, <2>4 DEF TypeOK
  <2>6. \A x \in Data : View(x)' = View(x)
    BY <1>7, <2>2, <2>4 DEF View
  <2>7. CacheInv'
    <3>1. \A x \in Data : cache'[x] # NoEntry /\ cache'[x].dirty => x \in dirty'
      BY <1>1, <1>3, <2>2, <2>4 DEF CacheInv
    <3>2. \A x \in Held : View(x)' \in Objects \/ x \in lost'
      BY <1>1, <1>4, <2>6 DEF CacheInv
    <3>3. \A x \in Held : cache'[x] # NoEntry /\ ~ cache'[x].dirty => cache'[x].data = dev'[x]
      BY <1>1, <1>4, <2>2, <2>4 DEF CacheInv
    <3>4. \A x \in BlocksOf(snap) : x \in Held
      BY DEF Held
    <3>5. \A x \in BlocksOf(snap)' : cache'[x] # NoEntry => ~ cache'[x].dirty
      BY <1>1, <1>4, <2>2, <2>4, <3>4 DEF CacheInv
    <3> QED BY <1>1, <1>4, <3>1, <3>2, <3>3, <3>5 DEF CacheInv
  <2>8. ASSUME NEW x \in Data, Secured(x) PROVE Secured(x)'
    <3>1. x # b
      BY <1>7, <2>8 DEF Secured
    <3> QED BY <1>1, <2>4, <2>8, <3>1 DEF Secured
  <2>9. NcfsInv'
    BY <1>1, <1>5, <1>6, <2>5, <2>7, <2>8, CommitFrame
  <2> QED BY <1>4, <2>6, <2>9
<1>8. CASE ~ (cache[b] # NoEntry /\ cache[b].dirty)
  <2>1. UNCHANGED <<dev, pend, cache>>
    BY <1>3, <1>8
  <2>2. TypeOK'
    BY <1>1, <1>3, <2>1 DEF TypeOK
  <2>3. \A x : View(x)' = View(x)
    BY <2>1 DEF View
  <2>4. CacheInv'
    BY <1>1, <1>3, <1>4, <1>8, <2>1, <2>3 DEF CacheInv
  <2>5. \A x \in Data : Secured(x) => Secured(x)'
    BY <1>1, <2>1 DEF Secured
  <2>6. NcfsInv'
    BY <1>1, <1>5, <1>6, <2>2, <2>4, <2>5, CommitFrame
  <2> QED BY <2>3, <2>6
<1> QED BY <1>7, <1>8

(* The flush of a barrier and of a superblock: nothing a mount may need    *)
(* changes, and attempts that were overwritten are gone.                   *)
LEMMA FlushKeeps ==
  ASSUME NcfsInv, Barrier \/ FlushSlot
  PROVE  /\ NcfsInv' /\ Attempts' \subseteq Attempts
         /\ \A b \in Data : Secured(b) => disk'[b] = disk[b]
<1>1. /\ TypeOK /\ CacheInv /\ SlotInv /\ Flush
      /\ UNCHANGED <<dev, sbDev, committed, cache, dirty, lost, refs, freed, base, tree, snap,
                     writes, failures>>
      /\ dirty = {} /\ pc \in {"idle", "barrier", "slotflush"}
      /\ pc' \in {"idle", "slot", "root"} /\ (pc' = "root" => pc = "slotflush")
      /\ pc' = "slot" => base.gen < MaxGen
  BY DEF NcfsInv, Barrier, FlushSlot, Flush, cacheVars, volVars, bounds, CacheInv
<1>2. /\ disk' = dev /\ pend' = [b \in Data |-> {}]
      /\ sbDisk' = sbDev /\ sbPend' = [s \in Slots |-> {}]
  BY <1>1 DEF Flush
<1>3. TypeOK'
  BY <1>1, <1>2 DEF TypeOK
<1>4. /\ base.gen \in Nat /\ SlotFor(base.gen) \in Slots /\ SlotFor(base.gen + 1) \in Slots
  BY <1>1, SlotFacts DEF TypeOK, Superblocks
<1>5. \A s \in Slots : Slotted(s)' \subseteq Slotted(s) /\ sbPend'[s] = {} /\ sbDisk'[s] = sbDev[s]
  BY <1>1, <1>2 DEF SlotInv, Slotted
<1>6. Attempts' \subseteq Attempts
  <2>1. Attempts' = {sb \in Slotted(SlotFor(base.gen + 1))' : sb.gen = base.gen + 1}
    BY <1>1 DEF Attempts, Standing, Slotted
  <2>2. Attempts = {sb \in Slotted(SlotFor(base.gen + 1)) : sb.gen = base.gen + 1}
    BY <1>1 DEF Attempts, Standing, Slotted
  <2>3. base' = base
    BY <1>1
  <2> QED BY <1>4, <1>5, <2>1, <2>2, <2>3
<1>7. CacheInv'
  BY <1>1, <1>2 DEF CacheInv, Held, View
<1>8. SlotInv'
  <2>1. sbDisk'[SlotFor(base.gen)] = base /\ sbPend'[SlotFor(base.gen)] = {}
    BY <1>1, <1>4, <1>5 DEF SlotInv
  <2>2. NextSb' = NextSb
    BY <1>1 DEF NextSb
  <2>3. \A s \in Slots : sbDev'[s] \in {sbDisk'[s]} \union sbPend'[s]
    BY <1>1, <1>5
  <2>4. \A s \in Slots : \A sb \in Slotted(s)' : SlotFor(sb.gen) = s /\ Sound(sb)
    BY <1>1, <1>5 DEF SlotInv
  <2>5. \A sb \in Slotted(SlotFor(base.gen + 1))' : sb.gen <= base.gen + 1
    BY <1>1, <1>4, <1>5 DEF SlotInv
  <2>6. committed <= base.gen /\ (pc' \in {"slot", "root"} => base.gen < MaxGen)
    BY <1>1 DEF SlotInv
  <2>7. pc = "slotflush" => sbDev[SlotFor(base.gen + 1)] = NextSb
    BY <1>1 DEF SlotInv
  <2> QED BY <1>1, <1>4, <1>5, <2>1, <2>2, <2>3, <2>4, <2>5, <2>6, <2>7 DEF SlotInv
<1>9. ASSUME NEW b \in Data, Secured(b) PROVE Secured(b)' /\ disk'[b] = disk[b]
  BY <1>1, <1>2, <1>9 DEF Secured
<1>10. NcfsInv'
  BY <1>1, <1>3, <1>6, <1>7, <1>8, <1>9, CommitFrame
<1> QED BY <1>6, <1>9, <1>10

(* Past the barrier everything the file system holds is on the medium.     *)
LEMMA PastBarrier ==
  ASSUME NcfsInv, pc \in {"slot", "slotflush", "root"}, NEW b \in Held
  PROVE  /\ refs[b] > 0 /\ freed[b] = 0 /\ b \in Data
         /\ (disk[b] \in Objects \/ b \in lost) /\ dev[b] = disk[b] /\ pend[b] = {}
         /\ cache[b] # NoEntry => ~ cache[b].dirty /\ cache[b].data = dev[b]
         /\ View(b) = disk[b]
<1>1. TypeOK /\ MapInv /\ CacheInv
  BY DEF NcfsInv
<1>2. b \in Data
  BY <1>1, SnapBlocks DEF Held, TypeOK
<1>3. refs[b] > 0 /\ freed[b] = 0
  <2>1. refs[b] >= Holders(b) /\ (freed[b] # 0 => b \notin Held) /\ refs[b] \in Nat
    BY <1>1, <1>2 DEF MapInv, TypeOK
  <2> QED BY <2>1 DEF Holders, Held, One
<1>4. dirty = {} /\ dev = disk /\ pend[b] = {}
  BY <1>1, <1>2 DEF CacheInv
<1>5. cache[b] # NoEntry => ~ cache[b].dirty /\ cache[b].data = dev[b]
  BY <1>1, <1>2, <1>4 DEF CacheInv
<1>6. View(b) = dev[b] /\ (View(b) \in Objects \/ b \in lost)
  BY <1>1, <1>5 DEF CacheInv, View
<1> QED BY <1>2, <1>3, <1>4, <1>5, <1>6

LEMMA NextSbFacts ==
  ASSUME NcfsInv, pc \in {"slot", "slotflush", "root"}
  PROVE  /\ NextSb \in Superblocks /\ NextSb # NoSb /\ NextSb.gen = base.gen + 1
         /\ NextSb.tree = tree /\ NextSb.snap = snap /\ NextSb.refs = refs
         /\ Sound(NextSb) /\ BlocksIn(NextSb) = Held
<1>1. TypeOK /\ MapInv /\ SlotInv
  BY DEF NcfsInv
<1>2. /\ NextSb.gen = base.gen + 1 /\ NextSb.tree = tree /\ NextSb.snap = snap
      /\ NextSb.refs = refs
  BY DEF NextSb
<1>3. base.gen + 1 \in 1 .. MaxGen
  BY <1>1, NcfsAssumption DEF SlotInv, TypeOK, Superblocks
<1>4. NextSb \in Superblocks
  BY <1>1, <1>3 DEF NextSb, Superblocks, TypeOK
<1>5. \A b \in Data : refs[b] >= One(b \in BlocksOf(tree)) + One(b \in BlocksOf(snap))
  <2> SUFFICES ASSUME NEW b \in Data
               PROVE  refs[b] >= One(b \in BlocksOf(tree)) + One(b \in BlocksOf(snap))
    OBVIOUS
  <2>1. refs[b] >= Holders(b) /\ refs[b] \in Nat
    BY <1>1 DEF MapInv, TypeOK
  <2> QED BY <2>1 DEF Holders, One
<1>6. Sound(NextSb)
  BY <1>1, <1>2, <1>5 DEF Sound, MapInv
<1>7. BlocksIn(NextSb) = Held
  BY <1>2 DEF BlocksIn, Held
<1>8. NextSb # NoSb
  BY <1>4, SentinelAssumption
<1> QED BY <1>2, <1>4, <1>6, <1>7, <1>8

LEMMA WriteSlotKeeps ==
  ASSUME NcfsInv, WriteSlot
  PROVE  NcfsInv' /\ Attempts' = Attempts \union {NextSb}
<1>1. /\ TypeOK /\ MapInv /\ CacheInv /\ SlotInv /\ pc = "slot" /\ pc' = "slotflush"
      /\ UNCHANGED <<sbDisk, committed, disk, pend, dev, cache, dirty, lost, refs, freed, base,
                     tree, snap, writes, failures>>
  BY DEF NcfsInv, WriteSlot, blockVars, cacheVars, volVars, bounds
<1>2. /\ NextSb \in Superblocks /\ NextSb # NoSb /\ NextSb.gen = base.gen + 1
      /\ Sound(NextSb) /\ BlocksIn(NextSb) = Held
  BY <1>1, NextSbFacts
<1> DEFINE t == SlotFor(base.gen + 1)
<1>3. /\ base.gen \in Nat /\ SlotFor(base.gen) \in Slots /\ t \in Slots /\ t # SlotFor(base.gen)
  BY <1>1, SlotFacts DEF TypeOK, Superblocks
<1>4. /\ sbDev' = [sbDev EXCEPT ![t] = NextSb]
      /\ sbPend' = [sbPend EXCEPT ![t] = sbPend[t] \union {NextSb}]
  BY <1>2 DEF WriteSlot
<1>5. /\ sbDev' \in [Slots -> Superblocks \union {NoSb}]
      /\ sbPend' \in [Slots -> SUBSET Superblocks]
      /\ sbDev'[t] = NextSb /\ sbPend'[t] = sbPend[t] \union {NextSb}
      /\ \A s \in Slots : s # t => sbDev'[s] = sbDev[s] /\ sbPend'[s] = sbPend[s]
  BY <1>1, <1>2, <1>3, <1>4 DEF TypeOK
<1>6. TypeOK'
  BY <1>1, <1>5 DEF TypeOK
<1>7. NextSb' = NextSb
  BY <1>1 DEF NextSb
<1>8. /\ Slotted(t)' = Slotted(t) \union {NextSb}
      /\ \A s \in Slots : s # t => Slotted(s)' = Slotted(s)
  BY <1>1, <1>2, <1>5 DEF Slotted
<1> HIDE DEF t
<1>9. SlotInv'
  <2>1. \A s \in Slots : \A sb \in Slotted(s)' : SlotFor(sb.gen) = s /\ Sound(sb)
    BY <1>1, <1>2, <1>8 DEF SlotInv, t
  <2>2. \A s \in Slots : sbDev'[s] \in {sbDisk'[s]} \union sbPend'[s]
    BY <1>1, <1>5 DEF SlotInv
  <2>3. /\ committed <= base.gen /\ sbDisk[SlotFor(base.gen)] = base
        /\ sbPend'[SlotFor(base.gen)] = {} /\ base.gen < MaxGen
    BY <1>1, <1>3, <1>5 DEF SlotInv
  <2>4. /\ \A sb \in sbPend'[t] : sb.gen = base.gen + 1
        /\ \A sb \in Slotted(t)' : sb.gen <= base.gen + 1
    BY <1>1, <1>2, <1>3, <1>5, <1>8 DEF SlotInv, t
  <2> QED BY <1>1, <1>5, <1>7, <2>1, <2>2, <2>3, <2>4 DEF SlotInv, t
<1>10. Attempts' = Attempts \union {NextSb}
  <2>1. Attempts' = {sb \in Slotted(t)' : sb.gen = base.gen + 1}
    BY <1>1 DEF Attempts, Standing, Slotted, t
  <2>2. Attempts = {sb \in Slotted(t) : sb.gen = base.gen + 1}
    BY <1>1 DEF Attempts, Standing, Slotted, t
  <2> QED BY <1>2, <1>8, <2>1, <2>2
<1>11. CacheInv' /\ MapInv'
  BY <1>1 DEF CacheInv, MapInv, Held, View, Holders, Distinct
<1>12. \A b : Secured(b)' <=> Secured(b)
  BY <1>1 DEF Secured
<1>13. SecuredInv'
  <2>1. ASSUME NEW sb \in {base} \union Attempts, NEW b \in BlocksIn(sb) PROVE Secured(b)
    BY <1>1 DEF NcfsInv, SecuredInv
  <2>2. ASSUME NEW b \in BlocksIn(NextSb) PROVE Secured(b)
    BY <1>1, <1>2, PastBarrier DEF Secured
  <2> QED BY <1>1, <1>10, <1>12, <2>1, <2>2 DEF SecuredInv
<1>14. DownInv'
  BY <1>1 DEF DownInv
<1> QED BY <1>6, <1>9, <1>10, <1>11, <1>13, <1>14 DEF NcfsInv

LEMMA CommitRootKeeps ==
  ASSUME NcfsInv, CommitRoot
  PROVE  NcfsInv' /\ NextSb \in Attempts /\ Attempts' = {}
<1>1. /\ TypeOK /\ MapInv /\ CacheInv /\ SlotInv /\ pc = "root" /\ pc' = "idle"
      /\ base' = NextSb /\ committed' = NextSb.gen
      /\ UNCHANGED <<sbDisk, sbPend, sbDev, disk, pend, dev, cache, dirty, lost, refs, freed,
                     tree, snap, writes, failures>>
  BY DEF NcfsInv, CommitRoot, blockVars, cacheVars, bounds
<1>2. /\ NextSb \in Superblocks /\ NextSb # NoSb /\ NextSb.gen = base.gen + 1
      /\ Sound(NextSb) /\ BlocksIn(NextSb) = Held
  BY <1>1, NextSbFacts
<1> DEFINE g == base.gen
<1>3. /\ g \in Nat /\ SlotFor(g) \in Slots /\ SlotFor(g + 1) \in Slots
      /\ SlotFor(g + 2) = SlotFor(g) /\ g + 1 + 1 = g + 2
  BY <1>1, SlotFacts DEF TypeOK, Superblocks
<1>4. /\ sbDisk[SlotFor(g + 1)] = NextSb /\ sbPend[SlotFor(g + 1)] = {}
      /\ sbDisk[SlotFor(g)] = base /\ sbPend[SlotFor(g)] = {}
  BY <1>1 DEF SlotInv
<1>5. NextSb \in Attempts
  BY <1>1, <1>2, <1>4 DEF Attempts, Standing
<1>6. base'.gen = g + 1 /\ committed' = g + 1 /\ base'.gen + 1 = g + 2
  BY <1>1, <1>2, <1>3
<1>7. TypeOK'
  BY <1>1, <1>2 DEF TypeOK, Superblocks
<1> HIDE DEF g
<1>8. Slotted(SlotFor(g + 2)) \subseteq {base}
  BY <1>3, <1>4 DEF Slotted
<1>9. SlotInv'
  <2>1. \A s \in Slots : \A sb \in Slotted(s)' : SlotFor(sb.gen) = s /\ Sound(sb)
    BY <1>1 DEF SlotInv, Slotted
  <2>2. \A s \in Slots : sbDev'[s] \in {sbDisk'[s]} \union sbPend'[s]
    BY <1>1 DEF SlotInv
  <2>3. /\ committed' <= base'.gen /\ sbDisk'[SlotFor(base'.gen)] = base'
        /\ sbPend'[SlotFor(base'.gen)] = {}
    BY <1>1, <1>3, <1>4, <1>6
  <2>4. /\ \A sb \in sbPend'[SlotFor(base'.gen + 1)] : sb.gen = base'.gen + 1
        /\ \A sb \in Slotted(SlotFor(base.gen + 1))' : sb.gen <= base'.gen + 1
    BY <1>1, <1>3, <1>4, <1>6, <1>8 DEF Slotted, g
  <2> QED BY <1>1, <2>1, <2>2, <2>3, <2>4 DEF SlotInv
<1>10. Attempts' = {}
  <2>1. Attempts' = {sb \in Slotted(SlotFor(base.gen + 1))' : sb.gen = base'.gen + 1}
    BY <1>1 DEF Attempts, Standing, Slotted
  <2>2. Slotted(SlotFor(base.gen + 1))' \subseteq {base}
    BY <1>1, <1>6, <1>8 DEF Slotted
  <2>3. base.gen # base'.gen + 1
    BY <1>3, <1>6 DEF g
  <2> QED BY <2>1, <2>2, <2>3
<1>11. CacheInv' /\ MapInv'
  BY <1>1 DEF CacheInv, MapInv, Held, View, Holders, Distinct
<1>12. SecuredInv'
  <2>1. ASSUME NEW b \in BlocksIn(NextSb) PROVE Secured(b)'
    <3>1. /\ refs[b] > 0 /\ freed[b] = 0 /\ b \in Data
          /\ (disk[b] \in Objects \/ b \in lost) /\ dev[b] = disk[b] /\ pend[b] = {}
          /\ cache[b] # NoEntry => ~ cache[b].dirty /\ cache[b].data = dev[b]
      BY <1>1, <1>2, PastBarrier
    <3> QED BY <1>1, <3>1 DEF Secured
  <2> QED BY <1>1, <1>10, <2>1 DEF SecuredInv
<1>13. DownInv'
  BY <1>1 DEF DownInv
<1> QED BY <1>5, <1>7, <1>9, <1>10, <1>11, <1>12, <1>13 DEF NcfsInv

-----------------------------------------------------------------------------
(* Power failures and mounts.                                              *)
ValidIn(f) == {s \in Slots : f[s] # NoSb}
BestSlotIn(f) == CHOOSE s \in ValidIn(f) : \A t \in ValidIn(f) : f[t].gen <= f[s].gen

LEMMA BestIsLast ==
  ASSUME NEW f \in [Slots -> Superblocks \union {NoSb}], ValidIn(f) # {}
  PROVE  /\ BestSlotIn(f) \in ValidIn(f) /\ f[BestSlotIn(f)] \in Superblocks
         /\ \A t \in ValidIn(f) : f[t].gen <= f[BestSlotIn(f)].gen
<1>1. \A s \in ValidIn(f) : f[s] \in Superblocks /\ f[s].gen \in Nat
  BY DEF ValidIn, Superblocks
<1>2. ValidIn(f) \subseteq {0, 1}
  BY DEF ValidIn, Slots
<1>3. \E s \in ValidIn(f) : \A t \in ValidIn(f) : f[t].gen <= f[s].gen
  <2>1. CASE 0 \in ValidIn(f) /\ 1 \in ValidIn(f)
    <3>1. f[0].gen <= f[1].gen \/ f[1].gen <= f[0].gen
      BY <1>1, <2>1
    <3>2. f[0].gen <= f[0].gen /\ f[1].gen <= f[1].gen
      BY <1>1, <2>1
    <3> QED BY <1>2, <2>1, <3>1, <3>2
  <2>2. CASE ~ (0 \in ValidIn(f) /\ 1 \in ValidIn(f))
    <3>1. PICK s \in ValidIn(f) : TRUE
      OBVIOUS
    <3>2. ValidIn(f) = {s} /\ f[s].gen <= f[s].gen
      BY <1>1, <1>2, <2>2
    <3> QED BY <3>2
  <2> QED BY <2>1, <2>2
<1>4. /\ BestSlotIn(f) \in ValidIn(f)
      /\ \A t \in ValidIn(f) : f[t].gen <= f[BestSlotIn(f)].gen
  BY <1>3 DEF BestSlotIn
<1> QED BY <1>1, <1>4

LEMMA BestByName ==
  /\ Valid = ValidIn(sbDisk) /\ Best = sbDisk[BestSlotIn(sbDisk)]
  /\ Valid' = ValidIn(sbDisk') /\ Best' = sbDisk'[BestSlotIn(sbDisk')]
BY Zenon DEF Valid, Best, BestSlot, ValidIn, BestSlotIn

LEMMA FormatFacts ==
  /\ FormatSb \in Superblocks /\ FormatSb.gen = 1 /\ FormatSb.snap = NoSnap
  /\ FormatSb.refs = [b \in Data |-> 0]
  /\ BlocksOf(FormatSb.tree) = {} /\ BlocksOf(FormatSb.snap) = {}
  /\ Distinct(FormatSb.tree) /\ FormatSb.tree \in Trees /\ Sound(FormatSb)
<1> DEFINE t == [i \in Inodes |-> NoBlock]
<1>1. t \in Trees
  BY DEF Trees
<1>2. /\ FormatSb.gen = 1 /\ FormatSb.snap = NoSnap /\ FormatSb.tree = t
      /\ FormatSb.refs = [b \in Data |-> 0]
  BY DEF FormatSb
<1>3. FormatSb \in Superblocks
  BY <1>1, NcfsAssumption DEF FormatSb, Superblocks
<1>4. BlocksOf(t) = {} /\ BlocksOf(NoSnap) = {}
  BY DEF BlocksOf
<1>5. Distinct(t) /\ Distinct(NoSnap)
  BY DEF Distinct
<1>6. Sound(FormatSb)
  BY <1>2, <1>4, <1>5 DEF Sound, One
<1> QED BY <1>1, <1>2, <1>3, <1>4, <1>5, <1>6

(* A power failure leaves the superblock the volume stands on or an        *)
(* attempt at its successor, and every block of either as it was.          *)
LEMMA CrashKeeps ==
  ASSUME NcfsInv, Crash
  PROVE  /\ NcfsInv' /\ Best' \in {base} \union Attempts
         /\ \A b \in BlocksIn(Best') : disk'[b] = disk[b]
<1>1. /\ TypeOK /\ SlotInv /\ SecuredInv /\ pc # "down" /\ pc' = "down"
      /\ UNCHANGED <<committed, lost, writes>>
      /\ failures < MaxFailures /\ failures' = failures + 1
      /\ dev' = disk' /\ sbDev' = sbDisk' /\ dirty' = {}
      /\ pend' = [b \in Data |-> {}] /\ sbPend' = [s \in Slots |-> {}]
      /\ cache' = [b \in Data |-> NoEntry]
      /\ base' = FormatSb /\ tree' = FormatSb.tree /\ snap' = NoSnap
      /\ refs' = FormatSb.refs /\ freed' = [b \in Data |-> 0]
  BY DEF NcfsInv, Crash
<1>2. /\ disk' \in [Data -> Cell]
      /\ \A b \in Data : disk'[b] \in Leaves(disk[b], pend[b], Torn)
  BY DEF Crash
<1>3. /\ sbDisk' \in [Slots -> SlotPool]
      /\ \A s \in Slots : sbDisk'[s] \in Leaves(sbDisk[s], sbPend[s], NoSb)
  BY DEF Crash
<1>4. SlotPool \subseteq Superblocks \union {NoSb}
  BY <1>1 DEF SlotPool, TypeOK
<1>5. sbDisk' \in [Slots -> Superblocks \union {NoSb}]
  BY <1>3, <1>4
<1>6. TypeOK'
  <2>1. failures' \in 0 .. MaxFailures
    BY <1>1, NcfsAssumption DEF TypeOK
  <2>2. refs' \in [Data -> Nat] /\ base' \in Superblocks /\ tree' \in Trees
    BY <1>1, FormatFacts
  <2>3. freed' \in [Data -> 0 .. MaxGen]
    BY <1>1, NcfsAssumption
  <2>4. /\ pend' \in [Data -> SUBSET Cell] /\ sbPend' \in [Slots -> SUBSET Superblocks]
        /\ cache' \in [Data -> Entries \union {NoEntry}]
    BY <1>1
  <2> QED BY <1>1, <1>2, <1>5, <2>1, <2>2, <2>3, <2>4 DEF TypeOK
<1>7. Held' = {} /\ BlocksOf(tree)' = {} /\ BlocksOf(snap)' = {}
  BY <1>1, FormatFacts DEF Held
<1>8. MapInv'
  <2>1. Distinct(tree)' /\ Distinct(snap)'
    BY <1>1, FormatFacts DEF Distinct
  <2>2. ASSUME NEW b \in Data PROVE refs'[b] >= Holders(b)' /\ (freed'[b] # 0 => b \notin Held')
    <3>1. refs'[b] = 0 /\ freed'[b] = 0
      BY <1>1, FormatFacts
    <3> QED BY <1>7, <3>1 DEF Holders, One
  <2> QED BY <2>1, <2>2 DEF MapInv
<1>9. CacheInv'
  BY <1>1, <1>7 DEF CacheInv
<1>10. SecuredInv'
  BY <1>1 DEF SecuredInv
<1>11. \A s \in Slots : Slotted(s)' \subseteq Slotted(s) /\ sbPend'[s] = {}
  BY <1>1, <1>3 DEF Slotted, Leaves
<1>12. SlotInv'
  BY <1>1, <1>11 DEF SlotInv
<1> DEFINE g == base.gen
           s0 == SlotFor(g)
           s1 == SlotFor(g + 1)
<1>13. /\ g \in Nat /\ s0 \in Slots /\ s1 \in Slots /\ s1 # s0
       /\ \A s \in Slots : s = s0 \/ s = s1
  BY <1>1, SlotFacts DEF TypeOK, Superblocks
<1>14. base # NoSb /\ sbDisk'[s0] = base
  <2>1. base # NoSb
    BY <1>1, SentinelAssumption DEF TypeOK
  <2>2. sbDisk'[s0] \in Leaves(base, {}, NoSb)
    BY <1>1, <1>3, <1>13 DEF SlotInv
  <2> QED BY <2>1, <2>2 DEF Leaves
<1>15. ValidIn(sbDisk') # {} /\ s0 \in ValidIn(sbDisk')
  BY <1>13, <1>14 DEF ValidIn
<1>16. /\ Best' = sbDisk'[BestSlotIn(sbDisk')]
       /\ BestSlotIn(sbDisk') \in ValidIn(sbDisk')
       /\ base.gen <= Best'.gen
  BY <1>5, <1>14, <1>15, BestByName, BestIsLast
<1>17. Best' \in {base} \union Attempts /\ Best' \in Superblocks
  <2>1. CASE BestSlotIn(sbDisk') = s0
    BY <1>1, <1>14, <1>16, <2>1 DEF TypeOK
  <2>2. CASE BestSlotIn(sbDisk') = s1
    <3>1. Best' \in Slotted(s1)
      <4>1. Best' = sbDisk'[s1] /\ sbDisk'[s1] # NoSb
        BY <1>16, <2>2 DEF ValidIn
      <4> QED BY <1>3, <1>13, <4>1 DEF Slotted, Leaves
    <3>2. Best'.gen <= g + 1 /\ SlotFor(Best'.gen) = s1
      BY <1>1, <1>13, <3>1 DEF SlotInv
    <3>3. Best' \in Superblocks /\ Best'.gen \in Nat
      BY <1>1, <1>13, <3>1 DEF Slotted, TypeOK, Superblocks
    <3>4. Best'.gen # g
      BY <1>13, <3>2
    <3>5. Best'.gen = g + 1
      BY <1>13, <1>16, <3>2, <3>3, <3>4
    <3>6. Attempts = {sb \in Slotted(s1) : sb.gen = g + 1}
      BY <1>1, AttemptsUp
    <3> QED BY <3>1, <3>3, <3>5, <3>6
  <2> QED BY <1>13, <1>16, <2>1, <2>2 DEF ValidIn
<1>18. \A b \in BlocksIn(Best') : disk'[b] = disk[b] /\ (disk[b] \in Objects \/ b \in lost)
  <2> SUFFICES ASSUME NEW b \in BlocksIn(Best')
               PROVE  disk'[b] = disk[b] /\ (disk[b] \in Objects \/ b \in lost)
    OBVIOUS
  <2>1. Secured(b)
    BY <1>1, <1>17 DEF SecuredInv
  <2>2. b \in Data
    BY <1>17, BlocksInData
  <2>3. disk'[b] \in Leaves(disk[b], {}, Torn) /\ (disk[b] \in Objects \/ b \in lost)
    BY <1>2, <2>1, <2>2 DEF Secured
  <2> QED BY <2>3 DEF Leaves
<1>19. DownInv'
  <2>1. Valid' # {} /\ Best'.gen >= committed'
    <3>1. Best'.gen \in Nat /\ base.gen \in Nat /\ committed \in Nat /\ committed <= base.gen
      BY <1>1, <1>17 DEF SlotInv, TypeOK, Superblocks
    <3> QED BY <1>1, <1>15, <1>16, <3>1, BestByName
  <2>2. \A b \in BlocksIn(Best)' : disk'[b] \in Objects \/ b \in lost'
    BY <1>1, <1>18 DEF BlocksIn
  <2>3. /\ \A b \in Data : pend'[b] = {} /\ cache'[b] = NoEntry
        /\ \A s \in Slots : sbPend'[s] = {}
    BY <1>1
  <2> QED BY <1>1, <1>7, <2>1, <2>2, <2>3 DEF DownInv
<1> QED BY <1>6, <1>8, <1>9, <1>10, <1>12, <1>17, <1>18, <1>19 DEF NcfsInv

(* While the volume is down, nothing competes with the best superblock.    *)
LEMMA BestDown ==
  ASSUME NcfsInv, pc = "down"
  PROVE  /\ Best \in Superblocks /\ Sound(Best) /\ Best.gen \in Nat
         /\ SlotFor(Best.gen) \in Slots /\ sbDisk[SlotFor(Best.gen)] = Best
         /\ \A sb \in Slotted(SlotFor(Best.gen + 1)) : sb.gen <= Best.gen
         /\ Attempts = {}
<1>1. TypeOK /\ SlotInv /\ Valid # {} /\ \A s \in Slots : sbPend[s] = {}
  BY DEF NcfsInv, DownInv
<1> DEFINE s == BestSlotIn(sbDisk)
<1>2. /\ s \in ValidIn(sbDisk) /\ sbDisk[s] \in Superblocks /\ Best = sbDisk[s]
      /\ \A t \in ValidIn(sbDisk) : sbDisk[t].gen <= sbDisk[s].gen
  BY <1>1, BestByName, BestIsLast DEF TypeOK
<1> HIDE DEF s
<1>3. s \in Slots /\ Best \in Slotted(s)
  BY <1>2 DEF ValidIn, Slotted
<1>4. SlotFor(Best.gen) = s /\ Sound(Best)
  BY <1>1, <1>3 DEF SlotInv
<1>5. Best.gen \in Nat /\ SlotFor(Best.gen + 1) \in Slots
  BY <1>2, SlotFacts DEF Superblocks
<1>6. ASSUME NEW sb \in Slotted(SlotFor(Best.gen + 1)) PROVE sb.gen <= Best.gen /\ sb.gen \in Nat
  <2>1. sb = sbDisk[SlotFor(Best.gen + 1)] /\ sb # NoSb
    BY <1>1, <1>5 DEF Slotted
  <2>2. SlotFor(Best.gen + 1) \in ValidIn(sbDisk)
    BY <1>5, <2>1 DEF ValidIn
  <2> QED BY <1>1, <1>2, <1>5, <2>1, <2>2 DEF TypeOK, Superblocks
<1>7. Attempts = {sb \in Slotted(SlotFor(Best.gen + 1)) : sb.gen = Best.gen + 1}
  BY DEF Attempts, Standing, Slotted
<1>8. Attempts = {}
  BY <1>5, <1>6, <1>7
<1> QED BY <1>2, <1>3, <1>4, <1>5, <1>6, <1>8

LEMMA MountKeeps ==
  ASSUME NcfsInv, Mount
  PROVE  /\ NcfsInv' /\ Attempts' = {}
         /\ \A b \in BlocksIn(Best) : View(b)' = disk[b]
<1>1. /\ TypeOK /\ SlotInv /\ DownInv /\ pc = "down" /\ pc' = "idle"
      /\ base' = Best /\ tree' = Best.tree /\ snap' = Best.snap /\ refs' = Best.refs
      /\ freed' = [b \in Data |-> 0]
      /\ UNCHANGED <<disk, pend, dev, sbDisk, sbPend, sbDev, committed, cache, dirty, lost,
                     writes, failures>>
  BY DEF NcfsInv, Mount, blockVars, slotVars, cacheVars, bounds
<1>2. /\ Best \in Superblocks /\ Sound(Best) /\ Best.gen \in Nat
      /\ SlotFor(Best.gen) \in Slots /\ sbDisk[SlotFor(Best.gen)] = Best
      /\ \A sb \in Slotted(SlotFor(Best.gen + 1)) : sb.gen <= Best.gen
  BY <1>1, BestDown
<1>3. /\ dev = disk /\ dirty = {} /\ Best.gen >= committed
      /\ \A b \in Data : pend[b] = {} /\ cache[b] = NoEntry
      /\ \A s \in Slots : sbPend[s] = {}
      /\ \A b \in BlocksIn(Best) : disk[b] \in Objects \/ b \in lost
  BY <1>1 DEF DownInv
<1>4. TypeOK'
  BY <1>1, <1>2, NcfsAssumption DEF TypeOK, Superblocks
<1>5. /\ BlocksOf(tree)' = BlocksOf(Best.tree) /\ BlocksOf(snap)' = BlocksOf(Best.snap)
      /\ Held' = BlocksIn(Best) /\ BlocksIn(Best) \subseteq Data
  BY <1>1, <1>2, BlocksInData DEF Held, BlocksIn
<1>6. ASSUME NEW b \in Data
      PROVE  /\ refs'[b] >= One(b \in BlocksOf(tree)') + One(b \in BlocksOf(snap)')
             /\ freed'[b] = 0 /\ refs'[b] \in Nat
  BY <1>1, <1>2, <1>5 DEF Sound, Superblocks
<1>7. MapInv'
  <2>1. Distinct(tree)' /\ Distinct(snap)'
    BY <1>1, <1>2 DEF Sound, Distinct
  <2>2. \A b \in Data : refs'[b] >= Holders(b)' /\ freed'[b] = 0
    BY <1>6 DEF Holders, One
  <2> QED BY <2>1, <2>2 DEF MapInv
<1>8. \A b \in BlocksIn(Best) : View(b)' = disk[b]
  BY <1>1, <1>3, <1>5 DEF View
<1>9. CacheInv'
  <2>1. BlocksOf(snap)' \subseteq BlocksIn(Best)
    BY <1>5 DEF BlocksIn
  <2> QED BY <1>1, <1>3, <1>5, <1>8, <2>1 DEF CacheInv
<1>10. SlotInv'
  <2>1. SlotFor(Best.gen + 1) \in Slots
    BY <1>2, SlotFacts
  <2>2. \A sb \in Slotted(SlotFor(Best.gen + 1)) : sb.gen <= Best.gen + 1
    <3> SUFFICES ASSUME NEW sb \in Slotted(SlotFor(Best.gen + 1)) PROVE sb.gen <= Best.gen + 1
      OBVIOUS
    <3>1. sb.gen \in Nat
      BY <1>1, <2>1 DEF Slotted, TypeOK, Superblocks
    <3> QED BY <1>2, <3>1
  <2>3. committed <= Best.gen
    BY <1>1, <1>2, <1>3 DEF TypeOK
  <2>4. \A s : Slotted(s)' = Slotted(s)
    BY <1>1 DEF Slotted
  <2>5. SlotFor(base.gen)' = SlotFor(Best.gen) /\ SlotFor(base.gen + 1)' = SlotFor(Best.gen + 1)
    BY <1>1
  <2> QED BY <1>1, <1>2, <1>3, <2>1, <2>2, <2>3, <2>4, <2>5 DEF SlotInv
<1>11. Attempts' = {}
  <2>1. Attempts' = {sb \in Slotted(SlotFor(base.gen + 1))' : sb.gen = base'.gen + 1}
    BY <1>1 DEF Attempts, Standing, Slotted
  <2>2. Slotted(SlotFor(base.gen + 1))' = Slotted(SlotFor(Best.gen + 1))
    BY <1>1 DEF Slotted
  <2>3. \A sb \in Slotted(SlotFor(Best.gen + 1)) : sb.gen # Best.gen + 1
    BY <1>2
  <2> QED BY <1>1, <2>1, <2>2, <2>3
<1>12. SecuredInv'
  <2>1. ASSUME NEW b \in BlocksIn(Best) PROVE Secured(b)'
    <3>1. b \in Data /\ (b \in BlocksOf(tree)' \/ b \in BlocksOf(snap)')
      BY <1>5 DEF BlocksIn
    <3>2. refs'[b] > 0 /\ freed'[b] = 0
      BY <1>6, <3>1 DEF One
    <3> QED BY <1>1, <1>3, <3>1, <3>2 DEF Secured
  <2> QED BY <1>1, <1>11, <2>1 DEF SecuredInv
<1>13. DownInv'
  BY <1>1 DEF DownInv
<1> QED BY <1>4, <1>7, <1>8, <1>9, <1>10, <1>11, <1>12, <1>13 DEF NcfsInv

-----------------------------------------------------------------------------
LEMMA InitUnfolded ==
  ASSUME Init
  PROVE  /\ disk = [b \in Data |-> Torn] /\ dev = disk /\ pend = [b \in Data |-> {}]
         /\ sbDisk = [s \in Slots |-> IF s = SlotFor(1) THEN FormatSb ELSE NoSb]
         /\ sbDev = sbDisk /\ sbPend = [s \in Slots |-> {}] /\ committed = 1
         /\ cache = [b \in Data |-> NoEntry] /\ dirty = {} /\ lost = {}
         /\ base = FormatSb /\ tree = FormatSb.tree /\ snap = NoSnap
         /\ refs = FormatSb.refs /\ freed = [b \in Data |-> 0]
         /\ pc = "idle" /\ writes = 0 /\ failures = 0
BY FormatFacts DEF Init

LEMMA NcfsInitially == Init => NcfsInv /\ Attempts = {}
<1> SUFFICES ASSUME Init PROVE NcfsInv /\ Attempts = {}
  OBVIOUS
<1>1. /\ disk = [b \in Data |-> Torn] /\ dev = disk /\ pend = [b \in Data |-> {}]
      /\ sbDisk = [s \in Slots |-> IF s = SlotFor(1) THEN FormatSb ELSE NoSb]
      /\ sbDev = sbDisk /\ sbPend = [s \in Slots |-> {}] /\ committed = 1
      /\ cache = [b \in Data |-> NoEntry] /\ dirty = {} /\ lost = {}
      /\ base = FormatSb /\ tree = FormatSb.tree /\ snap = NoSnap
      /\ refs = FormatSb.refs /\ freed = [b \in Data |-> 0]
      /\ pc = "idle" /\ writes = 0 /\ failures = 0
  BY InitUnfolded
<1>2. TypeOK
  <2>1. refs \in [Data -> Nat] /\ base \in Superblocks /\ tree \in Trees
    BY <1>1, FormatFacts
  <2>2. /\ freed \in [Data -> 0 .. MaxGen] /\ committed \in 0 .. MaxGen
        /\ writes \in 0 .. MaxWrites /\ failures \in 0 .. MaxFailures
    BY <1>1, NcfsAssumption
  <2>3. /\ pend \in [Data -> SUBSET Cell] /\ sbPend \in [Slots -> SUBSET Superblocks]
        /\ cache \in [Data -> Entries \union {NoEntry}] /\ disk \in [Data -> Cell]
    BY <1>1 DEF Cell
  <2>4. sbDisk \in [Slots -> Superblocks \union {NoSb}]
    BY <1>1, FormatFacts
  <2> QED BY <1>1, <2>1, <2>2, <2>3, <2>4 DEF TypeOK
<1>3. Held = {} /\ BlocksOf(tree) = {} /\ BlocksOf(snap) = {}
  BY <1>1, FormatFacts DEF Held
<1>4. MapInv
  <2>1. Distinct(tree) /\ Distinct(snap)
    BY <1>1, FormatFacts DEF Distinct
  <2>2. \A b \in Data : refs[b] >= Holders(b) /\ (freed[b] # 0 => b \notin Held)
    BY <1>1, <1>3, FormatFacts DEF Holders, One
  <2> QED BY <2>1, <2>2 DEF MapInv
<1>5. CacheInv
  BY <1>1, <1>3 DEF CacheInv
<1>6. SlotFor(1) \in Slots /\ SlotFor(2) \in Slots /\ SlotFor(2) # SlotFor(1)
  BY SlotFacts, 1 + 1 = 2
<1>7. /\ base.gen = 1 /\ SlotFor(base.gen) = SlotFor(1) /\ SlotFor(base.gen + 1) = SlotFor(2)
  BY <1>1, FormatFacts, 1 + 1 = 2
<1>8. Slotted(SlotFor(2)) = {} /\ \A s \in Slots : \A sb \in Slotted(s) : sb = FormatSb /\ s = SlotFor(1)
  BY <1>1, <1>6 DEF Slotted
<1>9. SlotInv
  <2>1. \A s \in Slots : \A sb \in Slotted(s) : SlotFor(sb.gen) = s /\ Sound(sb)
    BY <1>8, FormatFacts
  <2>2. \A s \in Slots : sbDev[s] \in {sbDisk[s]} \union sbPend[s]
    BY <1>1
  <2>3. /\ committed <= base.gen /\ sbDisk[SlotFor(base.gen)] = base
        /\ sbPend[SlotFor(base.gen)] = {}
    BY <1>1, <1>6, <1>7
  <2>4. /\ \A sb \in sbPend[SlotFor(base.gen + 1)] : sb.gen = base.gen + 1
        /\ \A sb \in Slotted(SlotFor(base.gen + 1)) : sb.gen <= base.gen + 1
    BY <1>1, <1>6, <1>7, <1>8
  <2> QED BY <1>1, <2>1, <2>2, <2>3, <2>4 DEF SlotInv
<1>10. Attempts = {}
  BY <1>1, <1>2, <1>7, <1>8, AttemptsUp
<1>11. SecuredInv
  BY <1>1, <1>10, FormatFacts DEF SecuredInv, BlocksIn
<1>12. DownInv
  BY <1>1 DEF DownInv
<1> QED BY <1>2, <1>4, <1>5, <1>9, <1>10, <1>11, <1>12 DEF NcfsInv

LEMMA StutterKeeps == ASSUME NcfsInv, UNCHANGED vars PROVE NcfsInv'
<1>1. UNCHANGED <<disk, pend, dev, sbDisk, sbPend, sbDev, committed, cache, dirty, lost, refs, freed,
                  base, tree, snap, pc, writes, failures>>
  BY DEF vars, blockVars, slotVars, cacheVars, volVars, bounds
<1>2. TypeOK'
  BY <1>1 DEF NcfsInv, TypeOK
<1>3. MapInv' /\ CacheInv'
  BY <1>1 DEF NcfsInv, MapInv, CacheInv, Distinct, Holders, Held, View
<1>4. SlotInv'
  BY <1>1 DEF NcfsInv, SlotInv, Slotted, NextSb
<1>5. Valid' = Valid /\ Best' = Best
  BY <1>1, BestByName
<1>6. Attempts' = Attempts
  BY <1>1, <1>5 DEF Attempts, Standing
<1>7. SecuredInv'
  BY <1>1, <1>6 DEF NcfsInv, SecuredInv, Secured
<1>8. DownInv'
  BY <1>1, <1>5 DEF NcfsInv, DownInv, BlocksIn, Held
<1> QED BY <1>2, <1>3, <1>4, <1>7, <1>8 DEF NcfsInv

LEMMA NcfsStep == NcfsInv /\ [Next]_vars => NcfsInv'
<1> SUFFICES ASSUME NcfsInv, [Next]_vars PROVE NcfsInv'
  OBVIOUS
<1>1. CASE \E i \in Inodes : CacheRead(i) \/ RemoveObject(i)
  BY <1>1, CacheReadKeeps, RemoveObjectKeeps
<1>2. CASE \E i \in Inodes, d \in Objects : WriteObject(i, d)
  BY <1>2, WriteObjectKeeps
<1>3. CASE \E b \in Data : Reuse(b) \/ Trim(b)
  BY <1>3, ReuseKeeps, TrimKeeps
<1>4. CASE TakeSnapshot \/ DeleteSnapshot \/ CloneFrom
  BY <1>4, TakeSnapshotKeeps, DeleteSnapshotKeeps, CloneFromKeeps
<1>5. CASE CommandFails
  BY <1>5, CommandFailsKeeps
<1>6. CASE WriteBack
  BY <1>6, WriteBackKeeps
<1>7. CASE Barrier \/ FlushSlot
  BY <1>7, FlushKeeps
<1>8. CASE WriteSlot
  BY <1>8, WriteSlotKeeps
<1>9. CASE CommitRoot
  BY <1>9, CommitRootKeeps
<1>10. CASE Crash
  BY <1>10, CrashKeeps
<1>11. CASE Mount
  BY <1>11, MountKeeps
<1>12. CASE UNCHANGED vars
  BY <1>12, StutterKeeps
<1>13. CASE (\E i \in Inodes : ReadRefused(i)) \/ (\E d \in Objects : WriteRefused(d))
  BY <1>13, RefusedOperations
<1> QED BY <1>1, <1>2, <1>3, <1>4, <1>5, <1>6, <1>7, <1>8, <1>9, <1>10, <1>11, <1>12, <1>13 DEF Next

LEMMA NcfsInvariant == Spec => []NcfsInv
<1>1. Init => NcfsInv
  BY NcfsInitially
<1> QED BY <1>1, NcfsStep, PTL DEF Spec

-----------------------------------------------------------------------------
(* The storage core's state is well typed: counts stay natural numbers     *)
(* under every decref, and the slots hold superblocks or nothing.          *)
THEOREM TypeCorrect == Spec => []TypeOK
<1>1. NcfsInv => TypeOK
  BY DEF NcfsInv
<1> QED BY <1>1, NcfsInvariant, PTL

(* superblock::mount after a power failure at any moment finds a slot that *)
(* authenticates, at the last acknowledged generation or above, whose      *)
(* blocks are all counted and all hold objects, but for those that a       *)
(* refused eviction lost before they were committed.                       *)
THEOREM MountAlwaysRecovers == Spec => []MountRecovers
<1>1. ASSUME NcfsInv PROVE MountRecovers
  <2> SUFFICES ASSUME pc = "down"
               PROVE  /\ Valid # {} /\ Best.gen >= committed
                      /\ \A b \in BlocksIn(Best) :
                           (disk[b] \in Objects \/ b \in lost) /\ Best.refs[b] > 0
    BY DEF MountRecovers, MountFindsAcknowledged, MountedIsIntact, BlocksIn
  <2>1. /\ Valid # {} /\ Best.gen >= committed
        /\ \A b \in BlocksIn(Best) : disk[b] \in Objects \/ b \in lost
    BY <1>1 DEF NcfsInv, DownInv
  <2>2. Best \in Superblocks /\ Sound(Best)
    BY <1>1, BestDown
  <2>3. ASSUME NEW b \in BlocksIn(Best) PROVE Best.refs[b] > 0
    <3>1. b \in Data /\ Best.refs[b] \in Nat
      BY <2>2, BlocksInData DEF Superblocks
    <3> QED BY <2>2, <3>1 DEF Sound, BlocksIn, One
  <2> QED BY <2>1, <2>3
<1> QED BY <1>1, NcfsInvariant, PTL

(* No block is counted lower than the open tree, the snapshot and the      *)
(* retention tracker hold it: AllocMap::alloc never gives a used one away. *)
THEOREM CountsCover == Spec => []CountsCoverHolders
<1>1. NcfsInv => CountsCoverHolders
  BY DEF NcfsInv, MapInv, CountsCoverHolders
<1> QED BY <1>1, NcfsInvariant, PTL

(* Whatever the cache evicts and writes back, and whatever a TRIM or a     *)
(* power failure destroys, every object of the open tree and of the        *)
(* snapshot reads back, but for those whose eviction the device refused.   *)
THEOREM BufferedWritesKept == Spec => []NoBufferedWriteLost
<1>1. NcfsInv => NoBufferedWriteLost
  BY DEF NcfsInv, CacheInv, NoBufferedWriteLost, Held
<1> QED BY <1>1, NcfsInvariant, PTL

-----------------------------------------------------------------------------
(* The refinement: what a client of the volume can tell apart.             *)
LEMMA SameImage ==
  ASSUME NEW t \in Trees, NEW d, NEW e, \A b \in BlocksOf(t) : d[b] = e[b]
  PROVE  Image(t, d) = Image(t, e)
<1>1. \A i \in Inodes : t[i] # NoBlock => d[t[i]] = e[t[i]]
  BY TreeBlocks
<1> QED BY <1>1 DEF Image

LEMMA SameContents ==
  ASSUME NEW t \in Trees, NEW s \in Trees \union {NoSnap}, NEW d, NEW e,
         \A b \in BlocksOf(t) \union BlocksOf(s) : d[b] = e[b]
  PROVE  ContentsOf(t, s, d) = ContentsOf(t, s, e)
<1>1. Image(t, d) = Image(t, e)
  BY SameImage
<1>2. s # NoSnap => Image(s, d) = Image(s, e)
  BY SameImage
<1> QED BY <1>1, <1>2 DEF ContentsOf

LEMMA UpContents ==
  /\ pc # "down" =>
       /\ stableContents = ContentsOf(base.tree, base.snap, Shown)
       /\ openContents = ContentsOf(tree, snap, Viewed)
  /\ pc' # "down" =>
       /\ stableContents' = ContentsOf(base'.tree, base'.snap, Shown')
       /\ openContents' = ContentsOf(tree', snap', Viewed')
  /\ triedContents = {ContentsOf(sb.tree, sb.snap, Shown) : sb \in Attempts}
  /\ triedContents' = {ContentsOf(sb.tree, sb.snap, Shown') : sb \in Attempts'}
BY DEF stableContents, openContents, triedContents, Recovered, Standing

(* Steps that leave every block a mount may need as it is.                 *)
LEMMA StableKept ==
  ASSUME NcfsInv, pc # "down", pc' # "down", base' = base,
         \A b \in Data : Secured(b) => Shown'[b] = Shown[b]
  PROVE  /\ stableContents' = stableContents
         /\ \A sb \in Attempts :
              ContentsOf(sb.tree, sb.snap, Shown') = ContentsOf(sb.tree, sb.snap, Shown)
<1>1. TypeOK /\ SecuredInv
  BY DEF NcfsInv
<1>2. ASSUME NEW sb \in {base} \union Attempts
      PROVE  ContentsOf(sb.tree, sb.snap, Shown') = ContentsOf(sb.tree, sb.snap, Shown)
  <2>1. sb \in Superblocks
    BY <1>1, AttemptsUp DEF TypeOK
  <2>2. sb.tree \in Trees /\ sb.snap \in Trees \union {NoSnap}
    BY <2>1 DEF Superblocks
  <2>3. \A b \in BlocksOf(sb.tree) \union BlocksOf(sb.snap) : Shown'[b] = Shown[b]
    BY <1>1, <2>1, BlocksInData DEF SecuredInv, BlocksIn
  <2> QED BY <2>2, <2>3, SameContents
<1>3. ContentsOf(base.tree, base.snap, Shown') = ContentsOf(base.tree, base.snap, Shown)
  BY <1>2
<1> QED BY <1>2, <1>3, UpContents

LEMMA TriedKept ==
  ASSUME NcfsInv, pc # "down", pc' # "down", base' = base, Attempts' = Attempts,
         \A b \in Data : Secured(b) => Shown'[b] = Shown[b]
  PROVE  stableContents' = stableContents /\ triedContents' = triedContents
<1>1. \A sb \in Attempts :
        ContentsOf(sb.tree, sb.snap, Shown') = ContentsOf(sb.tree, sb.snap, Shown)
  BY StableKept
<1> QED BY <1>1, StableKept, UpContents

LEMMA SameShown == ASSUME UNCHANGED <<disk, lost>> PROVE Shown' = Shown
BY DEF Shown

LEMMA OpenKept ==
  ASSUME TypeOK, pc # "down", pc' # "down", tree' = tree, snap' = snap,
         \A b \in Held : Viewed'[b] = Viewed[b]
  PROVE  openContents' = openContents
<1>1. tree \in Trees /\ snap \in Trees \union {NoSnap}
  BY DEF TypeOK
<1>2. ContentsOf(tree, snap, Viewed') = ContentsOf(tree, snap, Viewed)
  BY <1>1, SameContents DEF Held
<1> QED BY <1>2, UpContents

LEMMA HeldViewed ==
  ASSUME TypeOK, lost' = lost, \A b \in Held : View(b)' = View(b)
  PROVE  \A b \in Held : Viewed'[b] = Viewed[b]
<1>1. Held \subseteq Data
  BY SnapBlocks DEF Held, TypeOK
<1> QED BY <1>1 DEF Viewed

(* A step of the abstract volume, or one it does not see.                  *)
VolumeStep == Volume!Next \/ UNCHANGED <<stableContents, openContents, triedContents>>

LEMMA IdleAttempts ==
  ASSUME pc # "down", pc' # "down", UNCHANGED <<slotVars, base>>
  PROVE  Attempts' = Attempts
BY DEF Attempts, Standing, slotVars

LEMMA InvisibleSteps ==
  ASSUME NcfsInv,
         \/ \E i \in Inodes : CacheRead(i)
         \/ \E b \in Data : Reuse(b) \/ Trim(b)
         \/ CommandFails \/ WriteBack
  PROVE  UNCHANGED <<stableContents, openContents, triedContents>>
<1>1. /\ TypeOK /\ pc # "down" /\ pc' # "down"
      /\ UNCHANGED <<disk, lost, slotVars, base, tree, snap>>
  BY DEF NcfsInv, CacheRead, ReadMisses, Reuse, Trim, CommandFails, WriteBack, volVars,
         blockVars, cacheVars
<1>2. stableContents' = stableContents /\ triedContents' = triedContents
  BY <1>1, IdleAttempts, SameShown, TriedKept
<1>3. \A x \in Held : View(x)' = View(x)
  <2>1. CASE \E i \in Inodes : CacheRead(i)
    BY <2>1, CacheReadKeeps
  <2>2. CASE WriteBack
    BY <2>2, WriteBackKeeps
  <2>3. CASE CommandFails
    BY <2>3 DEF CommandFails, blockVars, cacheVars, View
  <2>4. ASSUME NEW b \in Data, Reuse(b) \/ Trim(b) PROVE \A x \in Held : View(x)' = View(x)
    <3>1. b \notin Held
      BY <2>4 DEF NcfsInv, MapInv, Reuse, Trim, IsReusable, IsTrimmable
    <3>2. cache' = cache /\ (dev' = dev \/ dev' = [dev EXCEPT ![b] = Torn])
      BY <2>4 DEF Reuse, Trim, DevWrite, blockVars, cacheVars
    <3>3. Held \subseteq Data /\ dev \in [Data -> Cell]
      BY <1>1, SnapBlocks DEF Held, TypeOK
    <3>4. \A x \in Held : dev'[x] = dev[x]
      BY <3>1, <3>2, <3>3
    <3> QED BY <3>2, <3>4 DEF View
  <2> QED BY <2>1, <2>2, <2>3, <2>4
<1>4. openContents' = openContents
  BY <1>1, <1>3, HeldViewed, OpenKept
<1> QED BY <1>2, <1>4

LEMMA FlushIsNarrow == ASSUME NcfsInv, Barrier \/ FlushSlot PROVE Volume!Narrow
<1>1. /\ TypeOK /\ pc # "down" /\ pc' # "down"
      /\ UNCHANGED <<cache, lost, dev, base, tree, snap>>
  BY DEF NcfsInv, Barrier, FlushSlot, Flush, cacheVars, volVars
<1>2. Attempts' \subseteq Attempts /\ \A b \in Data : Secured(b) => Shown'[b] = Shown[b]
  BY <1>1, FlushKeeps DEF Shown
<1>3. /\ stableContents' = stableContents
      /\ \A sb \in Attempts :
           ContentsOf(sb.tree, sb.snap, Shown') = ContentsOf(sb.tree, sb.snap, Shown)
  BY <1>1, <1>2, StableKept
<1>4. triedContents' \subseteq triedContents
  BY <1>2, <1>3, UpContents
<1>5. openContents' = openContents
  BY <1>1, OpenKept DEF Viewed, View
<1> QED BY <1>3, <1>4, <1>5 DEF Volume!Narrow

(* Past the barrier the medium holds the open image.                       *)
LEMMA OpenOnDisk ==
  ASSUME NcfsInv, pc \in {"slot", "slotflush", "root"}
  PROVE  ContentsOf(tree, snap, Shown) = openContents
<1>1. \A b \in Held : b \in Data /\ View(b) = disk[b]
  BY PastBarrier
<1>2. \A b \in Held : Viewed[b] = Shown[b]
  BY <1>1 DEF Viewed, Shown
<1>3. tree \in Trees /\ snap \in Trees \union {NoSnap}
  BY DEF NcfsInv, TypeOK
<1>4. ContentsOf(tree, snap, Shown) = ContentsOf(tree, snap, Viewed)
  BY <1>2, <1>3, SameContents DEF Held
<1> QED BY <1>4, UpContents

LEMMA WriteSlotIsAttempt == ASSUME NcfsInv, WriteSlot PROVE Volume!Attempt
<1>1. /\ TypeOK /\ pc = "slot" /\ pc' = "slotflush"
      /\ UNCHANGED <<disk, cache, lost, dev, base, tree, snap>>
  BY DEF NcfsInv, WriteSlot, blockVars, cacheVars, volVars
<1>2. Attempts' = Attempts \union {NextSb}
  BY WriteSlotKeeps
<1>0. Shown' = Shown /\ Viewed' = Viewed
  BY <1>1 DEF Shown, Viewed, View
<1>3. stableContents' = stableContents /\ openContents' = openContents
  BY <1>0, <1>1, StableKept, OpenKept
<1>4. NextSb.tree = tree /\ NextSb.snap = snap
  BY DEF NextSb
<1>5. ContentsOf(tree, snap, Shown) = openContents
  BY <1>1, OpenOnDisk
<1>6. triedContents' = triedContents \union {openContents}
  BY <1>0, <1>2, <1>4, <1>5, UpContents
<1> QED BY <1>3, <1>6 DEF Volume!Attempt

LEMMA CommitRootIsAcknowledge == ASSUME NcfsInv, CommitRoot PROVE Volume!Acknowledge
<1>1. /\ TypeOK /\ pc = "root" /\ pc' = "idle" /\ base' = NextSb
      /\ UNCHANGED <<disk, cache, lost, dev, tree, snap>>
  BY DEF NcfsInv, CommitRoot, blockVars, cacheVars, volVars
<1>0. Shown' = Shown /\ Viewed' = Viewed
  BY <1>1 DEF Shown, Viewed, View
<1>2. NextSb \in Attempts /\ Attempts' = {}
  BY CommitRootKeeps
<1>3. openContents' = openContents
  BY <1>0, <1>1, OpenKept
<1>4. NextSb.tree = tree /\ NextSb.snap = snap
  BY DEF NextSb
<1>5. ContentsOf(tree, snap, Shown) = openContents
  BY <1>1, OpenOnDisk
<1>6. openContents \in triedContents /\ triedContents' = {}
  BY <1>2, <1>4, <1>5, UpContents
<1>7. stableContents' = openContents
  BY <1>0, <1>1, <1>4, <1>5, UpContents
<1> QED BY <1>3, <1>6, <1>7 DEF Volume!Acknowledge

LEMMA NoAttemptsDown == NcfsInv /\ pc = "down" => Attempts = {}
BY BestDown

LEMMA NoAttemptsNext == (NcfsInv /\ pc = "down" => Attempts = {})'
BY NoAttemptsDown, PTL

LEMMA CrashIsCrash == ASSUME NcfsInv, Crash PROVE Volume!Crash
<1>1. TypeOK /\ pc # "down" /\ pc' = "down" /\ lost' = lost
  BY DEF NcfsInv, Crash
<1>2. /\ Best' \in {base} \union Attempts
      /\ \A b \in BlocksIn(Best') : disk'[b] = disk[b]
  BY CrashKeeps
<1>3. Best' \in Superblocks
  BY <1>1, <1>2, AttemptsUp DEF TypeOK
<1>4. Best'.tree \in Trees /\ Best'.snap \in Trees \union {NoSnap}
  BY <1>3 DEF Superblocks
<1>0. \A b \in BlocksIn(Best') : Shown'[b] = Shown[b]
  BY <1>1, <1>2, <1>3, BlocksInData DEF Shown
<1>5. ContentsOf(Best'.tree, Best'.snap, Shown') = ContentsOf(Best'.tree, Best'.snap, Shown)
  BY <1>0, <1>4, SameContents DEF BlocksIn
<1>6. stableContents' = ContentsOf(Best'.tree, Best'.snap, Shown') /\ openContents' = stableContents'
  BY <1>1 DEF stableContents, openContents, Recovered, Standing
<1>7. stableContents' \in {stableContents} \union triedContents
  BY <1>1, <1>2, <1>5, <1>6, UpContents
<1>8. Attempts' = {}
  <2>1. NcfsInv' /\ pc' = "down"
    BY <1>1, CrashKeeps
  <2> QED BY <2>1, NoAttemptsNext
<1>9. triedContents' = {}
  BY <1>8, UpContents
<1> QED BY <1>6, <1>7, <1>9 DEF Volume!Crash

(* A mount brings back what the power failure left: nothing changes.       *)
LEMMA MountIsInvisible ==
  ASSUME NcfsInv, Mount PROVE UNCHANGED <<stableContents, openContents, triedContents>>
<1>1. /\ TypeOK /\ pc = "down" /\ pc' = "idle" /\ base' = Best /\ tree' = Best.tree
      /\ snap' = Best.snap /\ disk' = disk /\ lost' = lost /\ Shown' = Shown
  BY DEF NcfsInv, Mount, blockVars, cacheVars, Shown
<1>2. stableContents = ContentsOf(Best.tree, Best.snap, Shown) /\ openContents = stableContents
  BY <1>1 DEF stableContents, openContents, Recovered, Standing
<1>3. stableContents' = ContentsOf(Best.tree, Best.snap, Shown)
      /\ openContents' = ContentsOf(Best.tree, Best.snap, Viewed')
  BY <1>1, UpContents
<1>4. Best \in Superblocks
  BY <1>1, BestDown
<1>5. Best.tree \in Trees /\ Best.snap \in Trees \union {NoSnap}
  BY <1>4 DEF Superblocks
<1>6. \A b \in BlocksIn(Best) : Viewed'[b] = Shown[b]
  BY <1>1, <1>4, BlocksInData, MountKeeps DEF Viewed, Shown
<1>7. ContentsOf(Best.tree, Best.snap, Viewed') = ContentsOf(Best.tree, Best.snap, Shown)
  BY <1>5, <1>6, SameContents DEF BlocksIn
<1>8. Attempts = {} /\ Attempts' = {}
  BY <1>1, NoAttemptsDown, MountKeeps
<1>9. triedContents' = triedContents
  BY <1>8, UpContents
<1> QED BY <1>2, <1>3, <1>7, <1>9

(* The operations of the file system change the open image and no other.   *)
LEMMA WriteObjectIsChange ==
  ASSUME NcfsInv, NEW i \in Inodes, NEW d \in Objects, WriteObject(i, d) PROVE Volume!Change
<1>1. /\ TypeOK /\ MapInv /\ pc = "idle" /\ pc' = "idle" /\ UNCHANGED <<disk, slotVars, base, snap>>
  BY DEF NcfsInv, WriteObject
<1>3. PICK b \in Data : /\ tree' = WithInserted(tree, i, b) /\ b \notin Held /\ View(b)' = d
                        /\ lost' = lost \ {b} /\ ~ Secured(b)
                        /\ \A x \in Held : View(x)' = View(x)
  BY WriteObjectKeeps
<1>0. \A x \in Data : Secured(x) => Shown'[x] = Shown[x]
  BY <1>1, <1>3 DEF Shown
<1>2. stableContents' = stableContents /\ triedContents' = triedContents
  BY <1>0, <1>1, IdleAttempts, TriedKept
<1>4. /\ tree \in Trees /\ snap \in Trees \union {NoSnap} /\ Held \subseteq Data
      /\ Distinct(tree) /\ b \notin BlocksOf(tree)
  BY <1>1, <1>3, SnapBlocks DEF TypeOK, Held, MapInv
<1>5. /\ tree' \in Trees
  BY <1>3, <1>4, InsertedBlocks
<1>6. Viewed'[b] = d /\ \A x \in Held : Viewed'[x] = Viewed[x]
  BY <1>3, <1>4 DEF Viewed
<1>7. tree'[i] = b /\ b # NoBlock /\ \A j \in Inodes : j # i => tree'[j] = tree[j]
  BY <1>3, <1>4, DataFacts DEF WithInserted, Trees
<1>8. Image(tree', Viewed') = [Image(tree, Viewed) EXCEPT ![i] = d]
  <2>1. ASSUME NEW j \in Inodes, j # i
        PROVE  (IF tree'[j] = NoBlock THEN Absent ELSE Viewed'[tree'[j]])
                 = (IF tree[j] = NoBlock THEN Absent ELSE Viewed[tree[j]])
    <3>1. tree[j] # NoBlock => tree[j] \in Held
      BY <1>4, TreeBlocks DEF Held
    <3> QED BY <1>6, <1>7, <2>1, <3>1
  <2> QED BY <1>6, <1>7, <2>1 DEF Image
<1>9. snap # NoSnap => Image(snap, Viewed') = Image(snap, Viewed)
  BY <1>4, <1>6, SameImage DEF Held
<1>10. ContentsOf(tree', snap, Viewed') = [ContentsOf(tree, snap, Viewed) EXCEPT !.live[i] = d]
  <2>1. ContentsOf(tree, snap, Viewed).live = Image(tree, Viewed)
    BY DEF ContentsOf
  <2> QED BY <1>8, <1>9, <2>1 DEF ContentsOf
<1>11. openContents' = [openContents EXCEPT !.live[i] = d]
  BY <1>1, <1>10, UpContents
<1> QED BY <1>2, <1>11 DEF Volume!Change

LEMMA RemoveObjectIsChange ==
  ASSUME NcfsInv, NEW i \in Inodes, RemoveObject(i) PROVE Volume!Change
<1>1. /\ TypeOK /\ pc = "idle" /\ pc' = "idle" /\ tree' = WithRemoved(tree, i)
      /\ UNCHANGED <<disk, lost, dev, cache, slotVars, base, snap>>
  BY DEF NcfsInv, RemoveObject, blockVars, cacheVars
<1>2. stableContents' = stableContents /\ triedContents' = triedContents
  BY <1>1, IdleAttempts, SameShown, TriedKept
<1>3. tree \in Trees /\ snap \in Trees \union {NoSnap}
  BY <1>1 DEF TypeOK
<1>4. /\ tree' \in Trees /\ tree'[i] = NoBlock /\ \A j \in Inodes : j # i => tree'[j] = tree[j]
  BY <1>1, <1>3 DEF WithRemoved, Trees
<1>5. Viewed' = Viewed
  BY <1>1 DEF Viewed, View
<1>6. Image(tree', Viewed') = [Image(tree, Viewed) EXCEPT ![i] = Absent]
  BY <1>4, <1>5 DEF Image
<1>7. ContentsOf(tree', snap, Viewed') = [ContentsOf(tree, snap, Viewed) EXCEPT !.live[i] = Absent]
  <2>1. ContentsOf(tree, snap, Viewed).live = Image(tree, Viewed)
    BY DEF ContentsOf
  <2> QED BY <1>5, <1>6, <2>1 DEF ContentsOf
<1>8. openContents' = [openContents EXCEPT !.live[i] = Absent]
  BY <1>1, <1>7, UpContents
<1> QED BY <1>2, <1>8 DEF Volume!Change

(* A refused eviction makes a hole in the open image, or is not seen.      *)
LEMMA RefusedIsLose ==
  ASSUME NcfsInv, \/ \E i \in Inodes : ReadRefused(i)
                  \/ \E d \in Objects : WriteRefused(d)
  PROVE  VolumeStep
<1>1. /\ TypeOK /\ MapInv /\ pc = "idle" /\ UNCHANGED <<disk, slotVars, base, tree, snap, pc>>
  BY RefusedOperations DEF NcfsInv, volVars
<1>2. PICK v \in Data : /\ lost' = lost \union {v} /\ v \notin BlocksOf(snap) /\ ~ Secured(v)
                        /\ \A x \in Held : x # v => View(x)' = View(x)
  BY RefusedOperations
<1>3. \A x \in Data : Secured(x) => Shown'[x] = Shown[x]
  BY <1>1, <1>2 DEF Shown
<1>4. stableContents' = stableContents /\ triedContents' = triedContents
  BY <1>1, <1>3, IdleAttempts, TriedKept
<1>5. /\ tree \in Trees /\ snap \in Trees \union {NoSnap} /\ Held \subseteq Data /\ Distinct(tree)
  BY <1>1, SnapBlocks DEF TypeOK, Held, MapInv
<1>6. Viewed'[v] = Hole /\ \A x \in Held : x # v => Viewed'[x] = Viewed[x]
  BY <1>2, <1>5 DEF Viewed
<1>7. CASE v \notin BlocksOf(tree)
  <2>1. \A x \in Held : Viewed'[x] = Viewed[x]
    BY <1>2, <1>6, <1>7 DEF Held
  <2>2. openContents' = openContents
    BY <1>1, <2>1, OpenKept
  <2> QED BY <1>4, <2>2 DEF VolumeStep
<1>8. CASE v \in BlocksOf(tree)
  <2>1. PICK i \in Inodes : tree[i] = v
    BY <1>5, <1>8, TreeBlocks
  <2>2. v # NoBlock /\ \A j \in Inodes : j # i => tree[j] # v
    BY <1>5, <2>1, DataFacts, TreeBlocks DEF Distinct
  <2>3. Image(tree, Viewed') = [Image(tree, Viewed) EXCEPT ![i] = Hole]
    <3>1. ASSUME NEW j \in Inodes, j # i
          PROVE  (IF tree[j] = NoBlock THEN Absent ELSE Viewed'[tree[j]])
                   = (IF tree[j] = NoBlock THEN Absent ELSE Viewed[tree[j]])
      <4>1. tree[j] # NoBlock => tree[j] \in Held
        BY <1>5, TreeBlocks DEF Held
      <4> QED BY <1>6, <2>2, <3>1, <4>1
    <3> QED BY <1>6, <2>1, <2>2, <3>1 DEF Image
  <2>4. snap # NoSnap => Image(snap, Viewed') = Image(snap, Viewed)
    BY <1>2, <1>5, <1>6, SameImage DEF Held
  <2>5. ContentsOf(tree, snap, Viewed') = [ContentsOf(tree, snap, Viewed) EXCEPT !.live[i] = Hole]
    <3>1. ContentsOf(tree, snap, Viewed).live = Image(tree, Viewed)
      BY DEF ContentsOf
    <3> QED BY <2>3, <2>4, <3>1 DEF ContentsOf
  <2>6. openContents' = [openContents EXCEPT !.live[i] = Hole]
    BY <1>1, <2>5, UpContents
  <2> QED BY <1>4, <2>6 DEF VolumeStep, Volume!Next, Volume!Lose
<1> QED BY <1>7, <1>8

LEMMA SnapshotSteps ==
  ASSUME NcfsInv, TakeSnapshot \/ DeleteSnapshot \/ CloneFrom PROVE Volume!Next
<1>1. /\ TypeOK /\ CacheInv /\ pc = "idle" /\ pc' = "idle"
      /\ UNCHANGED <<disk, lost, dev, cache, slotVars, base>>
  BY DEF NcfsInv, TakeSnapshot, DeleteSnapshot, CloneFrom, blockVars, cacheVars
<1>2. stableContents' = stableContents /\ triedContents' = triedContents
  BY <1>1, IdleAttempts, SameShown, TriedKept
<1>3. Viewed' = Viewed
  BY <1>1 DEF Viewed, View
<1>4. /\ openContents = ContentsOf(tree, snap, Viewed)
      /\ openContents' = ContentsOf(tree', snap', Viewed)
      /\ stableContents = ContentsOf(base.tree, base.snap, Shown)
  BY <1>1, <1>3, UpContents
<1>5. CASE TakeSnapshot
  <2>1. tree' = tree /\ snap' = base.tree /\ base.tree \in Trees
    BY <1>1, <1>5, BaseFacts DEF TakeSnapshot
  <2>2. Image(base.tree, Viewed) = Image(base.tree, Shown)
    <3>1. ASSUME NEW b \in BlocksOf(base.tree) PROVE Viewed[b] = Shown[b]
      <4>1. b \in Data /\ b \in BlocksIn(base)
        BY <2>1, TreeBlocks DEF BlocksIn
      <4>2. Secured(b)
        BY <1>1, <4>1 DEF NcfsInv, SecuredInv
      <4>3. View(b) = disk[b]
        BY <4>2 DEF Secured, View
      <4> QED BY <4>1, <4>3 DEF Viewed, Shown
    <3> QED BY <2>1, <3>1, SameImage
  <2>3. base.tree # NoSnap
    BY <2>1, TreeBlocks
  <2>4. stableContents.live = Image(base.tree, Shown)
    BY <1>4 DEF ContentsOf
  <2>5. openContents' = [openContents EXCEPT !.snap = stableContents.live]
    BY <1>4, <2>1, <2>2, <2>3, <2>4 DEF ContentsOf
  <2> QED BY <1>2, <2>5 DEF Volume!Next, Volume!Retain
<1>6. CASE DeleteSnapshot
  <2>1. tree' = tree /\ snap' = NoSnap
    BY <1>6 DEF DeleteSnapshot
  <2>2. openContents' = [openContents EXCEPT !.snap = NoSnap]
    BY <1>4, <2>1 DEF ContentsOf
  <2> QED BY <1>2, <2>2 DEF Volume!Next, Volume!DropSnap
<1>7. CASE CloneFrom
  <2>1. tree' = snap /\ snap' = snap /\ snap # NoSnap /\ snap \in Trees
    BY <1>1, <1>7 DEF CloneFrom, TypeOK
  <2>2. openContents.snap = Image(snap, Viewed)
    BY <1>4, <2>1 DEF ContentsOf
  <2>3. Image(snap, Viewed) \in [Inodes -> Objects \union {Absent, Hole}]
    <3>1. ASSUME NEW j \in Inodes, snap[j] # NoBlock PROVE Viewed[snap[j]] \in Objects \union {Hole}
      <4>1. snap[j] \in Held /\ snap[j] \in Data
        BY <2>1, <3>1, TreeBlocks DEF Held
      <4> QED BY <1>1, <4>1 DEF CacheInv, Viewed
    <3> QED BY <3>1 DEF Image
  <2>4. openContents.snap # NoSnap
    BY <2>2, <2>3, NcfsAssumption
  <2>5. openContents' = [openContents EXCEPT !.live = openContents.snap]
    BY <1>4, <2>1, <2>2 DEF ContentsOf
  <2> QED BY <1>2, <2>4, <2>5 DEF Volume!Next, Volume!Restore
<1> QED BY <1>5, <1>6, <1>7

LEMMA StutterIsInvisible ==
  ASSUME UNCHANGED vars PROVE UNCHANGED <<stableContents, openContents, triedContents>>
<1>1. UNCHANGED <<disk, pend, dev, sbDisk, sbPend, sbDev, committed, cache, dirty, lost, refs, freed,
                  base, tree, snap, pc, writes, failures>>
  BY DEF vars, blockVars, slotVars, cacheVars, volVars, bounds
<1>2. Best' = Best
  BY <1>1, BestByName
<1>3. Standing' = Standing /\ Viewed' = Viewed /\ Shown' = Shown
  BY <1>1, <1>2 DEF Standing, Viewed, View, Shown
<1>4. Attempts' = Attempts
  BY <1>1, <1>3 DEF Attempts
<1> QED BY <1>1, <1>3, <1>4
           DEF stableContents, openContents, triedContents, Recovered

LEMMA VolumeInit == Init => Volume!Init
<1> SUFFICES ASSUME Init PROVE Volume!Init
  OBVIOUS
<1>1. /\ pc = "idle" /\ base = FormatSb /\ tree = FormatSb.tree /\ snap = NoSnap
  BY InitUnfolded
<1>2. Attempts = {}
  BY NcfsInitially
<1>3. FormatSb.tree = [i \in Inodes |-> NoBlock] /\ FormatSb.snap = NoSnap
  BY DEF FormatSb
<1>4. \A d : ContentsOf(FormatSb.tree, NoSnap, d) = [live |-> [i \in Inodes |-> Absent], snap |-> NoSnap]
  BY <1>3 DEF ContentsOf, Image
<1>5. /\ stableContents = [live |-> [i \in Inodes |-> Absent], snap |-> NoSnap]
      /\ openContents = stableContents /\ triedContents = {}
  BY <1>1, <1>2, <1>3, <1>4, UpContents
<1> QED BY <1>5 DEF Volume!Init

LEMMA EveryStepIsVolumeStep == NcfsInv /\ [Next]_vars => VolumeStep
<1> SUFFICES ASSUME NcfsInv, [Next]_vars PROVE VolumeStep
  OBVIOUS
<1>1. CASE \/ \E i \in Inodes : CacheRead(i)
           \/ \E b \in Data : Reuse(b) \/ Trim(b)
           \/ CommandFails \/ WriteBack
  BY <1>1, InvisibleSteps DEF VolumeStep
<1>2. CASE \E i \in Inodes : RemoveObject(i)
  BY <1>2, RemoveObjectIsChange DEF VolumeStep, Volume!Next
<1>3. CASE \E i \in Inodes, d \in Objects : WriteObject(i, d)
  BY <1>3, WriteObjectIsChange DEF VolumeStep, Volume!Next
<1>4. CASE TakeSnapshot \/ DeleteSnapshot \/ CloneFrom
  BY <1>4, SnapshotSteps DEF VolumeStep
<1>5. CASE Barrier \/ FlushSlot
  BY <1>5, FlushIsNarrow DEF VolumeStep, Volume!Next
<1>6. CASE WriteSlot
  BY <1>6, WriteSlotIsAttempt DEF VolumeStep, Volume!Next
<1>7. CASE CommitRoot
  BY <1>7, CommitRootIsAcknowledge DEF VolumeStep, Volume!Next
<1>8. CASE Crash
  BY <1>8, CrashIsCrash DEF VolumeStep, Volume!Next
<1>9. CASE Mount
  BY <1>9, MountIsInvisible DEF VolumeStep
<1>10. CASE UNCHANGED vars
  BY <1>10, StutterIsInvisible DEF VolumeStep
<1>11. CASE (\E i \in Inodes : ReadRefused(i)) \/ (\E d \in Objects : WriteRefused(d))
  BY <1>11, RefusedIsLose
<1> QED BY <1>1, <1>2, <1>3, <1>4, <1>5, <1>6, <1>7, <1>8, <1>9, <1>10, <1>11 DEF Next

(* Every commit is atomic across power failures and failed commands: the   *)
(* storage core implements the volume whose contents change all at once,   *)
(* and a refused eviction harms the open image alone.                      *)
THEOREM CommitsAtomic == Spec => CommitsAreAtomic
<1>1. NcfsInv /\ [Next]_vars => [Volume!Next]_(Volume!vars)
  BY EveryStepIsVolumeStep DEF VolumeStep, Volume!vars
<1>2. Init => Volume!Init
  BY VolumeInit
<1> QED BY <1>1, <1>2, NcfsInvariant, PTL DEF Spec, CommitsAreAtomic, Volume!Spec
=============================================================================
