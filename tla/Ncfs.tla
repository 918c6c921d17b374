-------------------------------- MODULE Ncfs --------------------------------
(***************************************************************************)
(* The storage core of the NCFS v3 file system (crates/nexacore-fs/src/v3):*)
(* the write-back block cache, the commit write-barrier, the dual          *)
(* superblock, the allocation map with reference counts, the retention of  *)
(* freed blocks and one snapshot, above a block device whose unflushed     *)
(* writes may be kept, lost or torn by a power failure.                    *)
(*                                                                         *)
(* Blocks 0 and 1 are the superblock slots (SLOT_A, SLOT_B) and have       *)
(* variables of their own; blocks Reserved..NumBlocks-1 hold objects.  An  *)
(* object is modelled by a value of Objects; the Merkle root of a          *)
(* superblock by the objects it was computed over.  The least-recently-    *)
(* used order of the cache is abstracted: any block but the one just       *)
(* touched may be the victim.                                              *)
(*                                                                         *)
(* The file system above this core follows the copy-on-write rule of       *)
(* oips/oip-fs-wire-027.md S1: a changed object goes to a newly allocated  *)
(* block, the block it replaces is released through the retention tracker, *)
(* and a commit that returned an error may be tried again.  The file system *)
(* counts a released block until the tracker gives it up, and gives up a   *)
(* change whose write returned an error.                                   *)
(*                                                                         *)
(* Any write or flush may fail.  evict_to_capacity takes its victim out of *)
(* the entries before it writes it, so a refused eviction loses the block: *)
(* lost remembers which blocks.                                            *)
(***************************************************************************)
EXTENDS Naturals, FiniteSets, FiniteSetsExt

CONSTANTS Inodes,     \* inode numbers
          Objects,    \* contents an object block may have
          Absent,     \* "no such inode" in an image
          Torn,       \* contents of a torn or trimmed block
          Hole,       \* in an image: an object a refused eviction has lost
          NoBlock,    \* an inode that is not in the inode tree
          NoEntry,    \* a block that is not cached
          NoSb,       \* a slot that does not authenticate
          NoSnap,     \* no snapshot in the table
          NumBlocks,  \* blocks of the device
          Capacity,   \* blocks the cache may hold
          Window,     \* generations a freed block is kept from TRIM
          MaxGen,     \* bound: generations committed
          MaxWrites,  \* bound: object writes
          MaxFailures \* bound: power failures and failed device commands

(* RESERVED_BLOCKS of mkfs.rs: two slots, allocation map, root directory.  *)
Reserved == 4
Data == Reserved .. (NumBlocks - 1)
Slots == {0, 1}

ASSUME NcfsAssumption ==
  /\ NumBlocks \in Nat
  /\ Capacity \in Nat \ {0}
  /\ Window \in Nat \ {0}
  /\ MaxGen \in Nat \ {0}
  /\ MaxWrites \in Nat /\ MaxFailures \in Nat
  /\ Absent \notin Objects /\ Torn \notin Objects /\ Torn # Absent
  /\ Hole \notin Objects \union {Absent}
  /\ NoBlock \notin Data
  /\ NoSnap \notin [Inodes -> Data \union {NoBlock}]
  /\ NoSnap \notin [Inodes -> Objects \union {Absent, Hole}]

Cell == Objects \union {Torn}
Trees == [Inodes -> Data \union {NoBlock}]
Superblocks ==
  [gen : 1 .. MaxGen, tree : Trees, snap : Trees \union {NoSnap},
   refs : [Data -> Nat]]
Entries == [data : Cell, dirty : BOOLEAN]

ASSUME SentinelAssumption ==
  /\ NoEntry \notin Entries
  /\ NoSb \notin Superblocks

VARIABLES
  disk,      \* object blocks as a power failure would leave the flushed ones
  pend,      \* unflushed writes of each object block
  dev,       \* object blocks as the running device returns them
  sbDisk, sbPend, sbDev,   \* the same for the two superblock slots
  committed, \* BlockDevice::committed_generation
  cache,     \* BlockCache::entries
  dirty,     \* BlockCache::dirty
  lost,      \* history: blocks whose latest contents an eviction has lost
  refs,      \* AllocMap::refcounts
  freed,     \* RetentionTracker::freed (0: not retained)
  base,      \* the superblock of the last acknowledged commit
  tree,      \* the inode tree being built for the next generation
  snap,      \* the snapshot table: the tree of the one snapshot
  pc,        \* the device command the running call is at
  writes,    \* object writes so far
  failures   \* failures so far

volVars == <<refs, freed, base, tree, snap>>
cacheVars == <<cache, dirty, lost>>
blockVars == <<disk, pend, dev>>
slotVars == <<sbDisk, sbPend, sbDev, committed>>
bounds == <<writes, failures>>
vars == <<blockVars, slotVars, cacheVars, volVars, pc, bounds>>

TypeOK ==
  /\ disk \in [Data -> Cell]
  /\ pend \in [Data -> SUBSET Cell]
  /\ dev \in [Data -> Cell]
  /\ sbDisk \in [Slots -> Superblocks \union {NoSb}]
  /\ sbPend \in [Slots -> SUBSET Superblocks]
  /\ sbDev \in [Slots -> Superblocks \union {NoSb}]
  /\ committed \in 0 .. MaxGen
  /\ cache \in [Data -> Entries \union {NoEntry}]
  /\ dirty \subseteq Data
  /\ lost \subseteq Data
  /\ refs \in [Data -> Nat]
  /\ freed \in [Data -> 0 .. MaxGen]
  /\ base \in Superblocks
  /\ tree \in Trees
  /\ snap \in Trees \union {NoSnap}
  /\ pc \in {"idle", "barrier", "slot", "slotflush", "root", "down"}
  /\ writes \in 0 .. MaxWrites
  /\ failures \in 0 .. MaxFailures

-----------------------------------------------------------------------------
(* The blocks an inode tree (or a missing snapshot) refers to.             *)
BlocksOf(t) == IF t = NoSnap THEN {} ELSE {t[i] : i \in Inodes} \ {NoBlock}

(* InodeTree::with_inserted / with_removed, as the map they maintain.      *)
WithInserted(t, i, b) == [t EXCEPT ![i] = b]
WithRemoved(t, i) == [t EXCEPT ![i] = NoBlock]

(* AllocMap::alloc: the lowest block without references.                   *)
Alloc(b) == refs[b] = 0 /\ \A c \in Data : refs[c] = 0 => b <= c

(* Drop one reference to each block of D, r being the counts before: a     *)
(* shared block is decref-ed at once, the last reference is handed to the  *)
(* retention tracker (free_at) and keeps its count until it is released.   *)
Drop(D, r) ==
  /\ refs' = [b \in Data |-> IF b \in D /\ r[b] > 1 THEN r[b] - 1 ELSE r[b]]
  /\ freed' = [b \in Data |-> IF b \in D /\ r[b] = 1 THEN base.gen ELSE freed[b]]

\* Mutant: the snapshot does not count the blocks it keeps.
Retained_NoIncref(G) == refs

(* AllocMap::incref for each block of G (snapshot::retain).                *)
Retained(G) == [b \in Data |-> IF b \in G THEN refs[b] + 1 ELSE refs[b]]

\* Mutants: a block nobody released is reusable; a block is reusable in the
\* generation that released it.
IsReusable_Untracked(b) == committed > freed[b]
IsReusable_SameGeneration(b) == freed[b] # 0 /\ committed >= freed[b]

(* RetentionTracker::is_reusable and is_trimmable.                         *)
IsReusable(b) == freed[b] # 0 /\ committed > freed[b]
IsTrimmable(b) == freed[b] # 0 /\ committed >= freed[b] + Window

(* SuperblockV3::slot_for_generation.                                      *)
SlotFor(g) == g % 2

(* The superblock the next commit writes.                                  *)
NextSb == [gen |-> base.gen + 1, tree |-> tree, snap |-> snap, refs |-> refs]

(* superblock::mount over the flushed slots: the valid slot with the       *)
(* highest generation, slot A winning a tie.                               *)
Valid == {s \in Slots : sbDisk[s] # NoSb}
BestSlot == CHOOSE s \in Valid : \A t \in Valid : sbDisk[t].gen <= sbDisk[s].gen
Best == sbDisk[BestSlot]

(* A block as BlockCache::read returns it.                                 *)
View(b) == IF cache[b] # NoEntry THEN cache[b].data ELSE dev[b]

-----------------------------------------------------------------------------
(* write_block of the running device.                                      *)
DevWrite(b, d) ==
  /\ dev' = [dev EXCEPT ![b] = d]
  /\ pend' = [pend EXCEPT ![b] = @ \union {d}]

Resident(c) == {b \in Data : c[b] # NoEntry}

\* Mutant: a dirty victim is dropped like a clean one.
EvictToCapacity_DropsDirty(c, q, b) ==
  /\ \E victim \in Resident(c) :
       cache' = IF Cardinality(Resident(c)) <= Capacity \/ victim = b
                  THEN c ELSE [c EXCEPT ![victim] = NoEntry]
  /\ dirty' = q
  /\ UNCHANGED <<dev, pend>>

(* BlockCache::evict_to_capacity after block b was put into the cache,     *)
(* which leaves entries c and the dirty queue q.                           *)
EvictToCapacity(c, q, b) ==
  \/ /\ Cardinality(Resident(c)) <= Capacity
     /\ cache' = c
     /\ dirty' = q
     /\ UNCHANGED <<dev, pend>>
  \/ \E victim \in Resident(c) \ {b} :
       /\ Cardinality(Resident(c)) > Capacity
       /\ cache' = [c EXCEPT ![victim] = NoEntry]
       /\ IF c[victim].dirty
            THEN DevWrite(victim, c[victim].data) /\ dirty' = q \ {victim}
            ELSE dirty' = q /\ UNCHANGED <<dev, pend>>

(* The same when the device refuses the write of a dirty victim: it is out *)
(* of the entries and the call returns the error.                          *)
EvictionRefused(c, q, b) ==
  /\ failures < MaxFailures
  /\ failures' = failures + 1
  /\ Cardinality(Resident(c)) > Capacity
  /\ \E victim \in Resident(c) \ {b} :
       /\ c[victim].dirty
       /\ cache' = [c EXCEPT ![victim] = NoEntry]
       /\ lost' = lost \union {victim}
  /\ dirty' = q
  /\ UNCHANGED <<dev, pend>>

(* BlockCache::read and BlockCache::write up to the eviction.              *)
AfterRead(b) == [cache EXCEPT ![b] = [data |-> dev[b], dirty |-> FALSE]]
AfterWrite(b, d) == [cache EXCEPT ![b] = [data |-> d, dirty |-> TRUE]]

(* An object is read that is not in the cache.                             *)
ReadMisses(i) == pc = "idle" /\ tree[i] # NoBlock /\ cache[tree[i]] = NoEntry

CacheRead(i) ==
  /\ ReadMisses(i)
  /\ EvictToCapacity(AfterRead(tree[i]), dirty, tree[i])
  /\ UNCHANGED <<disk, lost, slotVars, volVars, pc, bounds>>

ReadRefused(i) ==
  /\ ReadMisses(i)
  /\ EvictionRefused(AfterRead(tree[i]), dirty, tree[i])
  /\ UNCHANGED <<disk, slotVars, volVars, pc, writes>>

(* An object is changed: a fresh block, and the old one is released.       *)
WriteObject(i, d) ==
  /\ pc = "idle"
  /\ writes < MaxWrites
  /\ \E b \in Data :
       /\ Alloc(b)
       /\ EvictToCapacity(AfterWrite(b, d), dirty \union {b}, b)
       /\ lost' = lost \ {b}
       /\ tree' = WithInserted(tree, i, b)
       /\ Drop({tree[i]} \ {NoBlock}, [refs EXCEPT ![b] = 1])
  /\ writes' = writes + 1
  /\ UNCHANGED <<disk, slotVars, base, snap, pc, failures>>

(* The write returns an error: the object stays as it is and the new block *)
(* is given back, but not before its contents were put into the cache.     *)
WriteRefused(d) ==
  /\ pc = "idle"
  /\ writes < MaxWrites
  /\ \E b \in Data :
       /\ Alloc(b)
       /\ EvictionRefused(AfterWrite(b, d), dirty \union {b}, b)
  /\ writes' = writes + 1
  /\ UNCHANGED <<disk, slotVars, volVars, pc>>

RemoveObject(i) ==
  /\ pc = "idle"
  /\ tree[i] # NoBlock
  /\ tree' = WithRemoved(tree, i)
  /\ Drop({tree[i]}, refs)
  /\ UNCHANGED <<blockVars, slotVars, cacheVars, base, snap, pc, bounds>>

(* A block the retention tracker gives back: re-allocated or TRIM-ed.      *)
Reuse(b) ==
  /\ pc = "idle"
  /\ IsReusable(b)
  /\ freed' = [freed EXCEPT ![b] = 0]
  /\ refs' = [refs EXCEPT ![b] = @ - 1]
  /\ UNCHANGED <<blockVars, slotVars, cacheVars, base, tree, snap, pc, bounds>>

Trim(b) ==
  /\ pc = "idle"
  /\ IsTrimmable(b)
  /\ freed' = [freed EXCEPT ![b] = 0]
  /\ refs' = [refs EXCEPT ![b] = @ - 1]
  /\ DevWrite(b, Torn)
  /\ UNCHANGED <<disk, slotVars, cacheVars, base, tree, snap, pc, bounds>>

(* SnapshotTable::take of the committed superblock (an id that is in the   *)
(* table is refused) and snapshot::retain of its blocks.  A block that was *)
(* released since the commit is taken back from the tracker, together with *)
(* the tracker's count.  SnapshotTable::delete; snapshot::clone_from.      *)
TakeSnapshot ==
  /\ pc = "idle"
  /\ snap = NoSnap
  /\ snap' = base.tree
  /\ refs' = Retained({b \in BlocksOf(base.tree) : freed[b] = 0})
  /\ freed' = [b \in Data |-> IF b \in BlocksOf(base.tree) THEN 0 ELSE freed[b]]
  /\ UNCHANGED <<blockVars, slotVars, cacheVars, base, tree, pc, bounds>>

DeleteSnapshot ==
  /\ pc = "idle"
  /\ snap # NoSnap
  /\ snap' = NoSnap
  /\ Drop(BlocksOf(snap), refs)
  /\ UNCHANGED <<blockVars, slotVars, cacheVars, base, tree, pc, bounds>>

CloneFrom ==
  /\ pc = "idle"
  /\ snap # NoSnap
  /\ tree' = snap
  /\ Drop(BlocksOf(tree), Retained(BlocksOf(snap)))
  /\ UNCHANGED <<blockVars, slotVars, cacheVars, base, snap, pc, bounds>>

-----------------------------------------------------------------------------
(* BlockCache::sync and BlockCache::commit_superblock, one device command  *)
(* at a time.  Both begin with the write-back and a flush.  A command that *)
(* fails ends the call with an error.                                      *)

(* One round of BlockCache::writeback, in ascending block order.           *)
WriteBack ==
  /\ pc \in {"idle", "barrier"}
  /\ dirty # {}
  /\ pc' = "barrier"
  /\ LET b == Min(dirty) IN
       /\ dirty' = dirty \ {b}
       /\ IF cache[b] # NoEntry /\ cache[b].dirty
            THEN /\ DevWrite(b, cache[b].data)
                 /\ cache' = [cache EXCEPT ![b].dirty = FALSE]
            ELSE UNCHANGED <<dev, pend, cache>>
  /\ UNCHANGED <<disk, lost, slotVars, volVars, bounds>>

(* BlockDevice::flush.                                                     *)
Flush ==
  /\ disk' = dev
  /\ pend' = [b \in Data |-> {}]
  /\ sbDisk' = sbDev
  /\ sbPend' = [s \in Slots |-> {}]
  /\ UNCHANGED <<dev, sbDev, committed>>

\* Mutant: the superblock is written without waiting for the data.
Barrier_NoFlush ==
  /\ pc \in {"idle", "barrier"}
  /\ dirty = {}
  /\ pc' = "idle" \/ (base.gen < MaxGen /\ pc' = "slot")
  /\ UNCHANGED <<blockVars, slotVars, cacheVars, volVars, bounds>>

(* The flush that follows the write-back: sync ends here, for a commit it  *)
(* is the barrier before the superblock.                                   *)
Barrier ==
  /\ pc \in {"idle", "barrier"}
  /\ dirty = {}
  /\ Flush
  /\ pc' = "idle" \/ (base.gen < MaxGen /\ pc' = "slot")
  /\ UNCHANGED <<cacheVars, volVars, bounds>>

(* superblock::commit: write the slot, flush, record the generation.       *)
WriteSlot ==
  /\ pc = "slot"
  /\ LET s == SlotFor(NextSb.gen) IN
       /\ sbDev' = [sbDev EXCEPT ![s] = NextSb]
       /\ sbPend' = [sbPend EXCEPT ![s] = @ \union {NextSb}]
  /\ pc' = "slotflush"
  /\ UNCHANGED <<sbDisk, committed, blockVars, cacheVars, volVars, bounds>>

FlushSlot ==
  /\ pc = "slotflush"
  /\ Flush
  /\ pc' = "root"
  /\ UNCHANGED <<cacheVars, volVars, bounds>>

CommitRoot ==
  /\ pc = "root"
  /\ committed' = NextSb.gen
  /\ base' = NextSb
  /\ pc' = "idle"
  /\ UNCHANGED <<sbDisk, sbPend, sbDev, blockVars, cacheVars,
                 refs, freed, tree, snap, bounds>>

(* A device command of a sync or commit returns V3Error::Io (the first     *)
(* one: nothing has changed).                                              *)
CommandFails ==
  /\ failures < MaxFailures
  /\ failures' = failures + 1
  /\ pc \in {"barrier", "slot", "slotflush", "root"}
  /\ pc' = "idle"
  /\ UNCHANGED <<blockVars, slotVars, cacheVars, volVars, writes>>

-----------------------------------------------------------------------------
(* What a power failure may leave of a block: the flushed contents d, one  *)
(* of the unflushed writes p, or the torn contents bad if there was any.   *)
Leaves(d, p, bad) == {d} \union p \union {x \in {bad} : p # {}}

SlotPool == {sbDisk[s] : s \in Slots} \union (UNION {sbPend[s] : s \in Slots})
              \union {NoSb}

(* The volume mkfs::format leaves: generation 1 in slot B, nothing else.   *)
FormatSb ==
  [gen |-> 1, tree |-> [i \in Inodes |-> NoBlock], snap |-> NoSnap,
   refs |-> [b \in Data |-> 0]]

(* A power failure; what was in memory is gone (its value then is moot).   *)
Crash ==
  /\ pc # "down"
  /\ failures < MaxFailures
  /\ failures' = failures + 1
  /\ disk' \in {f \in [Data -> Cell] :
                  \A b \in Data : f[b] \in Leaves(disk[b], pend[b], Torn)}
  /\ sbDisk' \in {f \in [Slots -> SlotPool] :
                  \A s \in Slots : f[s] \in Leaves(sbDisk[s], sbPend[s], NoSb)}
  /\ dev' = disk'
  /\ sbDev' = sbDisk'
  /\ pend' = [b \in Data |-> {}]
  /\ sbPend' = [s \in Slots |-> {}]
  /\ cache' = [b \in Data |-> NoEntry]
  /\ dirty' = {}
  /\ base' = FormatSb /\ tree' = FormatSb.tree /\ snap' = NoSnap
  /\ refs' = FormatSb.refs /\ freed' = [b \in Data |-> 0]
  /\ pc' = "down"
  /\ UNCHANGED <<committed, lost, writes>>

(* superblock::mount, and the maps the mounted superblock carries; what    *)
(* the retention tracker knew is gone.                                     *)
Mount ==
  /\ pc = "down"
  /\ Valid # {}
  /\ base' = Best
  /\ tree' = Best.tree
  /\ snap' = Best.snap
  /\ refs' = Best.refs
  /\ freed' = [b \in Data |-> 0]
  /\ pc' = "idle"
  /\ UNCHANGED <<blockVars, slotVars, cacheVars, bounds>>

Init ==
  /\ disk = [b \in Data |-> Torn]
  /\ dev = disk
  /\ pend = [b \in Data |-> {}]
  /\ sbDisk = [s \in Slots |-> IF s = SlotFor(1) THEN FormatSb ELSE NoSb]
  /\ sbDev = sbDisk
  /\ sbPend = [s \in Slots |-> {}]
  /\ committed = 1
  /\ cache = [b \in Data |-> NoEntry]
  /\ dirty = {}
  /\ lost = {}
  /\ base = FormatSb
  /\ tree = base.tree
  /\ snap = base.snap
  /\ refs = base.refs
  /\ freed = [b \in Data |-> 0]
  /\ pc = "idle"
  /\ writes = 0
  /\ failures = 0

Next ==
  \/ \E i \in Inodes : CacheRead(i) \/ ReadRefused(i) \/ RemoveObject(i)
  \/ \E i \in Inodes, d \in Objects : WriteObject(i, d)
  \/ \E d \in Objects : WriteRefused(d)
  \/ \E b \in Data : Reuse(b) \/ Trim(b)
  \/ TakeSnapshot \/ DeleteSnapshot \/ CloneFrom
  \/ WriteBack \/ Barrier \/ WriteSlot \/ FlushSlot \/ CommitRoot
  \/ CommandFails \/ Crash \/ Mount

Spec == Init /\ [][Next]_vars

-----------------------------------------------------------------------------
(* The image a superblock's tree gives when its blocks are read from d.    *)
Image(t, d) == [i \in Inodes |-> IF t[i] = NoBlock THEN Absent ELSE d[t[i]]]
ContentsOf(t, s, d) ==
  [live |-> Image(t, d), snap |-> IF s = NoSnap THEN NoSnap ELSE Image(s, d)]

(* The blocks of the medium, and as the cache shows them; what is read of  *)
(* a lost one means nothing.                                               *)
Shown == [b \in Data |-> IF b \in lost THEN Hole ELSE disk[b]]
Viewed == [b \in Data |-> IF b \in lost THEN Hole ELSE View(b)]

Recovered(sb) == ContentsOf(sb.tree, sb.snap, Shown)

(* The superblock the volume stands on, and the attempts at its successor  *)
(* that the slots hold.                                                    *)
Standing == IF pc = "down" THEN Best ELSE base
Attempts ==
  LET s == SlotFor(Standing.gen + 1) IN
    {sb \in ({sbDisk[s]} \union sbPend[s]) \ {NoSb} : sb.gen = Standing.gen + 1}

(* The volume as its clients see it.                                       *)
stableContents == Recovered(Standing)
openContents ==
  IF pc = "down" THEN stableContents ELSE ContentsOf(tree, snap, Viewed)
triedContents == {Recovered(sb) : sb \in Attempts}

Volume == INSTANCE AtomicVolume
            WITH stable <- stableContents, open <- openContents,
                 tried <- triedContents

(* The cache, the barrier, the dual superblock and the retention of freed  *)
(* blocks together make every commit atomic across power failures and      *)
(* failed device commands: the volume behaves as AtomicVolume.  A refused  *)
(* eviction makes a hole in the open image, never in what was committed    *)
(* before or in a snapshot, and a later commit carries the hole along.     *)
CommitsAreAtomic == Volume!Spec

(* A power failure in any state leaves a slot that authenticates, at the   *)
(* last acknowledged generation or above (superblock::mount never returns  *)
(* NoValidSuperblock and never goes back behind an acknowledged commit).   *)
MountFindsAcknowledged ==
  pc = "down" => Valid # {} /\ Best.gen >= committed

(* Every block the mounted superblock or its snapshot refers to holds an   *)
(* object after a power failure, unless a refused eviction lost it before  *)
(* the commit, and none of them can be allocated: the Merkle root over the *)
(* mounted volume verifies but for such a loss.                            *)
MountedIsIntact ==
  pc = "down" => \A b \in BlocksOf(Best.tree) \union BlocksOf(Best.snap) :
                    (disk[b] \in Objects \/ b \in lost) /\ Best.refs[b] > 0

(* Both: a power failure at any moment leaves a volume that mounts at an   *)
(* acknowledged commit or above and is whole, but for the blocks whose     *)
(* write an eviction was refused.                                          *)
MountRecovers == MountFindsAcknowledged /\ MountedIsIntact

(* Who holds block b: the open tree, the snapshot, the retention tracker.  *)
One(held) == IF held THEN 1 ELSE 0

Holders(b) ==
  One(b \in BlocksOf(tree)) + One(b \in BlocksOf(snap)) + One(freed[b] # 0)

(* AllocMap never counts a block lower than it is held, so that alloc and  *)
(* the retention tracker cannot give a block away that a tree still uses;  *)
(* a power failure may leak a block (its count is too high), never lose a  *)
(* holder.                                                                 *)
CountsCoverHolders == pc # "down" => \A b \in Data : refs[b] >= Holders(b)

(* "No buffered write is ever lost" (cache.rs:13), but for the one whose   *)
(* eviction the device refused: every other object the file system put     *)
(* into the open tree can be read back through the cache, in whatever      *)
(* order blocks are evicted, written back, reused and trimmed; and what a  *)
(* snapshot taken of an acknowledged commit holds is lost only if it was   *)
(* lost before that commit.                                                *)
NoBufferedWriteLost ==
  pc # "down" =>
    \A b \in BlocksOf(tree) \union BlocksOf(snap) : View(b) \in Objects \/ b \in lost
=============================================================================
