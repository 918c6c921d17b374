---------------------------- MODULE AtomicVolume ----------------------------
(***************************************************************************)
(* What an NCFS v3 volume promises to the file system built on it.  The    *)
(* volume has contents: one live image (inode -> object) and at most one   *)
(* snapshot image.  Changes accumulate in an open image.  A commit makes   *)
(* the whole open image the stable one, at once: after a crash the volume  *)
(* holds exactly the last acknowledged image, or exactly an image whose    *)
(* commit had been attempted, never a mixture of two.  The device may      *)
(* refuse to take an object of the open image, which is then lost.         *)
(***************************************************************************)
CONSTANTS Inodes,   \* inode numbers
          Objects,  \* what an inode's block may hold
          Absent,   \* the object of an inode that does not exist
          Hole,     \* an object that was lost
          NoSnap    \* no snapshot is retained

VARIABLES stable,   \* the contents of the last acknowledged commit
          open,     \* the contents the file system sees
          tried     \* contents whose commit was attempted and not acknowledged

vars == <<stable, open, tried>>

Images == [Inodes -> Objects \union {Absent, Hole}]
Contents == [live : Images, snap : Images \union {NoSnap}]

TypeOK ==
  /\ stable \in Contents
  /\ open \in Contents
  /\ tried \subseteq Contents

Init ==
  /\ stable = [live |-> [i \in Inodes |-> Absent], snap |-> NoSnap]
  /\ open = stable
  /\ tried = {}

(* One inode is written or removed in the open image. *)
Change ==
  /\ \E i \in Inodes, o \in Objects \union {Absent} :
       open' = [open EXCEPT !.live[i] = o]
  /\ UNCHANGED <<stable, tried>>

(* An object of the open image is lost; what is stable, tried or retained  *)
(* by a snapshot is not.                                                   *)
Lose ==
  /\ \E i \in Inodes : open' = [open EXCEPT !.live[i] = Hole]
  /\ UNCHANGED <<stable, tried>>

(* A snapshot retains the stable live image; it is dropped or restored.    *)
Retain ==
  /\ open' = [open EXCEPT !.snap = stable.live]
  /\ UNCHANGED <<stable, tried>>

DropSnap ==
  /\ open' = [open EXCEPT !.snap = NoSnap]
  /\ UNCHANGED <<stable, tried>>

Restore ==
  /\ open.snap # NoSnap
  /\ open' = [open EXCEPT !.live = open.snap]
  /\ UNCHANGED <<stable, tried>>

(* A commit puts the open image at stake, and is acknowledged or not.      *)
Attempt ==
  /\ tried' = tried \union {open}
  /\ UNCHANGED <<stable, open>>

(* Attempts that were overtaken by a later one can no longer resurface.    *)
Narrow ==
  /\ tried' \in SUBSET tried
  /\ UNCHANGED <<stable, open>>

Acknowledge ==
  /\ open \in tried
  /\ stable' = open
  /\ tried' = {}
  /\ UNCHANGED open

(* A power failure loses the open image, never part of a stable one.       *)
Crash ==
  /\ stable' \in {stable} \union tried
  /\ open' = stable'
  /\ tried' = {}

Next ==
  \/ Change \/ Lose \/ Retain \/ DropSnap \/ Restore
  \/ Attempt \/ Narrow \/ Acknowledge \/ Crash

Spec == Init /\ [][Next]_vars
=============================================================================
