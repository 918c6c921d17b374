-------------------------------- MODULE Pipes --------------------------------
(***************************************************************************)
(* Anonymous pipes and the descriptor syscalls that reach them: PipeRing   *)
(* and PipeRegistry (kernel/src/pipe.rs), the descriptor table (FdTable)   *)
(* and PipeCreate, FdRead, FdWrite, FdClose, FdDup, FdDup2 of the syscall  *)
(* layer (bare_metal/syscall_entry.rs shell_handlers; the same handlers    *)
(* without user memory are kernel/src/syscall_handlers.rs).                *)
(*                                                                         *)
(* One table serves every process (SHELL_FD_TABLE) and a syscall runs with *)
(* interrupts masked, so a syscall is one step.  A byte is modelled by its *)
(* position in the stream written to its pipe.  The wait queues of a ring  *)
(* stay empty: no syscall parks on a pipe, a read or write that can do     *)
(* nothing returns zero.                                                   *)
(***************************************************************************)
EXTENDS FdTable, Sequences

CONSTANTS Stdin, Stdout,  \* the console descriptors
          NoRing,         \* a pipe id that is not in the registry
          Capacity,       \* PIPE_CAPACITY
          MaxPipes,       \* bound: pipes created
          MaxBytes        \* bound: bytes written to one pipe

ASSUME PipeAssumption ==
  /\ Capacity \in Nat \ {0}
  /\ MaxPipes \in Nat /\ MaxBytes \in Nat

Ids == 1 .. MaxPipes
Ends == {"read", "write"}
PipeEnds == [pipe : Ids, end : Ends]
Kinds == {Stdin, Stdout} \union PipeEnds
Rings == [buffer : Seq(1 .. MaxBytes), open : SUBSET Ends]

ASSUME KindAssumption ==
  /\ NoFd \notin Kinds
  /\ Stdin \notin PipeEnds /\ Stdout \notin PipeEnds
  /\ NoRing \notin Rings

VARIABLES
  fds,     \* SHELL_FD_TABLE
  rings,   \* PipeRegistry::pipes
  nextId,  \* PipeRegistry::next_id
  sent,    \* bytes each pipe accepted
  taken,   \* the last byte each ring gave up to a read
  given,   \* the bytes readers of each pipe were given, in order
  lost     \* the bytes drained by reads that then answered EFAULT

vars == <<fds, rings, nextId, sent, taken, given, lost>>

TypeOK ==
  /\ fds \in Tables(Kinds)
  /\ rings \in [Ids -> Rings \union {NoRing}]
  /\ nextId \in 1 .. MaxPipes + 1
  /\ sent \in [Ids -> 0 .. MaxBytes]
  /\ taken \in [Ids -> 0 .. MaxBytes]
  /\ given \in [Ids -> Seq(1 .. MaxBytes)]
  /\ lost \in [Ids -> SUBSET (1 .. MaxBytes)]

Init ==
  /\ fds = NewWithStdio(Stdin, Stdout)
  /\ rings = [p \in Ids |-> NoRing]
  /\ nextId = 1
  /\ sent = [p \in Ids |-> 0]
  /\ taken = [p \in Ids |-> 0]
  /\ given = [p \in Ids |-> <<>>]
  /\ lost = [p \in Ids |-> {}]

-----------------------------------------------------------------------------
IsPipe(f) == fds.entries[f] \in PipeEnds

End(p, e) == [pipe |-> p, end |-> e]

(* PipeRegistry::create makes a ring with both ends open.                  *)
NewRing == [buffer |-> <<>>, open |-> Ends]

(* PipeCreate gave back what it had taken: the ring is removed and the     *)
(* table t has no entry for it.                                            *)
PipeRolledBack(t) ==
  /\ fds' = t
  /\ UNCHANGED rings

(* PipeCreate: a ring, its read end, its write end; when the table is full *)
(* at either end the steps before are rolled back (the id stays used).     *)
PipeCreate ==
  /\ nextId <= MaxPipes
  /\ nextId' = nextId + 1
  /\ UNCHANGED <<sent, taken, given, lost>>
  /\ LET withRead == Opened(fds, End(nextId, "read"))
     IN IF ~ CanOpen(fds) THEN PipeRolledBack(fds)
        ELSE IF ~ CanOpen(withRead) THEN PipeRolledBack(Closed(withRead, FreeFd(fds)))
        ELSE /\ fds' = Opened(withRead, End(nextId, "write"))
             /\ rings' = [rings EXCEPT ![nextId] = NewRing]

\* Mutant: the ring takes one byte more than it may hold.
Accepted_OneTooMany(ring, n) ==
  IF Capacity - Len(ring.buffer) < n THEN Capacity + 1 - Len(ring.buffer) ELSE n

(* PipeRing::write takes what fits.                                        *)
Accepted(ring, n) ==
  IF Capacity - Len(ring.buffer) < n THEN Capacity - Len(ring.buffer) ELSE n

NextBytes(p, k) == [j \in 1 .. k |-> sent[p] + j]

(* FdWrite of n bytes.  Only the read end is tested: a write through a     *)
(* descriptor whose end was closed by another one is accepted.             *)
FdWrite(f, n) ==
  /\ IsPipe(f) /\ fds.entries[f].end = "write"
  /\ LET p == fds.entries[f].pipe
         ring == rings[p]
         k == Accepted(ring, n)
     IN /\ ring # NoRing
        /\ "read" \in ring.open
        /\ sent[p] + k <= MaxBytes
        /\ sent' = [sent EXCEPT ![p] = @ + k]
        /\ rings' = [rings EXCEPT ![p].buffer = @ \o NextBytes(p, k)]
  /\ UNCHANGED <<fds, nextId, taken, given, lost>>

(* copy_to_user of the bytes a read drained.  It probes the caller's pages *)
(* and copies all or, with EFAULT, nothing; what was drained is then gone. *)
CopiedOut(p, run) ==
  \/ given' = [given EXCEPT ![p] = @ \o run] /\ UNCHANGED lost
  \/ /\ lost' = [lost EXCEPT ![p] = @ \union {run[i] : i \in DOMAIN run}]
     /\ UNCHANGED given

(* FdRead into a buffer of n bytes: PipeRing::read, then the copy to the   *)
(* caller.  An empty pipe and end-of-file are both reported as zero bytes. *)
FdRead(f, n) ==
  /\ IsPipe(f) /\ fds.entries[f].end = "read"
  /\ LET p == fds.entries[f].pipe
         ring == rings[p]
         k == IF Len(ring.buffer) < n THEN Len(ring.buffer) ELSE n
     IN /\ ring # NoRing
        /\ IF k = 0
             THEN UNCHANGED <<rings, taken, given, lost>>
             ELSE /\ taken' = [taken EXCEPT ![p] = ring.buffer[k]]
                  /\ rings' = [rings EXCEPT ![p].buffer =
                                 SubSeq(@, k + 1, Len(@))]
                  /\ CopiedOut(p, SubSeq(ring.buffer, 1, k))
  /\ UNCHANGED <<fds, nextId, sent>>

\* Mutant: the descriptor goes and its pipe end is not told.
EndClosed_Silently(f) == rings

(* close_read / close_write of the ring behind descriptor f.  The ends are *)
(* flags, not counts: one of two duplicates closes the end for both.       *)
EndClosed(f) ==
  IF IsPipe(f) /\ rings[fds.entries[f].pipe] # NoRing
    THEN [rings EXCEPT ![fds.entries[f].pipe].open = @ \ {fds.entries[f].end}]
    ELSE rings

FdClose(f) ==
  /\ fds.entries[f] # NoFd
  /\ rings' = EndClosed(f)
  /\ fds' = Closed(fds, f)
  /\ UNCHANGED <<nextId, sent, taken, given, lost>>

FdDup(f) ==
  /\ fds.entries[f] # NoFd
  /\ CanOpen(fds)
  /\ fds' = Opened(fds, fds.entries[f])
  /\ UNCHANGED <<rings, nextId, sent, taken, given, lost>>

(* FdDup2 closes the pipe end at the new number before it looks at the old *)
(* one: also when the two are equal, and when the old one is not open.     *)
FdDup2(old, new) ==
  /\ rings' = EndClosed(new)
  /\ fds' = Dup2(fds, old, new)
  /\ UNCHANGED <<nextId, sent, taken, given, lost>>

Next ==
  \/ PipeCreate
  \/ \E f \in Fds, n \in 1 .. Capacity + 1 : FdWrite(f, n) \/ FdRead(f, n)
  \/ \E f \in Fds : FdClose(f) \/ FdDup(f)
  \/ \E old, new \in Fds : FdDup2(old, new)

Spec == Init /\ [][Next]_vars

-----------------------------------------------------------------------------
(* An end that is open has a descriptor that can close it, after any order *)
(* of dup, dup2, close and failed creations: otherwise the other side      *)
(* would wait for an end-of-file or a broken pipe that cannot come.        *)
OpenEndsHaveDescriptors ==
  \A p \in Ids : rings[p] # NoRing =>
    \A e \in rings[p].open : \E f \in Fds : fds.entries[f] = End(p, e)

(* A pipe descriptor always finds its ring in the registry: no rollback    *)
(* leaves a descriptor behind.                                             *)
DescriptorsResolve ==
  \A f \in Fds : IsPipe(f) => rings[fds.entries[f].pipe] # NoRing

(* Both: the descriptors and the ends of the rings account for each other. *)
EndsMatchDescriptors == OpenEndsHaveDescriptors /\ DescriptorsResolve

(* A ring holds exactly the bytes that were reported as accepted and not   *)
(* yet drained, in the order they were written, and never more than its    *)
(* capacity.                                                               *)
RingInOrder ==
  \A p \in Ids : rings[p] # NoRing =>
    /\ Len(rings[p].buffer) <= Capacity
    /\ Len(rings[p].buffer) = sent[p] - taken[p]
    /\ \A j \in 1 .. Len(rings[p].buffer) : rings[p].buffer[j] = taken[p] + j

(* What was drained was given to a reader, in order and once, or went with *)
(* a read that answered EFAULT, and never both.                            *)
HandedOut ==
  \A p \in Ids :
    /\ \A i, j \in 1 .. Len(given[p]) : i < j => given[p][i] < given[p][j]
    /\ {given[p][i] : i \in 1 .. Len(given[p])} = (1 .. taken[p]) \ lost[p]
    /\ lost[p] \subseteq 1 .. taken[p]

(* The byte stream of a pipe, across partial writes and reads, closed ends *)
(* and reads whose copy to the caller fails: in order, within capacity,    *)
(* and no byte missing but those of a read that reported EFAULT.           *)
StreamInOrder == RingInOrder /\ HandedOut
=============================================================================
