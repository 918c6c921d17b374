------------------------------- MODULE FdTable -------------------------------
(***************************************************************************)
(* FileDescriptorTable of crates/nexacore-kernel/src/fd.rs: numbered       *)
(* entries and a cursor from which the next free number is searched.  A    *)
(* table is a record; the operators return the table an operation leaves.  *)
(* LastFd stands for u32::MAX, the number at which the cursor saturates.   *)
(***************************************************************************)
EXTENDS Naturals

CONSTANTS LastFd,  \* the highest descriptor number (u32::MAX)
          NoFd     \* an entry that is not in the table

ASSUME FdAssumption == LastFd \in Nat /\ LastFd >= 3

Fds == 0 .. LastFd

Tables(kinds) == [entries : [Fds -> kinds \union {NoFd}], next : Fds]

(* FileDescriptorTable::new_with_stdio.                                    *)
NewWithStdio(stdin, stdout) ==
  [entries |-> [f \in Fds |-> IF f = 0 THEN stdin
                              ELSE IF f \in {1, 2} THEN stdout ELSE NoFd],
   next |-> 3]

(* FileDescriptorTable::open: the first free number from the cursor on.    *)
CanOpen(t) == \E f \in Fds : f >= t.next /\ t.entries[f] = NoFd
FreeFd(t) ==
  CHOOSE f \in Fds :
    /\ f >= t.next /\ t.entries[f] = NoFd
    /\ \A g \in Fds : g >= t.next /\ t.entries[g] = NoFd => f <= g

Opened(t, kind) ==
  [entries |-> [t.entries EXCEPT ![FreeFd(t)] = kind],
   next |-> IF FreeFd(t) = LastFd THEN LastFd ELSE FreeFd(t) + 1]

(* FileDescriptorTable::close.                                             *)
Closed(t, f) == [t EXCEPT !.entries[f] = NoFd]

(* FileDescriptorTable::dup2: a number duplicated onto itself is left, and *)
(* so is the table when the old number is not open.                        *)
Dup2(t, old, new) ==
  IF t.entries[old] = NoFd THEN t
  ELSE [t EXCEPT !.entries[new] = t.entries[old]]
=============================================================================
