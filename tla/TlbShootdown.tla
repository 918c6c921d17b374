---------------------------- MODULE TlbShootdown ----------------------------
(***************************************************************************)
(* TLB shootdown, bare_metal/tlb_shootdown.rs: the boot processor changes  *)
(* mappings of the shared kernel half and calls flush_tlb_range, which     *)
(* publishes a descriptor, broadcasts an interrupt and polls a counter of  *)
(* acknowledgements for a bounded time; every application processor runs   *)
(* kernel_tlb_shootdown_handler.                                           *)
(*                                                                         *)
(* Each access to the shared descriptor is a step of its own, in program   *)
(* order (x86 keeps the order of stores and of loads).  An entry of a TLB  *)
(* is absent, fresh, or stale when the mapping changed after it was        *)
(* loaded; a processor may load an entry at any time.  The interrupt of a  *)
(* processor is one pending bit: a second broadcast before it is taken is  *)
(* merged with the first.                                                  *)
(***************************************************************************)
EXTENDS Integers, FiniteSets

CONSTANTS Aps,                  \* registered application processors
          NumPages,             \* pages of the kernel half
          SHOOTDOWN_MAX_PAGES,  \* longer ranges flush the whole TLB
          MaxCalls              \* bound: calls of flush_tlb_range

ASSUME TlbAssumption ==
  /\ IsFiniteSet(Aps)
  /\ NumPages \in Nat \ {0}
  /\ SHOOTDOWN_MAX_PAGES \in Nat
  /\ MaxCalls \in Nat

Pages == 0 .. NumPages - 1

(* The page-aligned ranges the caller may pass.                            *)
Ranges == {r \in [va : Pages, count : 1 .. NumPages] : r.va + r.count <= NumPages}

(* The pages a range names, and those invalidated for a descriptor: a long *)
(* one reloads CR3.                                                        *)
Covered(va, count) == {p \in Pages : va <= p /\ p < va + count}

SHOOTDOWN_FULL_FLUSH == NumPages + 1     \* u64::MAX, the count of no range

\* Mutant: the loop over the pages starts at the second one.
Flushed_NotTheFirst(va, count) ==
  IF count = SHOOTDOWN_FULL_FLUSH \/ count > SHOOTDOWN_MAX_PAGES
    THEN Pages ELSE Covered(va + 1, count - 1)

Flushed(va, count) ==
  IF count = SHOOTDOWN_FULL_FLUSH \/ count > SHOOTDOWN_MAX_PAGES
    THEN Pages ELSE Covered(va, count)

(* What invalidate_local returns and flush_tlb_range publishes.            *)
StoredCount(count) ==
  IF count > SHOOTDOWN_MAX_PAGES THEN SHOOTDOWN_FULL_FLUSH ELSE count

Counts == 0 .. NumPages + 1

VARIABLES
  tlb,      \* the TLB of every application processor
  desc,     \* SHOOTDOWN: va_start, page_count and ack
  pending,  \* processors with the interrupt pending
  handler,  \* where each processor is in kernel_tlb_shootdown_handler
  bsp,      \* where the boot processor is in flush_tlb_range
  request,  \* the range of the last call
  report,   \* ShootdownReport::complete of the last call
  quiet,    \* nobody was busy with an earlier call when ack was reset
  gaveUp,   \* some call ran out of ACK_POLL_ITERATIONS
  calls     \* calls made

vars == <<tlb, desc, pending, handler, bsp, request, report, quiet, gaveUp, calls>>

NoRange == [va |-> 0, count |-> 0]
Idle == [at |-> "idle", va |-> 0, count |-> 0]

Init ==
  /\ tlb = [a \in Aps |-> [p \in Pages |-> "absent"]]
  /\ desc = [va |-> 0, count |-> 0, ack |-> 0]
  /\ pending = {}
  /\ handler = [a \in Aps |-> Idle]
  /\ bsp = "idle"
  /\ request = NoRange
  /\ report = FALSE
  /\ quiet = TRUE
  /\ gaveUp = FALSE
  /\ calls = 0

-----------------------------------------------------------------------------
(* The boot processor changes the mappings of a range and calls            *)
(* flush_tlb_range, which first invalidates its own entries.  Without an   *)
(* application processor the call is complete at once.                     *)
Call(r) ==
  /\ bsp = "idle"
  /\ calls < MaxCalls
  /\ calls' = calls + 1
  /\ request' = r
  /\ tlb' = [a \in Aps |-> [p \in Pages |->
       IF p \in Covered(r.va, r.count) /\ tlb[a][p] = "fresh"
         THEN "stale" ELSE tlb[a][p]]]
  /\ IF Aps = {}
       THEN bsp' = "idle" /\ report' = TRUE
       ELSE bsp' = "va" /\ report' = FALSE
  /\ UNCHANGED <<desc, pending, handler, quiet, gaveUp>>

StoreVa ==
  /\ bsp = "va"
  /\ desc' = [desc EXCEPT !.va = request.va]
  /\ bsp' = "count"
  /\ UNCHANGED <<tlb, pending, handler, request, report, quiet, gaveUp, calls>>

StoreCount ==
  /\ bsp = "count"
  /\ desc' = [desc EXCEPT !.count = StoredCount(request.count)]
  /\ bsp' = "reset"
  /\ UNCHANGED <<tlb, pending, handler, request, report, quiet, gaveUp, calls>>

\* Mutant: the counter keeps the acknowledgements of the last call.
Reset_Not(ack) == ack

Reset(ack) == 0

ResetAck ==
  /\ bsp = "reset"
  /\ desc' = [desc EXCEPT !.ack = Reset(@)]
  /\ quiet' = (pending = {} /\ \A a \in Aps : handler[a] = Idle)
  /\ bsp' = "send"
  /\ UNCHANGED <<tlb, pending, handler, request, report, gaveUp, calls>>

(* The generation is bumped, which no one reads, and the interrupt is      *)
(* broadcast; without a local APIC nothing is sent and nobody is awaited.  *)
Send ==
  /\ bsp = "send"
  /\ pending' = Aps
  /\ bsp' = "poll"
  /\ UNCHANGED <<tlb, desc, handler, request, report, quiet, gaveUp, calls>>

NotSent ==
  /\ bsp = "send"
  /\ bsp' = "idle"
  /\ gaveUp' = TRUE
  /\ UNCHANGED <<tlb, desc, pending, handler, request, report, quiet, calls>>

\* Mutant: the poll is satisfied one acknowledgement early.
Enough_OneMissing(ack) == ack + 1 >= Cardinality(Aps)

Enough(ack) == ack >= Cardinality(Aps)

(* busy_wait_for_acks: everybody acknowledged, or the iterations ran out.  *)
Complete ==
  /\ bsp = "poll"
  /\ Enough(desc.ack)
  /\ report' = TRUE
  /\ bsp' = "idle"
  /\ UNCHANGED <<tlb, desc, pending, handler, request, quiet, gaveUp, calls>>

GiveUp ==
  /\ bsp = "poll"
  /\ ~ Enough(desc.ack)
  /\ gaveUp' = TRUE
  /\ bsp' = "idle"
  /\ UNCHANGED <<tlb, desc, pending, handler, request, report, quiet, calls>>

-----------------------------------------------------------------------------
(* kernel_tlb_shootdown_handler on processor a.                            *)
Take(a) ==
  /\ a \in pending
  /\ handler[a].at = "idle"
  /\ pending' = pending \ {a}
  /\ handler' = [handler EXCEPT ![a].at = "taken"]
  /\ UNCHANGED <<tlb, desc, bsp, request, report, quiet, gaveUp, calls>>

LoadCount(a) ==
  /\ handler[a].at = "taken"
  /\ handler' = [handler EXCEPT ![a].at = "counted", ![a].count = desc.count]
  /\ UNCHANGED <<tlb, desc, pending, bsp, request, report, quiet, gaveUp, calls>>

LoadVa(a) ==
  /\ handler[a].at = "counted"
  /\ handler' = [handler EXCEPT ![a].at = "loaded", ![a].va = desc.va]
  /\ UNCHANGED <<tlb, desc, pending, bsp, request, report, quiet, gaveUp, calls>>

Invalidate(a) ==
  /\ handler[a].at = "loaded"
  /\ tlb' = [tlb EXCEPT ![a] = [p \in Pages |->
       IF p \in Flushed(handler[a].va, handler[a].count)
         THEN "absent" ELSE tlb[a][p]]]
  /\ handler' = [handler EXCEPT ![a].at = "flushed"]
  /\ UNCHANGED <<desc, pending, bsp, request, report, quiet, gaveUp, calls>>

Ack(a) ==
  /\ handler[a].at = "flushed"
  /\ desc' = [desc EXCEPT !.ack = @ + 1]
  /\ handler' = [handler EXCEPT ![a] = Idle]
  /\ UNCHANGED <<tlb, pending, bsp, request, report, quiet, gaveUp, calls>>

(* A memory access loads an entry of the current page tables.              *)
Load(a, p) ==
  /\ tlb[a][p] = "absent"
  /\ tlb' = [tlb EXCEPT ![a][p] = "fresh"]
  /\ UNCHANGED <<desc, pending, handler, bsp, request, report, quiet, gaveUp, calls>>

HandlerStep(a) == Take(a) \/ LoadCount(a) \/ LoadVa(a) \/ Invalidate(a) \/ Ack(a)

FlushStep ==
  StoreVa \/ StoreCount \/ ResetAck \/ Send \/ NotSent \/ Complete \/ GiveUp

Next ==
  \/ \E r \in Ranges : Call(r)
  \/ StoreVa \/ StoreCount \/ ResetAck \/ Send \/ NotSent \/ Complete \/ GiveUp
  \/ \E a \in Aps :
       \/ Take(a) \/ LoadCount(a) \/ LoadVa(a) \/ Invalidate(a) \/ Ack(a)
       \/ \E p \in Pages : Load(a, p)

(* Every processor runs on and takes a pending interrupt.                  *)
Spec ==
  /\ Init /\ [][Next]_vars
  /\ WF_vars(FlushStep)
  /\ \A a \in Aps : WF_vars(HandlerStep(a))

-----------------------------------------------------------------------------
TypeOK ==
  /\ tlb \in [Aps -> [Pages -> {"absent", "fresh", "stale"}]]
  /\ desc \in [va : Pages, count : Counts, ack : Nat]
  /\ pending \in SUBSET Aps
  /\ handler \in [Aps -> [at : {"idle", "taken", "counted", "loaded", "flushed"},
                          va : Pages, count : Counts]]
  /\ bsp \in {"idle", "va", "count", "reset", "send", "poll"}
  /\ request \in [va : Pages, count : 0 .. NumPages]
  /\ report \in BOOLEAN
  /\ quiet \in BOOLEAN
  /\ gaveUp \in BOOLEAN
  /\ calls \in 0 .. MaxCalls

(* A complete report is true: unless a processor was still busy with an    *)
(* earlier call that gave up, no processor uses an old mapping of the      *)
(* range when flush_tlb_range returns, whatever was loaded meanwhile.      *)
CompleteIsTrue ==
  bsp = "idle" /\ report /\ quiet =>
    \A a \in Aps, p \in Pages :
      p \in Covered(request.va, request.count) => tlb[a][p] # "stale"

(* As long as no call gave up, no call starts with a processor busy, and   *)
(* no old mapping survives any call.                                       *)
NothingStaleBetweenCalls ==
  ~ gaveUp /\ bsp = "idle" =>
    quiet /\ \A a \in Aps, p \in Pages : tlb[a][p] # "stale"

(* After the last call every processor comes to drop the old mappings of   *)
(* its range, even when that call gave up and the interrupt is taken late. *)
LastCallReachesAll ==
  (calls = MaxCalls /\ bsp = "poll") ~>
    \A a \in Aps, p \in Pages :
      p \in Covered(request.va, request.count) => tlb[a][p] # "stale"
=============================================================================
