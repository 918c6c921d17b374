------------------------- MODULE TlbShootdownProofs -------------------------
(* What a complete report of flush_tlb_range means, for every number of    *)
(* application processors, pages and calls, and whatever the timing.       *)
EXTENDS TlbShootdown, FiniteSetTheorems, TLAPS

-----------------------------------------------------------------------------
(* Type correctness.                                                       *)

LEMMA StoredType ==
  ASSUME NEW n \in 0 .. NumPages
  PROVE  StoredCount(n) \in Counts
BY TlbAssumption DEF StoredCount, SHOOTDOWN_FULL_FLUSH, Counts

LEMMA InitType == Init => TypeOK
<1> SUFFICES ASSUME Init PROVE TypeOK
  OBVIOUS
<1>1. 0 \in Pages /\ 0 \in Counts /\ 0 \in 0 .. NumPages /\ 0 \in 0 .. MaxCalls
  BY TlbAssumption DEF Pages, Counts
<1>2. handler \in [Aps -> [at : {"idle", "taken", "counted", "loaded", "flushed"},
                          va : Pages, count : Counts]]
  BY <1>1 DEF Init, Idle
<1>3. request \in [va : Pages, count : 0 .. NumPages]
      /\ desc \in [va : Pages, count : Counts, ack : Nat]
  BY <1>1 DEF Init, NoRange
<1>4. tlb \in [Aps -> [Pages -> {"absent", "fresh", "stale"}]]
  BY DEF Init
<1> QED BY <1>1, <1>2, <1>3, <1>4 DEF Init, TypeOK

LEMMA FlushStepType ==
  ASSUME TypeOK, StoreVa \/ StoreCount \/ ResetAck \/ Send \/ NotSent \/ Complete \/ GiveUp
  PROVE  TypeOK'
<1>1. CASE StoreVa
  BY <1>1 DEF StoreVa, TypeOK
<1>2. CASE StoreCount
  <2>1. StoredCount(request.count) \in Counts
    BY StoredType DEF TypeOK
  <2> QED BY <1>2, <2>1 DEF StoreCount, TypeOK
<1>3. CASE ResetAck
  BY <1>3 DEF ResetAck, Reset, TypeOK
<1>4. CASE Send \/ NotSent
  BY <1>4 DEF Send, NotSent, TypeOK
<1>5. CASE Complete \/ GiveUp
  BY <1>5 DEF Complete, GiveUp, TypeOK
<1> QED BY <1>1, <1>2, <1>3, <1>4, <1>5

LEMMA CallType ==
  ASSUME TypeOK, NEW r \in Ranges, Call(r)
  PROVE  TypeOK'
<1>1. tlb' \in [Aps -> [Pages -> {"absent", "fresh", "stale"}]]
  BY DEF Call, TypeOK
<1>2. request' \in [va : Pages, count : 0 .. NumPages]
  BY TlbAssumption DEF Call, Ranges
<1>3. calls' \in 0 .. MaxCalls
  BY TlbAssumption DEF Call, TypeOK
<1>4. bsp' \in {"idle", "va"} /\ report' \in BOOLEAN
  BY DEF Call
<1> QED BY <1>1, <1>2, <1>3, <1>4 DEF Call, TypeOK

LEMMA HandlerType ==
  ASSUME TypeOK, NEW a \in Aps,
         Take(a) \/ LoadCount(a) \/ LoadVa(a) \/ Invalidate(a) \/ Ack(a)
  PROVE  TypeOK'
<1>1. CASE Take(a)
  BY <1>1 DEF Take, TypeOK
<1>2. CASE LoadCount(a)
  BY <1>2 DEF LoadCount, TypeOK
<1>3. CASE LoadVa(a)
  BY <1>3 DEF LoadVa, TypeOK
<1>4. CASE Invalidate(a)
  <2>1. tlb' \in [Aps -> [Pages -> {"absent", "fresh", "stale"}]]
    BY <1>4 DEF Invalidate, TypeOK
  <2> QED BY <1>4, <2>1 DEF Invalidate, TypeOK
<1>5. CASE Ack(a)
  <2>1. Idle \in [at : {"idle", "taken", "counted", "loaded", "flushed"},
                  va : Pages, count : Counts]
    BY TlbAssumption DEF Idle, Pages, Counts
  <2> QED BY <1>5, <2>1 DEF Ack, TypeOK
<1> QED BY <1>1, <1>2, <1>3, <1>4, <1>5

LEMMA LoadType ==
  ASSUME TypeOK, NEW a \in Aps, NEW p \in Pages, Load(a, p)
  PROVE  TypeOK'
BY DEF Load, TypeOK

LEMMA NextType == TypeOK /\ [Next]_vars => TypeOK'
<1> SUFFICES ASSUME TypeOK, [Next]_vars PROVE TypeOK'
  OBVIOUS
<1>1. CASE UNCHANGED vars
  BY <1>1 DEF vars, TypeOK
<1> QED BY <1>1, CallType, FlushStepType, HandlerType, LoadType DEF Next

(* The descriptor, the handlers and the TLBs keep their types.             *)
THEOREM TypeCorrect == Spec => []TypeOK
BY InitType, NextType, PTL DEF Spec

-----------------------------------------------------------------------------
(* The inductive invariant.  The acknowledgements of a call that found the *)
(* processors quiet are exactly those of the processors that have flushed  *)
(* its range since.                                                        *)

AllQuiet == pending = {} /\ \A a \in Aps : handler[a] = Idle

Clean(a) ==
  \A p \in Pages : p \in Covered(request.va, request.count) => tlb[a][p] # "stale"

Done == {a \in Aps : a \notin pending /\ handler[a].at = "idle"}

(* What the call has stored in the descriptor by now.                      *)
Published ==
  /\ bsp \in {"count", "reset", "send", "poll"} => desc.va = request.va
  /\ bsp \in {"reset", "send", "poll"} => desc.count = StoredCount(request.count)

(* A handler that is not running holds nothing.                            *)
Rested == \A a \in Aps : handler[a].at = "idle" => handler[a] = Idle

Silent == bsp # "idle" => ~ report

Prepared == quiet /\ bsp = "send" => AllQuiet /\ desc.ack = 0

(* One processor on its way from the interrupt to the acknowledgement.     *)
OnItsWay(a) ==
  /\ a \in pending => handler[a].at = "idle"
  /\ handler[a].at \in {"counted", "loaded"} => handler[a].count = desc.count
  /\ handler[a].at = "loaded" => handler[a].va = desc.va
  /\ handler[a].at = "flushed" => Clean(a)
  /\ a \in Done => Clean(a)

Polling ==
  quiet /\ bsp = "poll" =>
    desc.ack = Cardinality(Done) /\ \A a \in Aps : OnItsWay(a)

Finished ==
  bsp = "idle" /\ report /\ quiet => AllQuiet /\ \A a \in Aps : Clean(a)

(* As long as no call gave up.                                             *)
Calm ==
  ~ gaveUp =>
    /\ quiet
    /\ bsp # "poll" => AllQuiet
    /\ \A a \in Aps, p \in Pages :
         tlb[a][p] = "stale" =>
           bsp # "idle" /\ p \in Covered(request.va, request.count)

Inv ==
  /\ TypeOK
  /\ Published
  /\ Rested
  /\ Silent
  /\ Prepared
  /\ Polling
  /\ Finished
  /\ Calm

(* What is stored makes every processor flush at least the range.          *)
LEMMA FlushCovers ==
  ASSUME NEW va, NEW n \in 0 .. NumPages
  PROVE  Covered(va, n) \subseteq Flushed(va, StoredCount(n))
BY TlbAssumption DEF Flushed, StoredCount, SHOOTDOWN_FULL_FLUSH, Covered

LEMMA DoneFinite ==
  IsFiniteSet(Done) /\ Cardinality(Done) \in Nat /\ Done \subseteq Aps
<1>1. Done \subseteq Aps
  BY DEF Done
<1> QED BY <1>1, TlbAssumption, FS_Subset, FS_CardinalityType

LEMMA InitInv == Init => Inv
<1> SUFFICES ASSUME Init PROVE Inv
  OBVIOUS
<1>1. TypeOK
  BY InitType
<1>2. Published /\ Rested /\ Silent /\ Prepared /\ Polling /\ Finished
  BY DEF Init, Published, Rested, Silent, Prepared, Polling, Finished
<1>3. Calm
  BY DEF Init, Calm, AllQuiet
<1> QED BY <1>1, <1>2, <1>3 DEF Inv

LEMMA CallInv ==
  ASSUME Inv, NEW r \in Ranges, Call(r)
  PROVE  Inv'
<1>1. TypeOK'
  BY CallType DEF Inv
<1>2. /\ bsp = "idle" /\ request' = r
      /\ UNCHANGED <<desc, pending, handler, quiet, gaveUp>>
      /\ \A a \in Aps, p \in Pages :
           tlb'[a][p] = "stale" => p \in Covered(r.va, r.count) \/ tlb[a][p] = "stale"
  BY DEF Call, Inv, TypeOK
<1>3. CASE Aps = {}
  <2>1. bsp' = "idle" /\ pending = {}
    BY <1>3 DEF Call, Inv, TypeOK
  <2> QED BY <1>1, <1>2, <1>3, <2>1
          DEF Inv, Published, Rested, Silent, Prepared, Polling, Finished, Calm, AllQuiet
<1>4. CASE Aps # {}
  <2>1. bsp' = "va" /\ report' = FALSE
    BY <1>4 DEF Call
  <2>2. Published' /\ Rested' /\ Silent' /\ Prepared' /\ Polling' /\ Finished'
    BY <1>2, <2>1 DEF Inv, Published, Rested, Silent, Prepared, Polling, Finished
  <2>3. Calm'
    BY <1>2, <2>1 DEF Inv, Calm, AllQuiet
  <2> QED BY <1>1, <2>2, <2>3 DEF Inv
<1> QED BY <1>3, <1>4

LEMMA StoreInv ==
  ASSUME Inv, StoreVa \/ StoreCount
  PROVE  Inv'
<1>1. TypeOK'
  BY FlushStepType DEF Inv
<1>2. /\ bsp \in {"va", "count"} /\ bsp' \in {"count", "reset"}
      /\ UNCHANGED <<tlb, pending, handler, request, report, quiet, gaveUp>>
  BY DEF StoreVa, StoreCount
<1>3. Published'
  BY DEF Inv, TypeOK, Published, StoreVa, StoreCount
<1>4. Rested' /\ Silent' /\ Prepared' /\ Polling' /\ Finished'
  BY <1>2 DEF Inv, Rested, Silent, Prepared, Polling, Finished
<1>5. Calm'
  BY <1>2 DEF Inv, Calm, AllQuiet
<1> QED BY <1>1, <1>3, <1>4, <1>5 DEF Inv

LEMMA ResetInv ==
  ASSUME Inv, ResetAck
  PROVE  Inv'
<1>1. TypeOK'
  BY FlushStepType DEF Inv
<1>2. /\ bsp = "reset" /\ bsp' = "send" /\ desc'.ack = 0
      /\ desc'.va = desc.va /\ desc'.count = desc.count
      /\ UNCHANGED <<tlb, pending, handler, request, report, gaveUp>>
      /\ quiet' <=> AllQuiet
  BY DEF ResetAck, Reset, AllQuiet, Inv, TypeOK
<1>3. Published' /\ Rested' /\ Silent' /\ Polling' /\ Finished'
  BY <1>2 DEF Inv, Published, Rested, Silent, Polling, Finished
<1>4. Prepared'
  BY <1>2 DEF Prepared, AllQuiet
<1>5. Calm'
  BY <1>2 DEF Inv, Calm, AllQuiet
<1> QED BY <1>1, <1>3, <1>4, <1>5 DEF Inv

LEMMA SendInv ==
  ASSUME Inv, Send
  PROVE  Inv'
<1>1. TypeOK'
  BY FlushStepType DEF Inv
<1>2. /\ bsp = "send" /\ bsp' = "poll" /\ pending' = Aps
      /\ UNCHANGED <<tlb, desc, handler, request, report, quiet, gaveUp>>
  BY DEF Send
<1>3. Published' /\ Rested' /\ Silent' /\ Prepared' /\ Finished'
  BY <1>2 DEF Inv, Published, Rested, Silent, Prepared, Finished
<1>4. Polling'
  <2> SUFFICES ASSUME quiet PROVE (desc.ack = Cardinality(Done) /\ \A a \in Aps : OnItsWay(a))'
    BY <1>2 DEF Polling
  <2>1. AllQuiet /\ desc.ack = 0
    BY <1>2 DEF Inv, Prepared
  <2>2. Done' = {}
    BY <1>2 DEF Done
  <2>3. Cardinality(Done') = 0
    BY <2>2, FS_EmptySet
  <2>4. \A a \in Aps : handler'[a].at = "idle"
    BY <1>2, <2>1 DEF AllQuiet, Idle
  <2>5. \A a \in Aps : OnItsWay(a)'
    BY <2>2, <2>4 DEF OnItsWay
  <2> QED BY <1>2, <2>1, <2>3, <2>5
<1>5. Calm'
  BY <1>2 DEF Inv, Calm
<1> QED BY <1>1, <1>3, <1>4, <1>5 DEF Inv

LEMMA NotSentInv ==
  ASSUME Inv, NotSent \/ GiveUp
  PROVE  Inv'
<1>1. TypeOK'
  BY FlushStepType DEF Inv
<1>2. /\ bsp # "idle" /\ bsp' = "idle" /\ gaveUp' = TRUE
      /\ UNCHANGED <<desc, handler, report>>
  BY DEF NotSent, GiveUp
<1>3. ~ report'
  BY <1>2 DEF Inv, Silent
<1> QED BY <1>1, <1>2, <1>3
        DEF Inv, Published, Rested, Silent, Prepared, Polling, Finished, Calm

LEMMA CompleteInv ==
  ASSUME Inv, Complete
  PROVE  Inv'
<1>1. TypeOK'
  BY FlushStepType DEF Inv
<1>2. /\ bsp = "poll" /\ bsp' = "idle" /\ desc.ack >= Cardinality(Aps)
      /\ UNCHANGED <<tlb, desc, pending, handler, request, quiet, gaveUp>>
  BY DEF Complete, Enough
<1>3. ASSUME quiet PROVE AllQuiet /\ \A a \in Aps : Clean(a)
  <2>1. desc.ack = Cardinality(Done) /\ \A a \in Aps : OnItsWay(a)
    BY <1>2, <1>3 DEF Inv, Polling
  <2>2. Cardinality(Aps) \in Nat /\ Cardinality(Done) <= Cardinality(Aps)
    BY TlbAssumption, DoneFinite, FS_Subset, FS_CardinalityType
  <2>3. Cardinality(Done) = Cardinality(Aps)
    BY <1>2, <2>1, <2>2, DoneFinite
  <2>4. Done = Aps
    BY <2>3, TlbAssumption, DoneFinite, FS_Subset
  <2>5. pending = {} /\ \A a \in Aps : handler[a].at = "idle"
    BY <2>4 DEF Done, Inv, TypeOK
  <2> QED BY <2>1, <2>4, <2>5 DEF OnItsWay, AllQuiet, Inv, Rested
<1>4. Published' /\ Rested' /\ Silent' /\ Prepared' /\ Polling'
  BY <1>2 DEF Inv, Published, Rested, Silent, Prepared, Polling
<1>5. Finished'
  BY <1>2, <1>3 DEF Finished, AllQuiet, Clean
<1>6. Calm'
  BY <1>2, <1>3 DEF Inv, Calm, AllQuiet, Clean
<1> QED BY <1>1, <1>4, <1>5, <1>6 DEF Inv

(* A step of processor a's handler, seen by the call it belongs to.        *)
LEMMA HandlerInv ==
  ASSUME Inv, NEW a \in Aps,
         Take(a) \/ LoadCount(a) \/ LoadVa(a) \/ Invalidate(a) \/ Ack(a)
  PROVE  Inv'
<1>1. TypeOK'
  BY HandlerType DEF Inv
<1>2. /\ UNCHANGED <<bsp, request, report, quiet, gaveUp>>
      /\ desc'.va = desc.va /\ desc'.count = desc.count
      /\ \A b \in Aps : b # a => handler'[b] = handler[b]
      /\ \A b \in Aps : b # a => (b \in pending' <=> b \in pending)
      /\ \A b \in Aps, p \in Pages : tlb'[b][p] = "stale" => tlb[b][p] = "stale"
      /\ a \in pending \/ handler[a].at # "idle"
  BY DEF Take, LoadCount, LoadVa, Invalidate, Ack, Inv, TypeOK
<1>3. ~ AllQuiet
  BY <1>2 DEF AllQuiet, Idle
<1>4. Published' /\ Silent'
  BY <1>2 DEF Inv, Published, Silent
<1>5. Rested'
  <2>1. handler'[a].at = "idle" => handler'[a] = Idle
    BY DEF Take, LoadCount, LoadVa, Invalidate, Ack, Inv, TypeOK
  <2> QED BY <1>2, <2>1 DEF Inv, Rested
<1>6. Prepared' /\ Finished'
  BY <1>2, <1>3 DEF Inv, Prepared, Finished
<1>7. Calm'
  BY <1>2, <1>3 DEF Inv, Calm
<1>8. Polling'
  <2> SUFFICES ASSUME quiet, bsp = "poll"
               PROVE  (desc.ack = Cardinality(Done) /\ \A b \in Aps : OnItsWay(b))'
    BY <1>2 DEF Polling
  <2>1. /\ desc.ack = Cardinality(Done)
        /\ \A b \in Aps : OnItsWay(b)
        /\ desc.va = request.va /\ desc.count = StoredCount(request.count)
    BY DEF Inv, Polling, Published
  <2>2. \A b \in Aps : Clean(b) => Clean(b)'
    BY <1>2 DEF Clean
  <2>3. \A b \in Aps : b # a => OnItsWay(b)'
    BY <1>2, <2>1, <2>2 DEF OnItsWay, Done
  <2>4. CASE Take(a) \/ LoadCount(a) \/ LoadVa(a)
    <3>1. OnItsWay(a) /\ desc' = desc
      BY <2>1, <2>4 DEF Take, LoadCount, LoadVa
    <3>4. a \notin Done /\ a \notin pending'
      BY <2>4, <3>1 DEF Take, LoadCount, LoadVa, Done, OnItsWay
    <3>5. /\ Take(a) => handler'[a].at = "taken"
          /\ LoadCount(a) => handler'[a].at = "counted" /\ handler'[a].count = desc.count
          /\ LoadVa(a) => /\ handler'[a].at = "loaded" /\ handler'[a].va = desc.va
                          /\ handler[a].at = "counted" /\ handler'[a].count = handler[a].count
      <4>1. handler[a] \in [at : {"idle", "taken", "counted", "loaded", "flushed"},
                            va : Pages, count : Counts]
        BY DEF Inv, TypeOK
      <4>2. Take(a) => handler'[a] = [handler[a] EXCEPT !.at = "taken"]
        BY DEF Take, Inv, TypeOK
      <4>3. LoadCount(a) => handler'[a] = [handler[a] EXCEPT !.at = "counted", !.count = desc.count]
        BY DEF LoadCount, Inv, TypeOK
      <4>4. LoadVa(a) => /\ handler'[a] = [handler[a] EXCEPT !.at = "loaded", !.va = desc.va]
                         /\ handler[a].at = "counted"
        BY DEF LoadVa, Inv, TypeOK
      <4> QED BY <4>1, <4>2, <4>3, <4>4
    <3>2. Done' = Done
      BY <1>2, <2>4, <3>4, <3>5 DEF Done
    <3>3. OnItsWay(a)'
      BY <2>4, <3>1, <3>2, <3>4, <3>5 DEF OnItsWay
    <3> QED BY <2>1, <2>3, <3>1, <3>2, <3>3
  <2>5. CASE Invalidate(a)
    <3>1. /\ handler[a].at = "loaded" /\ handler'[a].at = "flushed" /\ a \notin pending'
          /\ desc' = desc /\ a \notin Done /\ pending' = pending
      BY <2>1, <2>5 DEF Invalidate, Done, Inv, TypeOK, OnItsWay
    <3>2. Done' = Done
      BY <1>2, <3>1 DEF Done
    <3>3. Clean(a)'
      <4>1. handler[a].va = request.va /\ handler[a].count = StoredCount(request.count)
        BY <2>1, <3>1 DEF OnItsWay
      <4>2. Covered(request.va, request.count) \subseteq Flushed(handler[a].va, handler[a].count)
        BY <4>1, FlushCovers DEF Inv, TypeOK
      <4>3. \A p \in Pages : p \in Flushed(handler[a].va, handler[a].count)
                               => tlb'[a][p] = "absent"
        BY <2>5 DEF Invalidate, Inv, TypeOK
      <4> QED BY <1>2, <4>2, <4>3 DEF Clean
    <3>4. OnItsWay(a)'
      BY <3>1, <3>2, <3>3 DEF OnItsWay
    <3> QED BY <2>1, <2>3, <3>1, <3>2, <3>4
  <2>6. CASE Ack(a)
    <3>1. /\ handler[a].at = "flushed" /\ handler'[a].at = "idle" /\ a \notin pending
          /\ desc'.ack = desc.ack + 1 /\ pending' = pending /\ tlb' = tlb
      BY <2>1, <2>6 DEF Ack, Idle, Inv, TypeOK, OnItsWay
    <3>2. Done' = Done \cup {a} /\ a \notin Done
      BY <1>2, <3>1 DEF Done
    <3>3. Cardinality(Done') = Cardinality(Done) + 1
      BY <3>2, DoneFinite, FS_AddElement
    <3>4. OnItsWay(a)'
      BY <2>1, <2>2, <3>1 DEF OnItsWay
    <3> QED BY <2>1, <2>3, <3>1, <3>3, <3>4
  <2> QED BY <2>4, <2>5, <2>6
<1> QED BY <1>1, <1>4, <1>5, <1>6, <1>7, <1>8 DEF Inv

LEMMA LoadInv ==
  ASSUME Inv, NEW a \in Aps, NEW p \in Pages, Load(a, p)
  PROVE  Inv'
<1>1. TypeOK'
  BY LoadType DEF Inv
<1>2. /\ UNCHANGED <<desc, pending, handler, bsp, request, report, quiet, gaveUp>>
      /\ \A b \in Aps, q \in Pages : tlb'[b][q] = "stale" => tlb[b][q] = "stale"
  BY DEF Load, Inv, TypeOK
<1>3. \A b \in Aps : Clean(b) => Clean(b)'
  BY <1>2 DEF Clean
<1>4. Done' = Done
  BY <1>2 DEF Done
<1>5. Polling'
  BY <1>2, <1>3, <1>4 DEF Inv, Polling, OnItsWay
<1>6. Published' /\ Rested' /\ Silent' /\ Prepared' /\ Finished' /\ Calm'
  BY <1>2, <1>3 DEF Inv, Published, Rested, Silent, Prepared, Finished, Calm, AllQuiet
<1> QED BY <1>1, <1>5, <1>6 DEF Inv

LEMMA NextInv == Inv /\ [Next]_vars => Inv'
<1> SUFFICES ASSUME Inv, [Next]_vars PROVE Inv'
  OBVIOUS
<1>1. CASE UNCHANGED vars
  BY <1>1 DEF vars, Inv, TypeOK, Published, Rested, Silent, Prepared, Polling, Finished,
              Calm, AllQuiet, OnItsWay, Clean, Done
<1> QED BY <1>1, CallInv, StoreInv, ResetInv, SendInv, NotSentInv, CompleteInv,
           HandlerInv, LoadInv DEF Next

(* A call that found every processor quiet when it reset the counter, and  *)
(* then counted one acknowledgement per processor, leaves no processor     *)
(* with an old mapping of its range.                                       *)
THEOREM ReportIsTrue == Spec => []CompleteIsTrue
<1>1. Inv => CompleteIsTrue
  BY DEF Inv, Finished, CompleteIsTrue, Clean
<1> QED BY <1>1, InitInv, NextInv, PTL DEF Spec

(* As long as no call gave up, every call finds the processors quiet and   *)
(* none leaves an old mapping anywhere.                                    *)
THEOREM CalmUntilGivenUp == Spec => []NothingStaleBetweenCalls
<1>1. Inv => NothingStaleBetweenCalls
  BY DEF Inv, Calm, NothingStaleBetweenCalls
<1> QED BY <1>1, InitInv, NextInv, PTL DEF Spec
=============================================================================
