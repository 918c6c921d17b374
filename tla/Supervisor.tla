----------------------------- MODULE Supervisor -----------------------------
(***************************************************************************)
(* The PID 1 service manager of crates/nexacore-init: manifest validation  *)
(* and the dependency graph (manifest.rs, graph.rs), and the supervisor    *)
(* loop (supervisor.rs) over a host that spawns, kills and probes the      *)
(* processes.                                                              *)
(*                                                                         *)
(* Service names are 1 .. N in the order of the names.  The start_all and  *)
(* shutdown loops take one service per step, because the processes go on   *)
(* running meanwhile; tick touches each service independently of the       *)
(* others and is one step.  The clock is kept as the time left to each     *)
(* deadline.  A pid is modelled by the process it names: "owned" is the    *)
(* process of a service that runtime.pid names, "lost" the processes of    *)
(* that service that are alive and named by no pid.                        *)
(***************************************************************************)
EXTENDS Integers, Sequences, FiniteSets

CONSTANTS N,             \* number of manifests
          Policy,        \* RestartPolicy of each service
          Sockets,       \* services with a SocketSpec
          HealthEvery,   \* HealthCheck::interval_ms, 0 without one
          BaseMs, MaxMs, Factor,   \* Backoff
          CountMax,      \* the value restart_count saturates at (u32::MAX)
          TimeMax,       \* the value times saturate at (u64::MAX)
          MaxRefusals    \* bound: spawns and sockets the host refuses

Services == 1 .. N

ASSUME SupervisorAssumption ==
  /\ N \in Nat
  /\ Policy \in [Services -> {"Never", "OnFailure", "Always"}]
  /\ Sockets \subseteq Services
  /\ HealthEvery \in [Services -> Nat]
  /\ BaseMs \in Nat /\ MaxMs \in Nat /\ Factor \in Nat
  /\ CountMax \in Nat \ {0} /\ TimeMax \in Nat /\ MaxMs <= TimeMax
  /\ MaxRefusals \in Nat

VARIABLES
  requires,  \* ServiceManifest::requires
  phase,     \* the call in progress, or the state between calls
  order,     \* Supervisor::order
  pos,       \* position in order of the loop in progress
  rt,        \* Supervisor::runtimes
  owned,     \* the host's process that the pid of a service names
  lost,      \* live processes of a service that no pid names
  refusals   \* requests the host has refused

vars == <<requires, phase, order, pos, rt, owned, lost, refusals>>

Running == {"Well", "Ill"}                   \* a live process
Exited == {"Succeeded", "Crashed"}           \* one that is not reaped yet
Statuses == {"Pending", "SocketArmed", "Running", "Backoff", "Stopped", "Failed"}

-----------------------------------------------------------------------------
(* Backoff::delay_ms: the loop multiplies, saturating, until it meets the  *)
(* maximum.                                                                *)
AtMost(x, bound) == IF x < bound THEN x ELSE bound

\* Mutant: the delay before the n-th restart is grown n times.
DelayMs_OneStepMore(base, max, factor, n) ==
  LET delay[step \in 1 .. n + 1] ==
        IF step = 1 THEN base
        ELSE AtMost(AtMost(delay[step - 1] * factor, TimeMax), max)
  IN IF n = 0 THEN 0 ELSE AtMost(delay[n + 1], max)

DelayMs(base, max, factor, n) ==
  LET delay[step \in 1 .. n] ==
        IF step = 1 THEN base
        ELSE AtMost(AtMost(delay[step - 1] * factor, TimeMax), max)
  IN IF n = 0 THEN 0 ELSE AtMost(delay[n], max)

-----------------------------------------------------------------------------
(* DependencyGraph::topological_order, Kahn's algorithm: the least ready   *)
(* name is appended and the services that require it are relaxed.          *)
Least(S) == CHOOSE x \in S : \A y \in S : x <= y

\* Mutant: a dependent is ready as soon as one prerequisite is placed.
Relaxed_First(k, req, next) ==
  {s \in Services : next \in req[s] /\ k.degree[s] > 0}

(* The dependents whose last prerequisite was next.                        *)
Relaxed(k, req, next) == {s \in Services : next \in req[s] /\ k.degree[s] = 1}

KahnStep(k, req) ==
  LET next == Least(k.ready)
  IN IF k.ready = {} THEN k
     ELSE [order |-> Append(k.order, next),
           degree |-> [s \in Services |-> IF next \in req[s] /\ k.degree[s] > 0
                                            THEN k.degree[s] - 1
                                            ELSE k.degree[s]],
           ready |-> (k.ready \ {next}) \union Relaxed(k, req, next)]

TopologicalOrder(req) ==
  LET kahn[i \in 0 .. N] ==
        IF i = 0
          THEN [order |-> <<>>,
                degree |-> [s \in Services |-> Cardinality(req[s])],
                ready |-> {s \in Services : req[s] = {}}]
          ELSE KahnStep(kahn[i - 1], req)
  IN kahn[N].order

-----------------------------------------------------------------------------
(* Every set of manifests; a dependency on an absent name is rejected by   *)
(* from_manifests and is left out.                                         *)
Init ==
  /\ requires \in [Services -> SUBSET Services]
  /\ phase = "new"
  /\ order = <<>>
  /\ pos = 0
  /\ rt = [s \in Services |->
             [status |-> "Pending", pid |-> FALSE, count |-> 0, wait |-> 0,
              since |-> 0]]
  /\ owned = [s \in Services |-> "None"]
  /\ lost = [s \in Services |-> 0]
  /\ refusals = 0

(* Supervisor::new, with validate.                                         *)
Valid(req) == \A s \in Services : s \notin req[s]

New ==
  /\ phase = "new"
  /\ IF Valid(requires) /\ Len(TopologicalOrder(requires)) = N
       THEN /\ phase' = "starting"
            /\ order' = TopologicalOrder(requires)
            /\ pos' = 1
       ELSE /\ phase' = "rejected"
            /\ UNCHANGED <<order, pos>>
  /\ UNCHANGED <<requires, rt, owned, lost, refusals>>

(* The host is asked to create a process or a socket and may refuse.       *)
Refuse(n) == refusals + n <= MaxRefusals /\ refusals' = refusals + n

(* spawn_service: the pid of the new process replaces the one on record.   *)
Spawned(r) == [r EXCEPT !.status = "Running", !.pid = TRUE, !.since = 0]

LeftBehind(s) == IF owned[s] \in Running THEN 1 ELSE 0

Spawn(s) ==
  /\ rt' = [rt EXCEPT ![s] = Spawned(@)]
  /\ owned' = [owned EXCEPT ![s] = "Well"]
  /\ lost' = [lost EXCEPT ![s] = @ + LeftBehind(s)]

(* One service of start_all; it gives up at the first refusal.             *)
StartNext ==
  /\ phase = "starting"
  /\ pos <= N
  /\ LET s == order[pos] IN
       IF s \in Sockets
         THEN /\ rt' = [rt EXCEPT ![s].status = "SocketArmed"]
              /\ UNCHANGED <<owned, lost>>
         ELSE Spawn(s)
  /\ pos' = pos + 1
  /\ UNCHANGED <<requires, phase, order, refusals>>

StartRefused ==
  /\ phase = "starting"
  /\ pos <= N
  /\ Refuse(1)
  /\ phase' = "up"
  /\ UNCHANGED <<requires, order, pos, rt, owned, lost>>

Started ==
  /\ phase = "starting"
  /\ pos = N + 1
  /\ phase' = "up"
  /\ UNCHANGED <<requires, order, pos, rt, owned, lost, refusals>>

(* notify_socket_connection.                                               *)
Connection(s) ==
  /\ phase \in {"up", "down"}
  /\ rt[s].status = "SocketArmed"
  /\ \/ Spawn(s) /\ UNCHANGED refusals
     \/ Refuse(1) /\ UNCHANGED <<rt, owned, lost>>
  /\ UNCHANGED <<requires, phase, order, pos>>

-----------------------------------------------------------------------------
(* tick: poll_one for every service, then maybe_restart for every service. *)

ShouldRestart(s, success) ==
  Policy[s] = "Always" \/ (Policy[s] = "OnFailure" /\ ~ success)

\* Mutant: the restart counter does not saturate.
NextCount_Overflows(n) == n + 1

NextCount(n) == AtMost(n + 1, CountMax)

(* restart_count and restart_at_ms of the next restart.                    *)
Later(r) ==
  LET n == NextCount(r.count)
  IN [r EXCEPT !.status = "Backoff", !.count = n,
               !.wait = DelayMs(BaseMs, MaxMs, Factor, n)]

(* handle_termination.                                                     *)
Terminated(s, r, success) ==
  IF ShouldRestart(s, success) THEN Later([r EXCEPT !.pid = FALSE])
  ELSE [r EXCEPT !.pid = FALSE, !.status = "Failed"]

Polled(s) == rt[s].status = "Running" /\ rt[s].pid

HealthDue(s) == HealthEvery[s] > 0 /\ rt[s].since >= HealthEvery[s]

Unhealthy(s) == Polled(s) /\ owned[s] = "Ill" /\ HealthDue(s)

AfterPoll(s) ==
  IF ~ Polled(s) THEN rt[s]
  ELSE IF owned[s] \in Exited THEN Terminated(s, rt[s], owned[s] = "Succeeded")
  ELSE IF Unhealthy(s) THEN Terminated(s, [rt[s] EXCEPT !.since = 0], FALSE)
  ELSE IF HealthDue(s) THEN [rt[s] EXCEPT !.since = 0]
  ELSE rt[s]

\* Mutant: an unhealthy process is given up without being killed.
Killed_Not(s) == FALSE

(* poll_one kills the process of a service that reports unhealthy.         *)
Killed(s) == Unhealthy(s)

RestartDue(s) == AfterPoll(s).status = "Backoff" /\ AfterPoll(s).wait = 0

\* Mutant: a refused restart is given up.
RestartRefused_GivesUp(r) == [r EXCEPT !.status = "Failed"]

(* A refused restart is another crash.                                     *)
RestartRefused(r) == Later(r)

(* The host refuses the restarts in the set no.                            *)
Tick(no) ==
  /\ phase \in {"up", "down"}
  /\ no \subseteq {s \in Services : RestartDue(s)}
  /\ Refuse(Cardinality(no))
  /\ rt' = [s \in Services |->
       IF ~ RestartDue(s) THEN AfterPoll(s)
       ELSE IF s \in no THEN RestartRefused(AfterPoll(s))
       ELSE Spawned(AfterPoll(s))]
  /\ owned' = [s \in Services |->
       IF RestartDue(s) /\ s \notin no THEN "Well"
       ELSE IF rt'[s].pid THEN owned[s] ELSE "None"]
  /\ lost' = [s \in Services |->
       IF ~ Killed(s) /\ owned[s] \in Running
          /\ (~ rt'[s].pid \/ (RestartDue(s) /\ s \notin no))
         THEN lost[s] + 1 ELSE lost[s]]
  /\ UNCHANGED <<requires, phase, order, pos>>

-----------------------------------------------------------------------------
(* A Terminate or Interrupt signal: shutdown, last started first.          *)
Signal ==
  /\ phase = "up"
  /\ phase' = "stopping"
  /\ pos' = N
  /\ UNCHANGED <<requires, order, rt, owned, lost, refusals>>

\* Mutant: services are stopped in the order in which they were started.
ToStop_StartOrder == order[N + 1 - pos]

ToStop == order[pos]

\* Mutant: a service that is waiting for its restart is left alone.
Stopped_NotBackoff(r) ==
  IF r.status \in {"Running", "SocketArmed", "Pending"}
    THEN [r EXCEPT !.status = "Stopped", !.pid = FALSE] ELSE r

(* What shutdown makes of a service; only a running one has a pid.         *)
Stopped(r) ==
  IF r.status \in {"Running", "SocketArmed", "Backoff", "Pending"}
    THEN [r EXCEPT !.status = "Stopped", !.pid = FALSE] ELSE r

StopNext ==
  /\ phase = "stopping"
  /\ pos >= 1
  /\ rt' = [rt EXCEPT ![ToStop] = Stopped(@)]
  /\ owned' = [owned EXCEPT ![ToStop] =
                 IF rt[ToStop].status = "Running" THEN "None" ELSE @]
  /\ pos' = pos - 1
  /\ UNCHANGED <<requires, phase, order, lost, refusals>>

Down ==
  /\ phase = "stopping"
  /\ pos = 0
  /\ phase' = "down"
  /\ UNCHANGED <<requires, order, pos, rt, owned, lost, refusals>>

-----------------------------------------------------------------------------
(* The processes and the clock.                                            *)
Exit(s, how) ==
  /\ owned[s] \in Running
  /\ owned' = [owned EXCEPT ![s] = how]
  /\ UNCHANGED <<requires, phase, order, pos, rt, lost, refusals>>

FallIll(s) ==
  /\ owned[s] = "Well"
  /\ HealthEvery[s] > 0
  /\ owned' = [owned EXCEPT ![s] = "Ill"]
  /\ UNCHANGED <<requires, phase, order, pos, rt, lost, refusals>>

Less(n) == IF n = 0 THEN 0 ELSE n - 1

Advance ==
  /\ phase \in {"up", "down"}
  /\ rt' = [s \in Services |->
       [rt[s] EXCEPT !.wait = Less(@), !.since = AtMost(@ + 1, HealthEvery[s])]]
  /\ UNCHANGED <<requires, phase, order, pos, owned, lost, refusals>>

Next ==
  \/ New \/ StartNext \/ StartRefused \/ Started
  \/ Signal \/ StopNext \/ Down \/ Advance
  \/ \E no \in SUBSET Services : Tick(no)
  \/ \E s \in Services :
       \/ Connection(s) \/ FallIll(s)
       \/ \E how \in Exited : Exit(s, how)

(* PID 1 calls tick again and again and the monotonic clock advances.      *)
Spec ==
  /\ Init /\ [][Next]_vars
  /\ WF_vars(\E no \in SUBSET Services : Tick(no))
  /\ WF_vars(Advance)
  /\ WF_vars(StopNext \/ Down)

-----------------------------------------------------------------------------
TypeOK ==
  /\ requires \in [Services -> SUBSET Services]
  /\ phase \in {"new", "rejected", "starting", "up", "stopping", "down"}
  /\ order \in Seq(Services)
  /\ pos \in 0 .. N + 1
  /\ rt \in [Services -> [status : Statuses, pid : BOOLEAN,
                          count : 0 .. CountMax, wait : 0 .. MaxMs, since : Nat]]
  /\ owned \in [Services -> Running \union Exited \union {"None"}]
  /\ lost \in [Services -> Nat]
  /\ refusals \in 0 .. MaxRefusals

(* topological_order: manifests are rejected exactly when some services    *)
(* wait for each other, and otherwise every service comes once, after all  *)
(* it requires.                                                            *)
Cyclic(req) ==
  \E S \in SUBSET Services : S # {} /\ \A s \in S : req[s] \cap S # {}

OrderIsTopological ==
  /\ phase = "rejected" => Cyclic(requires)
  /\ phase \notin {"new", "rejected"} =>
       /\ Len(order) = N
       /\ \A s \in Services : \E i \in 1 .. N : order[i] = s
       /\ \A i, j \in 1 .. N : order[i] \in requires[order[j]] => i < j

(* The supervisor knows every live process it started: whatever the host   *)
(* refuses and whenever a service exits, falls ill or is stopped, no       *)
(* process outlives the pid on record for it.                              *)
NoProcessLost ==
  \A s \in Services :
    /\ lost[s] = 0
    /\ owned[s] # "None" <=> rt[s].pid
    /\ rt[s].pid <=> rt[s].status = "Running"

(* shutdown stops services "in reverse dependency order": while one that   *)
(* it stopped is down, nothing that requires it is still alive.            *)
DependentsStopFirst ==
  phase \in {"stopping", "down"} =>
    \A s, d \in Services :
      (rt[s].status = "Stopped" /\ s \in requires[d]) => owned[d] \notin Running

(* After shutdown nothing runs and nothing is started again, by a tick, an *)
(* expired backoff or a late connection.                                   *)
ShutdownIsFinal ==
  phase = "down" => \A s \in Services : owned[s] = "None" /\ lost[s] = 0

(* The delay before the n-th restart is min(max, base * factor^(n-1)), as  *)
(* the documentation of Backoff defines it, saturation included.           *)
Power(x, k) ==
  LET power[i \in 0 .. k] == IF i = 0 THEN 1 ELSE power[i - 1] * x
  IN power[k]

BackoffIsExponential ==
  phase = "new" =>
    \A base, max \in 0 .. TimeMax, factor \in 1 .. 3, n \in 1 .. 4 :
      base <= max =>
        DelayMs(base, max, factor, n) = AtMost(base * Power(factor, n - 1), max)

(* A service that is to be restarted runs again or is stopped by shutdown: *)
(* a refused spawn does not end the attempts.                              *)
CrashIsRepaired ==
  \A s \in Services :
    rt[s].status = "Backoff" ~> rt[s].status \in {"Running", "Stopped"}
=============================================================================
