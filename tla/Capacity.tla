------------------------------ MODULE Capacity ------------------------------
(***************************************************************************)
(* The event engine of CapacityRegistry (checkpointing/capacity.py) and its*)
(* clients _capacity_transfer_event and _parity_cutoff_event               *)
(* (checkpointing/crossjob.py).                                            *)
(*                                                                         *)
(* A transfer is a group of flows.  It arms after a settle tick, waits for *)
(* "done" (all its flows landed) or "abort" (a worker it watches failed),  *)
(* and dismisses its group.  A transfer of Cutoff ends when all its flows  *)
(* but one have landed ("partial") and leaves the straggler to a background*)
(* process.  The registry notices that a flow has landed when it touches   *)
(* the component of the flow, the flows that it shares resources with,     *)
(* directly or not: in a pump, a timer armed for the earliest finish, or   *)
(* because a transfer arms or is dismissed.  A touch solves the component  *)
(* again, and finish times change, but a timer cannot be cancelled: one    *)
(* that is early finds nothing to do.                                      *)
(*                                                                         *)
(* Time is relative: a tick brings everything one step nearer.  Bytes and  *)
(* rates are abstracted to the delay after which a flow finishes at its    *)
(* rate, and a solve leaves any delay in 1..MaxDelay.  The heap holds the  *)
(* finish times of the live flows: an entry with an old token is skipped   *)
(* wherever it shows up.  What happens in one instant happens in any       *)
(* order.  Background traffic, which has no finish time, is left out.      *)
(***************************************************************************)
EXTENDS Integers, FiniteSets, FiniteSetsExt

CONSTANTS
    Transfer, Flow, Worker,
    FlowsOf,       \* flows of a transfer
    Uses,          \* resources of a flow
    Watched,       \* workers a transfer watches
    Cutoff,        \* transfers that end at their last flow but one
    MaxDelay,      \* bound: finish time of a flow, from now
    MaxFailures    \* bound: failures of the workers

ASSUME CapacityAssumption ==
    /\ MaxDelay \in Nat \ {0} /\ MaxFailures \in Nat /\ IsFiniteSet(Flow)
    /\ FlowsOf \in [Transfer -> (SUBSET Flow) \ {{}}] /\ Cutoff \subseteq Transfer
    /\ \A s, t \in Transfer : s # t => FlowsOf[s] \cap FlowsOf[t] = {}
    /\ \A t \in Cutoff : Cardinality(FlowsOf[t]) >= 2  \* data and parity, crossjob.py:1779-1822
    /\ Watched \in [Transfer -> SUBSET Worker]

VARIABLES
    process,   \* of a transfer: "idle", "settling", "waiting", "straggling" or its
               \* result: "whole", "failed"
    changed,   \* transfers that watch a worker whose generation changed since
    group,     \* its _GroupState: "none", "armed", "aborted"
    signals,   \* the events of its group that are triggered
    live,      \* registered flows
    delay,     \* when a live flow finishes; 0 is now
    pumps,     \* when the timers that call _ev_pump fire
    wake,      \* _ev_wake_time: the one that is awaited, NoTimer if none is
    failures,
    hit        \* ghost: transfers hit by a failure before enough of their flows landed

capacityVars == <<process, changed, group, signals, live, delay, pumps, wake, failures, hit>>

NoTimer == -1

\* Flows that have to land before the transfer may end well.
Threshold(t) == Cardinality(FlowsOf[t]) - (IF t \in Cutoff THEN 1 ELSE 0)
Enough(t, flows) == Cardinality(FlowsOf[t] \ flows) >= Threshold(t)

-----------------------------------------------------------------------------
(* The registry. *)

\* _ev_component.
Component(seed, flows) ==
    LET Shares(f, g) == Uses[f] \cap Uses[g] # {}
        reached[n \in Nat] == IF n = 0 THEN seed \cap flows
                              ELSE LET S == reached[n - 1]
                                   IN  S \cup {g \in flows : \E f \in S : Shares(f, g)}
    IN  reached[Cardinality(flows)]

\* _ev_fire_completed: "partial" at the threshold, "done" at the last flow.
Fired(t, flows, landed) ==
    IF FlowsOf[t] \cap landed = {} THEN {}
    ELSE {e \in {"partial", "done"} :
              IF e = "partial" THEN t \in Cutoff /\ Enough(t, flows)
                               ELSE FlowsOf[t] \cap flows = {}}

\* _ev_touch of the flows of seed, the registered flows being flows and the groups
\* groups.  A group whose last flow lands is forgotten; one that is aborted is left
\* to its transfer.
Touch(seed, flows, delays, groups) ==
    LET component == Component(seed, flows)
        landed == {f \in component : delays[f] = 0}
        left == flows \ landed
        fired == [t \in Transfer |-> IF groups[t] = "armed" THEN Fired(t, left, landed) ELSE {}]
    IN  /\ live' = left
        /\ signals' = [t \in Transfer |-> signals[t] \cup fired[t]]
        /\ group' = [t \in Transfer |-> IF "done" \in fired[t] THEN "none" ELSE groups[t]]
        /\ \E solved \in [component \ landed -> 1..MaxDelay] :
               delay' = [f \in Flow |-> IF f \in component \ landed THEN solved[f]
                                        ELSE delays[f]]

\* _ev_ensure_wake.
EnsureWake(flows, delays, timers, awaited) ==
    LET first == Min({delays[f] : f \in flows})
    IN  IF flows # {} /\ (awaited = NoTimer \/ first < awaited)
        THEN wake' = first /\ pumps' = timers \cup {first}
        ELSE wake' = awaited /\ pumps' = timers

\* _ev_pump: a timer fires, and the finishes that are due are processed.
Pump ==
    /\ 0 \in pumps
    /\ Touch({f \in live : delay[f] = 0}, live, delay, group)
    /\ EnsureWake(live', delay', pumps \ {0}, NoTimer)
    /\ UNCHANGED <<process, changed, failures, hit>>

\* ev_dismiss: the flows of the group that are left make room for their neighbours.
Dismiss(t, result) ==
    LET dropped == IF group[t] = "none" THEN {} ELSE FlowsOf[t] \cap live
        neighbours == {g \in live \ dropped : \E f \in dropped : Uses[f] \cap Uses[g] # {}}
    IN  /\ process' = [process EXCEPT ![t] = result]
        /\ IF dropped = {}
           THEN /\ group' = [group EXCEPT ![t] = "none"]
                /\ UNCHANGED <<live, delay, signals, wake, pumps>>
           ELSE /\ Touch(neighbours, live \ dropped, delay, [group EXCEPT ![t] = "none"])
                /\ EnsureWake(live', delay', pumps, wake)

-----------------------------------------------------------------------------
(* Transfers. *)

StartTransfer(t) ==
    /\ process[t] = "idle"
    /\ process' = [process EXCEPT ![t] = "settling"]
    /\ UNCHANGED <<changed, group, signals, live, delay, pumps, wake, failures, hit>>

\* After the settle tick, the transfer gives up or arms (ev_arm).
Settle(t) ==
    /\ process[t] = "settling"
    /\ IF t \in changed
       THEN /\ process' = [process EXCEPT ![t] = "failed"]
            /\ UNCHANGED <<group, signals, live, delay, pumps, wake>>
       ELSE /\ process' = [process EXCEPT ![t] = "waiting"]
            /\ Touch(FlowsOf[t], live \cup FlowsOf[t],
                     [f \in Flow |-> IF f \in FlowsOf[t] THEN MaxDelay ELSE delay[f]],
                     [group EXCEPT ![t] = "armed"])
            /\ EnsureWake(live', delay', pumps, wake)
    /\ UNCHANGED <<changed, failures, hit>>

\* Mutant of Finish: what matters is that something woke the transfer.
FinishWhole(t) ==
    /\ process[t] = "waiting" /\ t \notin Cutoff
    /\ signals[t] \cap {"done", "abort"} # {}
    /\ Dismiss(t, "whole")
    /\ UNCHANGED <<changed, failures, hit>>

Finish(t) ==
    /\ process[t] = "waiting" /\ t \notin Cutoff
    /\ signals[t] \cap {"done", "abort"} # {}
    /\ Dismiss(t, IF "abort" \in signals[t] THEN "failed" ELSE "whole")
    /\ UNCHANGED <<changed, failures, hit>>

\* _parity_cutoff_event: the transfer ends, with a straggler or without.
FinishCutoff(t) ==
    /\ process[t] = "waiting" /\ t \in Cutoff
    /\ signals[t] \cap {"partial", "abort"} # {}
    /\ CASE "partial" \notin signals[t] -> Dismiss(t, "failed")
         [] "partial" \in signals[t] /\ FlowsOf[t] \cap live = {} -> Dismiss(t, "whole")
         [] OTHER -> /\ process' = [process EXCEPT ![t] = "straggling"]
                     /\ UNCHANGED <<group, signals, live, delay, pumps, wake>>
    /\ UNCHANGED <<changed, failures, hit>>

\* _bg: the straggler lands or is dropped.
FinishStraggler(t) ==
    /\ process[t] = "straggling"
    /\ signals[t] \cap {"done", "abort"} # {}
    /\ Dismiss(t, "whole")
    /\ UNCHANGED <<changed, failures, hit>>

-----------------------------------------------------------------------------
(* Failures and time. *)

\* A worker fails: ev_notify_worker_change aborts the groups that watch it.
Fail(w) ==
    LET watching == {t \in Transfer : w \in Watched[t]}
        running == {t \in watching : process[t] \in {"settling", "waiting"}}
        aborted == {t \in watching : group[t] = "armed"}
    IN  /\ failures < MaxFailures
        /\ failures' = failures + 1
        /\ changed' = changed \cup running
        /\ group' = [t \in Transfer |-> IF t \in aborted THEN "aborted" ELSE group[t]]
        /\ signals' = [t \in Transfer |-> IF t \in aborted THEN signals[t] \cup {"abort"}
                                                          ELSE signals[t]]
        /\ hit' = hit \cup {t \in running : process[t] = "settling" \/ ~Enough(t, live)}
        /\ UNCHANGED <<process, live, delay, pumps, wake>>

\* Whether a process runs in this instant.
Ready(t) ==
    CASE process[t] = "settling" -> TRUE
      [] process[t] = "waiting" ->
             signals[t] \cap {IF t \in Cutoff THEN "partial" ELSE "done", "abort"} # {}
      [] process[t] = "straggling" -> signals[t] \cap {"done", "abort"} # {}
      [] OTHER -> FALSE

Nearer(n) == IF n > 0 THEN n - 1 ELSE n

Tick ==
    /\ pumps \cup live # {} /\ 0 \notin pumps /\ \A t \in Transfer : ~Ready(t)
    /\ pumps' = {n - 1 : n \in pumps}
    /\ wake' = Nearer(wake)
    /\ delay' = [f \in Flow |-> IF f \in live THEN Nearer(delay[f]) ELSE delay[f]]
    /\ UNCHANGED <<process, changed, group, signals, live, failures, hit>>

CapacityInit ==
    /\ process = [t \in Transfer |-> "idle"]
    /\ changed = {} /\ hit = {}
    /\ group = [t \in Transfer |-> "none"]
    /\ signals = [t \in Transfer |-> {}]
    /\ live = {} /\ pumps = {} /\ wake = NoTimer
    /\ delay = [f \in Flow |-> MaxDelay]
    /\ failures = 0

CapacityNext ==
    \/ Pump \/ Tick
    \/ \E t \in Transfer : \/ StartTransfer(t) \/ Settle(t) \/ Finish(t) \/ FinishCutoff(t)
                           \/ FinishStraggler(t)
    \/ \E w \in Worker : Fail(w)

CapacitySpec == CapacityInit /\ [][CapacityNext]_capacityVars

-----------------------------------------------------------------------------
(* Properties. *)

\* A live flow finishes at its time: some timer fires no later, however often the
\* solves have moved the finish (no lost wake-up of _ev_ensure_wake and _ev_pump).
OnTime == \A f \in live : \E n \in pumps : n <= delay[f]

\* A transfer that loses a worker it watches before enough of its flows have landed
\* does not report success, even if the two happen in one instant; one that no failure
\* touched does not fail (done and abort exclude each other).
HitNeverWhole ==
    \A t \in Transfer : /\ t \in hit => process[t] \notin {"straggling", "whole"}
                        /\ process[t] = "failed" => t \in hit

\* A transfer that is over holds no bandwidth and leaves no group behind: its flows
\* are not registered, whatever order its end, its abort and its neighbours' took.
NothingLeft ==
    \A t \in Transfer : process[t] \in {"idle", "settling", "whole", "failed"} =>
        group[t] = "none"
        /\ FlowsOf[t] \cap live = {}

\* A flow ends when it is due, a transfer that was hit never reports success, and one
\* that is over leaves nothing behind.
TransfersExact == OnTime /\ HitNeverWhole /\ NothingLeft

-----------------------------------------------------------------------------
(* The inductive invariant (CapacityProofs). *)

CapacityTypes ==
    /\ process \in [Transfer -> {"idle", "settling", "waiting", "straggling", "whole", "failed"}]
    /\ changed \subseteq Transfer /\ hit \subseteq Transfer
    /\ group \in [Transfer -> {"none", "armed", "aborted"}]
    /\ signals \in [Transfer -> SUBSET {"partial", "done", "abort"}]
    /\ live \subseteq Flow /\ delay \in [Flow -> 0..MaxDelay]
    /\ pumps \subseteq Nat /\ wake \in pumps \cup {NoTimer}
    /\ failures \in 0..MaxFailures

\* The timer that is awaited is no later than any finish; the others do not count.
Awaited == \A f \in live : wake # NoTimer /\ wake <= delay[f]

\* A group is there as long as it has flows to land, and its signals tell how many
\* have.
GroupsExact(flows, groups) ==
    \A t \in Transfer :
        /\ groups[t] = "none" => FlowsOf[t] \cap flows = {}
        /\ groups[t] = "armed" => FlowsOf[t] \cap flows # {} /\ "abort" \notin signals[t]
        /\ groups[t] = "aborted" => "abort" \in signals[t]
        /\ "partial" \in signals[t] => t \in Cutoff /\ Enough(t, flows)
        /\ groups[t] = "armed" /\ t \in Cutoff /\ Enough(t, flows) => "partial" \in signals[t]

\* What a transfer has been told by the time it looks.
HitKnown(t) ==
    /\ process[t] \in {"idle", "settling"} => signals[t] = {}
    /\ process[t] \in {"idle", "settling", "whole", "failed"} => group[t] = "none"
    /\ process[t] = "idle" => t \notin changed /\ t \notin hit
    /\ process[t] = "settling" => (t \in hit <=> t \in changed)
    /\ process[t] = "waiting" =>
          (t \in hit <=> "abort" \in signals[t] /\ "partial" \notin signals[t])
    /\ process[t] \in {"straggling", "whole"} => t \notin hit
    /\ process[t] = "failed" => t \in hit

CapacityInductive == CapacityTypes /\ Awaited /\ GroupsExact(live, group)
             /\ \A t \in Transfer : HitKnown(t)
=============================================================================
