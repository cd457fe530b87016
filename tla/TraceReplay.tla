----------------------------- MODULE TraceReplay -----------------------------
(***************************************************************************)
(* The replay of a failure trace against one job of run_scenario.py, in    *)
(* time: the events of the trace as they are normalised, their delivery at *)
(* their instants, the chain of failures that one restart ends, and the    *)
(* accounting of the window.                                               *)
(*                                                                         *)
(* CohortRuntime has the cohorts, their copies and the other failures; the *)
(* job is one counter here, and its newest complete checkpoint, which is   *)
(* on donors, a number.  What happens in one instant happens in any order. *)
(***************************************************************************)
EXTENDS Integers, Sequences, FiniteSets, FiniteSetsExt

CONSTANTS
    Traces,      \* sequences of raw events [t, job, type], in the order of their times
    TraceJob,    \* the job; the trace may hit others
    ReplayIterations, IterationTime,
    FlushTime,   \* from a boundary to the landing of its checkpoint
    Detect, Reprovision,
    RestoreOf,   \* restore_by_class
    Window

ReplayAssumption ==
    /\ \A raw \in Traces : /\ DOMAIN raw = 1..Len(raw) /\ Len(raw) \in Nat
                           /\ \A i \in DOMAIN raw : raw[i].t \in Nat
                           /\ \A i, j \in DOMAIN raw : i < j => raw[i].t <= raw[j].t
    /\ IterationTime \in Nat \ {0} /\ FlushTime \in Nat /\ ReplayIterations \in Nat
    /\ {Detect, Reprovision} \subseteq Nat /\ Window \in Nat

ASSUME ReplayAssumption

VARIABLES
    trace,       \* raw
    clock,
    delivered,   \* the events of the job that have been delivered
    step,        \* iterations done
    boundary,    \* when the current iteration ends; Never during a recovery and at the end
    flush,       \* the checkpoint on its way, <<iteration, landing>>, or <<>>
    landed,      \* iteration of the newest complete checkpoint
    outage,      \* the failures that are pending, or NoChain
    account,     \* of the job
    report       \* the accounting at the end of the window, or NoReport

replayVars == <<trace, clock, delivered, step, boundary, flush, landed, outage, account, report>>

Never == -1
NoOutage == [kill |-> Never, step |-> 0, end |-> Never]
NoReport == [useful |-> -1, lost |-> 0, recovery |-> 0]

-----------------------------------------------------------------------------
(* normalize_failure_trace. *)

\* An event is an instant and the raw events, the targets, that hit the job in it.
TargetsOf(raw) == {i \in DOMAIN raw : raw[i].job = TraceJob}

\* Mutant of Normalized: every raw event is an event of the job.
NotCoalesced(raw) == {[t |-> raw[i].t, targets |-> {i}] : i \in TargetsOf(raw)}

\* Raw events that hit the job in one instant are one event.
Normalized(raw) ==
    {[t |-> raw[i].t, targets |-> {j \in TargetsOf(raw) : raw[j].t = raw[i].t}] :
        i \in TargetsOf(raw)}

Events == Normalized(trace)

\* The severest class of a burst governs.
RestoreFor(event) == Max({RestoreOf[trace[i].type] : i \in event.targets})

-----------------------------------------------------------------------------
(* The job. *)

Over == boundary = Never /\ outage = NoOutage

\* An iteration ends.  What the trace has killed recovers; otherwise the checkpoint of the
\* boundary starts, unless it is the last one, and the next iteration.
IterationBoundary ==
    /\ boundary = clock
    /\ step' = step + 1
    /\ IF outage # NoOutage \/ step' = ReplayIterations
           THEN boundary' = Never /\ UNCHANGED flush
           ELSE boundary' = clock + IterationTime /\ flush' = <<step', clock + FlushTime>>
    /\ UNCHANGED <<trace, clock, delivered, landed, outage, account, report>>

Landing ==
    /\ flush # <<>> /\ flush[2] = clock
    /\ landed' = flush[1] /\ flush' = <<>>
    /\ UNCHANGED <<trace, clock, delivered, step, boundary, outage, account, report>>

\* trace_event_now: the first event of a chain ends the flush; a later one moves the end
\* of the recovery, by its own class and with no detection.
TraceEventNow(event) ==
    /\ event \in Events \ delivered /\ event.t = clock
    /\ delivered' = delivered \cup {event}
    /\ LET ready == clock + Reprovision + RestoreFor(event)
       IN  IF Over THEN UNCHANGED <<flush, outage, account>>
           ELSE IF outage # NoOutage
           THEN /\ outage' = [outage EXCEPT !.end = ready]
                /\ account' = [account EXCEPT !.resets = @ + 1]
                /\ UNCHANGED flush
           ELSE /\ outage' = [kill |-> clock, step |-> step, end |-> Detect + ready]
                /\ flush' = <<>>
                /\ UNCHANGED account
    /\ UNCHANGED <<trace, clock, step, boundary, landed, report>>

\* _trace_failure, when the recovery is over: at a boundary or later.
Restart ==
    /\ outage # NoOutage /\ boundary = Never /\ outage.end <= clock
    /\ step' = landed /\ boundary' = clock + IterationTime
    /\ account' = [account EXCEPT !.restarts = @ + 1,
                                  !.lost = @ + outage.step - landed,
                                  !.recovery = @ + clock - outage.kill]
    /\ outage' = NoOutage
    /\ UNCHANGED <<trace, clock, delivered, flush, landed, report>>

\* trace_window_monitor: in the middle of a recovery only what is checkpointed counts.
Snapshot ==
    /\ clock = Window /\ report = NoReport
    /\ report' = IF outage = NoOutage
                 THEN [useful |-> step, lost |-> account.lost, recovery |-> account.recovery]
                 ELSE [useful |-> landed, lost |-> account.lost + outage.step - landed,
                       recovery |-> account.recovery + Window - outage.kill]
    /\ UNCHANGED <<trace, clock, delivered, step, boundary, flush, landed, outage, account>>

Due ==
    \/ boundary = clock
    \/ flush # <<>> /\ flush[2] = clock
    \/ \E event \in Events \ delivered : event.t = clock
    \/ outage # NoOutage /\ boundary = Never /\ outage.end <= clock
    \/ clock = Window /\ report = NoReport

\* Time passes when nothing is due.
Pass ==
    /\ ~Due /\ report = NoReport
    /\ clock' = clock + 1
    /\ UNCHANGED <<trace, delivered, step, boundary, flush, landed, outage, account, report>>

-----------------------------------------------------------------------------

ReplayInit ==
    /\ trace \in Traces
    /\ clock = 0 /\ delivered = {}
    /\ step = 0 /\ boundary = IterationTime
    /\ flush = <<>> /\ landed = 0
    /\ outage = NoOutage /\ report = NoReport
    /\ account = [restarts |-> 0, resets |-> 0, lost |-> 0, recovery |-> 0]

ReplayNext ==
    \/ IterationBoundary \/ Landing \/ Restart \/ Snapshot \/ Pass
    \/ \E event \in Events : TraceEventNow(event)

ReplaySpec == ReplayInit /\ [][ReplayNext]_replayVars

-----------------------------------------------------------------------------
(* Properties. *)

Pending == IF outage = NoOutage THEN 0 ELSE 1

\* The failures of the trace are counted once each: those that have hit the job in
\* different instants while it ran or recovered ("equal-t_s events on one job coalesce to
\* ONE restart", tests/test_trace_replay.py:8).
FailuresCounted ==
    LET hits == {trace[i].t : i \in {j \in DOMAIN trace : trace[j].job = TraceJob}}
    IN  ~Over =>
            account.restarts + account.resets + Pending
                = Cardinality({t \in hits : \E event \in delivered : t <= event.t})

\* The window is accounted for: what is not recovery is training, and its iterations, those
\* of no use included, are the useful and the lost ones, but for what each kill and the end
\* of the window cut off (trace_snapshot_at_window).
WindowAccounted ==
    (report # NoReport /\ clock = Window /\ ~Over) =>
        LET trained == Window - report.recovery
            counted == IterationTime * (report.useful + report.lost)
        IN  /\ counted <= trained
            /\ trained <= counted + IterationTime * (account.restarts + Pending + 1)

\* The failures of a trace are counted once each and the window adds up, whatever strikes
\* during a recovery (trace_event_now, _trace_failure, trace_snapshot_at_window).
ReplayAccounted == FailuresCounted /\ WindowAccounted
=============================================================================
