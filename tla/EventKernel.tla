---------------------------- MODULE EventKernel ----------------------------
(***************************************************************************)
(* The event loop of simpy/__init__.py: Environment, Event, Timeout,       *)
(* Process, AllOf and AnyOf.  Every other module of the project relies on  *)
(* it: that what a process does between two yields is atomic, that it goes *)
(* on exactly once for each yield, and only for the event it yielded.      *)
(*                                                                         *)
(* A turn of a process is what its generator does between two yields; each *)
(* call it makes to the kernel is an action of its own, and "running" says *)
(* whose turn it is.  What generators do is left open: any call, in any    *)
(* order.  Times are relative to now.                                      *)
(***************************************************************************)
EXTENDS Integers, Sequences, FiniteSets, SequencesExt

CONSTANTS
    Process,
    None,        \* nobody's turn
    APIs,        \* the sets of calls that generators make in an instance
    MaxEvents,   \* bound: events created
    MaxDelay,    \* bound: the delay of a timeout
    MaxTurns     \* bound: the turns of a process

KernelAssumption ==
    /\ None \notin Process /\ IsFiniteSet(Process)
    /\ APIs \subseteq SUBSET {"timeout", "event", "all", "any", "interrupt", "fail"}
    /\ {MaxEvents, MaxDelay, MaxTurns} \subseteq Nat
    /\ Process \cap 1..MaxEvents = {}

ASSUME KernelAssumption

Created == 1..MaxEvents
Event == Created \cup Process   \* a process is an event: its end

VARIABLES
    api,          \* those of this one: a parameter
    agenda,       \* the queue of _ScheduledCallback, first to run first
    kind,         \* what each event was created as, "none" before
    members,      \* Condition.events
    seen,         \* AllOf._values: members whose _check has run
    outcome,      \* _ok of an event
    callbacks,    \* Event.callbacks
    running,      \* whose turn it is
    cause,        \* why: it starts, is interrupted or gets the event it waited for
    turns,        \* per process, turns taken (bounds the model; 0: not started)
    token,        \* _wait_token
    awaited,      \* the event a process yielded
    interrupted   \* processes with a _pending_interrupt

eventVars == <<kind, members, seen>>
turnVars == <<running, cause, turns>>
waitVars == <<token, awaited, interrupted>>
kernelVars == <<api, agenda, eventVars, outcome, callbacks, turnVars, waitVars>>

-----------------------------------------------------------------------------
(* Environment and Event. *)

Triggered(e) == outcome[e] # "pending"

Start(p) == <<"turn", p>>
Fire(e) == <<"fire", e>>
Check(c, e) == <<"check", c, e>>
Wake(p, e, n) == <<"resume", p, e, n>>

\* The entries of a that run before a callback that is scheduled now: by time, then
\* URGENT before NORMAL, then in order of calls.
Earlier(a, delay, urgent) ==
    {i \in 1..Len(a) : \/ a[i].at < delay
                       \/ a[i].at = delay /\ (a[i].urgent \/ ~urgent)}

\* _schedule, for each of the callbacks dos.
ScheduleAll(a, delay, urgent, dos) ==
    LET n == Cardinality(Earlier(a, delay, urgent))
        entries == [i \in 1..Len(dos) |-> [at |-> delay, urgent |-> urgent, do |-> dos[i]]]
    IN  SubSeq(a, 1, n) \o entries \o SubSeq(a, n + 1, Len(a))

Schedule(a, delay, urgent, do) == ScheduleAll(a, delay, urgent, <<do>>)

\* _trigger, with the agenda a.
Trigger(a, e, result) ==
    /\ outcome' = [outcome EXCEPT ![e] = result]
    /\ callbacks' = [callbacks EXCEPT ![e] = <<>>]
    /\ agenda' = ScheduleAll(a, 0, FALSE, callbacks[e])

\* Mutant of AddCallback: an event that has been triggered calls back no more.
AddToList(e, do) ==
    /\ callbacks' = [callbacks EXCEPT ![e] = Append(@, do)]
    /\ UNCHANGED agenda

\* add_callback: at once when the event has been triggered.
AddCallback(e, do) ==
    IF Triggered(e)
    THEN agenda' = Schedule(agenda, 0, FALSE, do) /\ UNCHANGED callbacks
    ELSE /\ callbacks' = [callbacks EXCEPT ![e] = Append(@, do)]
         /\ UNCHANGED agenda

Due == Head(agenda).do

\* The agenda once its first entry is taken and the clock stands at its time.
Rest == [i \in 1..(Len(agenda) - 1) |->
            [agenda[i + 1] EXCEPT !.at = @ - Head(agenda).at]]

-----------------------------------------------------------------------------
(* Environment._step: the first callback of the agenda runs. *)

Stepping(what) == running = None /\ agenda # <<>> /\ Due[1] = what

FireTimeout ==
    /\ Stepping("fire")
    /\ Trigger(Rest, Due[2], "ok")
    /\ UNCHANGED <<api, eventVars, turnVars, waitVars>>

\* What _check of a condition makes of its member e.
Verdict(c, e) ==
    IF outcome[e] = "failed" THEN "failed"
    ELSE IF kind[c] = "any" \/ members[c] \subseteq seen[c] \cup {e} THEN "ok"
    ELSE "pending"

CheckCondition ==
    /\ Stepping("check")
    /\ LET c == Due[2]
           e == Due[3]
           verdict == Verdict(c, e)
       IN  IF Triggered(c)
           THEN agenda' = Rest /\ UNCHANGED <<outcome, callbacks, seen>>
           ELSE /\ seen' = [seen EXCEPT ![c] = @ \cup {e}]
                /\ IF verdict = "pending"
                   THEN agenda' = Rest /\ UNCHANGED <<outcome, callbacks>>
                   ELSE Trigger(Rest, c, verdict)
    /\ UNCHANGED <<api, kind, members, turnVars, waitVars>>

\* A callback of a wait that was given up, or of a process that is over.
Stale(do) == Triggered(do[2]) \/ (do[1] = "resume" /\ do[4] # token[do[2]])

DropResume ==
    /\ Stepping("turn") \/ Stepping("resume")
    /\ Stale(Due)
    /\ agenda' = Rest
    /\ UNCHANGED <<api, eventVars, outcome, callbacks, turnVars, waitVars>>

\* An interrupt thrown into a generator that has not started ends it.
InterruptUnstarted ==
    /\ Stepping("turn") \/ Stepping("resume")
    /\ LET p == Due[2]
       IN  /\ ~Stale(Due)
           /\ p \in interrupted /\ turns[p] = 0
           /\ Trigger(Rest, p, "failed")
           /\ interrupted' = interrupted \ {p}
    /\ UNCHANGED <<api, eventVars, turnVars, token, awaited>>

ResumeProcess ==
    /\ Stepping("turn") \/ Stepping("resume")
    /\ LET p == Due[2]
       IN  /\ ~Stale(Due)
           /\ ~(p \in interrupted /\ turns[p] = 0)
           /\ running' = p
           /\ turns' = [turns EXCEPT ![p] = @ + 1]
           /\ cause' = IF p \in interrupted THEN <<"interrupt">>
                       ELSE IF Due[1] = "resume" THEN <<"event", Due[3]>>
                       ELSE <<"start">>
           /\ interrupted' = interrupted \ {p}
    /\ agenda' = Rest
    /\ UNCHANGED <<api, eventVars, outcome, callbacks, token, awaited>>

-----------------------------------------------------------------------------
(* A turn: the calls of the generator, then a yield or the end. *)

New == CHOOSE e \in Created :
          kind[e] = "none" /\ \A f \in Created : f < e => kind[f] # "none"

\* The process whose turn it is creates an event.
Creates(what) ==
    /\ running # None /\ what \in api
    /\ \E e \in Created : kind[e] = "none"
    /\ kind' = [kind EXCEPT ![New] = what]

CreateTimeout(delay) ==
    /\ Creates("timeout")
    /\ agenda' = Schedule(agenda, delay, FALSE, Fire(New))
    /\ UNCHANGED <<api, members, seen, outcome, callbacks, turnVars, waitVars>>

CreateEvent ==
    /\ Creates("event")
    /\ UNCHANGED <<api, agenda, members, seen, outcome, callbacks, turnVars, waitVars>>

\* succeed() and fail() of an event made by event(); only instances with "fail"
\* have events and processes that fail.
TriggerEvent(e, result) ==
    /\ running # None
    /\ kind[e] = "event" /\ ~Triggered(e)
    /\ result = "ok" \/ "fail" \in api
    /\ Trigger(agenda, e, result)
    /\ UNCHANGED <<api, eventVars, turnVars, waitVars>>

Exists(e) == IF e \in Process THEN TRUE ELSE kind[e] # "none"

\* all_of and any_of: every member is asked to call _check.
CreateCondition(what, es) ==
    /\ Creates(what)
    /\ \A e \in es : Exists(e)
    /\ members' = [members EXCEPT ![New] = es]
    /\ LET called == SetToSeq({e \in es : Triggered(e)})
       IN  agenda' = ScheduleAll(agenda, 0, FALSE,
                                 [i \in 1..Len(called) |-> Check(New, called[i])])
    /\ callbacks' = [e \in Event |-> IF e \in es /\ ~Triggered(e)
                                     THEN Append(callbacks[e], Check(New, e))
                                     ELSE callbacks[e]]
    /\ UNCHANGED <<api, seen, outcome, turnVars, waitVars>>

\* interrupt() of another process.  No caller interrupts a process again before
\* it has run (main.py:299-303): the kernel would resume it twice.
Interrupt(q) ==
    /\ running # None /\ "interrupt" \in api
    /\ q # running /\ ~Triggered(q) /\ q \notin interrupted
    /\ interrupted' = interrupted \cup {q}
    /\ token' = [token EXCEPT ![q] = @ + 1]
    /\ agenda' = Schedule(agenda, 0, TRUE, Start(q))
    /\ UNCHANGED <<api, eventVars, outcome, callbacks, turnVars, awaited>>

\* _wait_for: a process yields an event it knows.
Yield(e) ==
    /\ running # None /\ e # running /\ Exists(e)
    /\ turns[running] < MaxTurns
    /\ token' = [token EXCEPT ![running] = @ + 1]
    /\ awaited' = [awaited EXCEPT ![running] = e]
    /\ AddCallback(e, Wake(running, e, token[running] + 1))
    /\ running' = None /\ cause' = <<"none">>
    /\ UNCHANGED <<api, eventVars, outcome, turns, interrupted>>

\* The generator returns, or raises.
EndProcess(result) ==
    /\ running # None
    /\ result = "ok" \/ "fail" \in api
    /\ Trigger(agenda, running, result)
    /\ running' = None /\ cause' = <<"none">>
    /\ UNCHANGED <<api, eventVars, turns, waitVars>>

-----------------------------------------------------------------------------

KernelInit ==
    /\ api \in APIs
    /\ LET order == SetToSeq(Process)
       IN  agenda = ScheduleAll(<<>>, 0, TRUE, [i \in 1..Len(order) |-> Start(order[i])])
    /\ kind = [e \in Created |-> "none"]
    /\ members = [e \in Created |-> {}]
    /\ seen = [e \in Created |-> {}]
    /\ outcome = [e \in Event |-> "pending"]
    /\ callbacks = [e \in Event |-> <<>>]
    /\ running = None
    /\ cause = <<"none">>
    /\ turns = [p \in Process |-> 0]
    /\ token = [p \in Process |-> 0]
    /\ awaited = [p \in Process |-> p]
    /\ interrupted = {}

Loop == \/ FireTimeout
        \/ CheckCondition
        \/ DropResume
        \/ InterruptUnstarted
        \/ ResumeProcess

Turn == \/ \E delay \in 0..MaxDelay : CreateTimeout(delay)
        \/ CreateEvent
        \/ \E e \in Created, result \in {"ok", "failed"} : TriggerEvent(e, result)
        \/ \E what \in {"all", "any"}, es \in SUBSET Event :
              Cardinality(es) = 2 /\ CreateCondition(what, es)
        \/ \E q \in Process : Interrupt(q)
        \/ \E e \in Event : Yield(e)
        \/ \E result \in {"ok", "failed"} : EndProcess(result)

\* run() without a horizon returns when the agenda is empty.
RunReturns == running = None /\ agenda = <<>> /\ UNCHANGED kernelVars

KernelNext == Loop \/ Turn \/ RunReturns

KernelSpec == KernelInit /\ [][KernelNext]_kernelVars

-----------------------------------------------------------------------------
(* Properties. *)

\* The first entry of the agenda is always the one to run next, whatever was
\* scheduled in which order, and only events that exist call back.
AgendaOK ==
    /\ \A i, j \in 1..Len(agenda) :
          i < j => \/ agenda[i].at < agenda[j].at
                   \/ /\ agenda[i].at = agenda[j].at
                      /\ agenda[j].urgent => agenda[i].urgent
    /\ \A e \in Event : /\ outcome[e] \in {"pending", "ok", "failed"}
                        /\ callbacks[e] # <<>> => Exists(e) /\ ~Triggered(e)
    /\ running \in Process \cup {None}
    /\ interrupted \subseteq Process

\* Callback do would resume process p.
Wakes(p, do) == do[1] \in {"turn", "resume"} /\ do[2] = p /\ ~Stale(do)

\* How many would: scheduled ones, and those that a pending event holds.
Wakeups(p) ==
    Cardinality({i \in 1..Len(agenda) : Wakes(p, agenda[i].do)})
    + Cardinality(UNION {{e} \X {i \in 1..Len(callbacks[e]) : Wakes(p, callbacks[e][i])} :
                            e \in {f \in Event : ~Triggered(f)}})

\* No wakeup is lost and none is repeated: a process that has yielded is resumed
\* exactly once, whether its event was triggered before it yielded, later, or it
\* was interrupted meanwhile (__init__.py:153-157, 206-219, 243-255).
OneWakeup ==
    \A p \in Process :
        (~Triggered(p) /\ running # p /\ turns[p] > 0) => Wakeups(p) = 1

\* A process goes on because it was interrupted, or because the very event it
\* yielded last has been triggered (__init__.py:213-217).
ResumedByItsEvent ==
    [][\A p \in Process :
          running # p /\ running' = p =>
             \/ cause' = <<"start">> /\ turns[p] = 0
             \/ cause' = <<"interrupt">> /\ p \in interrupted
             \/ cause' = <<"event", awaited[p]>> /\ Triggered(awaited[p])]_kernelVars

\* An AllOf succeeds only when all its members have, an AnyOf when one has; a
\* condition fails only with a member.  It never misses its moment: once the
\* callbacks it is owed have run, it is triggered (__init__.py:258-289).
ConditionsExact ==
    \A c \in Created : kind[c] \in {"all", "any"} =>
        LET done == {e \in members[c] : outcome[e] = "ok"}
            owed == \E i \in 1..Len(agenda) : \E e \in members[c] :
                        agenda[i].do = Check(c, e)
        IN  /\ outcome[c] = "ok" =>
                  IF kind[c] = "all" THEN done = members[c] ELSE done # {}
            /\ outcome[c] = "failed" => \E e \in members[c] : outcome[e] = "failed"
            /\ (~Triggered(c) /\ ~owed) =>
                  /\ \A e \in members[c] : outcome[e] # "failed"
                  /\ IF kind[c] = "all" THEN done # members[c] ELSE done = {}

\* The event loop: the agenda is in order, a process that waits has one wakeup to come
\* and goes on for no other reason, and a condition fires exactly when its verdict is
\* known.
KernelExact == [](AgendaOK /\ OneWakeup /\ ConditionsExact) /\ ResumedByItsEvent
=============================================================================
