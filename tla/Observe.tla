------------------------------ MODULE Observe -------------------------------
(***************************************************************************)
(* The event bus (core/event/event.c) and the counters that listen to it   *)
(* (core/event/metrics.c).  Threads emit events, subscribe, and use the    *)
(* counters.  A section under g_event_mu or g_metrics_mu is one step, and  *)
(* so is a pthread_once; what an emit copied under the lock it calls after *)
(* unlocking, one listener a step.  The first emit subscribes the metrics  *)
(* listeners; the capability those listeners pass on is granted only by    *)
(* the first call of a counter operation.  A listener of the program does  *)
(* nothing here.  Counters are named after the events they count; the      *)
(* program has names of its own.                                           *)
(***************************************************************************)
EXTENDS Integers, Sequences, FiniteSets, FiniteSetsExt

CONSTANTS ObThreads,
          Events,       \* events with a metrics listener
          Names,        \* counters of the program's own
          MetricsMax,   \* METRICS_MAX
          MaxSubs,      \* OO_EVENT_MAX_SUBSCRIBERS
          MaxEmits      \* bound: emits, and increments, of the run

ASSUME ObAssumption == IsFiniteSet(ObThreads) /\ "idle" \notin Events /\ Events \cap Names = {}

VARIABLES subscribed,   \* metrics_sub_once_init has run
          fns,          \* event |-> its listeners, "metrics" or "user"
          selfCap,      \* metrics_init_once has granted g_metrics_self_cap
          counters,     \* g_metrics: name |-> value, for the slots in use
          obPc, obTodo, \* each emitting thread: the event, the listeners still to call
          dead,         \* the process has exited on a refused capability
          emitted,      \* event |-> how often the program emitted it
          cleared,      \* name |-> what resets took from it
          dropped       \* name |-> increments that found no slot

obVars == <<subscribed, fns, selfCap, counters, obPc, obTodo, dead, emitted, cleared, dropped>>
obGhosts == <<emitted, cleared, dropped>>

ObInit ==
  /\ subscribed = FALSE /\ fns = [e \in Events |-> <<>>]
  /\ selfCap = FALSE /\ counters = <<>>
  /\ obPc = [t \in ObThreads |-> "idle"] /\ obTodo = [t \in ObThreads |-> <<>>]
  /\ dead = FALSE
  /\ emitted = [e \in Events |-> 0]
  /\ cleared = [n \in Events \cup Names |-> 0] /\ dropped = cleared

ObIdle(t) == obPc[t] = "idle" /\ ~ dead
Add1(f, x) == [f EXCEPT ![x] = @ + 1]
-----------------------------------------------------------------------------
(* The event bus. *)

\* oo_event_subscribe under the lock: no test for a listener that is there already.
Subscribed(f, e, fn) == IF Len(f[e]) < MaxSubs THEN [f EXCEPT ![e] = Append(@, fn)] ELSE f

oo_event_subscribe(t, e) ==
  /\ ObIdle(t)
  /\ fns' = Subscribed(fns, e, "user")
  /\ UNCHANGED <<subscribed, selfCap, counters, obPc, obTodo, dead, obGhosts>>

\* Mutant: every emit subscribes the listeners again.
oo_metrics_ensure_subscribed_always ==
  /\ subscribed' = TRUE
  /\ fns' = [e \in Events |-> Subscribed(fns, e, "metrics")[e]]

\* oo_metrics_ensure_subscribed: pthread_once.
oo_metrics_ensure_subscribed ==
  /\ subscribed' = TRUE
  /\ fns' = IF subscribed THEN fns ELSE [e \in Events |-> Subscribed(fns, e, "metrics")[e]]

\* oo_event_emit up to the lock, and the copy of the listeners under it.
oo_event_emit(t, e) ==
  /\ ObIdle(t) /\ emitted[e] < MaxEmits
  /\ oo_metrics_ensure_subscribed
  /\ obPc' = [obPc EXCEPT ![t] = e]
  /\ emitted' = Add1(emitted, e)
  /\ UNCHANGED <<selfCap, counters, obTodo, dead, cleared, dropped>>

EmitCopy(t) ==
  /\ obPc[t] \in Events /\ obTodo[t] = <<>> /\ ~ dead
  /\ obTodo' = [obTodo EXCEPT ![t] = Append(fns[obPc[t]], "return")]
  /\ UNCHANGED <<subscribed, fns, selfCap, counters, obPc, dead, obGhosts>>
-----------------------------------------------------------------------------
(* The counters. *)

\* oo_metrics_incr once the capability and the name are accepted: the slot of the name, else a
\* free one, else nothing.
Incr(n) ==
  LET has == n \in DOMAIN counters
  IN IF has \/ Cardinality(DOMAIN counters) < MetricsMax
     THEN /\ counters' = [m \in DOMAIN counters \cup {n} |->
                            (IF m \in DOMAIN counters THEN counters[m] ELSE 0)
                              + (IF m = n THEN 1 ELSE 0)]
          /\ UNCHANGED dropped
     ELSE dropped' = Add1(dropped, n) /\ UNCHANGED counters

\* The next listener of an emit.  The metrics listener passes g_metrics_self_cap as it finds it:
\* before the first counter operation that is 0, and the gate ends the process.
CallListener(t) ==
  /\ obTodo[t] # <<>> /\ Head(obTodo[t]) # "return" /\ ~ dead
  /\ obTodo' = [obTodo EXCEPT ![t] = Tail(@)]
  /\ IF Head(obTodo[t]) = "metrics" /\ selfCap
     THEN Incr(obPc[t]) ELSE UNCHANGED <<counters, dropped>>
  /\ dead' = (Head(obTodo[t]) = "metrics" /\ ~ selfCap)
  /\ UNCHANGED <<subscribed, fns, selfCap, obPc, emitted, cleared>>

EmitReturn(t) ==
  /\ obTodo[t] = <<"return">> /\ ~ dead
  /\ obPc' = [obPc EXCEPT ![t] = "idle"] /\ obTodo' = [obTodo EXCEPT ![t] = <<>>]
  /\ UNCHANGED <<subscribed, fns, selfCap, counters, dead, obGhosts>>

\* The program's own increment, with a capability it was granted.
oo_metrics_incr(t, n) ==
  /\ ObIdle(t)
  /\ cleared[n] + dropped[n] + (IF n \in DOMAIN counters THEN counters[n] ELSE 0) < MaxEmits
  /\ selfCap' = TRUE
  /\ Incr(n)
  /\ UNCHANGED <<subscribed, fns, obPc, obTodo, dead, emitted, cleared>>

\* oo_metrics_get and oo_metrics_export change nothing but the first-use grant.
oo_metrics_get(t) ==
  /\ ObIdle(t)
  /\ selfCap' = TRUE
  /\ UNCHANGED <<subscribed, fns, counters, obPc, obTodo, dead, obGhosts>>

\* The slot stays in use.
oo_metrics_reset(t, n) ==
  /\ ObIdle(t)
  /\ n \in DOMAIN counters /\ counters[n] > 0
  /\ selfCap' = TRUE
  /\ counters' = [counters EXCEPT ![n] = 0]
  /\ cleared' = [cleared EXCEPT ![n] = @ + counters[n]]
  /\ UNCHANGED <<subscribed, fns, obPc, obTodo, dead, emitted, dropped>>

ObNext ==
  \E t \in ObThreads :
    \/ \E e \in Events : oo_event_subscribe(t, e) \/ oo_event_emit(t, e)
    \/ EmitCopy(t) \/ CallListener(t) \/ EmitReturn(t)
    \/ \E n \in Names : oo_metrics_incr(t, n)
    \/ oo_metrics_get(t)
    \/ \E n \in Events \cup Names : oo_metrics_reset(t, n)

ObSpec == ObInit /\ [][ObNext]_obVars
-----------------------------------------------------------------------------
\* Threads in an emit of e whose metrics listener has yet to run.
Emitting(e) ==
  Cardinality({t \in ObThreads :
    /\ obPc[t] = e
    /\ \/ obTodo[t] = <<>>
       \/ \E i \in DOMAIN obTodo[t] : obTodo[t][i] = "metrics"})

(* Each emit of an event counts once (event.c, metrics.c), whatever threads *)
(* emit, subscribe and reset meanwhile: the emits whose listener has run    *)
(* are in the counter, were cleared by a reset, or found the table full     *)
(* (as long as the program's own listeners, subscribed before the first     *)
(* emit, have not filled the event's list).                                 *)
EventsCounted ==
  \A e \in Events :
    (~ dead /\ (subscribed => \E i \in DOMAIN fns[e] : fns[e][i] = "metrics")) =>
      (IF e \in DOMAIN counters THEN counters[e] ELSE 0) + cleared[e] + dropped[e]
        = emitted[e] - Emitting(e)
=============================================================================
