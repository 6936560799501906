------------------------------ MODULE Blackbox ------------------------------
(***************************************************************************)
(* The flight recorder (core/blackbox/blackbox.c): a ring of the last      *)
(* events, written by any thread without a lock, and the autopsy report    *)
(* made of it by a fatal signal's handler or by a refused capability.      *)
(*                                                                         *)
(* The sequence number is taken by one atomic add; the entry's fields are  *)
(* plain writes, here two steps (the number, then the text).  The text of  *)
(* an event is the number of the record call that wrote it.  Timestamps,   *)
(* the stack and the report's layout (blackbox_emit.c) are left out: a     *)
(* report is what the ring holds when it is read.                          *)
(***************************************************************************)
EXTENDS Integers, Sequences, FiniteSets

CONSTANTS BbThreads,
          RingCap,      \* BLACKBOX_RING_CAPACITY
          MaxEvents,    \* bound: events of the run
          Sigs          \* the signals that have a handler

ASSUME RingAssumption == RingCap \in Nat \ {0}

VARIABLES bbInited,     \* s_initialized
          handled,      \* signals whose handler is installed
          bbCount,      \* s_ring.count
          entry,        \* s_ring.events: the number and the text of each entry
          inHandler,    \* s_in_handler
          bbAlive,      \* the process has not been ended by a signal
          bpc, bloc,    \* each thread: the place, what comes after the record, its number
          lapped,       \* some recorder's entry was reused before it had finished writing
          cut           \* entries whose recorder was stopped for good by its own signal handler

bbVars == <<bbInited, handled, bbCount, entry, inHandler, bbAlive, bpc, bloc, lapped, cut>>

None == [seq |-> 0, text |-> 0]
Rest == [after |-> "idle", init |-> FALSE, seq |-> 0, sig |-> "none"]

BbInit ==
  /\ bbInited = FALSE /\ handled = {} /\ bbCount = 0
  /\ entry = [i \in 0 .. RingCap - 1 |-> None]
  /\ inHandler = FALSE /\ bbAlive = TRUE
  /\ bpc = [t \in BbThreads |-> "idle"] /\ bloc = [t \in BbThreads |-> Rest]
  /\ lapped = FALSE /\ cut = {}

BbAt(t, l) == bpc[t] = l /\ bbAlive
BbGoto(t, l) == bpc' = [bpc EXCEPT ![t] = l]

\* Mutant: numbers from 1 taken for numbers from 0.
IdxFromZero(seq) == seq % RingCap

Idx(seq) == (seq - 1) % RingCap
-----------------------------------------------------------------------------
(* blackbox_record: the program's own call, and the call at the head of a   *)
(* trap and of the handler.  blackbox_init comes first in each.             *)

\* Where a call goes on when its record is done.
Begin(t, after, sig) ==
  /\ bloc' = [bloc EXCEPT ![t] = [after |-> after, init |-> FALSE, seq |-> 0, sig |-> sig]]
  /\ BbGoto(t, IF bbInited THEN "seq" ELSE "install")
  /\ bbInited' = TRUE

blackbox_record(t) ==
  /\ BbAt(t, "idle") /\ Begin(t, "idle", "none")
  /\ UNCHANGED <<handled, bbCount, entry, inHandler, bbAlive, lapped, cut>>

\* A gate refused: blackbox_trap_cap, after which the gate exits; exit() is left out.
blackbox_trap_cap(t) ==
  /\ BbAt(t, "idle") /\ Begin(t, "dump", "none")
  /\ UNCHANGED <<handled, bbCount, entry, inHandler, bbAlive, lapped, cut>>

\* The rest of blackbox_init for the thread that set the flag, up to the record it makes itself.
blackbox_init(t) ==
  /\ BbAt(t, "install")
  /\ handled' = Sigs
  /\ bloc' = [bloc EXCEPT ![t].init = TRUE]
  /\ BbGoto(t, "seq")
  /\ UNCHANGED <<bbInited, bbCount, entry, inHandler, bbAlive, lapped, cut>>

Writing == {t \in BbThreads : bpc[t] \in {"number", "text"}}
Writers(i) == {t \in Writing : Idx(bloc[t].seq) = i}

TakeSeq(t) ==
  /\ BbAt(t, "seq") /\ bbCount < MaxEvents
  /\ bbCount' = bbCount + 1
  /\ bloc' = [bloc EXCEPT ![t].seq = bbCount + 1]
  /\ lapped' = (lapped \/ Writers(Idx(bbCount + 1)) # {})
  /\ cut' = cut \ {Idx(bbCount + 1)}
  /\ BbGoto(t, "number")
  /\ UNCHANGED <<bbInited, handled, entry, inHandler, bbAlive>>

WriteNumber(t) ==
  /\ BbAt(t, "number")
  /\ entry' = [entry EXCEPT ![Idx(bloc[t].seq)].seq = bloc[t].seq]
  /\ BbGoto(t, "text")
  /\ UNCHANGED <<bbInited, handled, bbCount, inHandler, bbAlive, bloc, lapped, cut>>

WriteText(t) ==
  /\ BbAt(t, "text")
  /\ entry' = [entry EXCEPT ![Idx(bloc[t].seq)].text = bloc[t].seq]
  /\ BbGoto(t, IF bloc[t].init THEN "seq" ELSE bloc[t].after)
  /\ bloc' = [bloc EXCEPT ![t].init = FALSE]
  /\ UNCHANGED <<bbInited, handled, bbCount, inHandler, bbAlive, lapped, cut>>
-----------------------------------------------------------------------------
(* A fatal signal of a thread: the handler, reset on entry (SA_RESETHAND).  *)

\* No handler: the process ends.  A second signal while a handler runs: the default, at once.
Fault(t, s) ==
  /\ bbAlive
  /\ IF s \notin handled \/ inHandler
     THEN bbAlive' = FALSE /\ UNCHANGED <<inHandler, handled, bpc, bloc, bbInited, cut>>
     ELSE /\ inHandler' = TRUE /\ handled' = handled \ {s}
          /\ Begin(t, "dump", s)
          /\ cut' = cut \cup {Idx(bloc[t].seq) : x \in {t} \cap Writing}
          /\ UNCHANGED bbAlive
  /\ UNCHANGED <<bbCount, entry, lapped>>

\* blackbox_dump_autopsy, and the report of a trap: it reads the ring, oldest entry first, and
\* writes the file; the handler then raises its signal again under SIG_DFL.
Autopsy(t) ==
  /\ BbAt(t, "dump")
  /\ bbAlive' = (bloc[t].sig = "none")
  /\ BbGoto(t, "idle")
  /\ bloc' = [bloc EXCEPT ![t] = Rest]
  /\ UNCHANGED <<bbInited, handled, bbCount, entry, inHandler, lapped, cut>>

BbNext ==
  \E t \in BbThreads :
    \/ blackbox_record(t) \/ blackbox_trap_cap(t) \/ blackbox_init(t)
    \/ TakeSeq(t) \/ WriteNumber(t) \/ WriteText(t)
    \/ Autopsy(t)
    \/ \E s \in Sigs : Fault(t, s)

BbSpec == BbInit /\ [][BbNext]_bbVars
-----------------------------------------------------------------------------
(* The ring holds whole events (blackbox.c:43-51): as long as no recorder   *)
(* falls a whole ring behind, every entry nobody is writing, or was         *)
(* interrupted in writing by the signal that ends the process, holds one    *)
(* event, number and text of the same record call, and it is the latest     *)
(* event that belongs there, so a report shows the last events in order.    *)
RingShowsLatest ==
  (~ lapped /\ bbAlive) =>
    \A i \in 0 .. RingCap - 1 :
      LET mine == {s \in 1 .. bbCount : (s - 1) % RingCap = i}
      IN mine # {} /\ Writers(i) = {} /\ i \notin cut =>
           /\ entry[i].seq = entry[i].text
           /\ \A s \in mine : s <= entry[i].seq
=============================================================================
