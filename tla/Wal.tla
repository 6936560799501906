-------------------------------- MODULE Wal ---------------------------------
(***************************************************************************)
(* oo_file_append_sync of fs/os/fs.c after its checks: open for append,    *)
(* write until all is written, fsync, close, on one log file shared by the *)
(* threads of the program.  The kernel's page cache, its writeback errors  *)
(* and the disk are part of the model, so that the process can be killed   *)
(* and the machine can lose power between any two system calls.            *)
(***************************************************************************)
EXTENDS Integers, Sequences

CONSTANTS WalThreads, RecLen, MaxRecs, MaxErrs   \* bytes of a record; records; failed writebacks

VARIABLES page,         \* the file as the kernel shows it: bytes, each [rec, i, state]
          wbErr,        \* count of failed writebacks of the file
          wpc, wloc,    \* each thread's place and locals: its record, off, the error count at open
          nrec,         \* records appended so far (a number each)
          acked         \* records for which the call returned Ok

walVars == <<page, wbErr, wpc, wloc, nrec, acked>>

ASSUME RecLenAssumption == RecLen \in Nat \ {0}

NoRec == [rec |-> 0, off |-> 0, err |-> 0]

WalInit ==
  /\ page = <<>> /\ wbErr = 0 /\ nrec = 0 /\ acked = {}
  /\ wpc = [t \in WalThreads |-> "idle"]
  /\ wloc = [t \in WalThreads |-> NoRec]

WGoto(t, l) == wpc' = [wpc EXCEPT ![t] = l]
WReturn(t) == WGoto(t, "idle") /\ wloc' = [wloc EXCEPT ![t] = NoRec]

\* Writeback of every dirty byte; a failure marks them clean without having stored them.
Flushed(state) == [i \in DOMAIN page |-> IF page[i].state = "dirty" THEN [page[i] EXCEPT !.state = state] ELSE page[i]]
Hole == [rec |-> 0, i |-> 0, state |-> "disk"]
SomeDirty == \E i \in DOMAIN page : page[i].state = "dirty"
-----------------------------------------------------------------------------
writedir_open_append(t) ==
  /\ wpc[t] = "idle" /\ nrec < MaxRecs
  /\ nrec' = nrec + 1
  /\ wloc' = [wloc EXCEPT ![t] = [rec |-> nrec + 1, off |-> 0, err |-> wbErr]]
  /\ WGoto(t, "write")
  /\ UNCHANGED <<page, wbErr, acked>>

(* The write loop: any number of the missing bytes at the end of the file, an error, or nothing. *)
WalWrite(t) ==
  LET r == wloc[t] IN
  /\ wpc[t] = "write"
  /\ \/ \E n \in 1 .. RecLen - r.off :
          /\ page' = page \o [i \in 1 .. n |-> [rec |-> r.rec, i |-> r.off + i, state |-> "dirty"]]
          /\ wloc' = [wloc EXCEPT ![t].off = @ + n]
          /\ WGoto(t, IF r.off + n = RecLen THEN "sync" ELSE "write")
     \/ WGoto(t, "close_bad") /\ UNCHANGED <<page, wloc>>
  /\ UNCHANGED <<wbErr, nrec, acked>>

\* Mutant: the answer of fsync is not looked at.
WalSyncUnchecked(t) ==
  /\ wpc[t] = "sync"
  /\ \/ page' = Flushed("disk") /\ UNCHANGED wbErr
     \/ wbErr < MaxErrs /\ SomeDirty /\ page' = Flushed("lost") /\ wbErr' = wbErr + 1
  /\ WGoto(t, "close")
  /\ UNCHANGED <<wloc, nrec, acked>>

(* fsync: every dirty byte of the file reaches the disk, or an error since the open is reported. *)
WalSync(t) ==
  /\ wpc[t] = "sync"
  /\ \/ /\ wloc[t].err = wbErr
        /\ page' = Flushed("disk")
        /\ WGoto(t, "close")
        /\ UNCHANGED wbErr
     \/ /\ wloc[t].err < wbErr
        /\ WGoto(t, "close_bad")
        /\ UNCHANGED <<page, wbErr>>
     \/ /\ wbErr < MaxErrs /\ SomeDirty
        /\ page' = Flushed("lost") /\ wbErr' = wbErr + 1
        /\ WGoto(t, "close_bad")
  /\ UNCHANGED <<wloc, nrec, acked>>

(* close, and Ok when nothing failed. *)
WalClose(t) ==
  /\ wpc[t] \in {"close", "close_bad"}
  /\ \/ wpc[t] = "close" /\ acked' = acked \cup {wloc[t].rec}
     \/ UNCHANGED acked
  /\ WReturn(t)
  /\ UNCHANGED <<page, wbErr, nrec>>

(* The kernel writes back on its own. *)
Writeback ==
  /\ SomeDirty
  /\ \/ page' = Flushed("disk") /\ UNCHANGED wbErr
     \/ wbErr < MaxErrs /\ page' = Flushed("lost") /\ wbErr' = wbErr + 1
  /\ UNCHANGED <<wpc, wloc, nrec, acked>>

(* SIGKILL: the calls are gone, the page cache stays. *)
Kill ==
  /\ \E t \in WalThreads : wpc[t] # "idle"
  /\ wpc' = [t \in WalThreads |-> "idle"] /\ wloc' = [t \in WalThreads |-> NoRec]
  /\ UNCHANGED <<page, wbErr, nrec, acked>>

(* Power loss: what the disk does not hold comes back as zeros. *)
PowerLoss ==
  /\ page # <<>>
  /\ page' = [i \in DOMAIN page |-> IF page[i].state = "disk" THEN page[i] ELSE Hole]
  /\ wbErr' = 0
  /\ wpc' = [t \in WalThreads |-> "idle"] /\ wloc' = [t \in WalThreads |-> NoRec]
  /\ UNCHANGED <<nrec, acked>>

WalNext ==
  \/ \E t \in WalThreads :
       writedir_open_append(t) \/ WalWrite(t) \/ WalSync(t) \/ WalClose(t)
  \/ Writeback \/ Kill \/ PowerLoss

WalSpec == WalInit /\ [][WalNext]_walVars
-----------------------------------------------------------------------------
(***************************************************************************)
(* Every byte of a record that was answered with Ok is on the disk, once   *)
(* and in order, and stays there through kills, power losses and failed    *)
(* writebacks of others: about the write, fsync, close sequence and the    *)
(* error tests between them ("Ok means bytes are on stable storage").      *)
(***************************************************************************)
AckedDurable ==
  \A r \in acked :
    LET mine == {p \in DOMAIN page : page[p].rec = r}
    IN /\ {page[p].i : p \in mine} = 1 .. RecLen
       /\ \A p, q \in mine : p < q => page[p].i < page[q].i
       /\ \A p \in mine : page[p].state = "disk"
=============================================================================
