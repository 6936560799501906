---------------------------------- MODULE Ffi ----------------------------------
(* Shared libraries opened through the foreign-function interface: the table   *)
(* of registered handles (app/xlang/ffi.c) beside the loader's own reference   *)
(* counts.  The loader returns the same handle for every open of one library   *)
(* and counts the opens; the table holds a handle at most once.  A handle's    *)
(* text is "handle:%p", so a key names its library and a lookup compares keys. *)
(* The path and signature checks of one open are made before any lock.         *)
EXTENDS Naturals, FiniteSets

CONSTANTS FfiThreads,   \* threads that call the interface
          Libs,         \* libraries whose path resolves
          Admitted,     \* those under an allowed directory with a valid signature
          FfiSlots,     \* OO_FFI_HANDLE_SLOTS, 16 in the code
          MaxOpens,     \* bound: loads in one behaviour
          NoLib         \* NULL

ASSUME FfiAssumption == IsFiniteSet(FfiThreads) /\ FfiSlots \in Nat /\ NoLib \notin Libs

VARIABLES slots,        \* g_ffi_handles
          refs,         \* the loader's count of each library
          ffiPc,        \* where each thread is
          ffiLib,       \* the local h of each thread
          depth,        \* g_ffi_dlopen_depth of each thread
          loader,       \* the threads that hold g_ffi_dlopen_mu
          opens         \* loads so far

ffiVars == <<slots, refs, ffiPc, ffiLib, depth, loader, opens>>

FfiInit ==
    /\ slots = [i \in 1..FfiSlots |-> NoLib]
    /\ refs = [l \in Libs |-> 0]
    /\ ffiPc = [t \in FfiThreads |-> "idle"]
    /\ ffiLib = [t \in FfiThreads |-> NoLib]
    /\ depth = [t \in FfiThreads |-> 0]
    /\ loader = {}
    /\ opens = 0

At(t, from, to) == ffiPc[t] = from /\ ffiPc' = [ffiPc EXCEPT ![t] = to]

\* path_under_allowdir, path_under_sys_lib, ffi_verify_signature.
FfiAllowed(l) == l \in Admitted

\* The checks that refuse a path leave no trace; the others lead to the lock.
oo_dlopen(t, l) ==
    /\ depth[t] = 0
    /\ FfiAllowed(l)
    /\ opens < MaxOpens
    /\ At(t, "idle", "load")
    /\ ffiLib' = [ffiLib EXCEPT ![t] = l]
    /\ UNCHANGED <<slots, refs, depth, loader, opens>>

\* dlopen starts: the library's constructors run under the lock.
DlopenEnter(t) ==
    /\ loader = {}
    /\ At(t, "load", "ctor")
    /\ loader' = {t}
    /\ depth' = [depth EXCEPT ![t] = @ + 1]
    /\ opens' = opens + 1
    /\ UNCHANGED <<slots, refs, ffiLib>>

\* dlopen returns a handle, or NULL.
DlopenLeave(t) ==
    /\ loader' = {}
    /\ depth' = [depth EXCEPT ![t] = @ - 1]
    /\ \/ /\ At(t, "ctor", "register")
          /\ refs' = [refs EXCEPT ![ffiLib[t]] = @ + 1]
       \/ /\ At(t, "ctor", "idle")
          /\ UNCHANGED refs
    /\ UNCHANGED <<slots, ffiLib, opens>>

SlotsOf(l) == {i \in 1..FfiSlots : slots[i] = l}

\* The whole scan is under g_ffi_handles_mu; a handle that is there stays once.
ffi_handle_register(t) ==
    /\ \/ /\ SlotsOf(ffiLib[t]) # {}
          /\ At(t, "register", "idle")
          /\ UNCHANGED slots
       \/ /\ SlotsOf(ffiLib[t]) = {}
          /\ At(t, "register", "idle")
          /\ \E i \in SlotsOf(NoLib) :
                /\ \A j \in SlotsOf(NoLib) : i <= j
                /\ slots' = [slots EXCEPT ![i] = ffiLib[t]]
       \/ /\ SlotsOf(ffiLib[t]) = {} /\ SlotsOf(NoLib) = {}
          /\ At(t, "register", "full")
          /\ UNCHANGED slots
    /\ UNCHANGED <<refs, ffiLib, depth, loader, opens>>

\* The table is full: the open gives its reference back.
FfiFull(t) ==
    /\ At(t, "full", "idle")
    /\ refs' = [refs EXCEPT ![ffiLib[t]] = @ - 1]
    /\ UNCHANGED <<slots, ffiLib, depth, loader, opens>>

\* Mutant: a close leaves the handle registered.
ffi_handle_take_keeps(t, l) ==
    /\ SlotsOf(l) # {}
    /\ At(t, "idle", "close")
    /\ ffiLib' = [ffiLib EXCEPT ![t] = l]
    /\ UNCHANGED <<slots, refs, depth, loader, opens>>

\* The lookup and the clearing of the slot are one critical section.
ffi_handle_take(t, l) ==
    /\ SlotsOf(l) # {}
    /\ At(t, "idle", "close")
    /\ ffiLib' = [ffiLib EXCEPT ![t] = l]
    /\ slots' = [i \in 1..FfiSlots |-> IF i \in SlotsOf(l) THEN NoLib ELSE slots[i]]
    /\ UNCHANGED <<refs, depth, loader, opens>>

\* dlclose outside the lock; when it reports an error the library stays loaded.
oo_dlclose(t) ==
    /\ At(t, "close", "idle")
    /\ refs' = [refs EXCEPT ![ffiLib[t]] = @ - 1] \/ UNCHANGED refs
    /\ UNCHANGED <<slots, ffiLib, depth, loader, opens>>

\* dlsym looks the handle up under the lock and uses it after it.
ffi_handle_lookup(t, l) ==
    /\ SlotsOf(l) # {}
    /\ At(t, "idle", "sym")
    /\ ffiLib' = [ffiLib EXCEPT ![t] = l]
    /\ UNCHANGED <<slots, refs, depth, loader, opens>>

oo_dlsym(t) ==
    /\ At(t, "sym", "idle")
    /\ UNCHANGED <<slots, refs, ffiLib, depth, loader, opens>>

FfiNext ==
    \E t \in FfiThreads :
        \/ \E l \in Libs : \/ oo_dlopen(t, l)
                           \/ ffi_handle_take(t, l)
                           \/ ffi_handle_lookup(t, l)
        \/ DlopenEnter(t) \/ DlopenLeave(t) \/ ffi_handle_register(t)
        \/ FfiFull(t) \/ oo_dlclose(t) \/ oo_dlsym(t)

FfiSpec == FfiInit /\ [][FfiNext]_ffiVars

Claims(l) == {t \in FfiThreads :
                /\ ffiPc[t] \in {"register", "full", "close"}
                /\ ffiLib[t] = l}

(* The loader holds at least one reference for every registered handle and for *)
(* every thread between dlopen and register or between take and dlclose, and a *)
(* handle is registered at most once: no open is ever answered with a library  *)
(* that another thread's close has unloaded, and no close is made twice        *)
(* (ffi_handle_register, ffi_handle_take).                                     *)
RegisteredLoaded ==
    \A l \in Libs :
        /\ Cardinality(SlotsOf(l)) <= 1
        /\ refs[l] >= Cardinality(SlotsOf(l)) + Cardinality(Claims(l))
================================================================================
