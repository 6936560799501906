----------------------------- MODULE MCSecurity -----------------------------
(***************************************************************************)
(* The guards and the cryptography around a program, for TLC: the file     *)
(* jail, the sandbox, capability tokens and paths, loaded libraries,       *)
(* interned answers and sealed boxes.  They share no state, so the run is  *)
(* the disjoint union of their instances: part says which of them a        *)
(* behaviour is about, the others stay in one first state.                 *)
(***************************************************************************)
EXTENDS Confine, Sandbox, Caps, Attenuate, Ffi, Strings, Seal, TLC

CONSTANTS t1, t2, c1, c2, k1, k2, n1, n2

VARIABLE part

\* No list, a relative directory, and a list with an empty entry and "/" in the middle.
MCReadDirs == {<<>>, <<"out">>}
MCWriteDirs == {<<>>, <<"out">>, <<"/a", "", "/", "/b">>}

\* Threads and signing seeds change places together, and so do keys and nonces.
Other == (t1 :> t2) @@ (t2 :> t1) @@ (c1 :> c2) @@ (c2 :> c1)
         @@ (k1 :> k2) @@ (k2 :> k1) @@ (n1 :> n2) @@ (n2 :> n1)
Symmetry == {[x \in DOMAIN Other |-> IF x \in A THEN Other[x] ELSE x] :
               A \in {{}, {t1, t2, c1, c2}, {k1, k2, n1, n2}, DOMAIN Other}}

GInit ==
  /\ part \in {"fs", "sandbox", "caps", "paths", "ffi", "strings", "seal"}
  /\ FsInit /\ SbInit /\ CapInit /\ AttInit /\ FfiInit /\ StrInit /\ SealInit
  /\ part # "fs" => fsCwd = "/a" /\ fsEnv.rd = <<>> /\ fsEnv.wd = <<>>
  /\ part # "sandbox" => abi = 0 /\ ~ isUpdate

GNext ==
  /\ \/ part = "fs"      /\ FsNext
        /\ UNCHANGED <<sbVars, capVars, attVars, ffiVars, strVars, sealVars>>
     \/ part = "sandbox" /\ SbNext
        /\ UNCHANGED <<fsVars, capVars, attVars, ffiVars, strVars, sealVars>>
     \/ part = "caps"    /\ CapNext
        /\ UNCHANGED <<fsVars, sbVars, attVars, ffiVars, strVars, sealVars>>
     \/ part = "paths"   /\ AttNext
        /\ UNCHANGED <<fsVars, sbVars, capVars, ffiVars, strVars, sealVars>>
     \/ part = "ffi"     /\ FfiNext
        /\ UNCHANGED <<fsVars, sbVars, capVars, attVars, strVars, sealVars>>
     \/ part = "strings" /\ StrNext
        /\ UNCHANGED <<fsVars, sbVars, capVars, attVars, ffiVars, sealVars>>
     \/ part = "seal"    /\ SealNext
        /\ UNCHANGED <<fsVars, sbVars, capVars, attVars, ffiVars, strVars>>
  /\ UNCHANGED part

GSpec == GInit /\ [][GNext]_<<part, fsVars, sbVars, capVars, attVars, ffiVars, strVars, sealVars>>
=============================================================================
