----------------------------- MODULE Attenuate ------------------------------
(***************************************************************************)
(* Path capabilities (sec/cap/cap_attenuate_path.c): a file-read token     *)
(* bound to a path prefix by a MAC under the process key.  The program     *)
(* derives one from another, each time asking for the prefix it likes.     *)
(* Paths are sequences of characters because the nesting test compares     *)
(* characters; a capability of this code is its prefix, the MAC being the  *)
(* mark that oo_attenuate_fsread_to_path made it.  The refused derivation  *)
(* returns the all-zero capability, here the empty prefix.                 *)
(***************************************************************************)
EXTENDS Integers, Sequences, FiniteSets, SequencesExt

CONSTANTS MaxPath,      \* bound: characters of a path
          MaxChain      \* bound: derivations in a row

ASSUME PathAssumption == MaxPath \in Nat /\ MaxChain \in Nat

VARIABLE chain          \* the prefixes of the capabilities derived one from the other

attVars == <<chain>>

PathChars == {"/", "a", "b"}
PathStrings == UNION {[1 .. n -> PathChars] : n \in 1 .. MaxPath}
Empty == <<>>

AttInit == chain = <<>>
-----------------------------------------------------------------------------
\* Mutant: a plain character prefix, without the test for a directory boundary.
oo_path_prefix_nests_chars(prefix, path) ==
  /\ prefix # Empty /\ path # Empty
  /\ prefix[1] = "/" /\ path[1] = "/"
  /\ IsPrefix(prefix, path)

(* oo_path_prefix_nests: equal, or the prefix ends where a component of the *)
(* path ends.                                                               *)
oo_path_prefix_nests(prefix, path) ==
  /\ prefix # Empty /\ path # Empty
  /\ prefix[1] = "/" /\ path[1] = "/"
  /\ \/ Len(prefix) = 1
     \/ /\ IsPrefix(prefix, path)
        /\ Len(path) = Len(prefix) \/ path[Len(prefix) + 1] = "/"

\* oo_path_cap_check: the empty capability carries no MAC, the others' agree; the prefix decides.
oo_path_cap_check(prefix, path) ==
  /\ prefix # Empty
  /\ oo_path_prefix_nests(prefix, path)

\* A relative prefix ends the process, so it is no step; the token is the file-read token.
oo_attenuate_fsread_to_path(parents, prefix) ==
  /\ prefix[1] = "/"
  /\ chain' = Append(parents, prefix)

oo_attenuate_pathcap_to_path(child) ==
  /\ chain # <<>> /\ Len(chain) < MaxChain
  /\ IF /\ oo_path_cap_check(Last(chain), Last(chain))
        /\ oo_path_prefix_nests(Last(chain), child)
     THEN oo_attenuate_fsread_to_path(chain, child)
     ELSE chain' = Append(chain, Empty)

AttNext ==
  \E p \in PathStrings :
    \/ chain = <<>> /\ oo_attenuate_fsread_to_path(<<>>, p)
    \/ oo_attenuate_pathcap_to_path(p)

AttSpec == AttInit /\ [][AttNext]_attVars
-----------------------------------------------------------------------------
\* The directories and the name a path is made of, in order: what is between its slashes.
Starts(p) == {i \in 1 .. Len(p) : p[i] # "/" /\ (i = 1 \/ p[i - 1] = "/")}
EndOf(p, i) == Min({j \in i .. Len(p) : j = Len(p) \/ p[j + 1] = "/"})
Between(p, i, j) == [k \in 1 .. j - i + 1 |-> p[i + k - 1]]
Place(p, n) == CHOOSE i \in Starts(p) : Cardinality({k \in Starts(p) : k < i}) = n - 1
Components(p) == [n \in 1 .. Cardinality(Starts(p)) |-> Between(p, Place(p, n), EndOf(p, Place(p, n)))]

(* Deriving only narrows (cap_attenuate_path.c): whatever path the last     *)
(* capability of a chain admits, every capability it was derived from       *)
(* admits too, and the path lies in the directory the capability names,     *)
(* component by component, never in one whose name merely starts alike.     *)
PathCapNarrows ==
  chain # <<>> =>
    \A p \in PathStrings : oo_path_cap_check(Last(chain), p) =>
      /\ \A i \in DOMAIN chain : oo_path_cap_check(chain[i], p)
      /\ IsPrefix(Components(Last(chain)), Components(p))
=============================================================================
