------------------------------ MODULE Identities ------------------------------
(***************************************************************************)
(* The host identity map, src/identity/identities.js, and the resolution   *)
(* of a directory to the namespace that owns it, src/identity/resolve.js.  *)
(* A map is a function from its namespaces to their entries; there may be  *)
(* no map at all, or a text that is none.                                  *)
(***************************************************************************)
EXTENDS Naturals, FiniteSets

CONSTANTS
  Dir,      \* canonical directories
  Ns,       \* namespaces
  Above,    \* per directory, those that contain it
  Home,     \* per directory, the root of the repository that owns it
  None,     \* no namespace, no directory
  NoMap,    \* there is no identities.json
  Garbage   \* a text that is not a map: JSON cut short, an unknown key or version

ASSUME DirAssumption == /\ Above \in [Dir -> SUBSET Dir]
                        /\ Home \in [Dir -> Dir]
ASSUME AboveAssumption == \A d, e \in Dir : e \in Above[d] => d \notin Above[e]
ASSUME NsAssumption  == None \notin Ns \cup Dir

Entry == [canonicalRoot : Dir, registrations : SUBSET Dir]

\* Maps that were written as one, sound or not.
Map == UNION {[N -> Entry] : N \in SUBSET Ns}

ASSUME MapAssumption == NoMap \notin Map /\ Garbage \notin Map /\ NoMap # Garbage

\* parseIdentities: what it guarantees of a map it does not reject.
Parses(m) ==
  /\ m \in Map
  /\ \A n \in DOMAIN m : m[n].canonicalRoot \in m[n].registrations
  /\ \A n1, n2 \in DOMAIN m : n1 # n2 => m[n1].registrations \cap m[n2].registrations = {}

EmptyMap == [n \in {} |-> {}]

\* resolveNamespace: the registered directories at or above the root of cwd's repository.
Matches(m, cwd) ==
  {d \in {Home[cwd]} \cup Above[Home[cwd]] : \E n \in DOMAIN m : d \in m[n].registrations}

\* The longest of them, and the namespaces that registered it.
Nearest(m, cwd) == {d \in Matches(m, cwd) : Matches(m, cwd) \subseteq {d} \cup Above[d]}
Owners(m, cwd)  == {n \in DOMAIN m : m[n].registrations \cap Nearest(m, cwd) # {}}

\* loadIdentities and resolveNamespace: the namespace that owns cwd, if there is one
\* answer and it is the one that was asked for.
Resolves(m, cwd, n) == Parses(m) /\ Owners(m, cwd) = {n}
================================================================================
