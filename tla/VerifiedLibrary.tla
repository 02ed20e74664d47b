--------------------------- MODULE VerifiedLibrary ---------------------------
(***************************************************************************)
(* What the author of a library may take a build to be: one step that looks  *)
(* at the library as it is and says that all of it is verified, or does not.  *)
(* There are no files here, no processes and no modification times; that     *)
(* BuildCache, with all of these, is no more than this is what makes the      *)
(* caches invisible.                                                        *)
(*                                                                         *)
(* To say so is to have verified the library from nothing: there is one       *)
(* interface for each module, what its statements elaborate to over the       *)
(* others, and over these every proof checks.  A source edited while its own  *)
(* recipe ran is exempt until the recipe runs again, and so is an interface   *)
(* module that a build sealed over what is no longer stated.                 *)
(***************************************************************************)
CONSTANTS
  Modules, Sealed, Kernels, Contents, Possible, FirstKernel, FirstSource,
  Loads,  \* the interfaces each module sees
  Bytes, NotLoaded,
  Interface(_, _, _, _), Proves(_, _, _, _)

Targets == {"iface", "full"} \X Modules

VARIABLES
  kernel,
  source,
  building,
  verified,  \* the last word of a build on the library as it is
  exempt     \* the targets it does not speak of

vars == <<kernel, source, building, verified, exempt>>

Init ==
  /\ kernel = FirstKernel
  /\ source = FirstSource
  /\ building = FALSE
  /\ verified = FALSE
  /\ exempt = {}

\* What m sees of the interfaces.
Seen(interfaces, m) ==
  [d \in Modules |-> IF d \in Loads[m] THEN interfaces[d] ELSE NotLoaded]

Verifies ==
  \E interfaces \in [Modules -> Bytes] : \A m \in Modules :
    /\ <<"iface", m>> \in exempt \/
         interfaces[m] = Interface(kernel, m, source[m], Seen(interfaces, m))
    /\ <<"full", m>> \in exempt \/
         Proves(kernel, m, source[m], Seen(interfaces, m))

\* An edit withdraws the word; during a build it may exempt what it edits.
Edit ==
  \E m \in Modules : \E c \in Possible[m] : \E lost \in SUBSET ({"iface", "full"} \X {m}) :
    /\ source' = [source EXCEPT ![m] = c]
    /\ exempt' = (exempt \ ({"iface", "full"} \X {m})) \cup lost
    /\ lost # {} => building
    /\ verified' = FALSE
    /\ UNCHANGED <<kernel, building>>

Relink ==
  /\ ~building
  /\ kernel' \in Kernels
  /\ verified' = FALSE
  /\ UNCHANGED <<source, building, exempt>>

Clean ==
  /\ ~building
  /\ verified' = FALSE
  /\ UNCHANGED <<kernel, source, building, exempt>>

\* A build says nothing until it has ended.
Start ==
  /\ ~building
  /\ building' = TRUE
  /\ verified' = FALSE
  /\ UNCHANGED <<kernel, source, exempt>>

\* A build seals over what it finds.
Overlook ==
  /\ building
  /\ \E t \in {"iface", "full"} \X Sealed : exempt' = exempt \cup {t}
  /\ UNCHANGED <<kernel, source, building, verified>>

Recheck ==
  /\ building
  /\ \E t \in exempt : exempt' = exempt \ {t}
  /\ UNCHANGED <<kernel, source, building, verified>>

Succeed ==
  /\ building
  /\ Verifies
  /\ building' = FALSE
  /\ verified' = TRUE
  /\ UNCHANGED <<kernel, source, exempt>>

\* It fails, is killed, or was overtaken by an edit.
GiveUp ==
  /\ building
  /\ building' = FALSE
  /\ verified' = FALSE
  /\ UNCHANGED <<kernel, source, exempt>>

Next == Edit \/ Relink \/ Clean \/ Start \/ Overlook \/ Recheck \/ Succeed \/ GiveUp

Spec == Init /\ [][Next]_vars
=============================================================================
