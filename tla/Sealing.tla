------------------------------ MODULE Sealing -------------------------------
(***************************************************************************)
(* Interface modules.  An interface module imports a construction (the        *)
(* module it is implemented by, and modules whose theorems it exports), checks *)
(* the statements it makes against it, and writes a cache that is the public   *)
(* view: those statements without proofs, the theorems that can be stated in   *)
(* its terms, definitions exported with their bodies, the registrations that  *)
(* mention nothing else, and no edge to the construction.                   *)
(*                                                                         *)
(* make builds the interface caches of all modules in a first stage and the    *)
(* full caches in a second; both stages of a module wait for the interfaces of *)
(* everything above it and run again when one of them changes.               *)
(*                                                                         *)
(* A declaration is its name, its kind, what its type mentions and what its   *)
(* body mentions; equal mentions stand for definitionally equal types.       *)
(***************************************************************************)
EXTENDS Naturals, FiniteSets

CONSTANTS
  Modules, NoModule, Missing,
  Names,      \* what declarations are called
  FirstText,  \* a module's source before any edit
  Edits,      \* the texts an edit may give it
  MaxEdits    \* bound: edits in a behaviour

Kinds == {"axiom", "definition", "theorem", "inductive"}

Declarations == [name : Names, kind : Kinds, type : SUBSET Names, body : SUBSET Names]

Texts ==
  [imports : SUBSET Modules, declares : SUBSET Declarations,
   implements : Modules \cup {NoModule}, wiring : SUBSET SUBSET Names,
   implementedBy : Modules \cup {NoModule},
   obligations : SUBSET [name : Names, kind : Kinds, type : SUBSET Names],
   exportsTheorems : SUBSET Modules, exportsDefinitions : SUBSET Names]

Caches ==
  [declarations : SUBSET Declarations, dependencies : SUBSET Modules,
   implements : Modules \cup {NoModule}, wiring : SUBSET SUBSET Names]

\* Imports have no cycle (every set of modules has one that imports none of it), and
\* edits leave them alone.
ASSUME SealingAssumption ==
  /\ IsFiniteSet(Modules)
  /\ Missing \notin Caches
  /\ FirstText \in [Modules -> Texts]
  /\ Edits \in [Modules -> SUBSET Texts]
  /\ \A m \in Modules : \A t \in Edits[m] : t.imports = FirstText[m].imports
  /\ \A S \in SUBSET Modules : S # {} => \E m \in S : FirstText[m].imports \cap S = {}

VARIABLES
  text,       \* the sources
  iface,      \* X.mathv.iface
  full,       \* X.mathv
  ifaceOld,   \* modules whose .iface make would rebuild
  fullOld,    \* modules whose .mathv make would rebuild
  kept,       \* modules whose .iface was left as it was: make tries it each time
  edits,
  superseded  \* interfaces sealed with an old full cache in view (history)

vars == <<text, iface, full, ifaceOld, fullOld, kept, edits, superseded>>

Init ==
  /\ text = FirstText
  /\ iface = [m \in Modules |-> Missing]
  /\ full = [m \in Modules |-> Missing]
  /\ ifaceOld = Modules /\ fullOld = Modules /\ kept = {}
  /\ edits = 0
  /\ superseded = {}

NamesIn(decls) == {d.name : d \in decls}

\* The nodes with those the edges lead to, and so on.
ClosureFrom(nodes, edges) ==
  LET Onward(S) == S \cup {e[2] : e \in {f \in edges : f[1] \in S}}
      reached[S \in SUBSET (nodes \cup {e[2] : e \in edges})] ==
        IF Onward(S) = S THEN S ELSE reached[Onward(S)]
  IN reached[nodes]

-----------------------------------------------------------------------------
(* What a process sees. *)

\* kernel deps: the transitive imports, by the sources.
Above(m) ==
  ClosureFrom(text[m].imports, {e \in Modules \X Modules : e[2] \in text[e[1]].imports})

Below(m) == {n \in Modules : m \in Above(n)}

\* Loading follows the dependencies the interface caches record.
LoadedWith(ms) ==
  ClosureFrom(ms, {e \in Modules \X Modules :
                     iface[e[1]] # Missing /\ e[2] \in iface[e[1]].dependencies})

Loads(ms) == \A m \in LoadedWith(ms) : iface[m] # Missing

Environment(ms) == UNION {iface[m].declarations : m \in LoadedWith(ms)}

\* An ordinary statement is elaborated over what is loaded and declared here.
StatementsElaborate(m) ==
  LET loaded == NamesIn(Environment(text[m].imports))
      own    == text[m].declares
  IN /\ NamesIn(own) \cap loaded = {}
     /\ \A d \in own : d.type \cup d.body \subseteq loaded \cup NamesIn(own)

\* mutant: the name is looked up, the stated type is not compared
ObligationsNamed(m) ==
  \A o \in text[m].obligations :
    \E d \in Environment(text[m].imports) : d.name = o.name

\* `type`, `constant` and theorem signatures are checked against what is loaded.
ObligationsHold(m) ==
  \A o \in text[m].obligations :
    \E d \in Environment(text[m].imports) : d.name = o.name /\ d.type = o.type

Elaborates(m) ==
  /\ Loads(text[m].imports)
  /\ StatementsElaborate(m)
  /\ ObligationsHold(m)

-----------------------------------------------------------------------------
(* Sealing. *)

IsInterface(m) == text[m].implementedBy # NoModule

NamesImplementation(m) == text[m].implementedBy \in text[m].imports

DroppedBy(m) == {text[m].implementedBy} \cup text[m].exportsTheorems
Kept(m)      == text[m].imports \ DroppedBy(m)

\* A full cache is read where there is one, and with it those it names; an
\* interface cache names interface caches.
FormOf(m) == IF full[m] # Missing THEN <<m, "full">> ELSE <<m, "iface">>
Contents(node) == IF node[2] = "full" THEN full[node[1]] ELSE iface[node[1]]
Named(node, m) == IF node[2] = "full" THEN FormOf(m) ELSE <<m, "iface">>

ReachableCaches(m) ==
  LET nodes == {n \in Modules \X {"full", "iface"} : Contents(n) # Missing}
      edges == {e \in nodes \X nodes :
                  \E d \in Contents(e[1]).dependencies : e[2] = Named(e[1], d)}
  IN ClosureFrom({FormOf(d) : d \in Kept(m)} \cap nodes, edges)

ReachableViaKept(m) ==
  UNION {NamesIn(Contents(n).declarations) : n \in ReachableCaches(m)}

ImplementationAgrees(m) ==
  Contents(FormOf(text[m].implementedBy)).implements = m

Declaration(name, kind, type, body) ==
  [name |-> name, kind |-> kind, type |-> type, body |-> body]

\* A signature is sealed as a proof, a type or a constant as an axiom; what the
\* construction declares as an inductive is checked and not sealed.
SealedObligations(m) ==
  {Declaration(o.name, o.kind, o.type, {}) :
     o \in {p \in text[m].obligations :
              \E d \in Environment(text[m].imports) :
                d.name = p.name /\ d.kind # "inductive"}}

StatedHere(m) == text[m].declares \cup SealedObligations(m)

ExportedDefinitions(m) ==
  {d \in Environment(text[m].imports) : d.name \in text[m].exportsDefinitions}

ExportsDefinable(m) ==
  \A n \in text[m].exportsDefinitions :
    /\ n \notin NamesIn(StatedHere(m))
    /\ \E d \in ExportedDefinitions(m) : d.name = n /\ d.kind \in {"definition", "theorem"}

ExportCandidates(m) ==
  {d \in UNION {iface[t].declarations : t \in text[m].exportsTheorems} :
     /\ d.kind = "theorem"
     /\ d.name \notin NamesIn(StatedHere(m)) \cup text[m].exportsDefinitions}

\* What a consumer knows whatever becomes of the candidates.
KnownNames(m) ==
  NamesIn(StatedHere(m)) \cup ReachableViaKept(m) \cup text[m].exportsDefinitions

\* mutant: a candidate is exported only when it mentions no other
ExportedAlone(m) ==
  LET known == KnownNames(m) IN {d \in ExportCandidates(m) : d.type \subseteq known}

\* What is left when no candidate mentions one that was skipped.
ExportedTheorems(m) ==
  LET known == KnownNames(m)
      candidates == ExportCandidates(m)
  IN UNION {S \in SUBSET candidates : \A d \in S : d.type \subseteq known \cup NamesIn(S)}

BodiesSpellable(m) ==
  LET seen == KnownNames(m) \cup NamesIn(ExportedTheorems(m))
  IN \A d \in ExportedDefinitions(m) : d.type \cup d.body \subseteq seen

SealedDeclarations(m) ==
  StatedHere(m) \cup ExportedDefinitions(m)
    \cup {Declaration(d.name, "theorem", d.type, {}) : d \in ExportedTheorems(m)}

VisibleNames(m) == NamesIn(SealedDeclarations(m)) \cup ReachableViaKept(m)

\* mutant: the registrations are copied whole
WiringWhole(m) ==
  text[m].wiring \cup UNION {iface[x].wiring : x \in DroppedBy(m)}

SealedWiring(m) ==
  LET visible == VisibleNames(m)
  IN text[m].wiring
       \cup {w \in UNION {iface[x].wiring : x \in DroppedBy(m)} : w \subseteq visible}

\* mutant: the sealed statements are not validated
SealUnchecked(m) == TRUE

\* Every type is over names a consumer sees, or the module is refused.
SealIsClosed(m) ==
  LET visible == VisibleNames(m)
  IN \A d \in SealedDeclarations(m) : d.type \subseteq visible

Seals(m) ==
  /\ NamesImplementation(m)
  /\ text[m].exportsTheorems \subseteq text[m].imports
  /\ ImplementationAgrees(m)
  /\ ExportsDefinable(m)
  /\ BodiesSpellable(m)
  /\ SealIsClosed(m)

Verifies(m) == Elaborates(m) /\ (IsInterface(m) => Seals(m))

CacheOf(m) ==
  IF IsInterface(m)
  THEN [declarations |-> SealedDeclarations(m), dependencies |-> Kept(m),
        implements |-> text[m].implements, wiring |-> SealedWiring(m)]
  ELSE [declarations |-> text[m].declares, dependencies |-> text[m].imports,
        implements |-> text[m].implements, wiring |-> text[m].wiring]

\* deriveInterfaceCache: a proof's body is replaced by a fixed one.
InterfaceOf(c) ==
  [c EXCEPT !.declarations =
     {IF d.kind = "theorem" THEN [d EXCEPT !.body = {}] ELSE d : d \in @}]

-----------------------------------------------------------------------------
(* The build. *)

Edit(m, t) ==
  /\ edits < MaxEdits
  /\ t # text[m]
  /\ text' = [text EXCEPT ![m] = t]
  /\ ifaceOld' = ifaceOld \cup {m}
  /\ fullOld' = fullOld \cup {m}
  /\ edits' = edits + 1
  /\ UNCHANGED <<iface, full, kept, superseded>>

\* A kept cache read in its full form, although its interface says otherwise.
SeesOld(m) ==
  \E n \in ReachableCaches(m) : n[2] = "full" /\ InterfaceOf(full[n[1]]) # iface[n[1]]

\* Stage 1: the interface is written if its bytes differ, and then its own full
\* cache and what is below are out of date; if not, it stays older than what it was
\* made from.  A module that does not verify stays as it was.
Stage1(m) ==
  /\ m \in ifaceOld \cup kept
  /\ Above(m) \cap ifaceOld = {}
  /\ Verifies(m)
  /\ iface' = [iface EXCEPT ![m] = InterfaceOf(CacheOf(m))]
  /\ \/ /\ iface'[m] # iface[m]
        /\ ifaceOld' = (ifaceOld \ {m}) \cup Below(m)
        /\ fullOld' = fullOld \cup Below(m) \cup {m}
        /\ kept' = kept \ {m}
     \/ /\ iface'[m] = iface[m]
        /\ ifaceOld' = ifaceOld \ {m}
        /\ kept' = kept \cup {m}
        /\ UNCHANGED fullOld
  /\ superseded' = IF IsInterface(m) /\ SeesOld(m)
                   THEN superseded \cup {m} ELSE superseded \ {m}
  /\ UNCHANGED <<text, full, edits>>

\* Stage 2: proofs are checked, and only the full cache is written.
Stage2(m) ==
  /\ m \in fullOld
  /\ (Above(m) \cup {m}) \cap ifaceOld = {}
  /\ Verifies(m)
  /\ full' = [full EXCEPT ![m] = CacheOf(m)]
  /\ fullOld' = fullOld \ {m}
  /\ UNCHANGED <<text, iface, ifaceOld, kept, edits, superseded>>

Next ==
  \E m \in Modules :
    \/ \E t \in Edits[m] : Edit(m, t)
    \/ Stage1(m)
    \/ Stage2(m)

Spec == Init /\ [][Next]_vars

-----------------------------------------------------------------------------
(* Properties. *)

Green == ifaceOld = {} /\ fullOld = {}

Interfaces == {m \in Modules : IsInterface(m)}

\* The interfaces about which make has nothing left to do, and whose sealing read
\* no full cache of a kept module that the module's interface had overtaken: the
\* walk over the kept imports prefers full caches (main.cpp 5614-5620), and stage 1
\* does not wait for them.
Settled == IF Green THEN Interfaces \ superseded ELSE {}

\* When make has nothing left to do, a consumer that loads a sealed interface knows
\* every name its statements mention (main.cpp 5969-6018).
SealedStatementsReadable ==
  \A m \in Settled :
    \A d \in iface[m].declarations : d.type \subseteq NamesIn(Environment({m}))

\* ... and every name in the bodies of the definitions it exports and in the
\* registrations it copied (main.cpp 5819-5955); those made in its own source are
\* recorded as they are.
ExportsUsable ==
  \A m \in Settled :
    LET seen == NamesIn(Environment({m}))
    IN /\ \A d \in iface[m].declarations :
            d.name \in text[m].exportsDefinitions => d.body \subseteq seen
       /\ \A w \in iface[m].wiring \ text[m].wiring : w \subseteq seen

\* No theorem of an exported module is left out that could be stated with what the
\* consumer sees, exported theorems included: the skipping stops at the largest
\* closed set, also when statements mention one another (main.cpp 5761-5788).
NothingSpellableIsLost ==
  \A m \in Settled :
    \A x \in text[m].exportsTheorems :
      \A d \in iface[x].declarations :
        (d.kind = "theorem" /\ d.type \subseteq NamesIn(Environment({m})))
          => d.name \in NamesIn(iface[m].declarations)

\* Every statement a consumer may use from a sealed interface is one that a module
\* above it declares, as its source is now, with that type, and has verified:
\* whatever was edited on either side (statements.cpp 960-1000).
SealIsBacked ==
  Green =>
    \A m \in Interfaces :
      \A d \in iface[m].declarations :
        \E x \in Above(m) \cup {m} :
          /\ full[x] # Missing
          /\ \E e \in full[x].declarations \cap text[x].declares :
               e.name = d.name /\ e.type = d.type
=============================================================================
