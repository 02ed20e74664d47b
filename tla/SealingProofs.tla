--------------------------- MODULE SealingProofs ---------------------------
(***************************************************************************)
(* Theorems about sealed interfaces: what make says is up to date is of the    *)
(* right form, and an interface it has nothing left to do about is closed,     *)
(* usable, complete and backed, for any modules, names, texts and edits.       *)
(***************************************************************************)
EXTENDS Sealing, FiniteSetTheorems, TLAPS

-----------------------------------------------------------------------------
(* Closures. *)

ClosedUnder(edges, S) == \A e \in edges : e[1] \in S => e[2] \in S

\* Among sets of members of a finite set, one that no other contains.
LEMMA LargestSet ==
  ASSUME NEW U, IsFiniteSet(U), NEW B, B \subseteq SUBSET U, B # {}
  PROVE  \E X \in B : \A Y \in B : X \subseteq Y => X = Y
<1> DEFINE rest == {U \ X : X \in B}
<1>1. rest \subseteq FiniteSubsetsOf(U) /\ rest # {}
  <2>1. \A X \in SUBSET U : IsFiniteSet(X) BY FS_Subset
  <2>2. \A X \in B : U \ X \in FiniteSubsetsOf(U)
    <3> TAKE X \in B
    <3>1. U \ X \in SUBSET U OBVIOUS
    <3> QED BY <2>1, <3>1 DEF FiniteSubsetsOf
  <2>3. rest \subseteq FiniteSubsetsOf(U)
    <3> SUFFICES ASSUME NEW r \in rest PROVE r \in FiniteSubsetsOf(U) OBVIOUS
    <3> QED BY <2>2
  <2>4. PICK X : X \in B OBVIOUS
  <2>5. U \ X \in rest BY <2>4
  <2> QED BY <2>3, <2>5
<1>2. IsWellFoundedOn(StrictSubsetOrdering(U), FiniteSubsetsOf(U))
  BY FS_StrictSubsetOrderingWellFounded
<1>3. \E x \in rest : \A y \in rest : ~ (<<y, x>> \in StrictSubsetOrdering(U))
  <2> HIDE DEF rest
  <2> QED BY <1>1, <1>2, WFMin
<1>4. PICK X \in B : \A Y \in B : ~ (<<U \ Y, U \ X>> \in StrictSubsetOrdering(U))
  BY <1>3
<1>5. ASSUME NEW Y \in B, X \subseteq Y PROVE X = Y
  <2>1. SUFFICES ASSUME X # Y PROVE FALSE OBVIOUS
  <2>2. PICK u \in U : u \in Y /\ u \notin X BY <1>5, <2>1
  <2>3. U \ Y \subseteq U \ X /\ U \ Y # U \ X BY <1>5, <2>2
  <2>4. U \ Y \in SUBSET U /\ U \ X \in SUBSET U OBVIOUS
  <2> QED BY <2>3, <2>4, <1>4 DEF StrictSubsetOrdering
<1> QED BY <1>5

\* The closure has the nodes, is closed, and is in every set that is so.
LEMMA ClosureIsLeast ==
  ASSUME NEW U, IsFiniteSet(U), NEW nodes \in SUBSET U, NEW edges \in SUBSET (U \X U)
  PROVE  /\ nodes \subseteq ClosureFrom(nodes, edges)
         /\ ClosureFrom(nodes, edges) \subseteq U
         /\ ClosedUnder(edges, ClosureFrom(nodes, edges))
         /\ \A S : nodes \subseteq S /\ ClosedUnder(edges, S)
                     => ClosureFrom(nodes, edges) \subseteq S
<1> DEFINE all == nodes \cup {e[2] : e \in edges}
           Onward(S) == S \cup {e[2] : e \in {f \in edges : f[1] \in S}}
           Step(g) == [S \in SUBSET all |-> IF Onward(S) = S THEN S ELSE g[Onward(S)]]
           reached == CHOOSE g : g = Step(g)
           Least(S) == {x \in all : \A T \in SUBSET all :
                          S \subseteq T /\ ClosedUnder(edges, T) => x \in T}
<1>1. ClosureFrom(nodes, edges) = reached[nodes] BY DEF ClosureFrom
<1>2. all \subseteq U /\ IsFiniteSet(all)
  <2>1. all \subseteq U OBVIOUS
  <2> HIDE DEF all
  <2> QED BY <2>1, FS_Subset
<1>3. \A S \in SUBSET all : Onward(S) \in SUBSET all /\ S \subseteq Onward(S) OBVIOUS
<1>4. \A S \in SUBSET all : Onward(S) = S <=> ClosedUnder(edges, S)
  BY DEF ClosedUnder
<1>5. \A S, T \in SUBSET all :
        S \subseteq T /\ ClosedUnder(edges, T) => Onward(S) \subseteq T
  BY DEF ClosedUnder
<1> HIDE DEF all, Onward
<1>6. \A S \in SUBSET all : ClosedUnder(edges, S) => Least(S) = S OBVIOUS
<1>7. \A S \in SUBSET all : Least(Onward(S)) = Least(S) BY <1>3, <1>5
<1>8. reached = Step(reached)
  <2> DEFINE w == [S \in SUBSET all |-> Least(S)]
  <2>1. \A S \in SUBSET all : w[S] = IF Onward(S) = S THEN S ELSE w[Onward(S)]
    <3> TAKE S \in SUBSET all
    <3>1. w[S] = Least(S) OBVIOUS
    <3>2. w[Onward(S)] = Least(Onward(S)) BY <1>3
    <3> HIDE DEF w, Least
    <3> QED BY <3>1, <3>2, <1>4, <1>6, <1>7
  <2>2. w = [S \in SUBSET all |-> w[S]] OBVIOUS
  <2> HIDE DEF w
  <2>3. w = Step(w) BY <2>1, <2>2
  <2> HIDE DEF Step
  <2> QED BY <2>3
<1>9. \A S \in SUBSET all : reached[S] = IF Onward(S) = S THEN S ELSE reached[Onward(S)]
  <2> HIDE DEF reached
  <2> QED BY <1>8
<1> HIDE DEF reached
<1>10. \A S \in SUBSET all : reached[S] = Least(S)
  <2> DEFINE bad == {S \in SUBSET all : reached[S] # Least(S)}
  <2>1. SUFFICES ASSUME bad # {} PROVE FALSE OBVIOUS
  <2>2. bad \subseteq SUBSET all OBVIOUS
  <2>3. PICK S \in bad : \A T \in bad : S \subseteq T => S = T
    <3> HIDE DEF bad
    <3> QED BY <2>1, <2>2, <1>2, LargestSet
  <2>4. S \in SUBSET all /\ reached[S] # Least(S) OBVIOUS
  <2> HIDE DEF Least
  <2>5. Onward(S) # S BY <2>4, <1>4, <1>6, <1>9
  <2>6. reached[Onward(S)] = Least(Onward(S)) BY <2>3, <2>4, <2>5, <1>3
  <2> QED BY <2>4, <2>5, <2>6, <1>7, <1>9
<1>11. nodes \in SUBSET all BY DEF all
<1>12. ClosureFrom(nodes, edges) = Least(nodes) BY <1>1, <1>10, <1>11
<1>13. nodes \subseteq Least(nodes) /\ Least(nodes) \subseteq all BY <1>11
<1>14. ClosedUnder(edges, Least(nodes))
  <2> SUFFICES ASSUME NEW e \in edges, e[1] \in Least(nodes) PROVE e[2] \in Least(nodes)
    BY DEF ClosedUnder
  <2>1. e[2] \in all BY DEF all
  <2> QED BY <2>1 DEF ClosedUnder
<1>15. ASSUME NEW S, nodes \subseteq S, ClosedUnder(edges, S) PROVE Least(nodes) \subseteq S
  <2>1. ClosedUnder(edges, S \cap all)
    <3>1. \A e \in edges : e[2] \in all BY DEF all
    <3> QED BY <3>1, <1>15 DEF ClosedUnder
  <2>2. nodes \subseteq S \cap all BY <1>15, <1>11
  <2> QED BY <2>1, <2>2
<1> QED BY <1>2, <1>12, <1>13, <1>14, <1>15

-----------------------------------------------------------------------------
(* The graph of imports. *)

UpEdges == {e \in Modules \X Modules : e[2] \in FirstText[e[1]].imports}

\* The modules above a module, by the texts everything begins with.
Up(m) == ClosureFrom(FirstText[m].imports, UpEdges)

LEMMA ImportsAreModules ==
  \A m \in Modules : FirstText[m].imports \in SUBSET Modules
BY SealingAssumption DEF Texts

LEMMA UpIsLeast ==
  ASSUME NEW m \in Modules
  PROVE  /\ Up(m) \subseteq Modules
         /\ FirstText[m].imports \subseteq Up(m)
         /\ \A y \in Up(m) : FirstText[y].imports \subseteq Up(m)
         /\ \A S \in SUBSET Modules :
              /\ FirstText[m].imports \subseteq S
              /\ \A y \in S : FirstText[y].imports \subseteq S
              => Up(m) \subseteq S
<1>1. IsFiniteSet(Modules) /\ FirstText[m].imports \in SUBSET Modules
      /\ UpEdges \in SUBSET (Modules \X Modules)
  BY ImportsAreModules, SealingAssumption DEF UpEdges
<1>2. /\ FirstText[m].imports \subseteq Up(m)
      /\ Up(m) \subseteq Modules
      /\ ClosedUnder(UpEdges, Up(m))
      /\ \A S : FirstText[m].imports \subseteq S /\ ClosedUnder(UpEdges, S) => Up(m) \subseteq S
  BY <1>1, ClosureIsLeast DEF Up
<1>3. ASSUME NEW y \in Up(m), NEW z \in FirstText[y].imports PROVE z \in Up(m)
  <2>1. y \in Modules /\ z \in Modules BY <1>2, ImportsAreModules
  <2>2. <<y, z>> \in UpEdges BY <2>1 DEF UpEdges
  <2> QED BY <1>2, <2>2 DEF ClosedUnder
<1>4. ASSUME NEW S \in SUBSET Modules,
             \A y \in S : FirstText[y].imports \subseteq S
      PROVE  ClosedUnder(UpEdges, S)
  BY <1>4 DEF ClosedUnder, UpEdges
<1> QED BY <1>2, <1>3, <1>4

\* What is above what is above is above.
LEMMA UpTransitive ==
  ASSUME NEW m \in Modules, NEW y \in Up(m)
  PROVE  y \in Modules /\ Up(y) \subseteq Up(m)
<1>1. y \in Modules /\ Up(m) \in SUBSET Modules BY UpIsLeast
<1>2. /\ FirstText[y].imports \subseteq Up(m)
      /\ \A z \in Up(m) : FirstText[z].imports \subseteq Up(m)
  BY UpIsLeast
<1> QED BY <1>1, <1>2, UpIsLeast

\* Of any modules there is one with none of them above it.
LEMMA UpFounded ==
  ASSUME NEW S \in SUBSET Modules, S # {}
  PROVE  \E m \in S : Up(m) \cap S = {}
<1> DEFINE under == {m \in Modules : m \in S \/ Up(m) \cap S # {}}
<1>1. under \in SUBSET Modules /\ under # {} OBVIOUS
<1>2. PICK m \in under : FirstText[m].imports \cap under = {}
  <2> HIDE DEF under
  <2> QED BY <1>1, SealingAssumption
<1>3. Up(m) \subseteq Modules \ under
  <2>1. FirstText[m].imports \subseteq Modules \ under BY <1>2, ImportsAreModules
  <2>2. ASSUME NEW y \in Modules \ under, NEW z \in FirstText[y].imports
        PROVE  z \in Modules \ under
    <3>1. z \in Modules /\ z \in Up(y) BY UpIsLeast, ImportsAreModules
    <3>2. Up(z) \subseteq Up(y) BY <3>1, UpTransitive
    <3>3. Up(y) \cap S = {} OBVIOUS
    <3> QED BY <3>1, <3>2, <3>3
  <2>3. Modules \ under \in SUBSET Modules OBVIOUS
  <2> HIDE DEF under
  <2> QED BY <2>1, <2>2, <2>3, <1>1, UpIsLeast
<1>4. Up(m) \cap S = {} BY <1>3
<1> QED BY <1>4

LEMMA UpIrreflexive ==
  ASSUME NEW m \in Modules
  PROVE  m \notin Up(m)
<1>1. {m} \in SUBSET Modules /\ {m} # {} OBVIOUS
<1>2. \E n \in {m} : Up(n) \cap {m} = {} BY <1>1, UpFounded
<1> QED BY <1>2

-----------------------------------------------------------------------------
(* What the loader reaches in the caches c. *)

LoadEdges(c) ==
  {e \in Modules \X Modules : c[e[1]] # Missing /\ e[2] \in c[e[1]].dependencies}

LoadedOf(c, ms) == ClosureFrom(ms, LoadEdges(c))

KnownOf(c, ms) == UNION {c[m].declarations : m \in LoadedOf(c, ms)}

\* Caches name only what their modules import.
EdgesAreImports(c) ==
  \A m \in Modules : c[m] # Missing => c[m].dependencies \subseteq FirstText[m].imports

LEMMA LoadedIsLeast ==
  ASSUME NEW c, EdgesAreImports(c), NEW ms \in SUBSET Modules
  PROVE  /\ LoadedOf(c, ms) \subseteq Modules
         /\ ms \subseteq LoadedOf(c, ms)
         /\ \A y \in LoadedOf(c, ms) :
              c[y] # Missing => c[y].dependencies \subseteq LoadedOf(c, ms)
         /\ \A S \in SUBSET Modules :
              /\ ms \subseteq S
              /\ \A y \in S : c[y] # Missing => c[y].dependencies \subseteq S
              => LoadedOf(c, ms) \subseteq S
<1>1. IsFiniteSet(Modules) /\ LoadEdges(c) \in SUBSET (Modules \X Modules)
  BY SealingAssumption DEF LoadEdges
<1>2. /\ ms \subseteq LoadedOf(c, ms)
      /\ LoadedOf(c, ms) \subseteq Modules
      /\ ClosedUnder(LoadEdges(c), LoadedOf(c, ms))
      /\ \A S : ms \subseteq S /\ ClosedUnder(LoadEdges(c), S) => LoadedOf(c, ms) \subseteq S
  BY <1>1, ClosureIsLeast DEF LoadedOf
<1>3. ASSUME NEW y \in LoadedOf(c, ms), c[y] # Missing, NEW z \in c[y].dependencies
      PROVE  z \in LoadedOf(c, ms)
  <2>1. y \in Modules /\ z \in Modules
    BY <1>2, <1>3, ImportsAreModules DEF EdgesAreImports
  <2>2. <<y, z>> \in LoadEdges(c) BY <2>1, <1>3 DEF LoadEdges
  <2> QED BY <1>2, <2>2 DEF ClosedUnder
<1>4. ASSUME NEW S \in SUBSET Modules,
             \A y \in S : c[y] # Missing => c[y].dependencies \subseteq S
      PROVE  ClosedUnder(LoadEdges(c), S)
  BY <1>4 DEF ClosedUnder, LoadEdges
<1> QED BY <1>2, <1>3, <1>4

\* Loading what a module imports stays above it.
LEMMA LoadedAbove ==
  ASSUME NEW c, EdgesAreImports(c), NEW m \in Modules, NEW ms \in SUBSET FirstText[m].imports
  PROVE  LoadedOf(c, ms) \subseteq Up(m)
<1>1. ms \in SUBSET Modules /\ Up(m) \in SUBSET Modules /\ ms \subseteq Up(m)
  BY UpIsLeast, ImportsAreModules
<1>2. \A y \in Up(m) : c[y] # Missing => c[y].dependencies \subseteq Up(m)
  BY <1>1, UpIsLeast DEF EdgesAreImports
<1> QED BY <1>1, <1>2, LoadedIsLeast

LEMMA LoadedAboveSelf ==
  ASSUME NEW c, EdgesAreImports(c), NEW m \in Modules
  PROVE  LoadedOf(c, {m}) \subseteq Up(m) \cup {m}
<1>1. {m} \in SUBSET Modules /\ Up(m) \cup {m} \in SUBSET Modules BY UpIsLeast
<1>2. \A y \in Up(m) \cup {m} :
        c[y] # Missing => c[y].dependencies \subseteq Up(m) \cup {m}
  BY UpIsLeast DEF EdgesAreImports
<1> QED BY <1>1, <1>2, LoadedIsLeast

\* Loading more reaches no less.
LEMMA LoadedGrows ==
  ASSUME NEW c, EdgesAreImports(c), NEW ms \in SUBSET Modules, NEW ns \in SUBSET ms
  PROVE  LoadedOf(c, ns) \subseteq LoadedOf(c, ms)
<1>1. ns \in SUBSET Modules /\ LoadedOf(c, ms) \in SUBSET Modules BY LoadedIsLeast
<1>2. /\ ns \subseteq LoadedOf(c, ms)
      /\ \A y \in LoadedOf(c, ms) :
           c[y] # Missing => c[y].dependencies \subseteq LoadedOf(c, ms)
  BY LoadedIsLeast
<1> QED BY <1>1, <1>2, LoadedIsLeast

\* Caches that agree above a module and at it load the same for it.
LEMMA LoadedAgrees ==
  ASSUME NEW c, NEW d, EdgesAreImports(c), EdgesAreImports(d), NEW m \in Modules,
         \A y \in Up(m) \cup {m} : d[y] = c[y]
  PROVE  /\ LoadedOf(d, {m}) = LoadedOf(c, {m})
         /\ KnownOf(d, {m}) = KnownOf(c, {m})
<1>0. {m} \in SUBSET Modules OBVIOUS
<1>1. ASSUME NEW a, NEW b, EdgesAreImports(a), EdgesAreImports(b),
             \A y \in Up(m) \cup {m} : b[y] = a[y]
      PROVE  LoadedOf(b, {m}) \subseteq LoadedOf(a, {m})
  <2>1. LoadedOf(a, {m}) \in SUBSET Modules BY <1>0, <1>1, LoadedIsLeast
  <2>2. LoadedOf(a, {m}) \subseteq Up(m) \cup {m} BY <1>1, LoadedAboveSelf
  <2>3. {m} \subseteq LoadedOf(a, {m})
        /\ \A y \in LoadedOf(a, {m}) :
             a[y] # Missing => a[y].dependencies \subseteq LoadedOf(a, {m})
    BY <1>0, <1>1, LoadedIsLeast
  <2>4. \A y \in LoadedOf(a, {m}) :
          b[y] # Missing => b[y].dependencies \subseteq LoadedOf(a, {m})
    BY <1>1, <2>2, <2>3
  <2> QED BY <1>0, <1>1, <2>1, <2>3, <2>4, LoadedIsLeast
<1>2. LoadedOf(d, {m}) \subseteq LoadedOf(c, {m}) BY <1>1
<1>3. LoadedOf(c, {m}) \subseteq LoadedOf(d, {m}) BY <1>1
<1>4. LoadedOf(c, {m}) \subseteq Up(m) \cup {m} BY LoadedAboveSelf
<1>5. \A y \in LoadedOf(c, {m}) : d[y] = c[y] BY <1>4
<1> QED BY <1>2, <1>3, <1>5 DEF KnownOf

\* A module whose cache is replaced is loaded with what its new cache names.
LEMMA LoadedFrom ==
  ASSUME NEW c, NEW d, EdgesAreImports(c), EdgesAreImports(d), NEW m \in Modules,
         \A y \in Modules \ {m} : d[y] = c[y], d[m] # Missing
  PROVE  LoadedOf(d, {m}) = {m} \cup LoadedOf(c, d[m].dependencies)
<1> DEFINE ms == d[m].dependencies
           own == LoadedOf(c, ms)
           all == LoadedOf(d, {m})
<1>1. /\ ms \in SUBSET FirstText[m].imports
      /\ ms \in SUBSET Modules
      /\ {m} \in SUBSET Modules
      /\ m \notin ms
  BY ImportsAreModules, UpIrreflexive, UpIsLeast DEF EdgesAreImports
<1>2. /\ own \subseteq Modules /\ ms \subseteq own
      /\ \A y \in own : c[y] # Missing => c[y].dependencies \subseteq own
      /\ \A S \in SUBSET Modules :
           /\ ms \subseteq S
           /\ \A y \in S : c[y] # Missing => c[y].dependencies \subseteq S
           => own \subseteq S
  <2> HIDE DEF ms
  <2> QED BY <1>1, LoadedIsLeast
<1>3. /\ all \subseteq Modules /\ m \in all
      /\ \A y \in all : d[y] # Missing => d[y].dependencies \subseteq all
      /\ \A S \in SUBSET Modules :
           /\ {m} \subseteq S
           /\ \A y \in S : d[y] # Missing => d[y].dependencies \subseteq S
           => all \subseteq S
  BY <1>1, LoadedIsLeast
<1>4. own \subseteq Up(m) /\ all \subseteq Up(m) \cup {m} /\ m \notin Up(m)
      /\ Up(m) \subseteq Modules /\ \A y \in Up(m) : FirstText[y].imports \subseteq Up(m)
  <2> HIDE DEF ms
  <2> QED BY <1>1, LoadedAbove, LoadedAboveSelf, UpIrreflexive, UpIsLeast
<1> HIDE DEF own, all
<1>5. all \subseteq {m} \cup own
  <2>1. {m} \cup own \in SUBSET Modules /\ {m} \subseteq {m} \cup own BY <1>2
  <2>2. ASSUME NEW y \in {m} \cup own, d[y] # Missing
        PROVE  d[y].dependencies \subseteq {m} \cup own
    <3>1. CASE y = m BY <3>1, <1>2
    <3>2. CASE y # m
      <4>1. y \in own /\ d[y] = c[y] BY <3>2, <1>2
      <4> QED BY <4>1, <2>2, <1>2
    <3> QED BY <3>1, <3>2
  <2> QED BY <2>1, <2>2, <1>3
<1>6. own \subseteq all
  <2> DEFINE S == all \ {m}
  <2>1. S \in SUBSET Modules /\ S \subseteq Up(m) BY <1>3, <1>4
  <2>2. ms \subseteq S BY <1>1, <1>3
  <2>3. ASSUME NEW y \in S, c[y] # Missing PROVE c[y].dependencies \subseteq S
    <3>1. d[y] = c[y] /\ y \in all BY <2>1
    <3>2. c[y].dependencies \subseteq all BY <3>1, <2>3, <1>3
    <3>3. c[y].dependencies \subseteq FirstText[y].imports
      BY <2>1, <2>3 DEF EdgesAreImports
    <3>4. c[y].dependencies \subseteq Up(m) BY <3>3, <2>1, <1>4
    <3> QED BY <3>2, <3>4, <1>4
  <2>4. own \subseteq S
    <3> HIDE DEF S, ms
    <3> QED BY <2>1, <2>2, <2>3, <1>2
  <2> QED BY <2>4
<1> QED BY <1>3, <1>5, <1>6 DEF own, all

-----------------------------------------------------------------------------
(* The invariant. *)

TypeOK ==
  /\ text \in [Modules -> Texts]
  /\ iface \in [Modules -> Caches \cup {Missing}]
  /\ full \in [Modules -> Caches \cup {Missing}]
  /\ ifaceOld \in SUBSET Modules /\ fullOld \in SUBSET Modules
  /\ kept \in SUBSET Modules /\ superseded \in SUBSET Modules
  /\ edits \in Nat

ImportsFixed == \A m \in Modules : text[m].imports = FirstText[m].imports

\* What is not out of date exists; a full cache has what its source declares.
Present ==
  /\ \A m \in Modules \ ifaceOld : iface[m] # Missing
  /\ \A m \in Modules \ fullOld :
       full[m] # Missing /\ text[m].declares \subseteq full[m].declarations

States(decls, d) == \E e \in decls : e.name = d.name /\ e.type = d.type

\* A declaration of an interface that is not out of date stands in the module's source
\* or in an interface above it.
TracedAt(m) ==
  \A d \in iface[m].declarations :
    \/ States(text[m].declares, d)
    \/ \E y \in Up(m) : States(iface[y].declarations, d)

Traced == \A m \in Modules \ ifaceOld : TracedAt(m)

ExportsImported ==
  \A m \in Interfaces \ ifaceOld : text[m].exportsTheorems \subseteq text[m].imports

SeenFrom(m) == NamesIn(KnownOf(iface, {m}))

Readable(m) == \A d \in iface[m].declarations : d.type \subseteq SeenFrom(m)

Usable(m) ==
  /\ \A d \in iface[m].declarations :
       d.name \in text[m].exportsDefinitions => d.body \subseteq SeenFrom(m)
  /\ \A w \in iface[m].wiring \ text[m].wiring : w \subseteq SeenFrom(m)

Lossless(m) ==
  \A x \in text[m].exportsTheorems :
    \A d \in iface[x].declarations :
      (d.kind = "theorem" /\ d.type \subseteq SeenFrom(m))
        => d.name \in NamesIn(iface[m].declarations)

\* An interface that is not out of date and was sealed over current caches is sound.
SealsHold ==
  \A m \in Interfaces \ (ifaceOld \cup superseded) : Readable(m) /\ Usable(m) /\ Lossless(m)

SInv ==
  TypeOK /\ ImportsFixed /\ EdgesAreImports(iface) /\ Present /\ Traced
    /\ ExportsImported /\ SealsHold

\* The closures of the model are those above.
LEMMA AboveIsUp ==
  ASSUME ImportsFixed
  PROVE  \A m \in Modules : Above(m) = Up(m)
<1>1. {e \in Modules \X Modules : e[2] \in text[e[1]].imports} = UpEdges
  BY DEF UpEdges, ImportsFixed
<1> QED BY <1>1 DEF Above, Up, ImportsFixed

LEMMA LoadingIsLoading ==
  ASSUME NEW ms
  PROVE  LoadedWith(ms) = LoadedOf(iface, ms) /\ Environment(ms) = KnownOf(iface, ms)
<1>1. LoadedWith(ms) = LoadedOf(iface, ms) BY DEF LoadedWith, LoadedOf, LoadEdges
<1> QED BY <1>1 DEF Environment, KnownOf

\* A module that verifies has loaded caches, and what it knows is declarations.
LEMMA LoadsCaches ==
  ASSUME TypeOK, ImportsFixed, EdgesAreImports(iface), NEW m \in Modules, Elaborates(m)
  PROVE  /\ text[m].imports \in SUBSET Modules
         /\ text[m].imports \subseteq LoadedOf(iface, text[m].imports)
         /\ LoadedOf(iface, text[m].imports) \subseteq Up(m)
         /\ \A y \in LoadedOf(iface, text[m].imports) : iface[y] \in Caches
         /\ KnownOf(iface, text[m].imports) \subseteq Declarations
<1>1. text[m].imports \in SUBSET FirstText[m].imports
      /\ text[m].imports \in SUBSET Modules
  BY ImportsAreModules DEF ImportsFixed
<1>2. LoadedOf(iface, text[m].imports) \subseteq Up(m) BY <1>1, LoadedAbove
<1>3. text[m].imports \subseteq LoadedOf(iface, text[m].imports) BY <1>1, LoadedIsLeast
<1>4. Up(m) \subseteq Modules BY UpIsLeast
<1>5. \A y \in LoadedOf(iface, text[m].imports) : iface[y] # Missing
  BY LoadingIsLoading DEF Elaborates, Loads
<1>6. \A y \in LoadedOf(iface, text[m].imports) : iface[y] \in Caches
  BY <1>2, <1>4, <1>5 DEF TypeOK
<1>7. KnownOf(iface, text[m].imports) \subseteq Declarations
  BY <1>6 DEF KnownOf, Caches
<1> QED BY <1>1, <1>2, <1>3, <1>6, <1>7

\* An interface keeps the names, kinds and types of a cache, and the bodies of what is
\* not a theorem.
LEMMA InterfaceKeeps ==
  ASSUME NEW c \in Caches
  PROVE  /\ InterfaceOf(c) \in Caches
         /\ InterfaceOf(c).dependencies = c.dependencies
         /\ InterfaceOf(c).implements = c.implements
         /\ InterfaceOf(c).wiring = c.wiring
         /\ NamesIn(InterfaceOf(c).declarations) = NamesIn(c.declarations)
         /\ \A d \in InterfaceOf(c).declarations : \E e \in c.declarations :
              /\ d.name = e.name /\ d.kind = e.kind /\ d.type = e.type
              /\ d.body = IF e.kind = "theorem" THEN {} ELSE e.body
<1> DEFINE Cut(d) == IF d.kind = "theorem" THEN [d EXCEPT !.body = {}] ELSE d
           cut == {Cut(d) : d \in c.declarations}
<1>1. InterfaceOf(c) = [c EXCEPT !.declarations = cut] BY DEF InterfaceOf
<1>2. \A d \in Declarations :
        /\ Cut(d) \in Declarations
        /\ Cut(d).name = d.name /\ Cut(d).kind = d.kind /\ Cut(d).type = d.type
        /\ Cut(d).body = IF d.kind = "theorem" THEN {} ELSE d.body
  BY DEF Declarations
<1>3. c.declarations \subseteq Declarations BY DEF Caches
<1> HIDE DEF Cut
<1>4. cut \subseteq Declarations BY <1>2, <1>3
<1>5. NamesIn(cut) = NamesIn(c.declarations)
  <2>1. ASSUME NEW n \in NamesIn(cut) PROVE n \in NamesIn(c.declarations)
    BY <1>2, <1>3 DEF NamesIn
  <2>2. ASSUME NEW n \in NamesIn(c.declarations) PROVE n \in NamesIn(cut)
    <3>1. PICK d \in c.declarations : n = d.name BY DEF NamesIn
    <3>2. Cut(d) \in cut /\ Cut(d).name = n BY <3>1, <1>2, <1>3
    <3> HIDE DEF cut
    <3> QED BY <3>2 DEF NamesIn
  <2> QED BY <2>1, <2>2
<1>6. \A d \in cut : \E e \in c.declarations :
        /\ d.name = e.name /\ d.kind = e.kind /\ d.type = e.type
        /\ d.body = IF e.kind = "theorem" THEN {} ELSE e.body
  BY <1>2, <1>3
<1> HIDE DEF cut
<1>7. /\ InterfaceOf(c) \in Caches
      /\ InterfaceOf(c).declarations = cut
      /\ InterfaceOf(c).dependencies = c.dependencies
      /\ InterfaceOf(c).implements = c.implements
      /\ InterfaceOf(c).wiring = c.wiring
  BY <1>1, <1>4 DEF Caches
<1> QED BY <1>5, <1>6, <1>7

-----------------------------------------------------------------------------
(* The cache of an interface module. *)

\* Its parts are declarations.
LEMMA SealTyped ==
  ASSUME TypeOK, ImportsFixed, EdgesAreImports(iface), NEW m \in Modules,
         Elaborates(m), IsInterface(m), Seals(m)
  PROVE  /\ StatedHere(m) \subseteq Declarations
         /\ ExportedDefinitions(m) \subseteq Declarations
         /\ ExportedTheorems(m) \subseteq ExportCandidates(m)
         /\ ExportCandidates(m) \subseteq Declarations
         /\ SealedDeclarations(m) \subseteq Declarations
         /\ SealedWiring(m) \subseteq SUBSET Names
         /\ DroppedBy(m) \subseteq text[m].imports
<1>1. /\ text[m] \in Texts
      /\ \A y \in text[m].imports : iface[y] \in Caches
      /\ KnownOf(iface, text[m].imports) \subseteq Declarations
  BY LoadsCaches DEF TypeOK
<1>2. DroppedBy(m) \subseteq text[m].imports
  BY DEF DroppedBy, Seals, NamesImplementation
<1>3. SealedObligations(m) \subseteq Declarations
  BY <1>1 DEF SealedObligations, Declaration, Declarations, Texts
<1>4. StatedHere(m) \subseteq Declarations BY <1>1, <1>3 DEF StatedHere, Texts
<1>5. ExportedDefinitions(m) \subseteq Declarations
  BY <1>1, LoadingIsLoading DEF ExportedDefinitions
<1>6. ExportCandidates(m) \subseteq Declarations
  <2>1. \A t \in text[m].exportsTheorems : iface[t].declarations \subseteq Declarations
    BY <1>1, <1>2 DEF DroppedBy, Caches
  <2> QED BY <2>1 DEF ExportCandidates
<1>7. ExportedTheorems(m) \subseteq ExportCandidates(m) BY DEF ExportedTheorems
<1>8. {Declaration(d.name, "theorem", d.type, {}) : d \in ExportedTheorems(m)}
        \subseteq Declarations
  BY <1>6, <1>7 DEF Declaration, Declarations, Kinds
<1>9. SealedWiring(m) \subseteq SUBSET Names
  <2>1. \A x \in DroppedBy(m) : iface[x].wiring \subseteq SUBSET Names
    BY <1>1, <1>2 DEF Caches
  <2> QED BY <1>1, <2>1 DEF SealedWiring, Texts
<1> QED BY <1>2, <1>4, <1>5, <1>6, <1>7, <1>8, <1>9 DEF SealedDeclarations

LEMMA CacheTyped ==
  ASSUME TypeOK, ImportsFixed, EdgesAreImports(iface), NEW m \in Modules, Verifies(m)
  PROVE  /\ CacheOf(m) \in Caches
         /\ CacheOf(m).dependencies \subseteq text[m].imports
         /\ text[m].declares \subseteq CacheOf(m).declarations
         /\ IsInterface(m) => /\ CacheOf(m).declarations = SealedDeclarations(m)
                              /\ CacheOf(m).dependencies = Kept(m)
                              /\ CacheOf(m).wiring = SealedWiring(m)
         /\ ~IsInterface(m) => CacheOf(m).declarations = text[m].declares
<1>1. text[m] \in Texts BY DEF TypeOK
<1>2. CASE IsInterface(m)
  <2>1. SealedDeclarations(m) \subseteq Declarations /\ SealedWiring(m) \subseteq SUBSET Names
    BY <1>2, SealTyped DEF Verifies
  <2>2. Kept(m) \subseteq text[m].imports BY DEF Kept
  <2>3. text[m].declares \subseteq SealedDeclarations(m) BY DEF SealedDeclarations, StatedHere
  <2>4. CacheOf(m) = [declarations |-> SealedDeclarations(m), dependencies |-> Kept(m),
                      implements |-> text[m].implements, wiring |-> SealedWiring(m)]
    BY <1>2 DEF CacheOf
  <2> QED BY <1>1, <1>2, <2>1, <2>2, <2>3, <2>4 DEF Caches, Texts
<1>3. CASE ~IsInterface(m)
  <2>1. CacheOf(m) = [declarations |-> text[m].declares, dependencies |-> text[m].imports,
                      implements |-> text[m].implements, wiring |-> text[m].wiring]
    BY <1>3 DEF CacheOf
  <2> QED BY <1>1, <1>3, <2>1 DEF Caches, Texts
<1> QED BY <1>2, <1>3

\* The walk over the kept imports, when no full cache it reads was overtaken, sees what
\* loading them would.
LEMMA WalkSeesLoaded ==
  ASSUME TypeOK, ImportsFixed, EdgesAreImports(iface), NEW m \in Modules,
         Elaborates(m), ~SeesOld(m)
  PROVE  ReachableViaKept(m) = NamesIn(KnownOf(iface, Kept(m)))
<1> DEFINE nodes == {n \in Modules \X {"full", "iface"} : Contents(n) # Missing}
           edges == {e \in nodes \X nodes :
                       \E d \in Contents(e[1]).dependencies : e[2] = Named(e[1], d)}
           start == {FormOf(d) : d \in Kept(m)} \cap nodes
           walk  == ReachableCaches(m)
           own   == LoadedOf(iface, Kept(m))
<1>1. /\ start \subseteq walk /\ walk \subseteq nodes
      /\ ClosedUnder(edges, walk)
      /\ \A S : start \subseteq S /\ ClosedUnder(edges, S) => walk \subseteq S
  <2>1. IsFiniteSet(Modules \X {"full", "iface"})
    <3>1. IsFiniteSet({"full"}) /\ IsFiniteSet({"iface"}) BY FS_Singleton
    <3>2. IsFiniteSet({"full"} \cup {"iface"}) BY <3>1, FS_Union
    <3>3. {"full", "iface"} = {"full"} \cup {"iface"} OBVIOUS
    <3>4. IsFiniteSet({"full", "iface"}) BY <3>2, <3>3
    <3> QED BY <3>4, FS_Product, SealingAssumption
  <2>2. IsFiniteSet(nodes)
    <3>1. nodes \subseteq Modules \X {"full", "iface"} OBVIOUS
    <3> HIDE DEF nodes
    <3> QED BY <2>1, <3>1, FS_Subset
  <2>3. start \in SUBSET nodes /\ edges \in SUBSET (nodes \X nodes) OBVIOUS
  <2>4. walk = ClosureFrom(start, edges) BY DEF ReachableCaches
  <2> HIDE DEF nodes, edges, start, walk
  <2> QED BY <2>2, <2>3, <2>4, ClosureIsLeast
<1>2. Kept(m) \in SUBSET text[m].imports /\ text[m].imports \in SUBSET Modules
  BY LoadsCaches DEF Kept
<1>3. own \subseteq LoadedOf(iface, text[m].imports) BY <1>2, LoadedGrows
<1>4. \A y \in own : iface[y] \in Caches /\ y \in Modules
  BY <1>2, <1>3, LoadsCaches, UpIsLeast
<1>5. /\ own \subseteq Modules
      /\ Kept(m) \subseteq own
      /\ \A y \in own : iface[y].dependencies \subseteq own
      /\ \A S \in SUBSET Modules :
           /\ Kept(m) \subseteq S
           /\ \A y \in S : iface[y] # Missing => iface[y].dependencies \subseteq S
           => own \subseteq S
  <2>1. Kept(m) \in SUBSET Modules BY <1>2
  <2>2. /\ own \subseteq Modules
        /\ Kept(m) \subseteq own
        /\ \A y \in own : iface[y] # Missing => iface[y].dependencies \subseteq own
        /\ \A S \in SUBSET Modules :
             /\ Kept(m) \subseteq S
             /\ \A y \in S : iface[y] # Missing => iface[y].dependencies \subseteq S
             => own \subseteq S
    BY <2>1, LoadedIsLeast
  <2>3. \A y \in own : iface[y] # Missing BY <1>4, SealingAssumption
  <2> QED BY <2>2, <2>3
\* A cache on the walk is, as far as a consumer can tell, the interface.
<1>6. ASSUME NEW n \in walk
      PROVE  /\ n[1] \in Modules
             /\ Contents(n) \in Caches
             /\ iface[n[1]] \in Caches
             /\ Contents(n).dependencies = iface[n[1]].dependencies
             /\ NamesIn(Contents(n).declarations) = NamesIn(iface[n[1]].declarations)
  <2>1. n \in nodes BY <1>1
  <2>2. n[1] \in Modules /\ n[2] \in {"full", "iface"} /\ Contents(n) # Missing BY <2>1
  <2>3. CASE n[2] = "full"
    <3>1. Contents(n) = full[n[1]] BY <2>3 DEF Contents
    <3>2. full[n[1]] \in Caches BY <2>2, <3>1 DEF TypeOK
    <3>3. iface[n[1]] = InterfaceOf(full[n[1]]) BY <2>3 DEF SeesOld
    <3> QED BY <2>2, <3>1, <3>2, <3>3, InterfaceKeeps
  <2>4. CASE n[2] # "full"
    <3>1. Contents(n) = iface[n[1]] BY <2>4 DEF Contents
    <3>2. iface[n[1]] \in Caches BY <2>2, <3>1 DEF TypeOK
    <3> QED BY <2>2, <3>1, <3>2
  <2> QED BY <2>3, <2>4
<1>7. \A d \in Modules : iface[d] # Missing =>
        /\ FormOf(d) \in nodes /\ FormOf(d)[1] = d
        /\ <<d, "iface">> \in nodes
  BY DEF FormOf, Contents
<1>8. \A n \in walk : n[1] \in own
  <2> DEFINE T == {n \in walk : n[1] \in own}
  <2>1. start \subseteq T
    <3> SUFFICES ASSUME NEW d \in Kept(m), FormOf(d) \in nodes PROVE FormOf(d) \in T
      OBVIOUS
    <3>1. FormOf(d) \in start OBVIOUS
    <3>2. FormOf(d)[1] = d BY DEF FormOf
    <3> HIDE DEF start, nodes, own
    <3> QED BY <3>1, <3>2, <1>1, <1>5
  <2>2. ClosedUnder(edges, T)
    <3> SUFFICES ASSUME NEW e \in edges, e[1] \in T PROVE e[2] \in T
      BY DEF ClosedUnder
    <3>1. PICK d \in Contents(e[1]).dependencies : e[2] = Named(e[1], d) OBVIOUS
    <3>2. e[1] \in walk /\ e[1][1] \in own OBVIOUS
    <3>3. e[2] \in walk
      <4> HIDE DEF edges, walk
      <4> QED BY <3>2, <1>1 DEF ClosedUnder
    <3>4. d \in own
      <4> HIDE DEF edges, walk, own, T
      <4> QED BY <3>1, <3>2, <1>5, <1>6
    <3>5. e[2][1] = d BY <3>1 DEF Named, FormOf
    <3> HIDE DEF edges, walk, own
    <3> QED BY <3>3, <3>4, <3>5
  <2>3. walk \subseteq T
    <3> HIDE DEF T, walk, edges, start
    <3> QED BY <2>1, <2>2, <1>1
  <2> QED BY <2>3
<1>9. \A y \in own : \E n \in walk : n[1] = y
  <2> DEFINE S == {y \in own : \E n \in walk : n[1] = y}
  <2>1. S \in SUBSET Modules BY <1>5
  <2>2. Kept(m) \subseteq S
    <3> SUFFICES ASSUME NEW d \in Kept(m) PROVE d \in S OBVIOUS
    <3>1. d \in own /\ d \in Modules /\ iface[d] # Missing BY <1>4, <1>5, SealingAssumption
    <3>2. FormOf(d) \in nodes /\ FormOf(d)[1] = d
      <4> HIDE DEF nodes, own
      <4> QED BY <3>1, <1>7
    <3>3. FormOf(d) \in start BY <3>2
    <3> HIDE DEF start, nodes, own, walk
    <3> QED BY <3>1, <3>2, <3>3, <1>1
  <2>3. ASSUME NEW y \in S, iface[y] # Missing PROVE iface[y].dependencies \subseteq S
    <3> SUFFICES ASSUME NEW z \in iface[y].dependencies PROVE z \in S OBVIOUS
    <3>1. y \in own OBVIOUS
    <3>2. PICK n \in walk : n[1] = y OBVIOUS
    <3> HIDE DEF own, walk, S
    <3>3. z \in own /\ z \in Modules /\ iface[z] # Missing
      BY <3>1, <1>4, <1>5, SealingAssumption
    <3>4. z \in Contents(n).dependencies BY <3>2, <1>6
    <3>5. Named(n, z) \in nodes /\ Named(n, z)[1] = z
      <4> HIDE DEF nodes
      <4> QED BY <3>3, <1>7 DEF Named
    <3>6. n \in nodes BY <1>1
    <3>7. <<n, Named(n, z)>> \in edges
      <4> HIDE DEF nodes
      <4> QED BY <3>4, <3>5, <3>6
    <3>8. Named(n, z) \in walk
      <4> HIDE DEF edges, nodes
      <4> QED BY <3>7, <1>1 DEF ClosedUnder
    <3> QED BY <3>3, <3>5, <3>8 DEF S
  <2>4. own \subseteq S
    <3> HIDE DEF S, own
    <3> QED BY <2>1, <2>2, <2>3, <1>5
  <2> QED BY <2>4
<1> HIDE DEF walk, own, nodes, edges, start
<1>10. ReachableViaKept(m) = UNION {NamesIn(Contents(n).declarations) : n \in walk}
  BY DEF ReachableViaKept, walk
<1>11. ASSUME NEW x \in ReachableViaKept(m) PROVE x \in NamesIn(KnownOf(iface, Kept(m)))
  <2>1. PICK n \in walk : x \in NamesIn(Contents(n).declarations) BY <1>10
  <2>2. x \in NamesIn(iface[n[1]].declarations) /\ n[1] \in own BY <2>1, <1>6, <1>8
  <2> QED BY <2>2 DEF NamesIn, KnownOf, own
<1>12. ASSUME NEW x \in NamesIn(KnownOf(iface, Kept(m))) PROVE x \in ReachableViaKept(m)
  <2>1. PICK d \in KnownOf(iface, Kept(m)) : x = d.name BY DEF NamesIn
  <2>2. PICK y \in own : d \in iface[y].declarations BY DEF KnownOf, own
  <2>3. PICK n \in walk : n[1] = y BY <1>9
  <2>4. x \in NamesIn(iface[y].declarations) BY <2>1, <2>2 DEF NamesIn
  <2>5. x \in NamesIn(Contents(n).declarations) BY <2>3, <2>4, <1>6
  <2> QED BY <2>5, <1>10
<1> QED BY <1>11, <1>12

-----------------------------------------------------------------------------
(* Steps. *)

\* What a module's interface says, and how it reads, depend on the module's text and on
\* the interfaces above it.
LEMMA Unmoved ==
  ASSUME ImportsFixed, EdgesAreImports(iface), EdgesAreImports(iface'), NEW m \in Modules,
         \A y \in Up(m) \cup {m} : iface'[y] = iface[y], text'[m] = text[m]
  PROVE  /\ SeenFrom(m)' = SeenFrom(m)
         /\ IsInterface(m)' = IsInterface(m)
         /\ TracedAt(m) => TracedAt(m)'
         /\ Readable(m) => Readable(m)'
         /\ Usable(m) => Usable(m)'
         /\ (text[m].exportsTheorems \subseteq text[m].imports /\ Lossless(m)) => Lossless(m)'
<1>1. SeenFrom(m)' = NamesIn(KnownOf(iface', {m}))
  BY DEF SeenFrom
<1>2. SeenFrom(m)' = SeenFrom(m) BY <1>1, LoadedAgrees DEF SeenFrom
<1>3. IsInterface(m)' = IsInterface(m) BY DEF IsInterface
<1>4. TracedAt(m) => TracedAt(m)' BY DEF TracedAt
<1>5. Readable(m) => Readable(m)' BY <1>2 DEF Readable
<1>6. Usable(m) => Usable(m)' BY <1>2 DEF Usable
<1>7. ASSUME text[m].exportsTheorems \subseteq text[m].imports, Lossless(m) PROVE Lossless(m)'
  <2>1. \A x \in text[m].exportsTheorems : iface'[x] = iface[x]
    BY <1>7, UpIsLeast DEF ImportsFixed
  <2> QED BY <1>2, <1>7, <2>1 DEF Lossless
<1> QED BY <1>2, <1>3, <1>4, <1>5, <1>6, <1>7

LEMMA InitHolds ==
  ASSUME Init
  PROVE  SInv
<1>1. TypeOK /\ ImportsFixed BY SealingAssumption DEF Init, TypeOK, ImportsFixed
<1>2. EdgesAreImports(iface) BY DEF Init, EdgesAreImports
<1>3. Present /\ Traced /\ ExportsImported /\ SealsHold
  BY DEF Init, Present, Traced, ExportsImported, SealsHold, Interfaces
<1> QED BY <1>1, <1>2, <1>3 DEF SInv

LEMMA EditKeeps ==
  ASSUME SInv, NEW m \in Modules, NEW t \in Edits[m], Edit(m, t)
  PROVE  SInv'
<1> USE DEF SInv
<1>1. t \in Texts /\ t.imports = FirstText[m].imports BY SealingAssumption
<1>2. /\ text' = [text EXCEPT ![m] = t]
      /\ iface' = iface /\ full' = full /\ kept' = kept /\ superseded' = superseded
      /\ ifaceOld' = ifaceOld \cup {m} /\ fullOld' = fullOld \cup {m}
      /\ edits' = edits + 1
  BY DEF Edit
<1>3. TypeOK' BY <1>1, <1>2 DEF TypeOK
<1>4. ImportsFixed' BY <1>1, <1>2 DEF ImportsFixed, TypeOK
<1>5. EdgesAreImports(iface)' BY <1>2 DEF EdgesAreImports
<1>6. EdgesAreImports(iface') BY <1>2
<1>7. \A n \in Modules \ {m} : text'[n] = text[n] BY <1>2 DEF TypeOK
<1>8. Present' BY <1>2, <1>7 DEF Present
<1>9. Traced' /\ ExportsImported' /\ SealsHold'
  <2>1. ASSUME NEW n \in Modules \ {m}
        PROVE  /\ IsInterface(n)' = IsInterface(n)
               /\ TracedAt(n) => TracedAt(n)'
               /\ Readable(n) => Readable(n)'
               /\ Usable(n) => Usable(n)'
               /\ (text[n].exportsTheorems \subseteq text[n].imports /\ Lossless(n))
                    => Lossless(n)'
    BY <1>2, <1>6, <1>7, Unmoved
  <2>2. Traced' BY <1>2, <2>1 DEF Traced
  <2>3. ExportsImported' BY <1>2, <1>7, <2>1 DEF ExportsImported, Interfaces
  <2>4. SealsHold' BY <1>2, <2>1 DEF SealsHold, Interfaces, ExportsImported
  <2> QED BY <2>2, <2>3, <2>4
<1> QED BY <1>3, <1>4, <1>5, <1>8, <1>9

LEMMA Stage2Keeps ==
  ASSUME SInv, NEW m \in Modules, Stage2(m)
  PROVE  SInv'
<1> USE DEF SInv
<1>1. /\ full' = [full EXCEPT ![m] = CacheOf(m)] /\ fullOld' = fullOld \ {m}
      /\ text' = text /\ iface' = iface /\ ifaceOld' = ifaceOld /\ kept' = kept
      /\ edits' = edits /\ superseded' = superseded
      /\ Verifies(m)
  BY DEF Stage2
<1>2. CacheOf(m) \in Caches /\ text[m].declares \subseteq CacheOf(m).declarations
  BY <1>1, CacheTyped
<1>3. TypeOK' BY <1>1, <1>2 DEF TypeOK
<1>4. ImportsFixed' /\ EdgesAreImports(iface)' BY <1>1 DEF ImportsFixed, EdgesAreImports
<1>5. Present'
  <2>1. full'[m] = CacheOf(m) /\ \A n \in Modules \ {m} : full'[n] = full[n]
    BY <1>1 DEF TypeOK
  <2> QED BY <1>1, <1>2, <2>1, SealingAssumption DEF Present
<1>6. EdgesAreImports(iface') BY <1>1
<1>7. Traced' /\ ExportsImported' /\ SealsHold'
  <2>1. ASSUME NEW n \in Modules
        PROVE  /\ IsInterface(n)' = IsInterface(n)
               /\ TracedAt(n) => TracedAt(n)'
               /\ Readable(n) => Readable(n)'
               /\ Usable(n) => Usable(n)'
               /\ (text[n].exportsTheorems \subseteq text[n].imports /\ Lossless(n))
                    => Lossless(n)'
    BY <1>1, <1>6, Unmoved
  <2>2. Traced' BY <1>1, <2>1 DEF Traced
  <2>3. ExportsImported' BY <1>1, <2>1 DEF ExportsImported, Interfaces
  <2>4. SealsHold' BY <1>1, <2>1 DEF SealsHold, Interfaces, ExportsImported
  <2> QED BY <2>2, <2>3, <2>4
<1> QED BY <1>3, <1>4, <1>5, <1>7

\* The first stage writes a cache, and names no module that is not imported.
LEMMA Stage1Writes ==
  ASSUME SInv, NEW m \in Modules, Stage1(m)
  PROVE  /\ iface' = [iface EXCEPT ![m] = InterfaceOf(CacheOf(m))]
         /\ iface'[m] = InterfaceOf(CacheOf(m)) /\ iface'[m] \in Caches
         /\ \A n \in Modules \ {m} : iface'[n] = iface[n]
         /\ EdgesAreImports(iface')
         /\ text' = text /\ full' = full /\ edits' = edits /\ Verifies(m)
<1> USE DEF SInv
<1>1. /\ iface' = [iface EXCEPT ![m] = InterfaceOf(CacheOf(m))]
      /\ text' = text /\ full' = full /\ edits' = edits /\ Verifies(m)
  BY DEF Stage1
<1>2. /\ CacheOf(m) \in Caches
      /\ CacheOf(m).dependencies \subseteq text[m].imports
  BY <1>1, CacheTyped
<1>3. /\ InterfaceOf(CacheOf(m)) \in Caches
      /\ InterfaceOf(CacheOf(m)).dependencies = CacheOf(m).dependencies
  BY <1>2, InterfaceKeeps
<1>4. iface'[m] = InterfaceOf(CacheOf(m)) /\ \A n \in Modules \ {m} : iface'[n] = iface[n]
  BY <1>1 DEF TypeOK
<1>5. EdgesAreImports(iface')
  BY <1>2, <1>3, <1>4 DEF EdgesAreImports, ImportsFixed
<1> QED BY <1>1, <1>3, <1>4, <1>5

\* Where the first stage leaves a declaration of a module, it was stated there or above.
LEMMA Stage1Traces ==
  ASSUME SInv, NEW m \in Modules, Stage1(m)
  PROVE  TracedAt(m)'
<1> USE DEF SInv
<1>1. /\ iface'[m] = InterfaceOf(CacheOf(m)) /\ text' = text /\ Verifies(m)
      /\ \A n \in Modules \ {m} : iface'[n] = iface[n]
      /\ CacheOf(m) \in Caches
  BY Stage1Writes, CacheTyped
<1> SUFFICES ASSUME NEW d \in iface'[m].declarations
             PROVE  \/ States(text'[m].declares, d)
                    \/ \E y \in Up(m) : States(iface'[y].declarations, d)
  BY DEF TracedAt
<1>2. PICK e \in CacheOf(m).declarations : d.name = e.name /\ d.type = e.type
  BY <1>1, InterfaceKeeps
<1>3. /\ text[m].imports \subseteq LoadedOf(iface, text[m].imports)
      /\ LoadedOf(iface, text[m].imports) \subseteq Up(m)
  BY <1>1, LoadsCaches DEF Verifies
<1>4. \A y \in Up(m) : iface'[y] = iface[y] BY <1>1, UpIrreflexive, UpIsLeast
<1>5. ASSUME NEW f \in Environment(text[m].imports), f.name = e.name, f.type = e.type
      PROVE  \E y \in Up(m) : States(iface'[y].declarations, d)
  <2>1. PICK y \in LoadedOf(iface, text[m].imports) : f \in iface[y].declarations
    BY LoadingIsLoading DEF KnownOf
  <2> QED BY <2>1, <1>2, <1>3, <1>4, <1>5 DEF States
<1>6. CASE e \in text[m].declares BY <1>1, <1>2, <1>6 DEF States
<1>7. CASE e \notin text[m].declares
  <2>1. IsInterface(m) /\ CacheOf(m).declarations = SealedDeclarations(m)
    BY <1>1, <1>2, <1>7, CacheTyped
  <2>2. CASE e \in SealedObligations(m)
    <3>1. PICK o \in text[m].obligations : e = Declaration(o.name, o.kind, o.type, {})
      BY <2>2 DEF SealedObligations
    <3>2. e.name = o.name /\ e.type = o.type BY <3>1 DEF Declaration
    <3>3. PICK f \in Environment(text[m].imports) : f.name = o.name /\ f.type = o.type
      BY <1>1 DEF Verifies, Elaborates, ObligationsHold
    <3> QED BY <3>2, <3>3, <1>5
  <2>3. CASE e \in ExportedDefinitions(m) BY <2>3, <1>5 DEF ExportedDefinitions
  <2>4. CASE e \in {Declaration(f.name, "theorem", f.type, {}) : f \in ExportedTheorems(m)}
    <3>1. PICK f \in ExportedTheorems(m) : e = Declaration(f.name, "theorem", f.type, {})
      BY <2>4
    <3>2. e.name = f.name /\ e.type = f.type BY <3>1 DEF Declaration
    <3>3. f \in ExportCandidates(m) BY DEF ExportedTheorems
    <3>4. PICK x \in text[m].exportsTheorems : f \in iface[x].declarations
      BY <3>3 DEF ExportCandidates
    <3>5. x \in text[m].imports BY <1>1, <2>1 DEF Verifies, Seals
    <3> QED BY <3>2, <3>4, <3>5, <1>2, <1>3, <1>4 DEF States
  <2>5. e \in SealedDeclarations(m) BY <1>2, <2>1
  <2> QED BY <1>7, <2>2, <2>3, <2>4, <2>5 DEF SealedDeclarations, StatedHere
<1> QED BY <1>6, <1>7

\* A consumer of an interface sealed over current caches sees what the sealing took it
\* to see.
LEMMA SealSeen ==
  ASSUME SInv, NEW m \in Modules, Stage1(m), IsInterface(m), ~SeesOld(m)
  PROVE  SeenFrom(m)' = VisibleNames(m)
<1> USE DEF SInv
<1>1. /\ iface'[m] = InterfaceOf(CacheOf(m)) /\ iface'[m] \in Caches
      /\ \A n \in Modules \ {m} : iface'[n] = iface[n]
      /\ EdgesAreImports(iface') /\ Verifies(m)
  BY Stage1Writes
<1>2. /\ CacheOf(m) \in Caches
      /\ CacheOf(m).declarations = SealedDeclarations(m)
      /\ CacheOf(m).dependencies = Kept(m)
  BY <1>1, CacheTyped
<1>3. iface'[m].dependencies = Kept(m)
      /\ NamesIn(iface'[m].declarations) = NamesIn(SealedDeclarations(m))
  BY <1>1, <1>2, InterfaceKeeps
<1>4. iface'[m] # Missing BY <1>1, SealingAssumption
<1>5. LoadedOf(iface', {m}) = {m} \cup LoadedOf(iface, Kept(m))
  BY <1>1, <1>3, <1>4, LoadedFrom
<1>6. Kept(m) \in SUBSET FirstText[m].imports BY DEF Kept, ImportsFixed
<1>7. LoadedOf(iface, Kept(m)) \subseteq Modules \ {m}
  BY <1>6, LoadedAbove, UpIrreflexive, UpIsLeast
<1>8. KnownOf(iface', {m}) = iface'[m].declarations \cup KnownOf(iface, Kept(m))
  BY <1>1, <1>5, <1>7 DEF KnownOf
<1>9. SeenFrom(m)' = NamesIn(iface'[m].declarations) \cup NamesIn(KnownOf(iface, Kept(m)))
  BY <1>8 DEF SeenFrom, NamesIn
<1>10. ReachableViaKept(m) = NamesIn(KnownOf(iface, Kept(m)))
  BY <1>1, WalkSeesLoaded DEF Verifies
<1> QED BY <1>3, <1>9, <1>10 DEF VisibleNames

\* The names it took the consumer to see are those known besides the exported theorems,
\* and theirs.
LEMMA VisibleIsKnown ==
  ASSUME NEW m \in Modules, ExportsDefinable(m)
  PROVE  VisibleNames(m) = KnownNames(m) \cup NamesIn(ExportedTheorems(m))
<1> DEFINE copies == {Declaration(d.name, "theorem", d.type, {}) : d \in ExportedTheorems(m)}
<1>1. NamesIn(copies) = NamesIn(ExportedTheorems(m))
  <2>1. \A d : Declaration(d.name, "theorem", d.type, {}).name = d.name BY DEF Declaration
  <2>2. ASSUME NEW n \in NamesIn(copies) PROVE n \in NamesIn(ExportedTheorems(m))
    BY <2>1 DEF NamesIn
  <2>3. ASSUME NEW n \in NamesIn(ExportedTheorems(m)) PROVE n \in NamesIn(copies)
    <3>1. PICK d \in ExportedTheorems(m) : n = d.name BY DEF NamesIn
    <3>2. Declaration(d.name, "theorem", d.type, {}) \in copies OBVIOUS
    <3> HIDE DEF copies
    <3> QED BY <2>1, <3>1, <3>2 DEF NamesIn
  <2> QED BY <2>2, <2>3
<1>2. NamesIn(ExportedDefinitions(m)) = text[m].exportsDefinitions
  BY DEF NamesIn, ExportedDefinitions, ExportsDefinable
<1>3. SealedDeclarations(m) = StatedHere(m) \cup ExportedDefinitions(m) \cup copies
  BY DEF SealedDeclarations
<1> HIDE DEF copies
<1>4. NamesIn(SealedDeclarations(m)) =
        NamesIn(StatedHere(m)) \cup text[m].exportsDefinitions \cup NamesIn(ExportedTheorems(m))
  <2>1. NamesIn(SealedDeclarations(m)) =
          NamesIn(StatedHere(m)) \cup NamesIn(ExportedDefinitions(m)) \cup NamesIn(copies)
    BY <1>3 DEF NamesIn
  <2> QED BY <1>1, <1>2, <2>1
<1> QED BY <1>4 DEF VisibleNames, KnownNames

\* The exported theorems are closed, and nothing closed is larger.
LEMMA ExportsAreLargest ==
  ASSUME NEW m \in Modules, NEW d \in ExportCandidates(m),
         d.type \subseteq KnownNames(m) \cup NamesIn(ExportedTheorems(m))
  PROVE  d \in ExportedTheorems(m)
<1> DEFINE all == ExportedTheorems(m)
           family == {S \in SUBSET ExportCandidates(m) :
                        \A e \in S : e.type \subseteq KnownNames(m) \cup NamesIn(S)}
<1>1. all = UNION family BY DEF ExportedTheorems
<1>2. \A e \in all : e.type \subseteq KnownNames(m) \cup NamesIn(all)
  <2> SUFFICES ASSUME NEW e \in all PROVE e.type \subseteq KnownNames(m) \cup NamesIn(all)
    OBVIOUS
  <2>1. PICK S \in family : e \in S BY <1>1
  <2>2. e.type \subseteq KnownNames(m) \cup NamesIn(S) BY <2>1
  <2>3. S \subseteq all BY <1>1
  <2> HIDE DEF family, all
  <2>4. NamesIn(S) \subseteq NamesIn(all) BY <2>3 DEF NamesIn
  <2> QED BY <2>2, <2>4
<1>3. all \cup {d} \in family
  <2>1. all \cup {d} \in SUBSET ExportCandidates(m) BY <1>1
  <2>2. NamesIn(all) \subseteq NamesIn(all \cup {d})
    <3> HIDE DEF all
    <3> QED BY DEF NamesIn
  <2>3. \A e \in all \cup {d} : e.type \subseteq KnownNames(m) \cup NamesIn(all) BY <1>2
  <2> HIDE DEF all
  <2> QED BY <2>1, <2>2, <2>3
<1> HIDE DEF family, all
<1>4. d \in all BY <1>1, <1>3
<1> QED BY <1>4 DEF all

\* An interface sealed over current caches is closed, usable and complete.
LEMMA Stage1Seals ==
  ASSUME SInv, NEW m \in Modules, Stage1(m), IsInterface(m), ~SeesOld(m)
  PROVE  Readable(m)' /\ Usable(m)' /\ Lossless(m)'
<1> USE DEF SInv
<1>1. /\ iface'[m] = InterfaceOf(CacheOf(m)) /\ text' = text
      /\ \A n \in Modules \ {m} : iface'[n] = iface[n]
      /\ Verifies(m)
  BY Stage1Writes
<1>2. Elaborates(m) /\ Seals(m) BY <1>1 DEF Verifies
<1>3. /\ CacheOf(m) \in Caches
      /\ CacheOf(m).declarations = SealedDeclarations(m)
      /\ CacheOf(m).wiring = SealedWiring(m)
  BY <1>1, CacheTyped
<1>4. /\ iface'[m].wiring = SealedWiring(m)
      /\ NamesIn(iface'[m].declarations) = NamesIn(SealedDeclarations(m))
      /\ \A d \in iface'[m].declarations : \E e \in SealedDeclarations(m) :
           /\ d.name = e.name /\ d.kind = e.kind /\ d.type = e.type
           /\ d.body = IF e.kind = "theorem" THEN {} ELSE e.body
  BY <1>1, <1>3, InterfaceKeeps
<1>5. SeenFrom(m)' = VisibleNames(m) BY SealSeen
<1>6. VisibleNames(m) = KnownNames(m) \cup NamesIn(ExportedTheorems(m))
  BY <1>2, VisibleIsKnown DEF Seals
<1>7. Readable(m)'
  <2>1. \A e \in SealedDeclarations(m) : e.type \subseteq VisibleNames(m)
    BY <1>2 DEF Seals, SealIsClosed
  <2> QED BY <1>4, <1>5, <2>1 DEF Readable
<1>8. Usable(m)'
  <2>1. ASSUME NEW d \in iface'[m].declarations, d.name \in text[m].exportsDefinitions
        PROVE  d.body \subseteq VisibleNames(m)
    <3>1. PICK e \in SealedDeclarations(m) :
            d.name = e.name /\ d.body = IF e.kind = "theorem" THEN {} ELSE e.body
      BY <1>4
    <3>2. e \notin StatedHere(m)
      BY <1>2, <2>1, <3>1 DEF Seals, ExportsDefinable, NamesIn
    <3>3. CASE e \in ExportedDefinitions(m)
      <4>1. e.body \subseteq VisibleNames(m)
        BY <1>2, <1>6, <3>3 DEF Seals, BodiesSpellable
      <4> QED BY <3>1, <4>1
    <3>4. CASE e \in {Declaration(f.name, "theorem", f.type, {}) : f \in ExportedTheorems(m)}
      BY <3>1, <3>4 DEF Declaration
    <3> QED BY <3>2, <3>3, <3>4 DEF SealedDeclarations
  <2>2. ASSUME NEW w \in SealedWiring(m) \ text[m].wiring PROVE w \subseteq VisibleNames(m)
    BY DEF SealedWiring
  <2> QED BY <1>1, <1>4, <1>5, <2>1, <2>2 DEF Usable
<1>9. Lossless(m)'
  <2> SUFFICES ASSUME NEW x \in text[m].exportsTheorems, NEW d \in iface'[x].declarations,
                      d.kind = "theorem", d.type \subseteq VisibleNames(m)
               PROVE  d.name \in NamesIn(iface'[m].declarations)
    BY <1>1, <1>5 DEF Lossless
  <2>1. x \in text[m].imports BY <1>2 DEF Seals
  <2>2. x \in Modules \ {m}
    BY <2>1, ImportsAreModules, UpIrreflexive, UpIsLeast DEF ImportsFixed
  <2>3. d \in iface[x].declarations BY <1>1, <2>2
  <2>4. NamesIn(SealedDeclarations(m)) \cup ReachableViaKept(m) = VisibleNames(m)
    BY DEF VisibleNames
  <2>5. CASE d.name \in NamesIn(StatedHere(m))
    BY <1>4, <2>5 DEF SealedDeclarations, NamesIn
  <2>6. CASE d.name \in text[m].exportsDefinitions
    <3>1. PICK e \in ExportedDefinitions(m) : e.name = d.name
      BY <1>2, <2>6 DEF Seals, ExportsDefinable
    <3>2. e \in SealedDeclarations(m) BY <3>1 DEF SealedDeclarations
    <3>3. d.name \in NamesIn(SealedDeclarations(m)) BY <3>1, <3>2 DEF NamesIn
    <3> QED BY <1>4, <3>3
  <2>7. CASE d.name \notin NamesIn(StatedHere(m)) \cup text[m].exportsDefinitions
    <3>1. d \in ExportCandidates(m) BY <2>3, <2>7 DEF ExportCandidates
    <3>2. d \in ExportedTheorems(m) BY <1>6, <3>1, ExportsAreLargest
    <3>3. Declaration(d.name, "theorem", d.type, {}) \in SealedDeclarations(m)
      BY <3>2 DEF SealedDeclarations
    <3>4. Declaration(d.name, "theorem", d.type, {}).name = d.name BY DEF Declaration
    <3>5. d.name \in NamesIn(SealedDeclarations(m)) BY <3>3, <3>4 DEF NamesIn
    <3> QED BY <1>4, <3>5
  <2> QED BY <2>5, <2>6, <2>7
<1> QED BY <1>7, <1>8, <1>9

\* The first stage: the module's own interface is as sealed, and those it was changed
\* beneath are out of date.
LEMMA Stage1Keeps ==
  ASSUME SInv, NEW m \in Modules, Stage1(m)
  PROVE  SInv'
<1> USE DEF SInv
<1>1. /\ iface'[m] = InterfaceOf(CacheOf(m)) /\ iface'[m] \in Caches
      /\ iface' = [iface EXCEPT ![m] = InterfaceOf(CacheOf(m))]
      /\ \A n \in Modules \ {m} : iface'[n] = iface[n]
      /\ EdgesAreImports(iface')
      /\ text' = text /\ full' = full /\ edits' = edits /\ Verifies(m)
  BY Stage1Writes
<1>2. m \notin Below(m) /\ Below(m) \subseteq Modules
      /\ \A n \in Modules : n \notin Below(m) <=> m \notin Up(n)
  BY AboveIsUp, UpIrreflexive DEF Below
<1>3. /\ ifaceOld' \in SUBSET Modules /\ fullOld' \in SUBSET Modules
      /\ kept' \in SUBSET Modules /\ superseded' \in SUBSET Modules
      /\ ifaceOld \subseteq ifaceOld' \cup {m}
      /\ fullOld \subseteq fullOld'
      /\ iface'[m] # iface[m] => Below(m) \subseteq ifaceOld'
  BY <1>2 DEF Stage1, TypeOK
<1>4. TypeOK' BY <1>1, <1>3 DEF TypeOK
<1>5. ImportsFixed' BY <1>1 DEF ImportsFixed
<1>6. EdgesAreImports(iface)' BY <1>1 DEF EdgesAreImports
<1>7. Present'
  <2>1. \A n \in Modules \ ifaceOld' : iface'[n] # Missing
    BY <1>1, <1>3, SealingAssumption DEF Present
  <2>2. \A n \in Modules \ fullOld' :
          full'[n] # Missing /\ text'[n].declares \subseteq full'[n].declarations
    BY <1>1, <1>3 DEF Present
  <2> QED BY <2>1, <2>2 DEF Present
\* The others that stay up to date have nothing above them that changed.
<1>8. ASSUME NEW n \in Modules \ {m}, n \notin ifaceOld'
      PROVE  /\ n \notin ifaceOld
             /\ IsInterface(n)' = IsInterface(n)
             /\ TracedAt(n) => TracedAt(n)'
             /\ Readable(n) => Readable(n)'
             /\ Usable(n) => Usable(n)'
             /\ (text[n].exportsTheorems \subseteq text[n].imports /\ Lossless(n))
                  => Lossless(n)'
  <2>1. n \notin ifaceOld BY <1>3, <1>8
  <2>2. iface'[m] # iface[m] => m \notin Up(n) BY <1>2, <1>3, <1>8
  <2>3. \A y \in Up(n) \cup {n} : iface'[y] = iface[y] BY <1>1, <2>2, UpIsLeast
  <2> QED BY <1>1, <2>1, <2>3, Unmoved
<1>9. Traced' BY <1>8, Stage1Traces DEF Traced
<1>10. ExportsImported'
  <2> SUFFICES ASSUME NEW n \in Modules, n \notin ifaceOld', IsInterface(n)'
               PROVE  text'[n].exportsTheorems \subseteq text'[n].imports
    BY DEF ExportsImported, Interfaces
  <2>1. CASE n = m BY <1>1, <2>1 DEF Verifies, Seals, IsInterface
  <2>2. CASE n # m BY <1>1, <1>8, <2>2 DEF ExportsImported, Interfaces
  <2> QED BY <2>1, <2>2
<1>11. SealsHold'
  <2> SUFFICES ASSUME NEW n \in Modules, n \notin ifaceOld', n \notin superseded',
                      IsInterface(n)'
               PROVE  Readable(n)' /\ Usable(n)' /\ Lossless(n)'
    BY DEF SealsHold, Interfaces
  <2>1. CASE n = m
    <3>1. IsInterface(m) BY <1>1, <2>1 DEF IsInterface
    <3>2. ~SeesOld(m) BY <2>1, <3>1 DEF Stage1
    <3> QED BY <2>1, <3>1, <3>2, Stage1Seals
  <2>2. CASE n # m
    <3>1. n \notin superseded BY <2>2 DEF Stage1
    <3>2. IsInterface(n) /\ n \notin ifaceOld BY <2>2, <1>8
    <3>3. text[n].exportsTheorems \subseteq text[n].imports
      BY <3>2 DEF ExportsImported, Interfaces
    <3>4. Readable(n) /\ Usable(n) /\ Lossless(n)
      BY <3>1, <3>2 DEF SealsHold, Interfaces
    <3> QED BY <2>2, <3>3, <3>4, <1>8
  <2> QED BY <2>1, <2>2
<1> QED BY <1>4, <1>5, <1>6, <1>7, <1>9, <1>10, <1>11

LEMMA StepsKeep ==
  ASSUME SInv, [Next]_vars
  PROVE  SInv'
<1>1. CASE Next BY <1>1, EditKeeps, Stage1Keeps, Stage2Keeps DEF Next
<1>2. CASE UNCHANGED vars
  <2> USE <1>2 DEF SInv, vars
  <2>1. TypeOK' /\ ImportsFixed' /\ Present' /\ EdgesAreImports(iface)'
    BY DEF TypeOK, ImportsFixed, Present, EdgesAreImports
  <2>2. EdgesAreImports(iface') OBVIOUS
  <2>3. ASSUME NEW n \in Modules
        PROVE  /\ IsInterface(n)' = IsInterface(n)
               /\ TracedAt(n) => TracedAt(n)'
               /\ Readable(n) => Readable(n)'
               /\ Usable(n) => Usable(n)'
               /\ (text[n].exportsTheorems \subseteq text[n].imports /\ Lossless(n))
                    => Lossless(n)'
    BY <2>2, Unmoved
  <2>4. Traced' BY <2>3 DEF Traced
  <2>5. ExportsImported' BY <2>3 DEF ExportsImported, Interfaces
  <2>6. SealsHold' BY <2>3 DEF SealsHold, Interfaces, ExportsImported
  <2> QED BY <2>1, <2>4, <2>5, <2>6
<1> QED BY <1>1, <1>2

\* The invariant.
THEOREM SealingInvariant == Spec => []SInv
<1>1. Init => SInv BY InitHolds
<1>2. SInv /\ [Next]_vars => SInv' BY StepsKeep
<1> QED BY <1>1, <1>2, PTL DEF Spec

-----------------------------------------------------------------------------
(* What follows. *)

\* Files and sources are of the right form, also those of modules that never verify.
THEOREM TypeCorrect == Spec => []TypeOK
<1>1. SInv => TypeOK BY DEF SInv
<1> QED BY <1>1, SealingInvariant, PTL

LEMMA SettledSeals ==
  ASSUME SInv
  PROVE  \A m \in Settled :
           /\ m \in Modules
           /\ SeenFrom(m) = NamesIn(Environment({m}))
           /\ Readable(m) /\ Usable(m) /\ Lossless(m)
<1> TAKE m \in Settled
<1>1. m \in Interfaces \ (ifaceOld \cup superseded) BY DEF Settled, Green
<1>2. Readable(m) /\ Usable(m) /\ Lossless(m) BY <1>1 DEF SInv, SealsHold
<1>3. m \in Modules BY <1>1 DEF Interfaces
<1> QED BY <1>2, <1>3, LoadingIsLoading DEF SeenFrom

\* An interface that make has nothing left to do about mentions only what its consumer
\* sees (main.cpp 5969-6018).
THEOREM StatementsReadable == Spec => []SealedStatementsReadable
<1>1. SInv => SealedStatementsReadable
  BY SettledSeals DEF SealedStatementsReadable, Readable
<1> QED BY <1>1, SealingInvariant, PTL

\* So do the bodies it exports and the registrations it copied (main.cpp 5819-5955).
THEOREM ExportsAreUsable == Spec => []ExportsUsable
<1>1. SInv => ExportsUsable BY SettledSeals DEF ExportsUsable, Usable
<1> QED BY <1>1, SealingInvariant, PTL

\* What is left out of the exported theorems cannot be stated (main.cpp 5761-5788).
THEOREM SpellableIsKept == Spec => []NothingSpellableIsLost
<1>1. SInv => NothingSpellableIsLost BY SettledSeals DEF NothingSpellableIsLost, Lossless
<1> QED BY <1>1, SealingInvariant, PTL

\* A statement followed up to the module that made it: of the modules at or above m whose
\* interface states it, take one with none above.
LEMMA StatementsHaveSources ==
  ASSUME SInv, ifaceOld = {}, NEW m \in Modules, NEW d \in iface[m].declarations
  PROVE  \E x \in Up(m) \cup {m} : States(text[x].declares, d)
<1> DEFINE stating == {x \in Up(m) \cup {m} : States(iface[x].declarations, d)}
<1>1. Up(m) \cup {m} \in SUBSET Modules BY UpIsLeast
<1>2. stating \in SUBSET Modules /\ m \in stating BY <1>1 DEF States
<1>3. PICK x \in stating : Up(x) \cap stating = {}
  <2> HIDE DEF stating
  <2> QED BY <1>2, UpFounded
<1>4. x \in Modules /\ x \in Up(m) \cup {m} /\ Up(x) \subseteq Up(m) \cup {m}
  BY <1>1, UpTransitive
<1>5. PICK e \in iface[x].declarations : e.name = d.name /\ e.type = d.type
  BY DEF States
<1>6. \/ States(text[x].declares, e)
      \/ \E y \in Up(x) : States(iface[y].declarations, e)
  BY <1>4 DEF SInv, Traced, TracedAt
<1>7. ASSUME NEW y \in Up(x), States(iface[y].declarations, e) PROVE FALSE
  <2>1. States(iface[y].declarations, d) BY <1>5, <1>7 DEF States
  <2>2. y \in stating BY <1>4, <2>1
  <2> QED BY <1>3, <2>2
<1>8. States(text[x].declares, d) BY <1>5, <1>6, <1>7 DEF States
<1> QED BY <1>4, <1>8

\* When make has nothing left to do, what a sealed interface states is declared by a
\* source above it and verified as that source is now (statements.cpp 960-1000).
THEOREM SealsAreBacked == Spec => []SealIsBacked
<1>1. SInv => SealIsBacked
  <2> SUFFICES ASSUME SInv, Green, NEW m \in Interfaces, NEW d \in iface[m].declarations
               PROVE  \E x \in Above(m) \cup {m} :
                        /\ full[x] # Missing
                        /\ \E e \in full[x].declarations \cap text[x].declares :
                             e.name = d.name /\ e.type = d.type
    BY DEF SealIsBacked
  <2>1. m \in Modules /\ Above(m) = Up(m) BY AboveIsUp DEF Interfaces, SInv
  <2>2. PICK x \in Up(m) \cup {m} : States(text[x].declares, d)
    BY <2>1, StatementsHaveSources DEF Green
  <2>3. x \in Modules BY <2>1, UpIsLeast
  <2>4. full[x] # Missing /\ text[x].declares \subseteq full[x].declarations
    BY <2>3 DEF SInv, Present, Green
  <2> QED BY <2>1, <2>2, <2>4 DEF States
<1> QED BY <1>1, SealingInvariant, PTL
=============================================================================
