------------------------- MODULE DeclarationsProofs -------------------------
(***************************************************************************)
(* Of Declarations, for every set of names and every history of             *)
(* submissions: types are kept (TypeOK), the environment is closed          *)
(* (Closed), inductives are whole (Complete), no declaration rests on       *)
(* itself (NoCircularity), the memo tables never outlive what they rest on  *)
(* (TablesCurrent), and a failure leaves a mark only in the two ways         *)
(* FailureIsClean names.  And however many steps a declaration takes, it      *)
(* implements the one step of AtomicEnvironment (DeclaresAtomically).         *)
(*                                                                         *)
(* The invariant compares the environment with the one the open submission  *)
(* met: it is an extension of it by names of one inductive, and the one it   *)
(* met was sound.                                                          *)
(***************************************************************************)
EXTENDS Declarations, FiniteSetTheorems, TLAPS

Environments == [Names -> Entries \cup {Absent}]

\* What every environment between two declarations is, torn ones apart.
WellFounded(d) ==
  /\ \A n \in In(d) : d[n].mentions \subseteq In(d) /\ d[n].of \in In(d)
  /\ Acyclic(d)

\* e is d and part of the inductive u.
Extends(d, e, u) ==
  /\ u \in In(e) \ In(d)
  /\ \A n \in In(d) : e[n] = d[n]
  /\ \A n \in In(e) \ In(d) : e[n].of = u
  /\ \A n \in In(e) \ In(d) : e[n].mentions \subseteq In(e)

\* The constructors come to so far, which with the inductive itself are what
\* the submission has added.
Checked == {request.constructors[i].name : i \in 1..(next - 1)}

PartOK ==
  phase = "constructor" =>
    /\ Extends(before, declarations, request.name)
    /\ InScope = In(before) \cup {request.name} \cup Checked
    /\ request.mentions \subseteq InScope
    /\ \A i \in 1..(next - 1) : request.constructors[i].mentions \subseteq InScope

BasisOK ==
  LET size == Cardinality(In(before))
  IN IF phase = "constructor"
     THEN /\ basis \subseteq Graph
          /\ \/ ownerSize > size
             \/ /\ ownerSize = size
                /\ basis \subseteq {<<n, before[n]>> : n \in In(before)}
     ELSE \/ basis \subseteq Graph
          \/ ownerSize > Cardinality(InScope)

DInv ==
  /\ TypeOK
  /\ phase # "constructor" => declarations = before
  /\ phase # "idle" => request.name \notin In(before)
  /\ PartOK
  /\ ~torn => WellFounded(before)
  /\ BasisOK

-----------------------------------------------------------------------------
(* Environments. *)

LEMMA DeclaredIsEntry ==
  ASSUME NEW kind \in Kinds, NEW mentions \in SUBSET Names, NEW of \in Names,
         NEW constructors \in SUBSET Names
  PROVE  /\ Declared(kind, mentions, of, constructors) \in Entries
         /\ Declared(kind, mentions, of, constructors) # Absent
<1> DEFINE entry == Declared(kind, mentions, of, constructors)
<1>1. entry \in Entries
  BY DEF Declared, Entries
<1>2. entry.kind \in Kinds /\ Absent.kind \notin Kinds
  BY DEF Declared, Absent, Kinds
<1> QED BY <1>1, <1>2

LEMMA InType ==
  ASSUME NEW d \in Environments
  PROVE  /\ In(d) \subseteq Names
         /\ \A n \in In(d) : d[n] \in Entries
  BY DEF Environments, In

LEMMA InFinite ==
  ASSUME NEW d
  PROVE  IsFiniteSet(In(d)) /\ Cardinality(In(d)) \in Nat
<1>1. IsFiniteSet(Names) /\ In(d) \in SUBSET Names
  BY RequestAssumption DEF In
<1> QED BY <1>1, FS_Subset, FS_CardinalityType

\* The first name of a unit extends a sound environment.
LEMMA FirstOfUnit ==
  ASSUME NEW d \in Environments, NEW u \in Names \ In(d), NEW entry \in Entries,
         entry # Absent, entry.of = u, entry.mentions \subseteq In(d) \cup {u},
         NEW e, e = [d EXCEPT ![u] = entry]
  PROVE  Extends(d, e, u)
<1>1. /\ In(e) = In(d) \cup {u}
      /\ e[u] = entry
      /\ \A n \in In(d) : e[n] = d[n]
  BY DEF Environments, In
<1> QED BY <1>1 DEF Extends

\* So does each further one.
LEMMA NextOfUnit ==
  ASSUME NEW b \in Environments, NEW d \in Environments, NEW u \in Names, Extends(b, d, u),
         NEW name \in Names \ In(d), NEW entry \in Entries,
         entry # Absent, entry.of = u, entry.mentions \subseteq In(d),
         NEW e, e = [d EXCEPT ![name] = entry]
  PROVE  Extends(b, e, u)
<1>1. /\ In(e) = In(d) \cup {name}
      /\ e[name] = entry
      /\ \A n \in In(d) : e[n] = d[n]
  BY DEF Environments, In
<1>2. In(b) \subseteq In(d)
  <2> SUFFICES ASSUME NEW n \in In(b) PROVE n \in In(d)
    OBVIOUS
  <2>1. d[n] = b[n] /\ b[n] # Absent /\ n \in Names
    BY DEF Extends, In
  <2> QED BY <2>1 DEF In
<1>3. u \in In(e) \ In(b) /\ \A n \in In(b) : e[n] = b[n]
  BY <1>1, <1>2 DEF Extends
<1>4. \A n \in In(e) \ In(b) : e[n].of = u /\ e[n].mentions \subseteq In(e)
  BY <1>1, <1>2 DEF Extends
<1> QED BY <1>3, <1>4 DEF Extends

\* An extension of an acyclic environment by one unit is acyclic: what was
\* there before mentions nothing new, and the unit does not count itself.
LEMMA ExtensionIsWellFounded ==
  ASSUME NEW d \in Environments, NEW e \in Environments, NEW u,
         WellFounded(d), Extends(d, e, u)
  PROVE  WellFounded(e)
<1>1. In(d) \subseteq In(e)
  <2> SUFFICES ASSUME NEW n \in In(d) PROVE n \in In(e)
    OBVIOUS
  <2>1. e[n] = d[n] /\ d[n] # Absent /\ n \in Names
    BY DEF Extends, In
  <2> QED BY <2>1 DEF In
<1>2. \A n \in In(e) : e[n].mentions \subseteq In(e) /\ e[n].of \in In(e)
  BY <1>1 DEF WellFounded, Extends
<1>3. ASSUME NEW n, NEW m, <<n, m>> \in DependsOn(e)
      PROVE  \/ n \in In(d) /\ <<n, m>> \in DependsOn(d) /\ m \in In(d)
             \/ n = u /\ m \in In(d)
  <2>1. PICK a \in In(e) : \E k \in e[a].mentions \cap In(e) :
          n = e[a].of /\ m = e[k].of /\ n # m /\ n \in Names /\ m \in Names
    BY <1>3 DEF DependsOn
  <2> PICK b \in e[a].mentions \cap In(e) :
        n = e[a].of /\ m = e[b].of /\ n # m /\ n \in Names /\ m \in Names
    BY <2>1
  <2>2. CASE a \in In(d)
    <3>1. e[a] = d[a] /\ b \in In(d) /\ e[b] = d[b]
      BY <2>2 DEF WellFounded, Extends
    <3>2. n \in In(d) /\ m \in In(d)
      BY <2>2, <3>1 DEF WellFounded
    <3>3. <<n, m>> \in DependsOn(d)
      BY <2>2, <3>1 DEF DependsOn
    <3> QED BY <3>2, <3>3
  <2>3. CASE a \notin In(d)
    <3>1. n = u /\ b \in In(d)
      BY <2>3 DEF Extends
    <3>2. m \in In(d)
      BY <3>1 DEF WellFounded, Extends
    <3> QED BY <3>1, <3>2
  <2> QED BY <2>2, <2>3
<1>4. ASSUME NEW S \in SUBSET In(e), S # {}
      PROVE  \E n \in S : \A m \in S : <<n, m>> \notin DependsOn(e)
  <2>1. CASE S \cap In(d) = {}
    <3> PICK n \in S : TRUE
      BY <1>4
    <3> QED BY <1>3, <2>1
  <2>2. CASE S \cap In(d) # {}
    <3>1. PICK n \in S \cap In(d) : \A m \in S \cap In(d) : <<n, m>> \notin DependsOn(d)
      BY <2>2 DEF WellFounded, Acyclic
    <3>2. n # u
      BY <3>1 DEF Extends
    <3> QED BY <3>1, <3>2, <1>3
  <2> QED BY <2>1, <2>2
<1>5. Acyclic(e)
  BY <1>4 DEF Acyclic
<1> QED BY <1>2, <1>5 DEF WellFounded
-----------------------------------------------------------------------------
(* What every step of a submission shares. *)

LEMMA SubmissionType ==
  ASSUME NEW r \in Requests
  PROVE  /\ r.kind \in {"axiom", "definition", "inductive"}
         /\ r.name \in Names /\ RecursorOf[r.name] \in Names
         /\ r.mentions \in SUBSET Names
         /\ r.constructors \in Seq(ConstructorSpecs)
         /\ \A i \in DOMAIN r.constructors : r.constructors[i] \in ConstructorSpecs
         /\ ConstructorNames(r) \in SUBSET Names
         /\ NamesOf(r) \in SUBSET Names
<1>1. r \in Submissions
  BY RequestAssumption
<1>2. /\ r.kind \in {"axiom", "definition", "inductive"}
      /\ r.name \in Names /\ r.mentions \in SUBSET Names
      /\ r.constructors \in Seq(ConstructorSpecs)
  BY <1>1 DEF Submissions
<1>3. RecursorOf[r.name] \in Names
  BY <1>2, RequestAssumption
<1>4. \A i \in DOMAIN r.constructors : r.constructors[i] \in ConstructorSpecs
  BY <1>2
<1>5. ConstructorNames(r) \in SUBSET Names
  BY <1>4 DEF ConstructorNames, ConstructorSpecs
<1> QED BY <1>2, <1>3, <1>4, <1>5 DEF NamesOf

LEMMA OpenRequest ==
  ASSUME DInv, phase # "idle"
  PROVE  request \in Requests
  BY DEF DInv, TypeOK

LEMMA EnvironmentsType ==
  ASSUME DInv
  PROVE  declarations \in Environments /\ before \in Environments
  BY DEF DInv, TypeOK, Environments

LEMMA GraphType ==
  ASSUME DInv
  PROVE  Graph \in SUBSET (Names \X Entries)
  BY EnvironmentsType, InType DEF Graph, InScope

\* Whatever the tables held, asking the kernel leaves them those of the
\* environment as it is.
LEMMA ConsultRefreshes ==
  ASSUME DInv, Consult
  PROVE  /\ basis' = Graph /\ basis' \in SUBSET (Names \X Entries)
         /\ ownerSize' = Cardinality(InScope) /\ ownerSize' \in Nat
<1>1. ownerSize' = Cardinality(InScope) /\ ownerSize' \in Nat
  BY InFinite DEF Consult, InScope
<1>2. SizeMatches => basis \subseteq Graph
  <2>1. CASE phase = "constructor"
    BY <2>1 DEF DInv, BasisOK
  <2>2. CASE phase # "constructor"
    BY <2>2, <1>1 DEF DInv, BasisOK, SizeMatches
  <2> QED BY <2>1, <2>2
<1>3. basis' = Graph
  BY <1>2 DEF Consult
<1> QED BY <1>1, <1>3, GraphType

LEMMA Succeeding ==
  ASSUME DInv, phase # "idle", Succeed, Consult,
         declarations' \in Environments,
         \A n \in InScope : n \in In(declarations') /\ declarations'[n] = declarations[n],
         Extends(before, declarations', request.name)
  PROVE  DInv'
<1>1. /\ request' = NoRequest /\ phase' = "idle" /\ next' = 1
      /\ before' = declarations' /\ torn' = torn
  BY DEF Succeed, Finish
<1>2. TypeOK'
  BY <1>1, ConsultRefreshes DEF DInv, TypeOK, Environments
<1>3. ~torn' => WellFounded(before')
  BY <1>1, EnvironmentsType, ExtensionIsWellFounded DEF DInv
<1>4. BasisOK'
  <2>1. Graph \subseteq Graph'
    BY DEF Graph, InScope
  <2> QED BY <1>1, <2>1, ConsultRefreshes DEF BasisOK
<1>5. PartOK'
  BY <1>1 DEF PartOK
<1> QED BY <1>1, <1>2, <1>3, <1>4, <1>5 DEF DInv

LEMMA Failing ==
  ASSUME DInv, phase # "idle", Fail,
         declarations' \in Environments,
         ownerSize' \in Nat, basis' \in SUBSET (Names \X Entries),
         basis' \subseteq Graph' \/ ownerSize' > Cardinality(In(declarations'))
  PROVE  DInv'
<1>1. /\ request' = NoRequest /\ phase' = "idle" /\ next' = 1
      /\ before' = declarations'
  BY DEF Fail, Finish
<1>2. torn' \in BOOLEAN /\ (~torn' => ~torn /\ declarations' = before)
  BY DEF Fail, DInv, TypeOK
<1>3. TypeOK'
  BY <1>1, <1>2 DEF TypeOK, Environments
<1>4. ~torn' => WellFounded(before')
  BY <1>1, <1>2 DEF DInv
<1>5. BasisOK'
  BY <1>1 DEF BasisOK, InScope
<1>6. PartOK'
  BY <1>1 DEF PartOK
<1> QED BY <1>1, <1>3, <1>4, <1>5, <1>6 DEF DInv

\* What a rollback leaves is part of what the submission met, all of it if
\* the submission named nothing that was there.
LEMMA RollbackLeaves ==
  ASSUME DInv, phase = "constructor", Rollback
  PROVE  /\ declarations' \in Environments
         /\ In(declarations') = In(before) \ NamesOf(request)
         /\ \A n \in In(declarations') : declarations'[n] = before[n]
<1>1. request \in Requests /\ request.kind = "inductive" /\ next \in 1..(Len(request.constructors) + 1)
  BY OpenRequest DEF DInv, TypeOK
<1>2. Checked \subseteq NamesOf(request) /\ request.name \in NamesOf(request)
  <2>1. 1..(next - 1) \subseteq DOMAIN request.constructors
    BY <1>1, SubmissionType
  <2>2. Checked \subseteq ConstructorNames(request)
    BY <2>1 DEF Checked, ConstructorNames
  <2> QED BY <1>1, <2>2 DEF NamesOf
<1>3. declarations' \in Environments
  BY EnvironmentsType DEF Rollback, Environments
<1>4. In(declarations') = InScope \ NamesOf(request)
  BY EnvironmentsType DEF Rollback, In, InScope, Environments
<1>5. InScope = In(before) \cup {request.name} \cup Checked
  BY DEF DInv, PartOK
<1>6. In(declarations') = In(before) \ NamesOf(request)
  BY <1>2, <1>4, <1>5
<1>7. ASSUME NEW n \in In(declarations') PROVE declarations'[n] = before[n]
  <2>1. declarations'[n] = declarations[n]
    BY <1>6 DEF Rollback, In
  <2>2. declarations[n] = before[n]
    BY <1>6 DEF DInv, PartOK, Extends
  <2> QED BY <2>1, <2>2
<1> QED BY <1>3, <1>6, <1>7

\* After a rollback the tables either rest on nothing that is gone or are told
\* apart by their size.
LEMMA RollbackKeeps ==
  ASSUME DInv, phase = "constructor", Rollback, Fail, Consult \/ UNCHANGED tables
  PROVE  DInv'
<1> DEFINE left == In(declarations')
<1>1. /\ left \subseteq In(before) /\ request.name \notin left
      /\ \A n \in left : declarations'[n] = before[n]
  BY RollbackLeaves DEF DInv
<1>2. /\ IsFiniteSet(left) /\ Cardinality(left) \in Nat
      /\ IsFiniteSet(In(before)) /\ Cardinality(In(before)) \in Nat
      /\ IsFiniteSet(InScope) /\ Cardinality(InScope) \in Nat
  BY InFinite DEF InScope
<1>3. /\ Cardinality(left) <= Cardinality(In(before))
      /\ Cardinality(left) = Cardinality(In(before)) => left = In(before)
  BY <1>1, <1>2, FS_Subset
<1>4. ownerSize' \in Nat /\ basis' \in SUBSET (Names \X Entries)
  BY ConsultRefreshes DEF DInv, TypeOK, tables
<1>5. basis' \subseteq Graph' \/ ownerSize' > Cardinality(left)
  <2>1. CASE Consult
    <3>1. left \subseteq InScope /\ request.name \in InScope
      BY <1>1 DEF DInv, PartOK
    <3>2. Cardinality(left) < Cardinality(InScope)
      <4>1. /\ Cardinality(left) <= Cardinality(InScope)
            /\ Cardinality(InScope) = Cardinality(left) => InScope = left
        BY <3>1, <1>2, FS_Subset
      <4> QED BY <4>1, <3>1, <1>1, <1>2
    <3> QED BY <2>1, <3>2, ConsultRefreshes, <1>2
  <2>2. CASE UNCHANGED tables
    <3>1. ownerSize' = ownerSize /\ basis' = basis /\ ownerSize \in Nat
      BY <2>2 DEF tables, DInv, TypeOK
    <3>2. CASE Cardinality(left) = Cardinality(In(before)) /\ ownerSize = Cardinality(In(before))
      <4>1. left = In(before)
        BY <3>2, <1>3
      <4>2. Graph' = {<<n, before[n]>> : n \in In(before)}
        BY <4>1, <1>1 DEF Graph, InScope
      <4>3. basis \subseteq {<<n, before[n]>> : n \in In(before)}
        BY <3>2, <1>2 DEF DInv, BasisOK
      <4> QED BY <3>1, <4>2, <4>3
    <3>3. CASE ~(Cardinality(left) = Cardinality(In(before)) /\ ownerSize = Cardinality(In(before)))
      <4>1. ownerSize > Cardinality(In(before)) \/ ownerSize = Cardinality(In(before))
        BY DEF DInv, BasisOK
      <4> QED BY <4>1, <3>1, <3>3, <1>2, <1>3
    <3> QED BY <3>2, <3>3
  <2> QED BY <2>1, <2>2
<1>6. declarations' \in Environments
  BY RollbackLeaves
<1> QED BY <1>4, <1>5, <1>6, Failing
-----------------------------------------------------------------------------
(* The steps. *)

LEMMA InitSound == Init => DInv
<1> SUFFICES ASSUME Init PROVE DInv
  OBVIOUS
<1>1. In(declarations) = {} /\ In(before) = {}
  BY DEF Init, In
<1>2. TypeOK
  BY DEF Init, TypeOK
<1>3. WellFounded(before)
  BY <1>1 DEF WellFounded, Acyclic
<1>4. PartOK /\ BasisOK
  BY DEF Init, PartOK, BasisOK
<1> QED BY <1>2, <1>3, <1>4 DEF Init, DInv

LEMMA QueryKeeps ==
  ASSUME DInv, Query
  PROVE  DInv'
<1>1. /\ phase = "idle"
      /\ UNCHANGED <<declarations, request, phase, next, before, torn>>
  BY DEF Query
<1>2. Graph' = Graph
  BY <1>1 DEF Graph, InScope
<1>3. TypeOK'
  BY <1>1, ConsultRefreshes DEF DInv, TypeOK, Query
<1>4. BasisOK'
  BY <1>1, <1>2, ConsultRefreshes DEF BasisOK, Query
<1>5. PartOK'
  BY <1>1 DEF PartOK
<1> QED BY <1>1, <1>3, <1>4, <1>5 DEF DInv

LEMMA BeginKeeps ==
  ASSUME DInv, NEW r \in Requests, Begin(r)
  PROVE  DInv'
<1>1. /\ phase = "idle" /\ phase' = "type" /\ request' = r /\ basis' = {}
      /\ UNCHANGED <<declarations, next, ownerSize, torn>>
      /\ before' = declarations
  BY DEF Begin
<1>2. before = declarations
  BY <1>1 DEF DInv
<1>3. r.name \notin In(before')
  BY <1>1 DEF Begin, Fresh, InScope
<1>4. TypeOK'
  BY <1>1, RequestAssumption DEF DInv, TypeOK
<1>5. BasisOK' /\ PartOK'
  BY <1>1 DEF BasisOK, PartOK
<1>6. ~torn' => WellFounded(before')
  BY <1>1, <1>2 DEF DInv
<1> QED BY <1>1, <1>3, <1>4, <1>5, <1>6 DEF DInv

LEMMA TypeFailsKeeps ==
  ASSUME DInv, TypeFails
  PROVE  DInv'
<1>1. declarations' = declarations /\ Graph' = Graph
  BY DEF TypeFails, Graph, InScope
<1> QED BY <1>1, ConsultRefreshes, EnvironmentsType, Failing DEF TypeFails

LEMMA AddCheckedKeeps ==
  ASSUME DInv, AddChecked
  PROVE  DInv'
<1>1. /\ phase = "type" /\ request \in Requests /\ before = declarations
      /\ request.name \notin InScope /\ request.mentions \subseteq InScope
  BY OpenRequest DEF AddChecked, Scoped, DInv, InScope
<1> DEFINE entry == Declared(request.kind, request.mentions, request.name, {})
<1>2. entry \in Entries /\ entry # Absent
  BY <1>1, SubmissionType, DeclaredIsEntry DEF Kinds
<1>3. entry.of = request.name /\ entry.mentions = request.mentions
  BY DEF Declared
<1>4. declarations' = [declarations EXCEPT ![request.name] = entry]
  BY DEF AddChecked, Declare
<1> HIDE DEF entry
<1>5. request.name \in Names /\ declarations \in Environments
  BY <1>1, SubmissionType, EnvironmentsType
<1>6. /\ declarations' \in Environments
      /\ \A n \in InScope : n \in In(declarations') /\ declarations'[n] = declarations[n]
  BY <1>1, <1>2, <1>4, <1>5 DEF InScope, In, Environments
<1>7. Extends(before, declarations', request.name)
  BY <1>1, <1>2, <1>3, <1>4, <1>5, FirstOfUnit DEF InScope
<1> QED BY <1>1, <1>6, <1>7, Succeeding DEF AddChecked

LEMMA PreRegisterKeeps ==
  ASSUME DInv, PreRegister
  PROVE  DInv'
<1>1. /\ phase = "type" /\ request \in Requests /\ before = declarations
      /\ request.kind = "inductive" /\ next = 1
      /\ request.name \notin InScope /\ request.mentions \subseteq InScope
  BY OpenRequest DEF PreRegister, Scoped, DInv, InScope, TypeOK
<1> DEFINE entry == Declared("inductive", request.mentions, request.name,
                             ConstructorNames(request))
<1>2. entry \in Entries /\ entry # Absent
  BY <1>1, SubmissionType, DeclaredIsEntry DEF Kinds
<1>3. entry.of = request.name /\ entry.mentions = request.mentions
  BY DEF Declared
<1>4. /\ declarations' = [declarations EXCEPT ![request.name] = entry]
      /\ phase' = "constructor"
      /\ UNCHANGED <<request, next, before, torn>>
  BY DEF PreRegister, Declare
<1> HIDE DEF entry
<1>5. /\ request.name \in Names /\ declarations \in Environments
      /\ request.constructors \in Seq(ConstructorSpecs)
  BY <1>1, SubmissionType, EnvironmentsType
<1>6. /\ declarations' \in Environments
      /\ In(declarations') = InScope \cup {request.name}
      /\ \A n \in InScope : declarations'[n] = declarations[n]
  BY <1>1, <1>2, <1>4, <1>5 DEF InScope, In, Environments
<1>7. Extends(before, declarations', request.name)
  BY <1>1, <1>2, <1>3, <1>4, <1>5, FirstOfUnit DEF InScope
<1>8. TypeOK'
  <2>1. next' \in 1..(Len(request'.constructors) + 1)
    BY <1>1, <1>4, <1>5
  <2>2. phase # "idle" /\ (phase = "idle") = (request = NoRequest)
    BY <1>1 DEF DInv, TypeOK
  <2>3. ownerSize' \in Nat /\ basis' \in SUBSET (Names \X Entries)
    BY ConsultRefreshes DEF PreRegister
  <2> QED BY <1>1, <1>4, <1>6, <2>1, <2>2, <2>3 DEF DInv, TypeOK, Environments
<1>9. PartOK'
  <2>1. Checked' = {}
    BY <1>1, <1>4 DEF Checked
  <2>2. InScope' = In(before') \cup {request'.name} \cup Checked'
    BY <1>1, <1>4, <1>6, <2>1 DEF InScope
  <2>3. request'.mentions \subseteq InScope'
    BY <1>1, <1>4, <1>6 DEF InScope
  <2>4. 1..(next' - 1) = {}
    BY <1>1, <1>4
  <2> QED BY <1>4, <1>7, <2>2, <2>3, <2>4 DEF PartOK
<1>10. BasisOK'
  <2>1. /\ basis' = Graph /\ ownerSize' = Cardinality(In(before'))
    BY <1>1, <1>4, ConsultRefreshes DEF PreRegister, InScope
  <2>2. Graph \subseteq Graph'
    BY <1>6 DEF Graph, InScope
  <2>3. Graph = {<<n, before'[n]>> : n \in In(before')}
    BY <1>1, <1>4 DEF Graph, InScope
  <2> QED BY <1>4, <2>1, <2>2, <2>3 DEF BasisOK
<1>11. request'.name \notin In(before') /\ (~torn' => WellFounded(before'))
  BY <1>1, <1>4 DEF DInv
<1> QED BY <1>4, <1>8, <1>9, <1>10, <1>11 DEF DInv

LEMMA AddConstructorKeeps ==
  ASSUME DInv, AddConstructor
  PROVE  DInv'
<1>1. /\ phase = "constructor" /\ request \in Requests /\ request.kind = "inductive"
      /\ next \in DOMAIN request.constructors
      /\ Current.name \notin InScope /\ Current.mentions \subseteq InScope
  BY OpenRequest DEF AddConstructor, InConstructor, Fresh, Scoped, DInv, TypeOK
<1>2. /\ request.constructors \in Seq(ConstructorSpecs) /\ Current \in ConstructorSpecs
      /\ request.name \in Names
  BY <1>1, SubmissionType DEF Current
<1>3. Current.name \in Names /\ Current.mentions \in SUBSET Names
  BY <1>2 DEF ConstructorSpecs
<1>4. next \in Nat /\ next >= 1 /\ next <= Len(request.constructors)
  BY <1>1, <1>2
<1> DEFINE entry == Declared("constructor", Current.mentions, request.name, {})
<1>5. entry \in Entries /\ entry # Absent
  BY <1>2, <1>3, DeclaredIsEntry DEF Kinds
<1>6. entry.of = request.name /\ entry.mentions = Current.mentions
  BY DEF Declared
<1>7. /\ declarations' = [declarations EXCEPT ![Current.name] = entry]
      /\ next' = next + 1
      /\ UNCHANGED <<request, phase, before, torn>>
  BY DEF AddConstructor, Declare
<1> HIDE DEF entry
<1>8. declarations \in Environments /\ before \in Environments
  BY EnvironmentsType
<1>9. /\ declarations' \in Environments
      /\ In(declarations') = InScope \cup {Current.name}
      /\ \A n \in InScope : declarations'[n] = declarations[n]
  BY <1>1, <1>3, <1>5, <1>7, <1>8 DEF InScope, In, Environments
<1>10. PartOK
  BY DEF DInv
<1>11. Extends(before, declarations', request.name)
  BY <1>1, <1>2, <1>3, <1>5, <1>6, <1>7, <1>8, <1>10, NextOfUnit DEF PartOK, InScope
<1>12. TypeOK'
  <2>1. next' \in 1..(Len(request'.constructors) + 1)
    BY <1>2, <1>4, <1>7
  <2>2. ownerSize' \in Nat /\ basis' \in SUBSET (Names \X Entries)
    BY ConsultRefreshes DEF AddConstructor
  <2> QED BY <1>1, <1>7, <1>9, <2>1, <2>2 DEF DInv, TypeOK, Environments
<1>13. PartOK'
  <2>1. 1..(next' - 1) = 1..(next - 1) \cup {next}
    BY <1>4, <1>7
  <2>2. Checked' = Checked \cup {Current.name}
    BY <2>1, <1>7 DEF Checked, Current
  <2>3. InScope' = In(before') \cup {request'.name} \cup Checked'
    BY <1>1, <1>7, <1>9, <1>10, <2>2 DEF PartOK, InScope
  <2>4. InScope \subseteq InScope'
    BY <1>9 DEF InScope
  <2>5. \A i \in 1..(next' - 1) : request'.constructors[i].mentions \subseteq InScope'
    BY <1>1, <1>7, <1>10, <2>1, <2>4 DEF PartOK, Current
  <2>6. request'.mentions \subseteq InScope'
    BY <1>1, <1>7, <1>10, <2>4 DEF PartOK
  <2> QED BY <1>7, <1>11, <2>3, <2>5, <2>6 DEF PartOK
<1>14. BasisOK'
  <2>1. basis' = Graph /\ ownerSize' = Cardinality(InScope)
    BY ConsultRefreshes DEF AddConstructor
  <2>2. Graph \subseteq Graph'
    BY <1>9 DEF Graph, InScope
  <2>3. Cardinality(InScope) > Cardinality(In(before))
    <3>1. In(before) \subseteq InScope /\ request.name \in InScope \ In(before)
      BY <1>1, <1>10 DEF PartOK, DInv
    <3>2. /\ IsFiniteSet(InScope) /\ Cardinality(InScope) \in Nat
          /\ Cardinality(In(before)) \in Nat
      BY InFinite DEF InScope
    <3>3. /\ Cardinality(In(before)) <= Cardinality(InScope)
          /\ Cardinality(InScope) = Cardinality(In(before)) => InScope = In(before)
      BY <3>1, <3>2, FS_Subset
    <3> QED BY <3>1, <3>2, <3>3
  <2> QED BY <1>1, <1>7, <2>1, <2>2, <2>3 DEF BasisOK
<1>15. request'.name \notin In(before') /\ (~torn' => WellFounded(before'))
  BY <1>1, <1>7 DEF DInv
<1> QED BY <1>1, <1>7, <1>12, <1>13, <1>14, <1>15 DEF DInv

LEMMA AddRecursorKeeps ==
  ASSUME DInv, AddRecursor
  PROVE  DInv'
<1>1. /\ phase = "constructor" /\ request \in Requests
      /\ next = Len(request.constructors) + 1
      /\ Recursor \notin InScope
  BY OpenRequest DEF AddRecursor, InRecursor, Fresh, DInv, TypeOK
<1>2. /\ request.constructors \in Seq(ConstructorSpecs)
      /\ request.name \in Names /\ Recursor \in Names
  BY <1>1, SubmissionType DEF Recursor
<1>3. PartOK
  BY DEF DInv
<1>4. RecursorMentions \subseteq InScope
  <2>1. DOMAIN request.constructors = 1..(next - 1)
    BY <1>1, <1>2
  <2>2. ConstructorNames(request) = Checked
    BY <2>1 DEF ConstructorNames, Checked
  <2>3. UNION {request.constructors[i].mentions : i \in DOMAIN request.constructors}
          \subseteq InScope
    BY <1>1, <1>3, <2>1 DEF PartOK
  <2> QED BY <1>1, <1>3, <2>2, <2>3 DEF RecursorMentions, PartOK
<1>5. declarations \in Environments /\ before \in Environments
      /\ RecursorMentions \in SUBSET Names
  BY <1>4, EnvironmentsType, InType DEF InScope
<1> DEFINE entry == Declared("recursor", RecursorMentions, request.name, {})
<1>6. entry \in Entries /\ entry # Absent
  BY <1>2, <1>5, DeclaredIsEntry DEF Kinds
<1>7. entry.of = request.name /\ entry.mentions = RecursorMentions
  BY DEF Declared
<1>8. declarations' = [declarations EXCEPT ![Recursor] = entry]
  BY DEF AddRecursor, Declare
<1> HIDE DEF entry
<1>9. /\ declarations' \in Environments
      /\ \A n \in InScope : n \in In(declarations') /\ declarations'[n] = declarations[n]
  BY <1>1, <1>2, <1>5, <1>6, <1>8 DEF InScope, In, Environments
<1>10. Extends(before, declarations', request.name)
  BY <1>1, <1>2, <1>3, <1>4, <1>5, <1>6, <1>7, <1>8, NextOfUnit DEF PartOK, InScope
<1> QED BY <1>1, <1>9, <1>10, Succeeding DEF AddRecursor

LEMMA RecursorUnbuiltKeeps ==
  ASSUME DInv, RecursorUnbuilt
  PROVE  DInv'
<1>1. /\ phase = "constructor" /\ declarations' = declarations /\ Graph' = Graph
      /\ declarations \in Environments
  BY EnvironmentsType DEF RecursorUnbuilt, InRecursor, Graph, InScope
<1>2. /\ basis' \subseteq Graph /\ ownerSize' \in Nat
      /\ basis' \in SUBSET (Names \X Entries)
  <2>1. CASE Consult
    BY <2>1, ConsultRefreshes
  <2>2. CASE UNCHANGED tables
    BY <2>2, <1>1 DEF tables, DInv, TypeOK, BasisOK
  <2> QED BY <2>1, <2>2 DEF RecursorUnbuilt
<1> QED BY <1>1, <1>2, Failing DEF RecursorUnbuilt

-----------------------------------------------------------------------------
(* The theorems. *)

\* Every step keeps the environment a sound one and part of an inductive.
THEOREM NextKeeps == DInv /\ [Next]_vars => DInv'
<1> SUFFICES ASSUME DInv, [Next]_vars PROVE DInv'
  OBVIOUS
<1>1. CASE ConstructorFails \/ RecursorFails
  BY <1>1, RollbackKeeps DEF ConstructorFails, RecursorFails, InConstructor, InRecursor
<1>2. CASE Query \/ (\E r \in Requests : Begin(r)) \/ TypeFails \/ AddChecked
  BY <1>2, QueryKeeps, BeginKeeps, TypeFailsKeeps, AddCheckedKeeps
<1>3. CASE PreRegister \/ AddConstructor \/ AddRecursor \/ RecursorUnbuilt
  BY <1>3, PreRegisterKeeps, AddConstructorKeeps, AddRecursorKeeps, RecursorUnbuiltKeeps
<1>4. CASE UNCHANGED vars
  <2>1. UNCHANGED <<declarations, request, phase, next, before, ownerSize, basis, torn>>
    BY <1>4 DEF vars, tables
  <2>2. TypeOK'
    BY <2>1 DEF DInv, TypeOK
  <2>3. PartOK' /\ BasisOK'
    BY <2>1 DEF DInv, PartOK, BasisOK, Checked, InScope, Graph
  <2> QED BY <2>1, <2>2, <2>3 DEF DInv
<1> QED BY <1>1, <1>2, <1>3, <1>4 DEF Next

\* The inductive invariant holds of every behaviour.
THEOREM Invariance == Spec => []DInv
  BY InitSound, NextKeeps, PTL DEF Spec

\* Every variable keeps its type.
THEOREM TypeCorrect == Spec => []TypeOK
<1>1. DInv => TypeOK
  BY DEF DInv
<1> QED BY <1>1, Invariance, PTL

LEMMA EnvironmentWellFounded ==
  ASSUME DInv, ~torn
  PROVE  WellFounded(declarations)
<1>1. WellFounded(before)
  BY DEF DInv
<1>2. CASE phase = "constructor"
  BY <1>1, <1>2, EnvironmentsType, ExtensionIsWellFounded DEF DInv, PartOK
<1>3. CASE phase # "constructor"
  BY <1>1, <1>3 DEF DInv
<1> QED BY <1>2, <1>3

\* Whatever is submitted, in whatever order and however it fails, nothing in
\* the environment mentions a name that is not there.
THEOREM EnvironmentIsClosed == Spec => []Closed
<1>1. DInv => Closed
  BY EnvironmentWellFounded DEF Closed, WellFounded, InScope
<1> QED BY <1>1, Invariance, PTL

\* Whatever is submitted, no declaration comes to rest on itself.
THEOREM NothingRestsOnItself == Spec => []NoCircularity
<1>1. DInv => NoCircularity
  BY EnvironmentWellFounded DEF NoCircularity, WellFounded
<1> QED BY <1>1, Invariance, PTL

\* Tables that pass for this environment's by their size rest on nothing that
\* has been rolled back.
THEOREM TablesStayCurrent == Spec => []TablesCurrent
<1>1. DInv => TablesCurrent
  <2> SUFFICES ASSUME DInv, ownerSize = Cardinality(InScope) PROVE basis \subseteq Graph
    BY DEF TablesCurrent
  <2>1. CASE phase = "constructor"
    BY <2>1 DEF DInv, BasisOK
  <2>2. CASE phase # "constructor"
    <3>1. Cardinality(InScope) \in Nat
      BY InFinite DEF InScope
    <3> QED BY <2>2, <3>1 DEF DInv, BasisOK
  <2> QED BY <2>1, <2>2
<1> QED BY <1>1, Invariance, PTL

\* A declaration that fails leaves its mark only if it named something that
\* was there or had a constructor too short for the parameters.
THEOREM FailuresAreClean == Spec => FailureIsClean
<1> DEFINE Excused == NamesOf(request) \cap In(before) # {} \/ ~Buildable
<1>1. ASSUME DInv, Next, phase # "idle", phase' = "idle", torn' # torn
      PROVE  Excused
  <2>1. CASE Query \/ (\E r \in Requests : Begin(r)) \/ PreRegister \/ AddConstructor
    BY <2>1, <1>1 DEF Query, Begin, PreRegister, AddConstructor
  <2>2. CASE AddChecked \/ AddRecursor
    BY <2>2, <1>1 DEF AddChecked, AddRecursor, Succeed
  <2>3. CASE TypeFails
    <3>1. declarations' = before
      BY <2>3, <1>1 DEF TypeFails, DInv
    <3>2. torn' = torn
      BY <2>3, <3>1, <1>1 DEF TypeFails, Fail, DInv, TypeOK
    <3> QED BY <3>2, <1>1
  <2>4. CASE ConstructorFails \/ RecursorFails
    <3>1. phase = "constructor" /\ Rollback /\ Fail
      BY <2>4 DEF ConstructorFails, RecursorFails, InConstructor, InRecursor
    <3>2. declarations' # before
      BY <3>1, <1>1 DEF Fail, DInv, TypeOK
    <3>3. /\ declarations' \in Environments /\ before \in Environments
          /\ In(declarations') = In(before) \ NamesOf(request)
          /\ \A n \in In(declarations') : declarations'[n] = before[n]
      BY <1>1, <3>1, RollbackLeaves, EnvironmentsType
    <3>4. In(declarations') # In(before)
      BY <3>2, <3>3 DEF In, Environments
    <3> QED BY <3>3, <3>4
  <2>5. CASE RecursorUnbuilt
    BY <2>5 DEF RecursorUnbuilt
  <2> QED BY <2>1, <2>2, <2>3, <2>4, <2>5, <1>1 DEF Next
<1>2. DInv /\ [Next]_vars =>
        [phase # "idle" /\ phase' = "idle" /\ torn' # torn => Excused]_vars
  BY <1>1
<1> QED BY <1>2, Invariance, PTL DEF Spec, FailureIsClean
-----------------------------------------------------------------------------
(* Inductives are whole. *)

\* The declaration n of d has what belongs to it.
WholeAt(d, n) ==
  /\ d[n].kind = "inductive" =>
       /\ \A c \in d[n].constructors :
            c \in In(d) /\ d[c].kind = "constructor" /\ d[c].of = n
       /\ RecursorOf[n] \in In(d) /\ d[RecursorOf[n]].kind = "recursor"
  /\ d[n].kind = "constructor" =>
       d[n].of \in In(d) /\ n \in d[d[n].of].constructors
  /\ d[n].kind = "recursor" =>
       d[n].of \in In(d) /\ RecursorOf[d[n].of] = n

Whole(d) == \A n \in In(d) : WholeAt(d, n)

\* What is registered of the open inductive is what its submission names.
HalfWhole ==
  phase = "constructor" =>
    /\ declarations[request.name].kind = "inductive"
    /\ declarations[request.name].constructors = ConstructorNames(request)
    /\ \A c \in Checked : declarations[c].kind = "constructor" /\ c \notin In(before)

WInv == (~torn => Whole(before)) /\ HalfWhole

\* An environment that only gains stays whole if what it gains is.
LEMMA GainingKeepsWhole ==
  ASSUME NEW d, NEW e, Whole(d),
         \A n \in In(d) : n \in In(e) /\ e[n] = d[n],
         \A n \in In(e) \ In(d) : WholeAt(e, n)
  PROVE  Whole(e)
<1> SUFFICES ASSUME NEW n \in In(d) PROVE WholeAt(e, n)
  BY DEF Whole
<1>1. WholeAt(d, n) /\ e[n] = d[n]
  BY DEF Whole
<1>2. e[n].kind = "inductive" =>
        /\ \A c \in e[n].constructors :
             c \in In(e) /\ e[c].kind = "constructor" /\ e[c].of = n
        /\ RecursorOf[n] \in In(e) /\ e[RecursorOf[n]].kind = "recursor"
  BY <1>1 DEF WholeAt
<1>3. e[n].kind = "constructor" =>
        e[n].of \in In(e) /\ n \in e[e[n].of].constructors
  BY <1>1 DEF WholeAt
<1>4. e[n].kind = "recursor" => e[n].of \in In(e) /\ RecursorOf[e[n].of] = n
  BY <1>1 DEF WholeAt
<1> QED BY <1>2, <1>3, <1>4 DEF WholeAt

\* A failure that leaves no mark leaves the environment it met.
LEMMA FailingKeepsWhole ==
  ASSUME DInv, WInv, Fail
  PROVE  WInv'
<1>1. phase' = "idle" /\ before' = declarations'
  BY DEF Fail, Finish
<1>2. ~torn' => ~torn /\ declarations' = before
  BY DEF Fail, DInv, TypeOK
<1> QED BY <1>1, <1>2 DEF WInv, HalfWhole

LEMMA AddCheckedKeepsWhole ==
  ASSUME DInv, WInv, AddChecked
  PROVE  WInv'
<1>1. /\ phase = "type" /\ request \in Requests /\ before = declarations
      /\ request.name \notin InScope /\ request.kind \in {"axiom", "definition"}
  BY OpenRequest DEF AddChecked, DInv, InScope
<1> DEFINE entry == Declared(request.kind, request.mentions, request.name, {})
<1>2. entry.kind \notin {"inductive", "constructor", "recursor"} /\ entry # Absent
  BY <1>1, SubmissionType, DeclaredIsEntry DEF Declared, Kinds
<1>3. declarations' = [declarations EXCEPT ![request.name] = entry]
  BY DEF AddChecked, Declare
<1>4. phase' = "idle" /\ before' = declarations' /\ torn' = torn
  BY DEF AddChecked, Succeed, Finish
<1> HIDE DEF entry
<1>5. request.name \in Names /\ declarations \in Environments
  BY <1>1, SubmissionType, EnvironmentsType
<1>6. /\ In(declarations') = In(declarations) \cup {request.name}
      /\ \A n \in In(declarations) : declarations'[n] = declarations[n]
      /\ declarations'[request.name] = entry
  BY <1>1, <1>2, <1>3, <1>5 DEF InScope, In, Environments
<1>7. \A n \in In(declarations') \ In(declarations) : WholeAt(declarations', n)
  BY <1>2, <1>6 DEF WholeAt
<1>8. Whole(declarations) => Whole(declarations')
  BY <1>6, <1>7, GainingKeepsWhole
<1> QED BY <1>1, <1>4, <1>8 DEF WInv, HalfWhole

LEMMA PreRegisterKeepsWhole ==
  ASSUME DInv, WInv, PreRegister
  PROVE  WInv'
<1>1. /\ phase = "type" /\ request \in Requests /\ next = 1
  BY OpenRequest DEF PreRegister, DInv, TypeOK
<1> DEFINE entry == Declared("inductive", request.mentions, request.name,
                             ConstructorNames(request))
<1>2. entry.kind = "inductive" /\ entry.constructors = ConstructorNames(request)
  BY DEF Declared
<1>3. /\ declarations' = [declarations EXCEPT ![request.name] = entry]
      /\ UNCHANGED <<request, next, before, torn>>
  BY DEF PreRegister, Declare
<1> HIDE DEF entry
<1>4. declarations'[request.name] = entry
  BY <1>1, <1>3, SubmissionType, EnvironmentsType DEF Environments
<1>5. Checked' = {}
  BY <1>1, <1>3 DEF Checked
<1>6. ConstructorNames(request)' = ConstructorNames(request)
  BY <1>3 DEF ConstructorNames
<1> QED BY <1>2, <1>3, <1>4, <1>5, <1>6 DEF WInv, HalfWhole

LEMMA AddConstructorKeepsWhole ==
  ASSUME DInv, WInv, AddConstructor
  PROVE  WInv'
<1>1. /\ phase = "constructor" /\ request \in Requests
      /\ next \in DOMAIN request.constructors
      /\ Current.name \notin InScope
  BY OpenRequest DEF AddConstructor, InConstructor, Fresh, DInv
<1>2. Current.name \in Names /\ next \in Nat /\ next >= 1
  BY <1>1, SubmissionType DEF Current, ConstructorSpecs
<1> DEFINE entry == Declared("constructor", Current.mentions, request.name, {})
<1>3. entry.kind = "constructor"
  BY DEF Declared
<1>4. /\ declarations' = [declarations EXCEPT ![Current.name] = entry]
      /\ next' = next + 1
      /\ UNCHANGED <<request, phase, before, torn>>
  BY DEF AddConstructor, Declare
<1> HIDE DEF entry
<1>5. request.name \in InScope /\ Checked \subseteq InScope
  BY <1>1 DEF DInv, PartOK
<1>6. /\ declarations'[Current.name] = entry
      /\ \A n \in InScope : declarations'[n] = declarations[n]
  BY <1>1, <1>2, <1>4, EnvironmentsType DEF InScope, In, Environments
<1>7. Checked' = Checked \cup {Current.name}
  <2>1. 1..(next' - 1) = 1..(next - 1) \cup {next}
    BY <1>2, <1>4
  <2> QED BY <2>1, <1>4 DEF Checked, Current
<1>8. ConstructorNames(request)' = ConstructorNames(request)
  BY <1>4 DEF ConstructorNames
<1>9. \A c \in Checked' :
        declarations'[c].kind = "constructor" /\ c \notin In(before)
  <2>1. In(before) \subseteq InScope
    BY <1>1 DEF DInv, PartOK
  <2> QED BY <2>1, <1>1, <1>3, <1>5, <1>6, <1>7 DEF WInv, HalfWhole
<1>10. /\ declarations'[request.name].kind = "inductive"
       /\ declarations'[request.name].constructors = ConstructorNames(request)
  BY <1>1, <1>5, <1>6 DEF WInv, HalfWhole
<1> QED BY <1>4, <1>8, <1>9, <1>10 DEF WInv, HalfWhole

\* The recursor is the last piece: with it the inductive, all its
\* constructors and the recursor itself are there and name one another.
LEMMA AddRecursorKeepsWhole ==
  ASSUME DInv, WInv, AddRecursor
  PROVE  WInv'
<1> DEFINE u == request.name
           e == declarations'
<1>1. /\ phase = "constructor" /\ request \in Requests
      /\ next = Len(request.constructors) + 1
      /\ RecursorOf[u] \notin InScope
  BY OpenRequest DEF AddRecursor, InRecursor, Fresh, Recursor, DInv
<1>2. u \in Names /\ RecursorOf[u] \in Names
  BY <1>1, SubmissionType
<1>3. Checked = ConstructorNames(request)
  <2>1. DOMAIN request.constructors = 1..(next - 1)
    BY <1>1, SubmissionType
  <2> QED BY <2>1 DEF ConstructorNames, Checked
<1>4. /\ Extends(before, declarations, u)
      /\ InScope = In(before) \cup {u} \cup Checked
      /\ u \notin In(before)
  BY <1>1 DEF DInv, PartOK
<1> DEFINE entry == Declared("recursor", RecursorMentions, u, {})
<1>5. entry.kind = "recursor" /\ entry.of = u /\ entry # Absent
  <2>1. entry.kind = "recursor" /\ entry.of = u
    BY DEF Declared
  <2>2. Absent.kind # "recursor"
    BY DEF Absent
  <2> QED BY <2>1, <2>2
<1>6. e = [declarations EXCEPT ![RecursorOf[u]] = entry]
  BY DEF AddRecursor, Declare, Recursor
<1>7. phase' = "idle" /\ before' = e /\ torn' = torn
  BY DEF AddRecursor, Succeed, Finish
<1> HIDE DEF entry
<1>8. /\ In(e) = InScope \cup {RecursorOf[u]}
      /\ e[RecursorOf[u]] = entry
      /\ \A n \in InScope : e[n] = declarations[n]
  BY <1>1, <1>2, <1>5, <1>6, EnvironmentsType DEF InScope, In, Environments
<1> HIDE DEF u, e
<1>9. /\ e[u].kind = "inductive" /\ e[u].constructors = Checked
      /\ \A c \in Checked : e[c].kind = "constructor"
  BY <1>1, <1>3, <1>4, <1>8 DEF WInv, HalfWhole, u
<1>10. ASSUME NEW n \in InScope \ In(before) PROVE e[n].of = u
  BY <1>4, <1>8, <1>10 DEF Extends, InScope
<1>11. Checked \cap In(before) = {}
  BY <1>1 DEF WInv, HalfWhole
<1>12. WholeAt(e, u)
  BY <1>4, <1>5, <1>8, <1>9, <1>10, <1>11 DEF WholeAt
<1>13. ASSUME NEW c \in Checked PROVE WholeAt(e, c)
  BY <1>4, <1>8, <1>9, <1>10, <1>11 DEF WholeAt
<1>14. WholeAt(e, RecursorOf[u])
  BY <1>4, <1>5, <1>8 DEF WholeAt
<1>15. \A n \in In(before) : n \in In(e) /\ e[n] = before[n]
  BY <1>4, <1>8 DEF Extends
<1>16. Whole(before) => Whole(e)
  BY <1>4, <1>8, <1>12, <1>13, <1>14, <1>15, GainingKeepsWhole
<1> QED BY <1>7, <1>16 DEF WInv, HalfWhole

LEMMA NextKeepsWhole ==
  ASSUME DInv, WInv, [Next]_vars
  PROVE  WInv'
<1>1. CASE TypeFails \/ ConstructorFails \/ RecursorFails \/ RecursorUnbuilt
  BY <1>1, FailingKeepsWhole DEF TypeFails, ConstructorFails, RecursorFails, RecursorUnbuilt
<1>2. CASE Query
  BY <1>2 DEF Query, WInv, HalfWhole
<1>3. CASE \E r \in Requests : Begin(r)
  BY <1>3 DEF Begin, WInv, HalfWhole, DInv
<1>4. CASE AddChecked \/ PreRegister \/ AddConstructor \/ AddRecursor
  BY <1>4, AddCheckedKeepsWhole, PreRegisterKeepsWhole, AddConstructorKeepsWhole,
     AddRecursorKeepsWhole
<1>5. CASE UNCHANGED vars
  <2>1. UNCHANGED <<declarations, request, phase, next, before, torn>>
    BY <1>5 DEF vars
  <2>2. Checked' = Checked /\ ConstructorNames(request)' = ConstructorNames(request)
    BY <2>1 DEF Checked, ConstructorNames
  <2> QED BY <2>1, <2>2 DEF WInv, HalfWhole
<1> QED BY <1>1, <1>2, <1>3, <1>4, <1>5 DEF Next

\* Whatever is submitted and however it fails, between two declarations no
\* inductive lacks a constructor or its recursor, and no constructor or
\* recursor its inductive.
THEOREM InductivesAreWhole == Spec => []Complete
<1>1. Init => WInv
  <2> SUFFICES ASSUME Init PROVE WInv
    OBVIOUS
  <2>1. In(before) = {} /\ phase = "idle"
    BY DEF Init, In
  <2> QED BY <2>1 DEF WInv, Whole, HalfWhole
<1>2. WInv /\ DInv /\ [Next]_vars => WInv'
  BY NextKeepsWhole
<1>3. DInv /\ WInv => Complete
  <2> SUFFICES ASSUME DInv, WInv, ~torn, phase = "idle" PROVE Complete
    BY DEF Complete
  <2>1. Whole(declarations)
    BY DEF DInv, WInv
  <2> QED BY <2>1 DEF Whole, WholeAt, Complete, InScope
<1> QED BY <1>1, <1>2, <1>3, Invariance, PTL DEF Spec
-----------------------------------------------------------------------------
(* Declarations implements AtomicEnvironment. *)

\* What is registered of the open inductive is what the abstract step would
\* add, as far as the constructors have been come to, and every check that
\* step makes of them has been made.
AInv ==
  phase = "constructor" =>
    /\ Graph = Published \cup {Atomic!InductivePiece(request)}
                 \cup {Atomic!ConstructorPiece(request, i) : i \in 1..(next - 1)}
    /\ request.mentions \subseteq Atomic!Known
    /\ \A i \in 1..(next - 1) : Atomic!Admissible(request, i)

\* Both modules speak of the same names.
LEMMA SameNames ==
  /\ Atomic!Known = In(before)
  /\ \A r : /\ Atomic!Constructors(r) = ConstructorNames(r)
            /\ Atomic!NamedBy(r) = NamesOf(r)
<1>1. Atomic!Known = In(before)
  <2>1. ASSUME NEW n \in In(before) PROVE n \in Atomic!Known
    <3>1. <<n, before[n]>> \in Published /\ <<n, before[n]>>[1] = n
      BY DEF Published
    <3> QED BY <3>1 DEF Atomic!Known
  <2>2. ASSUME NEW n \in Atomic!Known PROVE n \in In(before)
    BY <2>2 DEF Atomic!Known, Published
  <2> QED BY <2>1, <2>2
<1>2. \A r : Atomic!Constructors(r) = ConstructorNames(r)
  BY DEF Atomic!Constructors, Atomic!Of, ConstructorNames
<1>3. \A r : Atomic!NamedBy(r) = NamesOf(r)
  BY <1>2 DEF Atomic!NamedBy, Atomic!Recursor, NamesOf
<1> QED BY <1>1, <1>2, <1>3

Pairs(d) == {<<n, d[n]>> : n \in In(d)}

LEMMA GraphIsPairs ==
  /\ Graph = Pairs(declarations) /\ Published = Pairs(before)
  /\ Graph' = Pairs(declarations') /\ Published' = Pairs(before')
  BY DEF Graph, Published, Pairs, InScope

\* Declaring a new name adds one pair.
LEMMA DeclaringAdds ==
  ASSUME NEW d \in Environments, NEW name \in Names \ In(d), NEW entry, entry # Absent
  PROVE  Pairs([d EXCEPT ![name] = entry]) = Pairs(d) \cup {<<name, entry>>}
<1> DEFINE e == [d EXCEPT ![name] = entry]
<1>1. /\ In(e) = In(d) \cup {name}
      /\ e[name] = entry
      /\ \A n \in In(d) : e[n] = d[n]
  BY DEF Environments, In
<1> QED BY <1>1 DEF Pairs

LEMMA PreRegisterLists ==
  ASSUME DInv, PreRegister
  PROVE  AInv'
<1>1. /\ phase = "type" /\ request \in Requests /\ next = 1 /\ before = declarations
      /\ request.name \notin InScope /\ request.mentions \subseteq InScope
  BY OpenRequest DEF PreRegister, Scoped, DInv, InScope, TypeOK
<1> DEFINE entry == Declared("inductive", request.mentions, request.name,
                             ConstructorNames(request))
<1>2. /\ declarations' = [declarations EXCEPT ![request.name] = entry]
      /\ UNCHANGED <<request, next, before, torn>>
  BY DEF PreRegister, Declare
<1>3. entry # Absent /\ <<request.name, entry>> = Atomic!InductivePiece(request)
  <2>1. entry # Absent
    BY <1>1, SubmissionType, DeclaredIsEntry DEF Kinds
  <2> QED BY <2>1, SameNames DEF Declared, Atomic!InductivePiece, Atomic!Piece
<1> HIDE DEF entry
<1>4. Graph' = Graph \cup {Atomic!InductivePiece(request)}
  <2>1. declarations \in Environments /\ request.name \in Names \ In(declarations)
    BY <1>1, SubmissionType, EnvironmentsType DEF InScope
  <2>2. Pairs(declarations') = Pairs(declarations) \cup {<<request.name, entry>>}
    BY <1>2, <1>3, <2>1, DeclaringAdds
  <2> QED BY <1>3, <2>2, GraphIsPairs
<1>5. Graph = Published /\ Published' = Published
  BY <1>1, <1>2 DEF Graph, Published, InScope
<1>6. /\ Atomic!InductivePiece(request)' = Atomic!InductivePiece(request)
      /\ Atomic!Known' = Atomic!Known
      /\ 1..(next' - 1) = {}
  BY <1>1, <1>2, <1>5 DEF Atomic!InductivePiece, Atomic!Piece, Atomic!Constructors, Atomic!Of,
     Atomic!Known
<1>7. request'.mentions \subseteq Atomic!Known'
  BY <1>1, <1>2, <1>6, SameNames DEF InScope
<1> QED BY <1>4, <1>5, <1>6, <1>7 DEF AInv

LEMMA AddConstructorLists ==
  ASSUME DInv, AInv, AddConstructor
  PROVE  AInv'
<1>1. /\ phase = "constructor" /\ request \in Requests
      /\ next \in DOMAIN request.constructors
      /\ Current.name \notin InScope /\ Current.mentions \subseteq InScope
      /\ Current.positive /\ Current.target = request.name
  BY OpenRequest DEF AddConstructor, InConstructor, Fresh, Scoped, DInv
<1>2. /\ request.constructors \in Seq(ConstructorSpecs) /\ Current \in ConstructorSpecs
      /\ request.name \in Names
  BY <1>1, SubmissionType DEF Current
<1>3. /\ Current.name \in Names /\ Current.mentions \in SUBSET Names
      /\ next \in Nat /\ next >= 1
  BY <1>1, <1>2 DEF ConstructorSpecs
<1> DEFINE entry == Declared("constructor", Current.mentions, request.name, {})
<1>4. /\ declarations' = [declarations EXCEPT ![Current.name] = entry]
      /\ next' = next + 1
      /\ UNCHANGED <<request, phase, before, torn>>
  BY DEF AddConstructor, Declare
<1>5. entry # Absent /\ <<Current.name, entry>> = Atomic!ConstructorPiece(request, next)
  <2>1. entry # Absent
    BY <1>2, <1>3, DeclaredIsEntry DEF Kinds
  <2> QED BY <2>1 DEF Declared, Atomic!ConstructorPiece, Atomic!Piece, Current
<1> HIDE DEF entry
<1>6. Graph' = Graph \cup {Atomic!ConstructorPiece(request, next)}
  <2>1. declarations \in Environments /\ Current.name \in Names \ In(declarations)
    BY <1>1, <1>3, EnvironmentsType DEF InScope
  <2>2. Pairs(declarations') = Pairs(declarations) \cup {<<Current.name, entry>>}
    BY <1>4, <1>5, <2>1, DeclaringAdds
  <2> QED BY <1>5, <2>2, GraphIsPairs
<1>7. Published' = Published /\ request' = request /\ Atomic!Known' = Atomic!Known
  BY <1>4, GraphIsPairs DEF Atomic!Known
<1>8. 1..(next' - 1) = 1..(next - 1) \cup {next}
  BY <1>3, <1>4
<1>9. Atomic!Admissible(request, next)
  <2>1. InScope = Atomic!Known \cup {request.name}
                    \cup {request.constructors[j].name : j \in 1..(next - 1)}
    BY <1>1, SameNames DEF DInv, PartOK, Checked
  <2> QED BY <1>1, <2>1 DEF Atomic!Admissible, Current
<1>10. Graph' = Published' \cup {Atomic!InductivePiece(request)'}
                 \cup {Atomic!ConstructorPiece(request, i)' : i \in 1..(next' - 1)}
  <2>1. Graph = Published \cup {Atomic!InductivePiece(request)}
                 \cup {Atomic!ConstructorPiece(request, i) : i \in 1..(next - 1)}
    BY <1>1 DEF AInv
  <2>2. /\ Atomic!InductivePiece(request)' = Atomic!InductivePiece(request)
        /\ \A i : Atomic!ConstructorPiece(request, i)' = Atomic!ConstructorPiece(request, i)
    BY <1>7 DEF Atomic!InductivePiece, Atomic!ConstructorPiece, Atomic!Piece,
       Atomic!Constructors, Atomic!Of
  <2> QED BY <1>6, <1>7, <1>8, <2>1, <2>2
<1>11. \A i \in 1..(next' - 1) : Atomic!Admissible(request, i)'
  <2>1. \A i \in 1..(next - 1) : Atomic!Admissible(request, i)
    BY <1>1 DEF AInv
  <2>2. \A i : Atomic!Admissible(request, i)' = Atomic!Admissible(request, i)
    BY <1>7 DEF Atomic!Admissible
  <2> QED BY <1>8, <1>9, <2>1, <2>2
<1>12. request'.mentions \subseteq Atomic!Known'
  BY <1>1, <1>7 DEF AInv
<1> QED BY <1>7, <1>10, <1>11, <1>12 DEF AInv

LEMMA NextLists ==
  ASSUME DInv, AInv, [Next]_vars
  PROVE  AInv'
<1>1. CASE TypeFails \/ AddChecked \/ ConstructorFails \/ AddRecursor \/ RecursorFails
           \/ RecursorUnbuilt
  BY <1>1 DEF TypeFails, AddChecked, ConstructorFails, AddRecursor, RecursorFails,
     RecursorUnbuilt, Succeed, Fail, Finish, AInv
<1>2. CASE Query \/ (\E r \in Requests : Begin(r))
  BY <1>2 DEF Query, Begin, AInv
<1>3. CASE PreRegister \/ AddConstructor
  BY <1>3, PreRegisterLists, AddConstructorLists
<1>4. CASE UNCHANGED vars
  <2>1. UNCHANGED <<declarations, request, phase, next, before>>
    BY <1>4 DEF vars
  <2>2. Published' = Published /\ Graph' = Graph /\ Atomic!Known' = Atomic!Known
    BY <2>1, GraphIsPairs DEF Atomic!Known
  <2>3. /\ Atomic!InductivePiece(request)' = Atomic!InductivePiece(request)
        /\ \A i : Atomic!ConstructorPiece(request, i)' = Atomic!ConstructorPiece(request, i)
        /\ \A i : Atomic!Admissible(request, i)' = Atomic!Admissible(request, i)
    BY <2>1, <2>2 DEF Atomic!InductivePiece, Atomic!ConstructorPiece, Atomic!Piece,
       Atomic!Constructors, Atomic!Of, Atomic!Admissible
  <2> QED BY <2>1, <2>2, <2>3 DEF AInv
<1> QED BY <1>1, <1>2, <1>3, <1>4 DEF Next

-----------------------------------------------------------------------------
(* Step by step. *)

\* The end of a submission publishes what is declared and closes the request.
LEMMA Ending ==
  ASSUME DInv, phase # "idle", Finish
  PROVE  Atomic!Answer /\ Published' = Graph'
<1>1. request' = NoRequest /\ before' = declarations' /\ request # NoRequest
  BY DEF Finish, DInv, TypeOK
<1> QED BY <1>1, GraphIsPairs DEF Atomic!Answer

LEMMA AcceptsSingle ==
  ASSUME DInv, AddChecked
  PROVE  Atomic!AcceptSingle
<1>1. /\ phase = "type" /\ request \in Requests /\ before = declarations
      /\ request.name \notin InScope /\ request.mentions \subseteq InScope
      /\ request.kind \in {"axiom", "definition"}
  BY OpenRequest DEF AddChecked, Scoped, DInv, InScope
<1> DEFINE entry == Declared(request.kind, request.mentions, request.name, {})
<1>2. entry # Absent /\ <<request.name, entry>> = Atomic!Single(request)
  <2>1. entry # Absent
    BY <1>1, SubmissionType, DeclaredIsEntry DEF Kinds
  <2> QED BY <2>1 DEF Declared, Atomic!Single, Atomic!Piece
<1>3. declarations' = [declarations EXCEPT ![request.name] = entry]
  BY DEF AddChecked, Declare
<1> HIDE DEF entry
<1>4. Pairs(declarations') = Pairs(declarations) \cup {<<request.name, entry>>}
  <2>1. declarations \in Environments /\ request.name \in Names \ In(declarations)
    BY <1>1, SubmissionType, EnvironmentsType DEF InScope
  <2> QED BY <1>2, <1>3, <2>1, DeclaringAdds
<1>5. Published' = Published \cup {Atomic!Single(request)}
  BY <1>1, <1>2, <1>4, Ending, GraphIsPairs DEF AddChecked, Succeed
<1>6. request.mentions \subseteq Atomic!Known
  BY <1>1, SameNames DEF InScope
<1> QED BY <1>1, <1>5, <1>6, Ending DEF AddChecked, Succeed, Atomic!AcceptSingle

\* When the constructors are done, the request has passed every check the
\* abstract step makes, and all of it but the recursor is declared.
LEMMA ConstructorsDone ==
  ASSUME DInv, AInv, InRecursor, Fresh(Recursor)
  PROVE  /\ Atomic!Sound(request)
         /\ Atomic!Shaped(request) = Buildable
         /\ Graph = Published \cup Atomic!Body(request)
<1>1. /\ phase = "constructor" /\ request \in Requests /\ request.kind = "inductive"
      /\ next = Len(request.constructors) + 1
      /\ request.constructors \in Seq(ConstructorSpecs)
  BY OpenRequest, SubmissionType DEF InRecursor, DInv, TypeOK
<1>2. 1..(next - 1) = Atomic!Of(request)
  BY <1>1 DEF Atomic!Of
<1>3. Graph = Published \cup Atomic!Body(request)
  BY <1>1, <1>2 DEF AInv, Atomic!Body
<1>4. Atomic!Shaped(request) = Buildable
  BY DEF Atomic!Shaped, Atomic!Of, Buildable
<1>5. InScope = Atomic!Known \cup {request.name} \cup Atomic!Constructors(request)
  BY <1>1, <1>2, SameNames DEF DInv, PartOK, Checked, Atomic!Constructors
<1>6. Atomic!Sound(request)
  BY <1>1, <1>2, <1>5 DEF AInv, Atomic!Sound, Fresh, Recursor, Atomic!Recursor
<1> QED BY <1>3, <1>4, <1>6

LEMMA AcceptsInductive ==
  ASSUME DInv, AInv, AddRecursor
  PROVE  Atomic!AcceptInductive
<1>1. /\ phase = "constructor" /\ request \in Requests /\ InRecursor /\ Buildable
      /\ Fresh(Recursor)
  BY OpenRequest DEF AddRecursor, InRecursor, DInv
<1>2. Recursor \in Names \ In(declarations) /\ request.name \in Names
  BY <1>1, SubmissionType DEF Fresh, Recursor, InScope
<1> DEFINE entry == Declared("recursor", RecursorMentions, request.name, {})
<1>3. entry # Absent /\ <<Recursor, entry>> = Atomic!RecursorPiece(request)
  <2>1. entry.kind # Absent.kind
    BY DEF Declared, Absent
  <2>2. RecursorMentions = {request.name} \cup request.mentions
            \cup Atomic!Constructors(request)
            \cup UNION {request.constructors[i].mentions : i \in Atomic!Of(request)}
    BY DEF RecursorMentions, Atomic!Constructors, Atomic!Of, ConstructorNames
  <2> QED BY <2>1, <2>2 DEF Declared, Atomic!RecursorPiece, Atomic!Piece, Recursor,
     Atomic!Recursor
<1>4. declarations' = [declarations EXCEPT ![Recursor] = entry]
  BY DEF AddRecursor, Declare
<1> HIDE DEF entry
<1>5. Pairs(declarations') = Pairs(declarations) \cup {<<Recursor, entry>>}
  BY <1>2, <1>3, <1>4, EnvironmentsType, DeclaringAdds
<1>6. Published' = Published \cup Atomic!Body(request) \cup {Atomic!RecursorPiece(request)}
  BY <1>1, <1>3, <1>5, Ending, ConstructorsDone, GraphIsPairs DEF AddRecursor, Succeed
<1> QED BY <1>1, <1>6, Ending, ConstructorsDone DEF AddRecursor, Succeed,
     Atomic!AcceptInductive

\* A rollback restores what the submission met, or loses of it what has one
\* of the request's names.
LEMMA RollbackRefuses ==
  ASSUME DInv, phase = "constructor", Rollback, Fail
  PROVE  Atomic!Refuse \/ Atomic!Erase
<1>1. /\ In(declarations') = In(before) \ NamesOf(request)
      /\ \A n \in In(declarations') : declarations'[n] = before[n]
  BY RollbackLeaves
<1>2. Pairs(declarations') = {piece \in Pairs(before) : piece[1] \notin NamesOf(request)}
  <2>1. ASSUME NEW p \in Pairs(declarations')
        PROVE  p \in Pairs(before) /\ p[1] \notin NamesOf(request)
    BY <1>1 DEF Pairs
  <2>2. ASSUME NEW p \in Pairs(before), p[1] \notin NamesOf(request)
        PROVE  p \in Pairs(declarations')
    <3> PICK n \in In(before) : p = <<n, before[n]>>
      BY DEF Pairs
    <3>1. n \in In(declarations') /\ p = <<n, declarations'[n]>>
      BY <1>1, <2>2
    <3> QED BY <3>1 DEF Pairs
  <2> QED BY <2>1, <2>2
<1>3. Atomic!Answer /\ Published' = Pairs(declarations') /\ request.kind = "inductive"
  BY Ending, GraphIsPairs DEF Fail, DInv, TypeOK
<1>4. Published' = {piece \in Published : piece[1] \notin Atomic!NamedBy(request)}
  BY <1>2, <1>3, GraphIsPairs, SameNames
<1>5. CASE Atomic!NamedBy(request) \cap Atomic!Known = {}
  <2>1. \A piece \in Published : piece[1] \in Atomic!Known
    BY DEF Atomic!Known
  <2>2. Published' = Published
    BY <1>4, <1>5, <2>1
  <2> QED BY <1>3, <2>2 DEF Atomic!Refuse
<1>6. CASE Atomic!NamedBy(request) \cap Atomic!Known # {}
  BY <1>3, <1>4, <1>6 DEF Atomic!Erase
<1> QED BY <1>5, <1>6

\* However many steps a declaration takes and wherever it fails, its callers
\* see it add all it declares at once, or a refusal.
THEOREM DeclaringIsAtomic == Spec => DeclaresAtomically
<1>1. Init => AInv /\ Atomic!Init
  <2> SUFFICES ASSUME Init PROVE AInv /\ Atomic!Init
    OBVIOUS
  <2>1. In(before) = {} /\ phase = "idle" /\ request = NoRequest
    BY DEF Init, In
  <2>2. Published = {}
    BY <2>1 DEF Published
  <2> QED BY <2>1, <2>2 DEF AInv, Atomic!Init
<1>2. DInv /\ AInv /\ [Next]_vars => AInv'
  BY NextLists
<1>3. DInv /\ AInv /\ [Next]_vars => [Atomic!Next]_(Atomic!vars)
  <2> SUFFICES ASSUME DInv, AInv, [Next]_vars
               PROVE  Atomic!Next \/ UNCHANGED Atomic!vars
    OBVIOUS
  <2>1. CASE Query \/ PreRegister \/ AddConstructor \/ UNCHANGED vars
    <3>1. request' = request /\ before' = before
      BY <2>1 DEF Query, PreRegister, AddConstructor, vars
    <3> QED BY <3>1, GraphIsPairs DEF Atomic!vars
  <2>2. CASE \E r \in Requests : Begin(r)
    <3> PICK r \in Requests : Begin(r)
      BY <2>2
    <3>1. request = NoRequest /\ request' = r /\ before' = before /\ r.name \notin In(before)
      BY DEF Begin, DInv, TypeOK, Fresh, InScope
    <3>2. Atomic!Submit(r)
      BY <3>1, SameNames, GraphIsPairs DEF Atomic!Submit
    <3> QED BY <3>2 DEF Atomic!Next
  <2>3. CASE TypeFails
    <3>1. phase # "idle" /\ Finish /\ declarations' = before /\ before' = before
      BY <2>3 DEF TypeFails, Fail, Finish, DInv
    <3>2. Atomic!Refuse
      BY <3>1, Ending, GraphIsPairs DEF Atomic!Refuse
    <3> QED BY <3>2 DEF Atomic!Next
  <2>4. CASE AddChecked \/ AddRecursor
    BY <2>4, AcceptsSingle, AcceptsInductive DEF Atomic!Next
  <2>5. CASE ConstructorFails \/ RecursorFails
    <3>1. phase = "constructor" /\ Rollback /\ Fail
      BY <2>5 DEF ConstructorFails, RecursorFails, InConstructor, InRecursor
    <3> QED BY <3>1, RollbackRefuses DEF Atomic!Next
  <2>6. CASE RecursorUnbuilt
    <3>1. /\ phase # "idle" /\ Finish /\ InRecursor /\ Fresh(Recursor) /\ ~Buildable
          /\ declarations' = declarations
      BY <2>6 DEF RecursorUnbuilt, InRecursor, Fail
    <3>2. Published' = Published \cup Atomic!Body(request)
      BY <3>1, Ending, ConstructorsDone, GraphIsPairs
    <3>3. Atomic!Abandon
      BY <3>1, <3>2, Ending, ConstructorsDone DEF Atomic!Abandon
    <3> QED BY <3>3 DEF Atomic!Next
  <2> QED BY <2>1, <2>2, <2>3, <2>4, <2>5, <2>6 DEF Next
<1> QED BY <1>1, <1>2, <1>3, Invariance, PTL DEF Spec, DeclaresAtomically, Atomic!Spec
=============================================================================
