-------------------------- MODULE RegistriesProofs --------------------------
(***************************************************************************)
(* For any modules, types and declarations, in any order of verification and  *)
(* of loading: the chain found under two types leads from the one to the       *)
(* other; what the caches record replays the process that wrote them; and      *)
(* along a line of modules the coercions stay closed, the folds agree with     *)
(* their operators and the joins are associative.                            *)
(***************************************************************************)
EXTENDS Registries, SequenceTheorems, FiniteSetTheorems, TLAPS

-----------------------------------------------------------------------------
(* What chains lead to.                                                     *)

Led(c) ==
  \A k \in DOMAIN c :
    /\ k \in Types \X Types /\ k[1] # k[2]
    /\ c[k] \in Seq(Names)
    /\ Leads(c[k], k[1], k[2])

EnvLeads == "coercions" \in DOMAIN env /\ Led(env.coercions)

CachesLead ==
  \A m \in Verified :
    caches[m].imports \in Seq(Verified) /\ Led(caches[m].delta.coercions)

OnlyVerified ==
  /\ DOMAIN caches = Modules
  /\ imports \in Seq(Verified)
  /\ stack \in Seq([of : Modules, left : Seq(Verified)])
  /\ \A i \in 2..Len(stack) : stack[i].of \in Verified
  /\ running # NoModule => running \in Modules \ Verified

IInv == EnvLeads /\ CachesLead /\ OnlyVerified

-----------------------------------------------------------------------------
(* Chains. *)

\* The chain of no function leads from a type to itself.
LEMMA EmptyLeads ==
  ASSUME NEW X \in Types
  PROVE  Leads(<<>>, X, X)
<1> DEFINE path == [i \in 0..0 |-> X]
<1>1. Len(<<>>) = 0
  OBVIOUS
<1>2. path \in [0..0 -> Types] /\ path[0] = X
  OBVIOUS
<1>3. \A i \in 1..0 : FALSE
  OBVIOUS
<1> HIDE DEF path
<1> QED BY <1>1, <1>2, <1>3 DEF Leads

\* A function leads between the heads its type allows.
LEMMA OneLeads ==
  ASSUME NEW X \in Types, NEW Y \in Types, NEW n \in Names, <<X, Y>> \in Heads[n]
  PROVE  Leads(<<n>>, X, Y)
<1> DEFINE path == [i \in 0..1 |-> IF i = 0 THEN X ELSE Y]
<1>1. path \in [0..Len(<<n>>) -> Types] /\ path[0] = X /\ path[Len(<<n>>)] = Y
  OBVIOUS
<1>2. \A i \in 1..Len(<<n>>) : <<path[i - 1], path[i]>> \in Heads[<<n>>[i]]
  <2>1. path[0] = X /\ path[1] = Y OBVIOUS
  <2>2. SUFFICES ASSUME NEW i \in 1..Len(<<n>>) PROVE <<path[i - 1], path[i]>> \in Heads[<<n>>[i]]
    OBVIOUS
  <2>3. i = 1 /\ i - 1 = 0 /\ <<n>>[i] = n OBVIOUS
  <2> HIDE DEF path
  <2> QED BY <2>1, <2>3
<1> QED BY <1>1, <1>2 DEF Leads

\* Chains that meet compose.
LEMMA ChainsCompose ==
  ASSUME NEW a \in Seq(Names), NEW b \in Seq(Names),
         NEW X, NEW Y, NEW Z, Leads(a, X, Y), Leads(b, Y, Z)
  PROVE  Leads(a \o b, X, Z)
<1>1. PICK p \in [0..Len(a) -> Types] :
        /\ p[0] = X /\ p[Len(a)] = Y
        /\ \A i \in 1..Len(a) : <<p[i - 1], p[i]>> \in Heads[a[i]]
  BY DEF Leads
<1>2. PICK q \in [0..Len(b) -> Types] :
        /\ q[0] = Y /\ q[Len(b)] = Z
        /\ \A i \in 1..Len(b) : <<q[i - 1], q[i]>> \in Heads[b[i]]
  BY DEF Leads
<1> DEFINE m == Len(a)  n == Len(b)  c == a \o b
           r == [i \in 0..(m + n) |-> IF i <= m THEN p[i] ELSE q[i - m]]
<1>3. m \in Nat /\ n \in Nat OBVIOUS
<1>4. /\ Len(c) = m + n
      /\ \A i \in 1..m : c[i] = a[i]
      /\ \A i \in (m + 1)..(m + n) : c[i] = b[i - m]
  OBVIOUS
<1>5. r \in [0..(m + n) -> Types]
  <2>1. ASSUME NEW i \in 0..(m + n) PROVE (IF i <= m THEN p[i] ELSE q[i - m]) \in Types
    <3>1. CASE i <= m
      <4>1. i \in 0..m BY <3>1, <1>3
      <4>2. p[i] \in Types BY <4>1, <1>1
      <4> QED BY <3>1, <4>2
    <3>2. CASE i > m
      <4>1. i - m \in 0..n BY <3>2, <1>3
      <4>2. q[i - m] \in Types BY <4>1, <1>2
      <4>3. ~(i <= m) BY <3>2, <1>3
      <4> QED BY <4>2, <4>3
    <3> QED BY <3>1, <3>2, <1>3
  <2> QED BY <2>1
<1>6. /\ \A i \in 0..m : r[i] = p[i]
      /\ \A i \in m..(m + n) : r[i] = q[i - m]
  <2>1. ASSUME NEW i \in 0..m PROVE r[i] = p[i] BY <1>3
  <2>2. ASSUME NEW i \in m..(m + n) PROVE r[i] = q[i - m]
    <3>1. CASE i = m BY <3>1, <1>1, <1>2, <1>3
    <3>2. CASE i # m BY <3>2, <1>3
    <3> QED BY <3>1, <3>2
  <2> QED BY <2>1, <2>2
<1> HIDE DEF r, c
<1>7. r[0] = X /\ r[m + n] = Z
  <2>1. 0 \in 0..m /\ m + n \in m..(m + n) /\ (m + n) - m = n BY <1>3
  <2> QED BY <2>1, <1>6, <1>1, <1>2
<1>8. ASSUME NEW i \in 1..(m + n) PROVE <<r[i - 1], r[i]>> \in Heads[c[i]]
  <2>1. CASE i <= m
    <3>1. i \in 1..m /\ i - 1 \in 0..m /\ i \in 0..m BY <2>1, <1>3
    <3>2. c[i] = a[i] /\ r[i - 1] = p[i - 1] /\ r[i] = p[i] BY <3>1, <1>4, <1>6
    <3> QED BY <3>1, <3>2, <1>1
  <2>2. CASE i > m
    <3>1. /\ i \in (m + 1)..(m + n) /\ i - 1 \in m..(m + n) /\ i \in m..(m + n)
          /\ i - m \in 1..n /\ (i - 1) - m = (i - m) - 1
      BY <2>2, <1>3
    <3>2. c[i] = b[i - m] BY <3>1, <1>4
    <3>3. r[i - 1] = q[(i - m) - 1] /\ r[i] = q[i - m]
      <4>1. r[i] = q[i - m] BY <3>1, <1>6
      <4>2. r[i - 1] = q[(i - 1) - m] BY <3>1, <1>6
      <4> QED BY <3>1, <4>1, <4>2
    <3>4. <<q[(i - m) - 1], q[i - m]>> \in Heads[b[i - m]] BY <3>1, <1>2
    <3> QED BY <3>2, <3>3, <3>4
  <2> QED BY <2>1, <2>2, <1>3
<1> QED BY <1>4, <1>5, <1>7, <1>8 DEF Leads, c

\* A new edge, extended on both sides, leads between the heads it is kept under.
LEMMA ExtendedLeads ==
  ASSUME NEW c, Led(c), NEW s, s.from \in Types, s.to \in Types, s.from # s.to,
         s.name \in Names, <<s.from, s.to>> \in Heads[s.name]
  PROVE  Led(Extended(c, s))
<1> DEFINE from == {s.from} \cup {X \in Types : <<X, s.from>> \in DOMAIN c /\ X # s.to}
           to   == {s.to} \cup {Y \in Types : <<s.to, Y>> \in DOMAIN c}
           keys == {k \in from \X to : k[1] # k[2]}
<1>1. SUFFICES ASSUME NEW k \in keys
               PROVE  /\ k \in Types \X Types
                      /\ LET chain == At(c, <<k[1], s.from>>) \o <<s.name>> \o At(c, <<s.to, k[2]>>)
                         IN chain \in Seq(Names) /\ Leads(chain, k[1], k[2])
  BY DEF Led, Extended
<1>2. k = <<k[1], k[2]>> /\ k[1] \in from /\ k[2] \in to /\ k \in Types \X Types
  OBVIOUS
<1>3. <<s.from, s.from>> \notin DOMAIN c /\ <<s.to, s.to>> \notin DOMAIN c
  BY DEF Led
<1> DEFINE before_ == At(c, <<k[1], s.from>>)  after == At(c, <<s.to, k[2]>>)
<1>4. before_ \in Seq(Names) /\ Leads(before_, k[1], s.from)
  <2>1. CASE k[1] = s.from
    <3>1. before_ = <<>> BY <2>1, <1>3 DEF At
    <3> QED BY <2>1, <3>1, EmptyLeads
  <2>2. CASE k[1] # s.from
    <3>1. <<k[1], s.from>> \in DOMAIN c BY <2>2, <1>2
    <3> QED BY <3>1 DEF At, Led
  <2> QED BY <2>1, <2>2
<1>5. after \in Seq(Names) /\ Leads(after, s.to, k[2])
  <2>1. CASE k[2] = s.to
    <3>1. after = <<>> BY <2>1, <1>3 DEF At
    <3> QED BY <2>1, <3>1, EmptyLeads
  <2>2. CASE k[2] # s.to
    <3>1. <<s.to, k[2]>> \in DOMAIN c BY <2>2, <1>2
    <3> QED BY <3>1 DEF At, Led
  <2> QED BY <2>1, <2>2
<1> HIDE DEF before_, after
<1>6. <<s.name>> \in Seq(Names) /\ Leads(<<s.name>>, s.from, s.to)
  BY OneLeads
<1>7. before_ \o <<s.name>> \in Seq(Names)
  BY <1>4, <1>6
<1>8. (before_ \o <<s.name>>) \o after \in Seq(Names)
  BY <1>5, <1>7
<1>9. Leads(before_ \o <<s.name>>, k[1], s.to)
  BY <1>4, <1>6, ChainsCompose
<1>10. Leads((before_ \o <<s.name>>) \o after, k[1], k[2])
  BY <1>5, <1>7, <1>9, ChainsCompose
<1> QED BY <1>2, <1>8, <1>10 DEF before_, after

\* Entries that lead may be laid over entries that lead, or left out.
LEMMA OverLeads ==
  ASSUME NEW f, NEW g, Led(f), Led(g)
  PROVE  Led(Over(f, g))
BY DEF Led, Over

LEMMA WithoutLeads ==
  ASSUME NEW f, NEW D, Led(f)
  PROVE  Led(Without(f, D))
BY DEF Led, Without

-----------------------------------------------------------------------------
(* The stack of loads. *)

\* The frame on top and those under it are of the sequence.
LEMMA RestOf ==
  ASSUME NEW S, NEW q \in Seq(S), q # <<>>
  PROVE  /\ q[Len(q)] \in S
         /\ SubSeq(q, 1, Len(q) - 1) \in Seq(S)
         /\ Len(SubSeq(q, 1, Len(q) - 1)) = Len(q) - 1
         /\ \A i \in 1..(Len(q) - 1) : SubSeq(q, 1, Len(q) - 1)[i] = q[i]
<1>1. Len(q) \in Nat \ {0} /\ q[Len(q)] \in S
  OBVIOUS
<1>2. 1 \in Int /\ Len(q) - 1 \in Int /\ \A i \in 1..(Len(q) - 1) : q[i] \in S
  BY <1>1
<1>3. /\ SubSeq(q, 1, Len(q) - 1) \in Seq(S)
      /\ Len(SubSeq(q, 1, Len(q) - 1)) = IF 1 <= Len(q) - 1 THEN (Len(q) - 1) - 1 + 1 ELSE 0
      /\ \A i \in 1..((Len(q) - 1) - 1 + 1) : SubSeq(q, 1, Len(q) - 1)[i] = q[1 + i - 1]
  BY <1>1, <1>2, SubSeqProperties
<1> DEFINE r == SubSeq(q, 1, Len(q) - 1)
<1> HIDE DEF r
<1>4. r \in Seq(S) /\ Len(r) = IF 1 <= Len(q) - 1 THEN (Len(q) - 1) - 1 + 1 ELSE 0
  BY <1>3 DEF r
<1>5. Len(r) = Len(q) - 1
  <2> DEFINE n == Len(q)
  <2>1. n \in Nat \ {0} /\ Len(r) = IF 1 <= n - 1 THEN (n - 1) - 1 + 1 ELSE 0
    BY <1>1, <1>4
  <2> HIDE DEF n
  <2>2. Len(r) = n - 1 BY <2>1
  <2> QED BY <2>2 DEF n
<1>6. ASSUME NEW i \in 1..(Len(q) - 1) PROVE r[i] = q[i]
  <2>1. i \in 1..((Len(q) - 1) - 1 + 1) /\ 1 + i - 1 = i BY <1>1
  <2> QED BY <2>1, <1>3 DEF r
<1> QED BY <1>1, <1>4, <1>5, <1>6 DEF r

\* Appending leaves what is there in its place.
LEMMA AppendOf ==
  ASSUME NEW S, NEW q \in Seq(S), NEW e \in S
  PROVE  /\ Append(q, e) \in Seq(S)
         /\ Len(Append(q, e)) = Len(q) + 1
         /\ Append(q, e)[Len(q) + 1] = e
         /\ \A i \in 1..Len(q) : Append(q, e)[i] = q[i]
OBVIOUS

\* With one import of the top call taken, its frame is still a frame over the
\* same sources.
LEMMA DroppedOf ==
  ASSUME NEW V, stack \in Seq([of : Modules, left : Seq(V)]),
         stack # <<>>, Top.left # <<>>
  PROVE  /\ Dropped \in Seq([of : Modules, left : Seq(V)])
         /\ Len(Dropped) = Len(stack)
         /\ \A i \in 1..Len(stack) : Dropped[i].of = stack[i].of
         /\ Head(Top.left) \in V
<1> DEFINE F == [of : Modules, left : Seq(V)]  e == [Top EXCEPT !.left = Tail(@)]
<1>1. Len(stack) \in Nat \ {0}
  BY DEF Top
<1>2. /\ Top \in F /\ Rest \in Seq(F) /\ Len(Rest) = Len(stack) - 1
      /\ \A i \in 1..(Len(stack) - 1) : Rest[i] = stack[i]
  BY RestOf DEF Top, Rest
<1>3. Top.left \in Seq(V) /\ Top.of \in Modules
  BY <1>2
<1>4. Head(Top.left) \in V /\ Tail(Top.left) \in Seq(V)
  BY <1>3
<1>5. e \in F /\ e.of = Top.of
  BY <1>2, <1>3, <1>4
<1> HIDE DEF F, e
<1>6. /\ Append(Rest, e) \in Seq(F) /\ Len(Append(Rest, e)) = Len(stack)
      /\ Append(Rest, e)[Len(stack)] = e
      /\ \A i \in 1..(Len(stack) - 1) : Append(Rest, e)[i] = stack[i]
  BY <1>1, <1>2, <1>5, AppendOf
<1>7. Dropped = Append(Rest, e)
  BY DEF Dropped, e
<1>8. \A i \in 1..Len(stack) : Dropped[i].of = stack[i].of
  <2>1. ASSUME NEW i \in 1..Len(stack) PROVE Dropped[i].of = stack[i].of
    <3>1. CASE i = Len(stack) BY <3>1, <1>5, <1>6, <1>7 DEF Top
    <3>2. CASE i # Len(stack)
      <4>1. i \in 1..(Len(stack) - 1) BY <3>2, <1>1
      <4> QED BY <4>1, <1>6, <1>7
    <3> QED BY <3>1, <3>2
  <2> QED BY <2>1
<1> QED BY <1>4, <1>6, <1>7, <1>8 DEF F

-----------------------------------------------------------------------------
(* The invariant. *)

LEMMA IInvInit == Init => IInv
<1>1. ASSUME Init PROVE IInv
  <2>1. Verified = {} BY <1>1 DEF Init, Verified
  <2>2. Led(Empty) BY DEF Led, Empty
  <2>3. EnvLeads BY <1>1, <2>2 DEF EnvLeads, Init, NoRegistries
  <2>4. CachesLead BY <2>1 DEF CachesLead
  <2>5. OnlyVerified
    <3>1. imports = <<>> /\ stack = <<>> /\ DOMAIN caches = Modules /\ running = NoModule
      BY <1>1 DEF Init
    <3> QED BY <3>1, EmptySeq DEF OnlyVerified
  <2> QED BY <2>3, <2>4, <2>5 DEF IInv
<1> QED BY <1>1

\* A module taken up: its imports are verified.
LEMMA BeginKeeps ==
  ASSUME IInv, NEW m \in Modules, NEW list \in ImportLists, Begin(m, list)
  PROVE  IInv'
<1>1. Verified' = Verified BY DEF Begin, Verified
<1>2. EnvLeads' BY DEF IInv, EnvLeads, Begin
<1>3. CachesLead' BY <1>1 DEF IInv, CachesLead, Begin
<1>4. list \in Seq(Verified)
  BY RegistryAssumption DEF ImportLists
<1>5. stack' \in Seq([of : Modules, left : Seq(Verified)]) /\ Len(stack') = 1
  <2>1. Frame(m, list) \in [of : Modules, left : Seq(Verified)] BY <1>4 DEF Frame
  <2> QED BY <2>1 DEF Begin
<1>6. OnlyVerified'
  BY <1>1, <1>4, <1>5 DEF IInv, OnlyVerified, Begin
<1> QED BY <1>2, <1>3, <1>6 DEF IInv

LEMMA LoadAgainKeeps ==
  ASSUME IInv, LoadAgain
  PROVE  IInv'
<1>1. Verified' = Verified BY DEF LoadAgain, Verified
<1>2. EnvLeads' BY DEF IInv, EnvLeads, LoadAgain
<1>3. CachesLead' BY <1>1 DEF IInv, CachesLead, LoadAgain
<1>4. /\ stack' \in Seq([of : Modules, left : Seq(Verified)])
      /\ Len(stack') = Len(stack)
      /\ \A i \in 1..Len(stack) : stack'[i].of = stack[i].of
  BY DroppedOf DEF IInv, OnlyVerified, LoadAgain
<1>5. \A i \in 2..Len(stack') : stack'[i].of \in Verified
  <2>1. Len(stack) \in Nat BY DEF IInv, OnlyVerified
  <2>2. \A i \in 2..Len(stack) : i \in 1..Len(stack) BY <2>1
  <2> QED BY <2>2, <1>4 DEF IInv, OnlyVerified
<1>6. OnlyVerified'
  BY <1>1, <1>4, <1>5 DEF IInv, OnlyVerified, LoadAgain
<1> QED BY <1>2, <1>3, <1>6 DEF IInv

\* A cache read: it is of a verified module, and so are those it imports.
LEMMA LoadCacheKeeps ==
  ASSUME IInv, LoadCache
  PROVE  IInv'
<1> DEFINE F == [of : Modules, left : Seq(Verified)]
           n == Head(Top.left)  e == Frame(n, caches[n].imports)
<1>1. Verified' = Verified BY DEF LoadCache, Verified
<1>2. EnvLeads' BY DEF IInv, EnvLeads, LoadCache
<1>3. CachesLead' BY <1>1 DEF IInv, CachesLead, LoadCache
<1>4. /\ Dropped \in Seq(F) /\ Len(Dropped) = Len(stack)
      /\ \A i \in 1..Len(stack) : Dropped[i].of = stack[i].of
      /\ n \in Verified
  BY DroppedOf DEF IInv, OnlyVerified, LoadCache
<1>5. e \in F /\ e.of = n
  BY <1>4 DEF IInv, CachesLead, Frame, Verified
<1>6. Len(stack) \in Nat BY DEF IInv, OnlyVerified
<1>7. stack' = Append(Dropped, e)
  BY DEF LoadCache
<1> HIDE DEF F, e, n
<1>8. /\ stack' \in Seq(F) /\ Len(stack') = Len(stack) + 1
      /\ stack'[Len(stack) + 1] = e
      /\ \A i \in 1..Len(stack) : stack'[i] = Dropped[i]
  BY <1>4, <1>5, <1>7, AppendOf
<1>9. \A i \in 2..Len(stack') : stack'[i].of \in Verified
  <2>1. ASSUME NEW i \in 2..Len(stack') PROVE stack'[i].of \in Verified
    <3>1. CASE i = Len(stack) + 1 BY <3>1, <1>4, <1>5, <1>8
    <3>2. CASE i # Len(stack) + 1
      <4>1. i \in 2..Len(stack) /\ i \in 1..Len(stack) BY <3>2, <1>6, <1>8
      <4> QED BY <4>1, <1>4, <1>8 DEF IInv, OnlyVerified
    <3> QED BY <3>1, <3>2
  <2> QED BY <2>1
<1>10. OnlyVerified'
  BY <1>1, <1>8, <1>9 DEF IInv, OnlyVerified, LoadCache, F
<1> QED BY <1>2, <1>3, <1>10 DEF IInv

\* A cache merged: its chains overwrite those under the same types, and lead too.
LEMMA RegisterKeeps ==
  ASSUME IInv, Register
  PROVE  IInv'
<1> DEFINE F == [of : Modules, left : Seq(Verified)]
<1>1. Verified' = Verified BY DEF Register, Verified
<1>2. stack \in Seq(F) /\ stack # <<>> /\ Len(stack) \in Nat /\ Len(stack) > 1
  BY DEF IInv, OnlyVerified, Register
<1>3. Top.of \in Verified
  <2>1. Len(stack) \in 2..Len(stack) BY <1>2
  <2> QED BY <2>1 DEF IInv, OnlyVerified, Top
<1>4. Led(caches[Top.of].delta.coercions) /\ Led(env.coercions)
  BY <1>3 DEF IInv, CachesLead, EnvLeads
<1>5. /\ env'.coercions = Over(caches[Top.of].delta.coercions, env.coercions)
      /\ "coercions" \in DOMAIN env'
  BY DEF Register, Loaded
<1>6. EnvLeads' BY <1>4, <1>5, OverLeads DEF EnvLeads
<1>7. CachesLead' BY <1>1 DEF IInv, CachesLead, Register
<1>8. /\ stack' \in Seq(F) /\ Len(stack') = Len(stack) - 1
      /\ \A i \in 1..(Len(stack) - 1) : stack'[i] = stack[i]
  BY <1>2, RestOf DEF Register, Rest
<1>9. \A i \in 2..Len(stack') : stack'[i].of \in Verified
  <2>1. ASSUME NEW i \in 2..Len(stack') PROVE stack'[i].of \in Verified
    <3>1. i \in 1..(Len(stack) - 1) /\ i \in 2..Len(stack) BY <1>2, <1>8
    <3> QED BY <3>1, <1>8 DEF IInv, OnlyVerified
  <2> QED BY <2>1
<1>10. OnlyVerified'
  BY <1>1, <1>8, <1>9 DEF IInv, OnlyVerified, Register
<1> QED BY <1>6, <1>7, <1>10 DEF IInv

LEMMA StartStatementsKeeps ==
  ASSUME IInv, StartStatements
  PROVE  IInv'
<1>1. Verified' = Verified BY DEF StartStatements, Verified
<1>2. EnvLeads' BY DEF IInv, EnvLeads, StartStatements
<1>3. CachesLead' BY <1>1 DEF IInv, CachesLead, StartStatements
<1>4. stack' = <<>> BY DEF StartStatements
<1>5. OnlyVerified'
  BY <1>1, <1>4, EmptySeq DEF IInv, OnlyVerified, StartStatements
<1> QED BY <1>2, <1>3, <1>5 DEF IInv

\* A statement elaborated: only a coercion touches the chains, and only with
\* chains that lead.
LEMMA StatementKeeps ==
  ASSUME IInv, running # NoModule, NEW s \in Text[running], Statement(s)
  PROVE  IInv'
<1>1. Verified' = Verified BY DEF Statement, Verified
<1>2. s \in Statements
  BY RegistryAssumption DEF IInv, OnlyVerified
<1>3. EnvLeads'
  <2>1. CASE s.kind = "coercion"
    <3>1. s.from \in Types /\ s.to \in Types /\ s.name \in Names
      BY <1>2, <2>1 DEF Statements
    <3>2. s.from # s.to /\ <<s.from, s.to>> \in Heads[s.name]
      BY <2>1 DEF Statement, Fits, CoercionFits
    <3>3. Led(Extended(env.coercions, s))
      BY <3>1, <3>2, ExtendedLeads DEF IInv, EnvLeads
    <3>4. env' = [env EXCEPT !.coercions = Over(Extended(@, s), @)]
      BY <2>1 DEF Statement, With
    <3>5. /\ env'.coercions = Over(Extended(env.coercions, s), env.coercions)
          /\ "coercions" \in DOMAIN env'
      BY <3>4 DEF IInv, EnvLeads
    <3> QED BY <3>3, <3>5, OverLeads DEF IInv, EnvLeads
  <2>2. CASE s.kind # "coercion"
    <3>1. env'.coercions = env.coercions /\ "coercions" \in DOMAIN env'
      <4>1. \/ env' = [env EXCEPT !.operators = Put(@, s.on, s.name)]
            \/ env' = [env EXCEPT !.folds = Put(@, s.on, s.name)]
            \/ env' = [env EXCEPT !.overloads = Listed(@, s.alias, s.name)]
            \/ env' = WithInstance(s.name)
        BY <2>2, <1>2 DEF Statement, With, Statements
      <4>2. \/ WithInstance(s.name) = [env EXCEPT !.bundles = Put(@, KeyOf[s.name], s.name)]
            \/ WithInstance(s.name) = [env EXCEPT !.instances = Put(@, KeyOf[s.name], s.name)]
            \/ WithInstance(s.name) = [env EXCEPT !.forgetful = Listed(@, KeyOf[s.name][1], s.name)]
        BY DEF WithInstance
      <4> QED BY <4>1, <4>2 DEF IInv, EnvLeads
    <3> QED BY <3>1 DEF IInv, EnvLeads
  <2> QED BY <2>1, <2>2
<1>4. CachesLead' BY <1>1 DEF IInv, CachesLead, Statement
<1>5. OnlyVerified' BY <1>1 DEF IInv, OnlyVerified, Statement
<1> QED BY <1>3, <1>4, <1>5 DEF IInv

\* A process that ends leaves empty registries to the next.
LEMMA EndedEmpty ==
  ASSUME ProcessEnds
  PROVE  /\ EnvLeads'
         /\ imports' = <<>> /\ stack' = <<>> /\ running' = NoModule
<1>1. Led(Empty) BY DEF Led, Empty
<1>2. env'.coercions = Empty /\ "coercions" \in DOMAIN env'
  BY DEF ProcessEnds, NoRegistries
<1>3. EnvLeads' BY <1>1, <1>2 DEF EnvLeads
<1> QED BY <1>3 DEF ProcessEnds

LEMMA RefuseKeeps ==
  ASSUME IInv, NEW s, Refuse(s)
  PROVE  IInv'
<1>1. ProcessEnds /\ caches' = caches BY DEF Refuse
<1>2. Verified' = Verified BY <1>1 DEF Verified
<1>3. CachesLead' BY <1>1, <1>2 DEF IInv, CachesLead
<1>4. OnlyVerified' BY <1>1, <1>2, EndedEmpty, EmptySeq DEF IInv, OnlyVerified
<1> QED BY <1>1, <1>3, <1>4, EndedEmpty DEF IInv

\* A cache written: what it records is part of registries that lead.
LEMMA WriteCacheKeeps ==
  ASSUME IInv, WriteCache
  PROVE  IInv'
<1> DEFINE cache == [imports |-> imports, delta |-> Delta(env, before)]
<1>1. ProcessEnds /\ caches' = [caches EXCEPT ![running] = cache] /\ DOMAIN caches = Modules
  BY DEF WriteCache, IInv, OnlyVerified
<1>2. running \in Modules \ Verified
  BY DEF WriteCache, AtStatements, IInv, OnlyVerified
<1>3. /\ Verified \subseteq Verified' /\ Verified' \subseteq Verified \cup {running}
      /\ \A m \in Verified : caches'[m] = caches[m]
      /\ caches'[running] = cache
  BY <1>1, <1>2 DEF Verified
<1>4. Led(Delta(env, before).coercions)
  BY WithoutLeads DEF Delta, IInv, EnvLeads
<1>5. cache.imports \in Seq(Verified) /\ Led(cache.delta.coercions)
  BY <1>4 DEF IInv, OnlyVerified
<1> HIDE DEF cache
<1>6. CachesLead'
  <2>1. SUFFICES ASSUME NEW m \in Verified'
                 PROVE  caches'[m].imports \in Seq(Verified') /\ Led(caches'[m].delta.coercions)
    BY DEF CachesLead
  <2>2. caches'[m].imports \in Seq(Verified) /\ Led(caches'[m].delta.coercions)
    BY <1>3, <1>5 DEF IInv, CachesLead
  <2> QED BY <2>2, <1>3
<1>7. OnlyVerified'
  BY <1>1, EndedEmpty, EmptySeq DEF OnlyVerified
<1> QED BY <1>1, <1>6, <1>7, EndedEmpty DEF IInv

LEMMA IInvStep == IInv /\ [Next]_vars => IInv'
<1> SUFFICES ASSUME IInv, [Next]_vars PROVE IInv'
  OBVIOUS
<1>1. CASE \E m \in Modules, list \in ImportLists : Begin(m, list)
  BY <1>1, BeginKeeps
<1>2. CASE LoadAgain BY <1>2, LoadAgainKeeps
<1>3. CASE LoadCache BY <1>3, LoadCacheKeeps
<1>4. CASE Register BY <1>4, RegisterKeeps
<1>5. CASE StartStatements BY <1>5, StartStatementsKeeps
<1>6. CASE running # NoModule /\ \E s \in Text[running] : Statement(s) \/ Refuse(s)
  BY <1>6, StatementKeeps, RefuseKeeps
<1>7. CASE WriteCache BY <1>7, WriteCacheKeeps
<1>8. CASE UNCHANGED vars
  BY <1>8 DEF vars, process, IInv, EnvLeads, CachesLead, OnlyVerified, Verified
<1> QED BY <1>1, <1>2, <1>3, <1>4, <1>5, <1>6, <1>7, <1>8 DEF Next

\* The chain found under two types leads from the one to the other, in every
\* process, whatever its caches have overwritten.
THEOREM ChainsAlwaysLead == Spec => []ChainsLead
<1>1. IInv => ChainsLead
  BY DEF IInv, EnvLeads, Led, ChainsLead
<1> QED BY <1>1, IInvInit, IInvStep, PTL DEF Spec

\* Only caches of verified modules are loaded, however the imports nest.
THEOREM OnlyVerifiedLoads == Spec => []OnlyVerified
<1>1. IInv => OnlyVerified
  BY DEF IInv
<1> QED BY <1>1, IInvInit, IInvStep, PTL DEF Spec


-----------------------------------------------------------------------------
(* Lists of candidates. *)

\* A set of natural numbers has a least element.
LEMMA LeastOf ==
  ASSUME NEW T \in SUBSET Nat, T # {}
  PROVE  \E n \in T : \A m \in T : n <= m
<1> DEFINE below(n) == {k \in Nat : k < n}
           B == {below(n) : n \in T}
<1>1. \A n \in Nat : below(n) \in FiniteSubsetsOf(Nat)
  <2>1. \A n \in Nat : \A k \in below(n) : k <= n OBVIOUS
  <2> QED BY <2>1, FS_BoundedSetOfNaturals DEF FiniteSubsetsOf
<1>2. B \subseteq FiniteSubsetsOf(Nat) /\ B # {} BY <1>1
<1>3. IsWellFoundedOn(StrictSubsetOrdering(Nat), FiniteSubsetsOf(Nat))
  BY FS_StrictSubsetOrderingWellFounded
<1>4. \E x \in B : \A y \in B : ~ (<<y, x>> \in StrictSubsetOrdering(Nat))
  <2> HIDE DEF B
  <2> QED BY <1>2, <1>3, WFMin
<1>5. PICK n \in T : \A m \in T : ~ (<<below(m), below(n)>> \in StrictSubsetOrdering(Nat))
  BY <1>4
<1>6. ASSUME NEW m \in T PROVE n <= m
  <2>1. SUFFICES ASSUME m < n PROVE FALSE OBVIOUS
  <2>2. below(m) \subseteq below(n) BY <2>1
  <2>3. m \in below(n) /\ m \notin below(m) BY <2>1
  <2>4. below(m) \in SUBSET Nat /\ below(n) \in SUBSET Nat OBVIOUS
  <2> HIDE DEF below
  <2> QED BY <2>2, <2>3, <2>4, <1>5 DEF StrictSubsetOrdering
<1> QED BY <1>6

Has(seen, n) == \E j \in DOMAIN seen : seen[j] = n

\* f[i] holds what the first i of the list leave.
Picks(list, seen, f, n) ==
  f = [i \in 0..n |->
        IF i = 0 THEN <<>>
        ELSE IF Has(seen, list[i]) THEN f[i - 1]
        ELSE Append(f[i - 1], list[i])]

\* A function that takes the list element by element is the one Unseen reads.
LEMMA UnseenPicks ==
  ASSUME NEW list, NEW seen, NEW g, Picks(list, seen, g, Len(list))
  PROVE  \E f : Picks(list, seen, f, Len(list)) /\ Unseen(list, seen) = f[Len(list)]
<1> DEFINE F == CHOOSE f : Picks(list, seen, f, Len(list))
<1>1. Picks(list, seen, F, Len(list)) OBVIOUS
<1>2. Unseen(list, seen) = F[Len(list)]
  BY DEF Unseen, Picks, Has
<1> QED BY <1>1, <1>2

\* There is one.
LEMMA PicksExist ==
  ASSUME NEW S, NEW list \in Seq(S), NEW seen
  PROVE  \E f \in [0..Len(list) -> Seq(S)] : Picks(list, seen, f, Len(list))
<1> DEFINE bad == {n \in Nat : n <= Len(list) /\ ~\E f \in [0..n -> Seq(S)] : Picks(list, seen, f, n)}
<1>1. CASE bad = {}
  <2>1. Len(list) \in Nat OBVIOUS
  <2> QED BY <1>1, <2>1
<1>2. CASE bad # {}
  <2>1. bad \in SUBSET Nat OBVIOUS
  <2>2. PICK n \in bad : \A m \in bad : n <= m
    <3> HIDE DEF bad
    <3> QED BY <1>2, <2>1, LeastOf
  <2>3. CASE n = 0
    <3> DEFINE f == [i \in 0..0 |-> <<>>]
    <3>1. f \in [0..0 -> Seq(S)] OBVIOUS
    <3>2. Picks(list, seen, f, 0) BY DEF Picks
    <3> QED BY <2>2, <2>3, <3>1, <3>2
  <2>4. CASE n # 0
    <3>0. n \in Nat \ {0} /\ n <= Len(list) /\ Len(list) \in Nat
      BY <2>4
    <3>1. n - 1 \in Nat /\ n - 1 <= Len(list) /\ n - 1 \notin bad /\ n \in 1..Len(list)
      <4>1. n - 1 \in Nat /\ n - 1 <= Len(list) /\ n \in 1..Len(list) /\ ~(n <= n - 1)
        BY <3>0
      <4> HIDE DEF bad
      <4> QED BY <4>1, <2>2
    <3>2. PICK f \in [0..(n - 1) -> Seq(S)] : Picks(list, seen, f, n - 1)
      BY <3>1
    <3> DEFINE last == IF Has(seen, list[n]) THEN f[n - 1] ELSE Append(f[n - 1], list[n])
               g == [i \in 0..n |-> IF i = n THEN last ELSE f[i]]
    <3>3. f[n - 1] \in Seq(S) /\ list[n] \in S BY <3>1, <3>2
    <3>4. last \in Seq(S) BY <3>3
    <3> HIDE DEF last
    <3>5. g \in [0..n -> Seq(S)] BY <3>4, <3>1
    <3>6. \A i \in 0..(n - 1) : g[i] = f[i]
      BY <3>1
    <3>7. g[n] = last BY <3>1
    <3>8. Picks(list, seen, g, n)
      <4>1. \A i \in 0..(n - 1) :
              f[i] = IF i = 0 THEN <<>>
                     ELSE IF Has(seen, list[i]) THEN f[i - 1]
                     ELSE Append(f[i - 1], list[i])
        BY <3>2 DEF Picks
      <4>2. ASSUME NEW i \in 0..n
            PROVE  g[i] = IF i = 0 THEN <<>>
                          ELSE IF Has(seen, list[i]) THEN g[i - 1]
                          ELSE Append(g[i - 1], list[i])
        <5>1. CASE i = n
          <6>1. n - 1 \in 0..(n - 1) /\ n # 0 BY <3>1
          <6>2. g[n - 1] = f[n - 1] BY <6>1, <3>6
          <6> HIDE DEF g
          <6> QED BY <5>1, <6>1, <6>2, <3>7 DEF last
        <5>2. CASE i # n
          <6>1. i \in 0..(n - 1) /\ (i # 0 => i - 1 \in 0..(n - 1)) BY <5>2, <3>1
          <6>2. g[i] = f[i] /\ (i # 0 => g[i - 1] = f[i - 1]) BY <6>1, <3>6
          <6> HIDE DEF g
          <6> QED BY <6>1, <6>2, <4>1
        <5> QED BY <5>1, <5>2
      <4>3. g = [i \in 0..n |-> g[i]] OBVIOUS
      <4> HIDE DEF g
      <4> QED BY <4>2, <4>3 DEF Picks
    <3> HIDE DEF g
    <3> QED BY <3>5, <3>8, <2>2
  <2> QED BY <2>3, <2>4
<1> QED BY <1>1, <1>2

\* Two are equal.
LEMMA PicksUnique ==
  ASSUME NEW list, NEW seen, NEW n \in Nat, NEW f, NEW g,
         Picks(list, seen, f, n), Picks(list, seen, g, n)
  PROVE  f[n] = g[n]
<1> DEFINE bad == {i \in Nat : i <= n /\ f[i] # g[i]}
<1>1. SUFFICES bad = {} OBVIOUS
<1>2. SUFFICES ASSUME bad # {} PROVE FALSE OBVIOUS
<1>3. bad \in SUBSET Nat OBVIOUS
<1>4. PICK i \in bad : \A m \in bad : i <= m
  <2> HIDE DEF bad
  <2> QED BY <1>2, <1>3, LeastOf
<1>5. i \in 0..n /\ (i # 0 => i - 1 \notin bad /\ i - 1 \in Nat /\ i - 1 <= n)
  BY <1>4
<1>6. i # 0 => f[i - 1] = g[i - 1] BY <1>5
<1>7. /\ f[i] = IF i = 0 THEN <<>>
                ELSE IF Has(seen, list[i]) THEN f[i - 1] ELSE Append(f[i - 1], list[i])
      /\ g[i] = IF i = 0 THEN <<>>
                ELSE IF Has(seen, list[i]) THEN g[i - 1] ELSE Append(g[i - 1], list[i])
  BY <1>5 DEF Picks
<1>8. f[i] = g[i] BY <1>6, <1>7
<1> QED BY <1>4, <1>8

\* What Unseen returns is of the list's elements.
LEMMA UnseenType ==
  ASSUME NEW S, NEW list \in Seq(S), NEW seen
  PROVE  Unseen(list, seen) \in Seq(S)
<1>1. PICK g \in [0..Len(list) -> Seq(S)] : Picks(list, seen, g, Len(list))
  BY PicksExist
<1>2. PICK f : Picks(list, seen, f, Len(list)) /\ Unseen(list, seen) = f[Len(list)]
  BY <1>1, UnseenPicks
<1>3. Len(list) \in Nat /\ Len(list) \in 0..Len(list) OBVIOUS
<1>4. f[Len(list)] = g[Len(list)]
  BY <1>1, <1>2, <1>3, PicksUnique
<1>5. g[Len(list)] \in Seq(S) BY <1>1, <1>3
<1> QED BY <1>2, <1>4, <1>5

\* When those seen come first and the others after them, the others are left.
LEMMA UnseenOf ==
  ASSUME NEW S, NEW known \in Seq(S), NEW new \in Seq(S), NEW seen,
         \A i \in 1..Len(known) : Has(seen, known[i]),
         \A i \in 1..Len(new) : ~Has(seen, new[i])
  PROVE  Unseen(known \o new, seen) = new
<1> DEFINE list == known \o new  p == Len(known)  n == Len(list)
           g == [i \in 0..n |-> SubSeq(list, p + 1, i)]
<1>1. /\ list \in Seq(S) /\ p \in Nat /\ n = p + Len(new) /\ Len(new) \in Nat
      /\ \A i \in 1..n : list[i] = IF i <= p THEN known[i] ELSE new[i - p]
  BY ConcatProperties
<1>2. SubSeq(list, p + 1, n) = new
  <2>1. \A i \in (p + 1)..n : list[i] \in S BY <1>1
  <2> HIDE DEF list
  <2>2. /\ SubSeq(list, p + 1, n) \in Seq(S)
        /\ Len(SubSeq(list, p + 1, n)) = IF p + 1 <= n THEN n - (p + 1) + 1 ELSE 0
        /\ \A i \in 1..(n - (p + 1) + 1) : SubSeq(list, p + 1, n)[i] = list[p + 1 + i - 1]
    <3>1. p + 1 \in Int /\ n \in Int BY <1>1
    <3> HIDE DEF p, n
    <3> QED BY <2>1, <3>1, SubSeqProperties
  <2>3. Len(SubSeq(list, p + 1, n)) = Len(new)
    <3> HIDE DEF p, n
    <3> QED BY <1>1, <2>2
  <2>4. ASSUME NEW i \in 1..Len(new) PROVE SubSeq(list, p + 1, n)[i] = new[i]
    <3> HIDE DEF p, n
    <3>1. i \in 1..(n - (p + 1) + 1) /\ p + 1 + i - 1 = p + i /\ p + i \in 1..n /\ ~(p + i <= p)
          /\ (p + i) - p = i
      BY <1>1
    <3> QED BY <3>1, <2>2, <1>1
  <2> QED BY <2>2, <2>3, <2>4, SeqEqual
<1> HIDE DEF list
<1>3. Picks(list, seen, g, n)
  <2> HIDE DEF p, n
  <2>1. ASSUME NEW i \in 0..n
        PROVE  SubSeq(list, p + 1, i) =
                 IF i = 0 THEN <<>>
                 ELSE IF Has(seen, list[i]) THEN SubSeq(list, p + 1, i - 1)
                 ELSE Append(SubSeq(list, p + 1, i - 1), list[i])
    <3>1. CASE i <= p
      <4>1. /\ p + 1 \in Int /\ i \in Int /\ i - 1 \in Int /\ i < p + 1 /\ i - 1 < p + 1
            /\ (i # 0 => i \in 1..n /\ i \in 1..p)
        BY <3>1, <1>1
      <4>2. SubSeq(list, p + 1, i) = <<>> /\ SubSeq(list, p + 1, i - 1) = <<>>
        BY <4>1, SubSeqEmpty
      <4>3. i # 0 => Has(seen, list[i]) BY <3>1, <4>1, <1>1 DEF p
      <4> QED BY <4>2, <4>3
    <3>2. CASE i > p
      <4>1. i \in 1..n /\ i # 0 /\ i - p \in 1..Len(new) /\ ~(i <= p) /\ i \in (p + 1)..n /\ p + 1 \in 1..n
        BY <3>2, <1>1
      <4>2. ~Has(seen, list[i]) BY <4>1, <1>1
      <4>3. SubSeq(list, p + 1, i) = SubSeq(list, p + 1, i - 1) \o <<list[i]>>
        <5>1. p + 1 \in 1..Len(list) /\ i \in (p + 1)..Len(list) BY <4>1 DEF n
        <5> QED BY <5>1, <1>1, SubSeqRecursiveSecond
      <4>4. SubSeq(list, p + 1, i - 1) \in Seq(S)
        <5>1. p + 1 \in Int /\ i - 1 \in Int BY <4>1, <1>1
        <5>2. \A j \in (p + 1)..(i - 1) : list[j] \in S
          <6>1. \A j \in (p + 1)..(i - 1) : j \in 1..Len(list) BY <4>1, <1>1 DEF n
          <6> QED BY <6>1, <1>1
        <5> QED BY <5>1, <5>2, SubSeqProperties
      <4>5. list[i] \in S BY <4>1, <1>1 DEF n
      <4>6. Append(SubSeq(list, p + 1, i - 1), list[i]) = SubSeq(list, p + 1, i - 1) \o <<list[i]>>
        BY <4>4, <4>5, AppendIsConcat
      <4> QED BY <4>1, <4>2, <4>3, <4>6
    <3> QED BY <3>1, <3>2, <1>1
  <2>2. \A i \in 0..n : g[i] = SubSeq(list, p + 1, i) /\ (i # 0 => g[i - 1] = SubSeq(list, p + 1, i - 1))
    BY <1>1
  <2>3. g = [i \in 0..n |-> g[i]] OBVIOUS
  <2> HIDE DEF g
  <2> QED BY <2>1, <2>2, <2>3 DEF Picks
<1>4. g[n] = new
  <2>1. n \in 0..n BY <1>1
  <2> QED BY <2>1, <1>2
<1> HIDE DEF g, p
<1>5. PICK f : Picks(list, seen, f, n) /\ Unseen(list, seen) = f[n]
  BY <1>3, UnseenPicks
<1>6. n \in Nat BY <1>1
<1>7. f[n] = g[n]
  <2> HIDE DEF n
  <2> QED BY <1>3, <1>5, <1>6, PicksUnique
<1> QED BY <1>4, <1>5, <1>7 DEF list
-----------------------------------------------------------------------------
(* A cache records the difference: laid over the snapshot it gives the        *)
(* registries back.                                                         *)

Entries(f) == f = [k \in DOMAIN f |-> f[k]]
Lists(f)   == Entries(f) /\ \A k \in DOMAIN f : f[k] \in Seq(Names)

WellFormed(e) ==
  /\ e = [coercions |-> e.coercions, operators |-> e.operators, folds |-> e.folds,
          instances |-> e.instances, bundles |-> e.bundles,
          forgetful |-> e.forgetful, overloads |-> e.overloads]
  /\ Entries(e.coercions) /\ Entries(e.operators) /\ Entries(e.folds)
  /\ Entries(e.instances) /\ Entries(e.bundles)
  /\ Lists(e.forgetful) /\ Lists(e.overloads)

\* f has the entries of g, and others.
Grown(f, g) == DOMAIN g \subseteq DOMAIN f /\ \A k \in DOMAIN g : f[k] = g[k]

\* f has the lists of g, longer by what they did not have, and others.
Appended(f, g) ==
  /\ DOMAIN g \subseteq DOMAIN f
  /\ \A k \in DOMAIN f :
       /\ k \notin DOMAIN g => f[k] # <<>>
       /\ \E new \in Seq(Names) :
            /\ f[k] = At(g, k) \o new
            /\ \A i \in 1..Len(new) : ~Has(At(g, k), new[i])

\* What statements make of the registries a process has loaded.
GrewFrom(e, b) ==
  /\ Grown(e.coercions, b.coercions) /\ Grown(e.operators, b.operators)
  /\ Grown(e.folds, b.folds) /\ Grown(e.instances, b.instances)
  /\ Grown(e.bundles, b.bundles)
  /\ Appended(e.forgetful, b.forgetful) /\ Appended(e.overloads, b.overloads)

LEMMA OverRestores ==
  ASSUME NEW f, NEW g, Entries(f), Grown(f, g)
  PROVE  Over(Without(f, DOMAIN g), g) = f
BY DEF Over, Without, Grown, Entries

\* A list there already is a sequence, also under a key that has none.
LEMMA AtType ==
  ASSUME NEW f, Lists(f), NEW k
  PROVE  At(f, k) \in Seq(Names)
BY EmptySeq DEF At, Lists

\* Every element of a list is among its elements.
LEMMA HasOwn ==
  ASSUME NEW list \in Seq(Names)
  PROVE  \A i \in 1..Len(list) : Has(list, list[i])
BY LenProperties DEF Has

LEMMA RemainingRestores ==
  ASSUME NEW f, NEW g, Lists(f), Lists(g), Appended(f, g)
  PROVE  Chained(g, Remaining(f, g)) = f /\ Joined(g, Remaining(f, g)) = f
<1> DEFINE rest(k) == Unseen(f[k], At(g, k))
           r == Remaining(f, g)
<1>1. ASSUME NEW k \in DOMAIN f
      PROVE  /\ rest(k) \in Seq(Names) /\ f[k] = At(g, k) \o rest(k)
             /\ Unseen(rest(k), At(g, k)) = rest(k)
             /\ k \notin DOMAIN g => rest(k) # <<>>
  <2>1. PICK new \in Seq(Names) :
          /\ f[k] = At(g, k) \o new
          /\ \A i \in 1..Len(new) : ~Has(At(g, k), new[i])
    BY DEF Appended
  <2>2. At(g, k) \in Seq(Names) BY AtType
  <2>3. Unseen(f[k], At(g, k)) = new
    BY <2>1, <2>2, HasOwn, UnseenOf
  <2>4. Unseen(new, At(g, k)) = new
    <3>1. <<>> \in Seq(Names) /\ Len(<<>>) = 0 /\ <<>> \o new = new
      BY EmptySeq, ConcatEmptySeq
    <3>2. \A i \in 1..Len(<<>>) : Has(At(g, k), <<>>[i]) BY <3>1
    <3>3. Unseen(<<>> \o new, At(g, k)) = new
      BY <2>1, <3>1, <3>2, UnseenOf
    <3> QED BY <3>1, <3>3
  <2>5. k \notin DOMAIN g => new # <<>>
    <3>1. SUFFICES ASSUME k \notin DOMAIN g, new = <<>> PROVE FALSE OBVIOUS
    <3>2. At(g, k) = <<>> BY <3>1 DEF At
    <3>3. f[k] = <<>> BY <2>1, <3>1, <3>2, EmptySeq, ConcatEmptySeq
    <3> QED BY <3>1, <3>3 DEF Appended
  <2> QED BY <2>1, <2>3, <2>4, <2>5
<1>2. /\ DOMAIN r = {k \in DOMAIN f : rest(k) # <<>>}
      /\ \A k \in DOMAIN r : r[k] = rest(k)
  BY DEF Remaining
<1> HIDE DEF rest, r
<1>3. DOMAIN g \cup DOMAIN r = DOMAIN f
  BY <1>1, <1>2 DEF Appended
<1>4. \A k \in DOMAIN f : At(r, k) = rest(k)
  BY <1>2 DEF At
<1>5. f = [k \in DOMAIN f |-> f[k]] BY DEF Lists, Entries
<1>6. Chained(g, r) = f
  BY <1>1, <1>3, <1>4, <1>5 DEF Chained
<1>7. Joined(g, r) = f
  BY <1>1, <1>3, <1>4, <1>5 DEF Joined
<1> QED BY <1>6, <1>7 DEF r

LEMMA DeltaRestores ==
  ASSUME NEW e, NEW b, WellFormed(e), WellFormed(b), GrewFrom(e, b)
  PROVE  Loaded(b, Delta(e, b)) = e
<1>1. /\ Over(Without(e.coercions, DOMAIN b.coercions), b.coercions) = e.coercions
      /\ Over(Without(e.operators, DOMAIN b.operators), b.operators) = e.operators
      /\ Over(Without(e.folds, DOMAIN b.folds), b.folds) = e.folds
      /\ Over(Without(e.instances, DOMAIN b.instances), b.instances) = e.instances
      /\ Over(Without(e.bundles, DOMAIN b.bundles), b.bundles) = e.bundles
  BY OverRestores DEF WellFormed, GrewFrom
<1>2. /\ Chained(b.forgetful, Remaining(e.forgetful, b.forgetful)) = e.forgetful
      /\ Joined(b.overloads, Remaining(e.overloads, b.overloads)) = e.overloads
  BY RemainingRestores DEF WellFormed, GrewFrom
<1>3. e = [coercions |-> e.coercions, operators |-> e.operators, folds |-> e.folds,
           instances |-> e.instances, bundles |-> e.bundles,
           forgetful |-> e.forgetful, overloads |-> e.overloads]
  BY DEF WellFormed
<1> QED BY <1>1, <1>2, <1>3 DEF Loaded, Delta

LEMMA EmptyWellFormed == WellFormed(NoRegistries)
<1>1. Entries(Empty) /\ Lists(Empty)
  BY DEF Empty, Entries, Lists
<1> QED BY <1>1 DEF WellFormed, NoRegistries

LEMMA GrewFromItself ==
  ASSUME NEW e, WellFormed(e)
  PROVE  GrewFrom(e, e)
<1>1. ASSUME NEW f, Lists(f) PROVE Appended(f, f)
  <2>1. ASSUME NEW k \in DOMAIN f
        PROVE  \E new \in Seq(Names) :
                 f[k] = At(f, k) \o new /\ \A i \in 1..Len(new) : ~Has(At(f, k), new[i])
    <3>1. <<>> \in Seq(Names) /\ Len(<<>>) = 0 /\ f[k] \in Seq(Names)
      BY <1>1, EmptySeq DEF Lists
    <3>2. f[k] = At(f, k) \o <<>> BY <3>1, ConcatEmptySeq DEF At
    <3>3. \A i \in 1..Len(<<>>) : ~Has(At(f, k), <<>>[i]) BY <3>1
    <3> WITNESS <<>> \in Seq(Names)
    <3> QED BY <3>2, <3>3
  <2> QED BY <2>1 DEF Appended
<1>2. \A f : Grown(f, f) BY DEF Grown
<1> QED BY <1>1, <1>2 DEF GrewFrom, WellFormed

\* What a cache records under an alias or a structure is a list again.
LEMMA RemainingType ==
  ASSUME NEW f, NEW g, Lists(f)
  PROVE  Lists(Remaining(f, g))
<1> DEFINE rest(k) == Unseen(f[k], At(g, k))
<1>1. \A k \in DOMAIN f : rest(k) \in Seq(Names)
  BY UnseenType DEF Lists
<1>2. Remaining(f, g) = [k \in {j \in DOMAIN f : rest(j) # <<>>} |-> rest(k)]
  BY DEF Remaining
<1> HIDE DEF rest
<1> QED BY <1>1, <1>2 DEF Lists, Entries

LEMMA LoadedWellFormed ==
  ASSUME NEW e, NEW d, WellFormed(e), Lists(d.forgetful), Lists(d.overloads)
  PROVE  WellFormed(Loaded(e, d))
<1>1. \A f, g : Entries(Over(f, g)) BY DEF Over, Entries
<1>2. ASSUME NEW f, NEW g, Lists(f), Lists(g)
      PROVE  Lists(Chained(f, g)) /\ Lists(Joined(f, g))
  <2>1. \A k : At(f, k) \in Seq(Names) /\ At(g, k) \in Seq(Names) BY <1>2, AtType
  <2>2. \A k : Unseen(At(g, k), At(f, k)) \in Seq(Names) BY <2>1, UnseenType
  <2>3. \A k : At(f, k) \o At(g, k) \in Seq(Names) BY <2>1, ConcatProperties
  <2>4. \A k : At(f, k) \o Unseen(At(g, k), At(f, k)) \in Seq(Names)
    BY <2>1, <2>2, ConcatProperties
  <2>5. Lists(Chained(f, g)) BY <2>3 DEF Chained, Lists, Entries
  <2>6. Lists(Joined(f, g)) BY <2>4 DEF Joined, Lists, Entries
  <2> QED BY <2>5, <2>6
<1> QED BY <1>1, <1>2 DEF WellFormed, Loaded

-----------------------------------------------------------------------------
(* Statements. *)

LEMMA PutGrows ==
  ASSUME NEW f, NEW g, Entries(f), Grown(f, g), NEW k, NEW n, Free(f, k, n)
  PROVE  Entries(Put(f, k, n)) /\ Grown(Put(f, k, n), g)
BY DEF Put, Over, Free, Grown, Entries

LEMMA ListedAppends ==
  ASSUME NEW f, NEW g, Lists(f), Lists(g), Appended(f, g), NEW key, NEW n \in Names
  PROVE  Lists(Listed(f, key, n)) /\ Appended(Listed(f, key, n), g)
<1> DEFINE old == At(f, key)  more == Unseen(<<n>>, old)  h == Listed(f, key, n)
<1>1. old \in Seq(Names) /\ <<n>> \in Seq(Names) /\ Len(<<n>>) = 1 /\ <<n>>[1] = n
  BY AtType
<1>2. <<>> \in Seq(Names) /\ Len(<<>>) = 0 /\ <<>> \o <<n>> = <<n>> /\ <<n>> \o <<>> = <<n>>
  BY <1>1, EmptySeq, ConcatEmptySeq
<1>3. more = IF Has(old, n) THEN <<>> ELSE <<n>>
  <2>1. CASE Has(old, n)
    <3>1. \A i \in 1..Len(<<n>>) : Has(old, <<n>>[i]) BY <2>1, <1>1
    <3>2. \A i \in 1..Len(<<>>) : ~Has(old, <<>>[i]) BY <1>2
    <3>3. Unseen(<<n>> \o <<>>, old) = <<>> BY <3>1, <3>2, <1>1, <1>2, UnseenOf
    <3> QED BY <2>1, <3>3, <1>2
  <2>2. CASE ~Has(old, n)
    <3>1. \A i \in 1..Len(<<n>>) : ~Has(old, <<n>>[i]) BY <2>2, <1>1
    <3>2. \A i \in 1..Len(<<>>) : Has(old, <<>>[i]) BY <1>2
    <3>3. Unseen(<<>> \o <<n>>, old) = <<n>> BY <3>1, <3>2, <1>1, <1>2, UnseenOf
    <3> QED BY <2>2, <3>3, <1>2
  <2> QED BY <2>1, <2>2
<1>4. /\ DOMAIN h = DOMAIN f \cup {key} /\ h[key] = old \o more /\ Entries(h)
      /\ \A k \in DOMAIN f : k # key => h[k] = f[k]
  BY DEF Listed, Over, Entries
<1> HIDE DEF more, h
<1>5. more \in Seq(Names) /\ old \o more \in Seq(Names)
  BY <1>1, <1>2, <1>3, ConcatProperties
<1>6. Lists(h)
  BY <1>4, <1>5 DEF Lists
<1>7. h[key] # <<>>
  <2>1. CASE Has(old, n)
    <3>1. old # <<>> BY <2>1 DEF Has
    <3> QED BY <3>1, <1>1, <1>4, <1>5, ConcatEqualIffEmpty
  <2>2. CASE ~Has(old, n)
    <3>1. more # <<>> BY <2>2, <1>1, <1>2, <1>3
    <3> QED BY <3>1, <1>1, <1>4, <1>5, ConcatEqualIffEmpty
  <2> QED BY <2>1, <2>2
<1>8. \E new \in Seq(Names) :
        /\ h[key] = At(g, key) \o new
        /\ \A i \in 1..Len(new) : ~Has(At(g, key), new[i])
  <2>1. At(g, key) \in Seq(Names) BY AtType
  <2>2. PICK new \in Seq(Names) :
          /\ old = At(g, key) \o new
          /\ \A i \in 1..Len(new) : ~Has(At(g, key), new[i])
    <3>1. CASE key \in DOMAIN f BY <3>1 DEF Appended, At
    <3>2. CASE key \notin DOMAIN f
      <4>1. At(g, key) = <<>> /\ old = <<>> BY <3>2 DEF Appended, At
      <4>2. old = At(g, key) \o <<>> BY <4>1, <1>2, ConcatEmptySeq
      <4>3. \A i \in 1..Len(<<>>) : ~Has(At(g, key), <<>>[i]) BY <1>2
      <4>4. <<>> \in Seq(Names) BY <1>2
      <4> HIDE DEF old
      <4> WITNESS <<>> \in Seq(Names)
      <4> QED BY <4>2, <4>3
    <3> QED BY <3>1, <3>2
  <2>3. new \o more \in Seq(Names) /\ h[key] = At(g, key) \o (new \o more)
    <3>1. (At(g, key) \o new) \o more = At(g, key) \o (new \o more)
      BY <2>1, <1>5, ConcatAssociative
    <3> QED BY <3>1, <2>2, <1>4, <1>5, ConcatProperties
  <2>4. ASSUME NEW i \in 1..Len(new \o more) PROVE ~Has(At(g, key), (new \o more)[i])
    <3>1. /\ Len(new \o more) = Len(new) + Len(more) /\ Len(new) \in Nat /\ Len(more) \in Nat
          /\ (new \o more)[i] = IF i <= Len(new) THEN new[i] ELSE more[i - Len(new)]
      BY <1>5, ConcatProperties
    <3>2. CASE i <= Len(new)
      <4>1. i \in 1..Len(new) BY <3>1, <3>2
      <4> QED BY <4>1, <3>1, <3>2, <2>2
    <3>3. CASE ~(i <= Len(new))
      <4>1. i - Len(new) \in 1..Len(more) BY <3>1, <3>3
      <4>2. more = <<n>> /\ ~Has(old, n) BY <4>1, <1>1, <1>2, <1>3
      <4>3. i - Len(new) = 1 BY <4>1, <4>2, <1>1
      <4>4. (new \o more)[i] = n BY <4>2, <4>3, <3>1, <3>3, <1>1
      <4>5. ~Has(At(g, key), n)
        <5>1. SUFFICES ASSUME NEW j \in DOMAIN At(g, key), At(g, key)[j] = n PROVE Has(old, n)
          BY <4>2 DEF Has
        <5>2. j \in 1..Len(At(g, key)) BY <2>1, LenProperties
        <5>3. /\ Len(At(g, key)) \in Nat /\ Len(old) = Len(At(g, key)) + Len(new) /\ Len(new) \in Nat
              /\ \A l \in 1..Len(At(g, key)) + Len(new) :
                   old[l] = IF l <= Len(At(g, key)) THEN At(g, key)[l] ELSE new[l - Len(At(g, key))]
          BY <2>1, <2>2, ConcatProperties, LenProperties
        <5>4. j \in 1..Len(old) /\ old[j] = n BY <5>1, <5>2, <5>3
        <5>5. j \in DOMAIN old BY <5>4, <1>1, LenProperties
        <5> QED BY <5>4, <5>5 DEF Has
      <4> QED BY <4>4, <4>5
    <3> QED BY <3>2, <3>3
  <2> QED BY <2>3, <2>4
<1>9. Appended(h, g)
  <2>1. DOMAIN g \subseteq DOMAIN h BY <1>4 DEF Appended
  <2>2. ASSUME NEW k \in DOMAIN h
        PROVE  /\ k \notin DOMAIN g => h[k] # <<>>
               /\ \E new \in Seq(Names) :
                    /\ h[k] = At(g, k) \o new
                    /\ \A i \in 1..Len(new) : ~Has(At(g, k), new[i])
    <3>1. CASE k = key BY <3>1, <1>7, <1>8
    <3>2. CASE k # key
      <4>1. k \in DOMAIN f /\ h[k] = f[k] BY <3>2, <1>4
      <4> QED BY <4>1 DEF Appended
    <3> QED BY <3>1, <3>2
  <2> QED BY <2>1, <2>2 DEF Appended
<1> QED BY <1>6, <1>9 DEF h

\* A statement that is accepted overwrites nothing.
LEMMA WithGrows ==
  ASSUME WellFormed(env), NEW b, WellFormed(b), GrewFrom(env, b),
         NEW s \in Statements, Fits(s)
  PROVE  WellFormed(With(s)) /\ GrewFrom(With(s), b)
<1>0. s.name \in Names BY DEF Statements
<1> DEFINE fields(e) ==
      e = [coercions |-> e.coercions, operators |-> e.operators, folds |-> e.folds,
           instances |-> e.instances, bundles |-> e.bundles,
           forgetful |-> e.forgetful, overloads |-> e.overloads]
<1>1. fields(env) BY DEF WellFormed
<1>2. CASE s.kind = "coercion"
  <2> DEFINE c == Over(Extended(env.coercions, s), env.coercions)
  <2>1. ~Diamond(env.coercions, Extended(env.coercions, s))
    BY <1>2 DEF Fits, CoercionFits
  <2>2. Entries(c) /\ Grown(c, b.coercions)
    <3>1. Entries(c) BY DEF Over, Entries
    <3>2. Grown(c, env.coercions) BY <2>1 DEF Over, Grown, Diamond
    <3> HIDE DEF c
    <3> QED BY <3>1, <3>2 DEF GrewFrom, Grown
  <2>3. With(s) = [env EXCEPT !.coercions = c] BY <1>2 DEF With
  <2> HIDE DEF c
  <2>4. With(s) = [coercions |-> c, operators |-> env.operators, folds |-> env.folds,
           instances |-> env.instances, bundles |-> env.bundles,
           forgetful |-> env.forgetful, overloads |-> env.overloads]
    BY <1>1, <2>3
  <2> QED BY <2>2, <2>4 DEF WellFormed, GrewFrom
<1>3. CASE s.kind = "operator"
  <2> DEFINE c == Put(env.operators, s.on, s.name)
  <2>1. Free(env.operators, s.on, s.name) BY <1>3 DEF Fits, OperatorFits
  <2>2. Entries(c) /\ Grown(c, b.operators)
    BY <2>1, PutGrows DEF WellFormed, GrewFrom
  <2>3. With(s) = [env EXCEPT !.operators = c] BY <1>3 DEF With
  <2> HIDE DEF c
  <2>4. With(s) = [coercions |-> env.coercions, operators |-> c, folds |-> env.folds,
           instances |-> env.instances, bundles |-> env.bundles,
           forgetful |-> env.forgetful, overloads |-> env.overloads]
    BY <1>1, <2>3
  <2> QED BY <2>2, <2>4 DEF WellFormed, GrewFrom
<1>4. CASE s.kind = "fold"
  <2> DEFINE c == Put(env.folds, s.on, s.name)
  <2>1. Free(env.folds, s.on, s.name) BY <1>4 DEF Fits, FoldFits
  <2>2. Entries(c) /\ Grown(c, b.folds)
    BY <2>1, PutGrows DEF WellFormed, GrewFrom
  <2>3. With(s) = [env EXCEPT !.folds = c] BY <1>4 DEF With
  <2> HIDE DEF c
  <2>4. With(s) = [coercions |-> env.coercions, operators |-> env.operators, folds |-> c,
           instances |-> env.instances, bundles |-> env.bundles,
           forgetful |-> env.forgetful, overloads |-> env.overloads]
    BY <1>1, <2>3
  <2> QED BY <2>2, <2>4 DEF WellFormed, GrewFrom
<1>5. CASE s.kind = "instance"
  <2>0. InstanceFits(s) /\ With(s) = WithInstance(s.name) BY <1>5 DEF Fits, With
  <2>1. CASE Shape[s.name] = "bundle"
    <3> DEFINE c == Put(env.bundles, KeyOf[s.name], s.name)
    <3>1. Free(env.bundles, KeyOf[s.name], s.name) BY <2>0, <2>1 DEF InstanceFits
    <3>2. Entries(c) /\ Grown(c, b.bundles)
      BY <3>1, PutGrows DEF WellFormed, GrewFrom
    <3>3. With(s) = [env EXCEPT !.bundles = c] BY <2>0, <2>1 DEF WithInstance
    <3> HIDE DEF c
    <3>4. With(s) = [coercions |-> env.coercions, operators |-> env.operators, folds |-> env.folds,
             instances |-> env.instances, bundles |-> c,
             forgetful |-> env.forgetful, overloads |-> env.overloads]
      BY <1>1, <3>3
    <3> QED BY <3>2, <3>4 DEF WellFormed, GrewFrom
  <2>2. CASE Shape[s.name] = "predicate"
    <3> DEFINE c == Put(env.instances, KeyOf[s.name], s.name)
    <3>1. Free(env.instances, KeyOf[s.name], s.name) BY <2>0, <2>2 DEF InstanceFits
    <3>2. Entries(c) /\ Grown(c, b.instances)
      BY <3>1, PutGrows DEF WellFormed, GrewFrom
    <3>3. With(s) = [env EXCEPT !.instances = c] BY <2>0, <2>2 DEF WithInstance
    <3> HIDE DEF c
    <3>4. With(s) = [coercions |-> env.coercions, operators |-> env.operators, folds |-> env.folds,
             instances |-> c, bundles |-> env.bundles,
             forgetful |-> env.forgetful, overloads |-> env.overloads]
      BY <1>1, <3>3
    <3> QED BY <3>2, <3>4 DEF WellFormed, GrewFrom
  <2>3. CASE Shape[s.name] = "forgetful"
    <3> DEFINE c == Listed(env.forgetful, KeyOf[s.name][1], s.name)
    <3>1. Lists(c) /\ Appended(c, b.forgetful)
      BY <1>0, ListedAppends DEF WellFormed, GrewFrom
    <3>2. With(s) = [env EXCEPT !.forgetful = c] BY <2>0, <2>3 DEF WithInstance
    <3> HIDE DEF c
    <3>3. With(s) = [coercions |-> env.coercions, operators |-> env.operators, folds |-> env.folds,
             instances |-> env.instances, bundles |-> env.bundles,
             forgetful |-> c, overloads |-> env.overloads]
      BY <1>1, <3>2
    <3> QED BY <3>1, <3>3 DEF WellFormed, GrewFrom
  <2> QED BY <2>0, <2>1, <2>2, <2>3 DEF InstanceFits
<1>6. CASE s.kind = "overload"
  <2> DEFINE c == Listed(env.overloads, s.alias, s.name)
  <2>1. Lists(c) /\ Appended(c, b.overloads)
    BY <1>0, ListedAppends DEF WellFormed, GrewFrom
  <2>2. With(s) = [env EXCEPT !.overloads = c] BY <1>6 DEF With
  <2> HIDE DEF c
  <2>3. With(s) = [coercions |-> env.coercions, operators |-> env.operators, folds |-> env.folds,
           instances |-> env.instances, bundles |-> env.bundles,
           forgetful |-> env.forgetful, overloads |-> c]
    BY <1>1, <2>2
  <2> QED BY <2>1, <2>3 DEF WellFormed, GrewFrom
<1> QED BY <1>2, <1>3, <1>4, <1>5, <1>6 DEF Fits

-----------------------------------------------------------------------------
(* The order modules were verified in.                                       *)

\* The process loads z for one of its imports.
Owed(z) == \E i \in Range(imports) : z = i \/ z \in ended[i].with

ImportsAt(k) == IF k = 1 THEN imports ELSE caches[stack[k].of].imports

\* Each verified module ended with its imports, and theirs, loaded, and nothing
\* else: the modules are partly ordered by which was loaded in which.
HistoryOrdered ==
  \A m \in Verified :
    /\ ended[m].with \subseteq Verified \ {m}
    /\ Range(caches[m].imports) \subseteq ended[m].with
    /\ \A x \in ended[m].with : ended[x].with \subseteq ended[m].with
    /\ \A x \in ended[m].with :
         \E i \in Range(caches[m].imports) : x = i \/ x \in ended[i].with

\* What is loaded has with it what it was verified with.
LoadedClosed ==
  /\ loaded \subseteq Verified
  /\ \A x \in loaded : ended[x].with \subseteq loaded /\ Owed(x)

\* The calls under way: each is for an import of the one under it, not loaded yet,
\* and what a call has taken of its imports is loaded, or the call above it.
CallsNest ==
  /\ running = NoModule => (stack = <<>> /\ loaded = {})
  /\ stack # <<>> => stack[1].of = running
  /\ (running # NoModule /\ stack = <<>>) => Range(imports) \subseteq loaded
  /\ \A k \in 1..Len(stack) :
       /\ Range(stack[k].left) \subseteq Range(ImportsAt(k))
       /\ \A x \in Range(ImportsAt(k)) :
            \/ x \in loaded \/ x \in Range(stack[k].left)
            \/ (k < Len(stack) /\ x = stack[k + 1].of)
  /\ \A k \in 2..Len(stack) : Owed(stack[k].of) /\ stack[k].of \notin loaded
  /\ \A j, k \in 2..Len(stack) : k < j => stack[j].of \in ended[stack[k].of].with

OrderInv == HistoryOrdered /\ LoadedClosed /\ CallsNest


-----------------------------------------------------------------------------
(* ... is kept by every step. *)

Frames == [of : Modules, left : Seq(Verified)]

\* The head and the tail of a list have its elements between them.
LEMMA HeadAndTail ==
  ASSUME NEW S, NEW q \in Seq(S), q # <<>>
  PROVE  /\ Tail(q) \in Seq(S) /\ Head(q) \in S
         /\ Range(q) = {Head(q)} \cup Range(Tail(q))
<1>1. /\ Tail(q) \in Seq(S) /\ Len(Tail(q)) = Len(q) - 1 /\ Head(q) \in S
      /\ \A i \in 1..Len(Tail(q)) : Tail(q)[i] = q[i + 1]
  BY HeadTailProperties
<1>2. Len(q) \in Nat \ {0} /\ Head(q) = q[1]
  BY EmptySeq
<1>3. Range(q) = {q[i] : i \in 1..Len(q)} /\ Range(Tail(q)) = {Tail(q)[i] : i \in 1..Len(Tail(q))}
  BY <1>1, RangeEquality
<1>4. ASSUME NEW x \in Range(q) PROVE x = Head(q) \/ x \in Range(Tail(q))
  <2>1. PICK i \in 1..Len(q) : x = q[i] BY <1>3
  <2>2. CASE i = 1 BY <2>1, <2>2, <1>2
  <2>3. CASE i # 1
    <3>1. i - 1 \in 1..Len(Tail(q)) /\ (i - 1) + 1 = i BY <2>3, <1>1, <1>2
    <3>2. Tail(q)[i - 1] = x BY <3>1, <2>1, <1>1
    <3> QED BY <3>1, <3>2, <1>3
  <2> QED BY <2>2, <2>3
<1>5. ASSUME NEW x \in Range(Tail(q)) PROVE x \in Range(q)
  <2>1. PICK i \in 1..Len(Tail(q)) : x = Tail(q)[i] BY <1>3
  <2>2. i + 1 \in 1..Len(q) /\ x = q[i + 1] BY <2>1, <1>1, <1>2
  <2> QED BY <2>2, <1>3
<1>6. Head(q) \in Range(q)
  <2>1. 1 \in 1..Len(q) BY <1>2
  <2> QED BY <2>1, <1>2, <1>3
<1> QED BY <1>1, <1>4, <1>5, <1>6

\* The top call with one import taken; the calls under it are as they were.
LEMMA DroppedIs ==
  ASSUME stack \in Seq(Frames), stack # <<>>, Top.left # <<>>
  PROVE  /\ Dropped \in Seq(Frames) /\ Len(Dropped) = Len(stack)
         /\ \A i \in 1..Len(stack) : i < Len(stack) => Dropped[i] = stack[i]
         /\ Dropped[Len(stack)].of = Top.of
         /\ Dropped[Len(stack)].left = Tail(Top.left)
         /\ Top \in Frames /\ Head(Top.left) \in Verified
         /\ Range(Top.left) = {Head(Top.left)} \cup Range(Tail(Top.left))
<1> DEFINE e == [Top EXCEPT !.left = Tail(@)]
<1>1. Len(stack) \in Nat \ {0} BY EmptySeq
<1>2. /\ Top \in Frames /\ Rest \in Seq(Frames) /\ Len(Rest) = Len(stack) - 1
      /\ \A i \in 1..(Len(stack) - 1) : Rest[i] = stack[i]
  BY RestOf DEF Top, Rest
<1>3. Top.left \in Seq(Verified) /\ Top.of \in Modules BY <1>2 DEF Frames
<1>4. /\ Head(Top.left) \in Verified /\ Tail(Top.left) \in Seq(Verified)
      /\ Range(Top.left) = {Head(Top.left)} \cup Range(Tail(Top.left))
  BY <1>3, HeadAndTail
<1>5. e \in Frames /\ e.of = Top.of /\ e.left = Tail(Top.left)
  BY <1>2, <1>3, <1>4 DEF Frames
<1> HIDE DEF e
<1>6. /\ Append(Rest, e) \in Seq(Frames) /\ Len(Append(Rest, e)) = Len(stack)
      /\ Append(Rest, e)[Len(stack)] = e
      /\ \A i \in 1..(Len(stack) - 1) : Append(Rest, e)[i] = stack[i]
  BY <1>1, <1>2, <1>5, AppendOf
<1>7. Dropped = Append(Rest, e) BY DEF Dropped, e
<1>8. \A i \in 1..Len(stack) : i < Len(stack) => i \in 1..(Len(stack) - 1)
  BY <1>1
<1> QED BY <1>2, <1>4, <1>5, <1>6, <1>7, <1>8

LEMMA OrderInit == Init => OrderInv
<1>1. ASSUME Init PROVE OrderInv
  <2>1. Verified = {} /\ loaded = {} /\ stack = <<>> /\ running = NoModule
    BY <1>1 DEF Init, Verified
  <2> QED BY <2>1 DEF OrderInv, HistoryOrdered, LoadedClosed, CallsNest
<1> QED BY <1>1

\* While no cache is written what is known of the verified modules stays.
LEMMA HistoryStays ==
  ASSUME HistoryOrdered, UNCHANGED <<caches, ended>>
  PROVE  HistoryOrdered' /\ Verified' = Verified
<1>1. Verified' = Verified BY DEF Verified
<1> QED BY <1>1 DEF HistoryOrdered

LEMMA BeginOrders ==
  ASSUME IInv, OrderInv, NEW m \in Modules, NEW list \in ImportLists, Begin(m, list)
  PROVE  OrderInv'
<1>1. HistoryOrdered' /\ Verified' = Verified
  BY HistoryStays DEF OrderInv, Begin
<1>2. loaded = {} /\ loaded' = {} BY DEF OrderInv, CallsNest, Begin
<1>3. LoadedClosed' BY <1>2 DEF LoadedClosed
<1>4. stack' = <<Frame(m, list)>> /\ Len(stack') = 1 /\ stack'[1] = Frame(m, list)
  BY DEF Begin
<1>5. imports' = list /\ running' = m BY DEF Begin
<1>6. m # NoModule BY RegistryAssumption
<1>7. \A k \in 1..Len(stack') : ImportsAt(k)' = list /\ stack'[k].left = list
  BY <1>4, <1>5 DEF ImportsAt, Frame
<1>8. CallsNest'
  <2>1. stack' # <<>> /\ stack'[1].of = running' BY <1>4, <1>5 DEF Frame
  <2>2. \A k \in 2..Len(stack') : FALSE BY <1>4
  <2> QED BY <1>5, <1>6, <1>7, <2>1, <2>2 DEF CallsNest
<1> QED BY <1>1, <1>3, <1>8 DEF OrderInv

LEMMA LoadAgainOrders ==
  ASSUME IInv, OrderInv, LoadAgain
  PROVE  OrderInv'
<1>1. HistoryOrdered' /\ Verified' = Verified
  BY HistoryStays DEF OrderInv, LoadAgain
<1>2. UNCHANGED <<caches, running, imports, loaded, ended>> BY DEF LoadAgain
<1>3. LoadedClosed'
  BY <1>1, <1>2 DEF OrderInv, LoadedClosed, Owed
<1>4. stack \in Seq(Frames) /\ stack # <<>> /\ Top.left # <<>> /\ Head(Top.left) \in loaded
  BY DEF LoadAgain, IInv, OnlyVerified, Frames
<1>5. /\ Len(stack') = Len(stack) /\ Len(stack) \in Nat \ {0}
      /\ \A i \in 1..Len(stack) : i < Len(stack) => stack'[i] = stack[i]
      /\ stack'[Len(stack)].of = Top.of
      /\ stack'[Len(stack)].left = Tail(Top.left)
      /\ Range(Top.left) = {Head(Top.left)} \cup Range(Tail(Top.left))
      /\ stack' \in Seq(Frames)
  BY <1>4, DroppedIs, EmptySeq DEF LoadAgain
<1>6. \A k \in 1..Len(stack) : stack'[k].of = stack[k].of /\ ImportsAt(k)' = ImportsAt(k)
  BY <1>2, <1>5 DEF Top, ImportsAt
<1>7. ASSUME NEW k \in 1..Len(stack)
      PROVE  /\ Range(stack'[k].left) \subseteq Range(ImportsAt(k))
             /\ \A x \in Range(ImportsAt(k)) :
                  \/ x \in loaded \/ x \in Range(stack'[k].left)
                  \/ (k < Len(stack) /\ x = stack[k + 1].of)
  <2>1. CASE k < Len(stack) BY <2>1, <1>5 DEF OrderInv, CallsNest
  <2>2. CASE k = Len(stack)
    <3>1. stack[k] = Top BY <2>2 DEF Top
    <3> QED BY <2>2, <3>1, <1>4, <1>5 DEF OrderInv, CallsNest
  <2> QED BY <2>1, <2>2, <1>5
<1>8. CallsNest'
  <2>1. stack # <<>> /\ stack' # <<>> BY <1>4, <1>5
  <2>2. 1 \in 1..Len(stack) /\ \A k \in 2..Len(stack) : k \in 1..Len(stack) BY <1>5
  <2>3. \A k \in 1..Len(stack) : k < Len(stack) => k + 1 \in 1..Len(stack) BY <1>5
  <2>4. running # NoModule /\ stack'[1].of = running
    BY <2>1, <2>2, <1>6 DEF OrderInv, CallsNest
  <2>5. \A k \in 2..Len(stack) : Owed(stack[k].of)' /\ stack'[k].of \notin loaded'
    BY <2>2, <1>2, <1>6 DEF OrderInv, CallsNest, Owed
  <2>6. \A j, k \in 2..Len(stack) : k < j => stack'[j].of \in ended'[stack'[k].of].with
    BY <2>2, <1>2, <1>6 DEF OrderInv, CallsNest
  <2>7. \A k \in 1..Len(stack) :
          /\ Range(stack'[k].left) \subseteq Range(ImportsAt(k)')
          /\ \A x \in Range(ImportsAt(k)') :
               \/ x \in loaded' \/ x \in Range(stack'[k].left)
               \/ (k < Len(stack) /\ x = stack'[k + 1].of)
    BY <2>3, <1>2, <1>6, <1>7
  <2> QED BY <2>1, <2>4, <2>5, <2>6, <2>7, <1>2, <1>5 DEF CallsNest
<1> QED BY <1>1, <1>3, <1>8 DEF OrderInv

LEMMA LoadCacheOrders ==
  ASSUME IInv, OrderInv, LoadCache
  PROVE  OrderInv'
<1> DEFINE n == Len(stack)  y == Head(Top.left)  e == Frame(y, caches[y].imports)
<1>1. HistoryOrdered' /\ Verified' = Verified
  BY HistoryStays DEF OrderInv, LoadCache
<1>2. UNCHANGED <<caches, running, imports, loaded, ended>> BY DEF LoadCache
<1>3. LoadedClosed'
  BY <1>1, <1>2 DEF OrderInv, LoadedClosed, Owed
<1>4. stack \in Seq(Frames) /\ stack # <<>> /\ Top.left # <<>> /\ y \notin loaded
  BY DEF LoadCache, IInv, OnlyVerified, Frames
<1>5. /\ Dropped \in Seq(Frames) /\ Len(Dropped) = n /\ n \in Nat \ {0}
      /\ \A i \in 1..n : i < n => Dropped[i] = stack[i]
      /\ Dropped[n].of = Top.of /\ Dropped[n].left = Tail(Top.left)
      /\ y \in Verified /\ Range(Top.left) = {y} \cup Range(Tail(Top.left))
  BY <1>4, DroppedIs, EmptySeq
<1>6. e \in Frames /\ e.of = y /\ e.left = caches[y].imports
  BY <1>5 DEF IInv, CachesLead, Frame, Frames, Verified
<1>7. stack' = Append(Dropped, e) BY DEF LoadCache
<1> HIDE DEF e
<1>8. /\ stack' \in Seq(Frames) /\ Len(stack') = n + 1 /\ stack'[n + 1] = e
      /\ \A i \in 1..n : stack'[i] = Dropped[i]
  BY <1>5, <1>6, <1>7, AppendOf
<1> HIDE DEF n, y
<1>9. \A k \in 1..n : stack'[k].of = stack[k].of /\ ImportsAt(k)' = ImportsAt(k)
  <2>1. \A k \in 1..n : k < n \/ k = n BY <1>5
  <2> QED BY <2>1, <1>2, <1>5, <1>8 DEF Top, ImportsAt, n
<1>10. ASSUME NEW k \in 2..(n + 1), k = n + 1 PROVE ImportsAt(k)' = caches[y].imports
  <2>1. stack'[k].of = y /\ k # 1 BY <1>10, <1>6, <1>8
  <2> QED BY <2>1, <1>2 DEF ImportsAt
<1>11. y \in Range(ImportsAt(n))
  <2>1. n \in 1..n /\ stack[n] = Top BY <1>5 DEF Top, n
  <2> QED BY <2>1, <1>5 DEF OrderInv, CallsNest, n
<1>12. ASSUME NEW k \in 1..n
       PROVE  /\ Range(stack'[k].left) \subseteq Range(ImportsAt(k))
              /\ \A x \in Range(ImportsAt(k)) :
                   \/ x \in loaded \/ x \in Range(stack'[k].left)
                   \/ x = stack'[k + 1].of
  <2>1. CASE k < n
    <3>1. k + 1 \in 1..n BY <2>1, <1>5
    <3> QED BY <2>1, <3>1, <1>5, <1>8, <1>9 DEF OrderInv, CallsNest, n
  <2>2. CASE k = n
    <3>1. stack[k] = Top BY <2>2 DEF Top, n
    <3>2. stack'[k].left = Tail(Top.left) /\ stack'[k + 1].of = y
      BY <2>2, <1>5, <1>6, <1>8
    <3>3. ~(k < Len(stack)) BY <2>2, <1>5 DEF n
    <3> QED BY <3>1, <3>2, <3>3, <1>5 DEF OrderInv, CallsNest, n
  <2> QED BY <2>1, <2>2, <1>5
<1>13. Owed(y) /\ \A k \in 2..n : y \in ended[stack[k].of].with
  <2>1. CASE n = 1
    <3>1. y \in Range(imports) BY <2>1, <1>11 DEF ImportsAt
    <3> QED BY <2>1, <3>1 DEF Owed
  <2>2. CASE n # 1
    <3>1. n \in 2..n /\ ImportsAt(n) = caches[stack[n].of].imports
      BY <2>2, <1>5 DEF ImportsAt
    <3>2. stack[n].of \in Verified /\ Owed(stack[n].of)
      BY <3>1 DEF IInv, OnlyVerified, OrderInv, CallsNest, n
    <3>3. y \in ended[stack[n].of].with
      BY <3>1, <3>2, <1>11 DEF OrderInv, HistoryOrdered
    <3>4. ASSUME NEW k \in 2..n PROVE y \in ended[stack[k].of].with
      <4>1. CASE k = n BY <4>1, <3>3
      <4>2. CASE k # n
        <5>1. k < n BY <4>2, <1>5
        <5>2. stack[n].of \in ended[stack[k].of].with
          BY <3>1, <5>1 DEF OrderInv, CallsNest, n
        <5>3. stack[k].of \in Verified BY DEF IInv, OnlyVerified, n
        <5> QED BY <5>2, <5>3, <3>3 DEF OrderInv, HistoryOrdered
      <4> QED BY <4>1, <4>2
    <3>5. Owed(y)
      <4>1. PICK i \in Range(imports) : stack[n].of = i \/ stack[n].of \in ended[i].with
        BY <3>2 DEF Owed
      <4>2. i \in Verified
        BY RangeOfSeq DEF IInv, OnlyVerified
      <4> QED BY <4>1, <4>2, <3>3 DEF Owed, OrderInv, HistoryOrdered
    <3> QED BY <3>4, <3>5
  <2> QED BY <2>1, <2>2
<1>14. CallsNest'
  <2>1. stack # <<>> /\ stack' # <<>> /\ 1 \in 1..n
    BY <1>4, <1>5, <1>8
  <2>2. running # NoModule /\ stack'[1].of = running
    BY <2>1, <1>9 DEF OrderInv, CallsNest
  <2>3. ASSUME NEW k \in 1..(n + 1)
        PROVE  /\ Range(stack'[k].left) \subseteq Range(ImportsAt(k)')
               /\ \A x \in Range(ImportsAt(k)') :
                    \/ x \in loaded' \/ x \in Range(stack'[k].left)
                    \/ (k < n + 1 /\ x = stack'[k + 1].of)
    <3>1. CASE k = n + 1
      <4>1. stack'[k].left = caches[y].imports /\ ImportsAt(k)' = caches[y].imports
        <5>1. k \in 2..(n + 1) BY <3>1, <1>5
        <5> QED BY <5>1, <3>1, <1>6, <1>8, <1>10
      <4> QED BY <4>1
    <3>2. CASE k # n + 1
      <4>1. k \in 1..n /\ k < n + 1 BY <3>2, <1>5
      <4> QED BY <4>1, <1>2, <1>9, <1>12
    <3> QED BY <3>1, <3>2
  <2>4. ASSUME NEW k \in 2..(n + 1)
        PROVE  Owed(stack[k].of)' /\ stack'[k].of \notin loaded'
    <3>1. CASE k = n + 1
      <4>1. stack'[k].of = y BY <3>1, <1>6, <1>8
      <4>2. y \notin loaded' BY <1>2, <1>4 DEF y
      <4> QED BY <4>1, <4>2, <1>2, <1>13 DEF Owed
    <3>2. CASE k # n + 1
      <4>1. k \in 1..n /\ k \in 2..n BY <3>2, <1>5
      <4>2. Owed(stack[k].of) /\ stack[k].of \notin loaded
        BY <4>1 DEF OrderInv, CallsNest, n
      <4> QED BY <4>1, <4>2, <1>2, <1>9 DEF Owed
    <3> QED BY <3>1, <3>2
  <2>5. ASSUME NEW j \in 2..(n + 1), NEW k \in 2..(n + 1), k < j
        PROVE  stack'[j].of \in ended'[stack'[k].of].with
    <3>1. k \in 2..n /\ k \in 1..n BY <2>5, <1>5
    <3>2. CASE j = n + 1
      <4>1. stack'[j].of = y BY <3>2, <1>6, <1>8
      <4> QED BY <4>1, <3>1, <1>2, <1>9, <1>13
    <3>3. CASE j # n + 1
      <4>1. j \in 2..n /\ j \in 1..n BY <3>3, <1>5
      <4> QED BY <4>1, <3>1, <2>5, <1>2, <1>9 DEF OrderInv, CallsNest, n
    <3> QED BY <3>2, <3>3
  <2> QED BY <2>1, <2>2, <2>3, <2>4, <2>5, <1>8, <1>2 DEF CallsNest
<1> QED BY <1>1, <1>3, <1>14 DEF OrderInv

\* When a cache is merged, everything its module was verified with is loaded.
LEMMA TopReady ==
  ASSUME IInv, OrderInv, Register
  PROVE  /\ Top.of \in Verified \ loaded
         /\ ended[Top.of].with \subseteq loaded
         /\ Owed(Top.of)
<1>1. Len(stack) \in 2..Len(stack) /\ Len(stack) \in 1..Len(stack) /\ ~(Len(stack) < Len(stack))
  BY EmptySeq DEF Register, IInv, OnlyVerified
<1>2. /\ Top.of \in Verified /\ Owed(Top.of) /\ Top.of \notin loaded
      /\ Top = stack[Len(stack)]
  BY <1>1 DEF IInv, OnlyVerified, OrderInv, CallsNest, Top
<1>3. ImportsAt(Len(stack)) = caches[Top.of].imports
  BY <1>1, <1>2 DEF ImportsAt
<1>4. Range(Top.left) = {}
  BY EmptySeq, RangeEquality DEF Register, Range
<1>5. Range(caches[Top.of].imports) \subseteq loaded
  BY <1>1, <1>2, <1>3, <1>4 DEF OrderInv, CallsNest
<1>6. ASSUME NEW x \in ended[Top.of].with PROVE x \in loaded
  <2>1. PICK i \in Range(caches[Top.of].imports) : x = i \/ x \in ended[i].with
    BY <1>2 DEF OrderInv, HistoryOrdered
  <2> QED BY <2>1, <1>5 DEF OrderInv, LoadedClosed
<1> QED BY <1>2, <1>6

LEMMA RegisterOrders ==
  ASSUME IInv, OrderInv, Register
  PROVE  OrderInv'
<1> DEFINE n == Len(stack)  y == Top.of
<1>1. HistoryOrdered' /\ Verified' = Verified
  BY HistoryStays DEF OrderInv, Register
<1>2. UNCHANGED <<caches, running, imports, ended>> /\ loaded' = loaded \cup {y}
  BY DEF Register
<1>3. y \in Verified \ loaded /\ ended[y].with \subseteq loaded /\ Owed(y)
  BY TopReady
<1>4. LoadedClosed'
  BY <1>1, <1>2, <1>3 DEF OrderInv, LoadedClosed, Owed
<1>5. stack \in Seq(Frames) /\ stack # <<>> /\ n \in Nat /\ n > 1
  BY DEF Register, IInv, OnlyVerified, Frames
<1>6. /\ stack' \in Seq(Frames) /\ Len(stack') = n - 1
      /\ \A i \in 1..(n - 1) : stack'[i] = stack[i]
  BY <1>5, RestOf DEF Register, Rest
<1>7. y = stack[n].of BY DEF Top
<1> HIDE DEF n, y
<1>8. \A k \in 1..(n - 1) : k \in 1..n /\ k < n /\ ImportsAt(k)' = ImportsAt(k)
  BY <1>2, <1>5, <1>6 DEF ImportsAt
<1>9. CallsNest'
  <2>1. 1 \in 1..(n - 1) /\ stack' # <<>> /\ running # NoModule /\ stack'[1].of = running'
    <3>1. 1 \in 1..(n - 1) BY <1>5
    <3>2. stack' # <<>> BY <1>6, <1>5
    <3> QED BY <3>1, <3>2, <1>2, <1>5, <1>6 DEF OrderInv, CallsNest
  <2>2. ASSUME NEW k \in 1..(n - 1)
        PROVE  /\ Range(stack'[k].left) \subseteq Range(ImportsAt(k)')
               /\ \A x \in Range(ImportsAt(k)') :
                    \/ x \in loaded' \/ x \in Range(stack'[k].left)
                    \/ (k < n - 1 /\ x = stack'[k + 1].of)
    <3>1. k \in 1..n /\ stack'[k] = stack[k] /\ ImportsAt(k)' = ImportsAt(k)
      BY <1>6, <1>8
    <3>2. CASE k = n - 1
      <4>1. stack[k + 1].of = y BY <3>2, <1>5, <1>7
      <4> QED BY <3>1, <4>1, <1>2 DEF OrderInv, CallsNest, n
    <3>3. CASE k # n - 1
      <4>1. k < n - 1 /\ k + 1 \in 1..(n - 1) BY <3>3, <1>5
      <4>2. stack'[k + 1] = stack[k + 1] BY <4>1, <1>6
      <4> QED BY <3>1, <4>1, <4>2, <1>2 DEF OrderInv, CallsNest, n
    <3> QED BY <3>2, <3>3
  <2>3. ASSUME NEW k \in 2..(n - 1)
        PROVE  Owed(stack[k].of)' /\ stack'[k].of \notin loaded'
    <3>1. k \in 2..n /\ n \in 2..n /\ k < n /\ stack'[k] = stack[k]
      BY <1>5, <1>6
    <3>2. Owed(stack[k].of) /\ stack[k].of \notin loaded /\ y \in ended[stack[k].of].with
      BY <3>1, <1>7 DEF OrderInv, CallsNest, n
    <3>3. stack[k].of # y
      <4>1. stack[k].of \in Verified BY <3>1 DEF IInv, OnlyVerified, n
      <4> QED BY <4>1, <3>2 DEF OrderInv, HistoryOrdered
    <3> QED BY <3>1, <3>2, <3>3, <1>2 DEF Owed
  <2>4. ASSUME NEW j \in 2..(n - 1), NEW k \in 2..(n - 1), k < j
        PROVE  stack'[j].of \in ended'[stack'[k].of].with
    <3>1. j \in 2..n /\ k \in 2..n /\ stack'[j] = stack[j] /\ stack'[k] = stack[k]
      BY <1>5, <1>6
    <3> QED BY <3>1, <2>4, <1>2 DEF OrderInv, CallsNest, n
  <2>5. \A k \in 2..(n - 1) : stack'[k] = stack[k] BY <1>6
  <2> QED BY <2>1, <2>2, <2>3, <2>4, <2>5, <1>2, <1>6 DEF CallsNest
<1> QED BY <1>1, <1>4, <1>9 DEF OrderInv

LEMMA StartStatementsOrders ==
  ASSUME IInv, OrderInv, StartStatements
  PROVE  OrderInv'
<1>1. HistoryOrdered' /\ Verified' = Verified
  BY HistoryStays DEF OrderInv, StartStatements
<1>2. UNCHANGED <<caches, running, imports, loaded, ended>> /\ stack' = <<>>
  BY DEF StartStatements
<1>3. LoadedClosed'
  BY <1>1, <1>2 DEF OrderInv, LoadedClosed, Owed
<1>4. Len(stack) = 1 /\ Len(stack) \in 1..Len(stack) /\ ~(1 < Len(stack)) /\ Top = stack[1] /\ stack # <<>>
  BY DEF StartStatements, Top
<1>5. Range(Top.left) = {} BY EmptySeq, RangeEquality DEF StartStatements, Range
<1>6. Range(imports) \subseteq loaded
  BY <1>4, <1>5 DEF OrderInv, CallsNest, ImportsAt
<1>7. running # NoModule BY <1>4 DEF OrderInv, CallsNest
<1>8. CallsNest' BY <1>2, <1>6, <1>7 DEF CallsNest
<1> QED BY <1>1, <1>3, <1>8 DEF OrderInv

LEMMA StatementOrders ==
  ASSUME OrderInv, NEW s, Statement(s)
  PROVE  OrderInv'
<1>1. HistoryOrdered' /\ Verified' = Verified
  BY HistoryStays DEF OrderInv, Statement
<1>2. UNCHANGED <<caches, running, imports, stack, loaded, ended>>
  BY DEF Statement
<1>3. LoadedClosed'
  BY <1>1, <1>2 DEF OrderInv, LoadedClosed, Owed
<1>4. CallsNest'
  BY <1>2 DEF OrderInv, CallsNest, ImportsAt, Owed
<1> QED BY <1>1, <1>3, <1>4 DEF OrderInv

LEMMA RefuseOrders ==
  ASSUME OrderInv, NEW s, Refuse(s)
  PROVE  OrderInv'
<1>1. HistoryOrdered' /\ Verified' = Verified
  BY HistoryStays DEF OrderInv, Refuse
<1>2. loaded' = {} /\ stack' = <<>> /\ running' = NoModule
  BY DEF Refuse, ProcessEnds
<1>3. LoadedClosed' /\ CallsNest'
  BY <1>2 DEF LoadedClosed, CallsNest
<1> QED BY <1>1, <1>3 DEF OrderInv

\* What a cache written adds: one module, with what its process had loaded.
LEMMA WriteCacheAdds ==
  ASSUME IInv, WriteCache, DOMAIN ended = Modules
  PROVE  /\ running \in Modules \ Verified
         /\ Verified \subseteq Verified' /\ Verified' \subseteq Verified \cup {running}
         /\ \A m \in Verified : caches'[m] = caches[m] /\ ended'[m] = ended[m]
         /\ caches'[running] = [imports |-> imports, delta |-> Delta(env, before)]
         /\ ended'[running] = [registries |-> env, with |-> loaded]
<1>1. running \in Modules \ Verified
  BY DEF WriteCache, AtStatements, IInv, OnlyVerified
<1> QED BY <1>1 DEF WriteCache, IInv, OnlyVerified, Verified

LEMMA WriteCacheOrders ==
  ASSUME IInv, OrderInv, WriteCache, DOMAIN ended = Modules
  PROVE  OrderInv'
<1>1. /\ running \in Modules \ Verified
      /\ Verified \subseteq Verified' /\ Verified' \subseteq Verified \cup {running}
      /\ \A m \in Verified : caches'[m].imports = caches[m].imports /\ ended'[m].with = ended[m].with
      /\ caches'[running].imports = imports
      /\ ended'[running].with = loaded
  BY WriteCacheAdds
<1>2. Range(imports) \subseteq loaded /\ loaded \subseteq Verified
  BY DEF WriteCache, AtStatements, OrderInv, CallsNest, LoadedClosed
<1>3. HistoryOrdered'
  <2>1. SUFFICES ASSUME NEW m \in Verified'
        PROVE  /\ ended'[m].with \subseteq Verified' \ {m}
               /\ Range(caches'[m].imports) \subseteq ended'[m].with
               /\ \A x \in ended'[m].with : ended'[x].with \subseteq ended'[m].with
               /\ \A x \in ended'[m].with :
                    \E i \in Range(caches'[m].imports) : x = i \/ x \in ended'[i].with
    BY DEF HistoryOrdered
  <2>2. CASE m \in Verified
    <3>1. /\ ended[m].with \subseteq Verified \ {m}
          /\ Range(caches[m].imports) \subseteq ended[m].with
      BY <2>2 DEF OrderInv, HistoryOrdered
    <3> QED BY <2>2, <3>1, <1>1 DEF OrderInv, HistoryOrdered
  <2>3. CASE m = running
    <3>1. \A x \in loaded : ended'[x].with = ended[x].with /\ ended[x].with \subseteq loaded
      BY <1>1, <1>2 DEF OrderInv, LoadedClosed
    <3>2. \A x \in loaded : \E i \in Range(imports) : x = i \/ x \in ended'[i].with
      BY <1>1, <1>2 DEF OrderInv, LoadedClosed, Owed
    <3> QED BY <2>3, <3>1, <3>2, <1>1, <1>2
  <2> QED BY <2>2, <2>3, <1>1
<1>4. loaded' = {} /\ stack' = <<>> /\ running' = NoModule
  BY DEF WriteCache, ProcessEnds
<1>5. LoadedClosed' /\ CallsNest'
  BY <1>4 DEF LoadedClosed, CallsNest
<1> QED BY <1>3, <1>5 DEF OrderInv

-----------------------------------------------------------------------------
(* Lines of modules.  h is what the verified modules ended with.             *)

\* Whichever of two was verified first, the other had it loaded.
LineOf(h, L) == \A m, n \in L : m \in h[n].with \/ n \in h[m].with \/ m = n

\* What is loaded is one module and what it had loaded, and the registries are
\* those it ended with.
Stands(h, L, e) ==
  \/ L = {} /\ e = NoRegistries
  \/ \E x \in L : L = h[x].with \cup {x} /\ e = h[x].registries

Closed(c) ==
  \A j, k \in DOMAIN c : (j[2] = k[1] /\ j[1] # k[2]) => <<j[1], k[2]>> \in DOMAIN c

FoldsRight(e) ==
  \A t \in DOMAIN e.folds :
    t \in DOMAIN e.operators /\ e.operators[t] = Certifies[e.folds[t]]

Good(e) == Closed(e.coercions) /\ FoldsRight(e)

\* The last of a line decides what the registries are.
LEMMA StandsOnce ==
  ASSUME HistoryOrdered, NEW L \in SUBSET Verified, NEW e, NEW f,
         Stands(ended, L, e), Stands(ended, L, f)
  PROVE  e = f
<1>1. CASE L = {} BY <1>1 DEF Stands
<1>2. CASE L # {}
  <2>1. PICK x \in L : L = ended[x].with \cup {x} /\ e = ended[x].registries
    BY <1>2 DEF Stands
  <2>2. PICK y \in L : L = ended[y].with \cup {y} /\ f = ended[y].registries
    BY <1>2 DEF Stands
  <2>3. x = y
    <3>1. SUFFICES ASSUME x # y PROVE FALSE OBVIOUS
    <3>2. x \in ended[y].with /\ y \in ended[x].with BY <2>1, <2>2, <3>1
    <3>3. x \in ended[x].with BY <3>2 DEF HistoryOrdered
    <3> QED BY <3>3 DEF HistoryOrdered
  <2> QED BY <2>1, <2>2, <2>3
<1> QED BY <1>1, <1>2

\* A line closed under what its modules had loaded has the line of each of them.
LEMMA LineBelow ==
  ASSUME NEW h, NEW L, NEW x \in L, LineOf(h, L), h[x].with \subseteq L
  PROVE  LineOf(h, h[x].with)
BY DEF LineOf

\* With one more edge, extended on both sides, the chains are closed again.
LEMMA ExtendedClosed ==
  ASSUME NEW c, Led(c), Closed(c), NEW s, s.from \in Types, s.to \in Types, s.from # s.to
  PROVE  Closed(Over(Extended(c, s), c))
<1> DEFINE A == {s.from} \cup {X \in Types : <<X, s.from>> \in DOMAIN c /\ X # s.to}
           B == {s.to} \cup {Y \in Types : <<s.to, Y>> \in DOMAIN c}
           keys == {k \in A \X B : k[1] # k[2]}
<1>1. DOMAIN Over(Extended(c, s), c) = DOMAIN c \cup keys
  BY DEF Over, Extended
<1>2. \A k \in DOMAIN c : k = <<k[1], k[2]>> /\ k[1] \in Types /\ k[2] \in Types /\ k[1] # k[2]
  BY DEF Led
<1>3. ASSUME NEW X, NEW Y, NEW Z, <<X, Y>> \in DOMAIN c, <<Y, Z>> \in DOMAIN c, X # Z
      PROVE  <<X, Z>> \in DOMAIN c
  <2>1. <<X, Y>>[2] = <<Y, Z>>[1] /\ <<X, Y>>[1] # <<Y, Z>>[2] BY <1>3
  <2>2. <<<<X, Y>>[1], <<Y, Z>>[2]>> \in DOMAIN c BY <2>1, <1>3 DEF Closed
  <2> QED BY <2>2
<1>4. \A X, Z : (X \in A /\ Z \in B /\ X # Z) => <<X, Z>> \in keys
  OBVIOUS
<1>5. \A k \in keys : k = <<k[1], k[2]>> /\ k[1] \in A /\ k[2] \in B /\ k[1] \in Types /\ k[2] \in Types
  OBVIOUS
<1> HIDE DEF keys
\* Whatever leads into the sources leads across, and so does whatever the targets lead to.
<1>6. ASSUME NEW X, NEW Y, NEW Z, <<X, Y>> \in DOMAIN c, Y \in A, Z \in B, X # Z
      PROVE  <<X, Z>> \in DOMAIN c \cup keys
  <2>0. X \in Types /\ Y \in Types /\ X # Y
    BY <1>6, <1>2
  <2>1. X = s.from \/ <<X, s.from>> \in DOMAIN c
    BY <1>3, <1>6
  <2>2. CASE X = s.to
    <3>1. Z # s.to /\ <<s.to, Z>> \in DOMAIN c BY <2>2, <1>6
    <3> QED BY <3>1, <2>2
  <2>3. CASE X # s.to
    <3>1. X \in A BY <2>0, <2>1, <2>3
    <3> QED BY <3>1, <1>4, <1>6
  <2> QED BY <2>2, <2>3
<1>7. ASSUME NEW X, NEW Y, NEW Z, X \in A, Y \in B, <<Y, Z>> \in DOMAIN c, X # Z
      PROVE  <<X, Z>> \in DOMAIN c \cup keys
  <2>0. Z \in Types BY <1>7, <1>2
  <2>1. Z = s.to \/ <<s.to, Z>> \in DOMAIN c
    BY <1>3, <1>7
  <2>2. Z \in B BY <2>0, <2>1
  <2> QED BY <2>2, <1>4, <1>7
<1> HIDE DEF A, B
<1>8. ASSUME NEW j \in DOMAIN c \cup keys, NEW k \in DOMAIN c \cup keys, j[2] = k[1], j[1] # k[2]
      PROVE  <<j[1], k[2]>> \in DOMAIN c \cup keys
  <2>1. j = <<j[1], j[2]>> /\ k = <<k[1], k[2]>> BY <1>2, <1>5
  <2>2. CASE j \in DOMAIN c /\ k \in DOMAIN c
    <3>1. <<j[1], k[1]>> \in DOMAIN c /\ <<k[1], k[2]>> \in DOMAIN c BY <2>1, <2>2, <1>8
    <3> QED BY <3>1, <1>3, <1>8
  <2>3. CASE j \in DOMAIN c /\ k \in keys
    <3>1. <<j[1], k[1]>> \in DOMAIN c /\ k[1] \in A /\ k[2] \in B BY <2>1, <2>3, <1>5, <1>8
    <3> QED BY <3>1, <1>6, <1>8
  <2>4. CASE j \in keys /\ k \in DOMAIN c
    <3>1. <<j[2], k[2]>> \in DOMAIN c /\ j[1] \in A /\ j[2] \in B BY <2>1, <2>4, <1>5, <1>8
    <3> QED BY <3>1, <1>7, <1>8
  <2>5. CASE j \in keys /\ k \in keys
    <3>1. j[1] \in A /\ k[2] \in B BY <2>5, <1>5
    <3> QED BY <3>1, <1>4, <1>8
  <2> QED BY <2>2, <2>3, <2>4, <2>5
<1> QED BY <1>1, <1>8 DEF Closed

\* An accepted statement leaves the chains closed and the folds right.
LEMMA StatementGood ==
  ASSUME WellFormed(env), EnvLeads, Good(env), NEW s \in Statements, Fits(s)
  PROVE  Good(With(s))
<1>1. CASE s.kind = "coercion"
  <2>1. s.from \in Types /\ s.to \in Types BY <1>1 DEF Statements
  <2>2. s.from # s.to BY <1>1 DEF Fits, CoercionFits
  <2>3. Closed(Over(Extended(env.coercions, s), env.coercions))
    BY <2>1, <2>2, ExtendedClosed DEF Good, EnvLeads
  <2> DEFINE c == Over(Extended(env.coercions, s), env.coercions)
  <2> HIDE DEF c
  <2>4. With(s) = [env EXCEPT !.coercions = c] BY <1>1 DEF With, c
  <2>5. With(s).coercions = c /\ With(s).folds = env.folds /\ With(s).operators = env.operators
    BY <2>4 DEF WellFormed
  <2> QED BY <2>3, <2>5 DEF Good, FoldsRight, c
<1>2. CASE s.kind = "operator"
  <2> DEFINE c == Put(env.operators, s.on, s.name)
  <2>1. Free(env.operators, s.on, s.name) BY <1>2 DEF Fits, OperatorFits
  <2>2. Grown(c, env.operators) BY <2>1 DEF Put, Over, Free, Grown
  <2> HIDE DEF c
  <2>3. With(s) = [env EXCEPT !.operators = c] BY <1>2 DEF With, c
  <2>4. With(s).coercions = env.coercions /\ With(s).folds = env.folds /\ With(s).operators = c
    BY <2>3 DEF WellFormed
  <2> QED BY <2>2, <2>4 DEF Good, FoldsRight, Grown
<1>3. CASE s.kind = "fold"
  <2> DEFINE c == Put(env.folds, s.on, s.name)
  <2>1. FoldFits(s) BY <1>3 DEF Fits
  <2>2. /\ DOMAIN c = DOMAIN env.folds \cup {s.on} /\ c[s.on] = s.name
        /\ \A t \in DOMAIN env.folds : t # s.on => c[t] = env.folds[t]
    BY DEF Put, Over
  <2> HIDE DEF c
  <2>3. With(s) = [env EXCEPT !.folds = c] BY <1>3 DEF With, c
  <2>4. With(s).coercions = env.coercions /\ With(s).folds = c /\ With(s).operators = env.operators
    BY <2>3 DEF WellFormed
  <2> QED BY <2>1, <2>2, <2>4 DEF Good, FoldsRight, FoldFits
<1>4. CASE s.kind \in {"instance", "overload"}
  <2>1. /\ With(s).coercions = env.coercions /\ With(s).folds = env.folds
        /\ With(s).operators = env.operators
    <3>1. CASE s.kind = "overload"
      <4>1. With(s) = [env EXCEPT !.overloads = Listed(@, s.alias, s.name)] BY <3>1 DEF With
      <4> QED BY <4>1 DEF WellFormed
    <3>2. CASE s.kind = "instance"
      <4>1. With(s) = WithInstance(s.name) BY <3>2 DEF With
      <4>2. \/ With(s) = [env EXCEPT !.bundles = Put(@, KeyOf[s.name], s.name)]
            \/ With(s) = [env EXCEPT !.instances = Put(@, KeyOf[s.name], s.name)]
            \/ With(s) = [env EXCEPT !.forgetful = Listed(@, KeyOf[s.name][1], s.name)]
        BY <4>1 DEF WithInstance
      <4> QED BY <4>2 DEF WellFormed
    <3> QED BY <1>4, <3>1, <3>2
  <2> QED BY <2>1 DEF Good, FoldsRight
<1> QED BY <1>1, <1>2, <1>3, <1>4 DEF Fits

-----------------------------------------------------------------------------
(* What loading does, apart from the process it happens in: from one state    *)
(* of the stack, the modules loaded and the registries there is one way on.   *)

LoadState(q, l, e) == [stack |-> q, loaded |-> l, env |-> e]

Last(q) == q[Len(q)]
Under(q) == SubSeq(q, 1, Len(q) - 1)

\* The call on top, with one import taken.
Taken(q) == Append(Under(q), [Last(q) EXCEPT !.left = Tail(@)])

\* c is the caches; a call that has no import left is still to be merged, unless
\* it is the last.
Moves(c, x) ==
  \/ /\ Last(x.stack).left # <<>>
     /\ LET y == Head(Last(x.stack).left)
        IN y \in x.loaded \/ (y \in Modules /\ c[y] # NoCache)
  \/ /\ Last(x.stack).left = <<>> /\ Len(x.stack) > 1
     /\ Last(x.stack).of \in Modules /\ c[Last(x.stack).of] # NoCache

Moved(c, x) ==
  LET top == Last(x.stack)  y == Head(top.left)
  IN IF top.left = <<>>
     THEN LoadState(Under(x.stack), x.loaded \cup {top.of}, Loaded(x.env, c[top.of].delta))
     ELSE IF y \in x.loaded THEN LoadState(Taken(x.stack), x.loaded, x.env)
     ELSE LoadState(Append(Taken(x.stack), Frame(y, c[y].imports)), x.loaded, x.env)

\* Loading from s comes to t: t is in every set that has s and is closed.
Arrives(c, s, t) ==
  \A S : (s \in S /\ \A x \in S : Moves(c, x) => Moved(c, x) \in S) => t \in S

Begun(m, list)    == LoadState(<<Frame(m, list)>>, {}, NoRegistries)
Finished(m, l, e) == LoadState(<<Frame(m, <<>>)>>, l, e)

LEMMA ArrivesItself ==
  ASSUME NEW c, NEW s
  PROVE  Arrives(c, s, s)
BY DEF Arrives

LEMMA ArrivesOn ==
  ASSUME NEW c, NEW s, NEW t, Arrives(c, s, t), Moves(c, t)
  PROVE  Arrives(c, s, Moved(c, t))
BY DEF Arrives

\* Loading is deterministic: what is still ahead is ahead of the next state too.
LEMMA ArrivesAhead ==
  ASSUME NEW c, NEW s, NEW t, Arrives(c, s, t), Moves(c, s), s # t
  PROVE  Arrives(c, Moved(c, s), t)
<1>1. SUFFICES ASSUME NEW S, Moved(c, s) \in S, \A x \in S : Moves(c, x) => Moved(c, x) \in S
               PROVE  t \in S
  BY DEF Arrives
<1> DEFINE R == S \cup {s}
<1>2. s \in R /\ \A x \in R : Moves(c, x) => Moved(c, x) \in R
  BY <1>1
<1> HIDE DEF R
<1>3. t \in R BY <1>2 DEF Arrives
<1> QED BY <1>3 DEF R

LEMMA ArrivesLast ==
  ASSUME NEW c, NEW s, NEW t, Arrives(c, s, t), ~Moves(c, s)
  PROVE  t = s
<1>1. s \in {s} /\ \A x \in {s} : Moves(c, x) => Moved(c, x) \in {s}
  OBVIOUS
<1>2. t \in {s} BY <1>1 DEF Arrives
<1> QED BY <1>2

\* A cache written later changes nothing about what could be loaded before.
LEMMA ArrivesStays ==
  ASSUME NEW c, NEW d, NEW s, NEW t, Arrives(c, s, t),
         \A m \in Modules : c[m] # NoCache => d[m] = c[m]
  PROVE  Arrives(d, s, t)
<1>1. SUFFICES ASSUME NEW S, s \in S, \A x \in S : Moves(d, x) => Moved(d, x) \in S
               PROVE  t \in S
  BY DEF Arrives
<1>2. ASSUME NEW x \in S, Moves(c, x) PROVE Moved(c, x) \in S
  <2>1. Moves(d, x) BY <1>2 DEF Moves
  <2>2. Moved(d, x) = Moved(c, x)
    <3>1. CASE Last(x.stack).left = <<>>
      <4>1. d[Last(x.stack).of] = c[Last(x.stack).of] BY <3>1, <1>2 DEF Moves
      <4> QED BY <3>1, <4>1 DEF Moved
    <3>2. CASE Last(x.stack).left # <<>>
      <4>1. \/ Head(Last(x.stack).left) \in x.loaded
            \/ d[Head(Last(x.stack).left)] = c[Head(Last(x.stack).left)]
        BY <3>2, <1>2 DEF Moves
      <4> QED BY <3>2, <4>1 DEF Moved
    <3> QED BY <3>1, <3>2
  <2> QED BY <2>1, <2>2, <1>1
<1> QED BY <1>1, <1>2 DEF Arrives

\* A stack is its last call over the others.
LEMMA LastUnder ==
  ASSUME NEW S, NEW p \in Seq(S), NEW e \in S
  PROVE  Last(Append(p, e)) = e /\ Under(Append(p, e)) = p
<1>1. /\ Append(p, e) \in Seq(S) /\ Len(Append(p, e)) = Len(p) + 1 /\ Len(p) \in Nat
      /\ \A i \in 1..Len(p) : Append(p, e)[i] = p[i]
      /\ Append(p, e)[Len(p) + 1] = e /\ Append(p, e) # <<>>
  BY AppendProperties, LenProperties
<1> DEFINE q == Append(p, e)
<1> HIDE DEF q
<1>2. /\ SubSeq(q, 1, Len(q) - 1) \in Seq(S)
      /\ Len(SubSeq(q, 1, Len(q) - 1)) = Len(q) - 1
      /\ \A i \in 1..(Len(q) - 1) : SubSeq(q, 1, Len(q) - 1)[i] = q[i]
  <2>1. q \in Seq(S) /\ q # <<>> BY <1>1 DEF q
  <2> QED BY <2>1, RestOf
<1>3. Len(q) - 1 = Len(p) BY <1>1 DEF q
<1>4. SubSeq(q, 1, Len(q) - 1) = p
  <2>1. \A i \in 1..Len(p) : SubSeq(q, 1, Len(q) - 1)[i] = p[i] BY <1>1, <1>2, <1>3 DEF q
  <2> DEFINE r == SubSeq(q, 1, Len(q) - 1)
  <2> HIDE DEF r
  <2>2. r \in Seq(S) /\ Len(r) = Len(p) /\ \A i \in 1..Len(r) : r[i] = p[i] BY <2>1, <1>2, <1>3 DEF r
  <2>3. r = p BY <2>2, SeqEqual
  <2> QED BY <2>3 DEF r
<1> QED BY <1>1, <1>4 DEF q, Last, Under

\* A step of the process is the one way on, whatever calls lie below.
LEMMA ProcessMoves ==
  ASSUME IInv, NEW below \in Seq(Frames), NEW q \in Seq(Frames), q # <<>>, stack = below \o q,
         LoadAgain \/ LoadCache \/ (Register /\ Len(q) > 1)
  PROVE  /\ Moves(caches, LoadState(q, loaded, env))
         /\ \E r \in Seq(Frames) :
              /\ r # <<>> /\ stack' = below \o r
              /\ LoadState(r, loaded', env') = Moved(caches, LoadState(q, loaded, env))
<1> DEFINE x == LoadState(q, loaded, env)
<1>1. PICK p \in Seq(Frames), e \in Frames : q = Append(p, e)
  BY SequenceEmptyOrAppend
<1>2. stack = Append(below \o p, e) /\ below \o p \in Seq(Frames)
  <2>1. below \o (p \o <<e>>) = (below \o p) \o <<e>> /\ below \o p \in Seq(Frames)
    BY ConcatAssociative, ConcatProperties
  <2>2. Append(p, e) = p \o <<e>> /\ Append(below \o p, e) = (below \o p) \o <<e>>
    BY <2>1, AppendIsConcat
  <2> QED BY <1>1, <2>1, <2>2
<1>3. Last(q) = e /\ Under(q) = p /\ Last(stack) = e /\ Under(stack) = below \o p
  <2>1. Last(q) = e /\ Under(q) = p BY <1>1, LastUnder
  <2> DEFINE u == below \o p
  <2>2. stack = Append(u, e) /\ u \in Seq(Frames) BY <1>2
  <2> HIDE DEF u
  <2>3. Last(stack) = e /\ Under(stack) = u BY <2>2, LastUnder
  <2> QED BY <2>1, <2>3 DEF u
<1>4. /\ Top = e /\ Rest = below \o p
      /\ Dropped = Append(below \o p, [e EXCEPT !.left = Tail(@)])
      /\ Taken(q) = Append(p, [e EXCEPT !.left = Tail(@)])
  BY <1>3 DEF Top, Rest, Dropped, Last, Under, Taken
<1>5. x.stack = q /\ x.loaded = loaded /\ x.env = env
  BY DEF LoadState
<1>6. CASE LoadAgain \/ LoadCache
  <2> DEFINE f == [e EXCEPT !.left = Tail(@)]  y == Head(e.left)
  <2>1. e.left # <<>> /\ e.left \in Seq(Verified) /\ e.of \in Modules
    BY <1>4, <1>6 DEF LoadAgain, LoadCache, Frames
  <2>2. Tail(e.left) \in Seq(Verified) /\ y \in Verified
    BY <2>1, HeadAndTail
  <2>3. f \in Frames BY <2>1, <2>2 DEF Frames
  <2> HIDE DEF f
  <2>4. /\ Append(p, f) \in Seq(Frames) /\ Append(p, f) # <<>>
        /\ Append(below \o p, f) = below \o Append(p, f)
    <3>1. below \o (p \o <<f>>) = (below \o p) \o <<f>> BY <2>3, ConcatAssociative
    <3>2. Append(p, f) = p \o <<f>> /\ Append(below \o p, f) = (below \o p) \o <<f>>
      BY <2>3, <1>2, AppendIsConcat
    <3> QED BY <2>3, <3>1, <3>2, AppendProperties
  <2>5. Moves(caches, x) BY <1>3, <1>5, <2>1, <2>2 DEF Moves, Verified
  <2>6. CASE LoadAgain
    <3>1. stack' = below \o Append(p, f) /\ loaded' = loaded /\ env' = env /\ y \in loaded
      BY <2>4, <2>6, <1>4 DEF LoadAgain, f
    <3>2. Moved(caches, x) = LoadState(Append(p, f), loaded, env)
      BY <3>1, <2>1, <1>3, <1>4, <1>5 DEF Moved, f
    <3> QED BY <2>4, <2>5, <3>1, <3>2
  <2>7. CASE LoadCache
    <3> DEFINE g == Frame(y, caches[y].imports)
    <3>1. g \in Frames BY <2>2 DEF IInv, CachesLead, Frame, Frames, Verified
    <3>2. stack' = Append(below \o Append(p, f), g) /\ loaded' = loaded /\ env' = env /\ y \notin loaded
      BY <2>4, <2>7, <1>4 DEF LoadCache, f
    <3> HIDE DEF g
    <3>3. /\ Append(Append(p, f), g) \in Seq(Frames) /\ Append(Append(p, f), g) # <<>>
          /\ Append(below \o Append(p, f), g) = below \o Append(Append(p, f), g)
      <4> DEFINE u == Append(p, f)
      <4>0. u \in Seq(Frames) BY <2>4
      <4> HIDE DEF u
      <4>1. below \o (u \o <<g>>) = (below \o u) \o <<g>> /\ below \o u \in Seq(Frames)
        BY <4>0, <3>1, ConcatAssociative, ConcatProperties
      <4>2. Append(u, g) = u \o <<g>> /\ Append(below \o u, g) = (below \o u) \o <<g>>
        BY <4>0, <4>1, <3>1, AppendIsConcat
      <4>3. Append(u, g) \in Seq(Frames) /\ Append(u, g) # <<>>
        BY <4>0, <3>1, AppendProperties
      <4> QED BY <4>1, <4>2, <4>3 DEF u
    <3>4. Moved(caches, x) = LoadState(Append(Append(p, f), g), loaded, env)
      BY <3>2, <2>1, <1>3, <1>4, <1>5 DEF Moved, f, g
    <3> QED BY <2>5, <3>2, <3>3, <3>4
  <2> QED BY <1>6, <2>6, <2>7
<1>7. CASE Register /\ Len(q) > 1
  <2>1. e.left = <<>> /\ env' = Loaded(env, caches[e.of].delta) /\ loaded' = loaded \cup {e.of}
        /\ stack' = below \o p
    BY <1>4, <1>7 DEF Register
  <2>2. e.of \in Verified
    <3>1. Len(stack) \in 2..Len(stack) BY <1>7, EmptySeq DEF Register, IInv, OnlyVerified
    <3> QED BY <3>1, <1>4 DEF IInv, OnlyVerified, Top
  <2>3. Moves(caches, x) BY <1>3, <1>5, <1>7, <2>1, <2>2 DEF Moves, Verified
  <2>4. Moved(caches, x) = LoadState(p, loaded', env')
    BY <1>3, <1>5, <2>1 DEF Moved
  <2>5. p # <<>>
    <3>1. Len(q) = Len(p) + 1 BY <1>1, AppendProperties
    <3>2. Len(p) # 0 BY <3>1, <1>7
    <3> QED BY <3>2, EmptySeq
  <2> QED BY <2>1, <2>3, <2>4, <2>5
<1> QED BY <1>6, <1>7

-----------------------------------------------------------------------------
(* The invariant of replaying. *)

\* From s, loading goes through the calls for m's imports, and m's cache laid over
\* what is then there gives what m's process ended with.
CallsReplay(c, h, m, s) ==
  \E b : /\ Arrives(c, s, Finished(m, h[m].with, b))
         /\ Loaded(b, c[m].delta) = h[m].registries

CacheReplays(c, h, m) ==
  \E b : /\ Arrives(c, Begun(m, c[m].imports), Finished(m, h[m].with, b))
         /\ Loaded(b, c[m].delta) = h[m].registries
         /\ LineOf(h, h[m].with) => Stands(h, h[m].with, b)

HistoryReplays ==
  /\ DOMAIN ended = Modules
  /\ \A m \in Verified :
       /\ CacheReplays(caches, ended, m)
       /\ Lists(caches[m].delta.forgetful) /\ Lists(caches[m].delta.overloads)
       /\ LineOf(ended, ended[m].with) => Good(ended[m].registries)

\* The process itself loads as anyone who loads its module will.
ProcessReplays ==
  /\ WellFormed(env) /\ statements \in Nat
  /\ running = NoModule => env = NoRegistries
  /\ stack # <<>> =>
       /\ Arrives(caches, Begun(running, imports), LoadState(stack, loaded, env))
       /\ LineOf(ended, loaded) => Stands(ended, loaded, env)
  /\ AtStatements =>
       /\ Arrives(caches, Begun(running, imports), Finished(running, loaded, before))
       /\ WellFormed(before) /\ GrewFrom(env, before)
       /\ LineOf(ended, loaded) => Stands(ended, loaded, before) /\ Good(env)

\* With one import the process goes through that module's own loading.
FollowsImport ==
  (running # NoModule /\ Len(imports) = 1) =>
    \/ stack = <<Frame(running, imports)>> /\ loaded = {} /\ env = NoRegistries
    \/ \E q \in Seq(Frames) :
         /\ q # <<>> /\ stack = <<Frame(running, <<>>)>> \o q
         /\ CallsReplay(caches, ended, imports[1], LoadState(q, loaded, env))
    \/ stack = <<Frame(running, <<>>)>> /\ env = ended[imports[1]].registries
    \/ stack = <<>> /\ (statements = 0 => env = ended[imports[1]].registries)

ReplayInv == IInv /\ OrderInv /\ HistoryReplays /\ ProcessReplays /\ FollowsImport

LEMMA ReplayInit == Init => ReplayInv
<1>1. ASSUME Init PROVE ReplayInv
  <2>1. IInv /\ OrderInv BY <1>1, IInvInit, OrderInit
  <2>2. Verified = {} /\ DOMAIN ended = Modules BY <1>1 DEF Init, Verified
  <2>3. HistoryReplays BY <2>2 DEF HistoryReplays
  <2>4. stack = <<>> /\ running = NoModule /\ env = NoRegistries /\ statements = 0
    BY <1>1 DEF Init
  <2>5. ProcessReplays BY <2>4, EmptyWellFormed DEF ProcessReplays, AtStatements
  <2>6. FollowsImport BY <2>4 DEF FollowsImport
  <2> QED BY <2>1, <2>3, <2>5, <2>6 DEF ReplayInv
<1> QED BY <1>1

LEMMA HistoryReplaysStays ==
  ASSUME HistoryReplays, UNCHANGED <<caches, ended>>
  PROVE  HistoryReplays'
BY DEF HistoryReplays, Verified

LEMMA BeginReplays ==
  ASSUME ReplayInv, NEW m \in Modules, NEW list \in ImportLists, Begin(m, list)
  PROVE  HistoryReplays' /\ ProcessReplays' /\ FollowsImport'
<1>1. /\ running = NoModule /\ running' = m /\ imports' = list /\ stack' = <<Frame(m, list)>>
      /\ UNCHANGED <<caches, loaded, env, before, statements, ended>>
  BY DEF Begin
<1>2. loaded = {} /\ env = NoRegistries /\ WellFormed(env) /\ statements \in Nat
  BY <1>1 DEF ReplayInv, OrderInv, CallsNest, ProcessReplays
<1>3. m # NoModule /\ stack' # <<>> BY <1>1, RegistryAssumption
<1>4. Arrives(caches', Begun(running', imports'), LoadState(stack', loaded', env'))
  BY <1>1, <1>2, ArrivesItself DEF Begun
<1>5. Stands(ended', loaded', env') BY <1>1, <1>2 DEF Stands
<1>6. ProcessReplays'
  BY <1>1, <1>2, <1>3, <1>4, <1>5 DEF ProcessReplays, AtStatements
<1>7. FollowsImport' BY <1>1, <1>2 DEF FollowsImport
<1>8. HistoryReplays' BY <1>1, HistoryReplaysStays DEF ReplayInv
<1> QED BY <1>6, <1>7, <1>8

\* On a line, the cache merged is of the one module that had all of the line loaded.
LEMMA RegisterStands ==
  ASSUME ReplayInv, Register, LineOf(ended, loaded')
  PROVE  Stands(ended, loaded', env')
<1> DEFINE y == Top.of
<1>1. y \in Verified \ loaded /\ ended[y].with \subseteq loaded
  BY TopReady DEF ReplayInv
<1>2. loaded' = loaded \cup {y} /\ env' = Loaded(env, caches[y].delta) /\ stack # <<>>
  BY EmptySeq DEF Register
<1> HIDE DEF y
<1>3. ended[y].with = loaded
  <2>1. ASSUME NEW z \in loaded PROVE z \in ended[y].with
    <3>1. z \in ended[y].with \/ y \in ended[z].with \/ y = z
      BY <1>2 DEF LineOf
    <3>2. y \notin ended[z].with
      BY <1>1 DEF ReplayInv, OrderInv, LoadedClosed
    <3> QED BY <3>1, <3>2, <1>1
  <2> QED BY <2>1, <1>1
<1>4. LineOf(ended, loaded) BY <1>2 DEF LineOf
<1>5. Stands(ended, loaded, env)
  BY <1>2, <1>4 DEF ReplayInv, ProcessReplays
<1>6. PICK b : /\ Loaded(b, caches[y].delta) = ended[y].registries
               /\ Stands(ended, loaded, b)
  BY <1>1, <1>3, <1>4 DEF ReplayInv, HistoryReplays, CacheReplays
<1>7. b = env
  BY <1>5, <1>6, StandsOnce DEF ReplayInv, OrderInv, LoadedClosed
<1>8. env' = ended[y].registries BY <1>2, <1>6, <1>7
<1> QED BY <1>2, <1>3, <1>8 DEF Stands

\* A frame is what it is of and what it has left.
LEMMA FrameIs ==
  ASSUME NEW e \in Frames
  PROVE  e = Frame(e.of, e.left)
BY DEF Frames, Frame

LEMMA EmptyFrame ==
  ASSUME NEW m \in Modules
  PROVE  Frame(m, <<>>) \in Frames /\ <<Frame(m, <<>>)>> \in Seq(Frames)
<1>1. Frame(m, <<>>) \in Frames BY EmptySeq DEF Frame, Frames
<1> QED BY <1>1

LEMMA LoadProcess ==
  ASSUME ReplayInv, LoadAgain \/ LoadCache \/ Register
  PROVE  HistoryReplays' /\ ProcessReplays'
<1>1. UNCHANGED <<caches, running, imports, before, statements, ended>> /\ stack # <<>>
  BY EmptySeq DEF LoadAgain, LoadCache, Register
<1>2. stack \in Seq(Frames) /\ <<>> \in Seq(Frames) /\ stack = <<>> \o stack
  <2>1. stack \in Seq(Frames) BY DEF ReplayInv, IInv, OnlyVerified, Frames
  <2> QED BY <2>1, EmptySeq, ConcatEmptySeq
<1>3. Register => Len(stack) > 1 BY DEF Register
<1> DEFINE x == LoadState(stack, loaded, env)
<1>4. PICK r \in Seq(Frames) :
        /\ Moves(caches, x)
        /\ r # <<>> /\ stack' = <<>> \o r
        /\ LoadState(r, loaded', env') = Moved(caches, x)
  BY <1>1, <1>2, <1>3, ProcessMoves DEF ReplayInv
<1>5. stack' = r BY <1>4, ConcatEmptySeq
<1>6. Arrives(caches, Begun(running, imports), Moved(caches, x))
  BY <1>1, <1>4, ArrivesOn DEF ReplayInv, ProcessReplays
<1>7. LineOf(ended, loaded') => Stands(ended, loaded', env')
  <2>1. CASE Register BY <2>1, RegisterStands
  <2>2. CASE LoadAgain \/ LoadCache
    <3>1. loaded' = loaded /\ env' = env BY <2>2 DEF LoadAgain, LoadCache
    <3> QED BY <3>1, <1>1 DEF ReplayInv, ProcessReplays
  <2> QED BY <2>1, <2>2
<1>8. WellFormed(env')
  <2>1. CASE Register
    <3>1. Top.of \in Verified /\ env' = Loaded(env, caches[Top.of].delta)
      BY <2>1, TopReady DEF Register, ReplayInv
    <3> QED BY <3>1, LoadedWellFormed DEF ReplayInv, HistoryReplays, ProcessReplays
  <2>2. CASE LoadAgain \/ LoadCache
    <3>1. env' = env BY <2>2 DEF LoadAgain, LoadCache
    <3> QED BY <3>1 DEF ReplayInv, ProcessReplays
  <2> QED BY <2>1, <2>2
<1>9. running # NoModule BY <1>1 DEF ReplayInv, OrderInv, CallsNest
<1>10. ProcessReplays'
  <2>1. stack' # <<>> BY <1>4, <1>5
  <2>2. Arrives(caches', Begun(running', imports'), LoadState(stack', loaded', env'))
    BY <1>1, <1>4, <1>5, <1>6
  <2>3. statements' \in Nat BY <1>1 DEF ReplayInv, ProcessReplays
  <2> QED BY <1>1, <1>7, <1>8, <1>9, <2>1, <2>2, <2>3 DEF ProcessReplays, AtStatements
<1>11. HistoryReplays' BY <1>1, HistoryReplaysStays DEF ReplayInv
<1> QED BY <1>10, <1>11

LEMMA LoadFollows ==
  ASSUME ReplayInv, LoadAgain \/ LoadCache \/ Register
  PROVE  FollowsImport'
<1> DEFINE m == imports[1]  below == <<Frame(running, <<>>)>>
<1>1. UNCHANGED <<caches, running, imports, before, statements, ended>> /\ stack # <<>>
  BY EmptySeq DEF LoadAgain, LoadCache, Register
<1>2. SUFFICES ASSUME running # NoModule, Len(imports) = 1
               PROVE  \/ \E q \in Seq(Frames') :
                           /\ q # <<>> /\ stack' = below \o q
                           /\ CallsReplay(caches, ended, m, LoadState(q, loaded', env'))
                      \/ stack' = below /\ env' = ended[m].registries
  BY <1>1 DEF FollowsImport
<1>3. Verified' = Verified /\ Frames' = Frames BY <1>1 DEF Verified, Frames
<1>4. /\ stack \in Seq(Frames) /\ running \in Modules /\ m \in Verified
      /\ below \in Seq(Frames) /\ Len(below) = 1 /\ below[1] = Frame(running, <<>>)
  <2>1. stack \in Seq(Frames) /\ running \in Modules BY <1>2 DEF ReplayInv, IInv, OnlyVerified, Frames
  <2>2. m \in Verified BY <1>2, ElementOfSeq DEF ReplayInv, IInv, OnlyVerified
  <2> QED BY <2>1, <2>2, EmptyFrame
<1>5. CASE stack = <<Frame(running, imports)>> /\ loaded = {} /\ env = NoRegistries
  <2>1. Len(stack) = 1 /\ Top = Frame(running, imports) /\ Top.left = imports /\ imports # <<>>
    BY <1>2, <1>5 DEF Top, Frame
  <2>2. LoadCache
    BY <2>1, <1>5 DEF LoadAgain, Register
  <2>3. Head(imports) = m /\ Tail(imports) = <<>>
    <3>1. imports \in Seq(Verified) BY DEF ReplayInv, IInv, OnlyVerified
    <3>2. Tail(imports) \in Seq(Verified) /\ Len(Tail(imports)) = 0
      BY <3>1, <2>1, <1>2, HeadTailProperties
    <3> QED BY <3>1, <3>2, <2>1, EmptySeq
  <2>4. Dropped = below
    <3>1. Rest = <<>>
      <4>1. Len(stack) - 1 = 0 BY <2>1
      <4>2. 1 \in Int /\ 0 \in Int /\ 0 < 1 OBVIOUS
      <4>3. SubSeq(stack, 1, 0) = <<>> BY <4>2, SubSeqEmpty
      <4> QED BY <4>1, <4>3 DEF Rest
    <3>2. [Top EXCEPT !.left = Tail(@)] = Frame(running, <<>>)
      BY <2>1, <2>3 DEF Frame
    <3>3. Append(<<>>, Frame(running, <<>>)) = below OBVIOUS
    <3> QED BY <3>1, <3>2, <3>3 DEF Dropped
  <2> DEFINE f == Frame(m, caches[m].imports)  q == <<f>>
  <2>5. f \in Frames
    BY <1>4 DEF ReplayInv, IInv, CachesLead, Frame, Frames, Verified
  <2>6. stack' = Append(below, f) /\ loaded' = {} /\ env' = NoRegistries
    BY <2>1, <2>2, <2>3, <2>4, <1>5 DEF LoadCache
  <2>7. CallsReplay(caches, ended, m, LoadState(q, loaded', env'))
    <3>1. LoadState(q, loaded', env') = Begun(m, caches[m].imports) BY <2>6 DEF Begun
    <3>2. CacheReplays(caches, ended, m) BY <1>4 DEF ReplayInv, HistoryReplays
    <3> QED BY <3>1, <3>2 DEF CacheReplays, CallsReplay
  <2> HIDE DEF f
  <2>8. q \in Seq(Frames) /\ q # <<>> /\ Append(below, f) = below \o q
    <3> HIDE DEF below
    <3> QED BY <2>5, <1>4, AppendIsConcat
  <2> QED BY <2>6, <2>7, <2>8, <1>3
<1>6. ASSUME NEW q \in Seq(Frames), q # <<>>, stack = below \o q,
             CallsReplay(caches, ended, m, LoadState(q, loaded, env))
      PROVE  \/ \E r \in Seq(Frames) :
                  /\ r # <<>> /\ stack' = below \o r
                  /\ CallsReplay(caches, ended, m, LoadState(r, loaded', env'))
             \/ stack' = below /\ env' = ended[m].registries
  <2> DEFINE x == LoadState(q, loaded, env)
  <2>1. PICK b : /\ Arrives(caches, x, Finished(m, ended[m].with, b))
                 /\ Loaded(b, caches[m].delta) = ended[m].registries
    BY <1>6 DEF CallsReplay
  <2> DEFINE t == Finished(m, ended[m].with, b)
  <2>2. ~Moves(caches, t)
    BY DEF Moves, Finished, LoadState, Last, Frame
  <2>3. CASE LoadAgain \/ LoadCache \/ (Register /\ Len(q) > 1)
    <3> HIDE DEF below
    <3>1. PICK r \in Seq(Frames) :
            /\ Moves(caches, x)
            /\ r # <<>> /\ stack' = below \o r
            /\ LoadState(r, loaded', env') = Moved(caches, x)
      BY <1>4, <1>6, <2>3, ProcessMoves DEF ReplayInv
    <3>2. Arrives(caches, Moved(caches, x), t)
      BY <2>1, <2>2, <3>1, ArrivesAhead
    <3> QED BY <3>1, <3>2, <2>1 DEF CallsReplay
  <2>4. CASE Register /\ ~(Len(q) > 1)
    <3>1. PICK p \in Seq(Frames), e \in Frames : q = Append(p, e)
      BY <1>6, SequenceEmptyOrAppend
    <3>2. p = <<>> /\ q = <<e>> /\ Len(q) = 1
      <4>1. Len(q) = Len(p) + 1 /\ Len(p) \in Nat BY <3>1, AppendProperties, LenProperties
      <4>2. Len(p) = 0 BY <4>1, <2>4
      <4>3. p = <<>> BY <4>2, EmptySeq
      <4> QED BY <4>3, <3>1
    <3>3. stack = Append(below, e)
      <4> HIDE DEF below
      <4> QED BY <3>2, <1>4, <1>6, AppendIsConcat
    <3>4. Top = e /\ Rest = below
      <4> HIDE DEF below
      <4>1. Last(stack) = e /\ Under(stack) = below BY <3>3, <1>4, LastUnder
      <4> QED BY <4>1 DEF Last, Under, Top, Rest
    <3>5. e.left = <<>> /\ stack' = below /\ env' = Loaded(env, caches[e.of].delta)
      BY <2>4, <3>4 DEF Register
    <3>6. ~Moves(caches, x)
      BY <3>2, <3>5 DEF Moves, LoadState, Last
    <3>7. t = x BY <2>1, <3>6, ArrivesLast
    <3>8. env = b /\ q = <<Frame(m, <<>>)>>
      BY <3>7 DEF Finished, LoadState
    <3>9. e.of = m BY <3>2, <3>8 DEF Frame
    <3> QED BY <3>5, <3>8, <3>9, <2>1
  <2> QED BY <2>3, <2>4
<1>7. CASE stack = below /\ env = ended[m].registries
  <2>1. Len(stack) = 1 /\ Top = Frame(running, <<>>) /\ Top.left = <<>>
    BY <1>7 DEF Top, Frame
  <2>2. FALSE BY <2>1 DEF LoadAgain, LoadCache, Register
  <2> QED BY <2>2
<1> QED BY <1>1, <1>2, <1>3, <1>5, <1>6, <1>7 DEF ReplayInv, FollowsImport

LEMMA StartStatementsReplays ==
  ASSUME ReplayInv, StartStatements
  PROVE  HistoryReplays' /\ ProcessReplays' /\ FollowsImport'
<1>1. /\ UNCHANGED <<caches, running, imports, loaded, env, statements, ended>>
      /\ stack' = <<>> /\ before' = env /\ Len(stack) = 1 /\ Top.left = <<>>
  BY DEF StartStatements
<1>2. running # NoModule /\ running \in Modules /\ stack # <<>> /\ stack[1].of = running
  <2>1. stack # <<>> BY <1>1
  <2>2. running # NoModule BY <2>1 DEF ReplayInv, OrderInv, CallsNest
  <2> QED BY <2>1, <2>2 DEF ReplayInv, OrderInv, CallsNest, IInv, OnlyVerified
<1>3. stack = <<Frame(running, <<>>)>>
  <2>1. stack \in Seq(Frames) BY DEF ReplayInv, IInv, OnlyVerified, Frames
  <2>2. stack[1] = Frame(running, <<>>)
    <3>1. 1 \in 1..Len(stack) BY <1>1
    <3>2. stack[1] \in Frames BY <2>1, <3>1, ElementOfSeq
    <3>3. stack[1].left = <<>> BY <1>1 DEF Top
    <3> QED BY <3>2, <3>3, <1>2, FrameIs
  <2> QED BY <1>1, <1>2, <2>1, <2>2, EmptyFrame, SeqEqual
<1>4. /\ Arrives(caches, Begun(running, imports), Finished(running, loaded, env))
      /\ WellFormed(env) /\ GrewFrom(env, env)
      /\ LineOf(ended, loaded) => Stands(ended, loaded, env)
  BY <1>2, <1>3, GrewFromItself DEF ReplayInv, ProcessReplays, Finished
<1>5. LineOf(ended, loaded) => Good(env)
  <2>1. SUFFICES ASSUME LineOf(ended, loaded), Stands(ended, loaded, env) PROVE Good(env)
    BY <1>4
  <2>2. CASE loaded = {} /\ env = NoRegistries
    BY <2>2 DEF Good, Closed, FoldsRight, NoRegistries, Empty
  <2>3. ASSUME NEW x \in loaded, loaded = ended[x].with \cup {x}, env = ended[x].registries
        PROVE  Good(env)
    <3>1. x \in Verified BY DEF ReplayInv, OrderInv, LoadedClosed
    <3>2. LineOf(ended, ended[x].with) BY <2>1, <2>3, LineBelow
    <3> QED BY <2>3, <3>1, <3>2 DEF ReplayInv, HistoryReplays
  <2> QED BY <2>1, <2>2, <2>3 DEF Stands
<1>6. ProcessReplays'
  <2>1. statements' \in Nat BY <1>1 DEF ReplayInv, ProcessReplays
  <2>2. /\ Arrives(caches', Begun(running', imports'), Finished(running', loaded', before'))
        /\ WellFormed(env') /\ WellFormed(before') /\ GrewFrom(env', before')
        /\ LineOf(ended', loaded') => Stands(ended', loaded', before') /\ Good(env')
    BY <1>1, <1>4, <1>5
  <2> QED BY <1>1, <1>2, <2>1, <2>2 DEF ProcessReplays
<1>7. FollowsImport'
  <2>1. SUFFICES ASSUME Len(imports) = 1 PROVE env = ended[imports[1]].registries
    BY <1>1 DEF FollowsImport
  <2>2. CASE stack = <<Frame(running, imports)>>
    <3>1. imports = <<>> BY <2>2, <1>3 DEF Frame
    <3> QED BY <3>1, <2>1
  <2>3. ASSUME NEW q \in Seq(Frames), q # <<>>, stack = <<Frame(running, <<>>)>> \o q PROVE FALSE
    <3>1. Len(q) # 0 /\ Len(q) \in Nat BY <2>3, EmptySeq
    <3>2. Len(stack) = Len(<<Frame(running, <<>>)>>) + Len(q)
      BY <2>3, <1>2, EmptyFrame, ConcatProperties
    <3>3. Len(<<Frame(running, <<>>)>>) = 1 OBVIOUS
    <3>4. Len(stack) = 1 BY <1>1
    <3> DEFINE n == Len(q)
    <3>5. n # 0 /\ n \in Nat /\ 1 = 1 + n BY <3>1, <3>2, <3>3, <3>4
    <3> HIDE DEF n
    <3> QED BY <3>5
  <2> QED BY <2>1, <2>2, <2>3, <1>2 DEF ReplayInv, FollowsImport
<1>8. HistoryReplays' BY <1>1, HistoryReplaysStays DEF ReplayInv
<1> QED BY <1>6, <1>7, <1>8

LEMMA StatementReplays ==
  ASSUME ReplayInv, running # NoModule, NEW s \in Text[running], Statement(s)
  PROVE  HistoryReplays' /\ ProcessReplays' /\ FollowsImport'
<1>1. /\ UNCHANGED <<caches, running, imports, stack, loaded, before, ended>>
      /\ env' = With(s) /\ statements' = statements + 1 /\ Fits(s) /\ AtStatements /\ stack = <<>>
  BY DEF Statement, AtStatements
<1>2. s \in Statements
  BY RegistryAssumption DEF ReplayInv, IInv, OnlyVerified
<1>3. /\ WellFormed(env) /\ WellFormed(before) /\ GrewFrom(env, before) /\ EnvLeads /\ statements \in Nat
      /\ Arrives(caches, Begun(running, imports), Finished(running, loaded, before))
      /\ LineOf(ended, loaded) => Stands(ended, loaded, before) /\ Good(env)
  BY <1>1 DEF ReplayInv, ProcessReplays, IInv
<1>4. WellFormed(env') /\ GrewFrom(env', before)
  BY <1>1, <1>2, <1>3, WithGrows
<1>5. Good(env) => Good(env')
  BY <1>1, <1>2, <1>3, StatementGood
<1>6. statements' \in Nat /\ statements' # 0 BY <1>1, <1>3
<1>7. ProcessReplays'
  <2>1. /\ Arrives(caches', Begun(running', imports'), Finished(running', loaded', before'))
        /\ WellFormed(env') /\ WellFormed(before') /\ GrewFrom(env', before')
        /\ LineOf(ended', loaded') => Stands(ended', loaded', before') /\ Good(env')
    BY <1>1, <1>3, <1>4, <1>5
  <2>2. stack' = <<>> /\ running' # NoModule BY <1>1, <1>2, <1>3 DEF AtStatements
  <2> QED BY <2>1, <2>2, <1>6 DEF ProcessReplays
<1>8. FollowsImport' BY <1>1, <1>6 DEF FollowsImport
<1>9. HistoryReplays' BY <1>1, HistoryReplaysStays DEF ReplayInv
<1> QED BY <1>7, <1>8, <1>9

\* A process that ends leaves nothing to replay.
LEMMA EndedReplays ==
  ASSUME ProcessEnds
  PROVE  ProcessReplays' /\ FollowsImport'
<1>1. running' = NoModule /\ stack' = <<>> /\ env' = NoRegistries /\ statements' = 0
  BY DEF ProcessEnds
<1>2. WellFormed(env') BY <1>1, EmptyWellFormed
<1> QED BY <1>1, <1>2 DEF ProcessReplays, FollowsImport, AtStatements

LEMMA RefuseReplays ==
  ASSUME ReplayInv, NEW s, Refuse(s)
  PROVE  HistoryReplays' /\ ProcessReplays' /\ FollowsImport'
BY EndedReplays, HistoryReplaysStays DEF Refuse, ReplayInv

LEMMA WriteCacheReplays ==
  ASSUME ReplayInv, WriteCache
  PROVE  HistoryReplays' /\ ProcessReplays' /\ FollowsImport'
<1>1. /\ running \in Modules \ Verified
      /\ Verified \subseteq Verified' /\ Verified' \subseteq Verified \cup {running}
      /\ \A m \in Verified : caches'[m] = caches[m] /\ ended'[m] = ended[m]
      /\ caches'[running] = [imports |-> imports, delta |-> Delta(env, before)]
      /\ ended'[running] = [registries |-> env, with |-> loaded]
  BY WriteCacheAdds DEF ReplayInv, HistoryReplays
<1>2. ProcessEnds /\ AtStatements /\ DOMAIN ended' = DOMAIN ended BY DEF WriteCache
<1>3. /\ WellFormed(env) /\ WellFormed(before) /\ GrewFrom(env, before)
      /\ Arrives(caches, Begun(running, imports), Finished(running, loaded, before))
      /\ LineOf(ended, loaded) => Stands(ended, loaded, before) /\ Good(env)
  BY <1>2 DEF ReplayInv, ProcessReplays
<1>4. \A m \in Modules : caches[m] # NoCache => caches'[m] = caches[m]
  BY <1>1 DEF Verified
\* What was verified with verified modules is a line, or stands, as it did.
<1>5. ASSUME NEW L \in SUBSET Verified
      PROVE  /\ LineOf(ended', L) <=> LineOf(ended, L)
             /\ \A e : Stands(ended', L, e) <=> Stands(ended, L, e)
  <2>1. \A x \in L : ended'[x] = ended[x] BY <1>1
  <2> QED BY <2>1 DEF LineOf, Stands
<1>6. ASSUME NEW m \in Verified
      PROVE  CacheReplays(caches', ended', m)
  <2>1. PICK b : /\ Arrives(caches, Begun(m, caches[m].imports), Finished(m, ended[m].with, b))
                 /\ Loaded(b, caches[m].delta) = ended[m].registries
                 /\ LineOf(ended, ended[m].with) => Stands(ended, ended[m].with, b)
    BY DEF ReplayInv, HistoryReplays, CacheReplays
  <2>2. Arrives(caches', Begun(m, caches[m].imports), Finished(m, ended[m].with, b))
    BY <2>1, <1>4, ArrivesStays
  <2>3. ended[m].with \in SUBSET Verified BY DEF ReplayInv, OrderInv, HistoryOrdered
  <2>4. LineOf(ended', ended[m].with) => Stands(ended', ended[m].with, b)
    BY <2>1, <2>3, <1>5
  <2>5. caches'[m] = caches[m] /\ ended'[m] = ended[m] BY <1>1
  <2> QED BY <2>1, <2>2, <2>4, <2>5 DEF CacheReplays
<1>7. loaded \in SUBSET Verified BY DEF ReplayInv, OrderInv, LoadedClosed
<1>8. CacheReplays(caches', ended', running)
  <2>1. Arrives(caches', Begun(running, imports), Finished(running, loaded, before))
    BY <1>3, <1>4, ArrivesStays
  <2>2. Loaded(before, Delta(env, before)) = env
    BY <1>3, DeltaRestores
  <2>3. LineOf(ended', loaded) => Stands(ended', loaded, before)
    BY <1>3, <1>5, <1>7
  <2>4. /\ caches'[running].imports = imports /\ caches'[running].delta = Delta(env, before)
        /\ ended'[running].registries = env /\ ended'[running].with = loaded
    BY <1>1
  <2> QED BY <2>1, <2>2, <2>3, <2>4 DEF CacheReplays
<1>9. ASSUME NEW m \in Verified'
      PROVE  /\ CacheReplays(caches', ended', m)
             /\ Lists(caches'[m].delta.forgetful) /\ Lists(caches'[m].delta.overloads)
             /\ LineOf(ended', ended'[m].with) => Good(ended'[m].registries)
  <2>1. CASE m \in Verified
    <3>1. caches'[m] = caches[m] /\ ended'[m] = ended[m] BY <2>1, <1>1
    <3>2. ended[m].with \in SUBSET Verified BY <2>1 DEF ReplayInv, OrderInv, HistoryOrdered
    <3>3. LineOf(ended', ended[m].with) => Good(ended[m].registries)
      BY <2>1, <3>2, <1>5 DEF ReplayInv, HistoryReplays
    <3> QED BY <2>1, <3>1, <3>3, <1>6 DEF ReplayInv, HistoryReplays
  <2>2. CASE m = running
    <3>1. /\ caches'[m].delta = Delta(env, before)
          /\ ended'[m].registries = env /\ ended'[m].with = loaded
      BY <2>2, <1>1
    <3>2. Lists(Delta(env, before).forgetful) /\ Lists(Delta(env, before).overloads)
      BY <1>3, RemainingType DEF Delta, WellFormed
    <3>3. LineOf(ended', loaded) => Good(env) BY <1>3, <1>5, <1>7
    <3> QED BY <2>2, <3>1, <3>2, <3>3, <1>8
  <2> QED BY <2>1, <2>2, <1>1
<1>10. HistoryReplays'
  BY <1>2, <1>9 DEF ReplayInv, HistoryReplays
<1> QED BY <1>2, <1>10, EndedReplays

LEMMA ReplayStep == ReplayInv /\ [Next]_vars => ReplayInv'
<1> SUFFICES ASSUME ReplayInv, [Next]_vars PROVE ReplayInv'
  OBVIOUS
<1>0. IInv' /\ IInv /\ OrderInv /\ DOMAIN ended = Modules
  BY IInvStep DEF ReplayInv, HistoryReplays
<1>1. CASE \E m \in Modules, list \in ImportLists : Begin(m, list)
  BY <1>0, <1>1, BeginOrders, BeginReplays DEF ReplayInv
<1>2. CASE LoadAgain \/ LoadCache \/ Register
  <2>1. OrderInv' BY <1>0, <1>2, LoadAgainOrders, LoadCacheOrders, RegisterOrders
  <2> QED BY <1>0, <1>2, <2>1, LoadProcess, LoadFollows DEF ReplayInv
<1>3. CASE StartStatements
  BY <1>0, <1>3, StartStatementsOrders, StartStatementsReplays DEF ReplayInv
<1>4. CASE running # NoModule /\ \E s \in Text[running] : Statement(s) \/ Refuse(s)
  <2>1. PICK s \in Text[running] : Statement(s) \/ Refuse(s) BY <1>4
  <2>2. CASE Statement(s)
    BY <1>0, <1>4, <2>2, StatementOrders, StatementReplays DEF ReplayInv
  <2>3. CASE Refuse(s)
    BY <1>0, <2>3, RefuseOrders, RefuseReplays DEF ReplayInv
  <2> QED BY <2>1, <2>2, <2>3
<1>5. CASE WriteCache
  BY <1>0, <1>5, WriteCacheOrders, WriteCacheReplays DEF ReplayInv
<1>6. CASE UNCHANGED vars
  <2>1. UNCHANGED <<caches, running, imports, stack, loaded, env, before, statements, ended>>
    BY <1>6 DEF vars, process
  <2>2. OrderInv'
    <3>1. HistoryOrdered' /\ Verified' = Verified BY <1>0, <2>1, HistoryStays DEF OrderInv
    <3>2. LoadedClosed' BY <1>0, <2>1, <3>1 DEF OrderInv, LoadedClosed, Owed
    <3>3. CallsNest' BY <1>0, <2>1 DEF OrderInv, CallsNest, ImportsAt, Owed
    <3> QED BY <3>1, <3>2, <3>3 DEF OrderInv
  <2>3. HistoryReplays' BY <2>1, HistoryReplaysStays DEF ReplayInv
  <2>4. ProcessReplays' BY <2>1 DEF ReplayInv, ProcessReplays, AtStatements
  <2>5. FollowsImport' BY <2>1 DEF ReplayInv, FollowsImport, Frames, Verified
  <2> QED BY <1>0, <2>2, <2>3, <2>4, <2>5 DEF ReplayInv
<1> QED BY <1>1, <1>2, <1>3, <1>4, <1>5, <1>6 DEF Next

-----------------------------------------------------------------------------
(* What follows. *)

\* A module that imports one other starts with exactly the registries that other
\* module's own process ended with.
THEOREM LoadingReplays == Spec => []CachesReplay
<1>1. ReplayInv => CachesReplay
  <2>1. SUFFICES ASSUME ReplayInv, AtStatements, statements = 0, Len(imports) = 1
                 PROVE  env = ended[imports[1]].registries
    BY DEF CachesReplay
  <2>2. running # NoModule /\ stack = <<>> BY <2>1 DEF AtStatements
  <2>3. \A q \in Seq(Frames) : <<Frame(running, <<>>)>> \o q # <<>>
    <3>1. running \in Modules BY <2>1, <2>2 DEF ReplayInv, IInv, OnlyVerified
    <3> QED BY <3>1, EmptyFrame, ConcatEqualIffEmpty
  <2> QED BY <2>1, <2>2, <2>3 DEF ReplayInv, FollowsImport
<1> QED BY <1>1, ReplayInit, ReplayStep, PTL DEF Spec

\* Along a line of modules the coercions a process has are transitively closed.
THEOREM LinesClosed == Spec => []LinesAreClosed
<1>1. ReplayInv => LinesAreClosed
  <2>1. SUFFICES ASSUME ReplayInv, AtStatements, Line PROVE Closed(env.coercions)
    BY DEF LinesAreClosed, Closed
  <2>2. LineOf(ended, loaded) BY <2>1 DEF Line, LineOf
  <2> QED BY <2>1, <2>2 DEF ReplayInv, ProcessReplays, Good
<1> QED BY <1>1, ReplayInit, ReplayStep, PTL DEF Spec

\* Along a line of modules a fold operation is its carrier's operator still.
THEOREM FoldsAgreeOnLines == Spec => []FoldsAgree
<1>1. ReplayInv => FoldsAgree
  <2>1. SUFFICES ASSUME ReplayInv, AtStatements, Line PROVE FoldsRight(env)
    BY DEF FoldsAgree, FoldsRight
  <2>2. LineOf(ended, loaded) BY <2>1 DEF Line, LineOf
  <2> QED BY <2>1, <2>2 DEF ReplayInv, ProcessReplays, Good
<1> QED BY <1>1, ReplayInit, ReplayStep, PTL DEF Spec

\* t reads both, and every type that reads both.
Joins(a, b, t) ==
  t \in Types /\ Reach(a, t) /\ Reach(b, t)
  /\ \A u \in Types : (Reach(a, u) /\ Reach(b, u)) => Reach(t, u)

\* The carrier of a sum of two, if there is one, is their join.
LEMMA CommonJoins ==
  ASSUME NEW a \in Types, NEW b \in Types, Common(a, b) # NoName
  PROVE  Joins(a, b, Common(a, b))
<1>0. Reach(a, a) /\ Reach(b, b) BY DEF Reach
<1>1. CASE Reach(a, b)
  <2>1. Common(a, b) = b BY <1>1 DEF Common
  <2> QED BY <1>0, <1>1, <2>1 DEF Joins
<1>2. CASE ~Reach(a, b) /\ Reach(b, a)
  <2>1. Common(a, b) = a BY <1>2 DEF Common
  <2> QED BY <1>0, <1>2, <2>1 DEF Joins
<1>3. CASE ~Reach(a, b) /\ ~Reach(b, a)
  <2> DEFINE least == {t \in Above(a, b) : \A u \in Above(a, b) : Reach(t, u)}
  <2>1. Common(a, b) = IF Cardinality(least) = 1 THEN CHOOSE t \in least : TRUE ELSE NoName
    BY <1>3 DEF Common
  <2>2. Cardinality(least) = 1 BY <2>1
  <2>3. least # {}
    <3> HIDE DEF least
    <3>1. Cardinality({}) = 0 BY FS_EmptySet
    <3> QED BY <2>2, <3>1
  <2> HIDE DEF least
  <2>4. Common(a, b) \in least BY <2>1, <2>2, <2>3
  <2> QED BY <2>4 DEF least, Joins, Above
<1> QED BY <1>1, <1>2, <1>3

\* Where types read as one another in one direction only and chains compose, the
\* carrier of a sum of three is the same however it is bracketed.
THEOREM JoinsAssociative == Spec => []JoinsAssociate
<1>1. ReplayInv => JoinsAssociate
  <2>1. SUFFICES ASSUME ReplayInv, AtStatements, Line, OneWay,
                        NEW a \in Types, NEW b \in Types, NEW c \in Types,
                        Common(a, b) # NoName, Common(b, c) # NoName,
                        Common(Common(a, b), c) # NoName, Common(a, Common(b, c)) # NoName
                 PROVE  Common(Common(a, b), c) = Common(a, Common(b, c))
    BY DEF JoinsAssociate
  <2>2. LineOf(ended, loaded) BY <2>1 DEF Line, LineOf
  <2>3. Closed(env.coercions) BY <2>1, <2>2 DEF ReplayInv, ProcessReplays, Good
  <2>4. \A X, Y : <<X, Y>> \in DOMAIN env.coercions => X # Y /\ <<Y, X>> \notin DOMAIN env.coercions
    <3>1. ASSUME NEW X, NEW Y, <<X, Y>> \in DOMAIN env.coercions
          PROVE  X # Y /\ <<Y, X>> \notin DOMAIN env.coercions
      <4>1. <<X, Y>>[1] = X /\ <<X, Y>>[2] = Y OBVIOUS
      <4>2. X # Y BY <3>1, <4>1, <2>1 DEF ReplayInv, IInv, EnvLeads, Led
      <4>3. <<<<X, Y>>[2], <<X, Y>>[1]>> \notin DOMAIN env.coercions BY <3>1, <2>1 DEF OneWay
      <4> QED BY <4>1, <4>2, <4>3
    <3> QED BY <3>1
  <2>5. \A X, Y : (Reach(X, Y) /\ Reach(Y, X)) => X = Y
    BY <2>4 DEF Reach
  <2>6. \A X, Y, Z : (Reach(X, Y) /\ Reach(Y, Z)) => Reach(X, Z)
    <3>1. ASSUME NEW X, NEW Y, NEW Z, <<X, Y>> \in DOMAIN env.coercions,
                 <<Y, Z>> \in DOMAIN env.coercions, X # Z
          PROVE  <<X, Z>> \in DOMAIN env.coercions
      <4>1. <<X, Y>>[2] = <<Y, Z>>[1] /\ <<X, Y>>[1] = X /\ <<Y, Z>>[2] = Z OBVIOUS
      <4>2. <<<<X, Y>>[1], <<Y, Z>>[2]>> \in DOMAIN env.coercions BY <3>1, <4>1, <2>3 DEF Closed
      <4> QED BY <4>1, <4>2
    <3> QED BY <3>1 DEF Reach
  <2>7. Joins(a, b, Common(a, b)) /\ Joins(b, c, Common(b, c))
    BY <2>1, CommonJoins
  <2>8. /\ Joins(Common(a, b), c, Common(Common(a, b), c))
        /\ Joins(a, Common(b, c), Common(a, Common(b, c)))
    <3> DEFINE l == Common(a, b)  r == Common(b, c)
    <3>1. l \in Types /\ r \in Types BY <2>7 DEF Joins
    <3>2. Common(l, c) # NoName /\ Common(a, r) # NoName BY <2>1
    <3> HIDE DEF l, r
    <3>3. Joins(l, c, Common(l, c)) /\ Joins(a, r, Common(a, r)) BY <3>1, <3>2, CommonJoins
    <3> QED BY <3>3 DEF l, r
  <2> DEFINE l == Common(a, b)  r == Common(b, c)  one == Common(l, c)  two == Common(a, r)
  <2>9. Joins(a, b, l) /\ Joins(b, c, r) /\ Joins(l, c, one) /\ Joins(a, r, two)
    BY <2>7, <2>8
  <2> HIDE DEF l, r, one, two
  <2>10. Reach(one, two)
    <3>1. two \in Types /\ Reach(a, two) /\ Reach(b, two) /\ Reach(c, two)
      BY <2>6, <2>9 DEF Joins
    <3>2. Reach(l, two) BY <3>1, <2>9 DEF Joins
    <3> QED BY <3>1, <3>2, <2>9 DEF Joins
  <2>11. Reach(two, one)
    <3>1. one \in Types /\ Reach(a, one) /\ Reach(b, one) /\ Reach(c, one)
      BY <2>6, <2>9 DEF Joins
    <3>2. Reach(r, one) BY <3>1, <2>9 DEF Joins
    <3> QED BY <3>1, <3>2, <2>9 DEF Joins
  <2> QED BY <2>5, <2>10, <2>11 DEF l, r, one, two
<1> QED BY <1>1, ReplayInit, ReplayStep, PTL DEF Spec
=============================================================================
