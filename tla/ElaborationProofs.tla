------------------------- MODULE ElaborationProofs -------------------------
(***************************************************************************)
(* Of Elaboration, for every set of definitions, every budget and every      *)
(* cap: types are kept (TypeOK); every scope gives back what it took          *)
(* (ScopesRestore), a definition every opacity (OpacityRestored); no window   *)
(* sees the counter fall behind its snapshot (WindowsOutliveNoReset), no      *)
(* claim or calc step trips short of its limit (ClaimTripsAreReal), the bare  *)
(* error of the budget stays inside the prover (BareTripsStayInside), and a   *)
(* scan starts no search (ScansDoNotSearch).                                 *)
(*                                                                         *)
(* The invariant speaks of every frame and of the controls inside it: those  *)
(* the frame above has saved, or the current ones.  Leaving the frame with   *)
(* the controls inside it gives what the frame has saved, so that all of the *)
(* stack unwinds to where it began.                                          *)
(***************************************************************************)
EXTENDS Elaboration, SequenceTheorems, TLAPS

\* The controls p are those of the top of the stack s.
Inside(s, p, i) == IF i = Len(s) THEN p ELSE s[i + 1].saved

\* What the declarations and the readings are made of; the prover is not in
\* it.
Outer     == {"retry", "statement", "axiom", "definition", "attempt"}
Searching == {"claim", "calc", "scan", "resolve", "sublemma"}

\* What a frame may stand on, near or far.  Nothing stands on a scan.
Beneath(kind) ==
  CASE kind = "retry"                -> {}
    [] kind \in {"statement", "axiom"} -> {"retry"}
    [] kind = "definition"           -> {"retry", "statement"}
    [] kind = "attempt"              -> Outer
    [] OTHER                         -> Kinds \ {"scan"}

Standing(s) ==
  /\ s # <<>> => s[1].kind \in {"retry", "statement", "axiom"}
  /\ \A i, j \in 1..Len(s) : i < j => s[i].kind \in Beneath(s[j].kind)

\* The frames that the actions build.
Shaped(f) ==
  /\ f.armed => f.kind \in {"claim", "calc", "resolve"}
  /\ f.guard = "window" => f.handler = "all" /\ f.kind = "claim"
  /\ f.kind \in {"statement", "axiom", "definition"} => f.guard = "none"
  /\ f.kind = "resolve" => f.handler = "none"

\* Controls that agree but for the trip.
Same(c, d) ==
  /\ c.active = d.active       /\ c.snapshot = d.snapshot
  /\ c.limit = d.limit         /\ c.depth = d.depth
  /\ c.chaining = d.chaining   /\ c.flips = d.flips
  /\ c.reductio = d.reductio   /\ c.scan = d.scan
  /\ c.uncapped = d.uncapped

Calm(c) == ~c.active /\ c.depth = 0

\* Of controls when the counter is at k: a closed window has no snapshot and
\* no trip, and an open one was not overtaken by a reset.
Sound(c, k) ==
  /\ ~c.active => c.snapshot = 0 /\ ~c.tripped
  /\ c.active => k >= c.snapshot

\* What a frame of this kind relies on while it is open.
Within(kind, c) ==
  /\ kind \in Outer => Calm(c)
  /\ kind \in {"claim", "scan"} => c.depth >= 1
  /\ kind = "scan" => c.scan

Bounded(c) == c.depth <= MaxDepth /\ c.chaining <= ChainCap /\ c.flips <= 1

SavedOK(f, k) ==
  /\ Sound(f.saved, k) /\ Bounded(f.saved)
  /\ f.kind \in Outer => Calm(f.saved)

FrameOK(f, c, k) ==
  /\ Shaped(f) /\ SavedOK(f, k) /\ Within(f.kind, c)
  /\ Same(Leave(f, c, "no"), f.saved)

StackOK(s, p, k) ==
  Standing(s) /\ \A i \in 1..Len(s) : FrameOK(s[i], Inside(s, p, i), k)

\* One of the first i frames is a resolution that opened the window.
Excused(s, i) == \E j \in 1..i : s[j].kind = "resolve" /\ s[j].armed

\* Of the controls c inside the frame i: no resolution, and no lemma it tries,
\* is in a window that no resolution has opened, hence no limit is lowered in
\* one; and a trip that nothing excuses is real.
WindowAt(s, c, k, i) ==
  /\ c.active /\ s[i].kind \in {"resolve", "sublemma"} => Excused(s, i)
  /\ s[i].guard = "probe" /\ s[i].saved.active => Excused(s, i)
  /\ c.tripped => Excused(s, i) \/ k - c.snapshot >= c.limit

WindowsOK(s, p, k) == \A i \in 1..Len(s) : WindowAt(s, Inside(s, p, i), k, i)

ProverOK ==
  /\ Sound(prover, steps)
  /\ Bounded(prover) \/ (stack # <<>> /\ Top.kind = "claim" /\ thrown # "no")
  /\ stack = <<>> => Calm(prover)
  /\ thrown = "raw" => prover.active /\ stack # <<>> /\ Top.kind \in Searching

IsFirst(notes, n, k, i) ==
  /\ i \in (k + 1)..Len(notes) /\ notes[i][1] = n
  /\ \A j \in (k + 1)..Len(notes) : notes[j][1] = n => i <= j

\* Undoing the notes after the first k, with the opacities o, gives o0.
Undoes(notes, o, k, o0) ==
  /\ k <= Len(notes)
  /\ \A n \in Names :
       \/ /\ \A i \in (k + 1)..Len(notes) : notes[i][1] # n
          /\ o[n] = o0[n]
       \/ \E i \in (k + 1)..Len(notes) : IsFirst(notes, n, k, i) /\ notes[i][2] = o0[n]

\* While a definition is open, undoing its notes gives what it found.
ScopeOK ==
  (\E i \in 1..Len(stack) : stack[i].kind = "definition") =>
    Undoes(pending, opacity, scope.start, scope.before)

IInv ==
  /\ TypeOK
  /\ StackOK(stack, prover, steps)
  /\ WindowsOK(stack, prover, steps)
  /\ ProverOK
  /\ ScopeOK
-----------------------------------------------------------------------------
(* Controls and what leaving a frame does to them. *)

LEMMA UntrippedIsSame ==
  ASSUME NEW c \in Controls, NEW d \in Controls
  PROVE  Untripped(c) = Untripped(d) <=> Same(c, d)
  BY DEF Controls, Untripped, Same

\* Field by field: r is what leaving f with the controls c gives.
LeftAs(f, c, r) ==
  /\ r = [active |-> r.active, tripped |-> r.tripped, snapshot |-> r.snapshot,
          limit |-> r.limit, depth |-> r.depth, chaining |-> r.chaining,
          flips |-> r.flips, reductio |-> r.reductio, scan |-> r.scan,
          uncapped |-> r.uncapped]
  /\ r.active = IF f.guard = "window" THEN f.saved.active ELSE c.active /\ ~f.armed
  /\ r.tripped = IF f.guard = "window" THEN f.saved.tripped ELSE c.tripped /\ ~f.armed
  /\ r.snapshot = IF f.guard = "window" THEN f.saved.snapshot
                  ELSE IF f.armed THEN 0 ELSE c.snapshot
  /\ r.limit = IF f.guard \in {"window", "probe"} THEN f.saved.limit ELSE c.limit
  /\ r.depth = IF f.guard = "sideCondition" THEN f.saved.depth
               ELSE IF f.kind = "claim" THEN c.depth - 1 ELSE c.depth
  /\ r.chaining = IF f.guard = "sideCondition" THEN f.saved.chaining
                  ELSE IF f.guard = "chaining" THEN c.chaining - 1 ELSE c.chaining
  /\ r.flips = IF f.guard = "flip" THEN c.flips - 1 ELSE c.flips
  /\ r.reductio = IF f.guard = "reductio" THEN FALSE ELSE c.reductio
  /\ r.scan = IF f.guard = "scan" THEN f.saved.scan ELSE c.scan
  /\ r.uncapped = IF f.guard = "uncapped" THEN f.saved.uncapped ELSE c.uncapped

LEMMA LeaveFields ==
  ASSUME NEW f \in Frames, NEW c \in Controls, NEW x
  PROVE  LeftAs(f, c, Leave(f, c, x))
<1> DEFINE d == Disarm(f, c)
           e == Surfaced(f, d)
<1> SUFFICES ASSUME NEW r, r = Leave(f, c, x)
             PROVE  LeftAs(f, c, r)
  OBVIOUS
<1>1. /\ d = [active |-> c.active /\ ~f.armed, tripped |-> c.tripped /\ ~f.armed,
              snapshot |-> IF f.armed THEN 0 ELSE c.snapshot,
              limit |-> c.limit, depth |-> c.depth, chaining |-> c.chaining,
              flips |-> c.flips, reductio |-> c.reductio, scan |-> c.scan,
              uncapped |-> c.uncapped]
      /\ f.armed \in BOOLEAN
  BY DEF Disarm, Controls, Frames
<1>2. e = [active |-> c.active /\ ~f.armed, tripped |-> c.tripped /\ ~f.armed,
           snapshot |-> IF f.armed THEN 0 ELSE c.snapshot,
           limit |-> c.limit,
           depth |-> IF f.kind = "claim" THEN c.depth - 1 ELSE c.depth,
           chaining |-> c.chaining,
           flips |-> c.flips, reductio |-> c.reductio, scan |-> c.scan,
           uncapped |-> c.uncapped]
  BY <1>1 DEF Surfaced
<1>3. r = Unguarded(f, e)
  BY DEF Leave
<1> HIDE DEF d, e
<1>4. f.guard \in Guards
  BY DEF Frames
<1>5. CASE f.guard = "chaining"
  BY <1>1, <1>2, <1>3, <1>5 DEF Unguarded, LeftAs
<1>6. CASE f.guard = "flip"
  BY <1>1, <1>2, <1>3, <1>6 DEF Unguarded, LeftAs
<1>7. CASE f.guard = "reductio"
  BY <1>1, <1>2, <1>3, <1>7 DEF Unguarded, LeftAs
<1>8. CASE f.guard = "scan"
  BY <1>1, <1>2, <1>3, <1>8 DEF Unguarded, LeftAs
<1>9. CASE f.guard = "uncapped"
  BY <1>1, <1>2, <1>3, <1>9 DEF Unguarded, LeftAs
<1>10. CASE f.guard = "probe"
  BY <1>1, <1>2, <1>3, <1>10 DEF Unguarded, LeftAs
<1>11. CASE f.guard = "window"
  BY <1>1, <1>2, <1>3, <1>11 DEF Unguarded, LeftAs
<1>12. CASE f.guard = "sideCondition"
  BY <1>1, <1>2, <1>3, <1>12 DEF Unguarded, LeftAs
<1>13. CASE f.guard = "none"
  BY <1>1, <1>2, <1>3, <1>13 DEF Unguarded, LeftAs
<1> QED BY <1>4, <1>5, <1>6, <1>7, <1>8, <1>9, <1>10, <1>11, <1>12, <1>13 DEF Guards

\* Only the frame's scope counts, not how far it has come.
Kin(f, g) ==
  /\ f.kind = g.kind /\ f.guard = g.guard /\ f.handler = g.handler
  /\ f.armed = g.armed /\ f.saved = g.saved

LEMMA KinLeave ==
  ASSUME NEW f \in Frames, NEW g \in Frames, Kin(f, g), NEW c, NEW x, NEW y
  PROVE  Leave(f, c, x) = Leave(g, c, y)
  BY DEF Kin, Leave, Unguarded, Surfaced, Disarm

LEMMA SameTyped ==
  ASSUME NEW f \in Frames, NEW c \in Controls, NEW x,
         Same(Leave(f, c, x), f.saved)
  PROVE  Leave(f, c, x) \in Controls
<1> SUFFICES ASSUME NEW r, r = Leave(f, c, x), LeftAs(f, c, r), Same(r, f.saved)
             PROVE  r \in Controls
  BY LeaveFields
<1>1. f.saved \in Controls /\ f.armed \in BOOLEAN
  BY DEF Frames
<1>2. r.tripped \in BOOLEAN
  BY <1>1 DEF Controls, LeftAs
<1>3. r = [active |-> r.active, tripped |-> r.tripped, snapshot |-> r.snapshot,
           limit |-> r.limit, depth |-> r.depth, chaining |-> r.chaining,
           flips |-> r.flips, reductio |-> r.reductio, scan |-> r.scan,
           uncapped |-> r.uncapped]
  BY DEF LeftAs
<1> QED BY <1>1, <1>2, <1>3 DEF Same, Controls

\* Controls that agree before a frame is left agree after it.
LEMMA SameLeaves ==
  ASSUME NEW f \in Frames, NEW c \in Controls, NEW d \in Controls, Same(c, d),
         NEW x, NEW y
  PROVE  Same(Leave(f, c, x), Leave(f, d, y))
<1> SUFFICES ASSUME NEW r, r = Leave(f, c, x), LeftAs(f, c, r),
                    NEW q, q = Leave(f, d, y), LeftAs(f, d, q)
             PROVE  Same(r, q)
  BY LeaveFields
<1>1. /\ r.active = q.active /\ r.snapshot = q.snapshot /\ r.limit = q.limit
      /\ r.depth = q.depth /\ r.chaining = q.chaining
  BY DEF Same, LeftAs
<1>2. /\ r.flips = q.flips /\ r.reductio = q.reductio /\ r.scan = q.scan
      /\ r.uncapped = q.uncapped
  BY DEF Same, LeftAs
<1> QED BY <1>1, <1>2 DEF Same

LEMMA SoundLeaves ==
  ASSUME NEW f \in Frames, NEW c \in Controls, NEW x, NEW k \in Nat,
         Sound(c, k), Sound(f.saved, k), Shaped(f), Within(f.kind, c)
  PROVE  Sound(Leave(f, c, x), k)
<1> SUFFICES ASSUME NEW r, r = Leave(f, c, x), LeftAs(f, c, r)
             PROVE  Sound(r, k)
  BY LeaveFields
<1>1. CASE f.guard = "window"
  BY <1>1 DEF Sound, LeftAs
<1>2. CASE f.guard # "window"
  BY <1>2 DEF Sound, LeftAs, Controls, Frames
<1> QED BY <1>1, <1>2
-----------------------------------------------------------------------------
(* The stack. *)

LEMMA Stacked ==
  ASSUME NEW s \in Seq(Frames), NEW p \in Controls
  PROVE  /\ Len(s) \in Nat
         /\ \A i \in 1..Len(s) : s[i] \in Frames /\ Inside(s, p, i) \in Controls
         /\ s # <<>> => Len(s) >= 1 /\ s[Len(s)] \in Frames
<1>1. ASSUME NEW i \in 1..Len(s)
      PROVE  s[i] \in Frames /\ Inside(s, p, i) \in Controls
  <2>1. s[i] \in Frames /\ (i # Len(s) => s[i + 1] \in Frames)
    OBVIOUS
  <2> QED BY <2>1 DEF Inside, Frames
<1> QED BY <1>1

\* What stands on a frame stands on all that is beneath it.
LEMMA BeneathTransitive ==
  ASSUME NEW k \in Kinds, NEW t \in Kinds, t \in Beneath(k)
  PROVE  Beneath(t) \subseteq Beneath(k) /\ t # "scan"
  BY DEF Beneath, Kinds, Outer

LEMMA KinFrameOK ==
  ASSUME NEW f \in Frames, NEW g \in Frames, Kin(f, g),
         NEW c \in Controls, NEW k, FrameOK(g, c, k)
  PROVE  FrameOK(f, c, k)
<1>1. Leave(f, c, "no") = Leave(g, c, "no")
  BY KinLeave
<1>2. Shaped(f) /\ SavedOK(f, k) /\ Within(f.kind, c)
  BY DEF FrameOK, Kin, Shaped, SavedOK
<1> QED BY <1>1, <1>2 DEF FrameOK, Kin

\* A frame stands on a stack; its callers may have come further.
LEMMA Stands ==
  ASSUME NEW s \in Seq(Frames), NEW p \in Controls, NEW k \in Nat, StackOK(s, p, k),
         NEW t \in Seq(Frames), Len(t) = Len(s),
         \A i \in 1..Len(s) : Kin(t[i], s[i]),
         NEW f \in Frames, f.saved = p, s # <<>>, s[Len(s)].kind \in Beneath(f.kind),
         NEW q \in Controls, FrameOK(f, q, k),
         NEW u \in Seq(Frames), Len(u) = Len(s) + 1, u[Len(s) + 1] = f,
         \A i \in 1..Len(s) : u[i] = t[i]
  PROVE  StackOK(u, q, k)
<1> DEFINE n == Len(s)
<1>1. n \in Nat /\ n >= 1 /\ \A i \in 1..n : s[i] \in Frames /\ Inside(s, p, i) \in Controls
  BY Stacked
<1>2. /\ u \in Seq(Frames) /\ Len(u) = n + 1 /\ u[n + 1] = f
      /\ \A i \in 1..n : u[i] = t[i] /\ u[i] \in Frames
  BY <1>1
<1>3. \A i \in 1..n : Kin(u[i], s[i])
  BY <1>2
<1>4. ASSUME NEW i \in 1..n
      PROVE  Inside(u, q, i) = Inside(s, p, i)
  <2>1. CASE i = n
    BY <1>1, <1>2, <2>1 DEF Inside
  <2>2. CASE i # n
    <3>1. i + 1 \in 1..n
      BY <1>1, <2>2
    <3>2. u[i + 1].saved = s[i + 1].saved
      BY <1>3, <3>1 DEF Kin
    <3> QED BY <1>1, <1>2, <2>2, <3>1, <3>2 DEF Inside
  <2> QED BY <2>1, <2>2
<1>5. Standing(u)
  <2>1. u[1].kind \in {"retry", "statement", "axiom"}
    <3>1. s[1].kind \in {"retry", "statement", "axiom"}
      BY DEF StackOK, Standing
    <3> QED BY <1>1, <1>3, <3>1 DEF Kin
  <2>2. ASSUME NEW i \in 1..(n + 1), NEW j \in 1..(n + 1), i < j
        PROVE  u[i].kind \in Beneath(u[j].kind)
    <3>1. i \in 1..n /\ u[i].kind = s[i].kind
      BY <1>1, <1>3, <2>2 DEF Kin
    <3>2. CASE j # n + 1
      <4>0. j \in 1..n
        BY <1>1, <3>2
      <4>1. u[j].kind = s[j].kind
        BY <1>3, <4>0 DEF Kin
      <4> QED BY <2>2, <3>1, <4>0, <4>1 DEF StackOK, Standing
    <3>3. CASE j = n + 1
      <4>1. s[i].kind \in Beneath(s[n].kind) \/ i = n
        BY <1>1, <3>1 DEF StackOK, Standing
      <4>2. f.kind \in Kinds /\ s[n].kind \in Kinds
        BY <1>1 DEF Frames
      <4>3. Beneath(s[n].kind) \subseteq Beneath(f.kind)
        BY <4>2, BeneathTransitive
      <4> QED BY <1>1, <1>2, <3>1, <3>3, <4>1, <4>3
    <3> QED BY <3>2, <3>3
  <2> QED BY <1>2, <2>1, <2>2 DEF Standing
<1>6. ASSUME NEW i \in 1..(n + 1)
      PROVE  FrameOK(u[i], Inside(u, q, i), k)
  <2>1. CASE i = n + 1
    BY <1>1, <1>2, <2>1 DEF Inside
  <2>2. CASE i # n + 1
    <3>1. i \in 1..n
      BY <1>1, <2>2
    <3>2. FrameOK(s[i], Inside(s, p, i), k)
      BY <3>1 DEF StackOK
    <3> QED BY <1>1, <1>2, <1>3, <1>4, <3>1, <3>2, KinFrameOK
  <2> QED BY <2>1, <2>2
<1> QED BY <1>2, <1>5, <1>6 DEF StackOK

\* A scope is entered.
LEMMA Pushed ==
  ASSUME NEW s \in Seq(Frames), NEW p \in Controls, NEW k \in Nat, StackOK(s, p, k),
         NEW t \in Seq(Frames), Len(t) = Len(s),
         \A i \in 1..Len(s) : Kin(t[i], s[i]),
         NEW f \in Frames, f.saved = p, s # <<>>, s[Len(s)].kind \in Beneath(f.kind),
         NEW q \in Controls, FrameOK(f, q, k)
  PROVE  StackOK(Append(t, f), q, k)
<1>1. /\ Append(t, f) \in Seq(Frames) /\ Len(Append(t, f)) = Len(s) + 1
      /\ Append(t, f)[Len(s) + 1] = f /\ \A i \in 1..Len(s) : Append(t, f)[i] = t[i]
  OBVIOUS
<1>2. PICK u : u = Append(t, f)
  OBVIOUS
<1>3. StackOK(u, q, k)
  BY <1>1, <1>2, Stands
<1> QED BY <1>2, <1>3

\* The controls change in nothing but the trip, and time may pass.
LEMMA Adjusted ==
  ASSUME NEW s \in Seq(Frames), NEW p \in Controls, NEW k \in Nat, StackOK(s, p, k),
         NEW t \in Seq(Frames), Len(t) = Len(s),
         \A i \in 1..Len(s) : Kin(t[i], s[i]),
         NEW q \in Controls, Same(p, q),
         NEW l \in Nat, \A i \in 1..Len(s) : Sound(s[i].saved, l)
  PROVE  StackOK(t, q, l)
<1> DEFINE n == Len(s)
<1>1. n \in Nat /\ \A i \in 1..n : s[i] \in Frames /\ t[i] \in Frames
                                   /\ Inside(s, p, i) \in Controls /\ Inside(t, q, i) \in Controls
  BY Stacked
<1>2. Standing(t)
  BY <1>1 DEF StackOK, Standing, Kin
<1>3. ASSUME NEW i \in 1..n
      PROVE  Same(Inside(s, p, i), Inside(t, q, i))
  <2>1. CASE i = n
    BY <2>1 DEF Inside
  <2>2. CASE i # n
    <3>1. i + 1 \in 1..n
      BY <1>1, <2>2
    <3>2. t[i + 1].saved = s[i + 1].saved
      BY <3>1 DEF Kin
    <3> QED BY <2>2, <3>2 DEF Inside, Same
  <2> QED BY <2>1, <2>2
<1>4. ASSUME NEW i \in 1..n
      PROVE  FrameOK(t[i], Inside(t, q, i), l)
  <2> DEFINE f == s[i]
             c == Inside(s, p, i)
             d == Inside(t, q, i)
  <2>1. f \in Frames /\ t[i] \in Frames /\ c \in Controls /\ d \in Controls
        /\ FrameOK(f, c, k) /\ Same(c, d) /\ Sound(f.saved, l) /\ Kin(t[i], f)
    BY <1>1, <1>3 DEF StackOK
  <2> HIDE DEF f, c, d
  <2>2. Same(Leave(f, d, "no"), f.saved)
    <3>1. Same(Leave(f, c, "no"), Leave(f, d, "no"))
      BY <2>1, SameLeaves
    <3> QED BY <2>1, <3>1 DEF FrameOK, Same
  <2>3. FrameOK(f, d, l)
    BY <2>1, <2>2 DEF FrameOK, SavedOK, Within, Calm, Same
  <2>4. FrameOK(t[i], d, l)
    BY <2>1, <2>3, KinFrameOK
  <2> QED BY <2>4 DEF d
<1> QED BY <1>1, <1>2, <1>4 DEF StackOK

\* A scope is left.
LEMMA Popped ==
  ASSUME NEW s \in Seq(Frames), NEW p \in Controls, NEW k \in Nat, StackOK(s, p, k),
         Sound(p, k), s # <<>>, NEW x
  PROVE  LET f == s[Len(s)]
             r == Leave(f, p, x)
         IN /\ r \in Controls /\ Same(r, f.saved) /\ Sound(r, k) /\ Bounded(r)
            /\ StackOK(SubSeq(s, 1, Len(s) - 1), r, k)
            /\ Len(s) = 1 => Calm(r)
<1> DEFINE n == Len(s)
           f == s[n]
           r == Leave(f, p, x)
           t == SubSeq(s, 1, n - 1)
<1>1. /\ n \in Nat /\ n >= 1 /\ f \in Frames
      /\ \A i \in 1..n : s[i] \in Frames /\ Inside(s, p, i) \in Controls
  BY Stacked
<1>2. FrameOK(f, p, k)
  BY <1>1 DEF StackOK, Inside
<1>3. Same(r, f.saved)
  <2>1. r = Leave(f, p, "no")
    BY DEF Leave
  <2> QED BY <1>2, <2>1 DEF FrameOK
<1>4. r \in Controls
  BY <1>1, <1>3, SameTyped
<1>5. Sound(r, k)
  BY <1>1, <1>2, SoundLeaves DEF FrameOK, SavedOK
<1>6. f.saved \in Controls
  BY <1>1 DEF Frames
<1> HIDE DEF r
<1>7. Bounded(r)
  BY <1>2, <1>3 DEF FrameOK, SavedOK, Bounded, Same
<1>8. n = 1 => Calm(r)
  <2>1. n = 1 => f.kind \in Outer
    BY DEF StackOK, Standing, Outer
  <2> QED BY <1>2, <1>3, <2>1 DEF FrameOK, SavedOK, Calm, Same
<1>9. StackOK(t, r, k)
  <2>1. t \in Seq(Frames) /\ Len(t) = n - 1 /\ \A i \in 1..(n - 1) : t[i] = s[i] /\ i \in 1..n
    <3>1. \A i \in 1..(n - 1) : s[i] \in Frames
      BY <1>1
    <3>2. /\ t \in Seq(Frames) /\ Len(t) = IF 1 <= n - 1 THEN n - 1 - 1 + 1 ELSE 0
          /\ \A i \in 1..(n - 1 - 1 + 1) : t[i] = s[1 + i - 1]
      BY <1>1, <3>1, SubSeqProperties
    <3> HIDE DEF t
    <3>3. Len(t) = n - 1
      <4>1. n \in Nat /\ n >= 1 /\ Len(t) = IF 1 <= n - 1 THEN n - 1 - 1 + 1 ELSE 0
        BY <1>1, <3>2
      <4> HIDE DEF n
      <4> QED BY <4>1
    <3>4. ASSUME NEW i \in 1..(n - 1)
          PROVE  t[i] = s[i] /\ i \in 1..n
      BY <1>1, <3>2
    <3> QED BY <3>2, <3>3, <3>4
  <2> HIDE DEF t
  <2>2. Standing(t)
    BY <1>1, <2>1 DEF StackOK, Standing
  <2>3. ASSUME NEW i \in 1..(n - 1)
        PROVE  FrameOK(t[i], Inside(t, r, i), k)
    <3>1. /\ t[i] = s[i] /\ s[i] \in Frames /\ FrameOK(s[i], Inside(s, p, i), k)
          /\ Inside(s, p, i) = s[i + 1].saved /\ s[i + 1].saved \in Controls
          /\ i \in 1..n
      <4>1. i \in 1..n /\ i + 1 \in 1..n /\ i # n
        BY <1>1
      <4> QED BY <1>1, <2>1, <4>1 DEF StackOK, Inside, Frames
    <3>2. CASE i = n - 1
      <4>1. Inside(t, r, i) = r /\ s[i + 1] = f
        BY <1>1, <2>1, <3>2 DEF Inside
      <4>2. Same(Leave(s[i], f.saved, "no"), Leave(s[i], r, "no"))
        BY <1>3, <1>4, <1>6, <3>1, SameLeaves DEF Same
      <4> QED BY <1>3, <3>1, <4>1, <4>2 DEF FrameOK, Within, Calm, Same
    <3>3. CASE i # n - 1
      <4>1. i + 1 \in 1..(n - 1)
        BY <1>1, <3>3
      <4>2. Inside(t, r, i) = s[i + 1].saved
        BY <2>1, <3>3, <4>1 DEF Inside
      <4> QED BY <3>1, <4>2
    <3> QED BY <3>2, <3>3
  <2> QED BY <2>1, <2>2, <2>3 DEF StackOK
<1> QED BY <1>3, <1>4, <1>5, <1>7, <1>8, <1>9 DEF r
-----------------------------------------------------------------------------
(* Entering a scope. *)

\* What entering f at step k makes of the controls p.
Opens(f, p, q, k) ==
  /\ f.saved = p
  /\ f.armed => ~p.active /\ f.guard # "window"
  /\ f.guard = "reductio" => ~p.reductio
  /\ q.active <=> p.active \/ f.armed \/ f.guard = "window"
  /\ f.armed \/ f.guard = "window" => q.snapshot = k
  /\ f.armed \/ f.guard = "window" \/ q.snapshot = p.snapshot
  /\ q.tripped => /\ q.active
                   /\ \/ p.tripped /\ ~f.armed /\ f.guard # "window"
                      \/ k - q.snapshot >= q.limit
  /\ f.guard \in {"window", "probe"} \/ q.limit = p.limit
  /\ q.depth = IF f.kind = "claim" THEN p.depth + 1 ELSE p.depth
  /\ q.chaining = IF f.guard = "chaining" THEN p.chaining + 1 ELSE p.chaining
  /\ q.flips = IF f.guard = "flip" THEN p.flips + 1 ELSE p.flips
  /\ f.guard = "reductio" \/ q.reductio = p.reductio
  /\ f.guard = "scan" \/ q.scan = p.scan
  /\ f.guard = "uncapped" \/ q.uncapped = p.uncapped

LEMMA OpensLeaves ==
  ASSUME NEW f \in Frames, NEW p \in Controls, NEW q \in Controls, NEW k \in Nat,
         Sound(p, k), Opens(f, p, q, k)
  PROVE  Same(Leave(f, q, "no"), p) /\ Sound(q, k)
<1>1. /\ p.depth \in Nat /\ p.chaining \in Nat /\ p.flips \in Nat
      /\ p.active \in BOOLEAN /\ q.active \in BOOLEAN /\ f.armed \in BOOLEAN
      /\ p.reductio \in BOOLEAN /\ p.snapshot \in Nat
  BY DEF Controls, Frames
<1>2. Sound(q, k)
  BY <1>1 DEF Sound, Opens
<1> SUFFICES ASSUME NEW r, r = Leave(f, q, "no"), LeftAs(f, q, r)
               PROVE  Same(r, p)
  BY <1>2, LeaveFields
<1>4. r.active = p.active /\ r.snapshot = p.snapshot /\ r.limit = p.limit
  BY <1>1 DEF Opens, LeftAs, Sound
<1>5. r.depth = p.depth /\ r.chaining = p.chaining /\ r.flips = p.flips
  BY <1>1 DEF Opens, LeftAs
<1>6. r.reductio = p.reductio /\ r.scan = p.scan /\ r.uncapped = p.uncapped
  BY <1>1 DEF Opens, LeftAs
<1> QED BY <1>4, <1>5, <1>6 DEF Same

\* What the invariant says of the top of the stack.
LEMMA Here ==
  ASSUME IInv, stack # <<>>
  PROVE  /\ Top \in Frames /\ FrameOK(Top, prover, steps) /\ Within(Top.kind, prover)
         /\ prover \in Controls /\ steps \in Nat /\ Sound(prover, steps)
         /\ MaxDepth \in Nat /\ ChainCap \in Nat
         /\ thrown = "no" => Bounded(prover)
<1>1. /\ stack \in Seq(Frames) /\ prover \in Controls /\ steps \in Nat
      /\ StackOK(stack, prover, steps)
  BY DEF IInv, TypeOK
<1>2. Len(stack) \in 1..Len(stack) /\ Top \in Frames
  BY <1>1, Stacked DEF Top
<1>3. FrameOK(Top, prover, steps)
  BY <1>1, <1>2 DEF StackOK, Inside, Top
<1> QED BY <1>1, <1>2, <1>3, ElaborationAssumption DEF IInv, ProverOK, FrameOK

\* The windows of a stack with one frame more ...
LEMMA WindowsPushed ==
  ASSUME NEW s \in Seq(Frames), NEW p \in Controls, NEW k \in Nat, WindowsOK(s, p, k),
         NEW t \in Seq(Frames), Len(t) = Len(s),
         \A i \in 1..Len(s) : Kin(t[i], s[i]),
         NEW f \in Frames, NEW q \in Controls, Opens(f, p, q, k), s # <<>>,
         f.kind \in {"resolve", "sublemma"} /\ q.active =>
           (f.kind = "resolve" /\ f.armed) \/ Excused(s, Len(s)),
         f.guard = "probe" /\ p.active => Excused(s, Len(s))
  PROVE  WindowsOK(Append(t, f), q, k)
<1> DEFINE n == Len(s)
<1>1. /\ n \in Nat /\ n >= 1 /\ n + 1 \in Nat
      /\ \A i \in 1..n : s[i] \in Frames /\ t[i] \in Frames /\ Inside(s, p, i) \in Controls
  BY Stacked
<1>2. PICK u : u = Append(t, f)
  OBVIOUS
<1>3. /\ Len(u) = n + 1 /\ u[n + 1] = f /\ \A i \in 1..n : u[i] = t[i]
  BY <1>2
<1>4. ASSUME NEW i \in 1..n
      PROVE  Excused(s, i) => Excused(u, i) /\ Excused(u, n + 1)
  <2>1. \A j \in 1..i : j \in 1..n /\ j \in 1..(n + 1) /\ u[j].kind = s[j].kind /\ u[j].armed = s[j].armed
    BY <1>1, <1>3 DEF Kin
  <2> QED BY <2>1 DEF Excused
<1>5. ASSUME NEW i \in 1..n
      PROVE  WindowAt(u, Inside(u, q, i), k, i)
  <2>1. Inside(u, q, i) = Inside(s, p, i)
    <3>1. CASE i = n
      BY <1>1, <1>3, <3>1 DEF Inside, Opens
    <3>2. CASE i # n
      <4>1. i + 1 \in 1..n /\ i # n + 1
        BY <1>1, <3>2
      <4>2. u[i + 1].saved = s[i + 1].saved
        BY <1>3, <4>1 DEF Kin
      <4> QED BY <1>3, <3>2, <4>1, <4>2 DEF Inside
    <3> QED BY <3>1, <3>2
  <2>2. WindowAt(s, Inside(s, p, i), k, i)
    BY DEF WindowsOK
  <2>3. u[i].kind = s[i].kind /\ u[i].guard = s[i].guard /\ u[i].saved = s[i].saved
    BY <1>3 DEF Kin
  <2> QED BY <1>4, <2>1, <2>2, <2>3 DEF WindowAt
<1>6. WindowAt(u, q, k, n + 1)
  <2>1. Excused(s, n) => Excused(u, n + 1)
    BY <1>1, <1>4
  <2>2. f.kind = "resolve" /\ f.armed => Excused(u, n + 1)
    BY <1>1, <1>3 DEF Excused
  <2>3. f.saved = p
    BY DEF Opens
  <2>4. q.tripped => Excused(u, n + 1) \/ k - q.snapshot >= q.limit
    <3>1. ASSUME q.tripped, p.tripped, ~f.armed, f.guard # "window", ~Excused(s, n)
          PROVE  k - q.snapshot >= q.limit
      <4>1. Inside(s, p, n) = p /\ n \in 1..n
        BY <1>1 DEF Inside
      <4>2. k - p.snapshot >= p.limit
        BY <3>1, <4>1 DEF WindowsOK, WindowAt
      <4>3. q.active /\ p.active
        BY <3>1 DEF Opens
      <4>4. q.snapshot = p.snapshot /\ q.limit = p.limit
        BY <3>1, <4>3 DEF Opens
      <4> QED BY <4>2, <4>4
    <3> QED BY <2>1, <3>1 DEF Opens
  <2> QED BY <1>3, <2>1, <2>2, <2>3, <2>4 DEF WindowAt
<1>7. Inside(u, q, n + 1) = q
  BY <1>3 DEF Inside
<1>8. \A i \in 1..(n + 1) : WindowAt(u, Inside(u, q, i), k, i)
  BY <1>1, <1>5, <1>6, <1>7
<1> QED BY <1>2, <1>3, <1>8 DEF WindowsOK

\* ... of one where a trip is latched, or the counter moves ...
LEMMA WindowsAdjusted ==
  ASSUME NEW s \in Seq(Frames), NEW p \in Controls, NEW k \in Nat, WindowsOK(s, p, k),
         NEW t \in Seq(Frames), Len(t) = Len(s),
         \A i \in 1..Len(s) : Kin(t[i], s[i]),
         NEW q \in Controls, Same(p, q), NEW l \in Nat,
         l >= k \/ (~q.tripped /\ \A i \in 1..Len(s) : ~s[i].saved.tripped),
         q.tripped => p.tripped \/ l - q.snapshot >= q.limit
  PROVE  WindowsOK(t, q, l)
<1> DEFINE n == Len(s)
<1>1. /\ n \in Nat
      /\ \A i \in 1..n : s[i] \in Frames /\ t[i] \in Frames /\ Inside(s, p, i) \in Controls
  BY Stacked
<1>2. SUFFICES ASSUME NEW i \in 1..n
               PROVE  WindowAt(t, Inside(t, q, i), l, i)
  BY DEF WindowsOK
<1>3. Excused(s, i) => Excused(t, i)
  <2>1. \A j \in 1..i : j \in 1..n /\ t[j].kind = s[j].kind /\ t[j].armed = s[j].armed
    BY <1>1 DEF Kin
  <2> QED BY <2>1 DEF Excused
<1>4. /\ WindowAt(s, Inside(s, p, i), k, i)
      /\ t[i].kind = s[i].kind /\ t[i].guard = s[i].guard /\ t[i].saved = s[i].saved
  BY DEF WindowsOK, Kin
<1>5. CASE i = n
  <2>1. Inside(t, q, i) = q /\ Inside(s, p, i) = p
    BY <1>5 DEF Inside
  <2>2. q.active = p.active /\ q.snapshot = p.snapshot /\ q.limit = p.limit
    BY DEF Same
  <2>3. q.tripped => Excused(t, i) \/ l - q.snapshot >= q.limit
    <3>1. ASSUME q.tripped, p.tripped, k - p.snapshot >= p.limit
          PROVE  l - q.snapshot >= q.limit
      BY <2>2, <3>1 DEF Controls
    <3> QED BY <1>3, <1>4, <2>1, <3>1 DEF WindowAt
  <2> QED BY <1>3, <1>4, <2>1, <2>2, <2>3 DEF WindowAt
<1>6. CASE i # n
  <2>1. i + 1 \in 1..n
    BY <1>1, <1>6
  <2>2. PICK c : c = s[i + 1].saved
    OBVIOUS
  <2>3. Inside(t, q, i) = c /\ Inside(s, p, i) = c
    BY <1>6, <2>1, <2>2 DEF Inside, Kin
  <2>4. c \in Controls
    BY <1>1, <2>1, <2>2 DEF Frames
  <2>5. c.tripped => l >= k
    BY <2>1, <2>2
  <2>6. ASSUME c.tripped, k - c.snapshot >= c.limit
        PROVE  l - c.snapshot >= c.limit
    <3>1. c.snapshot \in Nat /\ c.limit \in Nat /\ l >= k
      BY <2>4, <2>5, <2>6 DEF Controls
    <3>2. PICK a, b : a = c.snapshot /\ b = c.limit
      OBVIOUS
    <3> QED BY <2>6, <3>1, <3>2
  <2>7. WindowAt(s, c, k, i)
    BY <1>4, <2>3
  <2>8. WindowAt(t, c, l, i)
    BY <1>3, <1>4, <2>6, <2>7 DEF WindowAt
  <2> QED BY <2>3, <2>8
<1> QED BY <1>5, <1>6

\* ... and of one with a frame less.
LEMMA WindowsPopped ==
  ASSUME NEW s \in Seq(Frames), NEW p \in Controls, NEW k \in Nat,
         StackOK(s, p, k), WindowsOK(s, p, k), Sound(p, k), s # <<>>, NEW x
  PROVE  WindowsOK(SubSeq(s, 1, Len(s) - 1), Leave(s[Len(s)], p, x), k)
<1> DEFINE n == Len(s)
           f == s[n]
<1>1. /\ n \in Nat /\ n >= 1 /\ f \in Frames /\ n \in 1..n
      /\ \A i \in 1..n : s[i] \in Frames /\ Inside(s, p, i) \in Controls
  BY Stacked
<1>2. PICK r : r = Leave(f, p, x)
  OBVIOUS
<1>3. LeftAs(f, p, r) /\ Same(r, f.saved) /\ r \in Controls
  BY <1>1, <1>2, LeaveFields, Popped
<1>4. PICK t : t = SubSeq(s, 1, n - 1)
  OBVIOUS
<1>5. n - 1 \in Nat /\ Len(t) = n - 1 /\ \A i \in 1..(n - 1) : t[i] = s[i] /\ i \in 1..n
  <2>1. PICK m : m = n - 1
    OBVIOUS
  <2>2. m \in Nat /\ m <= n /\ t = SubSeq(s, 1, m)
    BY <1>1, <1>4, <2>1
  <2>3. /\ Len(t) = IF 1 <= m THEN m - 1 + 1 ELSE 0
        /\ \A i \in 1..(m - 1 + 1) : t[i] = s[1 + i - 1]
    BY <1>1, <2>2, SubSeqProperties
  <2>4. Len(t) = m
    BY <2>2, <2>3
  <2>5. ASSUME NEW i \in 1..m
        PROVE  t[i] = s[i] /\ i \in 1..n
    BY <1>1, <2>2, <2>3
  <2> QED BY <2>1, <2>2, <2>4, <2>5
<1>6. ASSUME NEW i \in 1..(n - 1)
      PROVE  Excused(s, i) => Excused(t, i)
  <2>1. \A j \in 1..i : j \in 1..(n - 1)
    BY <1>5
  <2> QED BY <1>5, <2>1 DEF Excused
<1>7. ASSUME NEW i \in 1..(n - 1)
      PROVE  WindowAt(t, Inside(t, r, i), k, i)
  <2>1. WindowAt(s, Inside(s, p, i), k, i) /\ t[i] = s[i] /\ (Excused(s, i) => Excused(t, i))
    BY <1>5, <1>6 DEF WindowsOK
  <2>2. CASE i # n - 1
    <3>1. i + 1 \in 1..(n - 1) /\ i # n
      BY <1>1, <2>2
    <3>2. Inside(t, r, i) = Inside(s, p, i)
      BY <1>5, <2>2, <3>1 DEF Inside
    <3> QED BY <2>1, <3>2 DEF WindowAt
  <2>3. CASE i = n - 1
    <3>1. Inside(t, r, i) = r /\ Inside(s, p, i) = f.saved
      <4>1. i # n /\ i + 1 = n
        BY <1>1, <2>3
      <4> QED BY <1>5, <2>3, <4>1 DEF Inside
    <3>2. r.active = f.saved.active
      BY <1>3 DEF Same
    <3>3. r.tripped => Excused(s, i) \/ k - r.snapshot >= r.limit
      <4>1. CASE f.guard = "window"
        BY <1>3, <2>1, <3>1, <4>1 DEF LeftAs, WindowAt
      <4>2. ASSUME f.guard # "window", r.tripped, ~Excused(s, i)
            PROVE  k - r.snapshot >= r.limit
        <5>1. p.tripped /\ ~f.armed /\ r.snapshot = p.snapshot /\ r.active = p.active
          BY <1>1, <1>3, <4>2 DEF LeftAs, Frames, Controls
        <5>2. ~Excused(s, n)
          <6>1. \A j \in 1..n : j = n \/ j \in 1..i
            BY <1>1, <2>3
          <6> QED BY <4>2, <5>1, <6>1 DEF Excused
        <5>3. Inside(s, p, n) = p
          BY DEF Inside
        <5>4. k - p.snapshot >= p.limit
          BY <1>1, <5>1, <5>2, <5>3 DEF WindowsOK, WindowAt
        <5>5. p.active
          BY <5>1 DEF Sound, Controls
        <5>6. f.guard # "probe"
          BY <1>1, <3>2, <5>1, <5>2, <5>5 DEF WindowsOK, WindowAt
        <5> QED BY <1>3, <4>2, <5>1, <5>4, <5>6 DEF LeftAs
      <4> QED BY <4>1, <4>2
    <3> QED BY <2>1, <3>1, <3>2, <3>3 DEF WindowAt
  <2> QED BY <2>2, <2>3
<1> QED BY <1>2, <1>4, <1>5, <1>7 DEF WindowsOK

\* A scope other than a definition is entered.
LEMMA Entered ==
  ASSUME IInv, stack # <<>>, Bounded(prover),
         NEW callers \in Seq(Frames), Len(callers) = Len(stack),
         \A i \in 1..Len(stack) : Kin(callers[i], stack[i]),
         NEW f \in Frames, Shaped(f), f.kind # "definition",
         Top.kind \in Beneath(f.kind),
         f.kind \in Outer => Calm(prover),
         f.kind \in {"resolve", "sublemma"} => Top.kind \in Outer \cup {"resolve", "sublemma"},
         f.guard = "probe" => Top.kind \in Outer \cup {"sublemma"},
         stack' = Append(callers, f),
         prover' \in Controls, prover'.depth <= MaxDepth + 1,
         prover'.chaining <= ChainCap, prover'.flips <= 1,
         Opens(f, prover, prover', steps), Within(f.kind, prover'),
         thrown' \in Thrown,
         thrown' = "raw" => prover'.active /\ f.kind \in Searching,
         prover'.depth <= MaxDepth \/ (f.kind = "claim" /\ thrown' # "no"),
         UNCHANGED <<opacityVars, steps, declined>>
  PROVE  IInv'
<1>1. /\ stack \in Seq(Frames) /\ prover \in Controls /\ steps \in Nat
      /\ Sound(prover, steps) /\ StackOK(stack, prover, steps)
      /\ Len(stack) \in Nat
  BY DEF IInv, TypeOK, ProverOK
<1>2. /\ stack' \in Seq(Frames) /\ Len(stack') = Len(stack) + 1
      /\ stack' # <<>> /\ Top' = f
      /\ \A i \in 1..Len(stack) : stack'[i] = callers[i]
      /\ stack'[Len(stack) + 1] = f
  BY <1>1 DEF Top
<1>3. Same(Leave(f, prover', "no"), prover) /\ Sound(prover', steps)
  BY <1>1, OpensLeaves
<1>4. StackOK(stack', prover', steps)
  <2>1. FrameOK(f, prover', steps) /\ f.saved = prover
    BY <1>1, <1>3 DEF FrameOK, SavedOK, Opens
  <2> QED BY <1>1, <2>1, Pushed DEF Top
<1>5. TypeOK'
  BY <1>2 DEF IInv, TypeOK, opacityVars
<1>6. ProverOK'
  BY <1>2, <1>3 DEF ProverOK, Bounded
<1>7. ScopeOK'
  <2>1. (\E i \in 1..Len(stack') : stack'[i].kind = "definition")
          => \E i \in 1..Len(stack) : stack[i].kind = "definition"
    BY <1>1, <1>2 DEF Kin
  <2> QED BY <2>1 DEF IInv, ScopeOK, opacityVars
<1>8. WindowsOK(stack', prover', steps)
  <2>1. WindowsOK(stack, prover, steps) /\ Within(Top.kind, prover)
    BY Here DEF IInv
  <2>2. ASSUME Top.kind \in Outer \cup {"resolve", "sublemma"}, prover.active
        PROVE  Excused(stack, Len(stack))
    <3>1. Top.kind \in {"resolve", "sublemma"}
      BY <2>1, <2>2 DEF Within, Calm
    <3>2. Len(stack) \in 1..Len(stack) /\ Inside(stack, prover, Len(stack)) = prover
      BY <1>1 DEF Inside
    <3> QED BY <2>1, <2>2, <3>1, <3>2 DEF WindowsOK, WindowAt, Top
  <2>3. f.kind \in {"resolve", "sublemma"} /\ prover'.active =>
          prover.active \/ (f.kind = "resolve" /\ f.armed)
    BY DEF Opens, Shaped
  <2> QED BY <1>1, <2>1, <2>2, <2>3, WindowsPushed
<1> QED BY <1>4, <1>5, <1>6, <1>7, <1>8 DEF IInv

\* Field by field: g is what a guard makes of c.
GuardedAs(guard, c, g) ==
  /\ g \in Controls
  /\ g.active <=> c.active \/ guard = "window"
  /\ g.tripped <=> c.tripped /\ guard # "window"
  /\ g.snapshot = IF guard = "window" THEN steps ELSE c.snapshot
  /\ guard \in {"window", "probe"} \/ g.limit = c.limit
  /\ g.depth = c.depth
  /\ g.chaining = IF guard = "chaining" THEN c.chaining + 1 ELSE c.chaining
  /\ g.flips = IF guard = "flip" THEN c.flips + 1 ELSE c.flips
  /\ guard = "reductio" \/ g.reductio = c.reductio
  /\ g.scan <=> guard = "scan" \/ c.scan
  /\ guard = "uncapped" \/ g.uncapped = c.uncapped

LEMMA GuardedFields ==
  ASSUME NEW guard \in Guards, NEW c \in Controls, steps \in Nat
  PROVE  GuardedAs(guard, c, Guarded(guard, c))
<1> SUFFICES ASSUME NEW g, g = Guarded(guard, c)
             PROVE  GuardedAs(guard, c, g)
  OBVIOUS
<1>1. Lowered(c) \in Nat
  BY ElaborationAssumption DEF Lowered, Controls
<1>2. CASE guard = "chaining"
  BY <1>2 DEF Guarded, GuardedAs, Controls
<1>3. CASE guard = "flip"
  BY <1>3 DEF Guarded, GuardedAs, Controls
<1>4. CASE guard = "reductio"
  BY <1>4 DEF Guarded, GuardedAs, Controls
<1>5. CASE guard = "scan"
  BY <1>5 DEF Guarded, GuardedAs, Controls
<1>6. CASE guard = "uncapped"
  BY <1>6 DEF Guarded, GuardedAs, Controls
<1>7. CASE guard = "probe"
  BY <1>1, <1>7 DEF Guarded, GuardedAs, Controls
<1>8. CASE guard = "window"
  BY <1>1, <1>8 DEF Guarded, GuardedAs, Controls
<1>9. CASE guard \in {"none", "sideCondition"}
  BY <1>9 DEF Guarded, GuardedAs, Controls
<1> QED BY <1>2, <1>3, <1>4, <1>5, <1>6, <1>7, <1>8, <1>9 DEF Guards

\* A window opened now is not exhausted by what came before; the first charge
\* latches a trip only in a window without budget left.
LEMMA ArmedFields ==
  ASSUME NEW c \in Controls, steps \in Nat, NEW arms \in BOOLEAN,
         NEW a, a = IF arms THEN Arm(c) ELSE c
  PROVE  /\ a \in Controls
         /\ a.active <=> arms \/ c.active
         /\ a.tripped <=> c.tripped /\ ~arms
         /\ a.snapshot = IF arms THEN steps ELSE c.snapshot
         /\ a.limit = c.limit /\ a.depth = c.depth /\ a.chaining = c.chaining
         /\ a.flips = c.flips /\ a.reductio = c.reductio /\ a.scan = c.scan
         /\ a.uncapped = c.uncapped
<1>1. CASE arms
  BY <1>1 DEF Arm, Controls
<1>2. CASE ~arms
  BY <1>2 DEF Controls
<1> QED BY <1>1, <1>2

LEMMA ChargedFields ==
  ASSUME NEW c \in Controls, NEW q, q = Charged(c), steps \in Nat,
         c.active => steps >= c.snapshot
  PROVE  /\ q \in Controls /\ Same(c, q)
         /\ q.tripped => c.tripped \/ (c.active /\ steps - c.snapshot >= c.limit)
         /\ Charge(c) \in {"no", "raw"}
         /\ Charge(c) = "raw" => c.active
<1>1. CASE Exhausted(c)
  <2>1. q \in Controls /\ Same(c, q)
    BY <1>1 DEF Charged, Controls, Same
  <2>2. c.tripped \/ (c.active /\ steps - c.snapshot >= c.limit)
    BY <1>1 DEF Exhausted, Consumed, Controls
  <2> QED BY <1>1, <2>1, <2>2 DEF Charge, Exhausted
<1>2. CASE ~Exhausted(c)
  BY <1>2 DEF Charged, Charge, Same
<1> QED BY <1>1, <1>2

\* The prover is asked for a claim.
LEMMA ClaimEnters ==
  ASSUME IInv, In(Kinds \ {"scan"}), Bounded(prover),
         NEW guard \in Guards \ {"scan", "uncapped"}, NEW handler \in Handlers,
         guard = "chaining" => prover.chaining < ChainCap,
         guard = "flip" => prover.flips = 0,
         guard = "reductio" => ~prover.reductio,
         guard = "window" => handler = "all",
         guard = "probe" => Top.kind \in Outer \cup {"sublemma"},
         NEW callers \in Seq(Frames), Len(callers) = Len(stack),
         \A i \in 1..Len(stack) : Kin(callers[i], stack[i]),
         Claim(guard, handler, callers)
  PROVE  IInv'
<1> DEFINE guarded == Guarded(guard, prover)
           deeper  == [guarded EXCEPT !.depth = @ + 1]
           tooDeep == deeper.depth > MaxDepth
           arms    == ~tooDeep /\ deeper.depth = 1 /\ CanArm(deeper)
           ready   == IF arms THEN Arm(deeper) ELSE deeper
           frame   == [Frame("claim", guard, handler) EXCEPT !.armed = arms, !.rung = 1]
<1>1. /\ prover \in Controls /\ steps \in Nat /\ Sound(prover, steps)
      /\ MaxDepth \in Nat /\ ChainCap \in Nat /\ stack # <<>> /\ Top.kind # "scan"
      /\ Top.kind \in Kinds
  <2>1. Top \in Frames
    BY DEF IInv, TypeOK, In, Top
  <2> QED BY <2>1, ElaborationAssumption DEF IInv, TypeOK, ProverOK, In, Frames
<1>2. GuardedAs(guard, prover, guarded)
  BY <1>1, GuardedFields
<1>3. /\ deeper \in Controls /\ deeper.depth = prover.depth + 1
      /\ deeper.active = guarded.active /\ deeper.tripped = guarded.tripped
      /\ deeper.snapshot = guarded.snapshot /\ deeper.limit = guarded.limit
      /\ deeper.chaining = guarded.chaining /\ deeper.flips = guarded.flips
      /\ deeper.reductio = guarded.reductio /\ deeper.scan = guarded.scan
      /\ deeper.uncapped = guarded.uncapped
  <2> HIDE DEF guarded
  <2> QED BY <1>2 DEF GuardedAs, Controls
<1>4. arms \in BOOLEAN /\ tooDeep \in BOOLEAN /\ (arms => ~deeper.active /\ ~tooDeep)
  BY DEF CanArm
<1>5. /\ stack' = Append(callers, frame)
      /\ prover' = IF tooDeep THEN ready ELSE Charged(ready)
      /\ thrown' = IF tooDeep THEN "error" ELSE Charge(ready)
      /\ UNCHANGED <<opacityVars, steps, declined>>
  BY DEF Claim
<1>6. /\ frame \in Frames /\ frame.saved = prover /\ frame.kind = "claim"
      /\ frame.guard = guard /\ frame.handler = handler /\ frame.armed = arms
  <2>1. PICK b \in BOOLEAN : b = arms
    BY <1>4
  <2> HIDE DEF arms
  <2>2. frame = [kind |-> "claim", guard |-> guard, handler |-> handler, armed |-> b,
                 rung |-> 1, saved |-> prover]
    <3>1. frame = [Frame("claim", guard, handler) EXCEPT !.armed = b, !.rung = 1]
      BY <2>1, Zenon
    <3> HIDE DEF frame
    <3> QED BY <3>1 DEF Frame
  <2>3. guard \in Guards /\ handler \in Handlers
    OBVIOUS
  <2> HIDE DEF frame
  <2> QED BY <1>1, <2>1, <2>2, <2>3 DEF Frames, Kinds, Rungs
<1> HIDE DEF guarded, frame
<1>7. PICK r : r = ready
  OBVIOUS
<1>8. /\ r \in Controls
      /\ r.active <=> arms \/ deeper.active
      /\ r.tripped <=> deeper.tripped /\ ~arms
      /\ r.snapshot = IF arms THEN steps ELSE deeper.snapshot
      /\ r.limit = deeper.limit /\ r.depth = deeper.depth /\ r.chaining = deeper.chaining
      /\ r.flips = deeper.flips /\ r.reductio = deeper.reductio /\ r.scan = deeper.scan
      /\ r.uncapped = deeper.uncapped
  <2> HIDE DEF deeper, arms
  <2> QED BY <1>1, <1>3, <1>4, <1>7, ArmedFields
<1> HIDE DEF deeper, arms, ready, tooDeep
<1>9. r.active => steps >= r.snapshot
  BY <1>1, <1>2, <1>3, <1>4, <1>8 DEF GuardedAs, Sound
<1>10. /\ prover' \in Controls /\ Same(r, prover')
       /\ prover'.tripped => r.tripped \/ (r.active /\ steps - r.snapshot >= r.limit)
       /\ thrown' \in Thrown /\ (thrown' = "raw" => r.active)
       /\ ~tooDeep \/ thrown' # "no"
  <2>1. CASE tooDeep
    BY <1>5, <1>7, <1>8, <2>1 DEF Same, Thrown
  <2>2. CASE ~tooDeep
    BY <1>1, <1>5, <1>7, <1>8, <1>9, <2>2, ChargedFields DEF Thrown
  <2> QED BY <2>1, <2>2
<1>11. Opens(frame, prover, prover', steps)
  <2>1. prover'.tripped =>
          /\ prover'.active
          /\ \/ prover.tripped /\ ~frame.armed /\ frame.guard # "window"
             \/ steps - prover'.snapshot >= prover'.limit
    BY <1>1, <1>2, <1>3, <1>4, <1>6, <1>8, <1>10 DEF Same, Sound, GuardedAs
  <2>2. /\ prover'.active <=> prover.active \/ frame.armed \/ frame.guard = "window"
        /\ frame.armed \/ frame.guard = "window" => prover'.snapshot = steps
        /\ frame.armed \/ frame.guard = "window" \/ prover'.snapshot = prover.snapshot
        /\ frame.armed => ~prover.active /\ frame.guard # "window"
    BY <1>2, <1>3, <1>4, <1>6, <1>8, <1>10 DEF Same, GuardedAs
  <2>3. /\ frame.guard \in {"window", "probe"} \/ prover'.limit = prover.limit
        /\ prover'.depth = prover.depth + 1
        /\ prover'.chaining = IF frame.guard = "chaining" THEN prover.chaining + 1
                              ELSE prover.chaining
        /\ prover'.flips = IF frame.guard = "flip" THEN prover.flips + 1 ELSE prover.flips
    BY <1>2, <1>3, <1>6, <1>8, <1>10 DEF Same, GuardedAs
  <2>4. /\ frame.guard = "reductio" \/ prover'.reductio = prover.reductio
        /\ prover'.scan = prover.scan
        /\ frame.guard = "uncapped" \/ prover'.uncapped = prover.uncapped
    <3>1. guarded.scan = prover.scan
      BY <1>1, <1>2 DEF GuardedAs, Controls
    <3>2. /\ prover'.scan = guarded.scan /\ prover'.reductio = guarded.reductio
          /\ prover'.uncapped = guarded.uncapped
      BY <1>3, <1>8, <1>10 DEF Same
    <3>3. /\ guard = "reductio" \/ guarded.reductio = prover.reductio
          /\ guard = "uncapped" \/ guarded.uncapped = prover.uncapped
      BY <1>2 DEF GuardedAs
    <3> QED BY <1>6, <3>1, <3>2, <3>3
  <2>5. frame.saved = prover /\ frame.kind = "claim" /\ (frame.guard = "reductio" => ~prover.reductio)
    BY <1>6
  <2> QED BY <2>1, <2>2, <2>3, <2>4, <2>5 DEF Opens
<1>12. /\ prover'.depth = prover.depth + 1
       /\ prover'.chaining <= ChainCap /\ prover'.flips <= 1
  <2>1. /\ prover.depth \in Nat /\ prover.chaining \in Nat /\ prover.flips \in Nat
    BY <1>1 DEF Controls
  <2>2. /\ prover'.chaining = IF guard = "chaining" THEN prover.chaining + 1 ELSE prover.chaining
        /\ prover'.flips = IF guard = "flip" THEN prover.flips + 1 ELSE prover.flips
        /\ prover'.depth = prover.depth + 1
    BY <1>2, <1>3, <1>8, <1>10 DEF Same, GuardedAs
  <2> QED BY <1>1, <2>1, <2>2 DEF Bounded
<1>13. tooDeep <=> prover.depth + 1 > MaxDepth
  BY <1>3 DEF tooDeep
<1>14. /\ Shaped(frame) /\ Top.kind \in Beneath(frame.kind)
       /\ frame.kind \notin Outer /\ frame.kind \in Searching /\ frame.kind # "definition"
  BY <1>1, <1>6 DEF Shaped, Beneath, Outer, Searching
<1>15. Within(frame.kind, prover')
  BY <1>1, <1>6, <1>12 DEF Within, Outer, Controls
<1>16. /\ prover'.depth <= MaxDepth + 1
       /\ prover'.depth <= MaxDepth \/ thrown' # "no"
       /\ thrown' = "raw" => prover'.active
  BY <1>1, <1>10, <1>12, <1>13 DEF Bounded, Same, Controls
<1> QED BY <1>1, <1>5, <1>6, <1>10, <1>11, <1>12, <1>14, <1>15, <1>16, Entered

\* A calc step or a resolution opens the budget if it can.
LEMMA WindowEnters ==
  ASSUME IInv, In(Kinds \ {"scan"}), NEW kind \in {"calc", "resolve"}, NEW handler \in Handlers,
         kind = "resolve" => handler = "none" /\ Top.kind \in Outer \cup {"sublemma"},
         NEW ready, ready = IF CanArm(prover) THEN Arm(prover) ELSE prover,
         stack' = Append(stack, [Frame(kind, "none", handler) EXCEPT !.armed = CanArm(prover)]),
         \/ prover' = ready /\ thrown' = thrown
         \/ prover' = Charged(ready) /\ thrown' = Charge(ready),
         UNCHANGED <<opacityVars, steps, declined>>
  PROVE  IInv'
<1>1. /\ prover \in Controls /\ steps \in Nat /\ Sound(prover, steps)
      /\ MaxDepth \in Nat /\ ChainCap \in Nat /\ stack # <<>> /\ Top.kind # "scan"
      /\ Top.kind \in Kinds /\ Bounded(prover) /\ thrown = "no"
  BY Here DEF In
<1>2. PICK arms \in BOOLEAN : arms = CanArm(prover)
  BY DEF CanArm
<1>3. arms => ~prover.active
  BY <1>2 DEF CanArm
<1>4. PICK frame : frame = [Frame(kind, "none", handler) EXCEPT !.armed = arms]
  OBVIOUS
<1>5. stack' = Append(stack, frame)
  BY <1>2, <1>4, Zenon
<1>6. frame = [kind |-> kind, guard |-> "none", handler |-> handler, armed |-> arms,
               rung |-> 0, saved |-> prover]
  BY <1>4 DEF Frame
<1>7. /\ frame \in Frames /\ frame.saved = prover /\ frame.kind = kind
      /\ frame.guard = "none" /\ frame.armed = arms /\ frame.handler = handler
  BY <1>1, <1>6 DEF Frames, Kinds, Rungs, Guards
<1>8. /\ ready \in Controls
      /\ ready.active <=> arms \/ prover.active
      /\ ready.tripped <=> prover.tripped /\ ~arms
      /\ ready.snapshot = IF arms THEN steps ELSE prover.snapshot
      /\ ready.limit = prover.limit /\ ready.depth = prover.depth
      /\ ready.chaining = prover.chaining /\ ready.flips = prover.flips
      /\ ready.reductio = prover.reductio /\ ready.scan = prover.scan
      /\ ready.uncapped = prover.uncapped
  <2>1. ready = IF arms THEN Arm(prover) ELSE prover
    BY <1>2, Zenon
  <2> QED BY <1>1, <2>1, ArmedFields
<1>9. ready.active => steps >= ready.snapshot
  BY <1>1, <1>8 DEF Sound
<1>10. /\ prover' \in Controls /\ Same(ready, prover')
       /\ prover'.tripped => ready.tripped \/ (ready.active /\ steps - ready.snapshot >= ready.limit)
       /\ thrown' \in Thrown /\ (thrown' = "raw" => ready.active)
  <2>1. CASE prover' = ready /\ thrown' = thrown
    BY <1>1, <1>8, <2>1 DEF Same, Thrown
  <2>2. CASE prover' = Charged(ready) /\ thrown' = Charge(ready)
    BY <1>1, <1>8, <1>9, <2>2, ChargedFields DEF Thrown
  <2> QED BY <2>1, <2>2
<1>11. Opens(frame, prover, prover', steps)
  BY <1>1, <1>3, <1>7, <1>8, <1>10 DEF Opens, Same, Sound
<1>12. Bounded(prover')
  BY <1>1, <1>8, <1>10 DEF Bounded, Same
<1>13. /\ Shaped(frame) /\ Top.kind \in Beneath(frame.kind)
       /\ frame.kind \notin Outer /\ frame.kind \in Searching /\ frame.kind # "definition"
       /\ Within(frame.kind, prover')
  BY <1>1, <1>7 DEF Shaped, Beneath, Outer, Searching, Within
<1>14. thrown' = "raw" => prover'.active
  BY <1>10 DEF Same
<1>15. /\ prover'.depth <= MaxDepth + 1 /\ prover'.depth <= MaxDepth
       /\ prover'.chaining <= ChainCap /\ prover'.flips <= 1
  BY <1>1, <1>10, <1>12 DEF Bounded, Controls
<1>16. stack \in Seq(Frames) /\ \A i \in 1..Len(stack) : Kin(stack[i], stack[i])
  BY DEF IInv, TypeOK, Kin
<1> QED BY <1>1, <1>5, <1>7, <1>10, <1>11, <1>13, <1>14, <1>15, <1>16, Entered

\* A reading, a premise's lemma or a scan is entered.
LEMMA GuardEnters ==
  ASSUME IInv, In(Kinds \ {"scan"}),
         NEW kind \in {"attempt", "sublemma", "scan"},
         NEW guard \in {"none", "reductio", "probe", "chaining", "scan"},
         NEW handler \in Handlers,
         guard = "chaining" => prover.chaining < ChainCap,
         guard = "reductio" => ~prover.reductio,
         guard = "probe" => kind = "attempt",
         kind = "attempt" => Top.kind \in Outer,
         kind = "sublemma" => Top.kind = "resolve",
         kind = "scan" => guard = "scan" /\ Top.kind = "claim",
         NEW callers \in Seq(Frames), Len(callers) = Len(stack),
         \A i \in 1..Len(stack) : Kin(callers[i], stack[i]),
         stack' = Append(callers, Frame(kind, guard, handler)),
         prover' = Guarded(guard, prover),
         UNCHANGED <<opacityVars, steps, thrown, declined>>
  PROVE  IInv'
<1>1. /\ prover \in Controls /\ steps \in Nat /\ Sound(prover, steps)
      /\ MaxDepth \in Nat /\ ChainCap \in Nat /\ stack # <<>> /\ Top.kind # "scan"
      /\ Top.kind \in Kinds /\ Bounded(prover) /\ thrown = "no" /\ Within(Top.kind, prover)
  BY Here DEF In
<1>2. PICK frame : frame = Frame(kind, guard, handler)
  OBVIOUS
<1>3. /\ frame \in Frames /\ frame.saved = prover /\ frame.kind = kind
      /\ frame.guard = guard /\ ~frame.armed /\ frame.handler = handler
  BY <1>1, <1>2 DEF Frame, Frames, Kinds, Rungs, Guards
<1>4. GuardedAs(guard, prover, prover')
  BY <1>1, GuardedFields DEF Guards
<1>5. kind = "attempt" => Calm(prover)
  BY <1>1 DEF Within
<1>6. Opens(frame, prover, prover', steps)
  <2>1. prover'.tripped => prover'.active /\ prover.tripped
    BY <1>1, <1>4 DEF GuardedAs, Sound
  <2>2. frame.guard = "scan" \/ prover'.scan = prover.scan
    BY <1>1, <1>3, <1>4 DEF GuardedAs, Controls
  <2>3. prover'.active = prover.active
    BY <1>1, <1>4 DEF GuardedAs, Controls
  <2> QED BY <1>1, <1>3, <1>4, <2>1, <2>2, <2>3 DEF GuardedAs, Opens
<1>7. Bounded(prover') /\ prover' \in Controls
  BY <1>1, <1>4 DEF Bounded, GuardedAs, Controls
<1>8. Within(frame.kind, prover')
  BY <1>1, <1>3, <1>4, <1>5 DEF Within, GuardedAs, Outer, Calm
<1>9. /\ Shaped(frame) /\ Top.kind \in Beneath(frame.kind) /\ frame.kind # "definition"
      /\ frame.kind \in Outer => Calm(prover)
  BY <1>1, <1>3, <1>5 DEF Shaped, Beneath, Outer
<1>10. /\ prover'.depth <= MaxDepth + 1 /\ prover'.depth <= MaxDepth
       /\ prover'.chaining <= ChainCap /\ prover'.flips <= 1
  BY <1>1, <1>7 DEF Bounded, Controls
<1>11. thrown' \in Thrown /\ thrown' # "raw"
  BY <1>1 DEF Thrown
<1> QED BY <1>1, <1>2, <1>3, <1>6, <1>7, <1>8, <1>9, <1>10, <1>11, Entered
-----------------------------------------------------------------------------
(* Steps that neither enter nor leave a scope, and steps that leave one.    *)

LEMMA SoundLater ==
  ASSUME NEW c \in Controls, NEW k \in Nat, Sound(c, k)
  PROVE  Sound(c, k + 1)
  BY DEF Sound, Controls

LEMMA Stays ==
  ASSUME IInv, stack # <<>>,
         stack' \in Seq(Frames), Len(stack') = Len(stack),
         \A i \in 1..Len(stack) : Kin(stack'[i], stack[i]),
         prover' \in Controls, Same(prover, prover'),
         steps' \in 0..MaxSteps, Sound(prover', steps'),
         \A i \in 1..Len(stack) : Sound(stack[i].saved, steps'),
         \/ steps' >= steps
         \/ ~prover'.tripped /\ \A i \in 1..Len(stack) : ~stack[i].saved.tripped,
         prover'.tripped => prover.tripped \/ steps' - prover'.snapshot >= prover'.limit,
         thrown' \in Thrown,
         thrown' = "raw" => prover'.active /\ Top.kind \in Searching,
         Bounded(prover) \/ (Top.kind = "claim" /\ thrown' # "no"),
         opacity' \in [Names -> Opacities], pending' \in Restores, scope' = scope,
         (\E i \in 1..Len(stack) : stack[i].kind = "definition") =>
           Undoes(pending', opacity', scope.start, scope.before),
         declined' \in BOOLEAN
  PROVE  IInv'
<1>1. /\ stack \in Seq(Frames) /\ prover \in Controls /\ steps \in Nat /\ steps' \in Nat
      /\ StackOK(stack, prover, steps) /\ Len(stack) \in Nat /\ Len(stack) >= 1
  BY ElaborationAssumption DEF IInv, TypeOK
<1>2. StackOK(stack', prover', steps')
  BY <1>1, Adjusted
<1>3. TypeOK'
  BY DEF IInv, TypeOK, Same
<1>4. stack' # <<>> /\ Top'.kind = Top.kind
  BY <1>1 DEF Top, Kin
<1>5. ProverOK'
  BY <1>4 DEF ProverOK, Bounded, Same
<1>6. ScopeOK'
  BY <1>1 DEF ScopeOK, Kin
<1>7. WindowsOK(stack', prover', steps')
  BY <1>1, WindowsAdjusted DEF IInv
<1> QED BY <1>2, <1>3, <1>5, <1>6, <1>7 DEF IInv

\* A step on the same stack, with the controls as they were or charged.
LEMMA StaysCharged ==
  ASSUME IInv, stack # <<>>, Bounded(prover),
         stack' \in Seq(Frames), Len(stack') = Len(stack),
         \A i \in 1..Len(stack) : Kin(stack'[i], stack[i]),
         Top.kind \in Searching,
         prover' = Charged(prover),
         thrown' \in {"raw", Charge(prover)}, thrown' = "raw" => Exhausted(prover),
         UNCHANGED <<opacityVars, steps, declined>>
  PROVE  IInv'
<1>1. /\ prover \in Controls /\ steps \in Nat /\ Sound(prover, steps)
      /\ steps \in 0..MaxSteps /\ declined \in BOOLEAN
      /\ opacity \in [Names -> Opacities] /\ pending \in Restores
  BY Here DEF IInv, TypeOK
<1>2. /\ prover' \in Controls /\ Same(prover, prover')
      /\ prover'.tripped => prover.tripped \/ (prover.active /\ steps - prover.snapshot >= prover.limit)
  BY <1>1, ChargedFields DEF Sound
<1>3. Sound(prover', steps)
  BY <1>1, <1>2 DEF Sound, Same
<1>4. /\ thrown' \in Thrown /\ (thrown' = "raw" => prover'.active)
      /\ steps >= steps
      /\ prover'.tripped => prover.tripped \/ steps - prover'.snapshot >= prover'.limit
  BY <1>1, <1>2 DEF Charge, Thrown, Exhausted, Same
<1>5. \A i \in 1..Len(stack) : Sound(stack[i].saved, steps)
  BY DEF IInv, StackOK, FrameOK, SavedOK
<1>6. (\E i \in 1..Len(stack) : stack[i].kind = "definition") =>
        Undoes(pending, opacity, scope.start, scope.before)
  BY DEF IInv, ScopeOK
<1> QED BY <1>1, <1>2, <1>3, <1>4, <1>5, <1>6, Stays DEF opacityVars

\* A step on the same stack and with the same controls.
LEMMA StaysPut ==
  ASSUME IInv, stack # <<>>,
         Bounded(prover) \/ (Top.kind = "claim" /\ thrown' # "no"),
         thrown' \in {"no", "error"}, declined' \in BOOLEAN,
         UNCHANGED <<opacityVars, steps, prover, stack>>
  PROVE  IInv'
<1>1. /\ prover \in Controls /\ steps \in Nat /\ Sound(prover, steps)
      /\ steps \in 0..MaxSteps /\ stack \in Seq(Frames)
      /\ opacity \in [Names -> Opacities] /\ pending \in Restores
  BY Here DEF IInv, TypeOK
<1>2. \A i \in 1..Len(stack) : Sound(stack[i].saved, steps) /\ Kin(stack[i], stack[i])
  BY DEF IInv, StackOK, FrameOK, SavedOK, Kin
<1>3. (\E i \in 1..Len(stack) : stack[i].kind = "definition") =>
        Undoes(pending, opacity, scope.start, scope.before)
  BY DEF IInv, ScopeOK
<1>4. Same(prover, prover) /\ thrown' \in Thrown /\ thrown' # "raw" /\ steps >= steps
  BY <1>1 DEF Same, Thrown
<1> QED BY <1>1, <1>2, <1>3, <1>4, Stays DEF opacityVars

\* A scope is left, by x or by a return.
LEMMA Leaves ==
  ASSUME IInv, stack # <<>>, NEW x,
         stack' = Below, prover' = Leave(Top, prover, x),
         thrown' \in Thrown,
         thrown' = "raw" => prover'.active,
         opacity' \in [Names -> Opacities], pending' \in Restores, scope' \in Scopes,
         \/ UNCHANGED opacityVars
         \/ Top.kind = "definition",
         UNCHANGED <<steps, declined>>
  PROVE  IInv' /\ Same(prover', Top.saved)
<1>1. /\ stack \in Seq(Frames) /\ prover \in Controls /\ steps \in Nat
      /\ StackOK(stack, prover, steps) /\ Sound(prover, steps)
      /\ Len(stack) \in Nat /\ Len(stack) >= 1
      /\ \A i \in 1..Len(stack) : stack[i] \in Frames
  BY Stacked DEF IInv, TypeOK, ProverOK
<1>2. /\ prover' \in Controls /\ Same(prover', Top.saved) /\ Sound(prover', steps)
      /\ Bounded(prover') /\ StackOK(stack', prover', steps)
      /\ Len(stack) = 1 => Calm(prover')
  BY <1>1, Popped DEF Top, Below
<1>3. /\ stack' \in Seq(Frames) /\ Len(stack') = Len(stack) - 1
      /\ \A i \in 1..(Len(stack) - 1) : stack'[i] = stack[i] /\ i \in 1..Len(stack)
  <2>1. /\ stack' \in Seq(Frames)
        /\ Len(stack') = IF 1 <= Len(stack) - 1 THEN Len(stack) - 1 - 1 + 1 ELSE 0
        /\ \A i \in 1..(Len(stack) - 1 - 1 + 1) : stack'[i] = stack[1 + i - 1]
    BY <1>1, SubSeqProperties DEF Below
  <2>2. Len(stack') = Len(stack) - 1
    <3>1. PICK n : n = Len(stack)
      OBVIOUS
    <3>2. /\ n \in Nat /\ n >= 1 /\ Len(stack') = IF 1 <= n - 1 THEN n - 1 - 1 + 1 ELSE 0
      BY <1>1, <2>1, <3>1
    <3> QED BY <3>1, <3>2
  <2>3. ASSUME NEW i \in 1..(Len(stack) - 1)
        PROVE  stack'[i] = stack[i] /\ i \in 1..Len(stack)
    BY <1>1, <2>1
  <2> QED BY <2>1, <2>2, <2>3
<1>4. TypeOK'
  <2>1. prover'.depth <= MaxDepth + 1
    BY <1>2, ElaborationAssumption DEF Bounded, Controls
  <2> QED BY <1>2, <1>3, <2>1 DEF IInv, TypeOK, Bounded
<1>5. stack' = <<>> <=> Len(stack) = 1
  BY <1>1, <1>3
<1>6. ProverOK'
  <2>1. ASSUME thrown' = "raw"
        PROVE  prover'.active /\ stack' # <<>> /\ Top'.kind \in Searching
    <3>1. prover'.active /\ stack' # <<>>
      BY <1>2, <1>5, <2>1 DEF Calm
    <3>2. Len(stack') \in 1..Len(stack') /\ Top' \in Frames
      BY <1>1, <1>3, <3>1 DEF Top
    <3>3. Within(Top'.kind, prover')
      BY <1>2, <3>2 DEF StackOK, FrameOK, Inside, Top
    <3> QED BY <3>1, <3>2, <3>3 DEF Within, Calm, Outer, Searching, Frames, Kinds
  <2> QED BY <1>2, <1>5, <2>1 DEF ProverOK
<1>7. ScopeOK'
  <2>1. ASSUME NEW i \in 1..Len(stack'), stack'[i].kind = "definition"
        PROVE  i \in 1..Len(stack) /\ stack[i].kind = "definition" /\ Top.kind # "definition"
    <3>1. i \in 1..Len(stack) /\ stack[i].kind = "definition" /\ i < Len(stack)
      BY <1>1, <1>3, <2>1
    <3>2. stack[i].kind \in Beneath(Top.kind)
      BY <1>1, <3>1 DEF StackOK, Standing, Top
    <3> QED BY <3>1, <3>2 DEF Beneath
  <2> QED BY <2>1 DEF IInv, ScopeOK, opacityVars
<1>8. WindowsOK(stack', prover', steps)
  BY <1>1, WindowsPopped DEF Top, Below, IInv
<1> QED BY <1>2, <1>4, <1>6, <1>7, <1>8 DEF IInv
-----------------------------------------------------------------------------
(* The opacities of a definition. *)

\* One more note: the name is transparent now, and what it was is known.
LEMMA NotedOnce ==
  ASSUME NEW notes \in Restores, NEW o \in [Names -> Opacities], NEW n \in Names,
         NEW k \in Nat, NEW o0, Undoes(notes, o, k, o0)
  PROVE  Undoes(Append(notes, <<n, o[n]>>), [o EXCEPT ![n] = "transparent"], k, o0)
<1> DEFINE m == Len(notes)
           longer == Append(notes, <<n, o[n]>>)
           opened == [o EXCEPT ![n] = "transparent"]
<1>1. /\ m \in Nat /\ k <= m /\ Len(longer) = m + 1 /\ longer[m + 1] = <<n, o[n]>>
      /\ \A i \in 1..m : longer[i] = notes[i]
  BY DEF Undoes, Restores
<1> HIDE DEF longer, m
<1>2. ASSUME NEW a \in Names
      PROVE  \/ /\ \A i \in (k + 1)..(m + 1) : longer[i][1] # a
                /\ opened[a] = o0[a]
             \/ \E i \in (k + 1)..(m + 1) : /\ longer[i][1] = a /\ longer[i][2] = o0[a]
                                            /\ \A j \in (k + 1)..(m + 1) :
                                                 longer[j][1] = a => i <= j
  <2>0. \A i \in (k + 1)..(m + 1) : i \in (k + 1)..m \/ i = m + 1
    BY <1>1
  <2>1. \A i \in (k + 1)..m : longer[i] = notes[i] /\ i \in (k + 1)..(m + 1)
    BY <1>1
  <2>2. CASE \E i \in (k + 1)..m : IsFirst(notes, a, k, i) /\ notes[i][2] = o0[a]
    <3>1. PICK i \in (k + 1)..m : IsFirst(notes, a, k, i) /\ notes[i][2] = o0[a]
      BY <2>2
    <3>2. longer[i][1] = a /\ longer[i][2] = o0[a] /\ i \in (k + 1)..(m + 1)
      BY <2>1, <3>1 DEF IsFirst
    <3>3. ASSUME NEW j \in (k + 1)..(m + 1), longer[j][1] = a
          PROVE  i <= j
      <4>1. CASE j \in (k + 1)..m
        BY <2>1, <3>1, <3>3, <4>1 DEF IsFirst, m
      <4>2. CASE j = m + 1
        BY <1>1, <4>2
      <4> QED BY <2>0, <4>1, <4>2
    <3> QED BY <3>2, <3>3
  <2>3. CASE (\A i \in (k + 1)..m : notes[i][1] # a) /\ o[a] = o0[a]
    <3>1. CASE a = n
      <4>1. longer[m + 1][1] = a /\ longer[m + 1][2] = o0[a] /\ m + 1 \in (k + 1)..(m + 1)
        BY <1>1, <2>3, <3>1
      <4>2. \A j \in (k + 1)..(m + 1) : longer[j][1] = a => m + 1 <= j
        BY <1>1, <2>0, <2>1, <2>3
      <4> QED BY <4>1, <4>2
    <3>2. CASE a # n
      <4>1. \A i \in (k + 1)..(m + 1) : longer[i][1] # a
        BY <1>1, <2>0, <2>1, <2>3, <3>2
      <4>2. opened[a] = o0[a]
        BY <2>3, <3>2
      <4> QED BY <4>1, <4>2
    <3> QED BY <3>1, <3>2
  <2> QED BY <2>2, <2>3 DEF Undoes, m
<1> HIDE DEF opened
<1>3. ASSUME NEW a \in Names
      PROVE  \/ /\ \A i \in (k + 1)..Len(longer) : longer[i][1] # a
                /\ opened[a] = o0[a]
             \/ \E i \in (k + 1)..Len(longer) :
                  IsFirst(longer, a, k, i) /\ longer[i][2] = o0[a]
  <2>1. Len(longer) = m + 1
    BY <1>1
  <2> QED BY <1>2, <2>1, Zenon DEF IsFirst
<1>4. k <= Len(longer)
  BY <1>1
<1>5. Undoes(longer, opened, k, o0)
  BY <1>3, <1>4, Zenon DEF Undoes
<1> QED BY <1>5 DEF longer, opened

\* Undoing the notes gives back what the definition found.
LEMMA UndoneGivesBack ==
  ASSUME pending \in Restores, opacity \in [Names -> Opacities],
         NEW k \in Nat, NEW o0 \in [Names -> Opacities], Undoes(pending, opacity, k, o0)
  PROVE  Undone(k) = o0
<1>1. ASSUME NEW n \in Names
      PROVE  (IF Noted(n, k) THEN pending[FirstNote(n, k)][2] ELSE opacity[n]) = o0[n]
  <2>1. CASE \E i \in (k + 1)..Len(pending) : IsFirst(pending, n, k, i) /\ pending[i][2] = o0[n]
    <3>1. PICK i \in (k + 1)..Len(pending) : IsFirst(pending, n, k, i) /\ pending[i][2] = o0[n]
      BY <2>1
    <3> DEFINE notes == {j \in (k + 1)..Len(pending) : pending[j][1] = n}
    <3>2. i \in notes /\ \A j \in notes : i <= j
      BY <3>1 DEF IsFirst
    <3>3. FirstNote(n, k) \in notes /\ \A j \in notes : FirstNote(n, k) <= j
      BY <3>2 DEF FirstNote
    <3>4. FirstNote(n, k) = i
      <4>1. PICK f : f = FirstNote(n, k)
        OBVIOUS
      <4>2. f \in Int /\ i \in Int /\ f <= i /\ i <= f
        BY <3>2, <3>3, <4>1
      <4> QED BY <4>1, <4>2
    <3>5. Noted(n, k)
      BY <3>1 DEF IsFirst, Noted
    <3> QED BY <3>1, <3>4, <3>5
  <2>2. CASE (\A i \in (k + 1)..Len(pending) : pending[i][1] # n) /\ opacity[n] = o0[n]
    BY <2>2 DEF Noted
  <2> QED BY <2>1, <2>2 DEF Undoes
<1> QED BY <1>1 DEF Undone
-----------------------------------------------------------------------------
(* The actions. *)

LEMMA CallersKin ==
  ASSUME stack \in Seq(Frames), stack # <<>>, NEW r \in Rungs
  PROVE  /\ Callers(r) \in Seq(Frames) /\ Len(Callers(r)) = Len(stack)
         /\ \A i \in 1..Len(stack) : Kin(Callers(r)[i], stack[i])
<1> DEFINE n == Len(stack)
           g == [stack[n] EXCEPT !.rung = r]
<1>1. n \in Nat /\ n >= 1 /\ n \in 1..n /\ \A i \in 1..n : stack[i] \in Frames
  BY Stacked
<1>2. g \in Frames /\ Kin(g, stack[n])
  BY <1>1 DEF Frames, Kin
<1>3. Callers(r) = [stack EXCEPT ![n] = g]
  BY DEF Callers
<1> HIDE DEF g
<1>4. /\ Callers(r) \in Seq(Frames) /\ Len(Callers(r)) = n
      /\ \A i \in 1..n : Callers(r)[i] = IF i = n THEN g ELSE stack[i]
  BY <1>1, <1>2, <1>3
<1> QED BY <1>2, <1>4 DEF Kin

LEMMA ClaimStep ==
  ASSUME IInv, In(Kinds \ {"scan"}),
         NEW guard \in {"none", "chaining", "flip", "reductio", "probe", "window", "sideCondition"},
         NEW handler \in Handlers,
         guard = "chaining" => prover.chaining < ChainCap,
         guard = "flip" => prover.flips = 0,
         guard = "reductio" => ~prover.reductio,
         guard = "window" => handler = "all",
         guard = "probe" => Top.kind \in Outer \cup {"sublemma"},
         NEW callers, callers = stack \/ \E r \in Rungs : callers = Callers(r),
         Claim(guard, handler, callers)
  PROVE  IInv'
<1>1. stack \in Seq(Frames) /\ stack # <<>> /\ Bounded(prover)
  BY Here DEF IInv, TypeOK, In
<1>2. /\ callers \in Seq(Frames) /\ Len(callers) = Len(stack)
      /\ \A i \in 1..Len(stack) : Kin(callers[i], stack[i])
  BY <1>1, CallersKin DEF Kin
<1>3. guard \in Guards \ {"scan", "uncapped"}
  BY DEF Guards
<1> QED BY <1>1, <1>2, <1>3, ClaimEnters

LEMMA CalcStepStep ==
  ASSUME IInv, In(Kinds \ {"scan"}), NEW handler \in Handlers, CalcStep(handler)
  PROVE  IInv'
<1>1. PICK ready : ready = IF CanArm(prover) THEN Arm(prover) ELSE prover
  OBVIOUS
<1>2. /\ stack' = Append(stack, [Frame("calc", "none", handler) EXCEPT !.armed = CanArm(prover)])
      /\ prover' = Charged(ready) /\ thrown' = Charge(ready)
      /\ UNCHANGED <<opacityVars, steps, declined>>
  BY <1>1, Zenon DEF CalcStep
<1> QED BY <1>1, <1>2, WindowEnters

LEMMA EnterStep ==
  ASSUME IInv, In(Kinds \ {"scan"}),
         NEW kind \in {"attempt", "sublemma"},
         NEW guard \in {"none", "reductio", "probe", "chaining"},
         NEW handler \in Handlers,
         guard = "chaining" => prover.chaining < ChainCap,
         guard = "reductio" => ~prover.reductio,
         guard = "probe" => kind = "attempt",
         kind = "attempt" => Top.kind \in Outer,
         kind = "sublemma" => Top.kind = "resolve",
         Enter(kind, guard, handler)
  PROVE  IInv'
<1>1. stack \in Seq(Frames) /\ \A i \in 1..Len(stack) : Kin(stack[i], stack[i])
  BY DEF IInv, TypeOK, Kin
<1> QED BY <1>1, GuardEnters DEF Enter

LEMMA TacticStep == ASSUME IInv, Tactic PROVE IInv'
<1>1. ASSUME In({"claim"}) \/ In({"calc"})
      PROVE  In(Kinds \ {"scan"})
  BY <1>1 DEF In, Kinds
<1>2. stack # <<>> /\ In({"claim"}) => Bounded(prover)
  BY Here DEF In
<1>3. 1 \in Rungs /\ 2 \in Rungs /\ 3 \in Rungs /\ 4 \in Rungs /\ 5 \in Rungs /\ 6 \in Rungs
  BY DEF Rungs
<1>4. {"none", "errors", "all"} \subseteq Handlers
  BY DEF Handlers
<1>5. CASE TryAutoProveEqualityGoal
  BY <1>1, <1>4, <1>5, CalcStepStep DEF TryAutoProveEqualityGoal, Trying
<1>6. CASE CalcDescends
  BY <1>1, <1>4, <1>6, CalcStepStep DEF CalcDescends
<1>7. CASE TryOrderedFieldTier \/ TryConjunctionIntro
  BY <1>1, <1>3, <1>4, <1>7, ClaimStep DEF TryOrderedFieldTier, TryConjunctionIntro, Trying
<1>8. CASE TryContextFactMatch
  <2>1. In(Kinds \ {"scan"}) /\ Top.kind = "claim" /\ stack \in Seq(Frames) /\ stack # <<>>
    BY <1>1, <1>8 DEF TryContextFactMatch, Trying, In, IInv, TypeOK
  <2>2. /\ Callers(2) \in Seq(Frames) /\ Len(Callers(2)) = Len(stack)
        /\ \A i \in 1..Len(stack) : Kin(Callers(2)[i], stack[i])
    BY <1>3, <2>1, CallersKin
  <2> QED BY <1>4, <1>8, <2>1, <2>2, GuardEnters DEF TryContextFactMatch
<1>9. CASE TryDisjunctionIntro
  BY <1>1, <1>3, <1>4, <1>9, ClaimStep DEF TryDisjunctionIntro, Trying
<1>10. CASE TryContextEqualityBridge
  BY <1>1, <1>3, <1>4, <1>10, ClaimStep DEF TryContextEqualityBridge, Trying
<1>11. CASE BridgeDeclines
  BY <1>2, <1>11, StaysPut DEF BridgeDeclines, Trying, In
<1>12. CASE TrySymmetryFlip
  BY <1>1, <1>3, <1>4, <1>12, ClaimStep DEF TrySymmetryFlip, Trying
<1>13. CASE TryReductio
  BY <1>1, <1>3, <1>4, <1>13, ClaimStep DEF TryReductio, Trying
<1>14. CASE ZetaRetry
  <2>1. stack # <<>> /\ stack \in Seq(Frames) /\ Top.kind \in Searching /\ Bounded(prover)
    BY <1>2, <1>14 DEF ZetaRetry, Trying, In, IInv, TypeOK, Searching
  <2>2. /\ Callers(1) \in Seq(Frames) /\ Len(Callers(1)) = Len(stack)
        /\ \A i \in 1..Len(stack) : Kin(Callers(1)[i], stack[i])
    BY <1>3, <2>1, CallersKin
  <2>3. stack' = Callers(1) /\ prover' = Charged(prover) /\ thrown' = Charge(prover)
        /\ UNCHANGED <<opacityVars, steps, declined>>
    BY <1>14 DEF ZetaRetry
  <2>4. thrown' = "raw" => Exhausted(prover)
    BY <2>3 DEF Charge
  <2> QED BY <2>1, <2>2, <2>3, <2>4, StaysCharged
<1> QED BY <1>5, <1>6, <1>7, <1>8, <1>9, <1>10, <1>11, <1>12, <1>13, <1>14 DEF Tactic

\* A scan is inside a claim, with the flag set: none of the steps that ask the
\* prover is open to it.
LEMMA ScanIsIdle ==
  ASSUME IInv, stack # <<>>, Top.kind = "scan"
  PROVE  prover.scan /\ ~MayChain(prover)
  BY Here DEF Within, MayChain, Controls

LEMMA CitationStep == ASSUME IInv, Citation PROVE IInv'
<1>1. {"none", "all"} \subseteq Handlers
  BY DEF Handlers
<1>2. ASSUME In({"resolve"}) \/ (Citing /\ Top.kind # "scan")
      PROVE  In(Kinds \ {"scan"})
  BY <1>2 DEF In, Kinds, Citing, Surface
<1>3. Citing => stack # <<>>
  BY DEF Citing, In
<1>4. CASE DischargeFallback
  BY <1>1, <1>2, <1>3, <1>4, ScanIsIdle, ClaimStep DEF DischargeFallback
<1>10. CASE AutoFillPremise
  <2>1. In(Kinds \ {"scan"}) /\ Top.kind \in Outer \cup {"sublemma"}
    BY <1>2, <1>3, <1>10, ScanIsIdle DEF AutoFillPremise, Citing, In, Surface, Outer
  <2> QED BY <1>1, <1>10, <2>1, ClaimStep DEF AutoFillPremise
<1>5. CASE DischargePremise
  BY <1>1, <1>2, <1>3, <1>5, ScanIsIdle, ClaimStep DEF DischargePremise, MayChain
<1>6. CASE ResolvePremises
  <2>1. In(Kinds \ {"scan"}) /\ Top.kind \in Outer \cup {"sublemma"}
    BY <1>2, <1>3, <1>6, ScanIsIdle DEF ResolvePremises, Citing, In, Surface, Outer
  <2>2. PICK ready : ready = IF CanArm(prover) THEN Arm(prover) ELSE prover
    OBVIOUS
  <2>3. /\ stack' = Append(stack, [Frame("resolve", "none", "none") EXCEPT !.armed = CanArm(prover)])
        /\ prover' = ready /\ thrown' = thrown
        /\ UNCHANGED <<opacityVars, steps, declined>>
    BY <1>6, <2>2, Zenon DEF ResolvePremises
  <2> QED BY <1>1, <2>1, <2>2, <2>3, WindowEnters
<1>7. CASE ResolveSlot
  BY <1>7, Here, StaysCharged DEF ResolveSlot, In, Searching, IInv, TypeOK, Kin
<1>8. CASE TrySubLemmaSharingMetavars
  BY <1>1, <1>2, <1>8, EnterStep DEF TrySubLemmaSharingMetavars, In
<1>9. CASE TryGuessUndeterminedPremise
  BY <1>1, <1>2, <1>9, ClaimStep DEF TryGuessUndeterminedPremise
<1> QED BY <1>4, <1>5, <1>6, <1>7, <1>8, <1>9, <1>10 DEF Citation

LEMMA SourceStep == ASSUME IInv, Source PROVE IInv'
<1>1. Handlers = {"none", "errors", "all", "convert", "report"}
  BY DEF Handlers
<1>2. In(Surface) => In(Kinds \ {"scan"}) /\ Top.kind \in Outer
  BY DEF In, Kinds, Surface, Outer
<1>3. CASE BareStep \/ ProveCitedFact \/ ProveUnaided \/ FiniteCheckCase
  BY <1>1, <1>2, <1>3, ClaimStep DEF BareStep, ProveCitedFact, ProveUnaided, FiniteCheckCase
<1>4. CASE Substitute
  BY <1>1, <1>2, <1>4, ClaimStep DEF Substitute
<1>5. CASE SubstitutedPremise
  BY <1>1, <1>2, <1>5, ClaimStep DEF SubstitutedPremise
<1>6. CASE DischargeTrailingSideConditions
  BY <1>1, <1>2, <1>6, ClaimStep DEF DischargeTrailingSideConditions
<1>7. CASE RewriteStep
  BY <1>1, <1>2, <1>7, CalcStepStep DEF RewriteStep
<1>8. CASE TryReading \/ RecoverClaimHint
  BY <1>1, <1>2, <1>8, EnterStep DEF TryReading, RecoverClaimHint
<1>9. CASE CiteAgainstFalse
  BY <1>1, <1>2, <1>9, EnterStep DEF CiteAgainstFalse
<1>10. CASE Probe
  BY <1>1, <1>2, <1>10, EnterStep DEF Probe
<1> QED BY <1>3, <1>4, <1>5, <1>6, <1>7, <1>8, <1>9, <1>10 DEF Source

LEMMA WorkStep == ASSUME IInv, Work PROVE IInv'
<1>1. stack # <<>>
  BY DEF Work, Reduce, Spend, Fail, In
<1>2. /\ prover \in Controls /\ steps \in Nat /\ Sound(prover, steps) /\ stack \in Seq(Frames)
      /\ opacity \in [Names -> Opacities] /\ pending \in Restores /\ declined \in BOOLEAN
      /\ \A i \in 1..Len(stack) : stack[i] \in Frames
  BY <1>1, Here, Stacked DEF IInv, TypeOK
<1>3. thrown = "no" /\ Bounded(prover)
  BY <1>1, Here DEF Work, Reduce, Spend, Fail, In
<1>4. CASE Reduce
  <2>1. ASSUME NEW i \in 1..Len(stack)
        PROVE  Sound(stack[i].saved, steps + 1) /\ Kin(stack[i], stack[i])
    <3>1. stack[i].saved \in Controls /\ Sound(stack[i].saved, steps)
      BY <1>2 DEF Frames, IInv, StackOK, FrameOK, SavedOK
    <3> QED BY <1>2, <3>1, SoundLater DEF Kin
  <2>2. Sound(prover, steps + 1) /\ Same(prover, prover)
    BY <1>2, SoundLater DEF Same
  <2>3. steps' = steps + 1 /\ steps' \in 0..MaxSteps
    BY <1>2, <1>4, ElaborationAssumption DEF Reduce
  <2>4. (\E i \in 1..Len(stack) : stack[i].kind = "definition") =>
          Undoes(pending, opacity, scope.start, scope.before)
    BY DEF IInv, ScopeOK
  <2>5. UNCHANGED <<opacity, pending, scope, prover, stack, thrown, declined>>
    BY <1>4 DEF Reduce, opacityVars
  <2> QED BY <1>1, <1>2, <1>3, <2>1, <2>2, <2>3, <2>4, <2>5, Stays DEF Thrown
<1>5. CASE Spend
  <2>1. Top.kind \in Searching /\ \A i \in 1..Len(stack) : Kin(stack[i], stack[i])
    BY <1>5 DEF Spend, In, Searching, Kin
  <2> QED BY <1>1, <1>2, <1>3, <1>5, <2>1, StaysCharged DEF Spend
<1>6. CASE Fail
  BY <1>1, <1>2, <1>3, <1>6, StaysPut DEF Fail
<1> QED BY <1>4, <1>5, <1>6 DEF Work

\* An error out of budget that is still bare when it has passed a frame has a
\* window around it.
LEMMA BareInWindow ==
  ASSUME IInv, stack # <<>>, ~Continues, thrown \in Thrown, prover' = Leave(Top, prover, thrown),
         thrown' = After(Top, thrown), thrown' = "raw"
  PROVE  prover'.active
<1>1. /\ Top \in Frames /\ Shaped(Top) /\ prover \in Controls
  BY Here DEF FrameOK
<1>2. thrown = "raw" /\ ~(Top.kind = "claim" /\ Top.armed)
  BY DEF After, Reissued
<1>3. prover.active
  BY <1>2 DEF IInv, ProverOK
<1>4. Top.handler # "all" /\ ~(Top.kind = "calc" /\ Top.armed)
  BY <1>2 DEF After, Reissued, OverBudget
<1>5. ~Top.armed /\ Top.guard # "window"
  BY <1>1, <1>2, <1>4 DEF Shaped, Continues
<1>6. LeftAs(Top, prover, prover')
  BY <1>1, LeaveFields
<1> QED BY <1>1, <1>3, <1>5, <1>6 DEF LeftAs, Frames

LEMMA LeavingStep ==
  ASSUME IInv, Return \/ Unwind
  PROVE  IInv' /\ Same(prover', Top.saved) /\ Top.kind # "definition"
<1>1. stack # <<>> /\ thrown \in Thrown /\ Top.kind # "definition"
  BY DEF Return, Unwind, In, Rising, Inner, IInv, TypeOK
<1>2. /\ opacity \in [Names -> Opacities] /\ pending \in Restores /\ scope \in Scopes
      /\ declined \in BOOLEAN
  BY DEF IInv, TypeOK
<1>3. CASE Return
  <2>1. thrown' = "no" /\ UNCHANGED <<opacity, pending, scope, steps, declined>>
    BY <1>3 DEF Return, In, opacityVars
  <2> QED BY <1>1, <1>2, <1>3, <2>1, Leaves DEF Return, Thrown
<1>4. CASE Unwind
  <2>1. thrown' \in Thrown
    BY <1>1, <1>4 DEF Unwind, After, Reissued, Thrown
  <2>2. thrown' = "raw" => prover'.active
    BY <1>1, <1>4, BareInWindow DEF Unwind
  <2>3. UNCHANGED <<opacity, pending, scope, steps, declined>>
    BY <1>4 DEF Unwind, opacityVars
  <2> QED BY <1>1, <1>2, <1>4, <2>1, <2>2, <2>3, Leaves DEF Unwind
<1> QED BY <1>3, <1>4

LEMMA FlowStep == ASSUME IInv, Flow PROVE IInv'
<1>1. CASE NextCandidate
  <2>1. Bounded(prover) /\ stack # <<>> /\ declined \in BOOLEAN
    BY <1>1 DEF NextCandidate, Rising, Continues, IInv, ProverOK, TypeOK
  <2> QED BY <1>1, <2>1, StaysPut DEF NextCandidate
<1> QED BY <1>1, LeavingStep DEF Flow

\* A definition is opened for what is left of the declaration.
LEMMA NoteStep ==
  ASSUME IInv, In(Kinds), NEW n \in Names,
         pending' = Append(pending, <<n, opacity[n]>>),
         opacity' = [opacity EXCEPT ![n] = "transparent"],
         UNCHANGED <<scope, steps, prover, stack, thrown, declined>>
  PROVE  IInv'
<1>1. /\ stack # <<>> /\ thrown = "no" /\ Bounded(prover) /\ prover \in Controls
      /\ Sound(prover, steps)
  BY Here DEF In
<1>2. /\ steps \in 0..MaxSteps /\ stack \in Seq(Frames) /\ scope \in Scopes
      /\ opacity \in [Names -> Opacities] /\ pending \in Restores /\ declined \in BOOLEAN
  BY DEF IInv, TypeOK
<1>3. \A i \in 1..Len(stack) : Sound(stack[i].saved, steps) /\ Kin(stack[i], stack[i])
  BY DEF IInv, StackOK, FrameOK, SavedOK, Kin
<1>4. opacity' \in [Names -> Opacities] /\ pending' \in Restores
  <2>1. opacity[n] \in Opacities /\ "transparent" \in Opacities
    BY <1>2 DEF Opacities
  <2> QED BY <1>2, <2>1 DEF Restores
<1>5. (\E i \in 1..Len(stack) : stack[i].kind = "definition") =>
        Undoes(pending', opacity', scope.start, scope.before)
  <2>1. scope.start \in Nat
    BY <1>2 DEF Scopes
  <2> QED BY <1>2, <2>1, NotedOnce DEF IInv, ScopeOK
<1>6. Same(prover, prover) /\ steps >= steps
  BY <1>2, ElaborationAssumption DEF Same
<1> QED BY <1>1, <1>2, <1>3, <1>4, <1>5, <1>6, Stays DEF Thrown

LEMMA OpeningStep == ASSUME IInv, Opening PROVE IInv'
<1>1. In(Surface) => In(Kinds)
  BY DEF In, Surface, Kinds
<1> QED BY <1>1, NoteStep DEF Opening, Unfold, EngageOpaqueQuotientAlias

LEMMA RegisterStep == ASSUME IInv, Register PROVE IInv'
<1>1. /\ stack # <<>> /\ thrown = "no" /\ Bounded(prover) /\ prover \in Controls
      /\ Top.kind \in {"definition", "axiom"} /\ Within(Top.kind, prover)
      /\ Sound(prover, steps)
  BY Here DEF Register, In
<1>2. /\ stack \in Seq(Frames) /\ declined \in BOOLEAN
      /\ opacity \in [Names -> Opacities] /\ pending \in Restores
      /\ Len(stack) \in Nat /\ \A i \in 1..Len(stack) : stack[i] \in Frames
  BY Stacked DEF IInv, TypeOK
<1>3. Sound(prover, 0) /\ Same(prover, prover) /\ ~prover.tripped
  BY <1>1 DEF Within, Outer, Calm, Sound, Same, Controls
<1>4. ASSUME NEW i \in 1..Len(stack)
      PROVE  Sound(stack[i].saved, 0) /\ Kin(stack[i], stack[i]) /\ ~stack[i].saved.tripped
  <2>1. stack[i].kind \in Outer
    <3>1. CASE i = Len(stack)
      BY <1>1, <3>1 DEF Top, Outer
    <3>2. CASE i # Len(stack)
      <4>1. stack[i].kind \in Beneath(Top.kind)
        BY <1>2, <3>2 DEF IInv, StackOK, Standing, Top
      <4> QED BY <1>1, <4>1 DEF Beneath, Outer
    <3> QED BY <3>1, <3>2
  <2>2. stack[i].saved \in Controls /\ Sound(stack[i].saved, steps) /\ Calm(stack[i].saved)
    BY <1>2, <2>1 DEF Frames, IInv, StackOK, FrameOK, SavedOK
  <2> QED BY <2>2 DEF Calm, Sound, Kin, Controls
<1>5. (\E i \in 1..Len(stack) : stack[i].kind = "definition") =>
        Undoes(pending, opacity, scope.start, scope.before)
  BY DEF IInv, ScopeOK
<1>6. /\ steps' = 0 /\ 0 \in 0..MaxSteps /\ thrown' \in {"no", "error"}
      /\ UNCHANGED <<opacity, pending, scope, prover, stack, declined>>
  BY ElaborationAssumption DEF Register, opacityVars
<1> QED BY <1>1, <1>2, <1>3, <1>4, <1>5, <1>6, Stays DEF Thrown

LEMMA OpenDefinitionStep == ASSUME IInv, OpenDefinition PROVE IInv'
<1>1. /\ stack # <<>> /\ thrown = "no" /\ Bounded(prover) /\ prover \in Controls
      /\ Top.kind = "statement" /\ Calm(prover) /\ Sound(prover, steps) /\ steps \in Nat
      /\ MaxDepth \in Nat
  BY Here DEF OpenDefinition, In, Within, Outer
<1>2. /\ stack \in Seq(Frames) /\ StackOK(stack, prover, steps)
      /\ opacity \in [Names -> Opacities] /\ pending \in Restores /\ Len(stack) \in Nat
      /\ \A i \in 1..Len(stack) : Kin(stack[i], stack[i])
  BY Stacked DEF IInv, TypeOK, Kin
<1>3. PICK f : f = Frame("definition", "none", "none")
  OBVIOUS
<1>4. /\ f \in Frames /\ f.saved = prover /\ f.kind = "definition" /\ f.guard = "none"
      /\ f.handler = "none" /\ ~f.armed
  BY <1>1, <1>3 DEF Frame, Frames, Kinds, Guards, Handlers, Rungs
<1>5. FrameOK(f, prover, steps)
  <2>1. Opens(f, prover, prover, steps)
    BY <1>1, <1>4 DEF Opens, Calm, Sound, Controls
  <2>2. Same(Leave(f, prover, "no"), f.saved)
    BY <1>1, <1>4, <2>1, OpensLeaves
  <2>3. Shaped(f) /\ SavedOK(f, steps) /\ Within(f.kind, prover)
    BY <1>1, <1>4 DEF Shaped, SavedOK, Within
  <2> QED BY <2>2, <2>3 DEF FrameOK
<1>6. /\ stack' = Append(stack, f) /\ stack' \in Seq(Frames) /\ stack' # <<>>
      /\ UNCHANGED <<opacity, pending, steps, prover, thrown, declined>>
      /\ scope' = [start |-> Len(pending), before |-> opacity]
  BY <1>2, <1>3, <1>4 DEF OpenDefinition
<1>7. StackOK(stack', prover', steps')
  <2>1. Top.kind \in Beneath(f.kind)
    BY <1>1, <1>4 DEF Beneath
  <2> QED BY <1>1, <1>2, <1>4, <1>5, <1>6, <2>1, Pushed DEF Top
<1>12. WindowsOK(stack', prover', steps')
  <2>1. WindowsOK(stack, prover, steps) /\ Opens(f, prover, prover, steps)
    BY <1>1, <1>4 DEF IInv, Opens, Calm, Sound, Controls
  <2> QED BY <1>1, <1>2, <1>4, <1>6, <2>1, WindowsPushed
<1>8. Len(pending) \in Nat
  BY <1>2 DEF Restores
<1>9. TypeOK'
  BY <1>2, <1>6, <1>8 DEF IInv, TypeOK, Scopes
<1>10. ProverOK'
  BY <1>1, <1>6 DEF ProverOK, Bounded
<1>11. ScopeOK'
  BY <1>6, <1>8 DEF ScopeOK, Undoes
<1> QED BY <1>7, <1>9, <1>10, <1>11, <1>12 DEF IInv

\* A declaration or its statement has no controls of its own to put back.
LEMMA PlainLeave ==
  ASSUME IInv, stack # <<>>, Top.kind \in {"statement", "axiom", "definition"}
  PROVE  prover = Leave(Top, prover, "no") /\ thrown # "raw"
<1>1. Top.guard = "none" /\ ~Top.armed
  BY Here DEF FrameOK, Shaped
<1>2. prover = Leave(Top, prover, "no")
  BY <1>1 DEF Leave, Unguarded, Surfaced, Disarm
<1> QED BY <1>2 DEF IInv, ProverOK, Searching

\* Closing a definition gives back every opacity.
LEMMA GivenBack ==
  ASSUME IInv, CloseDefinition
  PROVE  /\ opacity' = scope.before /\ opacity' \in [Names -> Opacities]
         /\ pending' \in Restores
<1>1. /\ stack \in Seq(Frames) /\ stack # <<>> /\ Top.kind = "definition"
      /\ opacity \in [Names -> Opacities] /\ pending \in Restores
      /\ scope.start \in Nat /\ scope.before \in [Names -> Opacities]
  BY DEF CloseDefinition, IInv, TypeOK, Scopes
<1>2. Undoes(pending, opacity, scope.start, scope.before)
  <2>1. Len(stack) \in 1..Len(stack)
    BY <1>1, Stacked
  <2> QED BY <1>1, <2>1 DEF IInv, ScopeOK, Top
<1>3. opacity' = scope.before
  BY <1>1, <1>2, UndoneGivesBack DEF CloseDefinition, RestoreOpacities
<1>4. pending' \in Restores
  <2>1. PICK k : k = scope.start
    OBVIOUS
  <2>2. PICK m : m = Len(pending)
    OBVIOUS
  <2>3. k \in Nat /\ m \in Nat /\ k <= m /\ \A i \in 1..m : pending[i] \in Names \X Opacities
    BY <1>1, <1>2, <2>1, <2>2 DEF Undoes, Restores
  <2>4. \A i \in 1..k : pending[i] \in Names \X Opacities
    BY <2>3
  <2>5. pending' = SubSeq(pending, 1, k)
    BY <2>1 DEF CloseDefinition, RestoreOpacities
  <2> QED BY <2>3, <2>4, <2>5, SubSeqProperties DEF Restores
<1> QED BY <1>1, <1>3, <1>4

LEMMA CloseDefinitionStep ==
  ASSUME IInv, CloseDefinition
  PROVE  IInv' /\ Same(prover', Top.saved)
<1>1. /\ stack # <<>> /\ stack' = Below /\ Top.kind = "definition" /\ scope' = NoScope
      /\ UNCHANGED <<steps, prover, thrown, declined>>
  BY DEF CloseDefinition, RestoreOpacities
<1>2. prover' = Leave(Top, prover, "no") /\ thrown' # "raw" /\ thrown' \in Thrown
  BY <1>1, PlainLeave DEF IInv, TypeOK
<1>3. scope' \in Scopes
  BY <1>1, ElaborationAssumption DEF NoScope, Scopes, Declared, Opacities
<1> QED BY <1>1, <1>2, <1>3, GivenBack, Leaves

LEMMA DeclarationStep == ASSUME IInv, Declaration PROVE IInv'
  BY RegisterStep, OpenDefinitionStep, CloseDefinitionStep DEF Declaration

LEMMA First ==
  ASSUME NEW f \in Frames, f.kind \in {"retry", "statement", "axiom"},
         NEW q, NEW k, FrameOK(f, q, k)
  PROVE  StackOK(<<f>>, q, k)
<1>1. Len(<<f>>) = 1 /\ <<f>>[1] = f
  OBVIOUS
<1>2. Standing(<<f>>)
  BY <1>1 DEF Standing
<1>3. \A i \in 1..1 : i = 1
  OBVIOUS
<1> QED BY <1>1, <1>2, <1>3 DEF StackOK, Inside

\* The outermost frame of a statement, when nothing is open.
LEMMA FirstFrame ==
  ASSUME NEW p \in Controls, NEW k \in Nat, Sound(p, k), Bounded(p), Calm(p),
         NEW f \in Frames, f.saved = p, ~f.armed,
         NEW q \in Controls,
         \/ f.kind = "retry" /\ f.guard = "uncapped" /\ q = Guarded("uncapped", p)
         \/ f.kind \in {"statement", "axiom"} /\ f.guard = "none" /\ q = p
  PROVE  FrameOK(f, q, k) /\ Sound(q, k) /\ Bounded(q) /\ Calm(q)
<1>1. Opens(f, p, q, k) /\ Bounded(q) /\ Calm(q)
  BY DEF Opens, Guarded, Bounded, Calm, Sound, Controls
<1>2. Same(Leave(f, q, "no"), f.saved) /\ Sound(q, k)
  BY <1>1, OpensLeaves
<1>3. Shaped(f) /\ SavedOK(f, k) /\ Within(f.kind, q)
  BY <1>1 DEF Shaped, SavedOK, Within
<1> QED BY <1>1, <1>2, <1>3 DEF FrameOK

LEMMA CalmWindows ==
  ASSUME NEW s \in Seq(Frames), NEW p \in Controls, NEW k, Sound(p, k), Calm(p),
         \A i \in 1..Len(s) : /\ Sound(s[i].saved, k) /\ Calm(s[i].saved)
                              /\ s[i].saved \in Controls
  PROVE  WindowsOK(s, p, k)
<1>1. ASSUME NEW i \in 1..Len(s)
      PROVE  Sound(Inside(s, p, i), k) /\ Calm(Inside(s, p, i))
  <2>1. CASE i = Len(s)
    BY <2>1 DEF Inside
  <2>2. CASE i # Len(s)
    <3>1. i + 1 \in 1..Len(s)
      BY <2>2, Stacked
    <3> QED BY <2>2, <3>1 DEF Inside
  <2> QED BY <2>1, <2>2
<1> QED BY <1>1 DEF WindowsOK, WindowAt, Sound, Calm

LEMMA StartStatementStep == ASSUME IInv, StartStatement PROVE IInv'
<1>1. /\ prover \in Controls /\ steps \in Nat /\ Sound(prover, steps) /\ Bounded(prover)
      /\ Calm(prover) /\ prover.depth <= MaxDepth + 1
      /\ prover.chaining <= ChainCap /\ prover.flips <= 1
  BY ElaborationAssumption DEF IInv, TypeOK, ProverOK, StartStatement
<1>2. PICK kind \in {"statement", "axiom"} : stack' = <<Frame(kind, "none", "none")>>
  BY DEF StartStatement
<1>3. PICK f : f = Frame(kind, "none", "none")
  OBVIOUS
<1>4. /\ f \in Frames /\ f.saved = prover /\ ~f.armed /\ f.kind = kind /\ f.guard = "none"
  BY <1>1, <1>3 DEF Frame, Frames, Kinds, Guards, Handlers, Rungs
<1>5. StackOK(<<f>>, prover, steps)
  BY <1>1, <1>4, FirstFrame, First
<1>6. /\ stack' = <<f>> /\ thrown' = "no" /\ declined' = FALSE
      /\ UNCHANGED <<opacity, pending, scope, steps, prover>>
  BY <1>2, <1>3 DEF StartStatement, opacityVars
<1>7. TypeOK'
  <2>1. <<f>> \in Seq(Frames) /\ FALSE \in BOOLEAN /\ "no" \in Thrown
    BY <1>4 DEF Thrown
  <2> QED BY <1>1, <1>6, <2>1 DEF IInv, TypeOK
<1>8. ProverOK'
  BY <1>1, <1>6 DEF ProverOK, Bounded
<1>9. ScopeOK'
  BY <1>4, <1>6 DEF ScopeOK
<1>10. WindowsOK(<<f>>, prover, steps)
  <2>1. <<f>> \in Seq(Frames) /\ \A i \in 1..Len(<<f>>) : <<f>>[i] = f
    BY <1>4
  <2> QED BY <1>1, <1>4, <2>1, CalmWindows
<1> QED BY <1>5, <1>6, <1>7, <1>8, <1>9, <1>10 DEF IInv

LEMMA DescribeDeepEqualityRouteStep ==
  ASSUME IInv, DescribeDeepEqualityRoute PROVE IInv'
<1>1. /\ prover \in Controls /\ steps \in Nat /\ Sound(prover, steps) /\ Bounded(prover)
      /\ Calm(prover) /\ MaxDepth \in Nat
  BY ElaborationAssumption DEF IInv, TypeOK, ProverOK, DescribeDeepEqualityRoute
<1>2. PICK q : q = Guarded("uncapped", prover)
  OBVIOUS
<1>3. q \in Controls
  BY <1>1, <1>2 DEF Guarded, Controls
<1>4. PICK kind \in {"statement", "axiom"} :
        stack' = <<Frame("retry", "uncapped", "report"),
                   [Frame(kind, "none", "none") EXCEPT !.saved = Guarded("uncapped", prover)]>>
  BY DEF DescribeDeepEqualityRoute
<1>5. PICK outer : outer = Frame("retry", "uncapped", "report")
  OBVIOUS
<1>6. PICK inner : inner = [Frame(kind, "none", "none") EXCEPT !.saved = q]
  OBVIOUS
<1>7. /\ outer \in Frames /\ outer.saved = prover /\ ~outer.armed /\ outer.kind = "retry"
      /\ outer.guard = "uncapped"
  BY <1>1, <1>5 DEF Frame, Frames, Kinds, Guards, Handlers, Rungs
<1>8. /\ inner \in Frames /\ inner.saved = q /\ ~inner.armed /\ inner.kind = kind
      /\ inner.guard = "none"
  <2>1. inner = [kind |-> kind, guard |-> "none", handler |-> "none", armed |-> FALSE,
                 rung |-> 0, saved |-> q]
    BY <1>6 DEF Frame
  <2> QED BY <1>3, <2>1 DEF Frames, Kinds, Guards, Handlers, Rungs
<1>9. /\ stack' = <<outer, inner>> /\ prover' = q /\ thrown' = "no" /\ declined' = FALSE
      /\ UNCHANGED <<opacity, pending, scope, steps>>
  BY <1>2, <1>4, <1>5, <1>6, Zenon DEF DescribeDeepEqualityRoute, opacityVars
<1>10. FrameOK(outer, q, steps) /\ Sound(q, steps) /\ Bounded(q) /\ Calm(q)
  BY <1>1, <1>2, <1>3, <1>7, FirstFrame
<1>11. FrameOK(inner, q, steps)
  BY <1>1, <1>3, <1>8, <1>10, FirstFrame
<1>12. StackOK(<<outer>>, q, steps)
  BY <1>7, <1>10, First
<1>13. StackOK(<<outer, inner>>, q, steps)
  <2>1. PICK s : s = <<outer>>
    OBVIOUS
  <2>2. s \in Seq(Frames) /\ Len(s) = 1 /\ s # <<>> /\ s[1] = outer
    BY <1>7, <2>1
  <2>3. PICK u : u = <<outer, inner>>
    OBVIOUS
  <2>4. u \in Seq(Frames) /\ Len(u) = 2 /\ u[1] = outer /\ u[2] = inner
    BY <1>7, <1>8, <2>3
  <2>5. /\ \A i \in 1..Len(s) : Kin(s[i], s[i]) /\ u[i] = s[i]
        /\ Len(u) = Len(s) + 1 /\ u[Len(s) + 1] = inner
    BY <2>2, <2>4 DEF Kin
  <2>6. s[Len(s)].kind \in Beneath(inner.kind)
    BY <1>7, <1>8, <2>2 DEF Beneath
  <2>7. StackOK(s, q, steps)
    BY <1>12, <2>1
  <2>8. StackOK(u, q, steps)
    BY <1>1, <1>3, <1>8, <1>11, <2>2, <2>4, <2>5, <2>6, <2>7, Stands
  <2> QED BY <2>3, <2>8
<1>14. /\ q.depth <= MaxDepth + 1 /\ q.chaining <= ChainCap /\ q.flips <= 1
  BY <1>1, <1>3, <1>10 DEF Bounded, Controls
<1>15. stack' \in Seq(Frames) /\ Len(stack') = 2 /\ stack'[1] = outer /\ stack'[2] = inner
  BY <1>7, <1>8, <1>9
<1>16. TypeOK'
  BY <1>3, <1>9, <1>14, <1>15 DEF IInv, TypeOK, Thrown
<1>17. ProverOK'
  BY <1>9, <1>10, <1>15 DEF ProverOK, Bounded
<1>18. ScopeOK'
  <2>1. \A i \in 1..Len(stack') : i = 1 \/ i = 2
    BY <1>15
  <2> QED BY <1>7, <1>8, <1>15, <2>1 DEF ScopeOK
<1>19. WindowsOK(stack', q, steps)
  <2>1. \A i \in 1..Len(stack') : stack'[i] = outer \/ stack'[i] = inner
    BY <1>15
  <2> QED BY <1>1, <1>3, <1>7, <1>8, <1>10, <1>15, <2>1, CalmWindows
<1> QED BY <1>9, <1>13, <1>16, <1>17, <1>18, <1>19 DEF IInv

LEMMA EndingStep ==
  ASSUME IInv, EndStatement \/ EndRetry
  PROVE  IInv' /\ Same(prover', Top.saved)
<1>1. /\ stack # <<>> /\ thrown \in Thrown /\ declined \in BOOLEAN
      /\ opacity \in [Names -> Opacities] /\ pending \in Restores /\ scope \in Scopes
  BY DEF EndStatement, EndRetry, IInv, TypeOK
<1>2. CASE EndStatement
  BY <1>1, <1>2, PlainLeave, Leaves DEF EndStatement, opacityVars
<1>3. CASE EndRetry
  <2>1. thrown # "raw" /\ Top.kind = "retry"
    BY <1>3 DEF EndRetry, IInv, ProverOK, Searching
  <2>2. thrown' \in Thrown /\ thrown' # "raw"
    BY <1>1, <1>3, <2>1 DEF EndRetry, After, Reissued, Thrown
  <2> QED BY <1>1, <1>3, <2>2, Leaves DEF EndRetry, opacityVars
<1> QED BY <1>2, <1>3

LEMMA DriverStep == ASSUME IInv, Driver PROVE IInv'
  BY StartStatementStep, DescribeDeepEqualityRouteStep, EndingStep DEF Driver
-----------------------------------------------------------------------------
(* The invariant. *)

LEMMA InitInv == Init => IInv
<1> SUFFICES ASSUME Init PROVE IInv
  OBVIOUS
<1>1. /\ MaxDepth \in Nat /\ ChainCap \in Nat /\ MaxSteps \in Nat /\ Budget \in Nat
      /\ RedundancyBudget \in Nat
  BY ElaborationAssumption
<1>2. /\ Fresh \in Controls /\ Calm(Fresh) /\ Sound(Fresh, 0) /\ Bounded(Fresh)
      /\ Fresh.depth <= MaxDepth + 1
  BY <1>1 DEF Fresh, Controls, Calm, Sound, Bounded
<1>3. Declared \in [Names -> Opacities] /\ NoScope \in Scopes
  BY DEF Declared, Opacities, NoScope, Scopes
<1>4. stack = <<>> /\ stack \in Seq(Frames) /\ Len(stack) = 0 /\ pending \in Restores
  BY DEF Init, Restores
<1>5. TypeOK
  <2>1. 0 \in 0..MaxSteps /\ FALSE \in BOOLEAN /\ "no" \in Thrown
    BY <1>1 DEF Thrown
  <2> QED BY <1>1, <1>2, <1>3, <1>4, <2>1 DEF Init, TypeOK, Bounded
<1>6. StackOK(stack, prover, steps) /\ WindowsOK(stack, prover, steps) /\ ScopeOK
  BY <1>4 DEF StackOK, Standing, WindowsOK, ScopeOK
<1>7. ProverOK
  BY <1>2 DEF Init, ProverOK
<1> QED BY <1>5, <1>6, <1>7 DEF IInv

LEMMA StutterStep == ASSUME IInv, UNCHANGED vars PROVE IInv'
<1>1. UNCHANGED <<opacity, pending, scope, steps, prover, stack, thrown, declined>>
  BY DEF vars, opacityVars
<1>2. TypeOK' /\ StackOK(stack', prover', steps') /\ WindowsOK(stack', prover', steps')
  BY <1>1 DEF IInv, TypeOK
<1>3. ProverOK' /\ ScopeOK'
  BY <1>1 DEF IInv, ProverOK, ScopeOK, Top
<1> QED BY <1>2, <1>3 DEF IInv

LEMMA InvStep == IInv /\ [Next]_vars => IInv'
  BY FlowStep, WorkStep, TacticStep, CitationStep, SourceStep, OpeningStep,
     DeclarationStep, DriverStep, StutterStep DEF Next

\* Every frame, the controls inside it and the notes of the open definition
\* stay as StackOK, ProverOK and ScopeOK say.
THEOREM Invariance == Spec => []IInv
  BY InitInv, InvStep, PTL DEF Spec
-----------------------------------------------------------------------------
(* What follows. *)

\* The variables keep their types, and the depths of the prover, of its chains
\* of premises and of its symmetry flips stay within their caps.
THEOREM TypeCorrect == Spec => []TypeOK
  BY Invariance, PTL DEF IInv

\* A reset of the kernel's counter never happens under an open window: the
\* budget is the difference to a snapshot the counter has not fallen behind.
THEOREM WindowsSafe == Spec => []WindowsOutliveNoReset
<1>1. IInv => WindowsOutliveNoReset
  BY DEF IInv, ProverOK, Sound, WindowsOutliveNoReset
<1> QED BY <1>1, Invariance, PTL

\* A trip that is latched belongs to the open window, and the window's budget
\* is spent unless a resolution of step 5e has opened it.
THEOREM ClaimTripsReal == Spec => []ClaimTripsAreReal
<1>1. ASSUME IInv, prover.tripped
      PROVE  prover.active /\ (Resolving \/ Consumed(prover) >= prover.limit)
  <2>1. prover.active /\ stack # <<>>
    BY <1>1 DEF IInv, TypeOK, Controls, ProverOK, Sound, Calm
  <2>2. Len(stack) \in 1..Len(stack) /\ steps >= prover.snapshot
    BY <1>1, <2>1, Stacked DEF IInv, TypeOK, ProverOK, Sound
  <2>3. Excused(stack, Len(stack)) \/ steps - prover.snapshot >= prover.limit
    BY <1>1, <2>2 DEF IInv, WindowsOK, WindowAt, Inside
  <2> QED BY <2>1, <2>2, <2>3 DEF Excused, Resolving, Consumed
<1> QED BY <1>1, Invariance, PTL DEF ClaimTripsAreReal

\* AutoProverBudgetError without a goal is not seen outside of the prover.
THEOREM BareTripsInside == Spec => []BareTripsStayInside
<1>1. IInv => BareTripsStayInside
  BY DEF IInv, ProverOK, Searching, BareTripsStayInside
<1> QED BY <1>1, Invariance, PTL

\* No claim is proved, at whatever depth, on behalf of a scan over the facts
\* in scope.
THEOREM ScansIdle == Spec => []ScansDoNotSearch
<1>1. IInv => ScansDoNotSearch
  BY DEF IInv, StackOK, Standing, Beneath, Outer, ScansDoNotSearch
<1> QED BY <1>1, Invariance, PTL

LEMMA Taller ==
  ASSUME IInv, stack # <<>>,
         NEW f, NEW callers, callers = stack \/ \E r \in Rungs : callers = Callers(r)
  PROVE  Len(Append(callers, f)) >= Len(stack) /\ Len(callers) >= Len(stack)
<1>1. callers \in Seq(Frames) /\ Len(callers) = Len(stack) /\ Len(stack) \in Nat
  BY CallersKin, Stacked DEF IInv, TypeOK
<1>2. Len(Append(callers, f)) = Len(callers) + 1
  <2>1. callers \in Seq(Frames \cup {f}) /\ f \in Frames \cup {f}
    BY <1>1
  <2> QED BY <2>1, AppendProperties
<1> QED BY <1>1, <1>2

\* A step that leaves no frame makes the stack no lower.
LEMMA OthersStay ==
  ASSUME IInv,
         \/ NextCandidate \/ Work \/ Tactic \/ Citation \/ Source \/ Opening
         \/ OpenDefinition \/ Register \/ StartStatement \/ DescribeDeepEqualityRoute
         \/ UNCHANGED vars
  PROVE  Len(stack') >= Len(stack)
<1>1. Len(stack) \in Nat /\ 1 \in Rungs /\ 2 \in Rungs /\ 3 \in Rungs /\ 4 \in Rungs
      /\ 5 \in Rungs /\ 6 \in Rungs
  BY Stacked DEF IInv, TypeOK, Rungs
<1>2. ASSUME NEW guard, NEW handler, NEW callers, Claim(guard, handler, callers), stack # <<>>,
             callers = stack \/ \E r \in Rungs : callers = Callers(r)
      PROVE  Len(stack') >= Len(stack)
  BY <1>2, Taller DEF Claim
<1>3. ASSUME NEW handler, CalcStep(handler), stack # <<>>
      PROVE  Len(stack') >= Len(stack)
  BY <1>3, Taller DEF CalcStep
<1>4. ASSUME NEW kind, NEW guard, NEW handler, Enter(kind, guard, handler), stack # <<>>
      PROVE  Len(stack') >= Len(stack)
  BY <1>4, Taller DEF Enter
<1>5. CASE NextCandidate \/ Work \/ Opening \/ Register \/ UNCHANGED vars
  BY <1>1, <1>5 DEF NextCandidate, Work, Reduce, Spend, Fail, Opening, Unfold,
                    EngageOpaqueQuotientAlias, Register, vars
<1>6. CASE Tactic
  <2>1. stack # <<>>
    BY <1>6 DEF Tactic, TryAutoProveEqualityGoal, CalcDescends, TryOrderedFieldTier,
       TryConjunctionIntro, TryContextFactMatch, TryDisjunctionIntro, TryContextEqualityBridge,
       BridgeDeclines, TrySymmetryFlip, TryReductio, ZetaRetry, Trying, In
  <2>2. CASE TryAutoProveEqualityGoal \/ CalcDescends
    BY <1>3, <2>1, <2>2 DEF TryAutoProveEqualityGoal, CalcDescends
  <2>3. CASE \/ TryOrderedFieldTier \/ TryConjunctionIntro \/ TryDisjunctionIntro
             \/ TryContextEqualityBridge \/ TrySymmetryFlip \/ TryReductio
    BY <1>1, <1>2, <2>1, <2>3 DEF TryOrderedFieldTier, TryConjunctionIntro,
       TryDisjunctionIntro, TryContextEqualityBridge, TrySymmetryFlip, TryReductio
  <2>4. CASE TryContextFactMatch \/ ZetaRetry
    BY <1>1, <2>1, <2>4, Taller DEF TryContextFactMatch, ZetaRetry
  <2>5. CASE BridgeDeclines
    BY <1>1, <2>5 DEF BridgeDeclines
  <2> QED BY <1>6, <2>2, <2>3, <2>4, <2>5 DEF Tactic
<1>7. CASE Citation
  <2>1. stack # <<>>
    BY <1>7 DEF Citation, DischargeFallback, AutoFillPremise, DischargePremise, ResolvePremises, ResolveSlot,
       TrySubLemmaSharingMetavars, TryGuessUndeterminedPremise, Citing, In
  <2>2. CASE \/ DischargeFallback \/ AutoFillPremise \/ DischargePremise
             \/ TryGuessUndeterminedPremise
    BY <1>2, <2>1, <2>2 DEF DischargeFallback, AutoFillPremise, DischargePremise,
       TryGuessUndeterminedPremise
  <2>3. CASE ResolvePremises
    BY <2>1, <2>3, Taller DEF ResolvePremises
  <2>4. CASE ResolveSlot
    BY <1>1, <2>4 DEF ResolveSlot
  <2>5. CASE TrySubLemmaSharingMetavars
    BY <1>4, <2>1, <2>5 DEF TrySubLemmaSharingMetavars
  <2> QED BY <1>7, <2>2, <2>3, <2>4, <2>5 DEF Citation
<1>8. CASE Source
  <2>1. stack # <<>>
    BY <1>8 DEF Source, BareStep, ProveCitedFact, ProveUnaided, FiniteCheckCase, Substitute,
       SubstitutedPremise, DischargeTrailingSideConditions, RewriteStep, TryReading,
       RecoverClaimHint, CiteAgainstFalse, Probe, In
  <2>2. CASE \/ BareStep \/ ProveCitedFact \/ ProveUnaided \/ FiniteCheckCase \/ Substitute
             \/ SubstitutedPremise \/ DischargeTrailingSideConditions
    BY <1>2, <2>1, <2>2 DEF BareStep, ProveCitedFact, ProveUnaided, FiniteCheckCase,
       Substitute, SubstitutedPremise, DischargeTrailingSideConditions
  <2>3. CASE RewriteStep
    BY <1>3, <2>1, <2>3 DEF RewriteStep
  <2>4. CASE TryReading \/ RecoverClaimHint \/ CiteAgainstFalse \/ Probe
    BY <1>4, <2>1, <2>4 DEF TryReading, RecoverClaimHint, CiteAgainstFalse, Probe
  <2> QED BY <1>8, <2>2, <2>3, <2>4 DEF Source
<1>9. CASE OpenDefinition
  BY <1>9, Taller DEF OpenDefinition, In
<1>10. CASE StartStatement \/ DescribeDeepEqualityRoute
  <2>1. stack = <<>> /\ Len(stack) = 0
    BY <1>10 DEF StartStatement, DescribeDeepEqualityRoute
  <2>2. PICK f, g : stack' = <<f>> \/ stack' = <<f, g>>
    BY <1>10 DEF StartStatement, DescribeDeepEqualityRoute
  <2>3. Len(stack') = 1 \/ Len(stack') = 2
    BY <2>2
  <2> QED BY <2>1, <2>3
<1> QED BY <1>5, <1>6, <1>7, <1>8, <1>9, <1>10

\* Whatever leaves a frame gives back what the frame has saved.
LEMMA PopsLeave ==
  ASSUME IInv, [Next]_vars, Len(stack') < Len(stack)
  PROVE  /\ Same(prover', Top.saved) /\ IInv'
         /\ Top.kind = "definition" => opacity' = scope.before
<1>1. Len(stack) \in Nat /\ Len(stack') \in Nat
  BY InvStep, Stacked DEF IInv, TypeOK
<1>2. Return \/ Unwind \/ CloseDefinition \/ EndStatement \/ EndRetry
  BY <1>1, OthersStay DEF Next, Flow, Declaration, Driver
<1>3. CASE Return \/ Unwind
  BY <1>3, LeavingStep
<1>4. CASE CloseDefinition
  BY <1>4, CloseDefinitionStep, GivenBack
<1>5. CASE EndStatement \/ EndRetry
  BY <1>5, EndingStep DEF EndStatement, EndRetry
<1> QED BY <1>2, <1>3, <1>4, <1>5

\* Whatever a scope is left by, the prover's counters, flags and limits are
\* those it was entered with.
THEOREM ScopesRestored == Spec => ScopesRestore
<1>1. ASSUME IInv, [Next]_vars
      PROVE  [Len(stack') < Len(stack) => Untripped(prover') = Untripped(Top.saved)]_vars
  <2>1. ASSUME Len(stack') < Len(stack)
        PROVE  Untripped(prover') = Untripped(Top.saved)
    <3>1. Same(prover', Top.saved) /\ IInv' /\ stack # <<>>
      <4>1. stack # <<>>
        BY <1>1, <2>1, InvStep, Stacked DEF IInv, TypeOK
      <4> QED BY <1>1, <2>1, <4>1, PopsLeave
    <3>2. prover' \in Controls /\ Top.saved \in Controls
      BY <1>1, <3>1, Here DEF IInv, TypeOK, Frames
    <3> QED BY <3>1, <3>2, UntrippedIsSame
  <2> QED BY <2>1
<1> QED BY <1>1, Invariance, PTL DEF Spec, ScopesRestore

\* However a definition's elaboration ends, every opacity is what it was when
\* the elaboration began.
THEOREM OpacitiesRestored == Spec => OpacityRestored
<1>1. ASSUME IInv, [Next]_vars
      PROVE  [stack # <<>> /\ Top.kind = "definition" /\ Len(stack') < Len(stack)
                => opacity' = scope.before]_vars
  BY <1>1, PopsLeave
<1> QED BY <1>1, Invariance, PTL DEF Spec, OpacityRestored
=============================================================================
