--------------------------- MODULE AtomicEnvironment ---------------------------
(***************************************************************************)
(* What an elaborator may take a declaration to be: one step that adds all   *)
(* of it to the environment, an inductive with its constructors and its      *)
(* recursor, or refuses it.  There is no half registered inductive here, no  *)
(* rollback and no memo table; that Declarations, with all of these, is no    *)
(* more than this is what "atomically adds" comes to (kernel.hpp).           *)
(*                                                                         *)
(* It comes to that and two kinds of refusal that do change the environment, *)
(* Erase and Abandon.                                                       *)
(***************************************************************************)
EXTENDS Naturals, Sequences

CONSTANTS Names, RecursorOf, Requests, NoRequest

VARIABLES
  environment,  \* what is declared: pairs of a name and an entry
  submitted     \* the declaration submitted

vars == <<environment, submitted>>

Known == {piece[1] : piece \in environment}

Piece(name, kind, mentions, of, constructors) ==
  <<name, [kind |-> kind, mentions |-> mentions, of |-> of,
           constructors |-> constructors]>>

Of(r)          == DOMAIN r.constructors
Constructors(r) == {r.constructors[i].name : i \in Of(r)}
Recursor(r)    == RecursorOf[r.name]
NamedBy(r)     ==
  {r.name} \cup (IF r.kind = "inductive" THEN Constructors(r) \cup {Recursor(r)} ELSE {})

\* What a declaration of each kind adds.
Single(r)           == Piece(r.name, r.kind, r.mentions, r.name, {})
InductivePiece(r)   == Piece(r.name, "inductive", r.mentions, r.name, Constructors(r))
ConstructorPiece(r, i) ==
  Piece(r.constructors[i].name, "constructor", r.constructors[i].mentions, r.name, {})
RecursorPiece(r) ==
  Piece(Recursor(r), "recursor",
        {r.name} \cup r.mentions \cup Constructors(r)
          \cup UNION {r.constructors[i].mentions : i \in Of(r)},
        r.name, {})
Body(r) == {InductivePiece(r)} \cup {ConstructorPiece(r, i) : i \in Of(r)}

\* The constructor i is new, about the inductive, positive, and mentions
\* nothing that comes after it.
Admissible(r, i) ==
  LET earlier == Known \cup {r.name} \cup {r.constructors[j].name : j \in 1..(i - 1)}
      c       == r.constructors[i]
  IN /\ c.name \notin earlier
     /\ c.mentions \subseteq earlier
     /\ c.positive
     /\ c.target = r.name

\* Short of the shape its recursor needs, the inductive is sound.
Sound(r) ==
  /\ r.kind = "inductive"
  /\ r.mentions \subseteq Known
  /\ \A i \in Of(r) : Admissible(r, i)
  /\ Recursor(r) \notin Known \cup {r.name} \cup Constructors(r)

\* Every constructor instantiates the parameters before its own arguments.
Shaped(r) == \A i \in Of(r) : r.constructors[i].binders >= r.parameters

-----------------------------------------------------------------------------
Init == environment = {} /\ submitted = NoRequest

Submit(r) ==
  /\ submitted = NoRequest
  /\ r.name \notin Known
  /\ submitted' = r
  /\ UNCHANGED environment

Answer == submitted # NoRequest /\ submitted' = NoRequest

AcceptSingle ==
  /\ Answer
  /\ submitted.kind \in {"axiom", "definition"}
  /\ submitted.mentions \subseteq Known
  /\ environment' = environment \cup {Single(submitted)}

\* The inductive, all its constructors and the recursor, at once.
AcceptInductive ==
  /\ Answer
  /\ Sound(submitted)
  /\ Shaped(submitted)
  /\ environment' = environment \cup Body(submitted) \cup {RecursorPiece(submitted)}

Refuse == Answer /\ UNCHANGED environment

\* An inductive that names what was declared is refused, and what was declared
\* under its names is lost.
Erase ==
  /\ Answer
  /\ submitted.kind = "inductive"
  /\ NamedBy(submitted) \cap Known # {}
  /\ environment' = {piece \in environment : piece[1] \notin NamedBy(submitted)}

\* A sound inductive of the wrong shape is refused and stays, without its
\* recursor.
Abandon ==
  /\ Answer
  /\ Sound(submitted)
  /\ ~Shaped(submitted)
  /\ environment' = environment \cup Body(submitted)

Next ==
  \/ \E r \in Requests : Submit(r)
  \/ AcceptSingle \/ AcceptInductive
  \/ Refuse \/ Erase \/ Abandon

Spec == Init /\ [][Next]_vars
=============================================================================
