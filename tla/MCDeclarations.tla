--------------------------- MODULE MCDeclarations ---------------------------
(***************************************************************************)
(* Submissions for Declarations: a chain of an axiom and definitions, one   *)
(* of which takes up the axiom's name again with the chain in its type, two *)
(* sound inductives, and inductives that fail in each of the ways there    *)
(* are: a constructor out of scope, one that is not positive, one that ends *)
(* in another type, names already taken, and too few binders.              *)
(***************************************************************************)
EXTENDS Declarations, TLC

MCNames ==
  {"Base", "base", "Base_recursor", "A", "Tree", "leaf", "node",
   "Tree_recursor", "f", "g", "other_recursor"}
MCRecursorOf ==
  [n \in MCNames |-> CASE n = "Tree" -> "Tree_recursor"
                       [] n = "Base" -> "Base_recursor"
                       [] n = "other_recursor" -> "base"
                       [] OTHER -> "other_recursor"]

Simple(kind, name, mentions) ==
  [kind |-> kind, name |-> name, mentions |-> mentions, parameters |-> 0,
   constructors |-> <<>>]
Inductive(name, parameters, constructors) ==
  [kind |-> "inductive", name |-> name, mentions |-> {}, parameters |-> parameters,
   constructors |-> constructors]
Constructor(name, mentions, binders, target, positive) ==
  [name |-> name, mentions |-> mentions, binders |-> binders, target |-> target,
   positive |-> positive]

Tree(leafName, nodeMentions, positive) ==
  Inductive("Tree", 0, << Constructor(leafName, {"Tree"}, 0, "Tree", TRUE),
                          Constructor("node", {"Tree"} \cup nodeMentions, 1, "Tree", positive) >>)

\* Names collide only when one of these came before another.
SoundRequests ==
  {Simple("axiom", "A", {}), Simple("definition", "f", {"A"}),
   Simple("definition", "A", {"f"}), Simple("definition", "g", {"f", "leaf"}),
   Inductive("Base", 0, << Constructor("base", {"Base"}, 0, "Base", TRUE) >>),
   Tree("leaf", {"f"}, TRUE), Tree("leaf", {}, FALSE)}

\* Names already taken: by an axiom, by the request's own recursor, by its own
\* inductive.
CollidingRequests ==
  SoundRequests \cup
  {Tree("A", {}, TRUE), Tree("Tree", {}, TRUE),
   Inductive("Base", 0, << Constructor("Base_recursor", {"Base"}, 0, "Base", TRUE) >>)}

\* One parameter, and a constructor whose conclusion instantiates it.
ShortRequests ==
  SoundRequests \cup
  {Inductive("Base", 1, << Constructor("base", {"Base"}, 0, "Base", TRUE) >>)}

MCRequests ==
  CollidingRequests \cup ShortRequests \cup
  {Inductive("Base", 0, << Constructor("base", {"A"}, 0, "A", TRUE) >>)}
=============================================================================
