---------------------------- MODULE MCRegistries ----------------------------
(* Four modules over four types, names declared by the first. *)
EXTENDS Registries

MCTypes == {"I", "D", "C", "Q"}
Coerce(f, a, b) == [kind |-> "coercion", from |-> a, to |-> b, name |-> f]
On(k, t, n)     == [kind |-> k, on |-> t, name |-> n]
Inst(n)         == [kind |-> "instance", name |-> n]
Alias(a, n)     == [kind |-> "overload", alias |-> a, name |-> n]

MCNames == {"iq", "dq", "qc", "qi", "ic", "add", "plus", "monoid", "instance"}
MCHome  == [n \in MCNames |-> "m1"]
MCHeads ==
  [n \in MCNames |->
     CASE n = "iq" -> {<<"I", "Q">>} [] n = "dq" -> {<<"D", "Q">>}
       [] n = "qc" -> {<<"Q", "C">>} [] n = "qi" -> {<<"Q", "I">>}
       [] n = "ic" -> {<<"I", "C">>} [] OTHER -> {}]
MCOperands  == [n \in MCNames |-> IF n \in {"add", "plus"} THEN {"I"} ELSE {}]
MCCertifies == [n \in MCNames |-> IF n = "monoid" THEN "add" ELSE NoName]
MCShape ==
  [n \in MCNames |-> IF n = "instance" THEN "forgetful" ELSE "none"]
MCKeyOf == [n \in MCNames |-> <<"IsRing", "I">>]
MCText ==
  [m \in Modules |->
     CASE m = "m1" -> {Coerce("iq", "I", "Q"), On("operator", "I", "add")}
       [] m = "m2" -> {Coerce("qc", "Q", "C"), Coerce("qi", "Q", "I"), On("fold", "I", "monoid")}
       [] m = "m3" -> {Coerce("dq", "D", "Q"), On("operator", "I", "plus"), Alias("+", "plus")}
       [] OTHER -> {Coerce("ic", "I", "C"), Inst("instance")}]
=============================================================================
