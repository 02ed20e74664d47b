----------------------------- MODULE MCSealing ------------------------------
(* A kept module K, a construction M, theorems T over both, the interface I. *)
EXTENDS Sealing

MCModules == {"K", "M", "T", "I"}
MCNames   == {"k", "x", "n", "A", "rep", "law", "open", "inner",
              "t1", "t2", "t3", "t4", "t5", "t6"}

Def(n, type, body) == Declaration(n, "definition", type, body)
Thm(n, type)       == Declaration(n, "theorem", type, {n})
Is(n, kind, type)  == [name |-> n, kind |-> kind, type |-> type]

Plain(imports, decls, implements, wiring) ==
  [imports |-> imports, declares |-> decls, implements |-> implements, wiring |-> wiring,
   implementedBy |-> NoModule, obligations |-> {}, exportsTheorems |-> {},
   exportsDefinitions |-> {}]

Sealed(obligations, definitions) ==
  [imports |-> {"K", "M", "T"}, declares |-> {}, implements |-> NoModule,
   wiring |-> {{"rep"}}, implementedBy |-> "M", obligations |-> obligations, exportsTheorems |-> {"T"},
   exportsDefinitions |-> definitions]

\* K: what stays visible.
K1 == {Def("k", {}, {}), Def("x", {}, {})}
K2 == {Def("k", {}, {})}
K3 == K1 \cup {Def("n", {}, {})}

\* M: a carrier, its representatives, a law; then with x, which K had; then with a
\* law about representatives.
M1 == {Def("A", {}, {"rep"}), Def("rep", {}, {"k"}), Thm("law", {"A"})}
M2 == M1 \cup {Def("x", {}, {})}
M3 == {Def("A", {}, {"rep"}), Def("rep", {}, {"k"}), Thm("law", {"A", "rep"})}
Construction(decls, implements) == Plain({"K"}, decls, implements, {{"A"}, {"rep"}, {"A", "k"}})

\* T: statements that can be spelt, that cannot, and that mention each other.
T1 == {Thm("t1", {"A", "k"}), Thm("t2", {"rep"}), Thm("t3", {"t1"}), Thm("t4", {"t2"}), Thm("t5", {"A", "x"}),
       Def("open", {"A"}, {"A", "k"}), Def("inner", {"A"}, {"rep"})}
T2 == T1 \cup {Thm("t6", {"A", "n"})}
Theorems(decls) == Plain({"K", "M"}, decls, NoModule, {{"open"}, {"inner"}})

Contract == {Is("A", "axiom", {}), Is("law", "theorem", {"A"})}

MCFirstText ==
  [m \in MCModules |->
     CASE m = "K" -> Plain({}, K1, NoModule, {})
       [] m = "M" -> Construction(M1, "I")
       [] m = "T" -> Theorems(T1)
       [] OTHER   -> Sealed(Contract, {"open"})]

MCEdits ==
  [m \in MCModules |->
     CASE m = "K" -> {Plain({}, d, NoModule, {}) : d \in {K1, K2, K3}}
       [] m = "M" -> {Construction(M1, "I"), Construction(M2, "I"), Construction(M3, "I"),
                      Construction(M1, NoModule)}
       [] m = "T" -> {Theorems(d) : d \in {T1, T2}}
       [] OTHER   -> {Sealed(Contract, {"open"}), Sealed(Contract, {"open", "inner"}),
                      Sealed(Contract \ {Is("A", "axiom", {})}, {}),
                      Sealed({Is("A", "axiom", {}), Is("law", "theorem", {"A", "rep"})}, {"open"})}]
=============================================================================
