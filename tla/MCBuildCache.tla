---------------------------- MODULE MCBuildCache ----------------------------
(***************************************************************************)
(* `middle` is an interface module over the construction `built`; it keeps   *)
(* `base` visible.  `top` imports `middle`, and loads `base` with it.        *)
(***************************************************************************)
EXTENDS BuildCache, TLC

MCModules == {"base", "built", "middle", "top"}
MCImports ==
  "base" :> {} @@ "built" :> {} @@ "middle" :> {"base", "built"} @@ "top" :> {"middle"}
MCSealed         == {"middle"}
MCImplementation == "middle" :> "built"
MCKept           == "middle" :> {"base"}

\* To the first kernel `second` differs from `first` in a statement, to the
\* second kernel in a proof only.
MCContents == {"first", "second"}
MCPossible == [m \in MCModules |-> IF m = "base" THEN MCContents ELSE {}]
MCSource   == [m \in MCModules |-> "first"]
MCBytes    == {"statement", "restated"}

\* What `middle` exports is said in words of `base`, and which words there are it
\* takes from the full cache, when there is one; `top` states something in words
\* that `middle` exports while `base` says what it said first.
MCInterface(k, m, c, v, s) ==
  CASE m = "middle" -> IF "statement" = (IF s["base"] \in MCBytes THEN s ELSE v)["base"]
                       THEN "statement" ELSE "restated"
    [] m = "top"    -> IF v["middle"] = "statement" THEN "statement" ELSE Error
    [] OTHER        -> IF k = 1 /\ c = "second" THEN "restated" ELSE "statement"

\* The second kernel rejects the first proof in `base`.
MCProves(k, m, c, v, s) == m = "base" => k = 1 \/ c # "first"
=============================================================================
