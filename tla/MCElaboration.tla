--------------------------- MODULE MCElaboration ---------------------------
(***************************************************************************)
(* One sealed quotient alias, a budget of two kernel steps, and one of one     *)
(* step for what is tried on trial.                                         *)
(***************************************************************************)
EXTENDS Elaboration

MCNames   == {"Rational"}
MCSealed  == {"Rational"}
MCAliases == {"Rational"}
=============================================================================
