------------------------------- MODULE MCIngest -------------------------------
(***************************************************************************)
(* Ingest for model checking: an event whose body tells it apart, two that  *)
(* share a body without a timestamp, a malformed body and a poisoned one.   *)
(***************************************************************************)
EXTENDS Ingest

MCBodyOf ==
  [e \in Events |-> CASE e = "paid"       -> "full"
                      [] e \in {"x", "y"} -> "bare"
                      [] e = "noise"      -> "bad"
                      [] e = "toxic"      -> "huge"]
MCKind ==
  [b \in Bodies |-> CASE b = "bad"  -> "malformed"
                      [] b = "huge" -> "poison"
                      [] OTHER      -> "event"]
===============================================================================
