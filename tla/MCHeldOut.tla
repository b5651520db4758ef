------------------------------- MODULE MCHeldOut -------------------------------
(***************************************************************************)
(* HeldOut for model checking: the hashes of one seed's records grow with   *)
(* their index, those of the other's fall.  One seed is asked for in two    *)
(* sizes and with two shares, the other also without records.               *)
(***************************************************************************)
EXTENDS HeldOut

MCHashOf(r) == IF r[1] = 1 THEN r[2] ELSE 20 - r[2]
MCDataset == {<<1, 3, 3>>, <<1, 5, 3>>, <<1, 5, 6>>, <<2, 5, 6>>, <<2, 0, 3>>}
MCOneShare == {1, 2} \X {3, 5} \X {3}
===============================================================================
