--------------------------- MODULE MCEscrowAmounts ---------------------------
(***************************************************************************)
(* Amounts around the rounding ties and plans of up to four stages: even   *)
(* and uneven ones, the thirds of the unit test, and those at the ends of  *)
(* the half percent the validation tolerates.  Awards are explored for     *)
(* amounts of about a unit, every one from one cent to the whole pool.     *)
(***************************************************************************)
EXTENDS EscrowAmounts

SmallAmounts == 1..13 \cup {99, 100, 333, 1000, 9999, 10001, 33333}
Units == {99, 100}

Plans ==
    {<<10000>>, <<9950>>, <<5000, 5000>>, <<1, 9999>>, <<10000, 30, 20>>,
     <<3333, 3333, 3334>>, <<3330, 3330, 3290>>, <<3350, 3350, 3350>>,
     <<2500, 2500, 2500, 2500>>, <<1250, 3750, 1250, 3750>>, <<10, 20, 30, 9940>>}
=============================================================================
