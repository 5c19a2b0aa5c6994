------------------------------ MODULE MCExchange ------------------------------
(***************************************************************************)
(* Small instances of Exchange for TLC.                                    *)
(***************************************************************************)
EXTENDS Exchange

\* In half ticks: -1 rounds away from zero to tick -1, 2 is tick 1, 3 rounds to 2.
MCTwoPrices == {-1, 2}

MCMinTick == -2
=============================================================================
