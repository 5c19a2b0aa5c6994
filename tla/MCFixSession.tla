---------------------------- MODULE MCFixSession -----------------------------
(***************************************************************************)
(* Small instances of FixSession for TLC.                                  *)
(***************************************************************************)
EXTENDS FixSession

CONSTANTS a, b

\* Two orders of one id, of which one replaces what the other enters.
MCOrders == {[op |-> "order", id |-> a], [op |-> "replace", id |-> a]}
MCOrdersId == [r \in MCOrders |-> b]

\* An order and its cancel.
MCCancel == {[op |-> "order", id |-> a], [op |-> "cancel", id |-> a]}
MCCancelId == [r \in MCCancel |-> b]

MCSymmetry == Permutations(Clients)
=============================================================================
