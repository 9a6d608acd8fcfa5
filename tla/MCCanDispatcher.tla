-------------------------- MODULE MCCanDispatcher --------------------------
(* CanDispatcher for TLC.  The interfaces are alike, so that it is enough  *)
(* to look at the behaviours in which First is the first to be added: all  *)
(* others have the names of two interfaces swapped.  (TLC cannot be told   *)
(* so by a SYMMETRY, which is not sound for liveness.)                     *)
EXTENDS CanDispatcher

CONSTANT First

ASSUME FirstAssumption == First \in Interfaces

FirstComesFirst == entries # <<>> => entries[1] = First
============================================================================
