-------------------------- MODULE MCInPlaceArchive --------------------------
(* A small instance of InPlaceArchive.                                     *)
EXTENDS InPlaceArchive

CONSTANTS
  small,    \* one page of one payload cell
  large     \* two pages, the second of which compresses to nothing

MCPayload == [c \in Content |-> IF c = small THEN <<1>> ELSE <<1, 0>>]
=============================================================================
