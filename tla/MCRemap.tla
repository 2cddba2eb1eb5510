------------------------------ MODULE MCRemap ------------------------------
(* Numbers of PEs and gangs that initialize accepts, with complete and       *)
(* incomplete blocks. Buffered sends are tried where the PEs are few.        *)
EXTENDS Remap

Shape(pe, gang, pix, block, eager) ==
  [no_pe |-> pe, no_gang |-> gang, no_pix |-> pix, sblocksize |-> block, eager |-> eager]

SmallShapes ==
  {Shape(4, 4, pix, block, eager) : pix \in 3..5, block \in 1..2, eager \in BOOLEAN}
  \cup {Shape(9, 9, pix, 2, FALSE) : pix \in 5..7}
  \cup {Shape(4, 1, 5, 2, FALSE)}
  \cup {Shape(16, 4, 7, 2, FALSE), Shape(16, 4, 6, 1, FALSE), Shape(16, 16, 9, 2, FALSE)}
============================================================================
