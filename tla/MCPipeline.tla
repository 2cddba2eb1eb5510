----------------------------- MODULE MCPipeline -----------------------------
(***************************************************************************)
(* Short logs over two accesses, all of them, with the WINDOW of the       *)
(* literal 100, scaled down to 2, and with a greater one; no log, for the  *)
(* generators; longer logs of one access, whose labels the notebook reads. *)
(***************************************************************************)
EXTENDS Pipeline

TwoBlocks == {[fd |-> 3, offset |-> 0, data |-> "a"], [fd |-> 3, offset |-> 8, data |-> "b"]}

LogsOver(lines, lengths) == UNION {[0..(n - 1) -> lines] : n \in lengths}

AllSetups ==
  {[WINDOW |-> 2, faults |-> {"iofail", "kill"}, logs |-> LogsOver(TwoBlocks, 0..9)],
   [WINDOW |-> 3, faults |-> {"iofail", "kill"}, logs |-> LogsOver(TwoBlocks, 1..8)],
   [WINDOW |-> 2, faults |-> {"kill"},
    logs |-> LogsOver({[fd |-> 3, offset |-> 0, data |-> "a"]}, {11, 25})]}
============================================================================
