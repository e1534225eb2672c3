--------------------------- MODULE MC_WeaverSync ---------------------------
(* Two pages for TLC, one with IndexedDB and one without.                  *)
EXTENDS WeaverSync
CONSTANTS p1, p2

Some(e, l, f, n, w, d, v) ==
    [edits |-> e, links |-> l, flushes |-> f, network |-> n, writes |-> w,
     disposals |-> d, leaves |-> v]

(* Edits alone; an agent, with the network failing; two faults of the      *)
(* network; writes that fail; a page that goes and comes back, disposed of *)
(* or not; snapshots asked for.                                            *)
mcBudgets ==
    {Some(3, 0, 0, 0, 0, 0, 0), Some(1, 1, 0, 1, 0, 0, 0),
     Some(2, 1, 0, 0, 0, 0, 0), Some(2, 0, 0, 1, 0, 0, 0),
     Some(1, 0, 0, 2, 0, 0, 0), Some(2, 0, 1, 0, 1, 0, 0),
     Some(2, 0, 0, 0, 0, 0, 1), Some(1, 0, 0, 1, 0, 1, 1)}

=============================================================================
