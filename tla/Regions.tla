------------------------------ MODULE Regions ------------------------------
(***************************************************************************)
(* What an allocator of addresses promises, whatever it allocates: space   *)
(* is handed out one region at a time, at or above Floor, on a multiple of *)
(* Unit and clear of everything handed out before; a region never moves,   *)
(* and the only way to give space back is to start over.                   *)
(*                                                                         *)
(* ImageLayout (getSectionRvas) and Hive (hbin.claim) are shown to         *)
(* implement it.                                                           *)
(***************************************************************************)
EXTENDS Integers

CONSTANTS Floor,    \* the first address that may be handed out
          Unit      \* every region begins on a multiple of Unit

VARIABLE regions    \* set of [owner, lo, hi]: addresses lo .. hi-1

Apart(r, q) == r.hi <= q.lo \/ q.hi <= r.lo

Init == regions = {}

Reserve ==
  \E r \in regions' :
    /\ regions' = regions \cup {r}
    /\ Floor <= r.lo
    /\ r.lo <= r.hi
    /\ r.lo % Unit = 0
    /\ \A q \in regions : q.owner # r.owner /\ Apart(q, r)

StartOver == regions' = {}

Next == Reserve \/ StartOver

Spec == Init /\ [][Next]_regions

=============================================================================
