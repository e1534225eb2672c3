---------------------------- MODULE MC_RoomSync ----------------------------
(* Two or three tabs for TLC, of two browsers: t2 is at work.              *)
EXTENDS RoomSync

CONSTANTS t1, t2, t3, home, work

mcBrowserOf == [t \in Tabs |-> IF t = t2 THEN work ELSE home]

(* Two browsers at the relay, and two edits that may cross.                *)
Apart == [tabs |-> {t1, t2}, relayed |-> {t1, t2}, revocable |-> {},
          storage |-> {work}, stores |-> {{}}, droppers |-> {},
          closers |-> {}, edits |-> 2, faults |-> 0]

(* A socket drops, the relay may refuse t2, and the room may hold what     *)
(* does not merge.                                                         *)
TurnedAway == [tabs |-> {t1, t2}, relayed |-> {t1, t2}, revocable |-> {t2},
               storage |-> {}, stores |-> {{}, {Poison}},
               droppers |-> {t2}, closers |-> {}, edits |-> 1, faults |-> 1]

(* No relay: two tabs of one browser and one of another come and go.       *)
Together == [tabs |-> Tabs, relayed |-> {}, revocable |-> {},
             storage |-> Browsers, stores |-> {{Past}}, droppers |-> {},
             closers |-> Tabs, edits |-> 3, faults |-> 3]

mcSetups == {Apart, TurnedAway, Together}
=============================================================================
