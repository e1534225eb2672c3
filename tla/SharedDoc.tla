----------------------------- MODULE SharedDoc -----------------------------
(***************************************************************************)
(* What a shared document promises its users, whatever transports carry    *)
(* it: a tab starts from what its browser kept, it only ever gains edits   *)
(* while it is open, every edit it gains was made by somebody, and a       *)
(* browser keeps nothing but what one of its tabs held.  RoomSync, the     *)
(* transport of apps/web, is shown to implement it.                        *)
(*                                                                         *)
(* A document is the set of edits merged into it: the CRDT (Loro) makes    *)
(* the text a function of that set.                                        *)
(***************************************************************************)
CONSTANTS
    Edits,       \* edits that may be made
    Tabs,
    Browsers,
    BrowserOf    \* the browser each tab belongs to

VARIABLES
    written,  \* edits anybody made
    opened,   \* the tabs that are open
    doc,      \* the document of each tab
    kept      \* what each browser keeps between visits

vars == <<written, opened, doc, kept>>

(* The room has a past: edits made before any of these tabs opened. *)
Init ==
    /\ written \in SUBSET Edits
    /\ opened = {}
    /\ doc = [t \in Tabs |-> {}]
    /\ kept = [b \in Browsers |-> {}]

Open(t) ==
    /\ t \notin opened
    /\ opened' = opened \cup {t}
    /\ doc' = [doc EXCEPT ![t] = kept[BrowserOf[t]]]
    /\ UNCHANGED <<written, kept>>

Write(t) ==
    /\ t \in opened
    /\ \E e \in Edits \ written :
        /\ written' = written \cup {e}
        /\ doc' = [doc EXCEPT ![t] = @ \cup {e}]
    /\ UNCHANGED <<opened, kept>>

Learn(t) ==
    /\ t \in opened
    /\ \E s \in SUBSET written : doc' = [doc EXCEPT ![t] = @ \cup s]
    /\ UNCHANGED <<written, opened, kept>>

Keep(t) ==
    /\ t \in opened
    /\ kept' = [kept EXCEPT ![BrowserOf[t]] = doc[t]]
    /\ UNCHANGED <<written, opened, doc>>

(* A tab that closes may or may not manage to keep its document. *)
Close(t) ==
    /\ t \in opened
    /\ opened' = opened \ {t}
    /\ doc' = [doc EXCEPT ![t] = {}]
    /\ \/ kept' = kept
       \/ kept' = [kept EXCEPT ![BrowserOf[t]] = doc[t]]
    /\ UNCHANGED written

Next == \E t \in Tabs : Open(t) \/ Write(t) \/ Learn(t) \/ Keep(t) \/ Close(t)

Spec == Init /\ [][Next]_vars
=============================================================================
