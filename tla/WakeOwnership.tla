--------------------------- MODULE WakeOwnership ---------------------------
(* What the delivery of wakes promises, whatever commits are uncertain: a    *)
(* wake is held by at most one claim, a claim is begun only by its holder,   *)
(* and the agent is invoked at most once for it, and only after it began.    *)
EXTENDS Naturals

CONSTANTS Wakes, Claims, NoClaim

VARIABLES holder, begun, invoked

vars == << holder, begun, invoked >>

Init ==
    /\ holder = [w \in Wakes |-> NoClaim]
    /\ begun = {}
    /\ invoked = [c \in Claims |-> 0]

Grant(w, c) ==
    /\ holder[w] = NoClaim
    /\ \A v \in Wakes : holder[v] # c
    /\ holder' = [holder EXCEPT ![w] = c]
    /\ begun' = begun \ {c}
    /\ invoked' = [invoked EXCEPT ![c] = 0]

Begin(w) ==
    /\ holder[w] \in Claims \ begun
    /\ begun' = begun \cup { holder[w] }
    /\ UNCHANGED << holder, invoked >>

Invoke(c) ==
    /\ c \in begun /\ invoked[c] = 0
    /\ invoked' = [invoked EXCEPT ![c] = 1]
    /\ UNCHANGED << holder, begun >>

\* Settled, released, or fenced by a save or a rebind.
Drop(W) ==
    /\ holder' = [w \in Wakes |-> IF w \in W THEN NoClaim ELSE holder[w]]
    /\ UNCHANGED << begun, invoked >>

Next ==
    \/ \E w \in Wakes : Begin(w) \/ \E c \in Claims : Grant(w, c)
    \/ \E c \in Claims : Invoke(c)
    \/ \E W \in SUBSET Wakes : Drop(W)

Spec == Init /\ [][Next]_vars
=============================================================================
