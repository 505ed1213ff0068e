------------------------------ MODULE MCConsole ------------------------------
(* The panels of the client, one view (or family) at a time: a view of the   *)
(* cache depends on no other.  Views are renamed and requests stripped of    *)
(* their names, so that panels that treat a view alike are explored once;   *)
(* of two requests alike, neither waits for the other.                      *)
EXTENDS QueryCache, AccountPanels, TeachingPanels, AdminPanels

Alone(p, k) ==
    LET views == IF k \in p.family THEN p.family ELSE {k}
        chosen == p.family \intersect views
        NewName(v) == IF v \in chosen THEN v ELSE "view"
        Named(K) == {NewName(v) : v \in K \intersect views}
        Part(o) == [affects |-> Named(o.affects), refetches |-> Named(o.refetches),
                    sets |-> Named(o.sets), gate |-> Named(o.gate), forgets |-> Named(o.forgets),
                    keyed |-> o.keyed /\ chosen # {}, settled |-> o.settled, single |-> o.single,
                    optimistic |-> o.optimistic /\ chosen # {}]
        Matters(o) == o.keyed \/ o.affects \union o.refetches \union o.sets # {}
        Like(n) == {m \in DOMAIN p.ops : Part(p.ops[m]) = Part(p.ops[n])}
        Merged(n) == [Part(p.ops[n]) EXCEPT !.single = @ /\ Like(n) = {n}]
        rows == {o \in {Merged(n) : n \in DOMAIN p.ops} : Matters(o)} IN
    [views |-> Named(views), family |-> chosen, polled |-> Named(p.polled),
     live |-> Named(p.live), ops |-> [o \in rows |-> o]]

Pages == AccountPages \union TeachingPages \union AdminPages
Views == UNION {p.views : p \in Pages}
Parts == {Alone(pk[1], pk[2]) : pk \in {pk \in Pages \X Views : pk[2] \in pk[1].views}}

(* A view that no request changes and that is not polled is left out.        *)
OneByOne == {p \in Parts : DOMAIN p.ops # {} \/ p.polled # {}}

(* The rows keep the rule the proofs rest on.                               *)
ASSUME RowsKeepRule == CoverRule
=============================================================================
