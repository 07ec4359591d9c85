---------------------------- MODULE MCSearchEngine ----------------------------
(* SearchEngine, with the batches of tag operations that a client sends.   *)
EXTENDS SearchEngine

CONSTANTS x, y, ns, m1, m2

Add(t, n) == [sign |-> "+", kw |-> Kw(t, n)]
Del(t, n) == [sign |-> "-", kw |-> Kw(t, n)]
On(ms, ops) == [on |-> ms, ops |-> ops]

\* Single operations; a tag exchanged for another; sets that overlap; all
\* tags cleared; a second operation that is refused in a namespace.
MCBatches ==
    { <<On({m1}, <<Add(x, None)>>)>>,
      <<On({m1, m2}, <<Del(x, None), Add(y, None)>>)>>,
      <<On({m1, m2}, <<Add(x, None)>>), On({m2}, <<Del(x, None)>>)>>,
      <<On({m1}, <<Del(Star, None)>>)>>,
      <<On({m2}, <<Add(x, None)>>), On({m2}, <<Add(y, ns)>>)>> }
=============================================================================
