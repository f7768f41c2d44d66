---------------------------- MODULE MC_Container ----------------------------
(* Small instances of Container for TLC; the bounds are in the cfg files.   *)
EXTENDS Container

\* State constraint: no call on a project looks at another one, so what tasks
\* do to a project is followed beyond its first task while it is alone.
DeepAlone ==
    Cardinality(DOMAIN projects) > 1 =>
       \A i \in DOMAIN projects : /\ projects[i].ids.next <= 1
                                  /\ projects[i].count <= 1
=============================================================================
