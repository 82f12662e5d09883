-------------------------- MODULE MCRetrievalIndex --------------------------
(***************************************************************************)
(* Instances of RetrievalIndex for TLC.                                    *)
(***************************************************************************)
EXTENDS RetrievalIndex

\* A page of three sections that is shortened to two.
ThreeThenTwo(v) == 3 - v

\* Upsert is the upserts one after another (the loop of index.main), for all short
\* lists of chunks at two places.
SomeChunks ==
    {[text |-> t, embedding |-> t] :
        t \in [document : {1}, chunk_index : {0, 1}, version : {0, 1}]}
Lists(n) == UNION {[1..m -> SomeChunks] : m \in 0..n}
ASSUME UpsertIsSequential ==
    \A old \in {{}} \cup {{c} : c \in SomeChunks}, new \in Lists(4) :
        Upsert(old, new) = FoldLeft(LAMBDA table, c : Upsert(table, <<c>>), old, new)
=============================================================================
