------------------------------ MODULE MCDriver ------------------------------
(***************************************************************************)
(* Driver with every trace of at most MaxLength requests as a trace file.  *)
(***************************************************************************)
EXTENDS Driver

CONSTANTS MaxLength,   \* requests of a trace
          Sizes        \* sizes they ask for

MCRequests ==
    [type : {"ALLOC", "REALLOC"}, index : Ids, size : Sizes]
        \cup [type : {"FREE"}, index : Ids, size : {0}]

\* The ids are interchangeable: the first request has the least one.
MCTraces ==
    {t \in UNION {[1 .. n -> MCRequests] : n \in 1 .. MaxLength} :
        Legal(t) /\ \A i \in Ids : t[1].index <= i}

=============================================================================
