---- MODULE MCPlacementSearch ----
\* An instance of PlacementSearch for TLC: two dimensions, groups that
\* only some distributions of their replicas fit.
EXTENDS PlacementSearch

\* The second dimension is on both nodes, on one, or on none of them; and a node may
\* have more than can be added exactly.
MCSize ==
    {<<<<3, 3>>, <<3, 3>>>>, <<<<3, 3>>, <<3, 0>>>>, <<<<3, 0>>, <<3, 0>>>>,
     <<<<7, 0>>, <<1, 0>>>>}

MCProfile ==
    {<<<<1, 0>>>>, <<<<2, 2>>>>, <<<<0, 1>>, <<2, 0>>>>, <<<<2, 1>>, <<1, 2>>>>,
     <<<<1, 1>>, <<1, 0>>, <<2, 1>>>>, <<<<1, 0>>, <<1, 0>>, <<1, 0>>, <<2, 0>>>>}

MCGaps ==
    {{}, {<<1, 1, "free">>}, {<<1, 1, "free">>, <<2, 1, "free">>}, {<<2, 2, "all">>}, {<<2, 1, "free">>, <<2, 2, "free">>},
     {<<1, 2, "over">>}}

MCDrift == -1 .. 1
====
