---- MODULE MCAuctioneer ----
\* Instances of Auctioneer for TLC.
EXTENDS Auctioneer, TLC

Saw(key, provider, price, state, capacity, profile, gseq) ==
    [key |-> key, provider |-> provider, price |-> price, denom |-> "uact",
     state |-> state, capacity |-> capacity, profile |-> profile, gseq |-> gseq]

MCFitOf == [c \in {"wide", "partial", "full"} |->
              [p \in {"p", "q"} |-> IF c = "full" THEN "INSUFFICIENT" ELSE "FIT"]]
MCScoreOf == [c \in {"wide", "partial", "full"} |->
                [p \in {"p", "q"} |-> IF c = "wide" THEN {2} ELSE {}]]

\* One order: groups and profiles come with some sightings only, and may conflict.
OneSighting ==
    [o \in {"a"} |->
        {Saw(1, 1, 2, "open", {"wide"}, {}, {}), Saw(1, 1, 2, "open", {"wide"}, {"p"}, {}),
         Saw(1, 1, 1, "closed", {}, {}, {1}),
         Saw(2, 2, 1, "open", {"partial"}, {}, {1}), Saw(2, 2, 1, "open", {"wide"}, {"q"}, {1}),
         Saw(3, 3, 1, "open", {"full"}, {"p"}, {1})}]

OnePolicy ==
    [o \in {"a"} |->
        [window |-> 1, fallback |-> 1, preferred |-> {1, 2}, eligible |-> {},
         excluded |-> {}, selection |-> "EMPTIEST"]]

\* Two orders that two preferred providers bid for, in two currencies for one of them.
TwoSighting ==
    [o \in {"a", "b"} |->
        {Saw(1, 1, 1, "open", {"partial"}, {"p"}, {1})}
        \cup IF o = "a" THEN {Saw(1, 1, 1, "open", {}, {}, {}),
                              Saw(2, 2, 2, "open", {"wide"}, {}, {1})}
                        ELSE {[Saw(2, 2, 2, "open", {}, {}, {1}) EXCEPT !.denom = "uakt"]}]

TwoPolicy ==
    [o \in {"a", "b"} |->
        [window |-> 1, fallback |-> 1, preferred |-> {1, 2}, eligible |-> {{1, 2, 3}},
         excluded |-> {3}, selection |-> IF o = "a" THEN "EMPTIEST" ELSE "CHEAPEST"]]
====
