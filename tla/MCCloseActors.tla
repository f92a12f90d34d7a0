---- MODULE MCCloseActors ----
\* An instance of CloseActors for TLC: two creates of one CI attempt, two
\* deployments of another repository that carry its names, a staging
\* payload, and a production release of two deployments.
EXTENDS CloseActors

MCRegister ==
    [a |-> "org/a",
     b |-> "org/b"]

Ci(prefix, attempt) ==
    [prefix |-> prefix, class |-> "ci-runner", group |-> 1, run |-> {1},
     attempt |-> {attempt}, release |-> {}, expires |-> {}]

Payload(class, release) ==
    [prefix |-> "a", class |-> class, group |-> 1, run |-> {}, attempt |-> {},
     release |-> {release}, expires |-> {}]

\* Named for one workload, made for repository.
Made(op, owner, shared, repository, fields, count, facts, retires) ==
    [op |-> op, ordinal |-> 1, owner |-> owner, shared |-> shared, repository |-> repository,
     groups |-> NamedGroups(fields, count), class |-> fields.class, run |-> fields.run,
     attempt |-> fields.attempt, release |-> fields.release,
     reference |-> IF fields.class \in PayloadClass THEN {"made"} ELSE {},
     environment |-> IF fields.class \in PayloadClass THEN {"env"} ELSE {},
     named |-> facts, retires |-> retires]

MCOrigin ==
    [d1 |-> Made("o1", "A", FALSE, "org/a", Ci("a", 1), 2, {"a1"}, {"a1"}),
     d2 |-> Made("o2", "A", FALSE, "org/a", Ci("a", 1), 2, {"a1"}, {"a1"}),
     d3 |-> Made("o3", "B", FALSE, "org/b", Ci("a", 1), 2, {"a1"}, {"b1"}),
     d4 |-> Made("o4", "S", TRUE, "org/b", Ci("a", 1), 2, {"a1"}, {"b1"}),
     s1 |-> Made("o5", "S", TRUE, "org/a", Payload("staging-payload", "r1"), 1, {"r1"}, {"r1"}),
     p1 |-> Made("o6", "A", FALSE, "org/a", Payload("prod-payload", "v1"), 1, {}, {}),
     p2 |-> Made("o7", "S", TRUE, "org/a", Payload("prod-payload", "v1"), 1, {}, {})]

MCAttempt ==
    [a1 |-> [repository |-> "org/a", run |-> {1}, attempt |-> {1}],
     a2 |-> [repository |-> "org/a", run |-> {1}, attempt |-> {2}],
     b1 |-> [repository |-> "org/b", run |-> {1}, attempt |-> {1}]]

MCRelease ==
    [r1 |-> [repository |-> "org/a", release |-> {"r1"}]]

MCPrincipal ==
    [ann |-> [kind |-> "human", admin |-> "member", role |-> "member"],
     bob |-> [kind |-> "human", admin |-> "non_member", role |-> "non_member"],
     bot |-> [kind |-> "machine", admin |-> "member", role |-> "member"],
     run |-> [kind |-> "machine", admin |-> "non_member", role |-> "non_member"]]

Asked(deployment, mode, bypass, requester, executor) ==
    [deployment |-> deployment, repository |-> "org/a", release |-> {"v1"},
     environment |-> {"env"}, mode |-> mode, bypass |-> bypass, requester |-> requester,
     approver |-> "ann", executor |-> executor]

MCGrant ==
    [g1 |-> Asked("p1", "github_environment", "enabled", "bob", "run"),
     g2 |-> Asked("p2", "external", "disabled", "bot", "run"),
     g3 |-> Asked("p1", "github_environment", "disabled", "bot", "bot"),
     g4 |-> Asked("p2", "external", "disabled", "ann", "run")]

\* Stale, missing and mistaken readings of one closer.
Task(deployment, intent, others, facts, faults) ==
    [tasks |-> {<<deployment, intent>>}, deployments |-> {deployment} \cup others,
     facts |-> facts, grants |-> {}, closers |-> {"w1"}, end |-> 3, faults |-> faults]

\* Gates that are opened by anybody who can, or closers that ask at the same time.
Production(deployments, grants, closers) ==
    [tasks |-> deployments \X {"production_retirement"}, deployments |-> deployments,
     facts |-> {}, grants |-> grants, closers |-> closers, end |-> 1, faults |-> 1]

MCPlan ==
    {Task("d1", "ci_cleanup", {"d2"}, {"a1", "a2"}, 1),
     Task("d1", "ci_cleanup", {"d2"}, {"a1", "d1"}, 1),
     Task("d3", "ci_cleanup", {}, {"a1", "b1"}, 1),
     Task("d4", "ci_cleanup", {}, {"a1", "b1"}, 1),
     Task("d2", "creator_rollback", {"d1"}, {"o1", "o2"}, 2),
     Task("s1", "staging_retirement", {}, {"r1"}, 2),
     Task("s1", "ci_cleanup", {}, {"a1"}, 1),
     Production({"p1", "p2"}, {"g1", "g2", "g3"}, {"w1"}),
     Production({"p2"}, {"g2", "g4"}, {"w1", "w2"})}
====
