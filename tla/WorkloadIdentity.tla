---- MODULE WorkloadIdentity ----
\* The identity that the names of a deployment's groups carry: who owns
\* the workload, of what class it is, and which CI attempt or release it
\* belongs to.  Reading an identity is attribution only; ClosePolicy says
\* what else a retirement takes.
\*
\* An optional value is a set: {} where the code has None.  A name that is
\* no canonical idv1 name is {}, any other is {its fields}.
EXTENDS Naturals, Sequences, FiniteSets

CONSTANT Register   \* the repository that owns each registered prefix

CiClass == {"ci-runner", "ci-payload"}
PayloadClass == {"staging-payload", "prod-payload"}

\* The rules of format_identity, which parse_identity applies to what it reads.
WellFormed(i) ==
    /\ i.prefix \in DOMAIN Register
    /\ i.owner = Register[i.prefix]
    /\ i.group > 0
    /\ \/ /\ i.class \in CiClass
          /\ i.run # {} /\ i.attempt # {}
          /\ i.release = {} /\ i.expires = {}
       \/ /\ i.class \in PayloadClass
          /\ i.run = {} /\ i.attempt = {}
          /\ i.release # {}
          /\ i.expires # {} => i.class = "staging-payload"

\* A name holds no owner: the register adds it.
Owned(f) ==
    [prefix |-> f.prefix, owner |-> Register[f.prefix], class |-> f.class, group |-> f.group,
     run |-> f.run, attempt |-> f.attempt, release |-> f.release, expires |-> f.expires]

ParseIdentity(name) ==
    {Owned(f) : f \in {g \in name : g.prefix \in DOMAIN Register /\ WellFormed(Owned(g))}}

\* What must agree across every group of a deployment.
Lifecycle(i) == [i EXCEPT !.group = 0]

Identities(groups) ==
    LET Parses(g) == ParseIdentity(g.name) # {}
        Parsed(g) == CHOOSE i \in ParseIdentity(g.name) : TRUE
        read == SelectSeq(groups, Parses) IN
    [n \in DOMAIN read |-> Parsed(read[n])]

\* classify_groups: held unless the observed groups are 1, 2, ... and each of
\* them is named for its place in one lifecycle.
ClassifyGroups(groups, complete) ==
    LET ids == Identities(groups)
        numbers == {groups[n].group : n \in DOMAIN groups} IN
    [identities |-> ids, observed |-> Len(groups), parsed |-> Len(ids),
     complete |-> complete /\ groups # <<>>,
     held |-> \/ groups = <<>>
              \/ ~complete
              \/ Len(ids) # Len(groups)
              \/ numbers # 1 .. Len(groups)
              \/ \E n \in DOMAIN ids : ids[n].group # groups[n].group
              \/ Cardinality({Lifecycle(ids[n]) : n \in DOMAIN ids}) # 1]

\* The digest of a population's identities, which the code orders by group.
GroupDigest(population) == {population.identities[n] : n \in DOMAIN population.identities}

\* transform_sdl: the groups of a deployment whose placements were named, in
\* order, for one lifecycle.
NamedGroups(fields, count) ==
    [n \in 1 .. count |-> [group |-> n, name |-> {[fields EXCEPT !.group = n]}]]
====
