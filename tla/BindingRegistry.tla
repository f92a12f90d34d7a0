---- MODULE BindingRegistry ----
\* What the create journal promises: a registry that knows each operation
\* as open, void (nothing was and nothing will be created), bound to one
\* deployment of its own, closed or settled.
CONSTANTS Op, Subject

VARIABLES
    fate,       \* how far each operation got
    bound       \* the pairs of an operation and its deployment

registryVars == <<fate, bound>>

RegistryInit ==
    /\ fate = [o \in Op |-> "absent"]
    /\ bound = {}

Move(o, from, to) ==
    /\ fate[o] = from
    /\ fate' = [fate EXCEPT ![o] = to]
    /\ UNCHANGED bound

Bind(o, d) ==
    /\ fate[o] = "open"
    /\ \A pair \in bound : pair[1] # o /\ pair[2] # d
    /\ fate' = [fate EXCEPT ![o] = "bound"]
    /\ bound' = bound \cup {<<o, d>>}

RegistryNext ==
    \E o \in Op :
        \/ Move(o, "absent", "open")
        \/ Move(o, "open", "void")
        \/ \E d \in Subject : Bind(o, d)
        \/ Move(o, "bound", "closed")
        \/ Move(o, "closed", "settled")

RegistrySpec == RegistryInit /\ [][RegistryNext]_registryVars

====
