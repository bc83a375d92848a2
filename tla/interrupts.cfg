\* Two IRQs, one dedicated and three lent cores, any writes and grants.
SPECIFICATION Spec
CONSTANTS
    Cores = {0, 1, 2, 3}
    Irqs = {"eth0", "eth1"}
    IrqLists <- SomeIrqLists
    Dedicated <- SomeDedicated
    Grants <- SomeGrants
    ListSize = 2
INVARIANTS
    OnlyLentCores
    OnlyNamedIrqs
PROPERTIES
    AllIrqsMoved
