CONSTANTS
    boot = boot
    Thread = {boot, a, b}
    MaxDepth = 3
SPECIFICATION Spec
SYMMETRY Others
INVARIANTS
    FlagRestored
    IInv
PROPERTY NoSwitchInSection
