\* Two boots, by the whole command or by sub-commands.
SPECIFICATION Spec
CONSTANTS
    Word = 64
    MAX_LMB_REGIONS = 4
    Setups <- MCSetups
    Ram <- MCRam
    Stack <- MCStack
    Params <- MCParams
    Page = 2
    Pad = 2
    Overhead = 1
    BootmLen = 3
    MaxBoots = 2
CHECK_DEADLOCK FALSE
INVARIANT KernelKept HandedOver
PROPERTY InOrder
