\* Four calls after the stack has been reserved, in a table of four regions.
SPECIFICATION Spec
CONSTANTS
    Word = 16
    MAX_LMB_REGIONS = 4
    Memories <- MCMemories
    Stack <- MCStack
    Sizes = {1, 3}
    Aligns = {1, 2}
    Limits = {0, 9}
    MaxCalls = 4
CHECK_DEADLOCK FALSE
INVARIANT Protected Apart AllocIsHighest
