\* Huge pages of four frames; the stack has two pages.
CONSTANTS
    PAGE = 2
    HUGE = 4
    Memories <- MCMemories
    Kernels <- MCKernels
    STACK = 8
    STACK_PAGES = 2
SPECIFICATION Spec
INVARIANTS
    ImageLoaded
    NeverWrong
    KernelMemoryUsable
