------------------------------- MODULE MCBoot -------------------------------
(* Instance of Boot for TLC: pages of two bytes, kernels of the linker        *)
(* script's shape and of others, and memory that does and does not suffice. *)
EXTENDS Boot

Load(offset, virt, size, mem, flags) ==
    [load |-> TRUE, offset |-> offset, virt |-> virt, file |-> size, mem |-> mem, flags |-> flags]
Note == [load |-> FALSE, offset |-> 1, virt |-> 1, file |-> 1, mem |-> 1, flags |-> "r"]

MCKernels == {
    \* text, data with its .bss within and after the last page of the file
    <<Load(2, 0, 2, 2, "rx"), Note, Load(4, 2, 1, 4, "rw")>>,
    \* the file's bytes end with a page; so does the .bss
    <<Load(0, 0, 1, 1, "rx"), Load(2, 2, 2, 4, "rw")>>,
    \* only .bss
    <<Load(2, 0, 3, 3, "rx"), Load(6, 4, 0, 1, "rw")>>,
    \* a frame of the file is in two segments, the first of which has .bss
    <<Load(2, 2, 1, 2, "rw"), Load(3, 7, 1, 1, "r")>>,
    \* the end of the second is not mapped
    <<Load(2, 0, 1, 1, "rx"), Load(3, 3, 2, 2, "r")>>,
    \* .bss ends where the next segment starts
    <<Load(2, 2, 1, 2, "rw"), Load(4, 4, 1, 1, "r")>>,
    \* .bss after a last page that is not mapped
    <<Load(3, 3, 2, 4, "rw")>>}

\* Frames 0..last, of which the ones in reserved are not to be used.
Memory(last, reserved) == [f \in 0..last |-> IF f \in reserved THEN "reserved" ELSE "conventional"]
MCMemories == {Memory(12, {0, 6}), Memory(11, {})} \cup {Memory(n, {3}) : n \in {1} \cup 4..9}
=============================================================================
