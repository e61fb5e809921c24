-------------------------------- MODULE Boot --------------------------------
(* bootloader/efi: the loader reads the firmware's memory map, loads the      *)
(* kernel's ELF file, maps its segments, a stack and a window onto physical   *)
(* memory, and hands the memory map of the moment it leaves the firmware to   *)
(* the kernel.  Addresses are bytes, pages have PAGE of them.                 *)
EXTENDS Integers, Sequences, FiniteSetsExt

CONSTANTS
    PAGE,         \* bytes of a page
    HUGE,         \* pages of a huge page
    Memories,     \* what firmware may report: the type of every frame
    Kernels,      \* program headers of kernels
    STACK,        \* Config::kernel_stack_address, as a page
    STACK_PAGES   \* Config::kernel_stack_size

Headers == [load : BOOLEAN, offset : Nat, virt : Nat, file : Nat, mem : Nat, flags : {"rx", "r", "rw"}]

SegmentPages(s) == (s.virt \div PAGE)..((s.virt + s.mem - 1) \div PAGE)

\* What any linker does: the file has the bytes of a page where the page has them,
\* no two segments share a page, and one without bytes in the file starts a page.
WellFormed(kernel) ==
    /\ kernel \in Seq(Headers)
    /\ \A i \in DOMAIN kernel :
        /\ kernel[i].virt % PAGE = kernel[i].offset % PAGE
        /\ kernel[i].file <= kernel[i].mem
        /\ kernel[i].file = 0 => kernel[i].virt % PAGE = 0
    /\ \A i, j \in DOMAIN kernel :
        i < j /\ kernel[i].load /\ kernel[j].load =>
            \A p \in SegmentPages(kernel[i]), q \in SegmentPages(kernel[j]) : p < q

\* What kernel/src/x86_64.ld does: sections start pages, .bss comes last.
Linked(kernel) ==
    \A i \in DOMAIN kernel : kernel[i].load =>
        /\ kernel[i].virt % PAGE = 0
        /\ kernel[i].mem > kernel[i].file =>
            \A j \in DOMAIN kernel : j > i => ~kernel[j].load

ASSUME BootAssumption ==
    /\ {PAGE, HUGE, STACK, STACK_PAGES} \subseteq Nat \ {0}
    /\ \A kernel \in Kernels : WellFormed(kernel) /\ \A i \in DOMAIN kernel :
        kernel[i].load => \A p \in SegmentPages(kernel[i]) : p + 1 < STACK

VARIABLES
    kernel,      \* the program headers of elf
    types,       \* the firmware's memory map: type of each frame
    ram,         \* bytes of each frame
    max_phys,    \* main's max_phys_addr, as a frame
    mmap_len,    \* number of descriptors of the first memory map
    file,        \* first frame of the file's buffer
    page_table,  \* frame and flags of each page that is mapped
    tables,      \* the frame of the page table of each region
    window,      \* number of huge pages of the window on physical memory
    memory_map,  \* frames that BootInfo reports as CONVENTIONAL
    pc           \* where main is: a place, the segment and a count of pages

vars == <<kernel, types, ram, max_phys, mmap_len, file, page_table, tables, window, memory_map, pc>>

Frames == DOMAIN types
Bytes == 0..(PAGE - 1)
ZERO == 0
GARBAGE == -1
FileByte(n) == n + 1

At(at, seg, n) == [at |-> at, seg |-> seg, n |-> n]
Panic(why) == At("panic", 0, why)

-----------------------------------------------------------------------------
align_up(a) == PAGE * ((a + PAGE - 1) \div PAGE)
Segment == kernel[pc.seg]
FileSize == Max({kernel[i].offset + kernel[i].file : i \in DOMAIN kernel})

\* map_segment's file_offset, as a number of pages, and its frames.
start_frame(s) == file + s.offset \div PAGE
end_frame(s) == (PAGE * start_frame(s) + s.file - 1) \div PAGE
start_page(s) == s.virt \div PAGE
last_page(s) == (s.virt + s.file - 1) \div PAGE
zero_start(s) == s.virt + s.file
zero_end(s) == s.virt + s.mem

\* Descriptors of the memory map: runs of frames of one type.
Descriptors(map) ==
    Cardinality({f \in DOMAIN map : ~(f - 1 \in DOMAIN map /\ map[f - 1] = map[f])})

Free == {f \in Frames : types[f] = "conventional"}

\* allocate_pages(AnyPages): firmware takes the lowest or the highest run that is free.
Runs(n) == {f \in Free : f..(f + n - 1) \subseteq Free}
AnyPages(n) == IF Runs(n) = {} THEN {} ELSE {Min(Runs(n)), Max(Runs(n))}

Allocated(first, n) == [f \in Frames |-> IF f \in first..(first + n - 1) THEN "loader" ELSE types[f]]

Region == CASE pc.at \in {"file", "last", "zero"} -> "image" [] OTHER -> pc.at

-----------------------------------------------------------------------------
Init ==
    /\ kernel \in Kernels
    /\ types \in Memories
    /\ ram = [f \in Frames |-> [b \in Bytes |-> GARBAGE]]
    /\ max_phys = 0
    /\ mmap_len = 0
    /\ file = 0
    /\ page_table = <<>>
    /\ tables = <<>>
    /\ window = 0
    /\ memory_map = {}
    /\ pc = At("start", 0, 0)

\* bs.memory_map: the end of memory
ReadMemoryMap ==
    /\ pc.at = "start"
    /\ max_phys' = Max(Frames) + 1
    /\ mmap_len' = Descriptors(types)
    /\ pc' = At("config", 0, 0)
    /\ UNCHANGED <<kernel, types, ram, file, page_table, tables, window, memory_map>>

\* main loads the configuration, which fits into a page.
LoadConfig ==
    /\ pc.at = "config"
    /\ IF Free = {}
       THEN pc' = Panic("memory") /\ UNCHANGED types
       ELSE \E first \in AnyPages(1) :
            /\ types' = Allocated(first, 1)
            /\ pc' = At("load", 0, 0)
    /\ UNCHANGED <<kernel, ram, max_phys, mmap_len, file, page_table, tables, window, memory_map>>

\* fs::load_file, for the kernel
LoadFile ==
    LET pages == FileSize \div PAGE + 1
    IN  /\ pc.at = "load"
        /\ IF AnyPages(pages) = {}
           THEN pc' = Panic("memory") /\ UNCHANGED <<types, ram, file>>
           ELSE \E first \in AnyPages(pages) :
                /\ file' = first
                /\ types' = Allocated(first, pages)
                /\ ram' = [f \in Frames |-> [b \in Bytes |->
                    IF PAGE * (f - first) + b \in 0..(FileSize - 1)
                    THEN FileByte(PAGE * (f - first) + b) ELSE ram[f][b]]]
                /\ pc' = At("segment", 1, 0)
        /\ UNCHANGED <<kernel, max_phys, mmap_len, page_table, tables, window, memory_map>>

\* map_elf takes the next header, and main goes on to map_stack after the last one.
NextSegment ==
    /\ pc.at = "segment"
    /\ pc' = IF pc.seg > Len(kernel) THEN At("stack", 0, 0)
             ELSE IF ~Segment.load THEN At("segment", pc.seg + 1, 0)
             ELSE At("file", pc.seg, 0)
    /\ UNCHANGED <<kernel, types, ram, max_phys, mmap_len, file, page_table, tables, window, memory_map>>

\* map_to takes a frame for the page table of the region that it maps the first page of.
NewTable ==
    /\ pc.at \in {"file", "zero", "stack", "window"}
    /\ Region \notin DOMAIN tables
    /\ IF Free = {}
       THEN pc' = Panic("memory") /\ UNCHANGED <<types, tables>>
       ELSE \E f \in AnyPages(1) :
            /\ types' = Allocated(f, 1)
            /\ tables' = [r \in DOMAIN tables \cup {Region} |-> IF r = Region THEN f ELSE tables[r]]
            /\ UNCHANGED pc
    /\ UNCHANGED <<kernel, ram, max_phys, mmap_len, file, page_table, window, memory_map>>

\* The page table with one more page.
Mapped(page, frame, flags) ==
    [p \in DOMAIN page_table \cup {page} |->
        IF p = page THEN [frame |-> frame, flags |-> flags] ELSE page_table[p]]

\* One round of the loop over the frames of the file.
MapFilePage ==
    LET s == Segment
        page == start_page(s) + pc.n
    IN  /\ pc.at = "file"
        /\ "image" \in DOMAIN tables
        /\ IF start_frame(s) + pc.n > end_frame(s)
           THEN /\ pc' = IF s.mem > s.file
                         THEN At(IF zero_start(s) % PAGE # 0 THEN "last" ELSE "zero", pc.seg, 0)
                         ELSE At("segment", pc.seg + 1, 0)
                /\ UNCHANGED page_table
           ELSE IF page \in DOMAIN page_table
           THEN pc' = Panic("already mapped") /\ UNCHANGED page_table
           ELSE /\ page_table' = Mapped(page, start_frame(s) + pc.n, s.flags)
                /\ pc' = [pc EXCEPT !.n = @ + 1]
        /\ UNCHANGED <<kernel, types, ram, max_phys, mmap_len, file, tables, window, memory_map>>

\* Mutant: the last page keeps the frame of the file's buffer.
KeepLast ==
    /\ pc.at = "last"
    /\ pc' = IF last_page(Segment) \in DOMAIN page_table
             THEN At("zero", pc.seg, 0) ELSE Panic("unreachable")
    /\ UNCHANGED <<kernel, types, ram, max_phys, mmap_len, file, page_table, tables, window, memory_map>>

\* The last frame of the file is copied to one of its own, which takes its page.
CopyLast ==
    LET s == Segment
    IN  /\ pc.at = "last"
        /\ IF Free = {}
           THEN pc' = Panic("memory") /\ UNCHANGED <<types, ram, page_table>>
           ELSE \E new_frame \in AnyPages(1) :
                /\ types' = Allocated(new_frame, 1)
                /\ ram' = [ram EXCEPT ![new_frame] = ram[end_frame(s)]]
                /\ IF last_page(s) \notin DOMAIN page_table
                   THEN pc' = Panic("unreachable") /\ UNCHANGED page_table
                   ELSE /\ page_table' = Mapped(last_page(s), new_frame, s.flags)
                        /\ pc' = At("zero", pc.seg, 0)
        /\ UNCHANGED <<kernel, max_phys, mmap_len, file, tables, window, memory_map>>

\* One page with a frame of its own, of the zeroed memory or of the stack.
MapFresh(page, flags) ==
    IF Free = {}
    THEN pc' = Panic("memory") /\ UNCHANGED <<types, page_table>>
    ELSE \E frame \in AnyPages(1) :
         /\ types' = Allocated(frame, 1)
         /\ IF page \in DOMAIN page_table
            THEN pc' = Panic("already mapped") /\ UNCHANGED page_table
            ELSE /\ page_table' = Mapped(page, frame, flags)
                 /\ pc' = [pc EXCEPT !.n = @ + 1]

\* Mutant: the pages end before the one that the zeroed memory ends in.
ZeroPagesShort(s) == (align_up(zero_start(s)) \div PAGE)..(zero_end(s) \div PAGE - 1)

\* map_segment's "additional frames": the page of zero_end is mapped even if the
\* segment ends where it starts.
ZeroPages(s) == (align_up(zero_start(s)) \div PAGE)..(zero_end(s) \div PAGE)

MapZeroPage ==
    LET s == Segment
        page == align_up(zero_start(s)) \div PAGE + pc.n
    IN  /\ pc.at = "zero"
        /\ "image" \in DOMAIN tables
        /\ IF page \in ZeroPages(s) THEN MapFresh(page, s.flags)
           ELSE pc' = At("bss", pc.seg, 0) /\ UNCHANGED <<types, page_table>>
        /\ UNCHANGED <<kernel, ram, max_phys, mmap_len, file, tables, window, memory_map>>

\* write_bytes over mem_size - file_size bytes
ZeroBss ==
    LET zeroed == zero_start(Segment)..(zero_end(Segment) - 1)
        hit(f, b) == \E a \in zeroed : a % PAGE = b /\ page_table[a \div PAGE].frame = f
    IN  /\ pc.at = "bss"
        /\ IF \E a \in zeroed : a \div PAGE \notin DOMAIN page_table
           THEN pc' = Panic("page fault") /\ UNCHANGED ram
           ELSE /\ ram' = [f \in Frames |-> [b \in Bytes |-> IF hit(f, b) THEN ZERO ELSE ram[f][b]]]
                /\ pc' = At("segment", pc.seg + 1, 0)
        /\ UNCHANGED <<kernel, types, max_phys, mmap_len, file, page_table, tables, window, memory_map>>

\* One round of map_stack.
MapStackPage ==
    /\ pc.at = "stack"
    /\ "stack" \in DOMAIN tables
    /\ IF pc.n < STACK_PAGES THEN MapFresh(STACK + pc.n, "rw")
       ELSE pc' = At("window", 0, 0) /\ UNCHANGED <<types, page_table>>
    /\ UNCHANGED <<kernel, ram, max_phys, mmap_len, file, tables, window, memory_map>>

\* map_physical_memory's end_frame
WindowEnd == max_phys \div HUGE

\* One round of map_physical_memory.
MapWindow ==
    /\ pc.at = "window"
    /\ "window" \in DOMAIN tables
    /\ IF pc.n <= WindowEnd
       THEN window' = window + 1 /\ pc' = [pc EXCEPT !.n = @ + 1]
       ELSE UNCHANGED window /\ pc' = At("exit", 0, 0)
    /\ UNCHANGED <<kernel, types, ram, max_phys, mmap_len, file, page_table, tables, memory_map>>

\* Mutant: the kernel gets the memory map from before the loader's allocations.
ExitStale ==
    /\ pc.at = "exit"
    /\ memory_map' = {f \in Frames : types[f] # "reserved"}
    /\ pc' = At("kernel", 0, 0)
    /\ UNCHANGED <<kernel, types, ram, max_phys, mmap_len, file, page_table, tables, window>>

\* exit_boot_services, with room for twice the descriptors of the first memory map,
\* and the jump to the kernel, which takes what is CONVENTIONAL (memory::init).
ExitBootServices ==
    /\ pc.at = "exit"
    /\ IF Descriptors(types) > 2 * mmap_len
       THEN pc' = Panic("firmware") /\ UNCHANGED memory_map
       ELSE memory_map' = Free /\ pc' = At("kernel", 0, 0)
    /\ UNCHANGED <<kernel, types, ram, max_phys, mmap_len, file, page_table, tables, window>>

\* The kernel runs, or the panic handler of the loader spins.
Ended == pc.at \in {"kernel", "panic"} /\ UNCHANGED vars

Next ==
    \/ ReadMemoryMap \/ LoadConfig \/ LoadFile \/ NextSegment \/ NewTable \/ MapFilePage \/ CopyLast
    \/ MapZeroPage \/ ZeroBss \/ MapStackPage \/ MapWindow \/ ExitBootServices \/ Ended

Spec == Init /\ [][Next]_vars

-----------------------------------------------------------------------------
\* The byte that segment s says is at address s.virt + i.
Said(s, i) == IF i < s.file THEN FileByte(s.offset + i) ELSE ZERO

Right(s, i) ==
    LET a == s.virt + i
        entry == page_table[a \div PAGE]
    IN  entry.flags = s.flags /\ ram[entry.frame][a % PAGE] = Said(s, i)

\* A kernel of the shape that the linker script gives is loaded whenever memory
\* suffices: no page of it is met twice, and when the kernel starts each of its bytes
\* is mapped, with the permissions of its segment, and reads as in the file or as zero.
ImageLoaded ==
    Linked(kernel) =>
        /\ pc.at = "panic" => pc.n \in {"memory", "firmware"}
        /\ pc.at = "kernel" => \A k \in DOMAIN kernel : kernel[k].load =>
            \A i \in 0..(kernel[k].mem - 1) :
                (kernel[k].virt + i) \div PAGE \in DOMAIN page_table /\ Right(kernel[k], i)

\* A kernel of another shape may not be loaded, or not wholly (the end of a segment
\* that starts within a page is not mapped), but no byte of it that is mapped is
\* wrong: zeroing the end of one segment spares its neighbour in the same frame.
NeverWrong ==
    pc.at \in {"stack", "window", "exit", "kernel"} =>
        \A k \in DOMAIN kernel : kernel[k].load =>
            \A i \in 0..(kernel[k].mem - 1) :
                (kernel[k].virt + i) \div PAGE \in DOMAIN page_table => Right(kernel[k], i)

\* Every frame that the kernel may allocate can be reached through the window, and
\* none of them holds a byte of the kernel, its stack or a page table: the memory map
\* is the one after the loader's last allocation.
KernelMemoryUsable ==
    pc.at = "kernel" =>
        /\ \A f \in memory_map : f \div HUGE < window
        /\ memory_map \cap {page_table[p].frame : p \in DOMAIN page_table} = {}
        /\ memory_map \cap {tables[r] : r \in DOMAIN tables} = {}
=============================================================================
