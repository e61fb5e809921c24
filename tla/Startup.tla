------------------------------- MODULE Startup -------------------------------
(* kernel/src/lib.rs init, from the first log to the end, on one processor:   *)
(* interrupts and exceptions run their handlers on top of what they interrupt *)
(* and share its spin locks.  Code is modelled as programs whose instructions *)
(* are the operations on locks, interrupt controllers and the console.        *)
EXTENDS Console, Sequences, FiniteSets

CONSTANTS
    FIRST_WAIT, LAST_WAIT, \* ticks that timer::init waits for, 2 and 102 in the code
    Controllers,           \* AHCI controllers with message signalled interrupts
    MaxChars,              \* bound on the characters of a line of a log
    MaxFaults              \* bound on unexpected interrupts and exceptions

ASSUME StartupAssumption ==
    /\ {FIRST_WAIT, LAST_WAIT, MaxChars} \subseteq Nat \ {0}
    /\ FIRST_WAIT <= LAST_WAIT
    /\ Controllers \in Nat
    /\ MaxFaults \in Nat

VARIABLES
    stack,      \* what runs, on top of what it interrupted: a program and the place in it
    locks,      \* the height of the stack that holds each lock, 0 if it is free
    interrupts, \* interrupts are enabled in the kernel's own code
    pending,    \* interrupts that the local APIC has been sent
    in_service, \* interrupts taken and not ended by EOI
    sources,    \* what may interrupt: keyboard, PIT, APIC timer, devices
    count,      \* pit::COUNT
    written,    \* characters of the line that is being logged
    faults      \* unexpected interrupts and exceptions so far

machine == <<stack, locks, interrupts, pending, in_service, sources, count, written, faults>>
vars == <<machine, console>>

Locks == {"LOGGER", "HEAP", "FRAME", "LAPIC", "IOAPIC", "AHCI"}

\* IrqVector, and the vector of the first device, of which the upper four bits are the
\* priority class.  No handler is set for a device's vector.
vector == [Keyboard |-> 33, PIT |-> 34, Timer |-> 48, Msi |-> 56, Error |-> 60]
Irqs == DOMAIN vector
class(irq) == vector[irq] \div 16

-----------------------------------------------------------------------------
\* Programs
Do(op, arg) == <<[op |-> op, arg |-> arg]>>
Lock(l) == Do("lock", l)
Unlock(l) == Do("unlock", l)

\* GlobalAlloc::alloc
alloc == Lock("HEAP") \o Unlock("HEAP")

\* LockedLogger::log: the text is formatted, on the heap, under the lock, and written
\* line by line; two lines stand for more than one.
log_text(text) == Lock("LOGGER") \o alloc \o text \o Unlock("LOGGER")
line(origin) == Do("text", origin)
log == log_text(line("kernel"))
log_lines == log_text(line("kernel") \o line("kernel"))

\* The panic handler; hlt and an endless loop.
panic == log_lines \o Do("halt", "")

\* apic::eoi
eoi == Lock("LAPIC") \o Do("eoi", "") \o Unlock("LAPIC")

\* Mutant: the interrupt is not ended.
pit_handler_without_eoi == Do("count", "")

pit_handler == Do("count", "") \o eoi

\* Mutant: the handler logs what it read (the line is commented out in the code).
keyboard_handler_logs == log \o eoi

keyboard_interrupt_handler == eoi

\* Its counter is read by sleep alone, which nothing calls.
timer_interrupt_handler == eoi

apic_error_handler == log_lines
spurious_interrupt_handler == log_lines
non_maskable_interrupt_handler == log_lines
segment_not_present_handler == log \o log \o log_lines
machine_check_handler == panic

\* idt::init.  An interrupt without a handler is the fault of a segment not present.
Handler == [
    Keyboard |-> keyboard_interrupt_handler,
    PIT      |-> pit_handler,
    Timer    |-> timer_interrupt_handler,
    Msi      |-> segment_not_present_handler,
    Error    |-> apic_error_handler,
    Spurious |-> spurious_interrupt_handler,
    Nmi      |-> non_maskable_interrupt_handler,
    Mce      |-> machine_check_handler]

idt_init == Do("enable", "Nmi") \o Do("enable", "Mce")

apic_init ==
    Lock("LAPIC") \o Do("enable", "Error") \o Do("enable", "Spurious")
    \o Lock("IOAPIC") \o Unlock("IOAPIC") \o Unlock("LAPIC")

keyboard_init ==
    Lock("IOAPIC") \o Lock("LAPIC") \o Do("enable", "Keyboard") \o Unlock("LAPIC") \o Unlock("IOAPIC")

pit_init ==
    Lock("IOAPIC") \o Lock("LAPIC") \o Do("enable", "PIT") \o log \o Unlock("LAPIC") \o Unlock("IOAPIC")

timer_current == Lock("LAPIC") \o Unlock("LAPIC")
set_apic_timer == Lock("LAPIC") \o Do("enable", "Timer") \o Unlock("LAPIC")

timer_init ==
    Do("sti", "") \o Do("wait", "first") \o timer_current \o Do("wait", "last") \o timer_current
    \o Do("disable", "PIT") \o log \o log \o set_apic_timer \o log

device_init == keyboard_init \o pit_init \o Lock("IOAPIC") \o timer_init \o Unlock("IOAPIC")

\* pci::enable, of a device with one capability.
pci_enable == Do("enable", "Msi") \o log \o log \o log

\* frame::alloc_range, for the AHCI driver.
virtio_dma_alloc == Lock("FRAME") \o Unlock("FRAME") \o log

\* AHCI::new logs the names that the disk gives itself.
ahci_init == virtio_dma_alloc \o log_text(line("device")) \o alloc

read_block == Lock("AHCI") \o Unlock("AHCI")

init_sata == ahci_init \o alloc \o read_block \o alloc

init_driver == log \o pci_enable \o init_sata

pci_init[n \in Nat] == IF n = 0 THEN <<>> ELSE init_driver \o pci_init[n - 1]

\* process::init reads a file, logs, and its assertion about a constant address fails.
process_init == read_block \o alloc \o log \o panic

\* lib.rs init; memory::init and gdt::init allocate.
init ==
    log \o log_lines \o alloc \o alloc \o idt_init \o apic_init \o device_init
    \o pci_init[Controllers] \o process_init

Program(name) == CASE name = "init" -> init [] name = "panic" -> panic [] OTHER -> Handler[name]

-----------------------------------------------------------------------------
Height == Len(stack)
Top == stack[Height]
Running(context) == Program(context.name)[context.pc]
Ended(context) == context.pc > Len(Program(context.name))
At(op) == ~Ended(Top) /\ Running(Top).op = op
Arg == Running(Top).arg

Call(name) == [name |-> name, pc |-> 1]
Advance == stack' = [stack EXCEPT ![Height].pc = @ + 1]

Init ==
    /\ ConsoleInit
    /\ stack = <<Call("init")>>
    /\ locks = [l \in Locks |-> 0]
    /\ interrupts = FALSE
    /\ pending = {}
    /\ in_service = {}
    /\ sources = {}
    /\ count = 0
    /\ written = 0
    /\ faults = 0

\* Mutex::lock takes a lock that is free, and spins on one that is not.
DoLock ==
    /\ At("lock")
    /\ locks[Arg] = 0
    /\ locks' = [locks EXCEPT ![Arg] = Height]
    /\ Advance
    /\ UNCHANGED <<interrupts, pending, in_service, sources, count, written, faults, console>>

DoUnlock ==
    /\ At("unlock")
    /\ locks' = [locks EXCEPT ![Arg] = 0]
    /\ Advance
    /\ UNCHANGED <<interrupts, pending, in_service, sources, count, written, faults, console>>

\* A character of the text of a log.
DoChar ==
    /\ At("text")
    /\ written < MaxChars
    /\ WriteChar
    /\ written' = written + 1
    /\ UNCHANGED <<stack, locks, interrupts, pending, in_service, sources, count, faults>>

\* The end of a line.
DoNewLine ==
    /\ At("text")
    /\ NewLine
    /\ written' = 0
    /\ Advance
    /\ UNCHANGED <<locks, interrupts, pending, in_service, sources, count, faults>>

\* get_bitmap has no glyph for a character: write_char panics, with the logger locked.
DoNoGlyph ==
    /\ At("text")
    /\ Arg = "device"
    /\ faults < MaxFaults
    /\ faults' = faults + 1
    /\ stack' = [stack EXCEPT ![Height] = Call("panic")]
    /\ UNCHANGED <<locks, interrupts, pending, in_service, sources, count, written, console>>

\* end_of_interrupt ends the one of the highest priority.
DoEoi ==
    /\ At("eoi")
    /\ in_service' = {i \in in_service : \E j \in in_service : vector[j] > vector[i]}
    /\ Advance
    /\ UNCHANGED <<locks, interrupts, pending, sources, count, written, faults, console>>

DoSource ==
    /\ \/ At("enable") /\ sources' = sources \cup {Arg}
       \/ At("disable") /\ sources' = sources \ {Arg}
    /\ Advance
    /\ UNCHANGED <<locks, interrupts, pending, in_service, count, written, faults, console>>

DoSti ==
    /\ At("sti")
    /\ interrupts' = TRUE
    /\ Advance
    /\ UNCHANGED <<locks, pending, in_service, sources, count, written, faults, console>>

\* COUNT += 1; what comes after LAST_WAIT makes no difference.
DoCount ==
    /\ At("count")
    /\ count' = IF count < LAST_WAIT THEN count + 1 ELSE count
    /\ Advance
    /\ UNCHANGED <<locks, interrupts, pending, in_service, sources, written, faults, console>>

\* The end of a busy loop on COUNT.
DoWait ==
    /\ At("wait")
    /\ count >= (IF Arg = "first" THEN FIRST_WAIT ELSE LAST_WAIT)
    /\ Advance
    /\ UNCHANGED <<locks, interrupts, pending, in_service, sources, count, written, faults, console>>

\* A handler returns to what it interrupted.
DoReturn ==
    /\ Ended(Top)
    /\ Height > 1
    /\ stack' = SubSeq(stack, 1, Height - 1)
    /\ UNCHANGED <<locks, interrupts, pending, in_service, sources, count, written, faults, console>>

Step ==
    \/ DoLock \/ DoUnlock \/ DoChar \/ DoNewLine \/ DoNoGlyph \/ DoEoi \/ DoSource \/ DoSti
    \/ DoCount \/ DoWait \/ DoReturn

-----------------------------------------------------------------------------
\* Hardware

\* A source sends its interrupt.  The kernel expects none of a device, which it polls,
\* nor an error of the local APIC.
Raise(irq) ==
    /\ irq \in (sources \cap Irqs) \ pending
    /\ IF irq \in {"Msi", "Error"}
          THEN faults < MaxFaults /\ faults' = faults + 1
          ELSE faults' = faults
    /\ pending' = pending \cup {irq}
    /\ UNCHANGED <<stack, locks, interrupts, in_service, sources, count, written, console>>

\* Handlers run with interrupts disabled; one is taken only above the class in service.
Deliver(irq) ==
    /\ interrupts
    /\ Height = 1
    /\ irq \in pending
    /\ \A other \in pending : vector[other] <= vector[irq]
    /\ \A other \in in_service : class(other) < class(irq)
    /\ pending' = pending \ {irq}
    /\ in_service' = in_service \cup {irq}
    /\ stack' = Append(stack, Call(irq))
    /\ UNCHANGED <<locks, interrupts, sources, count, written, faults, console>>

\* A spurious interrupt is not in service; NMIs and machine checks cannot be disabled.
Unexpected(name) ==
    /\ name \in sources
    /\ faults < MaxFaults
    /\ name = "Spurious" => interrupts /\ Height = 1
    /\ \A i \in 1..Height : stack[i].name # name
    /\ faults' = faults + 1
    /\ stack' = Append(stack, Call(name))
    /\ UNCHANGED <<locks, interrupts, pending, in_service, sources, count, written, console>>

Next ==
    \/ Step
    \/ \E irq \in sources : Raise(irq)
    \/ \E irq \in pending : Deliver(irq)
    \/ \E name \in {"Spurious", "Nmi", "Mce"} : Unexpected(name)

\* The processor goes on; between two interrupts, which are a millisecond apart, it also
\* goes on with what they interrupt; the PIT ticks; what is sent is taken if it may be.
Fairness ==
    /\ WF_vars(Step)
    /\ SF_vars(Step /\ Height = 1)
    /\ SF_vars(Raise("PIT"))
    /\ \A irq \in Irqs : SF_vars(Deliver(irq))

Spec == Init /\ [][Next]_vars /\ Fairness

-----------------------------------------------------------------------------
\* The top of the stack spins on a lock, which nobody will release: whoever has it is
\* below, or is the spinning code itself.
Spins == At("lock") /\ locks[Arg] # 0

Unplanned == {"Msi", "Error", "Spurious", "Nmi", "Mce", "panic"}

\* The kernel's own code never spins: it takes no lock twice, also where it logs with the
\* controllers locked.  The handler of an interrupt that it asked for spins only on the
\* LAPIC, and only in timer::init ("use spin lock in interrupt handler will probably cause
\* deadlock", in keyboard_interrupt_handler).  Only the handlers of what it did not ask
\* for and the panic handler spin on the logger and the heap; nobody on another lock.
SpinsOnlyInHandlers ==
    Spins =>
        \/ Arg = "LAPIC" /\ Top.name \in {"Keyboard", "PIT", "Timer"} /\ locks["IOAPIC"] = 1
        \/ Arg \in {"LOGGER", "HEAP"} /\ Top.name \in Unplanned

\* The kernel gets through the calibration of the timer, which counts interrupts of the
\* PIT, and all that follows, to the end: unless a handler spins, or an error of the local
\* APIC, which its handler does not end, shuts out the PIT while the kernel waits for it.
StartupEnds == <>(At("halt") \/ Spins \/ (At("wait") /\ "Error" \in in_service))
=============================================================================
