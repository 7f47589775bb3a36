------------------------------- MODULE Ring3 -------------------------------
(***************************************************************************)
(* The ring-3 program of kernel-x86_64/src/syscall.rs and its system calls:*)
(* enter_ring3 saves the kernel's context and drops to ring 3, the program *)
(* runs an instruction at a time with interrupts enabled, and int 0x80     *)
(* enters syscall_entry_stub through an interrupt gate.  The handler runs  *)
(* with IF clear, so a trap is one step up to the iretq or, for            *)
(* EXIT_SYSCALL, to the return into the kernel.                            *)
(***************************************************************************)
EXTENDS Integers, Sequences

CONSTANT U64          \* 2^64.

VARIABLES
  regs,               \* The registers that the code below uses or must preserve.
  rip,                \* The program's next instruction; 0: not in ring 3.
  kernel_stack,       \* What enter_ring3 pushed before KERNEL_RETURN_RSP was taken.
  REPORTED_VALUE,
  IFlag               \* RFLAGS.IF of the core.

ring3Vars == <<regs, rip, kernel_stack, REPORTED_VALUE>>

SYS_ADD == 1
SYS_ECHO == 2
SYS_REPORT == 3
EXIT_SYSCALL == 999

(* In the order enter_ring3 pushes them. *)
CalleeSaved == <<"rbp", "rbx", "r12", "r13", "r14", "r15">>
CallerSaved == {"rax", "rcx", "rdx", "rsi", "rdi"}
Registers == {CalleeSaved[i] : i \in DOMAIN CalleeSaved} \cup CallerSaved

(* Values that tell the kernel's callee-saved registers apart. *)
KernelRegs ==
  [r \in Registers |-> IF r \in CallerSaved THEN 0 ELSE CHOOSE i \in DOMAIN CalleeSaved : CalleeSaved[i] = r]

Load(r, value) == [op |-> "load", to |-> r, value |-> value]
Move(r, s) == [op |-> "move", to |-> r, from |-> s]
AddTo(r, s) == [op |-> "add", to |-> r, from |-> s]
Int80 == [op |-> "int80"]

USER_PROGRAM ==
  <<Load("rax", SYS_ADD), Load("rdi", 7), Load("rsi", 8), Int80,
    Move("rbx", "rax"), Load("rax", SYS_ECHO), Load("rdi", 1234), Int80,
    AddTo("rbx", "rax"), Load("rax", SYS_REPORT), Move("rdi", "rbx"), Int80,
    Load("rax", EXIT_SYSCALL), Int80>>

Ring3Init ==
  /\ regs = KernelRegs /\ rip = 0 /\ kernel_stack = <<>> /\ REPORTED_VALUE = 0

EnterRing3 ==
  /\ kernel_stack' = [i \in DOMAIN CalleeSaved |-> regs[CalleeSaved[i]]]
  /\ rip' = 1
  /\ IFlag' = TRUE
  /\ UNCHANGED <<regs, REPORTED_VALUE>>

Instruction == USER_PROGRAM[rip]

Executes ==
  /\ rip \in DOMAIN USER_PROGRAM /\ Instruction.op # "int80"
  /\ regs' = [regs EXCEPT ![Instruction.to] =
                CASE Instruction.op = "load" -> Instruction.value
                  [] Instruction.op = "move" -> regs[Instruction.from]
                  [] Instruction.op = "add" -> (@ + regs[Instruction.from]) % U64]
  /\ rip' = rip + 1
  /\ UNCHANGED <<kernel_stack, REPORTED_VALUE, IFlag>>

(* (rax, rdi, rsi, rdx) into the argument registers (rdi, rsi, rdx, rcx). *)
Shuffle(r) == [r EXCEPT !.rcx = r.rdx, !.rdx = r.rsi, !.rsi = r.rdi, !.rdi = r.rax]

(* dispatch_syscall's return value, given its argument registers. *)
DispatchSyscall(r) ==
  CASE r.rdi = SYS_ADD -> (r.rsi + r.rdx) % U64
    [] r.rdi = SYS_ECHO -> r.rsi
    [] r.rdi \in {SYS_REPORT, EXIT_SYSCALL} -> 0
    [] OTHER -> U64 - 1

(* What the call leaves: the result in rax, anything in the other          *)
(* registers a callee may clobber.                                         *)
AfterCall(r, junk) ==
  [reg \in Registers |-> IF reg = "rax" THEN DispatchSyscall(r)
                         ELSE IF reg \in CallerSaved THEN junk ELSE r[reg]]

(* The last pushed is the first popped. *)
Popped(r) ==
  [reg \in Registers |-> IF reg \in CallerSaved THEN r[reg]
                         ELSE kernel_stack[CHOOSE i \in DOMAIN CalleeSaved : CalleeSaved[i] = reg]]

Trapped ==
  /\ rip \in DOMAIN USER_PROGRAM /\ Instruction.op = "int80"
  /\ REPORTED_VALUE' = IF Shuffle(regs).rdi = SYS_REPORT THEN Shuffle(regs).rsi ELSE REPORTED_VALUE

(* The continue path: iretq restores the program's flags with IF set. *)
TrapContinues ==
  /\ Trapped /\ regs.rax # EXIT_SYSCALL
  /\ \E junk \in {0, U64 - 1} : regs' = AfterCall(Shuffle(regs), junk)
  /\ rip' = rip + 1
  /\ IFlag' = TRUE
  /\ UNCHANGED kernel_stack

(* Variant: the exit path forgets that the gate has cleared IF. *)
TrapExitsWithoutSti ==
  /\ Trapped /\ regs.rax = EXIT_SYSCALL
  /\ \E junk \in {0, U64 - 1} : regs' = Popped(AfterCall(Shuffle(regs), junk))
  /\ rip' = 0 /\ kernel_stack' = <<>>
  /\ IFlag' = FALSE

(* The exit path: ring 3 is abandoned, the kernel's registers are popped   *)
(* and IF, cleared by the gate, is set.                                    *)
TrapExits ==
  /\ Trapped /\ regs.rax = EXIT_SYSCALL
  /\ \E junk \in {0, U64 - 1} : regs' = Popped(AfterCall(Shuffle(regs), junk))
  /\ rip' = 0 /\ kernel_stack' = <<>>
  /\ IFlag' = TRUE

ProgramStep == Executes \/ TrapContinues \/ TrapExits
=============================================================================
