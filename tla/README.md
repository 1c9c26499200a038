# Toy Scalar: a TLA+ verification project

Toy Scalar is an out-of-order, superscalar RV32IMF(C) core written in
SystemVerilog (`src/rtl`). Up to eight instructions enter the back end per
cycle, four issue out of order over renamed registers, results come back in
any order, and four retire in program order. A wrong prediction is discovered
when the instruction retires; everything younger is cancelled.

The control of such a core is a set of small state machines, in different
files, that must agree cycle by cycle: which identifiers are in use, which
physical registers are free, who may issue. This project models that control
in TLA+, model-checks it with TLC on small instances and proves what matters
most, for every size, with TLAPS.

Beside the core the repository has a disassembler in C
(`src/plug_in/disassembler`), which writes the trace the core is debugged with.
It and the core's decoder are two readings of the same instruction words, and
the project compares them.

All models of the core's state are synchronous: **one TLA+ step is one clock cycle**, every clocked
block of the modelled files contributes its primed variables to that step, and
the inputs of the cycle (what the other components do in it) are existentially
quantified parameters of the step. There is therefore no action that the code
performs and the model may skip. A parameter sized by a macro or a package
constant of `toy_pack.sv` is a CONSTANT with the name it has there, and the
value of the code is given beside its declaration.

## 1. The system

| Component | State it keeps | Operations in a cycle | Talks to |
|---|---|---|---|
| Front end (`core/bpu`, `fetch`) | predicted path, target FIFO, branch re-order buffer, predictor tables | predict, fetch a line, deliver instructions, redirect on cancel | icache, fetch queue, commit |
| Fetch queue (`toy_fetch_queue2`, `toy_fetch_buffer`) | eight banks, read/write rotation pointers; commit credits; instruction id counter | take a line, hand out up to 8 instructions with ids, restart on cancel | front end, dispatch, commit |
| Dispatch (`toy_dispatch`, `..._issue_buffer`, `..._issue`, `toy_decoder`) | 16-entry compacting buffer, CSR lock | append, compact, pick up to 4 of the oldest 4, mask CSR | fetch queue, register file, units |
| Register file (`toy_regfile` and below) | rename table, committed table, per physical register free / backup / written flags, registers reserved for the next cycle | rename, write back, retire, recover | dispatch, units, commit |
| Units (`toy_alu`, `toy_mext`, `toy_float_wrapper`, `toy_csr`) | multiplier pipeline, floating-point wait counter and registers, CSRs | execute, report a result under an instruction id | dispatch, register file, commit |
| Load/store unit (`core/lsu`) | input buffer, store queue, load queue, branch ids, credits | steer, forward, request memory, answer, drain, roll back | dispatch, commit, data memory |
| Commit (`toy_commit`) | a result and a prediction per instruction id, oldest id, cancel counter, FCSR copy | collect, retire a group, detect a wrong prediction, cancel | everything |
| Instruction cache (`icache`) | tags, MSHRs and their links, prefetch | look up, allocate, fill, release | front end, bus |
| Decoder (`toy_decoder`, operation selects of the units) | none: combinational | decode a word, rewrite a compressed one, select a unit's operation | dispatch, units |
| Disassembler (`plug_in/disassembler`) | the record of one instruction | decode, extract operands, decompress, lift pseudo-instructions, print | the simulation's trace |
| Bus and memory (`bus`, `mem`) | generated interconnect, SRAM models | route, arbitrate, answer | caches, LSU |

They interact in four ways, and these are where the hazards lie.

* **Ids and credits.** The fetch queue numbers instructions modulo the depth of
  the commit queue and spends a credit for each; commit gives credits back as
  it retires. Units carry the id and write the queue at it. Nothing else
  protects an id from being used by two instructions at once.
* **Reservation one cycle ahead.** The register file offers each issue slot a
  free register chosen from the flags of the cycle before; issue takes it or
  leaves it, while retirement frees and protects others in the same cycle.
* **Order by position.** No instruction carries its age. Program order is the
  order of the issue buffer and of the ids; hazards between waiting
  instructions are found by comparing slots of the window only.
* **Cancel.** `cancel_edge_en` is raised in the cycle in which the wrong
  instruction retires, `cancel_en` in that cycle and the next. Each component
  chooses one of the two and clears its own state. What is not cleared, or is
  cleared in the other cycle, meets what the new path brings.

What makes it hard to test: the clearing of a cancel against what arrives in
the same cycle; groups in which a register is written several times and
retired at once; results that outlive their instruction; buffers at their
limit while a registered `ready` still promises room; and long legal sequences
(allocate, retire, cancel) that lose one register or one credit each time and
stop the core after millions of cycles. `PROJECT.json` lists these hazards at
their lines, with the property that covers each.

### What makes each component correct

* Register file: no physical register is lost or has two owners; the rename
  table leads to the youngest older writer; a cancel restores exactly the
  committed state.
* Commit: instructions retire in the order of sequential execution, each once,
  with its own result; every id leaves.
* Issue: an instruction reads the values program order demands; the oldest
  one is never blocked for good.
* Fetch queue and issue buffer: they are FIFOs, whatever the banks and the
  compaction do; `ready` never promises room that is not there.
* Load/store unit: each operation enters the queue of its kind once, in
  order; a load returns the youngest older store's value, or memory's; a store
  reaches memory once and only when committed; no cancelled load reports.
* Decoder and disassembler: the core executes what is printed, and what is
  printed is what the instruction set defines.
* Front end: what is delivered is a path the predictor chose, without gaps.
* Instruction cache: each miss is filled once and answered once.

## 2. Modules

| Module | Models | Built on |
|---|---|---|
| `PhyRegfile` | `toy_regfile` and the six files below it | |
| `PhyRegfile_proofs` | theorems about it | `PhyRegfile`, TLAPS |
| `SequentialMachine` | abstract: the program, one instruction after the other | |
| `CommitQueue` | `toy_commit`, the ids and credits of `toy_fetch_queue2`, latencies and cancel of `toy_mext` and `toy_float_wrapper` | implements `SequentialMachine` |
| `CommitQueue_proofs` | theorems: ranges, credits and ids | `CommitQueue`, TLAPS |
| `CommitOrder_proofs` | theorems: program order, one result each, refinement of `SequentialMachine` | `CommitQueue_proofs` |
| `MCCommitQueue` | two small programs and their predictions | `CommitQueue` |
| `InstructionStream` | abstract: one sequence of waiting instructions | |
| `FetchQueue` | banks and crossbars of `toy_fetch_queue2` and `toy_fetch_buffer` | |
| `IssueBuffer` | `toy_dispatch_issue_buffer`, slot by slot | |
| `FetchPath` | both, as `toy_core` connects them | composes `FetchQueue` and `IssueBuffer`, implements `InstructionStream` |
| `FetchPath_proofs` | theorems: room for what arrives, level banks | `FetchPath`, TLAPS |
| `FetchStream_proofs` | theorems: types, refinement of `InstructionStream` | `FetchPath_proofs` |
| `MCFetchPath` | which instructions are CSR accesses | `FetchPath` |
| `IssueStage` | the window of `toy_dispatch_issue_buffer`, the checks of `toy_dispatch_issue`, `csr_lock`, in-order retirement | composes `PhyRegfile` |
| `IssueStage_proofs` | theorems: the register file's contract, reads in program order | `IssueStage`, `PhyRegfile_proofs` |
| `MCIssueStage` | instruction mixes | `IssueStage` |
| `LsuBuffer` | `toy_lsu_buffer`: what is offered, credits, ready | |
| `StoreQueue` | `toy_stq`: comparison with loads, retirement, draining | extends `LsuBuffer` |
| `LoadQueue` | `toy_ldq`, `toy_ldq_branch_filter`: requests, answers, flags | extends `StoreQueue` |
| `LoadStoreUnit` | `toy_lsu`: the cycle of all three, the memory port and memory, what retires and cancels | extends `LoadQueue` |
| `LoadStoreUnit_proofs` | theorems: types, credits, order, one report each | `LoadStoreUnit`, TLAPS |
| `LoadStoreData_proofs` | theorems: the contents of memory, what loads return, and for which programs | `LoadStoreUnit_proofs` |
| `MCLoadStoreUnit` | access mixes | `LoadStoreUnit` |
| `InstWords` | 32-bit words as two halves, part selects | |
| `RiscvOpcodes` | the disassembler's tables | |
| `RiscvDisas` | `riscv_disas.c`: the steps of `disasm_inst` | `RiscvOpcodes`, `InstWords` |
| `Decoder` | `toy_decoder` and which operation the units select from its packet | `InstWords` |
| `InstructionSet` | the two compared, and against the instruction-set manual | `RiscvDisas`, instance of `Decoder` |
| `MCInstructionSet` | the words compared | `InstructionSet` |

### PhyRegfile

State: `reg_phy_id` (rename table), `backup_phy_id` (committed table), the three
flags of each `toy_physicial_regfile_entry` (`release_en`, `entry_backup`,
`entry_commit`), the registered outputs of the lead-one list
(`pre_allocate_vld`, `pre_allocate_id`) and the delayed `cancel_edge_en_d`.
`pending` is the one auxiliary variable: for each architectural register the
destinations issued and not yet retired. The code holds it spread over the
issue buffer, the units and the commit queue; it is what the back end owes the
register file, and the guards `LegalIssue`, `Writable` and `LegalCommit` are
the contract. The issue stage keeps it: `KeepsRegfileContract` is checked by TLC
on `IssueStage` and proved in `IssueStage_proofs`.

`Clock(rd, wr, n, cancel)` is the cycle: which slots issue writers of which
registers, which physical registers are written, how many destinations of each
register retire, whether the last of them cancels. `Run`, `Cancel` and
`Recover` are its three uses. A cancel lets the retiring group and the
instructions issued in the same cycle reach the entries, exactly as the
clocked blocks do: `Dropped` frees what has no backup flag *and* does not get
one in this cycle. `Recover` is the next cycle: the rename table is reloaded
and nothing may issue, because the window was emptied.

The contract excludes one thing the code does: the floating-point unit has no
cancel input, so its write may arrive after its register was freed (section 6).

### CommitQueue

State: per id the result (`v_commit_queue`) and the predicted next address
(`v_be_pld`), `rd_ptr`, `cancel_cnt`, `real_next_pc` (the simulation's
register), `commit_credit_cnt` and `instruction_idx_reg` of the fetch queue,
the two later stages of the multiplier, all registers of the floating-point
wrapper, and `csr_lock`. The front end is `fetch_pc` and a nondeterministic
prediction for every address: it delivers the path it predicts, right or
wrong. `waiting` holds the instructions that have an id and have not entered a
unit of fixed latency; the ALU, CSR, and the load/store queues report straight
from there, the multiplier and the floating-point unit with their latencies.

### FetchQueue, IssueBuffer, FetchPath

The state is the code's: per bank the entries, the credit counter, the read
and write pointers and the registered write addresses; the two rotation
pointers and the three tables of rotation addresses registered from them; per
slot of the issue buffer its payload and valid flag, the number of occupied
slots, and the registered ready of each dispatch channel. `FetchPath!Clock` is
the cycle of both with the wires between them: the channels that offer an
instruction (`AckVld`), those that are ready, and the credit that gates both
alike. Its parameters are what the neighbours do: the line that arrives (only
when `FilterRdy` holds), whether commit has credits, and which of the offered
window slots the units take. Instructions are numbered, modulo `INST_NUM`, in
the order in which the front end delivers them; the numbers are all the models
look at, so any three are told apart and one is a CSR access.

`InstructionStream` says what the two promise together: one sequence, appended
at the back, from whose first `OOO_DEPTH` instructions any may leave (a CSR
access only as the oldest and alone), emptied by a cancel. The refinement maps
`todo` to the occupied slots followed by what the banks hold, read in rotation.

### IssueStage

Extends `PhyRegfile` by `rob`, every dispatched and not retired instruction in
program order. The issue buffer keeps exactly the waiting ones in that order,
so `Window` is its first four. `Granted` is one link of the chain of
`v_eu_vld & v_eu_rdy` that runs from the oldest slot to the youngest, and
`Issuing` the sets that satisfy all links at once: as each link looks only at
older slots there is one, the value the wires settle to. A link has the RAW/WAW lock (`RegLock`), the
WAR lock (`RsLock`), the structural lock, the load/store order, the CSR mask
and the operand and pre-allocation checks. `Dispatched` is what arrives in a
cycle: up to `INST_READ_CHANNEL` instructions. `AllRetire` is the number that retires in
a cycle without a misprediction.

### LoadStoreUnit

The three component modules each declare their registers and one operator per
clocked block (`NextBuffer`, `NextCredits`, `NextStqPtr`, `NextStqFlags`, ...);
the wires between the files are operators of the same name on both ends
(`StuOffer` and `LduOffer` are what the buffer offers, `StoresTaken`,
`LoadsTaken` and `Blocked` the store queue's ready signals, `Request` the load
queue's memory request, `Drain` what the fixed-priority arbiter leaves to the
store queue). `LoadStoreUnit!Queues(n, cancel_edge_en)` conjoins what the queues
and memory do in a cycle in which `n` operations retire, `Arrive(accs, n, ...)`
what the buffer and `rob` do when `accs` arrives in it; a step is both.

An operation is a record with its id, kind, address, size and bytes. Since the
issue stage delivers loads and stores in program order (`IssueStage` checks
that), what a load must return is known when it arrives: `Arriving` computes it
from `arch`, the memory the retired operations leave, and the operations in
flight (`rob`). The model's unit never looks at a load's `data`; only the
properties do. `arch` is thus the abstract memory in program order against
which forwarding (`LoadsReadProgramOrder`) and draining (`StoresReachMemory`)
are judged.

Around the unit: `rob` stands for the commit queue (which operation has
reported, and the store queue entry its report named); any prefix of reported
operations may retire, up to the group's size; a cancel may come in any cycle
and drops what is younger than the retiring group. `refill` counts the cycles
until the new path can reach the unit. Memory is the one-port model behind the
generated bus: always ready, a read is answered in the next cycle
(`toy_bus_mem_mst.py`). Abstracted: the circular input buffer is a sequence; a
payload that no flag lets anybody read is `NONE`; ids are numbered modulo the
number of operations in flight. What runs is a `Workload`: accesses, number of
values, and the bounds on operations in flight and on stores and loads inside
the unit. The program is chosen at the start among `Workloads`, so that one run
covers several.

### RiscvDisas, Decoder, InstructionSet

`RiscvDisas` keeps the record `rv_decode` and takes the five steps of
`disasm_inst` as five actions. Every operand extractor is an operator of the
same name; the tables of formats, constraints, pseudo-instructions and CSR
names are functions from the operation. A printed line is the operation and its
operand tokens; blanks, tabs and the length of the buffer are left out. The C
integers are 32 or 64 bits wide; as no operand needs more than 32 bits, and
shifts are by constants, integers stand for both.

`Decoder` has an operator for each combinational block of `toy_decoder`
(`dec_inst_pld`, `dec_inst_rd`, `dec_inst_imm`, `goto`, ...) and for the case
statements with which a unit chooses its operation and its write enables from
the packet (`alu_op`, `lsu_op`, `float_op`, `float_writes`, ...).

`InstructionSet` turns both readings into an *effect* (operation, destination,
sources, immediate), with equal ways of saying the same made equal (`Normal`).
`ManualLayout` and `Manual` are the instruction-set manual's tables of
compressed immediates and pseudo-instructions, the reference for the
disassembler's own arithmetic. `Departs` lists where the core is known to
differ (section 6), so that anything else is a violation.

## 3. What each run checks

| Run | Question | Bounds |
|---|---|---|
| `commit` | order, credits, one result each, refinement of `SequentialMachine`, every id leaves; with mispredictions, and with the floating-point unit busy while nothing is cancelled | 4 ids, 2 dispatched, 2 retired; a loop with a branch and a stale jump target, and a straight-line loop with a floating-point instruction |
| `commit_fp_cancel` | the simulation's order check with floats and mispredictions (violated) | as `commit`, one float in the arm of the branch |
| `issue` | program-order reads, program-order destinations, contract of the register file, and the seven invariants of the integer register file | 3 architectural, 5 physical registers, window 2, 2 dispatched and 2 retiring per cycle, 3 in flight; loads, stores, ALU operations, multiplier, CSR, write of x0 |
| `issue_live` | the oldest instruction issues with a single spare register | 3/4 registers, 3 in flight |
| `issue_fp_war` | program-order reads in the floating-point file (violated) | 2/5 registers, 4 in flight |
| `fetch` | refinement of `InstructionStream`, level banks, room for what arrives, never stuck | 3 banks of 3, 2 of a line into a bank, buffer of 6, window of 2, 3 instructions told apart, lines of 4 |
| `lsu` | forwarding, one report each, order, credits, memory contents, absence of the situations of section 5, with loads, stores and cancels; more stores than queue and buffer hold | store queue of 4, load queue of 3, buffer of 3; 3 in flight, 2 stores and 2 loads inside, two bytes of two values, stores of two sizes; and 6 in flight, stores only, three values |
| `lsu_live` | every operation reports, the oldest load leaves its queue | 2 in flight, stores of two sizes, one value, with fairness |
| `lsu_order` | order, with a queue's credits nearly spent (violated) | store queue of 4, 4 in flight |
| `lsu_hang` | the oldest load leaves its queue, with loads of two sizes (violated) | queues of 3, 3 in flight, one store, two loads inside, one arriving per cycle, with fairness |
| `disas` | the core does what is printed; offsets and pseudo-instructions as the manual has them; tables have a row for everything | all 49152 compressed words for the three ISAs; for RV32 these with another upper half, and families of full words that reach every major opcode, function field, fused operation and CSR |
| `decode_table` | the register a compressed instruction writes, against the decoder's own table (violated) | as `disas` |

Why these bounds are enough for what they ask. Two slots and two retiring
instructions are the smallest group in which one destination replaces another
of the same group. Five physical registers for
three architectural ones let the pre-allocation run dry (the flags of a
retiring group must come back) and leave two registers for the same
architectural register in flight. Four ids with a credit threshold of two make
the id counter wrap in every second group, and let a cancelled id be reused
while its old holder is still in a unit. A window of two with three (in `issue_fp_war` four) in
flight has an instruction outside the window, so that order *across* the window
is exercised. In `fetch` three banks and lines of four make every line start
at another bank and wrap within itself, and the pointers (modulo twice the
number of banks, twice the depth) wrap; a buffer of six with three channels
makes the registered ready both go down with room left and come up again; lines
shorter than a rotation are covered by the proof of `BanksBalanced`, which has
no bound. Three instructions told apart are as many as there are banks, so the
entries of one bank all have the same number: TLC sees the order across banks,
and that within a bank is left to the theorem `FetchImplementsStream`, which
has no such bound (with four the run takes longer than is useful). In `disas` all operand bits of compressed words are covered, for RV32 with the
upper half of the word all zeros and all ones: the front end hands
over whole words, a compressed instruction with the halfword that follows it
(`toy_bpu_filter_predecoder.sv:37` in the build, `toy_bpu_filter.sv:132` in the
filter for halfwords), and neither decoder may look at it (`toy_decoder.sv:172`); of full
words, whose fields stand in fixed places, every bit alone and all together.
In `issue`, `IN_FLIGHT` is the only bound that is not a parameter of the code
(64 there): it is a guard on dispatch, below what the issue buffer allows.
`INST_READ_CHANNEL` is one (8 in the code): two may arrive in one cycle, so that
a window can fill at once and issue together.

The load/store runs are cut by what section 6 reports, and each passing run
stays on this side of it by a named bound; `AllClear`, `DrainInTime` and
`StartTogether` state these bounds for every depth, and section 5 proves them
enough. The fields `stores` and `loads` of a
workload keep the credits of a queue above one while an operation waits for it
and loads and stores mix (`lsu_order`
lifts them, and the workload `ManyStores` of `lsu` drives the credits to zero
with stores alone). In `lsu` a cancel is
followed by `REFILL` = 2 cycles in which nothing arrives, which the stores that
can be waiting need to drain. All loads of a passing run have one size, and a
store that touches a load's bytes starts where the load starts. Within these
bounds both queues wrap, stores are forwarded from before and after the wrap, a
load is offered with, before and after the store it depends on, meets stores of
its own and of another size, and branch ids (two instead of seven) are reused.

Each property is checked to be able to fail: `PROJECT.json` names, for each, a
plausible error in the code (definitions `X_M` beside `X`) under which TLC finds it violated.

## 4. Fairness

`CommitQueue!FairSpec`: the clock runs (`WF(Next)`), and an instruction that
could enter its unit in every cycle does so eventually (`WF(Executes(i))`). The
code justifies it: the issue stage offers its oldest instruction in every
cycle until it is taken (`toy_dispatch_issue.sv:131`), retirement is a
combinational function of the queue, and the load/store unit answers in
bounded time when memory does. Weak fairness is enough since `Executes(i)` stays
enabled until the instruction executes or is cancelled.

`FetchPath!PathFairSpec`: a cycle without cancel in which commit has credits and
the oldest offered slot is taken happens again and again (`WF(Serves)`). Credits
come back because every id leaves (`CommitQueue!EveryIdLeaves`), and the oldest
instruction issues (`IssueStage!OldestIssues`). Nothing is assumed about what the
front end delivers, nor about the registered ready, which `NeverStuck` is about.

`IssueStage!IssueFairSpec`: a cycle in which every busy unit finishes and the
load/store unit has room happens again and again (`WF(UnitsFinish)`). Units
have fixed latencies (1, 3, 7 cycles), loads end when memory answers. Nothing
is assumed about issue itself: that the oldest instruction issues is what
`OldestIssues` shows.

`LoadStoreUnit!FairSpec`: the clock runs (`WF(Run)`), and of the operations
that may retire in every cycle some do (`WF(Retires)`), which is what the
combinational retirement of `toy_commit` does. `Run` is the cycle without
cancel: fairness of `Next` would be satisfied by cancelling again and again,
and then nothing would have to be reported. Nothing is assumed about the memory
port: that stores come to their turn behind the loads is part of what
`EveryOpReports` shows, for as many loads as the bounds admit. (A program that
asks memory for a load in every cycle for ever does keep stores from draining,
until the store queue is full and the in-order input buffer stops the loads.)

## 5. What is proved

### The register file

`PhyRegfile_proofs` proves for all numbers of registers, slots and channels, in
both modes (integer, where register 0 is fixed, and floating point), that the
seven invariants of `PhyRegfile` hold in every reachable state. The only
assumption is `RegfileAssumption` (sizes are positive and there are at least as
many physical as architectural registers).

The inductive invariant `IInv` is the conjunction of all seven. None of them is
inductive alone: that the flags are exact (`FreeListExact`) needs that
destinations are distinct (`OneOwner`), since a register released for one owner
must not be another's; `OneOwner` after an issue needs that the register taken
was free (`PreAllocateFree`), which holds because the lead-one list looks only
at entries that are both written and free and leaves out those being taken
(`Idle`), so it needs `BackupFlagExact` to know that a cancel does not revive a
committed register; `RenameYoungest` ties the speculative table to `pending`.
`InitIInv`, `ClockIInv` (one cycle with any legal inputs, one step per
conjunct), `StepIInv` (the three actions and stuttering) lead to
`RegfileInvariant`; the seven theorems that name a property follow from it.

### Commit

`CommitQueue_proofs` proves `TypeOK` and `CreditExact` for every depth, width,
program, prediction and latency, floating-point instructions included. The
argument of `CreditExact` is a circle: the ids in use are the `InUse` ones from
`rd_ptr`, credits make up the rest of the depth, and what a cycle retires and
dispatches moves both ends by what it adds to and takes from the credits; a
cancel puts `rd_ptr`, the id counter and the credits back together although the
front end learns of it a cycle later.

`CommitOrder_proofs` proves `RetireInOrder`, `OneResultEach` and
`ImplementsSequential` under one further hypothesis, `FpPc = {}`: with
floating-point instructions the first two are false (section 6). The inductive
invariant `OrderInv` says that the ids in use, oldest first, form a *path*: the
address predicted after each is the address of the next one, from `real_next_pc`
to `fetch_pc`. Wherever an instruction is (waiting, in a stage of the
multiplier, or finished in the queue) it carries the address its id has on the
path and a next address its program allows, and it is in one of these places
only. Then a group that retires up to the first difference between predicted
and real next address retires consecutive steps of the program; and a cancel
leaves an empty path that begins where the program goes on. The invariant is
needed in full: that results come to the right holder needs that multiplier
stages are cleared by the same cancel that reuses their ids, and that a path
continues needs the prediction registers of ids not yet finished. A step
of the abstract machine is a group of up to `COMMIT_REL_CHANNEL` instructions,
as the queue retires them.

### Issue stage

`IssueStage_proofs` proves, for every number of slots, registers, channels and
instructions in flight, any instructions and any stalls, endings and cancels:

* `ContractKept`: each of its cycles is a step of `PhyRegfile` (`KeepsRegfileContract`).
  What `PhyRegfile_proofs` shows under the contract therefore holds of the register
  file in the core, floating-point writes after a cancel excepted (section 6).
* `PendingIsInProgramOrder` and `IssueTypeCorrect`.
* `ReadsAreInProgramOrder`, for the integer file (`MODE = 0`). For the floating-point
  file it is false: the run `issue_fp_war` shows why.

The inductive invariant `StageInv` is the register file's `IInv` and `RobInv`. Of
one register, the writers that have issued are the oldest ones (`WritersInOrder`;
kept because `RegLock` looks at destinations too, and because the window has no
hole: whoever is older than an instruction of the window and waits is in the
window, `SlotFacts`). So `pending`, which grows when a writer issues, lists them in
program order (`PendingIndexed`), and the `r` oldest instructions that retire
give back the first of each list (`RetireFacts`). `WrittenWhenDone` says that a
register is readable exactly when its instruction is done: retirement then meets
only written registers and no unit writes twice; it needs that no two
instructions in flight have one register (`OwnerFacts`, from `OneOwner`).
`ReadersFirst`, the only part that needs the integer form of `RsLock`, says that no
writer younger than a waiting reader has issued: with `RenameYoungest` it
makes the register that the table names the one of the youngest older writer.
`GrantFacts` and `RdFacts` state what the hazard checks promise of a set that
issues together, `RobStep` what a cycle does to `rob`, `RunKeeps` that a cycle
keeps `RobInv`, one step per conjunct.

### Fetch queue and issue buffer

`FetchPath_proofs` proves, for every number of channels, bank depth, buffer
depth and length of lines, `RoomKept` and `BanksBalanced`. `RoomKept`: ready
was computed from the occupancy before the arrivals of its own cycle, of which
there were at most `S_CHANNEL`; it is down unless that many fit on top. The
channels that are ready are the first ones (`ReadyPrefix`), which the second
proof needs as well. `BanksBalanced`: in rotation order the first `r` banks hold
`q + 1` instructions and the rest `q`, and the write rotation is the read
rotation moved by `r` (`Filled`); reading the first `m` and writing a line of
`K * s + t` leads to such a state again (`Level`, `Rotate`), because what is read
is an interval from the first channel on (`ReadsFirst`) and `FilterRdy` keeps the
counters from wrapping.

`FetchStream_proofs` proves `PathTypeOK` and `ImplementsStream` for the same values.
The inductive invariant `StreamInv` adds to the level banks what a bank is
(`BankInv`: the entries from the read pointer on, as many as credits are out, hold
instructions; the write pointer is where they end; the write addresses
registered a cycle ahead are those of the next line) and the types of the
buffer's slots. From it the sequence of all waiting instructions can be counted
out: with `K` banks, position `K * a + p` of the queue is entry `a` of the bank at
place `p` of the rotation (`StoredShape`). A cycle takes the first `m` of that
sequence away and puts the line at its end (`NextStored`), whichever banks the
two rotations start from. In the buffer the compaction tree keeps what does
not leave, in order: the slot that an instruction comes to is its rank among
those that stay (`Compaction`; `RestMoves` shows that the two ways of computing
the move, lead-one in the window and counting behind it, give the same rank).
So `todo` after a cycle is `Stream!Without` of what left, and the line behind it
(`NextTodo`, `StreamFlows`); what leaves may leave (`LeavesMayIssue`, which needs the
window to be the first `OOO_DEPTH` of the sequence); a cancel leaves nothing (`Emptied`).

### Load/store unit

`LoadStoreUnit_proofs` proves, for every depth of the buffer and of the queues,
every number of operations arriving and retiring per cycle, every `REFILL` and
every set of workloads, that from its initial states the unit keeps `LsuInv`,
and from it `LsuTypeOK`, `CreditExact`, `LsuInOrder` and `OneReportEach`. These
four are false of the code where section 6 says so, so three state predicates
are hypotheses of the first theorems (`Spec /\ []Regular => []...`), each one the
exact situation in which the code goes wrong:

* `OffersInOrder`: of the two oldest operations the second is not offered
  without the first. It fails only when a queue's credits are down to one
  (`lsu_order`).
* `AnswersTaken`: a load that a store answers enters its queue in that cycle
  (`lsu_hang` is about one that does not).
* `RetiredFit`: not every entry of the store queue is a retired store. With as
  many as the queue is deep, `stq_commit_cnt` reads zero (a hazard listed in
  `PROJECT.json`).

They are defined in `LoadStoreUnit`; that they hold is proved of the programs
described below, and run `lsu` checks `RegularData`, which contains
`Regular`. `LoadCredits` needs no hypothesis: the load
queue's credits are exact in every situation, the faulty ones included.

`LsuInv` is the conjunction of what each component keeps and of how they agree:

* `LoadInv`, `StoreInv`: each queue is an interval of its circle. The load
  queue holds `g` loads from its read pointer on, and its credits are the depth
  less `g`; the store queue holds `h` stores of which the first `c` are retired,
  and at most one credit is missing beside them. In the second cycle of a
  cancel `h = c` and the write pointer is still that of the first cycle. These
  parts alone are inductive for neither credits nor order: which entry retires
  comes from `rob`, so `RobStores` says that the stores reported and not yet
  retired are, in program order, the entries from place `c` on.
* `RobShape`: `rob` ends in exactly what the buffer holds, with consecutive ids,
  so that an id names one operation; the first `In` of it have entered a queue.
* `LdqFlags`, `RobLoads`: which flags can be up together; the loads that still
  ask are the unreported loads among those first `In`, one entry each, and the
  answer of memory is for the request of the cycle before or carries an
  old branch id. This is what makes an answer after a cancel report for nobody.
* `DataInv`: payloads, pointers and memory have their types.

`NextInv` splits a step into the cycle of a cancel (`CancelStep`) and any other
(`RunStep`), and under each takes the components one by one (`NextStqShape`,
`NextLdqShape`, `NextRobShape`, `NextRobStores`, `NextRobLoads`, ...). `HeadPairIs`,
`OfferIs` and `TakenFirst` reduce the two operations offered and the ready signals
of the queues to one fact: what leaves is the head of the buffer.

`LoadStoreData_proofs` adds the data. The contents of memory,
`StoresReachMemory`, follow under the same hypotheses. The invariant `MemInv` says byte by byte what the run's
property says of all retired stores at once: a byte of `arch` (memory in program
order) is what the youngest retired store still queued writes to it
(`LastDrained`) or, if none writes it, memory's. It is inductive with `LsuInv`: the
stores retiring in a cycle are the queue's next ones behind the retired, in
program order (`RobStores`), so what they make of `arch` (`ArchIs`) is what the
youngest of them leaves in the queue, and the store drained is the oldest one, whose
bytes reach memory unless a younger one has them (`MemIs`, `NextMemTrue`).
`AfterByte`, `AfterNone` and `AfterLast` turn `After`, which folds a sequence of
stores into memory, into "the last store that touches the byte".

What loads return, `LoadsReadProgramOrder`, needs three hypotheses more, each again
the exact situation of a flaw in section 6:

* `RetiredSeen`: a retired store that loads are not compared with shares no
  byte with the loads offered. (A store that retires in the cycle of a cancel
  loses its `v_entry_en`, `toy_stq.sv:365` and `:381`.)
* `TakenAnswered`: a load that enters its queue and meets a store has its size.
  (The second load's size check is skipped, `toy_stq.sv:108` and `:121`.)
* `StartTogether`, about the constants: a load and a store of the program that
  share a byte start at the same address, as the store queue compares nothing else
  (`toy_stq.sv:92`). The workloads of run `lsu` are such; `Overlap` is not.

`RegularData` is `Regular` with the first two. The
inductive invariant is `ReadInv`, kept with `LsuInv` and `MemInv`:

* `RobTrue`: the data a load of `rob` must return is, byte by byte, what the last
  store before it in `rob` writes, or `arch` where none does. It ties what the
  load was given when it arrived to the stores now around it, and survives their
  retirement (`ShiftTrue`) and the arrival of more (`ArrivingData`).
* `AloneInv`: a load that has entered its queue and is not answered has
  no store before it in `rob` and no retired store in the queue that writes one of
  its bytes. So nothing that drains while it waits for the port can matter.
* `AnswerTrue`: the answer under way from memory is what its load must return.

`OlderStore` says that a store before a taken load that touches one of its
bytes, offered beside it or in the queue, is met by the comparison; `DrainsMet`
says so of the retired ones. Hence a load that meets none is `Alone`
(`EnterAlone`), and one that does is answered by the right store: `Youngest`,
searched backwards from the write pointer, is the entry of the greatest place
(`BehindIs`, `YoungestIs`), which holds the last such store of `rob` (`ReadLast`)
or, if all of them have retired, the last of these (`ReadNone`).

The code keeps `RegularData` for some programs and depths and not for others.
Three conditions on the constants alone say for which, and replace the
hypotheses about behaviours:

* `AllClear`: each program has stores only (and fewer retire at once than the
  store queue is deep), or loads only, or both with `RoomFor`: the operations in
  the unit, waiting or queued, are at most `STU_DEPTH - 2` stores and
  `LDU_DEPTH - 1` loads. That is one credit kept in hand in each queue, and one
  more for the credit that a store drained in the second cycle of a cancel takes
  along. With both kinds, `SizesAgree` asks that no store can answer one of two loads
  and hold the other back.
* `DrainInTime`: a program of both kinds has at most `REFILL + 1` stores in the
  unit, as one is written per cycle while nothing arrives.
* `StartTogether`, as above.

| Theorem | Under | Always holds |
|---|---|---|
| `LsuStaysRegular` | `AllClear` | `Regular` |
| `LsuClear` | `AllClear` | `LsuTypeOK`, `CreditExact`, `LsuInOrder`, `OneReportEach`, `StoresReachMemory` |
| `LsuRegular` | `AllClear`, `DrainInTime` | `RegularData` |
| `LsuLoadsClear` | all three | `LoadsReadProgramOrder` |

The core checks none of the three. Programs with few memory operations close
to each other meet them; nothing in the hardware makes every program do so, and
section 6 shows what happens to one that does not. The workloads of `lsu` and
`lsu_live` meet all three and those of `lsu_order` and `lsu_hang` fail
`AllClear` (`ClearRuns`, an assumption of `MCLoadStoreUnit` that TLC evaluates
in the four runs).

The inductive invariant is `ClearInv`, kept with `LsuInv`:

* `Room`: what the store queue holds and the buffer has of stores is at most
  the program's bound, and the same of loads. The guard of an arrival counts `rob`
  instead, where a retired store no longer is; `GoesOn` and `NextRoom` follow an
  operation from buffer to queue through accept, drain and cancel.
* `NotNone`: where an operation should be there is one, so kind, address and
  size can be read off it.
* `Seen`: loads are compared with every retired store (`NoHidden`), or the unit is
  `Emptying`: nothing is in `rob`, no load is queued, and the retired stores still
  to be written are few enough for the rest of the refill. `NoHidden` alone is
  not inductive: the cycle of a cancel breaks it. What `Emptying` needs is that
  the write port is free in each of these cycles (`StoresDrain`): all loads are
  cancelled and none arrives, so no request precedes the store's.
* `RetiredFit`, in which the step's proof needs the state after it (`NextFit`),
  because `NextInv` supposes it there.

`ManyRegular` and `OneKindRegular` derive the five situations' absence from it:
with room, credits are above one whenever an operation waits (`OffersKept`); with
sizes that agree, of two loads offered together that meet stores one is answered
if the other is (`PairMeets`, `PairAnswered`).

### What is only model-checked

Liveness (`EveryIdLeaves`, `OldestIssues`, `NeverStuck`, `EveryOpReports`,
`LoadsLeave`): fairness is out of the prover's reach. And `InstructionSet`: its four invariants
are about tables whose names are put together from strings, which
the provers take as atoms, and about part selects of words with variable powers of
two. They are finite data: every one of the 2^16 - 2^14 compressed words is
checked, so that `OffsetsAsManual` is decided and not sampled, and of
the four-byte words one for every entry of the tables.

## 6. Where the code differs from what the repository says

* **A cancelled floating-point instruction still reports** (`commit_fp_cancel`).
  `toy_mext` clears its stages on a cancel, `toy_float_wrapper` has no cancel
  input. Its result arrives up to seven cycles later under an id that may have
  been handed out again; the new holder retires with the address and next
  address of the cancelled instruction, and the check in
  `toy_commit.sv:589` prints "Error Detect". `csr_lock` does not help: the
  cancel clears it (`toy_dispatch.sv:565`).
* **Write after read in the floating-point file** (`issue_fp_war`).
  `v_rs_fp_lock_comb` compares the first source three times
  (`toy_dispatch_issue.sv:109`, `:121`) where its integer form compares each. A
  younger writer of the second or third source may issue and rename it while
  the older reader still waits.

* **A load and a store out of order** (`lsu_order`). The drawing of the
  micro-architecture asks for "LSU-in order" in its box for the issue queue, which hands
  loads and stores over in order (`toy_dispatch_issue.sv:153`); the unit itself
  does not keep it. The input buffer offers the second
  of its two oldest operations although the first one's queue has no credit,
  and then advances its read pointer by one: the first is lost, the second is
  executed twice (`toy_lsu_buffer.sv:86`, `:187`, `:191`).
* **A load queue that stops** (`lsu_hang`). When the first of two offered loads
  is held back, the second one's forwarding flag is set all the same
  (`toy_ldq.sv:346`, without the `wr_en` of line 301). The load reports too
  early, and after the store has drained it neither asks memory nor leaves.

* **C.EBREAK writes a register** (`decode_table`). The table at the head of the
  decoder says it reads and writes none (`toy_decoder.sv:32`). It is rewritten
  to the SYSTEM opcode with the compressed word's own bits as the rest
  (`:751`), and becomes a CSR write of `frm` with destination x1.

More that have no run of their own in the project. The first two show up
as violations of `LoadsReadProgramOrder` when `LoadStoreUnit.cfg` is changed as
said:

* A store retiring in the cancel cycle becomes invisible. `toy_stq.sv:365`
  clears `v_entry_en` of what is not yet marked as retired, in the very cycle in
  which line 381 marks it. It is written to memory, but a load that arrives
  before that does not find it. (`REFILL` = 1, `COMMIT_REL_CHANNEL` = 3,
  `STU_DEPTH` = 8, a workload of three stores and three values. The real pipeline takes
  about ten cycles to refill, for up to 32 stores that may be waiting.)
* Loads are compared with stores by exact address (`toy_stq.sv:92`), so a byte
  store into a word is missed by a load of the word. (A workload of the accesses `Overlap`.)
* A store drained in the second cycle of a cancel takes a credit along until
  the next cancel (`toy_lsu_buffer.sv:124` uses the count of before;
  `CreditExact` says "or one more").
* `stq_commit_cnt` reads zero when every entry of the store queue is retired
  (`toy_stq.sv:220`): if loads keep the port from draining them and a cancel
  comes then, all credits are returned while the entries are still in use.
  (`CreditExact` fails with `STU_DEPTH` = 3, `COMMIT_REL_CHANNEL` = 4 and a
  workload of three stores and many loads.)
* The size check of a second load is skipped when the first meets a store
  (`toy_stq.sv:108` and `:121`); `Blocked` has it so.

The comparison of the decoders found these (`InstructionSet!Departs` keeps them out
of `DecodersAgree`):

* Immediates of compressed instructions in `toy_decoder.sv`: C.ADDI4SPN takes
  its bits unpermuted (`:579`); C.LW and C.SW extend bit 5 of the word as a
  sign, which makes offsets from 64 on negative (`:580`); C.LWSP and C.SWSP the
  same from 128 on (`:602`, `:604`).
* `toy_float.sv:527` to `543` decide by `funct5` alone which register file is
  written; the fused operations use these bits for their third source, and with
  f20, f24 or f28 there they do not write their result to it.
* In the disassembler: `c.andi` with immediate 0 is printed as illegal; `ret` is
  printed for any `jalr x0, imm(ra)`; the pseudo-instructions for moves of a sign
  print integer register names; rounding modes 5 and 6 are both "inv";
  `c.subw` is decoded for RV32 as well. The codecs `cb_sh5`, `ci_sh5` and
  `ci_none` are used by no operation.

Read while modelling, outside what the models look at: a static rounding mode
swaps RDN and RUP and a dynamic one does not (`toy_float.sv:121`); `is_call` and
`is_ret` of `toy_alu.sv:53` look for compressed patterns in words that are
already rewritten; FFLAGS are assigned and not accumulated; CSRs other than
FCSR are not restored on a cancel.

## 7. What is not modelled, and why

* Arithmetic of the ALU, multiplier, floating-point unit and address
  generation: data, combinational, and covered by the instruction tests. Which
  operation is selected, on what, is in `Decoder`.
* The contents of registers: which register is read is the control, and is
  what the properties speak of.
* The contents of CSRs, the FCSR copy of commit, performance counters.
* The front end (`core/bpu`: flow of predictions, target FIFO, branch re-order
  buffer, predictor tables), the instruction cache, arbiters, slices and age
  matrix of `cmn`: left to the plan. `CommitQueue` and `FetchPath` take anything the
  front end may deliver.
* 64- and 128-bit words beside the compressed ones and `Specials` in the
  comparison: the core is RV32.
* Branch prediction accuracy: any prediction is allowed in `CommitQueue`.
* `goto_err`, interrupts and exceptions: not implemented in the core (TODO in
  the repository's README).
* Generated bus nodes and SRAM models: environment of the core.

## 8. Plan

1. `PhyRegfile` with its proofs (done).
2. `CommitQueue` over `SequentialMachine`, with its proofs (done).
3. `IssueStage` composed with `PhyRegfile`, with its proofs (done).
4. The load/store unit against memory in program order, with proofs of types,
   credits, order, reports, the contents of memory and what loads return, and
   the conditions on depths and programs under which they hold (done).
5. Fetch queue and issue buffer as one sequence, with its proofs (done).
6. Decoder and disassembler compared (done).
7. The FCSR copy against speculative CSR writes.
8. The front end's flow of predictions, and the cache's MSHR file.
9. Arbiters, slices and age matrix of `cmn`.
