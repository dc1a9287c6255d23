# Formal model of rdl2arch

rdl2arch reads a SystemRDL description of registers and writes a hardware
register block in ARCH HDL. The Python program is a sequential generator; what
can go subtly wrong is above all the *hardware it emits*: bus handshakes, two
accesses and a hardware pulse that meet on one clock edge, interrupt latches,
readback, and software and hardware that work through it. Some of the TLA+
modules describe that hardware as the emitters lay it out, alone and together
with what it is used for; others describe the generator: the search for its
configuration, the walk over the register tree, the writing of its files. TLC
checks them on small instances, and TLAPS proves the central properties of both
for every design and every input. Source paths below are relative to the repository
(`src/rdl2arch/...`, `tests/...`).

## 1. Inventory

| Component | State it keeps | Operations | Interacts with |
|---|---|---|---|
| design scan (`scan_design.py`) | the flat `DesignModel`: registers, arrays, fields | `scan`, `_walk_regs`, `_scan_reg`, `_scan_field` | called by the exporter; read by every emitter |
| naming (`dereferencer.py`, `identifier_filter.py`) | none | `flat_path`, `_camel`, `filter_identifier` | called by the scan |
| validation (`validate_design.py`) | none | `validate`, `_validate_intr_field` | after the scan, before emission; raises |
| field logic (`emit_field_logic.py`) | emits statements on `<reg>_r.<field>` | write, read-side effect, hwif_in copy or OR-latch, readback concatenation | called by the register block emitter |
| register block (`emit_regblock.py`) | emits the storage, `rdata_mux`, the `seq` blocks, the interrupt outputs, the pulses | `emit_regblock` | joins field logic and cpuif |
| AXI4-Lite cpuif (`cpuif/axi4lite.py`) | `bresp_valid_r`, `rresp_valid_r`, `rdata_r` | `handshake_state`, `_seq`, `_comb` | bus initiator; `wr_fire`, `rd_fire` trigger the storage |
| APB4 cpuif (`cpuif/apb4.py`) | none | `handshake_state`, `_comb` | the same |
| package (`emit_package.py`) | none | enum, structures, `hwif_in`, `hwif_out` | the ports of the block |
| pulses (`udps/`) | none | `emit_read_pulse`, `emit_write_pulse` | a sidecar such as a FIFO |
| exporter (`exporter.py`) | two files, which outlive a run | scan, validate, emit, emit, open and write, open and write | all of the above |
| configuration and command line (`config.py`, `__main__.py`) | the directory being looked at, the `Config` | discovery, validation, precedence | the file system; calls the exporter |
| bus drivers (`tests/sim`, `tests/cocotb_sv/drivers`) | the transaction under way, edges waited | `read`, `write` | the initiators of the block |
| interrupt tests (`tests/cocotb_sv/cocotb_tests`) | where the test stands | pulse, read status, write one to clear, arm | drivers and `hwif_in` |

**Hard behaviours.** In the emitted hardware: the five AXI channels move
independently; an initiator may delay `b_ready` and `r_ready` for any time and
start the next access meanwhile; a write, a read with a side effect and a
hardware pulse reach one field at one edge, where the *textual order* of the
statements decides; array elements are driven from two `seq` blocks that
nothing orders; readback is a latch on one bus and combinational on the other.
In the generator: off-by-one errors in the readback concatenation, an address
width that is too small, name collisions, rejections that come after validation,
two files written one after the other, a search that ends too early or never.
Around the hardware: software acts on values that are some edges old, while
hardware goes on. Nothing is persisted by the hardware and no message can be
lost or duplicated on an on-chip bus, so unreliable delivery does not arise; a
reset at any time does, and so does a generator that is killed between its files.
`PROJECT.json` lists each hazard at its line.

**What makes the components correct.**

* storage: an access touches the addressed element only; a field keeps to its
  own bits; precedence at one edge is as documented;
* AXI4-Lite: every access takes effect exactly once, is answered exactly once,
  and read data is the contents before the edge that performed the read;
* APB4: the same, in the access phase and never in the setup phase;
* interrupts: a latched source survives until it is acknowledged; the output
  falls only through accesses to its own registers;
* readback: the concatenation is as wide as the bus, every field in its place;
* generator: emitted files belong together, names and addresses are injective,
  every knob takes effect.

## 2. Modules

| Module | Models | Role |
|---|---|---|
| `RegDesign` | `DesignModel` as constants `Regs`, `Fields`; elements, addresses, reset values; what validation leaves as an assumption | parameters |
| `FieldLogic` | the statements of `emit_field_logic.py` in the order of `emit_regblock.py`: one clock edge of a cell (`CellNext`), of the storage (`SeqNext`); `ReadMux`; `RegIntr` | shared operators |
| `RegisterContract` | what a block promises whatever the bus | abstract specification |
| `Axi4LiteRegblock` | block + AXI4-Lite handshake + initiator + hardware | detailed specification |
| `Apb4Regblock` | block + APB4 + initiator + hardware | detailed specification |
| `FifoLoopback` | `Axi4LiteRegblock` + a FIFO that a write pulse fills and a read pulse pops + software at both ends | composition |
| `IrqService` | `Axi4LiteRegblock` + interrupt sources, service routine and main program | composition |
| `HeldValidDriver` | the cocotb driver on an instance of `Axi4LiteRegblock` | detailed specification |
| `ReadbackConcat` | the loop of `reg_read_expr`, one iteration per step | generator algorithm |
| `DesignScan` | `scan`: declaration, walk, addresses, width; the generated names | generator algorithm |
| `ConfigLookup` | one run of `main` up to the exporter | generator process |
| `ExportPipeline` | `ArchExporter.export`, called again and again on one directory | generator process |
| `Generator` | `main`: `ConfigLookup`, then `DesignScan`, then `ExportPipeline` | composition |
| `Fixtures` | small versions of the designs in `tests/rdl` | data for TLC |
| `MC_*` | bind the constants | TLC |
| `FieldLogic_proofs`, `Axi4LiteRegblock_proofs`, `Apb4Regblock_proofs`, `FifoLoopback_proofs`, `IrqService_proofs`, `HeldValidDriver_proofs`, `ReadbackConcat_proofs`, `Generator_proofs` | theorems about the module of that name; `Generator_proofs` holds those of the lookup, the scan and the export too, as theorems of `GenSpec` | TLAPS |

**State.** `cells` is the storage: one cell `<<field, element>>` for each
`<reg>_r.<field>` or `<reg>_r[i].<field>`. A field value is the *set of its bit
positions that are one*, so `&`, `|`, `^`, `~` of the emitted code are
`\cap`, `\cup`, symmetric difference and complement within the field.
`bresp_valid_r`, `rresp_valid_r`, `rdata_r`, `wr_fire`, `rd_fire` and the bus
signals keep their names. `wtxn`, `aw`, `w`, `rtxn`, `b_owed`, `r_owed` belong
to the initiator: the write under way with the state of its two beats, the read
address on AR, and how many responses of each kind it still waits for.

**Time.** A state is one clock cycle after its signals have settled; `Tick` is
the rising edge and holds *everything* that happens at it: all `seq` blocks,
both response latches, the readback latch and the initiator's view of the
handshakes, each right-hand side reading the values before the edge. Between
edges the initiator raises valids and hardware changes `hwif_in`. `b_ready` and
`r_ready` are free at every edge. `Reset` may happen at any time.

**Order at one edge.** In a scalar register the emitter writes, in one block,
the hwif_in copy, the CPU write, the read-side effect; the last assignment
wins, so `CellNext` tests the read side first. In an array the hwif_in copy is
in the main block and the CPU accesses in a `generate_for` block of their own;
no order is defined between two blocks, so which of them wins is a
nondeterministic choice for every element (`hw_last`).

**Initiators.** `JointWrites` raises AW and W together and holds them until
accepted, as `tests/sim/axi4lite_driver.py` does. `~JointWrites` lets either
beat come first, as the AXI protocol does. Both may start an access while the
response of an earlier one is outstanding, up to `MaxOutstanding`, and read and
write at once, more than the shipped drivers do.

**Contract.** `RegisterContract` knows no handshake: a request is pending, one
edge performs it, a response is owed, at most one of each kind. `Outcomes`
says which values a cell may take at an edge. Where a read-side effect and a
write meet, one takes effect whole; an access beats hardware, except in an
array element that hardware also drives. The refinement mapping reads `wreq` off
`wtxn` (so `wr_fire` has to be the edge at which the initiator sees its beats
go), `wowed` off `b_owed > 0`, and `rdata` off the port `r_data`.

**Pulses.** `read_pulse(r)` and `write_pulse(r)` are the outputs of
`emit_regblock.py:320-330`, `wr_fire` or `rd_fire` with an address compare: high
in the cycle *before* the edge that performs the access.

`FifoLoopback` is the consumer `udps/__init__.py` names for each, around one FIFO.
Hardware delays the write pulse by one edge and then takes `hwif_out`; the FIFO's
level and head reach software by way of `hwif_in`, a register that copies it at
the next edge, and the read latch. Software reads the level, then that many
entries, and starts an access before the last is answered. `sent` is the history
of entries written that it has not got back. Two reads cannot fire at successive
edges (the response slot is in between), and that one edge is what the copies
need to catch up with the FIFO.

**Interrupt service.** `IrqService` turns the fixed sequence of
`test_interrupts.py` into processes: a service routine (`isr`) that the interrupt
output starts when the bus is idle, reads the status and writes back what it
read; a main program that writes enables and masks, pipelined, and does not run
ahead of its answers past an interrupt; sources that pulse at any time for at
least `PulseWidth` edges. `owed` is the history of sources with a
pulse that no write acknowledged.

**Cocotb driver.** `tests/cocotb_sv/drivers/axi4lite.py` does not look at the ready
signals and drops its valids one edge after the response, so its request is on
the bus at an edge after the access was performed. `HeldValidDriver` is an
initiator of its own around the block's operators (`Block`), with the loop and
timeout of each call; `write` and `read` run side by side as coroutines. It
implements `RegisterContract`, with a request pending while its call waits.

**Generator.** `DesignScan` first declares a tree node by node (`Declare`), rejects
what elaboration rejects, then walks it with an explicit list of nodes still to
visit (`todo`, the stack of the recursive generator `_walk_regs`). Names are
sequences of words (runs of lower-case letters), digits and `_`: joining, the
keyword suffix, the array index, digit by digit, and the camel case are the conversions
of the source on such sequences. Children come by address, as the compiler yields them. `Span`, the bytes a node takes, and with it `Elaborated`
say what the SystemRDL compiler lets through: siblings do not overlap, and
nothing is said of nodes further apart.
`ConfigLookup` has one step for each decision of `load_config` and one for each
directory of `find_config_file`; directories are their depth, a file is whether
it is TOML, what is a plain value, and its tables, and a value is its origin and
its truth in Python. `ExportPipeline` has one step for each stage and two for
each file, since opening truncates; `Interrupt` is an error or the end of the
process at any point, and the next export finds what it left.
`Generator` chains the three as `main` does: what the lookup resolved for
`addr_width` is what `scan` is called with, and what `scan` rejects is what the
export rejects. A part that is over is put into one fixed state; no later step
and no property reads it, so nothing is lost by that, and the state spaces of the
parts add up instead of multiplying.

## 3. Runs

| Run | Question | Result | Distinct states |
|---|---|---|---|
| `AxiIrq` | Interrupt registers, pulses of two edges at any time, a service routine and a main program that pipelines: is a pulse or a response ever lost or seen twice, is each interrupt serviced, each write answered? | pass | 33,792 |
| `AxiAccess` | Reads and writes in every interleaving on toggle, write-only, read-to-clear and read-to-set fields: is the contract kept, is every read answered? | pass | 49,152 |
| `AxiArray` | The cocotb driver on an array with hardware-driven elements, either block last: is each call one access of the contract, answered within one edge? | pass | 22,528 |
| `AxiSplit` | What survives when AW and W come apart and software writes the status at will? No unexpected response, no write applied twice, no latch or output dropped | pass | 47,360 |
| `FifoLoopback` | Entries written and read back through a FIFO: does each come back once and in order, is none popped from an empty FIFO, does a full one drain? | pass | 4,072 |
| `Apb` | Does the APB4 block keep the contract, does every transfer end, and does an interrupt latch, pulse or output go anywhere but at the end of an access phase? | pass | 218,624 |
| `Readback` | Every layout of a register: is the concatenation as wide as the bus, every field in place? | pass | 2,498 |
| `Generate` | `main` over every placement of good and bad files, switches and flags, every tree of three nodes, and exports rejected, interrupted or repeated: is the right configuration used in full, are all registers found at addresses of their own, do names stay apart that siblings keep apart, do the files fit together, does the run end? | pass | 1,504,773 |
| `AxiStickyLost` | Is a pulse kept until it is cleared? | **violated** | |
| `AxiSplitAccept` | Are AW and W accepted together? | **violated** | |
| `AxiCombReadback` | Does `combinational_readback` drive the read data from the mux? | **violated** | |
| `VariantCollision` | Has every address-decoded entry a variant of its own, also where a register's name ends in a number? | **violated** | |

Properties, in the words of the code they are about:

* `WriteResponseOwed`, `ReadResponseOwed`: the initiator waits for a response
  exactly while the block holds one ("single-outstanding", `axi4lite.py:50`).
* `NoSpuriousResponse`, `AppliedOnce`: what remains of this for split beats.
* `StickyBitsHeld`, `PulseLatched`: a latched bit is dropped only by reset or a
  completed, acknowledging access; a pulse is in the register after the edge,
  also when a read of it completes there, unless an access assigns that very field.
* `IntrHeld`: the interrupt output falls only by reset, by an access to the
  register or a companion of it, or where hardware may take it back (a source or
  enable it copies, a mask it drives). `AxiSplit` and `Apb` check the three,
  each with the initiator that is freest on its bus.
* `WriteAnswered`, `ReadAnswered`, `TransferEnds`: liveness.
* `RefinesContract`: the block implements `RegisterContract`.
* `FillsBus`, `FieldsInPlace`: the readback concatenation.
* `EntriesConserved`: what was written is in the response under way, in the FIFO,
  or strobed into it in this cycle, in order; so no write is missed or seen with
  the value before it, and a read pops exactly the entry it returns.
  `NoUnderflow`: entries software believes in are there. `FifoDrains`: liveness.
* `PulseKept`, `NoPhantomInterrupt`: a source is owed service if and only if it is
  latched (or its pulse goes on). `Serviced`: each is served, unless it stays
  disabled or masked.
* `NoTimeout`: what the cocotb driver relies on.
* `NearestFileLoaded`, `EverythingTakesEffect`, `FlagsWin`, `RunEnds`: the
  configuration; `RejectionLeavesFiles`, `PairsFit`, `SuccessIsComplete`: the
  output directory; `EveryRegisterScanned`, `AddressesDecode`: the
  scan. `FlatteningKeepsApart`: where siblings give different names, at every level of
  the tree, and none continues a regfile's (as `ch_en` does beside `ch`), the
  state variables, enum variants and hwif members of the whole design are different
  too. `OneVariantPerEntry` is the comment of `emit_package.py:12`, for all names.

Every property has a mutant in `PROJECT.json`: a plausible mistake in a mapped
definition under which TLC finds that property violated. The mutated forms stand
next to the definitions they mutate.

**Bounds.** `MaxOutstanding = 2`: one response can be held by the block, so two
is the first value at which an access waits behind an unanswered one; joint
writers never get beyond one, which is what `WriteResponseOwed` says. Designs have
two or three registers, fields of one bit and one of two bits above bit 0 (so
that slice positions matter), a bus of two or three bits, an array of two
elements; write data are chosen to hit each field with zeros and ones and to
include an address nobody decodes. The proofs remove these bounds for the
safety properties they cover. `Readback` enumerates every ascending sequence of
disjoint fields in a 4-bit register on a 6-bit bus, which has holes at the
bottom, in the middle and on top, and padding.

`FifoLoopback`: a FIFO of three one-bit entries fills, empties and refills around
the accesses under way; its writer keeps no more entries outstanding than it
holds, as the FIFO itself has no other way to refuse one. `AxiIrq`: `PulseWidth =
2` is the smallest width for which `PulseKept` holds (with 1 the first finding
below applies: a write beats the pulse at its only edge), so the run shows exactly
what the hardware demands of its sources. `AxiArray`: `Timeout = 1`, the hardest;
the source has 32. Pipelined initiators on arrays are covered by the proof of
`ImplementsContract`. `Apb`: the access types, an array and an interrupt source with
its enable in one design, as the access phase is the question for each.
`Generate`: two nested directories are a nearest, a farther and a root; one
file of each kind that `_parse` tells apart; two good builds of one design, one
build for each stage that rejects, a second design beside them. Three nodes
allow a regfile in a regfile and a register in it, or two registers that could
collide with a third. Of the names `ch`, `ch_ch` and `reg` the first two flatten alike
when a register `ch` lies in a regfile `ch`, and the last is a keyword; offsets 0, 4 and 8 let children of different regfiles touch.
Sizes 1 and 4 make the last byte of a register both its first and a later one;
arrays have two elements four bytes apart, so those of size 1 leave gaps.
`VariantCollision` needs two nodes, of the names `ch` and `ch1`.

**Fairness.** The clock keeps running, and the initiator accepts an offered
response sooner or later: weak fairness of `Tick` with `b_ready` high, and of
`Tick` with `r_ready` high, separately. The shipped drivers hold both ready
signals high from construction on (`axi4lite_driver.py:13-38`). Hardware, resets
and the start of accesses carry no fairness. APB needs the clock only.
In `FifoLoopback` software keeps polling (weak fairness of its two reads), which
is what it is there for. In `IrqService` entering the service routine is *strongly*
fair: it needs an idle bus, which the main program takes again and again, but an
interrupt preempts the main program, so it gets its turn; the acknowledging write
is weakly fair. `Serviced` is claimed for sources not left disabled or masked. `RunEnds` assumes
only that the process takes its next step. `AxiSplit` states no fairness.
`Readback` ends in a final state, hence
`CHECK_DEADLOCK FALSE`; nothing else may stop.

## 4. What the runs found

1. **A pulse is lost to a write that does not clear it** (`AxiStickyLost`,
   `emit_field_logic.py:46`). A write to a status register assigns every `woclr`
   field, `f <= f & ~wdata`, also those whose data bits are zero, and overrides
   the OR-latch of the same edge. A one-cycle pulse on `err` that coincides with
   a write clearing `rx_done` is gone, though the docstring says it "stays
   latched high until SW write-1-to-clear resets it". The conflict the docstring
   does allow, a 1 written to that very bit, is allowed by the property too.
2. **AW alone is accepted and forgotten** (`AxiSplitAccept`, `axi4lite.py:84`).
   `aw_ready` does not depend on `w_valid` and firing needs both, so an
   initiator that raises AW first completes its AW handshake while nothing
   fires; the comment promises "Accept AW+W simultaneously".
3. **`combinational_readback` breaks AXI4-Lite reads** (`AxiCombReadback`,
   `axi4lite.py:91`). The emitter drops the load of `rdata_r`, but the cpuif
   still drives `r_data` from it, against `base.py:20-22`.
4. **Two entries, one variant** (`VariantCollision`, `dereferencer.py:44`). The variant
   of element 1 of an array `ch` is `Ch1`, and so is that of a register `ch1`
   beside it: the address enum has one variant twice, with two addresses, against
   "one variant per address-decoded entry" (`emit_package.py:12`). A register `en` in a
   regfile `ch` beside a register `ch_en` meets it in the state variable and the
   hwif members as well. Nothing compares names; `FlatteningKeepsApart` says that
   comparing those of siblings, prefixes included, would be enough.

## 5. Proofs

The theorems hold for every value of the constants that meets these assumptions,
which TLC evaluates on every run that uses them:

* `BusAssumption`, `DesignAssumption` (`RegDesign`): types of the design model,
  what `validate` and `emit_regblock` reject, reset values fit their fields, no
  two fields share a bit of a word and no two elements an address;
* `AxiAssumption`, `ApbAssumption`: requests carry an address and a word;
* `ServiceAssumption`: the shape of `test_interrupts.py`: one-bit sources that
  hardware sets and a written one clears, reset to zero, without a read side
  effect; software reads the status only and may write it with any word;
* `FifoAssumption`: three registers of their own for push, level and pop; level
  and head are all that hardware drives, readable and without side effects; AW and
  W together, the latched readback; levels up to `FifoDepth` are told apart by
  the level field;
* `DriverAssumption`: a timeout of at least one edge;
* `WidthAssumption`: a register is not wider than the bus (`validate`
  rejects the others);
* `ScanAssumption`: sizes, counts and strides are positive, two digits are not printed
  alike and none is printed as `_`;
* `LookupAssumption`, `ExportAssumption`: files, flags and designs are what the
  code tells apart.

Some theorems have a hypothesis of their own, stated with them:

| Theorem | States | Hypothesis |
|---|---|---|
| `SeqNextType` | a clock edge leaves every cell within the bits of its field | |
| `ReadMuxField` | in the word read at an address each readable field shows its own cell | |
| `TypeCorrect` (AXI4-Lite, APB4, driver) | `TypeOK` | |
| `ResponsesExpected`, `ReadsAccounted`, `WritesAccounted` | `NoSpuriousResponse`, `ReadResponseOwed`, `WriteResponseOwed` | |
| `NeverAppliedTwice` | `AppliedOnce`, joint or split | |
| `StickyHeld`, `PulsesLatched`, `IntrOutputHeld` (AXI4-Lite, APB4) | `StickyBitsHeld`, `PulseLatched`, `IntrHeld`, under every initiator | |
| `ImplementsContract` (AXI4-Lite) | `Spec => RefinesContract` | joint writes, latched readback |
| `ImplementsContract` (APB4) | `Spec => RefinesContract` | |
| `ServiceIsInitiator` | `IrqSpec => Spec`: what holds of the block under every initiator holds here | |
| `PhantomFree`, `NoPulseLost` | `NoPhantomInterrupt`, `PulseKept` | `NoPulseLost`: `PulseWidth >= 2` |
| `NoEntryLost`, `NeverUnderflows` | `EntriesConserved`, `NoUnderflow`, for every depth | |
| `NoCallTimesOut`, `CallsKeepContract` | `NoTimeout`; the driver implements `RegisterContract` | |
| `BusFilled`, `EveryFieldInPlace` | `FillsBus`, `FieldsInPlace`, for every layout and width | `~AllowOverlap` |
| `NearestLoaded`, `NothingIgnored`, `FlagsAlwaysWin` | `NearestFileLoaded`, `EverythingTakesEffect`, `FlagsWin`, for every depth and every content of the files | |
| `WalkIsComplete` | `EveryRegisterScanned`, for every tree | |
| `AddressesStayApart` | `AddressesDecode`, for every tree | |
| `FlatNamesStayApart` | `FlatteningKeepsApart`, for every tree, all names and reserved names | |
| `DirectoryTyped` | `TypeOK` of `ExportPipeline` | |
| `RejectionIsClean` | `RejectionLeavesFiles`, after any number of exports | |
| `PairsAlwaysFit`, `SuccessWritesBoth` | `PairsFit`, `SuccessIsComplete`, after any number of exports | `NamesApart` |

Three hypotheses are where the code itself draws the line: `NoPulseLost` fails for
pulses of one edge (`AxiStickyLost`), the readback for overlapping fields
(`AllowOverlap`, section 6), and with one name for both files the module overwrites
the package (`NamesApart`).

**The block.** `TypeOK` is not inductive: `b_owed \in Nat` fails
after an edge at which a response is taken unless `b_owed` was at least one,
which is `NoSpuriousResponse`. That needs `wr_fire` to imply that the write is
over for the initiator, and `WriteResponseOwed` needs the converse when writes
are joint; both come from `BeatsConsistent`. `IInv` is the conjunction.
`EdgeCounts` isolates the arithmetic of the counters, `EdgeIInv` adds the
storage through `SeqNextType`, `NextIInv` has one step for each action. The
lemmas are about `ClockEdge`, the edge without what hardware drives next, which
the compositions share.

**The interrupt latches.** The argument is about the storage and lies in
`FieldLogic_proofs`, for both buses. A sticky field lives in a scalar register (`StickyIsScalar`, from
`ValidIntrField`), so only one block drives it and `StickyNext` has three cases: a
read side effect, a write, the OR-latch, which removes nothing. `StickyEdge`: a
`woclr` write removes just the bits written as one. `KeptEdge`: away from accesses
the edge drops no bit of a cell hardware only sets, and leaves alone a cell
hardware does not drive. `IntrStays`: with the interrupt field and its enable only
growing and its mask unchanged, a contribution that was there stays. What is left
to each bus is `HitsComplete`: an access that hits a cell is one the initiator
sees complete at that edge.

**`ImplementsContract`.** The contract's copies of the design operators equal the
module's own (`SameCells`, `SameAccess`, `SameEffect`, `SameReadMux`);
`OutcomeAllowed` shows each cell's next value to be one the contract allows;
`RefinesTick` maps the clock edge to `Edge(FiringWrite, FiringRead)`, with `wowed`
and `rowed` read off the latches through `WriteResponseOwed` and
`ReadResponseOwed`; the other steps ask, drive, reset or stutter. The argument
for APB4 has the same shape; its invariant adds `TransferOnBus`, that the
direction and phase on the bus are those of the pending transfer, which is why
an edge without an access leaves the request pending.

**Interrupt service.** A pulse at an edge is latched unless a write fires at it.
That write takes the response slot, so none can fire at the next edge, which
latches a pulse that lasts two. `PulseInv` says so: an unlatched source whose pulse
is at least one edge old finds `bresp_valid_r` high. `PhantomFree` needs no such
argument and holds for every width. `ServiceIsInitiator` shows each
step of the composition to be a step of the block's own specification.

**FIFO.** Software's level and head are copies. `CopiesCurrent`: while no read
response is out, the level register holds a level not above the FIFO's, and the
head register holds its head if software still wants entries. The edge of
a pop makes both stale and offers the response; the copies catch up at the edge
after, before which no further read can fire. `AskedFor` ties
what software waits for to what is on the bus, `RoomForWrite` bounds the
entries under way. `EdgeConserves` then compares `sent` with response, FIFO and strobe.

**Cocotb driver.** `CallAt` says for each phase of a call what the block holds for it.
A request that stays up one edge too long is up only in the phase `consuming`, where
the response slot is taken, so it cannot fire again; and as the slot is free when
a call begins, it waits for one edge only.

**Readback.** `Below`, the bit at which a part ends, is a recursive function, whose
value for every argument would need induction over data. The invariant avoids it:
`Laid` asserts *some* table `lower` of positions in which each part ends where the
next begins. Each iteration extends the table by a gap (`GapBelow`) or a field
(`LayBelow`), the padding goes on top (`PadAbove`), and `BelowIsLower` shows once, at
the end, that such a table can only be `Below`.

**Walk.** `WalkedTo(V)`: the parent of a node visited or waiting is visited, every
top-level node and every child of a visited regfile is visited or waiting, and no
node is both. At the end nothing waits; were a node unvisited, the least one
would have a parent that is declared before it, hence visited.

In the readback, the walk, and where the children of a node are put in order, "the least one"
comes from `NatLessThanWellFounded` and `WFMin` of the library (`LeastNumber`),
which do not take an operator as parameter as the induction theorems do.

**Recursion over the tree.** `Span`, `AbsoluteAddress`, `Path`, the camel case and
`Pow2` are recursive functions. That such a function satisfies its defining
equation is `CourseOfValues`: if the value at a point depends only on values at
points of smaller rank, there is a function that satisfies the equation. It is
stated for functions, not operators, so the provers can use it, and
proved by the least rank at which it would fail. Spans have the rank of a node
counted from the last declared, paths and addresses from the first, since a
parent is declared before its children. Induction is by the least counterexample
throughout.

**Addresses.** A node lies within its parent, as the parent's span reaches to its
last child. `AllRelated`: of two nodes one is inside the other, or their bytes are
apart; were there a pair of which this is false, take one whose later node is
first: its parent is related to the other, as the pair is earlier, and
elaboration keeps siblings apart.
Nothing is inside a register, so registers are apart, and so are elements a stride
apart. A tree has finitely many registers and bytes, so a last byte exists;
`BitLengthIs`, `Pow2Grows` and `SmallRemainder` take it through the bit length to
an address that survives its width unchanged. That the width on the port is the
derived one, or an override not below it, is `WidthInv`, an invariant that goes
with `ScanInv` and, for what the lookup passes on, `LookupInv`.

**Names.** Nothing is assumed of the names, `_`, digits and reserved ones included.
A flattened name *passes through* a node when what is put above the node and what
the node gives itself begin it (`Through`). It passes through one of siblings at
most, since their names are apart and none continues a regfile's (`OneOfSiblings`),
and through the parent of a node it passes through (`ThroughParent`); so the nodes
it passes through are one below the other (`OneBranch`, by the least node for which
that would fail), and a register has none below it (`NamedApart`). What is left
is that each conversion has the shape `NamedApart` asks for (`Named`): paths are joined
(`JoinedNamed`), the camel case treats what is before a `_` and behind it alike
(`CamelJoins`), and what is put behind, the index and the field, tells the
element and the field (`MemberEndsApart`; `DecimalsApart`: no two numbers have the
same digits).

**Configuration.** `NearestFileLoaded` speaks of the end of the run; what carries it
there is that the directories the walk has left hold no file (`LookupInv`, which
also keeps malformed files out of the later phases and ties each resolved knob to
`Resolve`). `LookupInductive` has one step for each step of `main`, and one for the
step at which a finished part is put away.

**Output directory.** `ExportInv` says what is on disk at each stage of an export
(`OnDisk`) and that outside the files under way everything not torn fits
(`OthersFit`). An export that touches a torn pair mends it only by finishing, so
`torn` shrinks in `WriteModule` alone. `DirectoryTyped` and `RejectionIsClean` are proved apart from
it, as they do not need `NamesApart`: before the first file is opened there is
nothing to say of names.

**Model-checked only.** Liveness (`WriteAnswered`, `ReadAnswered`, `TransferEnds`,
`FifoDrains`, `Serviced`, `RunEnds`): it rests on fairness, whose
definition by `ENABLED` the prover does not treat. What a recursive definition computes for every
input can be proved where it is a function (above); an induction rule that takes
an operator cannot be used.

## 6. Not modelled, and limits

* `w_strb`, `pstrb` and the `prot` signals are declared and never read by the
  emitted code: a partial write replaces the word.
* `b_resp`, `r_resp`, `pslverr` are constant zero, also for addresses nobody
  decodes.
* Reset is a step that may happen at any time. The three reset styles only choose
  the type of one port (`emit_regblock.py:21-23`); how they differ under a gated
  clock is ARCH's.
* The pulses are checked behind AXI4-Lite, where an access can wait for its
  response slot; on APB4 an access never waits. `IrqService` and `FifoLoopback`
  have no reset: it would drop the latches and the software's notes with them.
* `--no-config` is tested before `--config` and cancels it without a word
  (`__main__.py:101`), as does the environment variable (`config.py:152`).
* Equal package and module names make the module overwrite the package
  (`exporter.py:73`), and the export returns normally; hence `NamesApart`.
* The words of names are in lower case; capitals, which `_camel` leaves alone inside a
  word, are left out (`ctrl` and `Ctrl` are one variant). Names of the emitted module
  itself are too: a register called `rdata` takes the name of the read latch.
* What argparse rejects, and the two exceptions of the exporter as `main` shows
  them (a traceback), are left out. Two generator runs at once in one directory
  are not modelled; neither is `start=`, a parameter only Python callers use.
* An `addr_width` override below the derived width truncates addresses; the code
  accepts it and `AddressesDecode` does not speak of it.
* Designs where a read-only register shares the address of a write-only one, or
  a companion field has another width than its interrupt field, are outside the
  bus models. Within a register,
  `ReadbackConcat` with `AllowOverlap = TRUE` lets a read-only field lie over a
  write-only one, as SystemRDL does: the loop emits both
  (`emit_field_logic.py:117`), and `FillsBus` fails. The runs and proofs are for
  layouts without overlap.
* Timeouts of the simulation drivers, the wording of messages and the layout of
  the emitted text are left out.
* The ARCH compiler and the SystemRDL compiler are external; of the former only
  non-blocking assignment and last-assignment-wins within a block are used.

## 7. Plan

Done: `RegDesign`, `FieldLogic`, `RegisterContract`, `Axi4LiteRegblock`,
`Apb4Regblock`, `ReadbackConcat`; the compositions `FifoLoopback`, `IrqService` and
`HeldValidDriver`; of the generator `DesignScan`, `ConfigLookup`, `ExportPipeline`
and their composition `Generator`; all runs of section 3. Proved: every safety
property the passing runs check, state and action properties alike, and the three
refinements of the register contract.

Next:

1. The read-only register over the write-only one, once it is settled what the
   SystemRDL compiler lets through.
2. Names that differ in case only, and those of the emitted module itself.
3. Liveness, when a prover for `ENABLED` is at hand: the steps that WF1 needs for
   `TransferEnds` and `ReadAnswered` follow from the inductive invariants above.
