# A verification project for OrinSwitchCli

OrinSwitchCli is Marvell's UMSD driver (`src/UMSD_v7.0.0/src`, `dev/`) for Ethernet
switches of the 88Q / 88E families, with the MCLI command line (`host/`) on top of it.
One process loads the driver for a device and serves a command line over telnet or on
the console.  Every command ends in register accesses to the switch, over an SMI bus,
over SMI in multi-chip mode, or in Ethernet frames to the switch's remote management
unit (RMU).

These TLA+ modules model the parts of it where order matters: locks, register
protocols, tables kept in the switch, frames that are lost or late, half-finished calls,
and several clients.  TLC checks them on small instances; TLAPS proves, for every value
of the constants, most of the safety properties TLC checks (section 4).

`U/` below stands for `src/UMSD_v7.0.0/`.  The device family followed into `dev/` in full is
Spruce (88Q6113, `U/src/driver/msdSysConfig.c:225-234`); of Peridot, and of Topaz where it
differs from it, the operations that wait for the switch are followed too.

## 1. Inventory

| Component | State | Operations | Hard behaviour | What makes it correct |
|---|---|---|---|---|
| **Semaphores** (`U/src/platform/msdSem.c`, BSP in `U/host/linux/libMRegAccess/Wrapper.cpp`) | the BSP's counting semaphores, static `refCnt`, `dev->HWSemaphore`, the switch's semaphore register | `msdSemTake`, `msdSemGive`, `msdEnableHwSemaphore`, `msdDisableHwSemaphore` | threads race on `refCnt`, hosts race on the register, callers ignore the result of a take, the Linux BSP does not wait | threads exclude each other, hosts exclude each other, nesting is counted, nobody waits for ever |
| **Driver load and unload** (`U/src/driver/msdSysConfig.c`, `U/host/src/init.c`) | `sohoDevsPtr`, `devEnabled`, 15 semaphores a device | `msdLoadDriver`, `msdUnLoadDriver` | creation fails half way, identification fails, the BSP runs out of semaphores | a loaded device has its semaphores, a failed load is undone, an unload can be followed by a load |
| **Multi-chip SMI** (`U/src/driver/msdHwAccess.c:64-193, 1640-1765`) | command and data register, `multiAddrSem` | `msdGetAnyReg`, `msdSetAnyReg` over `msdMultiAddrRead`, `msdMultiAddrWrite` | an access is several bus accesses; the switch is slow; loops give up; bus accesses fail | an access is atomic; it returns |
| **RMU** (`U/src/driver/msdHwAccess.c:1220-1625`, `U/host/src/rmuPcap.c`) | `reqSeqNum`, one raw socket, frames under way | `msdRmuRegRead`, `msdRmuRegWrite`, `send_and_receive_packet` | lost, late, short and foreign frames; sequence numbers wrap; clients share the socket | an access takes the answer to its own request |
| **Field and extended registers** (`U/src/driver/msdHwAccess.c:200-500`) | none | `msdSetAnyRegField`, `msdSetAnyExtendedReg`, ... | two accesses that are not one | no update is lost, no half value is used |
| **Spruce address table (ATU)** (`U/dev/spruce/src/api/Spruce_msdBrgFdb.c`) | ATU registers and table of the switch, `atuRegsSem` | `Spruce_gfdb*`, `Spruce_atuOperationPerform` | operands in shared registers, operations that finish later, learning and ageing meanwhile | operations are atomic; find finds |
| **Spruce E-CID table, VTU, STU** (`Spruce_msdEcid.c`, `Spruce_msdBrgVtu.c`, `Spruce_msdBrgStu.c`) | registers with operands, a command and an answer; two semaphores | load, purge, flush, search, violations, modes | tables share registers and semaphores; settings share a register with commands | a command has its call's operands, an answer its call's command; settings survive |
| **Spruce TCAM, ARP, range check, comparator, PIRL, RMON, EEPROM, LED, policy, queue, trunk, PTP, Qbv** (`U/dev/spruce/src/api/`) | the same, and registers with a pointer | the same | blocks of pages shared by four tables, loops that give up, semaphores taken late or not at all | the same |
| **Spruce PHY access** (`Spruce_msdHwAccess.c`, `Spruce_msdPhyCtrl.c`) | SMI PHY registers, the page of a PHY | indirect reads and writes with a busy bit | several accesses, no semaphore | the same |
| **Port tools of the CLI** (`U/host/src/customize.c`) | none; the switch's registers | `setPhyMode`, `getPhyMode`, `vlan bind`, `vlan reset` | sequences of up to 24 accesses without a lock, ignored results | what the user is told is so |
| **CLI servers and commands** (`U/host/src/cliCommand.c`, `apiCLI.c`, `main.c`) | client sockets | accept, fork or thread per client, parse, print | clients run at the same time | as the parts below |
| **Other Spruce APIs** (most of `Spruce_msdPortCtrl.c`, `Spruce_msdSysCtrl.c`, `Spruce_msdQav.c`) | the switch's registers | single accesses and argument checks | a field is read and written back | - |
| **Peridot and Topaz** (`U/dev/peridot`, `U/dev/topaz`) | as Spruce; an integrated processor (IMP) | as Spruce; PHY functions that change the page | as Spruce; the page is to be put back | as Spruce |
| **Other device families** (`U/dev/oak`, `fir`, `bonsai`, `bonsaiz1`, `amethyst`, `agate`, `pearl`) | as Spruce or Peridot | as Spruce or Peridot | as Spruce or Peridot | as Spruce or Peridot |
| **Dispatch, utilities, USB and MDIO libraries** | none of their own | forwarding | none | - |

How they interact.  An API call goes from the CLI through the dispatch tables to the
family's function.  That takes the table's semaphore, makes a number of register accesses
through `msdGetAnyReg` / `msdSetAnyReg` and gives the semaphore.  Each access takes and
gives `multiAddrSem` around the bus protocol.  Both kinds of semaphore go through
`msdSemTake`, which, when the hardware semaphore is enabled, first takes the switch's
semaphore register for the host.  On Linux a process is forked for each telnet client
*after* the driver is loaded (`U/host/src/cliCommand.c:398`): the semaphores, `refCnt` and
`reqSeqNum` become copies, the switch and the socket stay shared.  On Windows the clients
are threads of one process.  The models have both: `ProcOf` assigns threads to processes.

## 2. Modules

| Module | What it is | Extends / instantiates |
|---|---|---|
| `Locks` | **abstract**: nested locks, one level of table semaphores above `multiAddrSem` | |
| `MsdSem` | `msdSemTake` / `msdSemGive`, line by line between accesses; implements `Locks` | `Locks` by `INSTANCE` |
| `MCMsdSem` | instances for TLC | `MsdSem` |
| `MsdSemProofs` | type correctness, mutual exclusion, no circle of waits, refinement, counting | `MsdSem`, TLAPS |
| `RegFile` | **abstract**: registers with atomic read and write | |
| `SmiMultiChip` | register access through the command and data registers, one action per bus access; implements `RegFile` | `RegFile` by `INSTANCE` |
| `MCSmiMultiChip` | instances for TLC | `SmiMultiChip` |
| `SmiMultiChipProofs` | type correctness, refinement, no overrun, bounded accesses | `SmiMultiChip`, TLAPS |
| `RegQueue` | **abstract**: a queue of register accesses, executed in order and once at most | |
| `RmuTransport` | RMU register access over frames, a socket and a switch that serves requests in order; implements `RegQueue` for one client | `RegQueue` by `INSTANCE` |
| `RmuTransportProofs` | own and current answers, refinement | `RmuTransport`, TLAPS |
| `DeviceTable` | **abstract**: loads and unloads that happen at one moment, all or nothing | |
| `DriverLife` | load and unload of several devices over the BSP's semaphores; implements `DeviceTable` over a BSP that keeps its contract | `DeviceTable` by `INSTANCE` |
| `DriverLifeProofs` | every semaphore is accounted for, refinement | `DriverLife`, TLAPS |
| `Atu` | the switch's address table and what each ATU operation does to it | |
| `AtuTable` | **abstract**: address table operations that happen at one moment | `Atu` |
| `SpruceAtu` | `Spruce_gfdb*` over the ATU registers, one action per register access; implements `AtuTable` | `Atu`, `AtuTable` by `INSTANCE` |
| `MCSpruceAtu` | instances for TLC | `SpruceAtu` |
| `SpruceAtuProofs` | type correctness, refinement, finds | `SpruceAtu`, TLAPS |
| `RegisterUnit` | threads on a unit of the switch, for any catalogue of operations written as programs of steps; the rules such a program must keep | |
| `UnitPrograms` | the steps programs are made of | |
| `SpruceUnits`, `PeridotUnits` | the operations of the families as programs | `UnitPrograms` |
| `MCUnits` | both catalogues as an instance for TLC; which operations keep the rules | `RegisterUnit`, the catalogues by `INSTANCE` |
| `RegisterUnitProofs` | programs that keep the rules keep out of each other's way | `RegisterUnit`, TLAPS |
| `Customize` | the CLI's port tools, access by access, each access in two halves | |
| `MCCustomize` | instances for TLC | `Customize` |
| `CustomizeProofs` | what one client is told is so | `Customize`, TLAPS |

Each module's `pc` is the place of a thread in the C function; the actions carry the name
of what the code does there.  A value that is a local of the C function is put back when
the function returns, because nothing can see it any more.  Definitions that start with
`Mut` are deliberate bugs: for each property there is one that breaks it, which shows that
the property depends on the code.

### MsdSem

Actions `TakeCall`, `TakePoll`, `TakeClaim`, `TakeCheck`, `TakeInc`, `TakeIncStore`, `TakeSw`
and `TakeError` are the steps of `msdSemTake` (`msdSem.c:140-216`), `GiveCall` to `GiveError`
those of `msdSemGive` (`238-279`).  `refCnt` is a plain static variable, so its update is a
load and a store.  The semaphore register keeps the first value written to it until 0 is
written; that is what the code's read-back relies on.  Table semaphores are taken first,
`multiAddrSem` innermost (`MayTake`, `MayGive`), as in every caller.  `entered` is what a
thread believes it has, `got` what the BSP granted: callers ignore the result.
`Waiting`, `Toggling` and `Failing` are sets of processes, so that an instance can put a
well-behaved host beside one that is not.  Refinement mapping: a thread holds in `Locks` what it
was granted (`got`); `Sound` are the processes whose BSP waits and whose accesses to the semaphore
register succeed, the only ones `Locks` is claimed for.

### SmiMultiChip

`Call`, `Take`, `Give` are `msdGetAnyReg` / `msdSetAnyReg`; `Poll`, `PollTimeout`, `WriteData`,
`WriteCmd`, `FetchData` the bodies of `msdMultiAddrRead` and `msdMultiAddrWrite`; `IoError` a
failed bus access, whose write may still have arrived.  `Execute` is the switch.  Registers
in `Bypass` (those at address 0x15) are accessed without `multiAddrSem` (`msdHwAccess.c:159`).
Refinement mapping: a write the switch has accepted counts as done (`Visible`), a thread is
in its abstract access until it gives `multiAddrSem`.

### RmuTransport

`Call` builds the request with the next sequence number, `Send`, `Recv`, `SendError` and
`RecvError` are `send_and_receive_packet` (raw-socket build, `rmuPcap.c:242-373`).  A frame is
told apart by its destination (`own`), length (`full`) and sequence number, as the loop does.
`ForeignTraffic` puts frames that answer no request into the socket.  The filter lets them pass when
they carry the device number (`rmuPcap.c:181-215`) and the loop compares the sequence byte and
the first octet of the destination only (343-351), so a foreign frame can be taken for the answer:
`own`, the sequence number and the data of a foreign frame are arbitrary, and the access then
returns `MSD_OK` with that data (`TookForeign`).  The field `foreign` of a frame is read by the properties,
never by the driver's actions.
Refinement mapping: the requests still queued when their access returns, given up or deceived by a foreign
frame (`Stray` of `RegQueue`), are the late ones (`Late`); the present access is executed when the switch has served its request, and
lost when neither its request nor its answer is under way (`Phase`).
`Serve`, `ForeignTraffic` are the switch.  `drop_cnt` counts the wanted frame too (`Recv`).

### DriverLife

`LoadCall` to `CreateNext` are `msdLoadDriver`, `UnloadCall` to `DeleteFails` `msdUnLoadDriver`,
which also undoes a load that runs out of semaphores.  The identification loop over the
base addresses is `IdKnown`, `IdElsewhere`, `IdFails`.  `bsp` is chosen once: `"contract"` returns
NULL when it has no semaphore, as `msdSem.c:38` asks; `"linux"` counts up and returns -3.
Refinement mapping: a device has its semaphores from the moment it is enabled to the end of its
unload (`Owned`), what a load has created before it is enabled is still free (`Created`), and a
load has failed when it begins to undo (`Returned`).  What exists otherwise is lost (`Lost`): the
`multiAddrSem` of loads that could not read the identifier.

### Atu, AtuTable, SpruceAtu

`Atu` has entries, requests and their effect on the table; it stands for the hardware and
is written from what the driver writes into and expects from the registers.  `SpruceAtu`
has one action per register access of `Spruce_atuOperationPerform` (`Spruce_msdBrgFdb.c:2069-2357`)
for load/purge, GET_NEXT, flush and move, and `ReturnOther`, `ReturnNext`, `ReturnFind` for what
the `Spruce_gfdb*` functions make of the answer.  MAC addresses are `0 .. LastMac`, the last
being the broadcast address.

The data register of a load and of GET_NEXT is an extended one: the state and most ports are in its lower
half, the rest (`HighPorts`) in an upper half that is accessed separately, and of the two accesses only
the second one's result is returned (`msdHwAccess.c:374-388, 450-464`).  A load whose upper half is lost
goes on and loads the entry with ports some other access has left there (`WriteHalfData`); a GET_NEXT whose
lower half is lost returns `MSD_OK` and an entry of state 0 (`FetchHalf`).  `torn` remembers which calls this has
happened to; `AtuTable` has it as well (`Tear`, `HalfAnswer`, `AsDone`) and so says how far the damage
goes: it stays within the entry that is loaded and the answer that is returned.

### RegisterUnit and its catalogues

Most of what the API does to the switch has one shape: registers with operands, a command
that sets a busy bit, an answer when the bit is clear, a semaphore around it all.  Some
180 functions of three families differ in the order in which they do this, and the order is
what goes wrong.  So the order is data: `Program` gives for an operation the sequence of its
steps - `take`, `give`, `wait` (a loop on the busy bit), `test` (one look at it), `poll` (a loop
that goes on when it gives up), `put` and `cmd` (writes, of operands and of the command), `read`
(the first half of a read and write back), `get` and `look` (an answer, a register behind a
pointer), `putHalf` and `getHalf` (the first of the two accesses to an extended register), `stop` (a
return that depends on what was read).  A step says what it writes and what it needs to find.
`RegisterUnit` has an action for each kind of step, `Fail` and `FailLate` for an access that fails at
any of them (in the second case after it has reached the switch) and ends the call, `Lose` for the first
access to an extended register, whose failure is overwritten with the second one's result
(`msdHwAccess.c:374-388, 450-464`): the call goes on, and `torn` remembers what it has lost; and
`Execute` for the switch.  A *unit* is the set of operations that share registers: the VTU and the
STU; the ATU and, when it is split, the E-CID table; the TCAM, ARP, range check and comparator
tables; PTP and Qbv; and so on.

The catalogues `SpruceUnits` and `PeridotUnits` are read off the C functions, one definition a
function, families of functions that differ in their operands only sharing a helper
(`vtuOperationPerform`, `setField`, `setWide`).  A function that takes no semaphore, or takes it late,
is a program without `take`, or with a late one.  The value `"own"` is what the call at hand is about,
`"saved"` what it has just read, `"found"` what it has read at first and puts back at last.  Of the bins that
the statistics functions go through, one is in the program.

Three rules are read off the programs; they are statements about programs, not about behaviours, and
`RegisterUnitProofs` shows that they suffice:

* `Paired`, for every operation: a semaphore is taken once before it is given, given once after it is
  taken, and not kept.  A function without semaphore keeps this rule by having none.
* `Careful`, for the operations the properties are claimed for (`CarefulOps`): what is written is written
  inside the semaphore and after a wait, a command finds each operand set by this call, an answer is read
  after a wait that follows the command, a register that is read and written back was not changed in
  between.
* `Sheltered`, for the same operations: *no* operation on their unit, careful or not, gives a command or
  writes a register they work with without the semaphore.

So an operation that takes the semaphore properly is still not claimed where another function uses its
registers without: `gsysSetTrunkMaskTable` and `gsysGetTrunkMaskTable` beside `gsysSetHashTrunk`, PTP and AVB beside
Qbv, the E-CID table and the split ATU beside the entry counts, Peridot's `gphy` functions beside the PHY accesses
that its driver offers without semaphore (`msdDevObj.c:384-387`).  `MCUnits` has these units twice: in the
families `"spruce"` and `"peridot"` with all their functions, and, for a program that does not call the
functions without semaphore, as `"spruce locked"` and `"peridot locked"` without them; an operation is a name and its
family.  Of Spruce's PHY functions, none of which takes a semaphore, nothing is claimed but that they have
none.  `Classified` in `MCUnits` says that each operation not claimed breaks a rule; section 3 says what
then happens.

### Customize

A command is the sequence of its register accesses (`Accesses`); `First` and `Second` are the
two halves of an access to an extended register, `FirstFails` and `SecondFails` their errors,
of which only the second one's is returned.  The switch is taken to execute an SMI PHY
command before it answers the next access, since the code never looks at the busy bit.

## 3. What is checked

| Run | Question | Instance |
|---|---|---|
| `SemThreads` | Are the semaphores of a process locks, can its threads wait for them in a circle, and does every operation end? `TypeOK`, `SwMutex`, `NoCircularWait`, `SemaphoresAreLocks` (refinement), `OperationsEnd` | 1 process, 2 threads, 2 table semaphores and `multiAddrSem`, hardware semaphore on; 28 thousand states |
| `SemHosts` | Is a host's `refCnt` right, and does it release the register exactly at its outermost give, whatever another host does? `CountsNesting`, `IdleReleasesHw`, `ReleasedByOutermost` | 2 processes on SMI and RMU that enable and disable the hardware semaphore; the second has a BSP that does not wait and register accesses that fail; 190 thousand states |
| `SemReadback` | Do two hosts exclude each other? **No** (`HwExclusive`) | 2 processes, nothing fails |
| `SmiThreads` | Is an access through two shared registers atomic, does nobody disturb a running command, does every access return, within a bound? `TypeOK`, `AtomicAccess` (refinement), `NoOverrun`, `BoundedAccess`, `AccessReturns` | 2 threads, 2 registers, 2 values, polling bound 2, failing bus, slow or stuck switch; 27 thousand states |
| `RmuOneClient` | Does an access that returns `MSD_OK` on an answer of the switch have the answer to its own request, and is it current? Are accesses executed in order, those given up or deceived by a foreign frame included? `TypeOK`, `OwnAnswer`, `AnswerIsCurrent`, `InOrder` (refinement) | 1 client, 2 registers, 3 sequence numbers, queues of 2, at most 2 accesses in a row without their answer, losses, errors, foreign frames that agree in the first byte of the destination, with any sequence number and data; 6.5 million states |
| `RmuForked` | And with two clients forked from one process? **No** (`OwnAnswer`) | 2 clients, a wire that loses nothing |
| `DriverLoad` | Do loads and unloads in any order leave devices with semaphores of their own? Over a BSP that keeps its contract, are they all or nothing, and do they fail only when they must? `TypeOK`, `ContractUsable`, `NeverShared`, `FailedLoadFreesAll`, `UnloadCleansUp`, `LoadsAreAtomic` (refinement) | 2 devices, one of which may not be identified, 3 semaphores each, a pool of 5, both BSPs; 0.9 million states |
| `DriverLinux` | Is a device loaded over the Linux BSP usable? **No** (`LoadedUsable`) | the real numbers: 15 semaphores, a pool of 14 |
| `AtuThreads` | Are address table operations atomic although they are many register accesses, finish later, fail half way, and the switch learns and ages? Does a find see an entry that is there? Do calls return? `TypeOK`, `TableAtomic` (refinement), `FindSees`, `CallsReturn` | 2 threads, a load, a search, a flush and a find, 3 addresses, learning, a port in the upper half of the data register, whose halves can be lost; 396 thousand states |
| `AtuFind` | Does find report only entries that are there? **No** (`FindExact`) | every find over every table that loads, purges and moves of 3 addresses and 2 ports can make |
| `UnitThreads` | Do the operations of the families keep out of each other's way where the code makes them? The semaphore is held from take to give however a call ends. Of the operations that keep the rules: no command or operand is written to a busy unit, a command has its call's operands, an answer its call's command, settings survive, what a call changes for its own time is put back. Every call returns, but where commands are given without the semaphore. `TypeOK`, `SemPaired`, `NoOverrun`, `OwnOperands`, `OwnAnswer`, `PutBack`, `SettingsKept`, `CallsReturn` | 2 threads on each of 43 units (20 of Spruce, 4 of Spruce without the functions that take no semaphore, 13 and 3 of Peridot, 3 of Topaz; the largest in pieces), any access may fail and any first half be lost; 262 thousand states |
| `CliOneClient` | Is what the user is told true? `TypeOK`, `ToldModeIsSet`, `NoStrayWrite`, `VlanIsDone` | 1 client, 3 ports, set and get with failing accesses, bind and reset without; 1.8 million states |

### Disagreements between code and documentation

* **`SemReadback`** - `msdSem.c:193` takes a read-back of 0 for success.  A write that found
  the register held has no effect; if the other host releases it before the read-back, this
  host goes on without having the semaphore, and the other one claims it again.
* **`RmuForked`** - `msdHwAccess.c:131` promises "The read register's data."; forked clients
  number their requests alike and read from one socket, so that each may take the other's
  answer and return another register's value with `MSD_OK`.
* **`DriverLinux`** - `msdSem.c:38` promises "MSD_SEM if success. Otherwise, NULL".  The Linux
  BSP has 14 semaphores and returns -3 for the fifteenth, which passes the test against 0.
* **`AtuFind`** - `Spruce_msdBrgFdb.c:740` says that `found` is true "if the appropriate entry
  exists"; the branch for another address at 820 does not return, and find reports the next
  entry whatever its address.

### What other instances show

The limits of the properties, seen by changing one line of a configuration:

* `SemThreads` with `Waiting = {}` (the Linux BSP, for which `OS_WAIT_FOREVER`, 0, is a deadline
  in the past: `Wrapper.cpp:88`) or with `Failing = {p1}`: `SwMutex` fails.  A take that was not
  granted is followed by a give that is a post.
* `SemThreads` with a claim that a thread inside has its host's value in the semaphore register, or that
  `refCnt` is 0 when nobody is inside: both fail with two threads in a process.  A give that has counted
  to 0 clears the register after another thread has found it taken, and of two updates of `refCnt` one
  may be lost (`msdSem.c:172, 255`).  `CountsNesting` is therefore about threads alone in their process.
* `SmiThreads` with `Bypass = {hwSemaphore}`, or with a process for each thread: `NoOverrun` and
  `AtomicAccess` fail.
* `DriverLoad` with `FailedLoadFreesAll` stated of devices in `Unknown` too: it fails, because the
  returns at `msdSysConfig.c:125` and `282` do not delete `multiAddrSem`.  With `UnloadCleansUp`
  stated of the Linux BSP too: it fails, because the missing semaphore cannot be deleted.
* `RmuOneClient` with `OwnAnswer` or `AnswerIsCurrent` stated of every access that returns `MSD_OK`: both fail
  when a foreign frame has the present sequence number and the adapter's first octet.
* `AtuThreads` with `FindSees` stated of torn calls too, or with `AsDone(r, tear) == {r}` in `AtuTable`: both fail.
  A find whose answer has lost its lower half hands over an entry of state 0, or, for the broadcast
  address (with `RaceCalls` about that address), reports none; a load whose upper half was lost is not the
  load that was asked for.
* `RmuOneClient` with deadlocks checked: after a lost frame the client is in `recv`, which has no
  timeout, holding `multiAddrSem`.  `RmuForked` likewise, after one client has received and dropped
  the other's answer.
* `UnitThreads` with one more operation in `CarefulOps`:
  - `SettingsKept` fails for the three operations of the STU, in every family: they write the command
    register without the VTU mode that is kept in it (`Spruce_msdBrgStu.c:609`).
  - `OwnAnswer` fails for `gvtuGetViolation` in every family (the member is read after the give,
    `Spruce_msdBrgVtu.c:867`) and for `rcRead` and `rcGetNext` (a page is read without waiting for the command
    that fetches it).
  - `OwnOperands` fails for Spruce's `tcamFlush`, `tcamRead` and `tcamGetNext`: they rely on block 0,
    which a search of the ARP, range check or comparator table that finds nothing leaves selected
    (`Spruce_msdArp.c:797`).
  - `NoOverrun` fails for the ATU's operations in split mode, `EEPROM_Read`, `setSMISetup`, `pointGet`,
    `todStore` (all write before they have waited), `tcamEgrFlush`, `arpFlush`, `rcFlushAll`, `rcFlushEntry`,
    `compFlushAll`, `compFlushPort` (write while the flush executes), `gpolicySetMgmtCtrl` (its loop gives up
    and goes on), Peridot's integrated processor (never waits) and Topaz's `statsFlush` (two commands in
    a row).
  - Both `NoOverrun` and `OwnAnswer` fail for `todCapture`, `gpolicyGetMgmtCtrl` and `impReset`.

  and, because a semaphore is missing:
  - `NoOverrun` fails for every PHY function (`Spruce_msdHwAccess.c:443-827`), and with it `OwnOperands` for those that
    write, `OwnAnswer` for those that read; so it does for Peridot's (`Peridot_msdHwAccess.c:268-404`), and for the `gphy`
    functions beside them: `gphyGetIntStatus` reads from another page than it has selected.
  - Both `OwnOperands` and `OwnAnswer` fail, with `NoOverrun`, for `atuGetStats` and `gecidGetEntryCount`.
  - `NoOverrun` fails for `setHash`, and `SettingsKept` for `setMask` and `getMask` beside it: they write back a
    hash that has been changed since they read it (`Spruce_msdSysCtrl.c:268`).
  - `NoOverrun` fails for Qbv and for the operations of PTP and AVB beside it, with `OwnOperands` for those that
    write and `OwnAnswer` for those that read (`Spruce_msdSysCtrl.c:1421`, `Peridot_msdSysCtrl.c:1838`).

  None of these contradicts a sentence of the documentation, so they are not listed as disagreements;
  whether they hurt depends on what the hardware does with a write while it is busy.
* `CliOneClient` with two clients: `NoStrayWrite` and `ToldModeIsSet` fail, since nothing locks a
  sequence of accesses to the SMI PHY registers.  With `"reset"` in `Failing`: `VlanIsDone` fails,
  since the results of these accesses are not looked at.

### Bounds, and why they are enough

* Two threads and two processes: the hazards are between a pair (one inside, one coming).  The
  theorems of section 4 remove this bound, and those of every other constant, for the safety
  properties; what it limits is liveness.
* `MaxCnt = 4`: `refCnt` goes to 2 in any nesting of the code; wrapping below 0 is seen as 3.
  `MaxPosts = 2`: a semaphore posted once too often is seen, more is not told apart.
* `AccessLoop = 2`: a loop goes round, succeeds at the last attempt, and gives up.
* `SeqMod`, `MaxFails`: the number of accesses given up in a row is below the number of sequence
  numbers (`MaxFails < SeqMod`), which stands for fewer than 256 in a row; a wrap with old answers
  still queued is reached all the same, because numbers also go round with successes in between.
  `Limit = 3` stands for the drop limit, `NetCap`, `RxCap` for the queues; a full receive queue drops.
* `Settings = {"mode", "split", "hash"}`: the fields that share a register with commands or operands
  and stay as they were set: the VTU mode, the split of the ATU, the trunk hash.  A field holds a
  thread's value, the value an earlier call has left (`Past`) or a named one of the programs; what
  the values mean plays no part in any rule.
* `NumSems = 3`, `PoolSize = 5`: the pool runs out at the first, at a middle and at the last
  semaphore of the second device.
* `LastMac = 2` with the broadcast address last: before, at and after an address, and the wrap of
  the search.  `LastPort = 2` in `Customize`: one port whose VLAN bit is the seventeenth.

`CHECK_DEADLOCK FALSE` is in the two RMU configurations only: a client whose frame was lost, or
that has reached `MaxFails`, really stops.

### Fairness

* `SemThreads`: weak fairness of a thread's own steps (it is scheduled, its accesses complete);
  strong fairness of `TakeSw`, because a BSP's semaphore wakes a waiter when it is given again and
  again; strong fairness of the give of the table semaphore, because an operation is a finite
  sequence of accesses.  Nothing is assumed between hosts: no claim is made that a host gets the
  register while another one keeps taking it.
* `SmiThreads`: weak fairness of each thread's steps, strong fairness of `Take`.  *Nothing* is
  assumed of the switch: `AccessReturns` holds when the busy bit never clears, because the loops
  are bounded.
* `AtuThreads`: as before, and `Execute` is weakly fair: the switch finishes its operations.  The
  driver has to assume this, since its loops on the ATU's busy bit have no bound.

* `UnitThreads`: weak fairness of the steps of a thread, strong fairness of `Take`, and weak fairness
  of `Execute`, which the loops without a bound need (`Spruce_msdPIRL.c:859` and others).  That is not
  enough for a loop without a bound, or one that gives up, on a unit whose commands other threads give without the semaphore:
  each time it looks the unit may be busy with the next of them.  `CallsReturn` is about the units where
  this cannot be (`Orderly`).

## 4. What is proved

Every theorem holds for all values of the constants that satisfy the `ASSUME` of the module,
which fixes their types and that no bound is 0; further conditions are named in the theorem.  Each safety
property the passing runs check is proved as well, `TypeOK` of every module included.  What each
proof rests on is an invariant that says more than the property.

`MsdSemProofs`

* `TypeCorrect`: `Spec => []TypeOK`.
* `SemaphoresExclude`: `Spec => []SwMutex`, without a condition: `SwMutex` is about the processes in
  `Sound`, whose BSP waits and whose accesses to the semaphore register succeed, whatever the other
  processes do, hardware semaphore or not.  `SwMutex` alone is not inductive: that a give
  releases a semaphore one has depends on where the thread is.  The invariant is
  `SwInv == TypeOK /\ Nested /\ Granted /\ SwMutex`: a thread that is taking or giving respects the
  nesting (`Nested`), and what it has entered it was granted (`Granted`) - which is why it is harmless
  there that callers ignore the result.
* `NobodyWaitsInACircle` (`NoCircularWait`), from `SwInv`: a thread that waits for a table semaphore
  waits for a thread that has it, and if that one waits too it is for `multiAddrSem`, whose holder
  does not wait for a semaphore.  It may still poll the hardware semaphore; that this ends is
  `OperationsEnd`, which is model-checked.
* `TakesAndGivesAreLocks` (`SemaphoresAreLocks`): `Spec => L!Spec`.  `semTake` (`TakeSw`) is the only
  step of a take that is a step of `Locks`, `semGive` (`GiveSw`) the only one of a give; all the work
  on the hardware semaphore around them is invisible.  This is what lets `SmiMultiChip`, `SpruceAtu`
  and `RegisterUnit` have a semaphore as one variable, its holder, taken and given in one step.
* `RefCntIsDepth` (`CountsNesting`) and `NestedGiveKeepsHw` (`ReleasedByOutermost`): without a
  condition.  `CountInv` relates, for a thread alone in a process whose accesses succeed, `refCnt`,
  the place in take or give, and the number of semaphores it has entered (`Counted`); `NestInv` says
  that these are at most two, the inner one `multiAddrSem`.
* `IdleLeavesHw` (`IdleReleasesHw`): if the processes that use the hardware semaphore have different
  interfaces (`Distinct`), since the register tells hosts apart by their interface only.  `HwInv` adds
  to `CountInv` that the register does not hold the value of a process whose thread is outside.

`SmiMultiChipProofs`

* `TypeCorrect`, with the polling count within its bounds.
* `AccessIsAtomic`: if all threads are in one process and no register bypasses `multiAddrSem`,
  `Spec => RF!Spec`: every behaviour of the detailed access is one of the atomic register file,
  whatever the polling bound, the switch's speed and the bus accesses that fail.
* `CommandsDoNotOverrun`: under the same conditions `Spec => NoOverrun`.
* `AccessesAreBounded` (`BoundedAccess`): without a condition.  Every step of a thread inside an
  access brings down `Remaining`, at most `2 * AccessLoop + 7`, and nobody else's step changes it.
  `AccessReturns` is this and fairness, of which only the former is in the prover's reach.

  The first two rest on `SmiInv == TypeOK /\ LockInv /\ BusInv`: a thread is inside an access exactly when it
  holds `multiAddrSem`; and what it has put on the bus is still there - not busy where it is about
  to write, its operand in the data register where it is about to write the command, its own
  command running or answered where it waits for the answer.  `BusInv` is what a thread that
  gives up on a busy switch could break, and does not: it never writes while the switch is busy.

`RmuTransportProofs`

* `TypeCorrect`: for any number of clients.
* `AnswersAreOwn` (`OwnAnswer`), `AnswersAreCurrent` (`AnswerIsCurrent`): for one client (`OneClient`)
  with fewer accesses in a row that end without their answer than there are sequence numbers
  (`FewGivenUp`), be it that they are given up or take a foreign frame.  They are about the accesses that
  take an answer of the switch: one that takes a foreign frame returns what that holds, and the code cannot
  know.  The invariant `RmuInv` is about the requests under way and the switch's answers: each has the
  number of an access since the last answered one (`Recent`), hence, as there are fewer of these than numbers, none but the present
  request and its answer has the present number; and these come last in their queues.
* `AccessesAreInOrder` (`InOrder`): for one client under the same condition, `Spec => RQ!Spec`.  The
  requests in the queue are those of the late accesses in the order of their calls, with the
  present one last (`LastOps`, `FirstOps`); what `RmuInv` says of the present number makes the
  answer taken the one to the present access, after every late one was served.

`DriverLifeProofs`

* `TypeCorrect`, `SemaphoresAreOwn` (`NeverShared`): over both BSPs, any devices, any pool.
* `LoadedIsUsable` (`ContractUsable`), `FailedLoadLeavesNone` (`FailedLoadFreesAll`),
  `UnloadLeavesNothing` (`UnloadCleansUp`): over a BSP that keeps its contract.

  `Held(d, i)` says, from the place a load or an unload has got to, which fields name semaphores that
  exist; `DInv` that these and no others exist for a device that can be identified, that they differ,
  that fields not reached are empty, and, of the Linux BSP, that all numbers given are below its
  counter.
* `LoadsAreAllOrNothing` (`LoadsAreAtomic`): over a BSP that keeps its contract - `bsp` is chosen once -
  every behaviour is one of `DT!Spec`.  To `DInv` it adds that what an unload or an undoing has passed is gone (`Gone`).
  A load that gets no semaphore at field `i` had at most `i - 1 < NumSems` to choose from, those it
  created itself (`NoneLeft`); the one that ends has `NumSems` different ones, all free at that moment
  (`LastIsLoad`); an unload never meets a semaphore it cannot delete (`UnloadEnds`).

`SpruceAtuProofs`, for any number of threads of one process (`OneProcess`)

* `TypeCorrect`.
* `TableIsAtomic` (`TableAtomic`): `Spec => Table!Spec`.  `AtuInv == TypeOK /\ Lock /\ TornInv /\ RegsInv /\
  Loadable`: the operands a thread has written are in the registers until its command uses them - but for
  the upper half of a load that was lost (`Written`) - and the switch is busy with nothing else.  An operation counts as done when its command is written,
  although the switch executes it later (`Visible`); that learning or ageing in between makes no
  difference is proved for each of the operations.
* `FindMissesNothing` (`FindSees`): a find that reports nothing has searched a table without the
  address, or has lost half of the broadcast address's entry.  The search returns the least address after a given one, which exists by well-founded
  induction on the addresses; `SeenInv` keeps what the search has answered until the call returns.

`RegisterUnitProofs`, for any units, programs and threads

* `TypeCorrect`; and, if the programs keep the rules (`RulesHold`: all are `Paired`, those of `CarefulOps` also
  `Careful` and `Sheltered`), `SemaphoreIsPaired` (`SemPaired`), the safety half of `CallsReturn`,
  `CallsDoNotOverrun` (`NoOverrun`), `CommandsHaveTheirOperands` (`OwnOperands`), `AnswersAreOwn` (`OwnAnswer`), `FoundIsPutBack`
  (`PutBack`), `SettingsSurvive` (`SettingsKept`).  `RulesHold` is evaluated for the two catalogues
  (`Classified` in `MCUnits`), which have the functions as they are, with the semaphores they take and no others.
  The theorems are about the calls of `CarefulOps`; those others that run beside them may break every rule but
  `Paired` and, where `Sheltered` asks for it, keep off their registers.  `OwnOperands` excepts the half of an extended register that the
  call has lost (`torn`): its command then runs with a half that was there before.

  `Inv == TypeOK /\ SemPaired /\ KnowsInv`.  `KnowsInv` turns the steps a thread has behind it into what
  it knows of the unit: not busy after a wait (`QuietInv`), operands still there (`ReadyInv`), what it
  has read still true (`FreshInv`), the last command its own (`LastInv`), the register as it was found
  (`BeforeInv`).  Each is kept because only the holder writes these registers (`OutsideWrites`) and `Execute` only
  clears the busy bit.

`CustomizeProofs`

* `TypeCorrect`: for any number of clients.
* `WhatIsToldIsSo` (`ToldModeIsSet`), `WritesAreMeant` (`NoStrayWrite`), `VlansAreDone` (`VlanIsDone`): for
  one client (`OneClient`), when accesses of bind and reset do not fail (`Heeded`), since their results
  are not looked at; accesses of set and get may fail.  `ToolInv` says what a command has got to before
  each of its accesses (`SoFar`), and what the high half of an access has done before the low
  half (`Halfway`).

Only model-checked: liveness (`OperationsEnd`, `AccessReturns`, the two `CallsReturn`), which is
fairness and out of the prover's reach; and the four disagreements, which are single behaviours.
The proofs are about one module at a time: that a register access is atomic (`AtomicAccess`), or a
semaphore a lock (`SemaphoresAreLocks`), is proved of the module that models it and then built into
the modules above it.

## 5. What is not modelled

* **Single accesses.**  Most API functions, in every family, check their arguments, convert them and
  access one register or one field.  They have no state between accesses, so nothing but a lost
  update (`SettingsKept`) can happen to them; as definitions they would repeat their own lines.  With
  the ten near copies of each (next point) they are the greater part of the sources, and why only a
  small share of the lines is modelled.
* **Other families.**  Oak and BonsaiZ1 are Spruce with another prefix, Bonsai and Fir nearly so
  (`BrgFdb.c` differs by 10 to 60 lines); Agate and Pearl repeat Peridot and Topaz; Amethyst is in
  between.  The dispatch tables only select among them.
* **What tables hold** other than the address table: the VTU, STU, E-CID, TCAM and the rest appear
  as units whose operations have operands and answers.
* **The address table's learn limits** (`Spruce_msdBrgFdb.c:1202, 1303, 1392`): no semaphore and no busy
  bit; a failure in the middle leaves the control register changed, and reading the count leaves a bit
  set that makes the register read as the count.
* **Functions for the multi-chip bus** (`..._MultiChip`): the same order of accesses, over single instead
  of combined accesses.
* **A semaphore given without having been taken**, when an access fails: by Peridot's Qbv functions, which
  give `tblRegsSem`, another unit's (`Peridot_msdSysCtrl.c:1855`), and by Spruce's `gecidGetEntryCount`, which gives
  `atuRegsSem` (`Spruce_msdEcid.c:738`).  Such a program is not `Paired`; their programs end there without the give, and
  `SemPaired` is about the functions without it.
* **Failing calls and `PutBack`**: a PHY function that fails leaves page 0 selected (`Peridot_msdPhyCtrl.c:213`);
  some functions never read the page and always leave page 0.
* **RMU**: the libpcap build, opening and scanning for devices, requests of several commands.
* **Load**: a device number beyond the table is used as an index before it is tested (`msdSysConfig.c:78`);
  `DriverLife` has numbers of devices only.
* **Customize** has the switch execute a PHY command before it answers the next access: the code reads
  the data register without looking at the busy bit (`customize.c:77`).
* **The CLI servers** (a client is a thread or a process in the models; the Windows server numbers them
  beyond its array of ten, `cliCommand.c:342`), and the parsing and printing of commands, which is
  input and output without protocol.
* **Utilities and the third-party USB and MDIO libraries**: a register access that succeeds or fails.

## 6. Plan

Done: semaphores, register access, RMU, load and unload, address table, port tools; the operations of
Spruce, Peridot and Topaz that wait for the switch; theorems for every safety property of a passing run,
the five refinements included.

Left, in this order:

1. A unit without a busy bit and its rules, for the learn limits and the other functions that change
   a register for their own time.
2. Properties of the functions without a semaphore that hold for one thread alone, and the semaphores that are
   given without having been taken.
3. Where Amethyst and Fir differ from the families that are modelled.
4. RMU requests of several commands, with several answers in a frame.
