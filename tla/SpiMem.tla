-------------------------------- MODULE SpiMem --------------------------------
(***************************************************************************)
(* The external SPI memory: up to three flash chips that hold the same data. *)
(* spimem_write writes to the chips that are marked healthy, one after the   *)
(* other; each chip is written with Spi0_Mutex taken and interrupts off.  A   *)
(* page that was written before is rewritten by loading its sector into      *)
(* spi_mem_buff, erasing the sector and writing it back.  One bitmap says     *)
(* which pages were written; it stands for all chips.                        *)
(*                                                                         *)
(* Programming a flash cell can only clear bits: a cell is the set of the    *)
(* writes programmed into it since it was erased, the AND of their data.     *)
(* The data of a write is its number.                                        *)
(***************************************************************************)
EXTENDS Integers, FiniteSets

CONSTANTS
  NChips,          \* chips (3 in the code)
  Erased,          \* the one that initialisation erases (2 in the code)
  Sectors,         \* sectors of a chip (256 in the code)
  PagesPerSector,  \* 16 in the code
  CellsPerPage,    \* stands for the 256 bytes of a page
  Tasks,           \* tasks that call spimem_write
  MaxWrites,       \* bound: calls
  MaxFaults,       \* bound: times a chip or Spi0_Mutex is found busy
  MaxResets,       \* bound: resets of the OBC
  MaxCommands      \* bound: SET_VARIABLE commands for SPI_HEALTH

ASSUME ConstantsOK ==
  /\ NChips \in Nat \ {0} /\ Erased \in 1 .. NChips
  /\ Sectors \in Nat \ {0} /\ PagesPerSector \in Nat \ {0, 1}
  /\ CellsPerPage \in Nat \ {0}
  /\ MaxWrites \in Nat /\ MaxFaults \in Nat /\ MaxResets \in Nat
  /\ MaxCommands \in Nat

VARIABLES
  cells,                  \* chip, cell: the writes programmed into it
  spi_bit_map,            \* pages marked dirty
  spi_mem_buff, spi_mem_buff_sect_num,
  health,                 \* SPI_HEALTH1, 2, 3: the chips that count as healthy
  calls,                  \* calls of spimem_write under way
  h,                      \* the spimem_write_h under way, or Idle
  writes, faults, resets, commands,   \* counters behind the bounds
  cut,                    \* observer: an erase or a rewrite was cut short
  aimed,                  \* observer: the cells each write is meant for
  reported                \* observer: for each cell the last write reported

chips == <<cells, spi_bit_map>>
buffer == <<spi_mem_buff, spi_mem_buff_sect_num>>
bounds == <<writes, resets, commands>>
observers == <<cut, aimed, reported>>
vars == <<chips, buffer, health, calls, h, bounds, faults, observers>>

Chips == 1 .. NChips
SectorCells == PagesPerSector * CellsPerPage
Offsets == 0 .. SectorCells - 1
Cells == 0 .. Sectors * SectorCells - 1
Pages == 0 .. Sectors * PagesPerSector - 1

GetPage(a) == a \div CellsPerPage
GetSector(a) == a \div SectorCells

Blank == [a \in Cells |-> {}]
Idle == [task |-> "none"]
NoCall == [n |-> 0]

Init ==
  /\ cells = [c \in Chips |-> Blank]
  /\ spi_bit_map = {}
  /\ spi_mem_buff = [k \in Offsets |-> {}]
  /\ spi_mem_buff_sect_num = 0
  /\ health = {Erased}
  /\ calls = [t \in Tasks |-> NoCall]
  /\ h = Idle
  /\ writes = 0 /\ faults = 0 /\ resets = 0 /\ commands = 0
  /\ cut = 0
  /\ aimed = [n \in 1 .. MaxWrites |-> {}]
  /\ reported = [a \in Cells |-> 0]

Fault == faults < MaxFaults /\ faults' = faults + 1
NoFault == UNCHANGED faults

-----------------------------------------------------------------------------
(* spimem_write.  Between two chips other tasks may run.                      *)

(* The first part of a write ends with its page; the rest, if any, goes to   *)
(* the next page, or nowhere at the end of the memory.                        *)
Size1(c) ==
  LET room == CellsPerPage - (c.addr % CellsPerPage)
  IN IF c.size > room THEN room ELSE c.size
Size2(c) == IF c.addr + c.size - 1 \in Cells THEN c.size - Size1(c) ELSE 0
FirstOf(c, part) == IF part = 1 THEN c.addr ELSE c.addr + Size1(c)
SizeOf(c, part) == IF part = 1 THEN Size1(c) ELSE Size2(c)
CellsFrom(a, size) == a .. a + size - 1

(* With no chip healthy the call returns -1 at once.                          *)
Call(t) ==
  /\ h = Idle /\ calls[t] = NoCall
  /\ writes < MaxWrites /\ writes' = writes + 1
  /\ health # {}
  /\ \E a \in Cells, size \in 1 .. CellsPerPage :
       LET c == [n |-> writes + 1, addr |-> a, size |-> size,
                 chip |-> 1, x |-> -1]
       IN /\ calls' = [calls EXCEPT ![t] = c]
          /\ aimed' = [aimed EXCEPT ![writes + 1] =
                         CellsFrom(a, Size1(c) + Size2(c))]
  /\ UNCHANGED <<chips, buffer, health, h, faults, resets, commands, cut, reported>>

(* The call is over, or goes on with the next chip; it returns the result of *)
(* the last chip written, or of the first one that failed.                    *)
NextChip(t, x) ==
  LET c == calls[t]
  IN IF x < 0 \/ c.chip = NChips
       THEN /\ calls' = [calls EXCEPT ![t] = NoCall]
            /\ reported' = [a \in Cells |-> IF a \in CellsFrom(c.addr, x)
                                              THEN c.n ELSE reported[a]]
       ELSE /\ calls' = [calls EXCEPT ![t].chip = @ + 1, ![t].x = x]
            /\ UNCHANGED reported

(* A chip that is not healthy when its turn comes.                            *)
SkipChip(t) ==
  LET c == calls[t]
  IN /\ h = Idle /\ c # NoCall
     /\ c.chip \notin health
     /\ IF c.chip < NChips
          THEN calls' = [calls EXCEPT ![t].chip = @ + 1] /\ UNCHANGED reported
          ELSE NextChip(t, c.x)
     /\ UNCHANGED <<chips, buffer, health, h, bounds, faults, cut, aimed>>

-----------------------------------------------------------------------------
(* spimem_write_h.  From taking Spi0_Mutex to giving it back interrupts are   *)
(* off: only a reset can come in between.                                     *)

At(t, pc) == h # Idle /\ h.task = t /\ h.pc = pc
Goto(pc) == h' = [h EXCEPT !.pc = pc]
Return(t, x) == h' = Idle /\ NextChip(t, x)

TakeMutex(t) ==
  /\ h = Idle /\ calls[t] # NoCall
  /\ calls[t].chip \in health
  /\ \/ /\ NoFault
        /\ h' = [task |-> t, pc |-> "ready", part |-> 1]
        /\ UNCHANGED <<calls, reported>>
     \/ Fault /\ Return(t, -1)
  /\ UNCHANGED <<chips, buffer, health, bounds, cut, aimed>>

FailedIn(part, c) == IF part = 1 THEN -1 ELSE Size1(c)

(* Faulty variant of ReadyForCommand: every page counts as clean.           *)
ReadyWithoutBitmap(t) ==
  LET c == calls[t]
  IN /\ At(t, "ready")
     /\ \/ NoFault /\ Goto("program") /\ UNCHANGED <<calls, reported>>
        \/ Fault /\ Return(t, FailedIn(h.part, c))
     /\ UNCHANGED <<chips, buffer, health, bounds, cut, aimed>>

ReadyForCommand(t) ==
  LET c == calls[t]
      page == GetPage(FirstOf(c, h.part))
  IN /\ At(t, "ready")
     /\ \/ /\ NoFault
           /\ Goto(IF page \in spi_bit_map THEN "load" ELSE "program")
           /\ UNCHANGED <<calls, reported>>
        \/ Fault /\ Return(t, FailedIn(h.part, c))
     /\ UNCHANGED <<chips, buffer, health, bounds, cut, aimed>>

PartDone(t) ==
  LET c == calls[t]
  IN IF h.part = 1 /\ Size2(c) > 0
       THEN /\ h' = [h EXCEPT !.part = 2, !.pc = "ready"]
            /\ UNCHANGED <<calls, reported>>
       ELSE Return(t, Size1(c) + Size2(c))

(* Faulty variant of SetPageDirty: forgotten for the second page of a write. *)
DirtyOnFirstPart(page) ==
  spi_bit_map' = IF h.part = 1 THEN spi_bit_map \union {page} ELSE spi_bit_map

SetPageDirty(page) == spi_bit_map' = spi_bit_map \union {page}

(* A clean page is programmed; it is marked dirty even when that takes too   *)
(* long.                                                                     *)
WritePage(t) ==
  LET c == calls[t]
      first == FirstOf(c, h.part)
      written == CellsFrom(first, SizeOf(c, h.part))
  IN /\ At(t, "program")
     /\ cells' = [cells EXCEPT ![c.chip] =
                    [a \in Cells |-> IF a \in written THEN @[a] \union {c.n}
                                                      ELSE @[a]]]
     /\ SetPageDirty(GetPage(first))
     /\ \/ NoFault /\ PartDone(t)
        \/ Fault /\ Return(t, FailedIn(h.part, c))
     /\ UNCHANGED <<buffer, health, bounds, cut, aimed>>

(* The new data goes into the buffer only if sixteen times its page number is *)
(* the number of the sector there: page 0 alone.                              *)
Update(buff, sect, c, part) ==
  LET first == FirstOf(c, part)
      index == first % SectorCells
  IN IF GetPage(first) * PagesPerSector = sect
       THEN [k \in Offsets |-> IF k \in CellsFrom(index, SizeOf(c, part))
                                 THEN {c.n} ELSE buff[k]]
       ELSE buff

(* Faulty variant of Loaded: the last page is left out.                     *)
LoadedOffByOne(chip, sect, pages) ==
  [k \in Offsets |-> IF k \div CellsPerPage < pages - 1
                       THEN cells[chip][sect * SectorCells + k]
                       ELSE spi_mem_buff[k]]

(* The first pages of a sector in the buffer, the rest of it as it was.       *)
Loaded(chip, sect, pages) ==
  [k \in Offsets |-> IF k \div CellsPerPage < pages
                       THEN cells[chip][sect * SectorCells + k]
                       ELSE spi_mem_buff[k]]

(* A load that fails leaves the sector number as it was.  Neither result is   *)
(* looked at.                                                                *)
LoadAndUpdate(t) ==
  LET c == calls[t]
      sect == GetSector(FirstOf(c, h.part))
  IN /\ At(t, "load")
     /\ Goto("erase")
     /\ \/ /\ NoFault
           /\ spi_mem_buff' =
                Update(Loaded(c.chip, sect, PagesPerSector), sect, c, h.part)
           /\ spi_mem_buff_sect_num' = sect
           /\ UNCHANGED cut
        \/ /\ Fault
           /\ \E pages \in 0 .. PagesPerSector - 1 :
                spi_mem_buff' = Update(Loaded(c.chip, sect, pages),
                                       spi_mem_buff_sect_num, c, h.part)
           /\ UNCHANGED spi_mem_buff_sect_num
           /\ cut' = 1
     /\ UNCHANGED <<chips, health, calls, bounds, aimed, reported>>

EraseSector(t) ==
  LET c == calls[t]
      sect == GetSector(FirstOf(c, h.part))
  IN /\ At(t, "erase")
     /\ Goto("back")
     /\ \/ /\ NoFault
           /\ cells' = [cells EXCEPT ![c.chip] =
                          [a \in Cells |-> IF GetSector(a) = sect THEN {} ELSE @[a]]]
           /\ UNCHANGED cut
        \/ Fault /\ cut' = 1 /\ UNCHANGED cells
     /\ UNCHANGED <<spi_bit_map, buffer, health, calls, bounds, aimed, reported>>

(* Faulty variant of WrittenBack: the last page is left out.                *)
BackOffByOne(chip, pages) ==
  [a \in Cells |->
     LET k == a % SectorCells
     IN IF GetSector(a) = spi_mem_buff_sect_num /\ k \div CellsPerPage < pages - 1
          THEN cells[chip][a] \union spi_mem_buff[k] ELSE cells[chip][a]]

(* The buffer goes back page by page; its result is not looked at either.    *)
WrittenBack(chip, pages) ==
  [a \in Cells |->
     LET k == a % SectorCells
     IN IF GetSector(a) = spi_mem_buff_sect_num /\ k \div CellsPerPage < pages
          THEN cells[chip][a] \union spi_mem_buff[k] ELSE cells[chip][a]]

WriteSectorBack(t) ==
  LET chip == calls[t].chip
  IN /\ At(t, "back")
     /\ \/ /\ NoFault
           /\ cells' = [cells EXCEPT ![chip] = WrittenBack(chip, PagesPerSector)]
           /\ UNCHANGED cut
        \/ /\ Fault
           /\ \E pages \in 0 .. PagesPerSector - 1 :
                cells' = [cells EXCEPT ![chip] = WrittenBack(chip, pages)]
           /\ cut' = 1
     /\ PartDone(t)
     /\ UNCHANGED <<spi_bit_map, buffer, health, bounds, aimed>>

SpimemWrite(t) ==
  \/ Call(t) \/ SkipChip(t) \/ TakeMutex(t) \/ ReadyForCommand(t)
  \/ WritePage(t) \/ LoadAndUpdate(t) \/ EraseSector(t) \/ WriteSectorBack(t)

-----------------------------------------------------------------------------
(* What changes under the feet of the writers.                               *)

SetHealth(v) ==
  /\ h = Idle
  /\ commands < MaxCommands /\ commands' = commands + 1
  /\ health' = v
  /\ UNCHANGED <<chips, buffer, calls, h, writes, resets, faults, observers>>

(* Setting the variable of one chip sets those of the chips after it too.    *)
SetObcVariable ==
  \E k \in Chips : SetHealth(health \union k .. NChips)
                   \/ SetHealth(health \ k .. NChips)

(* FDIR gives up the first chip that counts as healthy.                       *)
ResolutionSequence14 ==
  \E k \in health : (\A j \in health : k <= j) /\ SetHealth(health \ {k})

(* A reset: spimem_initialize erases one chip and clears the bitmap of all.   *)
SpimemInitialize ==
  /\ resets < MaxResets /\ resets' = resets + 1
  /\ \/ /\ NoFault
        /\ cells' = [cells EXCEPT ![Erased] = Blank]
        /\ UNCHANGED cut
     \/ Fault /\ cut' = 1 /\ UNCHANGED cells
  /\ spi_bit_map' = {}
  /\ spi_mem_buff' = [k \in Offsets |-> {}]
  /\ spi_mem_buff_sect_num' = 0
  /\ health' = {Erased}
  /\ calls' = [t \in Tasks |-> NoCall]
  /\ h' = Idle
  /\ aimed' = [n \in 1 .. MaxWrites |-> {}]
  /\ reported' = [a \in Cells |-> 0]
  /\ UNCHANGED <<writes, commands>>

Next ==
  \/ \E t \in Tasks : SpimemWrite(t)
  \/ SetObcVariable
  \/ ResolutionSequence14
  \/ SpimemInitialize

Spec == Init /\ [][Next]_vars

-----------------------------------------------------------------------------
(* Properties.                                                               *)

Written == 1 .. MaxWrites
Contents == [Cells -> SUBSET Written]
CallRecords ==
  [n : Written, addr : Cells, size : 1 .. CellsPerPage, chip : Chips,
   x : -1 .. CellsPerPage] \union {NoCall}
Steps ==
  [task : Tasks, pc : {"ready", "program", "load", "erase", "back"}, part : {1, 2}]
    \union {Idle}

(* Types of all variables.                                                   *)
TypeOK ==
  /\ cells \in [Chips -> Contents]
  /\ spi_bit_map \subseteq Pages
  /\ spi_mem_buff \in [Offsets -> SUBSET Written]
  /\ spi_mem_buff_sect_num \in 0 .. Sectors - 1
  /\ health \subseteq Chips
  /\ calls \in [Tasks -> CallRecords]
  /\ h \in Steps
  /\ writes \in 0 .. MaxWrites /\ faults \in 0 .. MaxFaults
  /\ resets \in 0 .. MaxResets /\ commands \in 0 .. MaxCommands
  /\ cut \in {0, 1}
  /\ aimed \in [1 .. MaxWrites -> SUBSET Cells]
  /\ reported \in [Cells -> 0 .. MaxWrites]

(* A chip whose contents the bitmap has accounted for from the start.         *)
Tracked(c) == cut = 0 /\ (resets = 0 \/ c = Erased)

(* No write is programmed over another: whatever the healthy chips were when  *)
(* a page was written, the bitmap sends a second write to it through an erase. *)
NeverAnded == \A c \in Chips, a \in Cells : Tracked(c) => Cardinality(cells[c][a]) <= 1

(* A page that the bitmap calls clean is blank on every chip, so that it can  *)
(* be programmed: the bitmap may say too much of a chip, never too little.    *)
CleanIsBlank ==
  \A c \in Chips, a \in Cells :
    Tracked(c) /\ GetPage(a) \notin spi_bit_map => cells[c][a] = {}

(* Writes stay inside of the memory, parts inside of a page, and the bitmap is *)
(* right about clean pages.                                                   *)
SpiMemInv == TypeOK /\ CleanIsBlank

(* A write that had its pages to itself and was reported is on a chip, even   *)
(* after other pages of the sector were rewritten, and alone there if the     *)
(* bitmap has accounted for the chip.                                        *)
AloneOn(n, p) == \A m \in 1 .. MaxWrites \ {n} : \A a \in aimed[m] : GetPage(a) # p
FirstWriteStored ==
  h = Idle /\ cut = 0 =>
    \A a \in Cells : reported[a] # 0 /\ AloneOn(reported[a], GetPage(a))
                       => \E c \in Chips : /\ reported[a] \in cells[c][a]
                                           /\ Tracked(c) => cells[c][a] = {reported[a]}

(* The chip that initialisation erases is a store of pages that can be        *)
(* written once, however often sectors are rewritten and whatever is reset,   *)
(* until an erase or a rewrite is cut short.                                  *)
Rewriting == h # Idle /\ h.pc \in {"erase", "back"} /\ calls[h.task].chip = Erased
Stored ==
  [p \in Pages |->
     [k \in 0 .. CellsPerPage - 1 |->
        LET a == p * CellsPerPage + k
        IN IF Rewriting /\ GetSector(a) = spi_mem_buff_sect_num
             THEN spi_mem_buff[a % SectorCells] ELSE cells[Erased][a]]]
Store == INSTANCE PageStore
           WITH Rewritable <- {0}, Blank <- [k \in 0 .. CellsPerPage - 1 |-> {}],
                store <- Stored
WrittenOnce == Store!Spec

(* spimem_write: "returns the number of consecutive bytes which were          *)
(* successfully written to memory".                                           *)
SuccessMeansWritten ==
  [][\A a \in Cells : reported'[a] \notin {0, reported[a]}
                        => \E c \in Chips : reported'[a] \in cells'[c][a]]_vars

=============================================================================
