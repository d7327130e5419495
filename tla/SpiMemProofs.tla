---------------------------- MODULE SpiMemProofs ----------------------------
(***************************************************************************)
(* Proofs about SpiMem, for any number of chips, sectors, pages, tasks,     *)
(* writes, faults, commands and resets: no write is programmed over another *)
(* on a chip the bitmap accounts for, a first write is kept through the      *)
(* rewrites of its sector, and the chip that is erased is a PageStore.      *)
(***************************************************************************)
EXTENDS SpiMem, FiniteSetTheorems, TLAPS

-----------------------------------------------------------------------------
(* Division: cells, pages and sectors.                                       *)

(* A multiple further on is a whole divisor further on.                       *)
LEMMA MulMono ==
  ASSUME NEW d \in Nat \ {0}, NEW q \in Nat, NEW r \in Nat, q < r
  PROVE  d * q + d <= d * r
BY SMT

(* A product of naturals is a natural.                                        *)
LEMMA MulNat ==
  ASSUME NEW d \in Nat, NEW q \in Nat
  PROVE  d * q \in Nat
BY SMT

(* Quotient and remainder.                                                    *)
LEMMA DivMod ==
  ASSUME NEW a \in Nat, NEW d \in Nat \ {0}
  PROVE  /\ a \div d \in Nat /\ a % d \in 0 .. d - 1
         /\ a = d * (a \div d) + (a % d)
BY SMT

(* There is one quotient and one remainder.                                   *)
LEMMA DivUnique ==
  ASSUME NEW d \in Nat \ {0}, NEW q \in Nat, NEW r \in 0 .. d - 1, NEW a \in Nat,
         a = d * q + r
  PROVE  a \div d = q /\ a % d = r
<1> DEFINE p == a \div d
           s == a % d
<1>1. p \in Nat /\ s \in 0 .. d - 1 /\ a = d * p + s
  BY DivMod
<1> HIDE DEF p, s
<1>2. ~(p < q) /\ ~(q < p)
  BY <1>1, MulMono
<1>3. p = q
  BY <1>1, <1>2
<1>4. d * p = d * q /\ d * q \in Nat
  BY <1>1, <1>3
<1>5. s = r
  BY <1>1, <1>4
<1> QED BY <1>3, <1>5 DEF p, s

(* The quotient of what is below m divisors is below m.                       *)
LEMMA DivBelow ==
  ASSUME NEW d \in Nat \ {0}, NEW m \in Nat, NEW a \in 0 .. d * m - 1
  PROVE  a \div d \in 0 .. m - 1 /\ a \in Nat
<1> DEFINE q == a \div d
           e == d * m
<1>1. e \in Nat
  BY SMT
<1> HIDE DEF e
<1>2. a \in Nat /\ a < e
  BY <1>1 DEF e
<1>3. q \in Nat /\ a % d \in 0 .. d - 1 /\ a = d * q + (a % d)
  BY <1>2, DivMod
<1> HIDE DEF q
<1>5. d * q \in Nat
  BY <1>3, MulNat
<1>6. d * q <= a
  BY <1>3, <1>5
<1>4. ~(m <= q)
  <2>1. CASE m = q
    BY <1>2, <1>3, <1>6, <2>1 DEF e
  <2>2. CASE m < q
    <3>1. d * m + d <= d * q
      BY <1>3, <2>2, MulMono
    <3> QED BY <1>1, <1>2, <1>5, <1>6, <3>1 DEF e
  <2> QED BY <1>3, <2>1, <2>2
<1> QED BY <1>2, <1>3, <1>4 DEF q

(* The sizes of sectors, pages and of a chip, in cells.                       *)
LEMMA Geometry ==
  /\ SectorCells \in Nat \ {0} /\ SectorCells = CellsPerPage * PagesPerSector
  /\ Sectors * SectorCells = SectorCells * Sectors
  /\ Sectors * SectorCells = CellsPerPage * (Sectors * PagesPerSector)
  /\ Sectors * PagesPerSector = PagesPerSector * Sectors
  /\ Sectors * PagesPerSector \in Nat \ {0} /\ Sectors * SectorCells \in Nat \ {0}
BY ConstantsOK, SMT DEF SectorCells

(* Where a cell is: its page, its sector and its place in the sector.         *)
LEMMA CellPlace ==
  ASSUME NEW a \in Cells
  PROVE  /\ a \in Nat
         /\ GetPage(a) \in Pages /\ GetSector(a) \in 0 .. Sectors - 1
         /\ a % SectorCells \in Offsets
         /\ a = SectorCells * GetSector(a) + (a % SectorCells)
         /\ GetSector(a) = GetPage(a) \div PagesPerSector
         /\ (a % SectorCells) \div CellsPerPage < PagesPerSector
<1> DEFINE D == SectorCells
           d == CellsPerPage
           P == PagesPerSector
<1>1. D \in Nat \ {0} /\ d \in Nat \ {0} /\ P \in Nat \ {0} /\ Sectors \in Nat
  BY Geometry, ConstantsOK
<1>2. a \in Nat /\ a \in 0 .. D * Sectors - 1 /\ a \in 0 .. d * (Sectors * P) - 1
  BY Geometry DEF Cells
<1>3. GetPage(a) \in Pages
  BY <1>1, <1>2, DivBelow, Geometry DEF GetPage, Pages
<1>4. GetSector(a) \in 0 .. Sectors - 1
  BY <1>1, <1>2, DivBelow DEF GetSector
<1>5. a % D \in 0 .. D - 1 /\ a = D * (a \div D) + (a % D)
  BY <1>1, <1>2, DivMod
<1>6. (a % D) \div d \in 0 .. P - 1
  BY <1>1, <1>5, DivBelow, Geometry
<1>7. GetSector(a) = GetPage(a) \div P
  <2> DEFINE s == a \div D
             r == a % D
             q == r \div d
             t == r % d
  <2>1. s \in Nat /\ r \in Nat /\ q \in 0 .. P - 1 /\ a = D * s + r
    BY <1>1, <1>4, <1>5, <1>6 DEF GetSector
  <2>6. t \in 0 .. d - 1 /\ r = d * q + t
    BY <1>1, <2>1, DivMod
  <2>2. D = d * P
    BY Geometry
  <2> HIDE DEF D, d, P, s, r, q, t
  <2> DEFINE p == P * s + q
  <2>3. a = d * p + t /\ p \in Nat
    <3>1. D * s = d * (P * s) /\ P * s \in Nat
      BY <1>1, <2>1, <2>2
    <3>2. d * (P * s + q) = d * (P * s) + d * q
      BY <1>1, <2>1, <3>1
    <3> QED BY <1>1, <2>1, <2>6, <3>1, <3>2
  <2>4. a \div d = p
    <3> HIDE DEF p
    <3> QED BY <1>1, <1>2, <2>3, <2>6, DivUnique
  <2>5. p \div P = s
    <3>1. p = P * s + q
      OBVIOUS
    <3> HIDE DEF p
    <3> QED BY <1>1, <2>1, <2>3, <3>1, DivUnique
  <2> QED BY <2>4, <2>5 DEF GetPage, GetSector, s, D, d, P
<1>8. (a % D) \div d < P
  BY <1>1, <1>6
<1>9. a = D * GetSector(a) + (a % D) /\ a % D \in Offsets
  BY <1>5 DEF Offsets, GetSector
<1> QED BY <1>2, <1>3, <1>4, <1>7, <1>8, <1>9

(* A place in a sector is a cell of it.                                      *)
LEMMA CellAt ==
  ASSUME NEW s \in 0 .. Sectors - 1, NEW k \in Offsets
  PROVE  /\ s * SectorCells + k \in Cells
         /\ GetSector(s * SectorCells + k) = s /\ (s * SectorCells + k) % SectorCells = k
<1> DEFINE D == SectorCells
           a == s * D + k
<1>1. /\ D \in Nat \ {0} /\ s \in Nat /\ Sectors \in Nat /\ s < Sectors
      /\ k \in 0 .. D - 1
  BY Geometry, ConstantsOK DEF Offsets
<1> HIDE DEF D
<1>2. D * s = s * D /\ D * s \in Nat /\ D * s + D <= D * Sectors /\ D * Sectors \in Nat
  BY <1>1, MulMono, MulNat
<1>3. a \in Nat /\ a = D * s + k
  BY <1>1, <1>2
<1>4. a \div D = s /\ a % D = k
  <2> HIDE DEF a
  <2> QED BY <1>1, <1>3, DivUnique
<1>5. a \in 0 .. Sectors * D - 1
  <2>1. Sectors * D = D * Sectors
    BY <1>1
  <2> QED BY <1>1, <1>2, <1>3, <2>1
<1> QED BY <1>4, <1>5 DEF Cells, GetSector, D

(* The cells a call is meant for, and those of each of its two parts.         *)
Full == [n : Written, addr : Cells, size : 1 .. CellsPerPage, chip : Chips,
         x : -1 .. CellsPerPage]
Aimed(c) == CellsFrom(c.addr, Size1(c) + Size2(c))
Part(c, part) == CellsFrom(FirstOf(c, part), SizeOf(c, part))

(* The cells of page p are those from its first one up to the next.           *)
LEMMA PageCells ==
  ASSUME NEW p \in Nat, NEW b \in Nat, NEW a \in Nat, b = CellsPerPage * p
  PROVE  GetPage(a) = p <=> b <= a /\ a < b + CellsPerPage
<1> DEFINE d == CellsPerPage
<1>1. d \in Nat \ {0}
  BY ConstantsOK
<1>2. ASSUME b <= a, a < b + d
      PROVE  a \div d = p
  <2> DEFINE r == a - b
  <2>1. r \in 0 .. d - 1 /\ a = d * p + r
    BY <1>1, <1>2
  <2> HIDE DEF r
  <2> QED BY <1>1, <2>1, DivUnique
<1>3. ASSUME a \div d = p
      PROVE  b <= a /\ a < b + d
  <2>1. a % d \in 0 .. d - 1 /\ a = d * p + (a % d)
    BY <1>1, <1>3, DivMod
  <2> QED BY <1>1, <2>1
<1> QED BY <1>2, <1>3 DEF GetPage

(* The one or two parts of a call: where they begin and what they cover.      *)
LEMMA Parts ==
  ASSUME NEW c \in Full
  PROVE  /\ Size1(c) \in 1 .. c.size /\ Size2(c) \in 0 .. c.size - Size1(c)
         /\ Aimed(c) \subseteq Cells
         /\ Part(c, 1) = CellsFrom(c.addr, Size1(c))
         /\ Aimed(c) = IF Size2(c) > 0 THEN Part(c, 1) \union Part(c, 2) ELSE Part(c, 1)
         /\ \A part \in {1, 2} : part = 1 \/ Size2(c) > 0 =>
              /\ FirstOf(c, part) \in Part(c, part)
              /\ Part(c, part) = {a \in Aimed(c) : GetPage(a) = GetPage(FirstOf(c, part))}
<1> DEFINE d == CellsPerPage
           p == GetPage(c.addr)
           o == c.addr % d
           b == d * p
           e == Sectors * SectorCells
           room == d - o
<1>1. /\ d \in Nat \ {0} /\ c.addr \in Cells /\ c.addr \in Nat /\ p \in Pages /\ p \in Nat
      /\ c.size \in 1 .. d /\ e \in Nat
  BY ConstantsOK, CellPlace, Geometry DEF Full, Pages
<1>2. o \in 0 .. d - 1 /\ c.addr = b + o /\ b \in Nat
  BY <1>1, DivMod, MulNat DEF GetPage
<1>3. b + d <= e
  <2> DEFINE n == Sectors * PagesPerSector
  <2>1. n \in Nat \ {0} /\ e = d * n /\ p < n
    BY <1>1, Geometry DEF Pages
  <2> HIDE DEF n, e, p
  <2> QED BY <1>1, <2>1, MulMono
<1>4. \A a : a \in Cells <=> a \in Int /\ 0 <= a /\ a < e
  BY <1>1, Geometry DEF Cells
<1>5. Size1(c) = IF c.size > room THEN room ELSE c.size
  BY DEF Size1
<1>6. Size2(c) = IF c.addr + c.size - 1 \in Cells THEN c.size - Size1(c) ELSE 0
  BY DEF Size2
<1>7. b + d = d * (p + 1)
  BY <1>1
<1>8. /\ FirstOf(c, 1) = c.addr /\ FirstOf(c, 2) = c.addr + Size1(c)
      /\ SizeOf(c, 1) = Size1(c) /\ SizeOf(c, 2) = Size2(c)
  BY DEF FirstOf, SizeOf
<1>9. /\ \A a \in Nat : GetPage(a) = p <=> b <= a /\ a < b + d
      /\ \A a \in Nat : GetPage(a) = p + 1 <=> b + d <= a /\ a < b + d + d
  <2>1. b + d \in Nat /\ p + 1 \in Nat
    BY <1>1, <1>2
  <2> HIDE DEF p
  <2> QED BY <1>1, <1>2, <1>7, <2>1, PageCells
<1> HIDE DEF d, p, o, b, e
<1>10. /\ Size1(c) \in 1 .. c.size /\ Size2(c) \in 0 .. c.size - Size1(c)
       /\ Size1(c) \in Nat /\ Size2(c) \in Nat /\ Size2(c) < d
       /\ Size2(c) > 0 => Size1(c) = room /\ c.addr + Size1(c) = b + d
                          /\ c.addr + Size1(c) + Size2(c) - 1 < e
       /\ c.addr + Size1(c) - 1 < b + d
  BY <1>1, <1>2, <1>4, <1>5, <1>6
<1> DEFINE s1 == Size1(c)
           s2 == Size2(c)
<1> HIDE DEF s1, s2
<1>11. /\ Aimed(c) = c.addr .. c.addr + (s1 + s2) - 1
       /\ Part(c, 1) = c.addr .. c.addr + s1 - 1
       /\ Part(c, 2) = c.addr + s1 .. c.addr + s1 + s2 - 1
       /\ CellsFrom(c.addr, Size1(c)) = Part(c, 1)
  BY <1>8 DEF Aimed, Part, CellsFrom, s1, s2
<1>16. /\ s1 \in Nat \ {0} /\ s2 \in Nat /\ s2 < d /\ d \in Nat /\ e \in Nat
       /\ b \in Nat /\ c.addr \in Nat /\ b <= c.addr /\ c.addr + s1 - 1 < b + d
       /\ s2 > 0 => c.addr + s1 = b + d
       /\ c.addr + s1 + s2 - 1 < e
  BY <1>1, <1>2, <1>3, <1>10 DEF s1, s2
<1>17. /\ \A a : a \in Part(c, 1) <=> a \in Int /\ c.addr <= a /\ a <= c.addr + s1 - 1
       /\ \A a : a \in Part(c, 2) <=>
                 a \in Int /\ c.addr + s1 <= a /\ a <= c.addr + s1 + s2 - 1
       /\ \A a : a \in Aimed(c) <=> a \in Int /\ c.addr <= a /\ a <= c.addr + (s1 + s2) - 1
  <2>1. ASSUME NEW l \in Int, NEW u \in Int, NEW a
        PROVE  a \in l .. u <=> a \in Int /\ l <= a /\ a <= u
    OBVIOUS
  <2>2. /\ c.addr \in Int /\ c.addr + s1 \in Int /\ c.addr + s1 - 1 \in Int
        /\ c.addr + s1 + s2 - 1 \in Int /\ c.addr + (s1 + s2) - 1 \in Int
    BY <1>16
  <2> QED BY <1>11, <2>1, <2>2
<1>12. Aimed(c) \subseteq Cells
  BY <1>4, <1>16, <1>17
<1>13. Aimed(c) = IF s2 > 0 THEN Part(c, 1) \union Part(c, 2) ELSE Part(c, 1)
  <2>1. ASSUME NEW a \in Int
        PROVE  a \in Aimed(c) <=> a \in Part(c, 1) \/ (s2 > 0 /\ a \in Part(c, 2))
    BY <1>16, <1>17
  <2> QED BY <1>17, <2>1
<1>14. /\ c.addr \in Part(c, 1)
       /\ Part(c, 1) = {a \in Aimed(c) : GetPage(a) = GetPage(c.addr)}
  <2>1. c.addr \in Part(c, 1)
    BY <1>16, <1>17
  <2>2. GetPage(c.addr) = p
    BY DEF p
  <2>3. ASSUME NEW a \in Part(c, 1)
        PROVE  a \in Aimed(c) /\ GetPage(a) = p
    <3>1. a \in Nat /\ b <= a /\ a < b + d /\ a \in Aimed(c)
      BY <1>16, <1>17, <2>3
    <3> QED BY <1>9, <3>1
  <2>4. ASSUME NEW a \in Aimed(c), GetPage(a) = p
        PROVE  a \in Part(c, 1)
    <3>1. a \in Nat /\ c.addr <= a /\ a <= c.addr + (s1 + s2) - 1
      BY <1>16, <1>17, <2>4
    <3>2. b <= a /\ a < b + d
      BY <1>9, <2>4, <3>1
    <3> QED BY <1>16, <1>17, <3>1, <3>2
  <2> QED BY <2>1, <2>2, <2>3, <2>4
<1>15. ASSUME s2 > 0
       PROVE  /\ c.addr + s1 \in Part(c, 2)
              /\ Part(c, 2) = {a \in Aimed(c) : GetPage(a) = GetPage(c.addr + s1)}
  <2>1. c.addr + s1 \in Part(c, 2)
    BY <1>15, <1>16, <1>17
  <2>2. c.addr + s1 = b + d /\ c.addr + s1 \in Nat
    BY <1>15, <1>16
  <2>3. GetPage(c.addr + s1) = p + 1
    BY <1>9, <1>16, <2>2
  <2>4. ASSUME NEW a \in Part(c, 2)
        PROVE  a \in Aimed(c) /\ GetPage(a) = p + 1
    <3>1. a \in Nat /\ b + d <= a /\ a < b + d + d /\ a \in Aimed(c)
      BY <1>16, <1>17, <2>2, <2>4
    <3> QED BY <1>9, <3>1
  <2>5. ASSUME NEW a \in Aimed(c), GetPage(a) = p + 1
        PROVE  a \in Part(c, 2)
    <3>1. a \in Nat /\ c.addr <= a /\ a <= c.addr + (s1 + s2) - 1
      BY <1>16, <1>17, <2>5
    <3>2. b + d <= a /\ a < b + d + d
      BY <1>9, <2>5, <3>1
    <3> QED BY <1>16, <1>17, <2>2, <3>1, <3>2
  <2> QED BY <2>1, <2>3, <2>4, <2>5
<1> QED BY <1>8, <1>10, <1>11, <1>12, <1>13, <1>14, <1>15 DEF s1, s2

-----------------------------------------------------------------------------
(* The inductive invariant.                                                  *)

Under == calls[h.task]
FirstCell == FirstOf(Under, h.part)

(* What a chip holds, counting what is only in the buffer while its sector is *)
(* erased and written back.                                                  *)
Content(chip, a) ==
  IF /\ h # Idle /\ h.pc \in {"erase", "back"}
     /\ Under.chip = chip /\ GetSector(a) = spi_mem_buff_sect_num
    THEN spi_mem_buff[a % SectorCells] ELSE cells[chip][a]

(* A call knows the cells it is meant for; those it takes for written are in  *)
(* pages that are marked dirty.                                               *)
CallsInv ==
  \A t \in Tasks : calls[t] # NoCall =>
    /\ calls[t].n <= writes
    /\ aimed[calls[t].n] = Aimed(calls[t])
    /\ \A a \in CellsFrom(calls[t].addr, calls[t].x) :
         a \in Aimed(calls[t]) /\ GetPage(a) \in spi_bit_map

(* The steps of spimem_write_h: a page is programmed when it is clean, and    *)
(* rewritten when it is dirty, by way of the buffer.                          *)
StepInv ==
  h # Idle =>
    /\ Under # NoCall
    /\ h.part = 2 => /\ Size2(Under) > 0
                     /\ \A a \in Part(Under, 1) : GetPage(a) \in spi_bit_map
    /\ h.pc = "program" => GetPage(FirstCell) \notin spi_bit_map
    /\ h.pc \in {"load", "erase", "back"} => GetPage(FirstCell) \in spi_bit_map
    /\ h.pc \in {"erase", "back"} /\ cut = 0
         => spi_mem_buff_sect_num = GetSector(FirstCell)
    /\ h.pc = "back" /\ cut = 0
         => \A a \in Cells : GetSector(a) = spi_mem_buff_sect_num
                               => cells[Under.chip][a] = {}

(* A page is dirty because a write is meant for a cell of it.                 *)
MarksInv ==
  /\ \A p \in spi_bit_map :
       \E m \in Written : m <= writes /\ \E a \in aimed[m] : GetPage(a) = p
  /\ \A m \in Written : m > writes => aimed[m] = {}

(* Clean pages are blank and no cell has two writes, in the buffer either.    *)
AtMostOne(S) == \A m, n \in S : m = n
ContentInv ==
  \A c \in Chips, a \in Cells : Tracked(c) =>
    /\ GetPage(a) \notin spi_bit_map => Content(c, a) = {} /\ cells[c][a] = {}
    /\ AtMostOne(Content(c, a)) /\ AtMostOne(cells[c][a])

(* A write that has a dirty page to itself is whole on a chip, as far as this *)
(* page goes.                                                                *)
KeptInv ==
  cut = 0 => \A p \in spi_bit_map, n \in Written : AloneOn(n, p) =>
    \E c \in Chips : \A a \in aimed[n] : GetPage(a) = p => n \in Content(c, a)

(* What was reported is in pages that are dirty.                              *)
ReportedInv ==
  \A a \in Cells : reported[a] # 0 =>
    a \in aimed[reported[a]] /\ GetPage(a) \in spi_bit_map

Inv == /\ TypeOK /\ CallsInv /\ StepInv /\ MarksInv
       /\ ContentInv /\ KeptInv /\ ReportedInv

-----------------------------------------------------------------------------
(* Type correctness.                                                         *)

(* What is known of a call that is in progress.                               *)
LEMMA CallFull ==
  ASSUME TypeOK, NEW t \in Tasks, calls[t] # NoCall
  PROVE  /\ calls[t] \in Full
         /\ calls[t].n \in Written /\ calls[t].addr \in Cells /\ calls[t].chip \in Chips
         /\ calls[t].size \in 1 .. CellsPerPage /\ calls[t].x \in -1 .. CellsPerPage
BY DEF TypeOK, CallRecords, Full

Running == [task : Tasks, pc : {"ready", "program", "load", "erase", "back"}, part : {1, 2}]

(* A step in progress knows its task, its part and its place.                 *)
LEMMA StepRecords ==
  /\ TypeOK /\ h # Idle => /\ h \in Running /\ h.task \in Tasks /\ h.part \in {1, 2}
                           /\ h.pc \in {"ready", "program", "load", "erase", "back"}
  /\ \A r \in Running : r # Idle
<1>1. ASSUME NEW r \in Running PROVE r # Idle
  <2>1. DOMAIN r = {"task", "pc", "part"} /\ DOMAIN Idle = {"task"}
    BY DEF Running, Idle
  <2>2. "pc" \in {"task", "pc", "part"} /\ "pc" \notin {"task"}
    OBVIOUS
  <2> QED BY <2>1, <2>2
<1> QED BY <1>1 DEF TypeOK, Steps, Running

(* The part of a call under way lies in one page of the memory.               *)
LEMMA UnderWay ==
  ASSUME TypeOK, StepInv, h # Idle
  PROVE  /\ h.task \in Tasks /\ Under \in Full /\ h.part \in {1, 2}
         /\ Under.n \in Written /\ Under.chip \in Chips
         /\ FirstCell \in Part(Under, h.part) /\ FirstCell \in Cells
         /\ \A a \in Part(Under, h.part) :
              a \in Cells /\ GetPage(a) = GetPage(FirstCell)
         /\ Part(Under, h.part)
              = {a \in Aimed(Under) : GetPage(a) = GetPage(FirstCell)}
         /\ GetSector(FirstCell) \in 0 .. Sectors - 1 /\ GetPage(FirstCell) \in Pages
<1>1. h.task \in Tasks /\ h.part \in {1, 2} /\ Under # NoCall
  BY StepRecords DEF StepInv
<1>2. Under \in Full /\ Under.n \in Written /\ Under.chip \in Chips
  BY <1>1, CallFull DEF Under
<1>3. h.part = 1 \/ Size2(Under) > 0
  BY <1>1 DEF StepInv
<1>4. /\ Aimed(Under) \subseteq Cells /\ FirstCell \in Part(Under, h.part)
      /\ Part(Under, h.part) = {a \in Aimed(Under) : GetPage(a) = GetPage(FirstCell)}
  BY <1>1, <1>2, <1>3, Parts DEF FirstCell
<1>5. FirstCell \in Cells /\ \A a \in Part(Under, h.part) :
                               a \in Cells /\ GetPage(a) = GetPage(FirstCell)
  BY <1>4
<1> QED BY <1>1, <1>2, <1>4, <1>5, CellPlace

(* A call goes on with the next chip, or ends and is reported.                *)
Marked(c, x, marks) ==
  \A a \in CellsFrom(c.addr, x) : a \in Aimed(c) /\ GetPage(a) \in marks
Moved(t) ==
  /\ calls[t] # NoCall
  /\ calls' \in [Tasks -> CallRecords] /\ reported' \in [Cells -> 0 .. MaxWrites]
  /\ \A u \in Tasks : u # t => calls'[u] = calls[u]
  /\ \/ calls'[t] = NoCall
     \/ /\ calls'[t].n = calls[t].n /\ calls'[t].addr = calls[t].addr
        /\ calls'[t].size = calls[t].size
        /\ Marked(calls[t], calls'[t].x, spi_bit_map')
  /\ \A a \in Cells :
       \/ reported'[a] = reported[a]
       \/ /\ reported'[a] = calls[t].n
          /\ a \in Aimed(calls[t]) /\ GetPage(a) \in spi_bit_map'

(* Going on to the next chip, or returning, is a move of the call.            *)
LEMMA MovedByNextChip ==
  ASSUME TypeOK, NEW t \in Tasks, calls[t] # NoCall, NEW x \in -1 .. CellsPerPage,
         NextChip(t, x), Marked(calls[t], x, spi_bit_map')
  PROVE  Moved(t)
<1> DEFINE c == calls[t]
<1>1. c \in Full /\ c.n \in Written /\ c.chip \in Chips /\ NChips \in Nat
  BY CallFull, ConstantsOK
<1>2. MaxWrites \in Nat /\ c.n \in 0 .. MaxWrites
  BY <1>1, ConstantsOK DEF Written
<1>3. CASE x < 0 \/ c.chip = NChips
  <2>1. /\ calls' = [calls EXCEPT ![t] = NoCall]
        /\ reported' = [a \in Cells |-> IF a \in CellsFrom(c.addr, x)
                                          THEN c.n ELSE reported[a]]
    BY <1>3 DEF NextChip
  <2>2. /\ calls' \in [Tasks -> CallRecords] /\ calls'[t] = NoCall
        /\ \A u \in Tasks : u # t => calls'[u] = calls[u]
    BY <2>1 DEF TypeOK, CallRecords
  <2>3. reported' \in [Cells -> 0 .. MaxWrites]
    BY <1>2, <2>1 DEF TypeOK
  <2>4. \A a \in Cells : reported'[a] = reported[a] \/
          (reported'[a] = c.n /\ a \in Aimed(c) /\ GetPage(a) \in spi_bit_map')
    BY <2>1 DEF Marked
  <2> QED BY <2>2, <2>3, <2>4 DEF Moved
<1>4. CASE ~(x < 0 \/ c.chip = NChips)
  <2> DEFINE e == [c EXCEPT !.chip = @ + 1, !.x = x]
  <2>1. reported' = reported /\ calls' = [calls EXCEPT ![t] = e]
    BY <1>4 DEF NextChip
  <2>2. c.chip + 1 \in Chips
    BY <1>1, <1>4 DEF Chips
  <2>3. e \in Full /\ e.n = c.n /\ e.addr = c.addr /\ e.size = c.size /\ e.x = x
    BY <1>1, <2>2 DEF Full
  <2> HIDE DEF e
  <2>4. /\ calls' \in [Tasks -> CallRecords] /\ calls'[t] = e
        /\ \A u \in Tasks : u # t => calls'[u] = calls[u]
    BY <2>1, <2>3 DEF TypeOK, CallRecords, Full
  <2> QED BY <2>1, <2>3, <2>4 DEF Moved, TypeOK
<1> QED BY <1>3, <1>4

(* It stays true to what it has written.                                     *)
LEMMA MovedKeeps ==
  ASSUME TypeOK, CallsInv, ReportedInv, NEW t \in Tasks, Moved(t),
         UNCHANGED <<aimed, writes>>, spi_bit_map \subseteq spi_bit_map'
  PROVE  CallsInv' /\ ReportedInv'
<1>1. aimed[calls[t].n] = Aimed(calls[t]) /\ calls[t].n <= writes
  BY DEF CallsInv, Moved
<1>2. CallsInv'
  <2> SUFFICES ASSUME NEW u \in Tasks, calls'[u] # NoCall
               PROVE  /\ calls'[u].n <= writes
                      /\ aimed[calls'[u].n] = Aimed(calls'[u])
                      /\ \A a \in CellsFrom(calls'[u].addr, calls'[u].x) :
                           a \in Aimed(calls'[u]) /\ GetPage(a) \in spi_bit_map'
    BY DEF CallsInv, Aimed, CellsFrom, Size1, Size2, GetPage
  <2>1. CASE u # t
    BY <2>1 DEF CallsInv, Moved
  <2>2. CASE u = t
    <3>1. /\ calls'[t].n = calls[t].n /\ calls'[t].addr = calls[t].addr
          /\ calls'[t].size = calls[t].size
          /\ Marked(calls[t], calls'[t].x, spi_bit_map')
      BY <2>2 DEF Moved
    <3>2. Aimed(calls'[t]) = Aimed(calls[t])
      BY <3>1 DEF Aimed, Size1, Size2
    <3> QED BY <1>1, <2>2, <3>1, <3>2 DEF Marked
  <2> QED BY <2>1, <2>2
<1>3. ReportedInv'
  <2> SUFFICES ASSUME NEW a \in Cells, reported'[a] # 0
               PROVE  a \in aimed[reported'[a]] /\ GetPage(a) \in spi_bit_map'
    BY DEF ReportedInv, GetPage
  <2>1. CASE reported'[a] = reported[a]
    BY <2>1 DEF ReportedInv
  <2>2. CASE /\ reported'[a] = calls[t].n
             /\ a \in Aimed(calls[t]) /\ GetPage(a) \in spi_bit_map'
    BY <1>1, <2>2
  <2> QED BY <2>1, <2>2 DEF Moved
<1> QED BY <1>2, <1>3

(* When a part fails, what the call takes for written is in dirty pages.      *)
LEMMA MovedByFailing ==
  ASSUME TypeOK, CallsInv, StepInv, h # Idle, spi_bit_map \subseteq spi_bit_map',
         NextChip(h.task, FailedIn(h.part, Under))
  PROVE  Moved(h.task)
<1>1. Under \in Full /\ h.part \in {1, 2} /\ Under # NoCall /\ h.task \in Tasks
  BY UnderWay DEF StepInv
<1>2. /\ Size1(Under) \in 1 .. Under.size /\ Part(Under, 1) \subseteq Aimed(Under)
      /\ Part(Under, 1) = CellsFrom(Under.addr, Size1(Under))
      /\ Under.size \in 1 .. CellsPerPage /\ Under.addr \in Cells
      /\ CellsPerPage \in Nat
  BY <1>1, Parts, ConstantsOK DEF Full
<1>3. Size1(Under) \in -1 .. CellsPerPage /\ -1 \in -1 .. CellsPerPage
  BY <1>2
<1>4. CellsFrom(Under.addr, -1) = {}
  BY <1>2, CellPlace DEF CellsFrom
<1>5. /\ FailedIn(h.part, Under) \in -1 .. CellsPerPage
      /\ Marked(Under, FailedIn(h.part, Under), spi_bit_map')
  <2>1. CASE h.part = 1
    BY <1>3, <1>4, <2>1 DEF FailedIn, Marked
  <2>2. CASE h.part = 2
    BY <1>2, <1>3, <2>2 DEF FailedIn, Marked, StepInv
  <2> QED BY <1>1, <2>1, <2>2
<1> QED BY <1>1, <1>5, MovedByNextChip DEF Under

(* A part that is done leads to the second part or to the next chip.          *)
LEMMA MovedByPartDone ==
  ASSUME TypeOK, CallsInv, StepInv, h # Idle, PartDone(h.task),
         spi_bit_map \subseteq spi_bit_map', GetPage(FirstCell) \in spi_bit_map'
  PROVE  /\ Moved(h.task)
         /\ \/ h' = Idle
            \/ /\ h.part = 1 /\ Size2(Under) > 0 /\ calls' = calls
               /\ h' \in Running /\ h'.task = h.task /\ h'.part = 2 /\ h'.pc = "ready"
<1> DEFINE c == Under
<1>1. /\ c \in Full /\ h.part \in {1, 2} /\ c # NoCall /\ h.task \in Tasks
      /\ \A a \in Part(c, h.part) : GetPage(a) = GetPage(FirstCell)
  BY UnderWay DEF StepInv
<1>2. /\ Size1(c) \in 1 .. c.size /\ Size2(c) \in 0 .. c.size - Size1(c)
      /\ c.size \in 1 .. CellsPerPage /\ CellsPerPage \in Nat
      /\ Aimed(c) = IF Size2(c) > 0 THEN Part(c, 1) \union Part(c, 2) ELSE Part(c, 1)
  BY <1>1, Parts, ConstantsOK DEF Full
<1>3. CASE h.part = 1 /\ Size2(c) > 0
  <2>1. h' = [h EXCEPT !.part = 2, !.pc = "ready"] /\ UNCHANGED <<calls, reported>>
    BY <1>3 DEF PartDone, Under
  <2>2. h \in Running
    BY StepRecords
  <2>3. h' \in Running /\ h'.task = h.task /\ h'.part = 2 /\ h'.pc = "ready"
    BY <2>1, <2>2 DEF Running
  <2>4. Marked(c, c.x, spi_bit_map')
    BY <1>1 DEF CallsInv, Marked, Under
  <2>5. Moved(h.task)
    BY <1>1, <2>1, <2>4 DEF Moved, Under, TypeOK
  <2> QED BY <1>3, <2>1, <2>3, <2>5
<1>4. CASE ~(h.part = 1 /\ Size2(c) > 0)
  <2> DEFINE x == Size1(c) + Size2(c)
  <2>1. h' = Idle /\ NextChip(h.task, x)
    BY <1>4 DEF PartDone, Return, Under
  <2>2. x \in -1 .. CellsPerPage
    BY <1>2
  <2>3. \A a \in Aimed(c) : GetPage(a) \in spi_bit_map'
    <3>1. CASE h.part = 1
      <4>1. Aimed(c) = Part(c, 1)
        BY <1>2, <1>4, <3>1
      <4> QED BY <1>1, <3>1, <4>1
    <3>2. CASE h.part = 2
      BY <1>1, <1>2, <3>2 DEF StepInv
    <3> QED BY <1>1, <3>1, <3>2
  <2>4. Marked(c, x, spi_bit_map')
    BY <2>3 DEF Marked, Aimed
  <2> HIDE DEF x
  <2>5. Moved(h.task)
    BY <1>1, <2>1, <2>2, <2>4, MovedByNextChip DEF Under
  <2> QED BY <2>1, <2>5
<1> QED BY <1>3, <1>4

(* The steps that leave chips, buffer and marks alone.                        *)
LEMMA SkipStep ==
  ASSUME TypeOK, CallsInv, NEW t \in Tasks, SkipChip(t)
  PROVE  Moved(t) /\ TypeOK' /\ h' = Idle
<1> DEFINE c == calls[t]
<1>1. c \in Full /\ c # NoCall /\ c.chip \in Chips /\ NChips \in Nat /\ c.x \in -1 .. CellsPerPage
  BY CallFull, ConstantsOK DEF SkipChip
<1>2. UNCHANGED <<cells, spi_bit_map, spi_mem_buff, spi_mem_buff_sect_num, health, h,
                  writes, resets, commands, faults, cut, aimed>> /\ h = Idle
  BY DEF SkipChip, chips, buffer, bounds
<1>3. Marked(c, c.x, spi_bit_map')
  BY <1>1, <1>2 DEF CallsInv, Marked
<1>4. Moved(t)
  <2>1. CASE c.chip < NChips
    <3> DEFINE e == [c EXCEPT !.chip = @ + 1]
    <3>1. reported' = reported /\ calls' = [calls EXCEPT ![t] = e]
      BY <2>1 DEF SkipChip
    <3>2. c.chip + 1 \in Chips
      BY <1>1, <2>1 DEF Chips
    <3>3. e \in Full /\ e.n = c.n /\ e.addr = c.addr /\ e.size = c.size /\ e.x = c.x
      BY <1>1, <3>2 DEF Full
    <3> HIDE DEF e
    <3>4. /\ calls' \in [Tasks -> CallRecords] /\ calls'[t] = e
          /\ \A u \in Tasks : u # t => calls'[u] = calls[u]
      BY <3>1, <3>3 DEF TypeOK, CallRecords, Full
    <3> QED BY <1>1, <1>3, <3>1, <3>3, <3>4 DEF Moved, TypeOK
  <2>2. CASE ~(c.chip < NChips)
    <3>1. NextChip(t, c.x)
      BY <2>2 DEF SkipChip
    <3> QED BY <1>1, <1>3, <3>1, MovedByNextChip
  <2> QED BY <2>1, <2>2
<1> QED BY <1>2, <1>4 DEF Moved, TypeOK

(* Taking the mutex keeps ranges and records.                                 *)
LEMMA MutexStep ==
  ASSUME TypeOK, CallsInv, NEW t \in Tasks, TakeMutex(t)
  PROVE  Moved(t) /\ TypeOK' /\ StepInv'
<1> DEFINE c == calls[t]
<1>1. /\ c \in Full /\ c # NoCall /\ c.addr \in Cells /\ CellsPerPage \in Nat
      /\ h = Idle
  BY CallFull, ConstantsOK DEF TakeMutex
<1>2. UNCHANGED <<cells, spi_bit_map, spi_mem_buff, spi_mem_buff_sect_num, health,
                  writes, resets, commands, cut, aimed>>
  BY DEF TakeMutex, chips, buffer, bounds
<1>3. faults' \in 0 .. MaxFaults
  BY ConstantsOK DEF TakeMutex, NoFault, Fault, TypeOK
<1>4. CASE h' = [task |-> t, pc |-> "ready", part |-> 1] /\ UNCHANGED <<calls, reported>>
  <2>1. Marked(c, c.x, spi_bit_map')
    BY <1>1, <1>2 DEF CallsInv, Marked
  <2>2. Moved(t)
    BY <1>1, <1>4, <2>1 DEF Moved, TypeOK
  <2>3. h' \in Running /\ h'.task = t /\ h'.part = 1 /\ h'.pc = "ready"
    BY <1>4 DEF Running
  <2>4. StepInv'
    BY <1>1, <1>4, <2>3 DEF StepInv, Under
  <2> QED BY <1>2, <1>3, <2>2, <2>3, <2>4 DEF Moved, TypeOK, Steps, Running
<1>5. CASE Return(t, -1)
  <2>1. CellsFrom(c.addr, -1) = {} /\ -1 \in -1 .. CellsPerPage
    BY <1>1, CellPlace DEF CellsFrom
  <2>2. Moved(t)
    BY <1>1, <1>5, <2>1, MovedByNextChip DEF Return, Marked
  <2>3. h' = Idle
    BY <1>5 DEF Return
  <2> QED BY <1>2, <1>3, <2>2, <2>3 DEF Moved, TypeOK, Steps, StepInv
<1> QED BY <1>4, <1>5 DEF TakeMutex

(* Waiting for the chip keeps ranges and records.                             *)
LEMMA ReadyStep ==
  ASSUME TypeOK, CallsInv, StepInv, NEW t \in Tasks, ReadyForCommand(t)
  PROVE  Moved(t) /\ TypeOK' /\ StepInv'
<1>1. /\ h # Idle /\ h.task = t /\ h.pc = "ready" /\ Under = calls[t] /\ Under # NoCall
      /\ h \in Running
  BY StepRecords DEF ReadyForCommand, At, Under, StepInv
<1>2. UNCHANGED <<cells, spi_bit_map, spi_mem_buff, spi_mem_buff_sect_num, health,
                  writes, resets, commands, cut, aimed>>
  BY DEF ReadyForCommand, chips, buffer, bounds
<1>3. faults' \in 0 .. MaxFaults
  BY ConstantsOK DEF ReadyForCommand, NoFault, Fault, TypeOK
<1>4. CASE /\ Goto(IF GetPage(FirstCell) \in spi_bit_map THEN "load" ELSE "program")
           /\ UNCHANGED <<calls, reported>>
  <2> DEFINE pc == IF GetPage(FirstCell) \in spi_bit_map THEN "load" ELSE "program"
  <2>1. Marked(Under, Under.x, spi_bit_map')
    BY <1>1, <1>2 DEF CallsInv, Marked
  <2>2. Moved(t)
    BY <1>1, <1>4, <2>1 DEF Moved, TypeOK
  <2>3. h' \in Running /\ h'.task = t /\ h'.part = h.part /\ h'.pc = pc
    BY <1>1, <1>4 DEF Running, Goto
  <2>4. Under' = Under /\ FirstCell' = FirstCell
    BY <1>1, <1>4, <2>3 DEF Under, FirstCell, FirstOf, Size1
  <2>5. StepInv'
    BY <1>1, <1>2, <1>4, <2>3, <2>4 DEF StepInv, Part
  <2> QED BY <1>2, <1>3, <2>2, <2>3, <2>5 DEF Moved, TypeOK, Steps, Running
<1>5. CASE Return(t, FailedIn(h.part, Under))
  <2>1. Moved(t)
    BY <1>1, <1>2, <1>5, MovedByFailing DEF Return
  <2>2. h' = Idle
    BY <1>5 DEF Return
  <2> QED BY <1>2, <1>3, <2>1, <2>2 DEF Moved, TypeOK, Steps, StepInv
<1> QED BY <1>1, <1>4, <1>5 DEF ReadyForCommand, FirstCell

-----------------------------------------------------------------------------
(* The steps that change chips, buffer or marks, and what they do to Content.  *)

Rewrites == h # Idle /\ h.pc \in {"erase", "back"}
(* Outside of a rewrite the content of a cell is what is on the chip.         *)
LEMMA Plain ==
  ASSUME NEW ch, NEW a
  PROVE  /\ ~Rewrites => Content(ch, a) = cells[ch][a]
         /\ ~Rewrites' => Content(ch, a)' = cells'[ch][a]
BY DEF Rewrites, Content

(* Programming a page that is free adds the value to the cells of the part.   *)
LEMMA WriteStep ==
  ASSUME TypeOK, CallsInv, StepInv, NEW t \in Tasks, WritePage(t)
  PROVE  /\ TypeOK' /\ Moved(t) /\ StepInv' /\ h # Idle /\ ~Rewrites /\ ~Rewrites'
         /\ UNCHANGED <<writes, aimed, cut, resets>>
         /\ GetPage(FirstCell) \notin spi_bit_map
         /\ spi_bit_map' = spi_bit_map \union {GetPage(FirstCell)}
         /\ \A ch \in Chips, a \in Cells :
              cells'[ch][a] = IF ch = Under.chip /\ a \in Part(Under, h.part)
                                THEN cells[ch][a] \union {Under.n} ELSE cells[ch][a]
<1>1. /\ h # Idle /\ h.task = t /\ h.pc = "program" /\ Under = calls[t] /\ Under # NoCall
      /\ h \in Running
  BY StepRecords DEF WritePage, At, Under, StepInv
<1>2. /\ Under \in Full /\ Under.n \in Written /\ Under.chip \in Chips
      /\ GetPage(FirstCell) \in Pages /\ GetPage(FirstCell) \notin spi_bit_map
  BY <1>1, UnderWay DEF StepInv
<1>3. UNCHANGED <<spi_mem_buff, spi_mem_buff_sect_num, health,
                  writes, resets, commands, cut, aimed>>
  BY DEF WritePage, buffer, bounds
<1>4. faults' \in 0 .. MaxFaults
  BY ConstantsOK DEF WritePage, NoFault, Fault, TypeOK
<1>5. spi_bit_map' = spi_bit_map \union {GetPage(FirstCell)}
  BY <1>1 DEF WritePage, SetPageDirty, FirstCell
<1> DEFINE programmed == [a \in Cells |-> IF a \in Part(Under, h.part)
                            THEN cells[Under.chip][a] \union {Under.n}
                            ELSE cells[Under.chip][a]]
<1>6. cells' = [cells EXCEPT ![Under.chip] = programmed]
  BY <1>1 DEF WritePage, Part
<1>7. programmed \in Contents
  BY <1>2 DEF TypeOK, Contents
<1>8. \A a \in Cells : programmed[a] = IF a \in Part(Under, h.part)
                         THEN cells[Under.chip][a] \union {Under.n}
                         ELSE cells[Under.chip][a]
  OBVIOUS
<1> HIDE DEF programmed
<1>9. cells' \in [Chips -> Contents] /\ cells'[Under.chip] = programmed
      /\ \A ch \in Chips : ch # Under.chip => cells'[ch] = cells[ch]
  BY <1>2, <1>6, <1>7 DEF TypeOK
<1>10. /\ Moved(t)
       /\ \/ h' = Idle
          \/ /\ h.part = 1 /\ Size2(Under) > 0 /\ calls' = calls
             /\ h' \in Running /\ h'.task = h.task /\ h'.part = 2 /\ h'.pc = "ready"
  <2>1. CASE PartDone(t)
    BY <1>1, <1>5, <2>1, MovedByPartDone
  <2>2. CASE Return(t, FailedIn(h.part, Under))
    BY <1>1, <1>5, <2>2, MovedByFailing DEF Return
  <2> QED BY <1>1, <2>1, <2>2 DEF WritePage
<1>11. StepInv'
  <2>1. CASE h' = Idle
    BY <2>1 DEF StepInv
  <2>2. CASE /\ h.part = 1 /\ Size2(Under) > 0 /\ calls' = calls
             /\ h' \in Running /\ h'.task = h.task /\ h'.part = 2 /\ h'.pc = "ready"
    <3>1. Under' = Under
      BY <2>2 DEF Under
    <3>2. \A a \in Part(Under, 1) : GetPage(a) \in spi_bit_map'
      BY <1>1, <1>5, <2>2, UnderWay
    <3> QED BY <1>1, <2>2, <3>1, <3>2 DEF StepInv, Part, FirstOf, SizeOf, Size1, Size2
  <2> QED BY <1>10, <2>1, <2>2
<1>12. TypeOK'
  <2>1. h' \in Steps
    BY <1>10 DEF Steps, Running
  <2>2. spi_bit_map' \subseteq Pages
    BY <1>2, <1>5 DEF TypeOK
  <2> QED BY <1>3, <1>4, <1>9, <1>10, <2>1, <2>2 DEF TypeOK, Moved
<1>13. ~Rewrites /\ ~Rewrites'
  BY <1>1, <1>10 DEF Rewrites
<1> QED BY <1>1, <1>2, <1>3, <1>5, <1>8, <1>9, <1>10, <1>11, <1>12, <1>13

(* The buffer after a load that succeeds.                                     *)
LEMMA BufferLoaded ==
  ASSUME TypeOK, StepInv, h # Idle
  PROVE  LET sect == GetSector(FirstCell)
             buff == Update(Loaded(Under.chip, sect, PagesPerSector), sect, Under, h.part)
         IN /\ buff \in [Offsets -> SUBSET Written]
            /\ \A a \in Cells : GetSector(a) = sect =>
                 \/ buff[a % SectorCells] = cells[Under.chip][a]
                 \/ /\ buff[a % SectorCells] = {Under.n} /\ a \in Part(Under, h.part)
                    /\ GetPage(FirstCell) * PagesPerSector = sect
<1> DEFINE sect == GetSector(FirstCell)
           loaded == Loaded(Under.chip, sect, PagesPerSector)
           buff == Update(loaded, sect, Under, h.part)
           size == SizeOf(Under, h.part)
           index == FirstCell % SectorCells
<1>1. /\ Under.n \in Written /\ Under.chip \in Chips /\ FirstCell \in Cells
      /\ sect \in 0 .. Sectors - 1
  BY UnderWay
<1>2. loaded \in [Offsets -> SUBSET Written]
      /\ \A k \in Offsets : loaded[k] = cells[Under.chip][sect * SectorCells + k]
  <2>1. \A k \in Offsets : k \div CellsPerPage < PagesPerSector
    <3>1. CellsPerPage \in Nat \ {0} /\ PagesPerSector \in Nat
      BY ConstantsOK
    <3> SUFFICES ASSUME NEW k \in Offsets
                 PROVE  k \div CellsPerPage < PagesPerSector
      OBVIOUS
    <3>2. k \div CellsPerPage \in 0 .. PagesPerSector - 1
      BY <3>1, DivBelow, Geometry DEF Offsets
    <3> QED BY <3>1, <3>2
  <2>2. \A k \in Offsets : sect * SectorCells + k \in Cells
    BY <1>1, CellAt
  <2>3. loaded = [k \in Offsets |-> cells[Under.chip][sect * SectorCells + k]]
    BY <2>1 DEF Loaded
  <2>4. cells[Under.chip] \in [Cells -> SUBSET Written]
    BY <1>1 DEF TypeOK, Contents
  <2> QED BY <2>2, <2>3, <2>4
<1> HIDE DEF loaded
<1>3. buff = IF GetPage(FirstCell) * PagesPerSector = sect
               THEN [k \in Offsets |-> IF k \in CellsFrom(index, size)
                                         THEN {Under.n} ELSE loaded[k]]
               ELSE loaded
  BY DEF Update, FirstCell
<1>4. buff \in [Offsets -> SUBSET Written]
  BY <1>1, <1>2, <1>3
<1>5. ASSUME NEW a \in Cells, GetSector(a) = sect
      PROVE  \/ buff[a % SectorCells] = cells[Under.chip][a]
             \/ /\ buff[a % SectorCells] = {Under.n} /\ a \in Part(Under, h.part)
                /\ GetPage(FirstCell) * PagesPerSector = sect
  <2> DEFINE k == a % SectorCells
             D == SectorCells
  <2>1. /\ k \in Offsets /\ a = D * sect + k /\ a \in Nat
        /\ FirstCell = D * sect + index /\ index \in Offsets /\ FirstCell \in Nat
    BY <1>1, <1>5, CellPlace
  <2>2. D * sect = sect * D /\ D * sect \in Nat /\ k \in Nat /\ index \in Nat
    BY <1>1, <2>1, Geometry, MulNat DEF Offsets
  <2>3. loaded[k] = cells[Under.chip][a]
    <3>1. sect * SectorCells + k = a
      BY <2>1, <2>2
    <3> QED BY <1>2, <2>1, <3>1
  <2>4. k \in CellsFrom(index, size) => a \in Part(Under, h.part)
    <3>1. size \in Int
      <4>1. Under \in Full /\ h.part \in {1, 2}
        BY UnderWay
      <4>2. Size1(Under) \in 1 .. Under.size /\ Size2(Under) \in 0 .. Under.size - Size1(Under)
        BY <4>1, Parts
      <4> QED BY <4>1, <4>2 DEF SizeOf, Full
    <3> HIDE DEF size, k, index, D, sect
    <3>2. ASSUME k \in index .. index + size - 1
          PROVE  a \in FirstCell .. FirstCell + size - 1
      BY <2>1, <2>2, <3>1, <3>2
    <3> QED BY <3>2 DEF CellsFrom, Part, FirstCell, size
  <2> QED BY <1>3, <2>1, <2>3, <2>4
<1> QED BY <1>4, <1>5 DEF loaded

(* Loading a sector and updating it in the buffer leaves the chip as it is.   *)
LEMMA LoadStep ==
  ASSUME TypeOK, CallsInv, StepInv, NEW t \in Tasks, LoadAndUpdate(t)
  PROVE  /\ TypeOK' /\ Moved(t) /\ StepInv' /\ h # Idle /\ ~Rewrites
         /\ UNCHANGED <<writes, aimed, spi_bit_map, resets, cells>>
         /\ cut' \in {cut, 1}
         /\ cut' = 0 => \A ch \in Chips, a \in Cells :
              \/ Content(ch, a)' = cells[ch][a]
              \/ /\ Content(ch, a)' = {Under.n} /\ a \in Part(Under, h.part)
                 /\ GetPage(FirstCell) * PagesPerSector = GetSector(FirstCell)
<1>1. /\ h # Idle /\ h.task = t /\ h.pc = "load" /\ Under = calls[t] /\ Under # NoCall
      /\ h \in Running /\ ~Rewrites
  BY StepRecords DEF LoadAndUpdate, At, Under, StepInv, Rewrites
<1>2. /\ Under \in Full /\ Under.n \in Written /\ Under.chip \in Chips
      /\ GetPage(FirstCell) \in Pages /\ GetPage(FirstCell) \in spi_bit_map
      /\ GetSector(FirstCell) \in 0 .. Sectors - 1 /\ FirstCell \in Cells
  BY <1>1, UnderWay DEF StepInv
<1>3. UNCHANGED <<cells, spi_bit_map, health, calls, writes, resets, commands, aimed,
                  reported>>
  BY DEF LoadAndUpdate, chips, bounds
<1>4. h' \in Running /\ h'.task = t /\ h'.part = h.part /\ h'.pc = "erase"
  BY <1>1 DEF LoadAndUpdate, Goto, Running
<1>5. Under' = Under /\ FirstCell' = FirstCell
  BY <1>1, <1>3, <1>4 DEF Under, FirstCell, FirstOf, Size1
<1>6. Marked(Under, Under.x, spi_bit_map')
  BY <1>1, <1>3 DEF CallsInv, Marked
<1>7. Moved(t)
  BY <1>1, <1>3, <1>6 DEF Moved, TypeOK
<1> DEFINE sect == GetSector(FirstCell)
<1>8. CASE /\ NoFault /\ UNCHANGED cut
           /\ spi_mem_buff' = Update(Loaded(Under.chip, sect, PagesPerSector), sect,
                                     Under, h.part)
           /\ spi_mem_buff_sect_num' = sect
  <2>1. /\ spi_mem_buff' \in [Offsets -> SUBSET Written]
        /\ \A a \in Cells : GetSector(a) = sect =>
             \/ spi_mem_buff'[a % SectorCells] = cells[Under.chip][a]
             \/ /\ spi_mem_buff'[a % SectorCells] = {Under.n} /\ a \in Part(Under, h.part)
                /\ GetPage(FirstCell) * PagesPerSector = sect
    BY <1>1, <1>8, BufferLoaded
  <2>2. StepInv'
    BY <1>1, <1>2, <1>3, <1>4, <1>5, <1>8 DEF StepInv, Part
  <2>3. TypeOK'
    BY <1>2, <1>3, <1>4, <1>8, <2>1 DEF TypeOK, Steps, Running, NoFault
  <2>4. ASSUME NEW ch \in Chips, NEW a \in Cells
        PROVE  \/ Content(ch, a)' = cells[ch][a]
               \/ /\ Content(ch, a)' = {Under.n} /\ a \in Part(Under, h.part)
                  /\ GetPage(FirstCell) * PagesPerSector = sect
    <3>1. Content(ch, a)' = IF Under.chip = ch /\ GetSector(a) = sect
                              THEN spi_mem_buff'[a % SectorCells] ELSE cells[ch][a]
      <4>1. h' # Idle
        BY <1>4, StepRecords
      <4> QED BY <1>3, <1>4, <1>5, <1>8, <4>1 DEF Content
    <3> QED BY <2>1, <3>1
  <2> QED BY <1>1, <1>3, <1>7, <1>8, <2>2, <2>3, <2>4
<1>9. CASE /\ Fault /\ cut' = 1 /\ UNCHANGED spi_mem_buff_sect_num
           /\ \E pages \in 0 .. PagesPerSector - 1 :
                spi_mem_buff' = Update(Loaded(Under.chip, sect, pages),
                                       spi_mem_buff_sect_num, Under, h.part)
  <2>1. PICK pages \in 0 .. PagesPerSector - 1 :
          spi_mem_buff' = Update(Loaded(Under.chip, sect, pages),
                                 spi_mem_buff_sect_num, Under, h.part)
    BY <1>9
  <2>2. Loaded(Under.chip, sect, pages) \in [Offsets -> SUBSET Written]
    <3>1. \A k \in Offsets : sect * SectorCells + k \in Cells
      BY <1>2, CellAt
    <3>2. cells[Under.chip] \in [Cells -> SUBSET Written]
      BY <1>2 DEF TypeOK, Contents
    <3> HIDE DEF sect
    <3> QED BY <3>1, <3>2 DEF Loaded, TypeOK
  <2> HIDE DEF sect
  <2>3. spi_mem_buff' \in [Offsets -> SUBSET Written]
    BY <1>2, <2>1, <2>2 DEF Update
  <2>4. StepInv'
    BY <1>1, <1>2, <1>3, <1>4, <1>5, <1>9 DEF StepInv, Part
  <2>5. TypeOK'
    BY <1>2, <1>3, <1>4, <1>9, <2>3, ConstantsOK DEF TypeOK, Steps, Running, Fault
  <2> QED BY <1>1, <1>3, <1>7, <1>9, <2>4, <2>5
<1> QED BY <1>1, <1>8, <1>9 DEF LoadAndUpdate, FirstCell

(* The erasure of a sector loses nothing that was loaded, unless it is cut.   *)
LEMMA EraseStep ==
  ASSUME TypeOK, CallsInv, StepInv, NEW t \in Tasks, EraseSector(t)
  PROVE  /\ TypeOK' /\ Moved(t) /\ StepInv' /\ h # Idle /\ Rewrites
         /\ UNCHANGED <<writes, aimed, spi_bit_map, resets>>
         /\ cut' \in {cut, 1}
         /\ cut' = 0 => \A ch \in Chips, a \in Cells :
              /\ Content(ch, a)' = Content(ch, a)
              /\ cells'[ch][a] = cells[ch][a] \/ cells'[ch][a] = {}
<1>1. /\ h # Idle /\ h.task = t /\ h.pc = "erase" /\ Under = calls[t] /\ Under # NoCall
      /\ h \in Running /\ Rewrites
  BY StepRecords DEF EraseSector, At, Under, StepInv, Rewrites
<1>2. /\ Under.chip \in Chips /\ GetPage(FirstCell) \in spi_bit_map
      /\ cut = 0 => spi_mem_buff_sect_num = GetSector(FirstCell)
  BY <1>1, UnderWay DEF StepInv
<1>3. UNCHANGED <<spi_bit_map, spi_mem_buff, spi_mem_buff_sect_num, health, calls,
                  writes, resets, commands, aimed, reported>>
  BY DEF EraseSector, buffer, bounds
<1>4. /\ h' \in Running /\ h'.task = t /\ h'.part = h.part /\ h'.pc = "back"
      /\ h' # Idle
  BY <1>1, StepRecords DEF EraseSector, Goto, Running
<1>5. Under' = Under /\ FirstCell' = FirstCell
  BY <1>1, <1>3, <1>4 DEF Under, FirstCell, FirstOf, Size1
<1>6. Marked(Under, Under.x, spi_bit_map')
  BY <1>1, <1>3 DEF CallsInv, Marked
<1>7. Moved(t)
  BY <1>1, <1>3, <1>6 DEF Moved, TypeOK
<1> DEFINE sect == GetSector(FirstCell)
           erased == [a \in Cells |-> IF GetSector(a) = sect THEN {}
                                                             ELSE cells[Under.chip][a]]
<1>8. CASE NoFault /\ UNCHANGED cut /\ cells' = [cells EXCEPT ![Under.chip] = erased]
  <2>1. erased \in Contents
    BY <1>2 DEF TypeOK, Contents
  <2>2. \A a \in Cells : erased[a] = IF GetSector(a) = sect THEN {}
                                                            ELSE cells[Under.chip][a]
    OBVIOUS
  <2> HIDE DEF erased, sect
  <2>3. cells' \in [Chips -> Contents] /\ cells'[Under.chip] = erased
        /\ \A ch \in Chips : ch # Under.chip => cells'[ch] = cells[ch]
    BY <1>2, <1>8, <2>1 DEF TypeOK
  <2>4. StepInv'
    <3>1. cut' = 0 => spi_mem_buff_sect_num' = GetSector(FirstCell)'
      BY <1>2, <1>3, <1>5, <1>8 DEF GetSector
    <3>2. cut' = 0 => \A a \in Cells : GetSector(a) = spi_mem_buff_sect_num'
                                         => cells'[Under.chip][a] = {}
      BY <1>2, <1>3, <1>8, <2>2, <2>3 DEF sect
    <3> QED BY <1>1, <1>2, <1>3, <1>4, <1>5, <3>1, <3>2 DEF StepInv, Part, GetSector
  <2>5. TypeOK'
    BY <1>3, <1>4, <1>8, <2>3 DEF TypeOK, Steps, Running, NoFault
  <2>6. ASSUME cut = 0, NEW ch \in Chips, NEW a \in Cells
        PROVE  /\ Content(ch, a)' = Content(ch, a)
               /\ cells'[ch][a] = cells[ch][a] \/ cells'[ch][a] = {}
    <3>1. cells'[ch][a] = IF ch = Under.chip /\ GetSector(a) = sect THEN {} ELSE cells[ch][a]
      BY <2>2, <2>3
    <3>2. Content(ch, a)' = IF Under.chip = ch /\ GetSector(a) = sect
                              THEN spi_mem_buff[a % SectorCells] ELSE cells'[ch][a]
      BY <1>2, <1>3, <1>4, <1>5, <2>6 DEF Content, sect
    <3>3. Content(ch, a) = IF Under.chip = ch /\ GetSector(a) = sect
                             THEN spi_mem_buff[a % SectorCells] ELSE cells[ch][a]
      BY <1>1, <1>2, <2>6 DEF Content, sect
    <3> QED BY <3>1, <3>2, <3>3
  <2> QED BY <1>1, <1>3, <1>7, <1>8, <2>4, <2>5, <2>6
<1>9. CASE Fault /\ cut' = 1 /\ UNCHANGED cells
  <2>1. StepInv'
    BY <1>1, <1>2, <1>3, <1>4, <1>5, <1>9 DEF StepInv, Part
  <2>2. TypeOK'
    BY <1>3, <1>4, <1>9, ConstantsOK DEF TypeOK, Steps, Running, Fault
  <2> QED BY <1>1, <1>3, <1>7, <1>9, <2>1, <2>2
<1> QED BY <1>1, <1>8, <1>9 DEF EraseSector, FirstCell

(* Writing the sector back puts the content on the chip, unless it is cut.    *)
LEMMA BackStep ==
  ASSUME TypeOK, CallsInv, StepInv, NEW t \in Tasks, WriteSectorBack(t)
  PROVE  /\ TypeOK' /\ Moved(t) /\ StepInv' /\ h # Idle /\ Rewrites /\ ~Rewrites'
         /\ UNCHANGED <<writes, aimed, spi_bit_map, resets>>
         /\ cut' \in {cut, 1}
         /\ cut' = 0 => \A ch \in Chips, a \in Cells : cells'[ch][a] = Content(ch, a)
<1>1. /\ h # Idle /\ h.task = t /\ h.pc = "back" /\ Under = calls[t] /\ Under # NoCall
      /\ h \in Running /\ Rewrites
  BY StepRecords DEF WriteSectorBack, At, Under, StepInv, Rewrites
<1>2. /\ Under.chip \in Chips /\ GetPage(FirstCell) \in spi_bit_map
      /\ cut = 0 => \A a \in Cells : GetSector(a) = spi_mem_buff_sect_num
                                       => cells[Under.chip][a] = {}
  BY <1>1, UnderWay DEF StepInv
<1>3. UNCHANGED <<spi_bit_map, spi_mem_buff, spi_mem_buff_sect_num, health,
                  writes, resets, commands, aimed>>
  BY DEF WriteSectorBack, buffer, bounds
<1>4. /\ Moved(t)
      /\ \/ h' = Idle
         \/ /\ h.part = 1 /\ Size2(Under) > 0 /\ calls' = calls
            /\ h' \in Running /\ h'.task = h.task /\ h'.part = 2 /\ h'.pc = "ready"
  BY <1>1, <1>2, <1>3, MovedByPartDone DEF WriteSectorBack
<1>5. StepInv'
  <2>1. CASE h' = Idle
    BY <2>1 DEF StepInv
  <2>2. CASE /\ h.part = 1 /\ Size2(Under) > 0 /\ calls' = calls
             /\ h' \in Running /\ h'.task = h.task /\ h'.part = 2 /\ h'.pc = "ready"
    <3>1. Under' = Under
      BY <2>2 DEF Under
    <3>2. \A a \in Part(Under, 1) : GetPage(a) \in spi_bit_map'
      BY <1>1, <1>2, <1>3, <2>2, UnderWay
    <3> QED BY <1>1, <2>2, <3>1, <3>2 DEF StepInv, Part, FirstOf, SizeOf, Size1, Size2
  <2> QED BY <1>4, <2>1, <2>2
<1>6. h' \in Steps /\ ~Rewrites'
  BY <1>4 DEF Steps, Running, Rewrites
<1>7. ASSUME NEW pages \in Nat, cells' = [cells EXCEPT ![Under.chip] = WrittenBack(Under.chip, pages)]
      PROVE  /\ cells' \in [Chips -> Contents]
             /\ \A ch \in Chips, a \in Cells : cells'[ch][a] =
                  IF /\ ch = Under.chip /\ GetSector(a) = spi_mem_buff_sect_num
                     /\ (a % SectorCells) \div CellsPerPage < pages
                    THEN cells[ch][a] \union spi_mem_buff[a % SectorCells]
                    ELSE cells[ch][a]
  <2> DEFINE back == WrittenBack(Under.chip, pages)
  <2>1. \A a \in Cells : a % SectorCells \in Offsets
    BY CellPlace
  <2>2. /\ back \in Contents
        /\ \A a \in Cells : back[a] =
             IF GetSector(a) = spi_mem_buff_sect_num
                  /\ (a % SectorCells) \div CellsPerPage < pages
               THEN cells[Under.chip][a] \union spi_mem_buff[a % SectorCells]
               ELSE cells[Under.chip][a]
    BY <1>2, <2>1 DEF WrittenBack, TypeOK, Contents
  <2> HIDE DEF back
  <2>3. cells' \in [Chips -> Contents] /\ cells'[Under.chip] = back
        /\ \A ch \in Chips : ch # Under.chip => cells'[ch] = cells[ch]
    BY <1>2, <1>7, <2>2 DEF TypeOK, back
  <2> QED BY <2>2, <2>3
<1>8. CASE /\ NoFault /\ UNCHANGED cut
           /\ cells' = [cells EXCEPT ![Under.chip] = WrittenBack(Under.chip, PagesPerSector)]
  <2>1. PagesPerSector \in Nat
    BY ConstantsOK
  <2>2. TypeOK'
    BY <1>3, <1>4, <1>6, <1>7, <1>8, <2>1 DEF TypeOK, Moved, NoFault
  <2>3. ASSUME cut = 0, NEW ch \in Chips, NEW a \in Cells
        PROVE  cells'[ch][a] = Content(ch, a)
    <3>1. (a % SectorCells) \div CellsPerPage < PagesPerSector
      BY CellPlace
    <3>2. cells'[ch][a] = IF ch = Under.chip /\ GetSector(a) = spi_mem_buff_sect_num
                            THEN cells[ch][a] \union spi_mem_buff[a % SectorCells]
                            ELSE cells[ch][a]
      BY <1>7, <1>8, <2>1, <3>1
    <3>3. Content(ch, a) = IF ch = Under.chip /\ GetSector(a) = spi_mem_buff_sect_num
                             THEN spi_mem_buff[a % SectorCells] ELSE cells[ch][a]
      BY <1>1 DEF Content
    <3> QED BY <1>2, <2>3, <3>2, <3>3
  <2> QED BY <1>1, <1>3, <1>4, <1>5, <1>6, <1>8, <2>2, <2>3
<1>9. CASE /\ Fault /\ cut' = 1
           /\ \E pages \in 0 .. PagesPerSector - 1 :
                cells' = [cells EXCEPT ![Under.chip] = WrittenBack(Under.chip, pages)]
  <2>1. PICK pages \in 0 .. PagesPerSector - 1 :
          cells' = [cells EXCEPT ![Under.chip] = WrittenBack(Under.chip, pages)]
    BY <1>9
  <2>3. cells' \in [Chips -> Contents]
    <3>1. pages \in Nat
      BY <2>1, ConstantsOK
    <3> QED BY <1>7, <2>1, <3>1
  <2>4. faults' \in 0 .. MaxFaults /\ cut' = 1
    BY <1>9, ConstantsOK DEF Fault, TypeOK
  <2>2. TypeOK'
    BY <1>3, <1>4, <1>6, <2>3, <2>4 DEF TypeOK, Moved
  <2> QED BY <1>1, <1>3, <1>4, <1>5, <1>6, <1>9, <2>2
<1> QED BY <1>1, <1>8, <1>9 DEF WriteSectorBack

-----------------------------------------------------------------------------
(* The invariant, action by action.                                          *)

(* The inductive invariant holds at the start.                                *)
LEMMA InvInit == Init => Inv
<1> SUFFICES ASSUME Init PROVE Inv
  OBVIOUS
<1>1. TypeOK
  <2>1. Blank \in Contents
    BY DEF Blank, Contents
  <2>2. cells = [c \in Chips |-> Blank]
    BY DEF Init
  <2>3. cells \in [Chips -> Contents]
    BY <2>1, <2>2
  <2>4. spi_mem_buff_sect_num \in 0 .. Sectors - 1 /\ health \subseteq Chips
    BY ConstantsOK DEF Init, Chips
  <2> QED BY <2>3, <2>4, ConstantsOK DEF Init, TypeOK, CallRecords, Steps, Written
<1>2. CallsInv /\ StepInv /\ MarksInv /\ ReportedInv /\ KeptInv
  BY DEF Init, CallsInv, StepInv, MarksInv, ReportedInv, KeptInv, Written
<1>3. \A c \in Chips, a \in Cells : cells[c][a] = {} /\ Content(c, a) = {}
  BY Plain DEF Init, Blank, Rewrites
<1>4. ContentInv
  BY <1>3 DEF ContentInv, AtMostOne
<1> QED BY <1>1, <1>2, <1>4 DEF Inv

(* The beginning of a call keeps the invariant.                               *)
LEMMA InvByCall ==
  ASSUME Inv, NEW t \in Tasks, Call(t)
  PROVE  Inv'
<1>1. /\ h = Idle /\ writes < MaxWrites /\ writes' = writes + 1
      /\ writes \in Nat /\ MaxWrites \in Nat /\ writes + 1 \in Written
  BY ConstantsOK DEF Call, Inv, TypeOK, Written
<1>2. PICK a \in Cells, size \in 1 .. CellsPerPage :
        LET c == [n |-> writes + 1, addr |-> a, size |-> size, chip |-> 1, x |-> -1]
        IN /\ calls' = [calls EXCEPT ![t] = c]
           /\ aimed' = [aimed EXCEPT ![writes + 1] = CellsFrom(a, Size1(c) + Size2(c))]
  BY DEF Call
<1> DEFINE c == [n |-> writes + 1, addr |-> a, size |-> size, chip |-> 1, x |-> -1]
<1>3. /\ c \in Full /\ c.n = writes + 1 /\ c.x = -1 /\ c.addr \in Cells
      /\ CellsFrom(a, Size1(c) + Size2(c)) = Aimed(c)
  BY <1>1, ConstantsOK DEF Full, Aimed, Chips
<1>4. calls' = [calls EXCEPT ![t] = c] /\ aimed' = [aimed EXCEPT ![writes + 1] = Aimed(c)]
  BY <1>2, <1>3
<1> HIDE DEF c
<1>5. UNCHANGED <<cells, spi_bit_map, spi_mem_buff, spi_mem_buff_sect_num, health, h,
                  faults, resets, commands, cut, reported>>
  BY DEF Call, chips, buffer
<1>6. Aimed(c) \subseteq Cells /\ CellsFrom(c.addr, c.x) = {}
  <2>1. Aimed(c) \subseteq Cells
    BY <1>3, Parts
  <2>2. c.addr \in Nat
    BY <1>3, CellPlace
  <2> QED BY <1>3, <2>1, <2>2 DEF CellsFrom
<1>7. /\ calls' \in [Tasks -> CallRecords] /\ calls'[t] = c
      /\ \A u \in Tasks : u # t => calls'[u] = calls[u]
      /\ aimed' \in [Written -> SUBSET Cells] /\ aimed'[writes + 1] = Aimed(c)
      /\ \A n \in Written : n # writes + 1 => aimed'[n] = aimed[n]
  BY <1>1, <1>3, <1>4, <1>6 DEF Inv, TypeOK, CallRecords, Full, Written
<1>8. TypeOK'
  BY <1>1, <1>5, <1>7 DEF Inv, TypeOK, Written
<1>9. CallsInv'
  <2> SUFFICES ASSUME NEW u \in Tasks, calls'[u] # NoCall
               PROVE  /\ calls'[u].n <= writes'
                      /\ aimed'[calls'[u].n] = Aimed(calls'[u])
                      /\ \A b \in CellsFrom(calls'[u].addr, calls'[u].x) :
                           b \in Aimed(calls'[u]) /\ GetPage(b) \in spi_bit_map'
    BY DEF CallsInv, Aimed, CellsFrom, Size1, Size2, GetPage
  <2>1. CASE u = t
    BY <1>1, <1>3, <1>6, <1>7, <2>1
  <2>2. CASE u # t
    <3>1. calls'[u] = calls[u] /\ calls[u].n \in Written /\ calls[u].n <= writes
          /\ calls[u].n \in Nat
      BY <1>7, <2>2, CallFull DEF Inv, CallsInv, Written
    <3>2. calls[u].n # writes + 1 /\ calls[u].n <= writes'
      BY <1>1, <3>1
    <3> QED BY <1>5, <1>7, <3>1, <3>2 DEF Inv, CallsInv
  <2> QED BY <2>1, <2>2
<1>10. StepInv'
  BY <1>1, <1>5 DEF StepInv
<1>11. aimed[writes + 1] = {}
  BY <1>1 DEF Inv, MarksInv
<1>12. MarksInv'
  <2>1. \A p \in spi_bit_map :
          \E m \in Written : m <= writes' /\ \E b \in aimed'[m] : GetPage(b) = p
    <3> SUFFICES ASSUME NEW p \in spi_bit_map
                 PROVE  \E m \in Written : m <= writes' /\ \E b \in aimed'[m] : GetPage(b) = p
      OBVIOUS
    <3>1. PICK m \in Written : m <= writes /\ \E b \in aimed[m] : GetPage(b) = p
      BY DEF Inv, MarksInv
    <3>2. m # writes + 1 /\ m <= writes'
      BY <1>1, <3>1 DEF Written
    <3> QED BY <1>7, <3>1, <3>2
  <2>2. \A m \in Written : m > writes' => aimed'[m] = {}
    <3> SUFFICES ASSUME NEW m \in Written, m > writes' PROVE aimed'[m] = {}
      OBVIOUS
    <3>1. m # writes + 1 /\ m > writes
      BY <1>1 DEF Written
    <3> QED BY <1>7, <3>1 DEF Inv, MarksInv
  <2> QED BY <1>5, <2>1, <2>2 DEF MarksInv, GetPage
<1>13. \A ch, b : Content(ch, b)' = cells[ch][b] /\ Content(ch, b) = cells[ch][b]
  BY <1>1, <1>5, Plain DEF Rewrites
<1>14. ContentInv'
  BY <1>5, <1>13 DEF Inv, ContentInv, Tracked, AtMostOne, GetPage
<1>15. KeptInv'
  <2> SUFFICES ASSUME cut = 0, NEW p \in spi_bit_map, NEW n \in Written, AloneOn(n, p)'
               PROVE  \E ch \in Chips : \A b \in aimed'[n] :
                        GetPage(b) = p => n \in Content(ch, b)'
    BY <1>5 DEF KeptInv, GetPage
  <2>1. \A m \in Written \ {n} : \A b \in aimed'[m] : GetPage(b) # p
    BY DEF AloneOn, GetPage, Written
  <2>2. PICK m \in Written : m <= writes /\ \E b \in aimed[m] : GetPage(b) = p
    BY DEF Inv, MarksInv
  <2>3. m # writes + 1
    BY <1>1, <2>2 DEF Written
  <2>4. n # writes + 1
    BY <1>7, <2>1, <2>2, <2>3
  <2>5. AloneOn(n, p)
    <3>1. \A k \in Written : aimed[k] \subseteq aimed'[k]
      BY <1>7, <1>11
    <3> QED BY <2>1, <3>1 DEF AloneOn, Written
  <2>6. PICK ch \in Chips : \A b \in aimed[n] : GetPage(b) = p => n \in Content(ch, b)
    BY <2>5 DEF Inv, KeptInv
  <2> QED BY <1>7, <1>13, <2>4, <2>6
<1>16. ReportedInv'
  <2> SUFFICES ASSUME NEW b \in Cells, reported[b] # 0
               PROVE  b \in aimed'[reported[b]] /\ GetPage(b) \in spi_bit_map
    BY <1>5 DEF ReportedInv, GetPage
  <2>1. b \in aimed[reported[b]] /\ GetPage(b) \in spi_bit_map
    BY DEF Inv, ReportedInv
  <2>2. reported[b] \in Written /\ reported[b] # writes + 1
    BY <1>11, <2>1 DEF Inv, TypeOK, Written
  <2> QED BY <1>7, <2>1, <2>2
<1> QED BY <1>8, <1>9, <1>10, <1>12, <1>14, <1>15, <1>16 DEF Inv

(* A change of the health of a chip keeps the invariant.                      *)
LEMMA InvByHealth ==
  ASSUME Inv, SetObcVariable \/ ResolutionSequence14
  PROVE  Inv'
<1>1. PICK v \in SUBSET Chips : SetHealth(v)
  <2>1. \A k \in Chips : k .. NChips \subseteq Chips
    BY ConstantsOK DEF Chips
  <2> QED BY <2>1 DEF SetObcVariable, ResolutionSequence14, Inv, TypeOK
<1>2. /\ UNCHANGED <<cells, spi_bit_map, spi_mem_buff, spi_mem_buff_sect_num, calls, h,
                     writes, resets, faults, cut, aimed, reported>>
      /\ commands' \in 0 .. MaxCommands /\ health' \subseteq Chips
  BY <1>1, ConstantsOK DEF SetHealth, chips, buffer, observers, Inv, TypeOK
<1>3. TypeOK'
  BY <1>2 DEF Inv, TypeOK
<1>4. CallsInv' /\ StepInv' /\ MarksInv' /\ ReportedInv'
  BY <1>2 DEF Inv, CallsInv, StepInv, MarksInv, ReportedInv, Under, FirstCell
<1>5. \A ch, a : Content(ch, a)' = Content(ch, a)
  BY <1>2 DEF Content, Under
<1>6. ContentInv' /\ KeptInv'
  BY <1>2, <1>5 DEF Inv, ContentInv, KeptInv, Tracked, AloneOn
<1> QED BY <1>3, <1>4, <1>6 DEF Inv

(* A reset of the driver keeps the invariant.                                 *)
LEMMA InvByReset ==
  ASSUME Inv, SpimemInitialize
  PROVE  Inv'
<1>1. /\ h' = Idle /\ spi_bit_map' = {} /\ calls' = [t \in Tasks |-> NoCall]
      /\ aimed' = [n \in Written |-> {}] /\ reported' = [a \in Cells |-> 0]
      /\ spi_mem_buff' = [k \in Offsets |-> {}] /\ spi_mem_buff_sect_num' = 0
      /\ health' = {Erased} /\ UNCHANGED <<writes, commands>>
      /\ resets' = resets + 1 /\ resets' \in 1 .. MaxResets
  BY ConstantsOK DEF SpimemInitialize, Inv, TypeOK, Written
<1>2. Blank \in Contents /\ Erased \in Chips
  BY ConstantsOK DEF Blank, Contents, Chips
<1>3. cells' \in [Chips -> Contents] /\ cut' \in {0, 1} /\ faults' \in 0 .. MaxFaults
      /\ (cut' = 0 => cells'[Erased] = Blank)
  BY <1>2, ConstantsOK DEF SpimemInitialize, NoFault, Fault, Inv, TypeOK
<1>4. TypeOK'
  <2>1. spi_mem_buff_sect_num' \in 0 .. Sectors - 1
    BY <1>1, ConstantsOK
  <2> QED BY <1>1, <1>2, <1>3, <2>1, ConstantsOK
          DEF Inv, TypeOK, CallRecords, Steps, Written
<1>5. CallsInv' /\ StepInv' /\ MarksInv' /\ ReportedInv' /\ KeptInv'
  BY <1>1 DEF CallsInv, StepInv, MarksInv, ReportedInv, KeptInv
<1>6. ContentInv'
  <2> SUFFICES ASSUME NEW c \in Chips, NEW a \in Cells, Tracked(c)'
               PROVE  Content(c, a)' = {} /\ cells'[c][a] = {}
    BY DEF ContentInv, AtMostOne
  <2>1. cut' = 0 /\ c = Erased
    BY <1>1 DEF Tracked
  <2>2. cells'[c][a] = {}
    BY <1>3, <2>1 DEF Blank
  <2> QED BY <1>1, <2>2, Plain DEF Rewrites
<1> QED BY <1>4, <1>5, <1>6 DEF Inv

(* The steps of a call: what holds of the pages is carried over by what the   *)
(* chips still contain.                                                      *)
LEMMA InvByWriting ==
  ASSUME Inv, NEW t \in Tasks,
         \/ SkipChip(t) \/ TakeMutex(t) \/ ReadyForCommand(t) \/ WritePage(t)
         \/ LoadAndUpdate(t) \/ EraseSector(t) \/ WriteSectorBack(t)
  PROVE  Inv'
<1>1. TypeOK /\ CallsInv /\ StepInv /\ MarksInv /\ ContentInv /\ KeptInv /\ ReportedInv
  BY DEF Inv
<1>2. ASSUME Moved(t), UNCHANGED <<writes, aimed, spi_bit_map>>
      PROVE  CallsInv' /\ ReportedInv' /\ MarksInv'
  BY <1>1, <1>2, MovedKeeps DEF MarksInv
<1>3. ASSUME UNCHANGED <<aimed, spi_bit_map, resets>>, cut' = 0 => cut = 0,
             cut' = 0 => \A ch \in Chips, a \in Cells :
                           /\ Content(ch, a)' = Content(ch, a)
                           /\ cells'[ch][a] \in {cells[ch][a], Content(ch, a), {}}
      PROVE  ContentInv' /\ KeptInv'
  <2>1. ContentInv'
    <3> SUFFICES ASSUME NEW ch \in Chips, NEW a \in Cells, Tracked(ch)'
                 PROVE  /\ GetPage(a) \notin spi_bit_map
                             => Content(ch, a)' = {} /\ cells'[ch][a] = {}
                        /\ AtMostOne(Content(ch, a)') /\ AtMostOne(cells'[ch][a])
      BY <1>3 DEF ContentInv, AtMostOne, GetPage
    <3>1. Tracked(ch) /\ cut' = 0
      BY <1>3 DEF Tracked
    <3>2. /\ GetPage(a) \notin spi_bit_map => Content(ch, a) = {} /\ cells[ch][a] = {}
          /\ AtMostOne(Content(ch, a)) /\ AtMostOne(cells[ch][a])
      BY <1>1, <3>1 DEF ContentInv
    <3>3. AtMostOne({})
      BY DEF AtMostOne
    <3> QED BY <1>3, <3>1, <3>2, <3>3
  <2>2. KeptInv'
    <3> SUFFICES ASSUME cut' = 0, NEW p \in spi_bit_map, NEW n \in Written, AloneOn(n, p)
                 PROVE  \E ch \in Chips : \A a \in aimed[n] :
                          GetPage(a) = p => n \in Content(ch, a)'
      BY <1>3 DEF KeptInv, AloneOn, GetPage
    <3>1. PICK ch \in Chips : \A a \in aimed[n] : GetPage(a) = p => n \in Content(ch, a)
      BY <1>1, <1>3 DEF KeptInv
    <3>2. aimed[n] \subseteq Cells
      BY <1>1 DEF TypeOK, Written
    <3> QED BY <1>3, <3>1, <3>2
  <2> QED BY <2>1, <2>2
<1>4. CASE SkipChip(t) \/ TakeMutex(t) \/ ReadyForCommand(t)
  <2>1. UNCHANGED <<cells, writes, aimed, spi_bit_map, cut, resets>>
    BY <1>4 DEF SkipChip, TakeMutex, ReadyForCommand, chips, bounds
  <2>2. TypeOK' /\ Moved(t) /\ StepInv' /\ ~Rewrites /\ ~Rewrites'
    <3>1. CASE SkipChip(t)
      BY <1>1, <3>1, SkipStep DEF SkipChip, StepInv, Rewrites
    <3>2. CASE TakeMutex(t)
      <4>1. h = Idle /\ (h' = Idle \/ h' = [task |-> t, pc |-> "ready", part |-> 1])
        BY <3>2 DEF TakeMutex, Return
      <4> QED BY <1>1, <3>2, <4>1, MutexStep DEF Rewrites
    <3>3. CASE ReadyForCommand(t)
      <4>1. h \in Running /\ h.pc = "ready"
        BY <1>1, <3>3, StepRecords DEF ReadyForCommand, At
      <4>2. h' = Idle \/ h'.pc \in {"load", "program"}
        BY <3>3, <4>1 DEF ReadyForCommand, Return, Goto, Running
      <4> QED BY <1>1, <3>3, <4>1, <4>2, ReadyStep DEF Rewrites
    <3> QED BY <1>4, <3>1, <3>2, <3>3
  <2>3. \A ch \in Chips, a \in Cells :
          Content(ch, a)' = Content(ch, a) /\ cells'[ch][a] = cells[ch][a]
    BY <2>1, <2>2, Plain
  <2> QED BY <1>2, <1>3, <2>1, <2>2, <2>3 DEF Inv
<1>5. CASE WritePage(t)
  <2> DEFINE P == GetPage(FirstCell)
  <2>1. /\ TypeOK' /\ Moved(t) /\ StepInv' /\ h # Idle /\ ~Rewrites /\ ~Rewrites'
        /\ UNCHANGED <<writes, aimed, cut, resets>>
        /\ P \notin spi_bit_map /\ spi_bit_map' = spi_bit_map \union {P}
        /\ \A ch \in Chips, a \in Cells :
             cells'[ch][a] = IF ch = Under.chip /\ a \in Part(Under, h.part)
                               THEN cells[ch][a] \union {Under.n} ELSE cells[ch][a]
    BY <1>1, <1>5, WriteStep
  <2>2. /\ Under.chip \in Chips /\ Under.n \in Written
        /\ h.task \in Tasks /\ FirstCell \in Part(Under, h.part)
        /\ Part(Under, h.part) = {a \in Aimed(Under) : GetPage(a) = P}
        /\ \A a \in Part(Under, h.part) : a \in Cells /\ GetPage(a) = P
    BY <1>1, <2>1, UnderWay
  <2>3. aimed[Under.n] = Aimed(Under) /\ Under.n <= writes /\ Under # NoCall
    BY <1>1, <2>1, <2>2 DEF CallsInv, StepInv, Under
  <2> HIDE DEF P
  <2>4. CallsInv' /\ ReportedInv'
    BY <1>1, <2>1, MovedKeeps
  <2>5. MarksInv'
    <3>1. \E a \in aimed[Under.n] : GetPage(a) = P
      BY <2>2, <2>3
    <3> QED BY <1>1, <2>1, <2>2, <2>3, <3>1 DEF MarksInv, GetPage
  <2>6. \A ch \in Chips, a \in Cells :
          Content(ch, a)' = cells'[ch][a] /\ Content(ch, a) = cells[ch][a]
    BY <2>1, Plain
  <2>7. ContentInv'
    <3> SUFFICES ASSUME NEW ch \in Chips, NEW a \in Cells, Tracked(ch)
                 PROVE  /\ GetPage(a) \notin spi_bit_map' => cells'[ch][a] = {}
                        /\ AtMostOne(cells'[ch][a])
      BY <2>1, <2>6 DEF ContentInv, AtMostOne, Tracked, GetPage
    <3>1. /\ GetPage(a) \notin spi_bit_map => cells[ch][a] = {}
          /\ AtMostOne(cells[ch][a])
      BY <1>1 DEF ContentInv
    <3>2. CASE ch = Under.chip /\ a \in Part(Under, h.part)
      <4>1. cells'[ch][a] = {Under.n} /\ GetPage(a) = P
        BY <2>1, <2>2, <3>1, <3>2
      <4> QED BY <2>1, <4>1 DEF AtMostOne
    <3>3. CASE ~(ch = Under.chip /\ a \in Part(Under, h.part))
      BY <2>1, <3>1, <3>3
    <3> QED BY <3>2, <3>3
  <2>8. KeptInv'
    <3> SUFFICES ASSUME cut = 0, NEW p \in spi_bit_map', NEW n \in Written, AloneOn(n, p)
                 PROVE  \E ch \in Chips : \A a \in aimed[n] :
                          GetPage(a) = p => n \in cells'[ch][a]
      <4>1. \A m \in Written : aimed[m] \subseteq Cells
        BY <1>1 DEF TypeOK, Written
      <4> QED BY <2>1, <2>6, <4>1 DEF KeptInv, AloneOn, GetPage
    <3>1. aimed[n] \subseteq Cells
      BY <1>1 DEF TypeOK, Written
    <3>2. CASE p \in spi_bit_map
      <4>1. PICK ch \in Chips : \A a \in aimed[n] : GetPage(a) = p => n \in Content(ch, a)
        BY <1>1, <3>2 DEF KeptInv
      <4>2. ch \in Chips
        BY <4>1
      <4>3. \A a \in aimed[n] : GetPage(a) = p => n \in cells[ch][a]
        BY <2>6, <3>1, <4>1
      <4>4. \A a \in Cells : cells[ch][a] \subseteq cells'[ch][a]
        BY <2>1
      <4>5. \A a \in aimed[n] : GetPage(a) = p => n \in cells'[ch][a]
        BY <3>1, <4>3, <4>4
      <4> QED BY <4>2, <4>5
    <3>3. CASE p = P
      <4>1. n = Under.n
        BY <2>2, <2>3, <3>3 DEF AloneOn, Written
      <4>2. \A a \in aimed[n] : GetPage(a) = p => a \in Part(Under, h.part)
        BY <2>2, <2>3, <3>3, <4>1
      <4>3. \A a \in aimed[n] : GetPage(a) = p => n \in cells'[Under.chip][a]
        BY <2>1, <2>2, <3>1, <4>1, <4>2
      <4> QED BY <2>2, <4>3
    <3> QED BY <2>1, <3>2, <3>3
  <2> QED BY <2>1, <2>4, <2>5, <2>7, <2>8 DEF Inv
<1>6. CASE LoadAndUpdate(t)
  <2>1. /\ TypeOK' /\ Moved(t) /\ StepInv' /\ h # Idle /\ ~Rewrites
        /\ UNCHANGED <<writes, aimed, spi_bit_map, resets, cells>>
        /\ cut' \in {cut, 1}
        /\ cut' = 0 => \A ch \in Chips, a \in Cells :
             \/ Content(ch, a)' = cells[ch][a]
             \/ /\ Content(ch, a)' = {Under.n} /\ a \in Part(Under, h.part)
                /\ GetPage(FirstCell) * PagesPerSector = GetSector(FirstCell)
    BY <1>1, <1>6, LoadStep
  <2>2. /\ Under.n \in Written /\ h.task \in Tasks
        /\ FirstCell \in Part(Under, h.part)
        /\ Part(Under, h.part) = {a \in Aimed(Under) : GetPage(a) = GetPage(FirstCell)}
    BY <1>1, <2>1, UnderWay
  <2>3. aimed[Under.n] = Aimed(Under)
    BY <1>1, <2>1, <2>2 DEF CallsInv, StepInv, Under
  <2>4. GetPage(FirstCell) \in spi_bit_map
    BY <1>1, <1>6, <2>1 DEF StepInv, LoadAndUpdate, At
  <2>5. \A ch \in Chips, a \in Cells : Content(ch, a) = cells[ch][a]
    BY <2>1, Plain
  <2>6. ContentInv'
    <3> SUFFICES ASSUME NEW ch \in Chips, NEW a \in Cells, Tracked(ch), cut' = 0
                 PROVE  /\ GetPage(a) \notin spi_bit_map
                             => Content(ch, a)' = {} /\ cells[ch][a] = {}
                        /\ AtMostOne(Content(ch, a)') /\ AtMostOne(cells[ch][a])
      BY <2>1 DEF ContentInv, AtMostOne, Tracked, GetPage
    <3>1. /\ GetPage(a) \notin spi_bit_map => cells[ch][a] = {}
          /\ AtMostOne(cells[ch][a])
      BY <1>1 DEF ContentInv
    <3>2. CASE Content(ch, a)' = cells[ch][a]
      BY <3>1, <3>2
    <3>3. CASE Content(ch, a)' = {Under.n} /\ a \in Part(Under, h.part)
      <4>1. GetPage(a) \in spi_bit_map
        BY <2>2, <2>4, <3>3
      <4> QED BY <3>1, <3>3, <4>1 DEF AtMostOne
    <3> QED BY <2>1, <3>2, <3>3
  <2>7. KeptInv'
    <3> SUFFICES ASSUME cut' = 0, cut = 0, NEW p \in spi_bit_map, NEW n \in Written,
                        AloneOn(n, p)
                 PROVE  \E ch \in Chips : \A a \in aimed[n] :
                          GetPage(a) = p => n \in Content(ch, a)'
      BY <2>1 DEF KeptInv, AloneOn, GetPage
    <3>1. PICK ch \in Chips : \A a \in aimed[n] : GetPage(a) = p => n \in cells[ch][a]
      <4>1. \A m \in Written : aimed[m] \subseteq Cells
        BY <1>1 DEF TypeOK, Written
      <4> QED BY <1>1, <2>5, <4>1 DEF KeptInv
    <3>2. aimed[n] \subseteq Cells
      BY <1>1 DEF TypeOK, Written
    <3>3. ASSUME NEW a \in aimed[n], GetPage(a) = p
          PROVE  n \in Content(ch, a)'
      <4>1. CASE Content(ch, a)' = cells[ch][a]
        BY <3>1, <3>3, <4>1
      <4>2. CASE Content(ch, a)' = {Under.n} /\ a \in Part(Under, h.part)
        <5>1. GetPage(FirstCell) = p /\ FirstCell \in aimed[Under.n]
          BY <2>2, <2>3, <3>3, <4>2
        <5>2. n = Under.n
          BY <2>2, <5>1 DEF AloneOn, Written
        <5> QED BY <4>2, <5>2
      <4> QED BY <2>1, <3>2, <4>1, <4>2
    <3> QED BY <3>3
  <2> QED BY <1>2, <2>1, <2>6, <2>7 DEF Inv
<1>7. CASE EraseSector(t)
  <2>1. /\ TypeOK' /\ Moved(t) /\ StepInv'
        /\ UNCHANGED <<writes, aimed, spi_bit_map, resets>> /\ cut' \in {cut, 1}
        /\ cut' = 0 => \A ch \in Chips, a \in Cells :
             /\ Content(ch, a)' = Content(ch, a)
             /\ cells'[ch][a] = cells[ch][a] \/ cells'[ch][a] = {}
    BY <1>1, <1>7, EraseStep
  <2> QED BY <1>2, <1>3, <2>1 DEF Inv
<1>8. CASE WriteSectorBack(t)
  <2>1. /\ TypeOK' /\ Moved(t) /\ StepInv' /\ ~Rewrites'
        /\ UNCHANGED <<writes, aimed, spi_bit_map, resets>> /\ cut' \in {cut, 1}
        /\ cut' = 0 => \A ch \in Chips, a \in Cells : cells'[ch][a] = Content(ch, a)
    BY <1>1, <1>8, BackStep
  <2>2. \A ch \in Chips, a \in Cells : Content(ch, a)' = cells'[ch][a]
    BY <2>1, Plain
  <2> QED BY <1>2, <1>3, <2>1, <2>2 DEF Inv
<1> QED BY <1>4, <1>5, <1>6, <1>7, <1>8

(* Every step keeps the inductive invariant.                                  *)
LEMMA InvNext == Inv /\ [Next]_vars => Inv'
<1> SUFFICES ASSUME Inv, [Next]_vars PROVE Inv'
  OBVIOUS
<1>1. ASSUME NEW t \in Tasks, SpimemWrite(t) PROVE Inv'
  BY <1>1, InvByCall, InvByWriting DEF SpimemWrite
<1>2. CASE UNCHANGED vars
  <2>1. UNCHANGED <<cells, spi_bit_map, spi_mem_buff, spi_mem_buff_sect_num, health, calls,
                    h, writes, resets, commands, faults, cut, aimed, reported>>
    BY <1>2 DEF vars, chips, buffer, bounds, observers
  <2>2. TypeOK' /\ CallsInv' /\ StepInv' /\ MarksInv' /\ ReportedInv'
    BY <2>1 DEF Inv, TypeOK, CallsInv, StepInv, MarksInv, ReportedInv, Under, FirstCell
  <2>3. \A ch, a : Content(ch, a)' = Content(ch, a)
    BY <2>1 DEF Content, Under
  <2>4. ContentInv' /\ KeptInv'
    BY <2>1, <2>3 DEF Inv, ContentInv, KeptInv, Tracked, AloneOn
  <2> QED BY <2>2, <2>4 DEF Inv
<1> QED BY <1>1, <1>2, InvByHealth, InvByReset DEF Next

(* The whole inductive invariant, for any constants.                          *)
THEOREM AlwaysInv == Spec => []Inv
BY InvInit, InvNext, PTL DEF Spec

(* Writes stay inside of the memory and their pages, and a page the bitmap     *)
(* calls clean is blank on every chip it accounts for.                        *)
THEOREM SpiMemInvariant == Spec => []SpiMemInv
<1>1. Inv => SpiMemInv
  BY DEF Inv, ContentInv, SpiMemInv, CleanIsBlank
<1> QED BY <1>1, AlwaysInv, PTL

(* On a chip the bitmap accounts for, no write is programmed over another,     *)
(* whichever chips were healthy when each of them was made.                   *)
THEOREM NoWriteOverAnother == Spec => []NeverAnded
<1>1. ASSUME NEW S, AtMostOne(S)
      PROVE  Cardinality(S) <= 1
  <2>1. CASE S = {}
    BY <2>1, FS_EmptySet
  <2>2. CASE S # {}
    <3>1. PICK x : S = {x}
      BY <1>1, <2>2 DEF AtMostOne
    <3> QED BY <3>1, FS_Singleton
  <2> QED BY <2>1, <2>2
<1>2. Inv => NeverAnded
  BY <1>1 DEF Inv, ContentInv, NeverAnded
<1> QED BY <1>2, AlwaysInv, PTL

(* A write that was reported and had its pages to itself is on a chip, however *)
(* often the sector was rewritten, until a rewrite is cut short.              *)
THEOREM FirstWriteKept == Spec => []FirstWriteStored
<1>1. ASSUME Inv
      PROVE  FirstWriteStored
  <2> SUFFICES ASSUME h = Idle, cut = 0, NEW a \in Cells, reported[a] # 0,
                      AloneOn(reported[a], GetPage(a))
               PROVE  \E c \in Chips : /\ reported[a] \in cells[c][a]
                                       /\ Tracked(c) => cells[c][a] = {reported[a]}
    BY DEF FirstWriteStored
  <2>1. a \in aimed[reported[a]] /\ GetPage(a) \in spi_bit_map /\ reported[a] \in Written
    BY <1>1 DEF Inv, ReportedInv, TypeOK, Written
  <2>2. PICK c \in Chips : reported[a] \in Content(c, a)
    BY <1>1, <2>1 DEF Inv, KeptInv
  <2>3. reported[a] \in cells[c][a]
    BY <2>2, Plain DEF Rewrites
  <2>4. Tracked(c) => AtMostOne(cells[c][a])
    BY <1>1 DEF Inv, ContentInv
  <2> QED BY <2>3, <2>4 DEF AtMostOne
<1> QED BY <1>1, AlwaysInv, PTL

-----------------------------------------------------------------------------
(* The chip that initialisation erases is a store of pages.                  *)

Places == 0 .. CellsPerPage - 1
CellOf(p, k) == p * CellsPerPage + k
BlankPage == [k \in Places |-> {}]

(* A place of a page is a cell of that page.                                  *)
LEMMA PageCell ==
  ASSUME NEW p \in Pages, NEW k \in Places
  PROVE  CellOf(p, k) \in Cells /\ GetPage(CellOf(p, k)) = p
<1> DEFINE d == CellsPerPage
           n == Sectors * PagesPerSector
           a == CellOf(p, k)
<1>1. /\ d \in Nat \ {0} /\ p \in Nat /\ n \in Nat \ {0} /\ p < n /\ k \in 0 .. d - 1
      /\ Cells = 0 .. d * n - 1
  BY ConstantsOK, Geometry DEF Pages, Places, Cells
<1> HIDE DEF n
<1>2. d * p \in Nat /\ d * p + d <= d * n /\ d * n \in Nat
  BY <1>1, MulMono, MulNat
<1>3. a = d * p + k
  BY <1>1 DEF CellOf
<1> HIDE DEF d, a
<1>4. a \in Nat /\ a < d * n
  BY <1>1, <1>2, <1>3
<1>5. a \in Cells
  BY <1>1, <1>2, <1>4
<1>6. a \div d = p
  BY <1>1, <1>3, <1>4, DivUnique
<1> QED BY <1>5, <1>6 DEF GetPage, a, d

(* What is stored, page by page, is the content of the cells.                 *)
LEMMA StoredContent ==
  /\ Stored = [p \in Pages |-> [k \in Places |-> Content(Erased, CellOf(p, k))]]
  /\ Stored' = [p \in Pages |-> [k \in Places |-> Content(Erased, CellOf(p, k))']]
<1>1. Stored = [p \in Pages |-> [k \in Places |-> Content(Erased, CellOf(p, k))]]
  BY DEF Stored, Rewriting, Content, Under, CellOf, Places
<1>2. Stored' = [p \in Pages |-> [k \in Places |-> Content(Erased, CellOf(p, k))']]
  BY DEF Stored, Rewriting, Content, Under, CellOf, Places
<1> QED BY <1>1, <1>2

(* The one page whose number is that of its sector is the first.              *)
LEMMA RewritableIsFirst ==
  ASSUME NEW p \in Nat, p * PagesPerSector = p \div PagesPerSector
  PROVE  p = 0
<1> DEFINE P == PagesPerSector
           s == p \div P
<1>1. P \in Nat \ {0, 1}
  BY ConstantsOK
<1>2. s \in Nat /\ p % P \in 0 .. P - 1 /\ p = P * s + (p % P) /\ P * s \in Nat
  BY <1>1, DivMod, MulNat
<1>3. s = P * p
  BY <1>1
<1> HIDE DEF s, P
<1>4. \A x \in Nat : 2 * x <= P * x /\ P * x \in Nat
  <2> SUFFICES ASSUME NEW x \in Nat PROVE 2 * x <= P * x /\ P * x \in Nat
    OBVIOUS
  <2>1. P * x = 2 * x + (P - 2) * x
    BY <1>1
  <2>2. (P - 2) * x \in Nat
    BY <1>1, MulNat
  <2> QED BY <2>1, <2>2
<1>5. 2 * p <= s /\ 2 * s <= P * s
  BY <1>2, <1>3, <1>4
<1> QED BY <1>2, <1>5

(* A step writes one page of the store, or leaves it as it is.                *)
LEMMA StoreStep == Inv /\ [Next]_vars => [Store!Next]_<<Stored, cut>>
<1> SUFFICES ASSUME Inv, [Next]_vars
             PROVE  Store!Next \/ UNCHANGED <<Stored, cut>>
  OBVIOUS
<1>1. /\ TypeOK /\ CallsInv /\ StepInv /\ ContentInv
      /\ Erased \in Chips /\ cut \in {0, 1}
  BY ConstantsOK DEF Inv, TypeOK, Chips
<1>2. cut' = 1 => Store!Next
  BY DEF Store!Next
<1>3. ASSUME cut' = cut, \A a \in Cells : Content(Erased, a)' = Content(Erased, a)
      PROVE  UNCHANGED <<Stored, cut>>
  BY <1>3, StoredContent, PageCell
<1>4. ASSUME cut = 0, cut' = 0, NEW p \in Pages, Stored[p] = BlankPage \/ p = 0,
             \A a \in Cells : GetPage(a) # p => Content(Erased, a)' = Content(Erased, a)
      PROVE  Store!Next
  <2>1. ASSUME NEW q \in Pages \ {p}
        PROVE  Stored'[q] = Stored[q]
    <3>1. \A k \in Places : Content(Erased, CellOf(q, k))' = Content(Erased, CellOf(q, k))
      BY <1>4, <2>1, PageCell
    <3> QED BY <2>1, <3>1, StoredContent
  <2>2. Store!Write(p)
    BY <1>4, <2>1 DEF Store!Write, BlankPage, Places
  <2> QED BY <1>4, <2>2 DEF Store!Next
<1>5. ASSUME NEW t \in Tasks, SpimemWrite(t)
      PROVE  Store!Next \/ UNCHANGED <<Stored, cut>>
  <2>1. CASE Call(t)
    <3>1. h = Idle /\ UNCHANGED <<cells, h, cut>>
      BY <2>1 DEF Call, chips
    <3> QED BY <1>3, <3>1, Plain DEF Rewrites
  <2>2. CASE SkipChip(t) \/ TakeMutex(t) \/ ReadyForCommand(t)
    <3>1. UNCHANGED <<cells, cut>>
      BY <2>2 DEF SkipChip, TakeMutex, ReadyForCommand, chips
    <3>2. ~Rewrites /\ ~Rewrites'
      <4>1. h = Idle \/ (h \in Running /\ h.pc = "ready")
        BY <1>1, <2>2, StepRecords DEF SkipChip, TakeMutex, ReadyForCommand, At
      <4>2. \/ h' = h \/ h' = Idle \/ h' = [task |-> t, pc |-> "ready", part |-> 1]
            \/ h \in Running /\ h'.pc \in {"load", "program"}
        BY <2>2, <4>1 DEF SkipChip, TakeMutex, ReadyForCommand, Return, Goto, At, Running
      <4> QED BY <4>1, <4>2 DEF Rewrites
    <3> QED BY <1>3, <3>1, <3>2, Plain
  <2>3. CASE WritePage(t)
    <3>1. /\ h # Idle /\ ~Rewrites /\ ~Rewrites' /\ cut' = cut
          /\ GetPage(FirstCell) \notin spi_bit_map
          /\ \A ch \in Chips, a \in Cells :
               cells'[ch][a] = IF ch = Under.chip /\ a \in Part(Under, h.part)
                                 THEN cells[ch][a] \union {Under.n} ELSE cells[ch][a]
      BY <1>1, <2>3, WriteStep
    <3>2. /\ GetPage(FirstCell) \in Pages
          /\ \A a \in Part(Under, h.part) : GetPage(a) = GetPage(FirstCell)
      BY <1>1, <3>1, UnderWay
    <3>3. \A a \in Cells : GetPage(a) # GetPage(FirstCell)
                             => Content(Erased, a)' = Content(Erased, a)
      <4> SUFFICES ASSUME NEW a \in Cells, GetPage(a) # GetPage(FirstCell)
                   PROVE  Content(Erased, a)' = Content(Erased, a)
        OBVIOUS
      <4>1. a \notin Part(Under, h.part)
        BY <3>2
      <4>2. Erased \in Chips
        BY ConstantsOK DEF Chips
      <4>3. cells'[Erased][a] = cells[Erased][a]
        BY <3>1, <4>1, <4>2
      <4>4. /\ Content(Erased, a) = cells[Erased][a]
            /\ Content(Erased, a)' = cells'[Erased][a]
        BY <3>1, Plain
      <4> QED BY <4>3, <4>4
    <3>4. cut = 0 => Stored[GetPage(FirstCell)] = BlankPage
      <4> SUFFICES ASSUME cut = 0 PROVE Stored[GetPage(FirstCell)] = BlankPage
        OBVIOUS
      <4>1. \A k \in Places : Content(Erased, CellOf(GetPage(FirstCell), k)) = {}
        BY <1>1, <3>1, <3>2, PageCell DEF ContentInv, Tracked
      <4> QED BY <3>2, <4>1, StoredContent DEF BlankPage
    <3> QED BY <1>1, <1>2, <1>4, <3>1, <3>2, <3>3, <3>4
  <2>4. CASE LoadAndUpdate(t)
    <3>1. /\ h # Idle /\ ~Rewrites /\ cut' \in {cut, 1}
          /\ cut' = 0 => \A a \in Cells :
               \/ Content(Erased, a)' = cells[Erased][a]
               \/ /\ a \in Part(Under, h.part)
                  /\ GetPage(FirstCell) * PagesPerSector = GetSector(FirstCell)
      BY <1>1, <2>4, LoadStep
    <3>2. /\ GetPage(FirstCell) \in Pages /\ FirstCell \in Cells
          /\ \A a \in Part(Under, h.part) : GetPage(a) = GetPage(FirstCell)
      BY <1>1, <3>1, UnderWay
    <3>3. CASE cut' = 0 /\ GetPage(FirstCell) * PagesPerSector = GetSector(FirstCell)
      <4>1. GetSector(FirstCell) = GetPage(FirstCell) \div PagesPerSector
        BY <3>2, CellPlace
      <4>2. GetPage(FirstCell) \in Nat
        BY <3>2 DEF Pages
      <4>3. GetPage(FirstCell) = 0
        BY <3>3, <4>1, <4>2, RewritableIsFirst
      <4>4. \A a \in Cells : GetPage(a) # GetPage(FirstCell)
                               => Content(Erased, a)' = Content(Erased, a)
        BY <3>1, <3>2, <3>3, Plain
      <4>5. cut = 0
        BY <3>1, <3>3
      <4> QED BY <1>4, <3>2, <3>3, <4>3, <4>4, <4>5
    <3>4. CASE cut' = 0 /\ GetPage(FirstCell) * PagesPerSector # GetSector(FirstCell)
      <4>1. \A a \in Cells : Content(Erased, a)' = Content(Erased, a)
        BY <3>1, <3>4, Plain
      <4> QED BY <1>3, <3>1, <3>4, <4>1
    <3> QED BY <1>1, <1>2, <3>1, <3>3, <3>4
  <2>5. CASE EraseSector(t)
    <3>1. /\ cut' \in {cut, 1}
          /\ cut' = 0 => \A a \in Cells : Content(Erased, a)' = Content(Erased, a)
      BY <1>1, <2>5, EraseStep
    <3> QED BY <1>1, <1>2, <1>3, <3>1
  <2>6. CASE WriteSectorBack(t)
    <3>1. /\ cut' \in {cut, 1} /\ ~Rewrites'
          /\ cut' = 0 => \A a \in Cells : cells'[Erased][a] = Content(Erased, a)
      BY <1>1, <2>6, BackStep
    <3> QED BY <1>1, <1>2, <1>3, <3>1, Plain
  <2> QED BY <1>5, <2>1, <2>2, <2>3, <2>4, <2>5, <2>6 DEF SpimemWrite
<1>6. CASE SetObcVariable \/ ResolutionSequence14
  <2>1. UNCHANGED <<cells, h, calls, spi_mem_buff, spi_mem_buff_sect_num, cut>>
    BY <1>6 DEF SetObcVariable, ResolutionSequence14, SetHealth, chips, buffer, observers
  <2> QED BY <1>3, <2>1 DEF Content, Under
<1>7. CASE SpimemInitialize
  <2>1. h' = Idle /\ cut' \in {cut, 1} /\ (cut' = cut => cells'[Erased] = Blank \/ cut = 1)
    BY <1>1, <1>7 DEF SpimemInitialize, TypeOK
  <2>2. ASSUME cut = 0, cut' = 0 PROVE Store!Next
    <3>1. \A a \in Cells : Content(Erased, a)' = {}
      BY <2>1, <2>2, Plain DEF Rewrites, Blank
    <3>2. Stored' = [p \in Pages |-> BlankPage]
      BY <3>1, StoredContent, PageCell DEF BlankPage
    <3> QED BY <2>2, <3>2 DEF Store!Next, Store!Wipe, BlankPage, Places
  <2> QED BY <1>1, <1>2, <2>1, <2>2
<1>8. CASE UNCHANGED vars
  <2>1. UNCHANGED <<cells, h, calls, spi_mem_buff, spi_mem_buff_sect_num, cut>>
    BY <1>8 DEF vars, chips, buffer, observers
  <2> QED BY <1>3, <2>1 DEF Content, Under
<1> QED BY <1>5, <1>6, <1>7, <1>8 DEF Next

(* Whatever is rewritten and reset, the chip that initialisation erases keeps  *)
(* every page as it was first written, until a rewrite is cut short: every     *)
(* step is a step of PageStore or none.                                       *)
THEOREM IsPageStore == Spec => WrittenOnce
<1>1. Init => Store!Init
  <2> SUFFICES ASSUME Init PROVE Store!Init
    OBVIOUS
  <2>1. Erased \in Chips /\ cut = 0 /\ ~Rewrites
    BY ConstantsOK DEF Init, Chips, Rewrites
  <2>2. \A a \in Cells : Content(Erased, a) = {}
    BY <2>1, Plain DEF Init, Blank
  <2>3. Stored = [p \in Pages |-> BlankPage]
    BY <2>2, StoredContent, PageCell DEF BlankPage
  <2> QED BY <2>1, <2>3 DEF Store!Init, BlankPage, Places
<1> QED BY <1>1, StoreStep, AlwaysInv, PTL DEF Spec, WrittenOnce, Store!Spec
=============================================================================
