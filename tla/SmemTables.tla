----------------------------- MODULE SmemTables -----------------------------
(* Drivers/SmemDxe/smem.c, Drivers/SmemPtableDxe/smem_ptable.c and          *)
(* Library/PTableLib/ptable.c: the tables that the modem leaves in shared   *)
(* memory, and the flash table that is filled from them.                    *)
EXTENDS Integers, FiniteSets, StrLib

CONSTANTS
  Smems,       \* shared memories: [flash, ram], an entry each: see below
  AppsName,    \* the name "0:APPS"
  MaxPartsV3,  \* partitions in a flash table of version 3, and of version 4
  MaxPartsV4,
  MaxPTable,   \* MAX_PTABLE_PARTS
  MaxAdds      \* bound: how often the modem's partitions are added

\* flash: [allocated, words, magic, version, parts]; parts: [name, start]
\* ram: [allocated, version, parts]; parts: [type, category, start]
ASSUME SmemAssumption ==
  /\ MaxPartsV3 \in Nat /\ MaxPartsV4 \in Nat /\ MaxPartsV3 <= MaxPartsV4
  /\ MaxPTable \in Nat /\ MaxAdds \in Nat

VARIABLES
  smem,       \* the shared memory
  smemTable,  \* smem_ptable: the copy, in whose names strtok writes
  appsStart,  \* smem_apps_flash_start; -1 for 0xFFFFFFFF
  ramTable,   \* ptable, the copy of the memory's table
  flashTable, \* the table that partitions are added to
  tabPc,      \* "idle", "add", or "assert" when an ASSERT stopped it
  tabTok,     \* the loop of smem_add_modem_partitions
  tabAdds     \* how often it ran

tabVars == <<smem, smemTable, appsStart, ramTable, flashTable, tabPc, tabTok, tabAdds>>

HdrWords == 4
PtnWords == 7
Empty == [name |-> <<"NUL">>, start |-> 0]
NoTok == [i |-> 0, tok |-> 0, pname |-> 0, last |-> 0]

-----------------------------------------------------------------------------
\* Both reads of smem.c refuse a length that is not a multiple of four and an
\* entry that is not allocated; only this one looks at the entry's size,
\* which is kept in multiples of eight.
smem_read_alloc_entry(e, words) == e.allocated /\ e.words >= 2 * ((words + 1) \div 2)
smem_read_alloc_entry_offset(e) == e.allocated

Words(version) == HdrWords + PtnWords * (IF version <= 3 THEN MaxPartsV3 ELSE MaxPartsV4)

\* Mutant: the header's room is taken for the partitions'.
CopiedShort(e) ==
  [i \in 1..MaxPartsV4 |->
     IF i <= Len(e.parts) /\ HdrWords + PtnWords * i < Words(e.version)
     THEN e.parts[i] ELSE Empty]

\* As many partitions as the version has room for; the others stay zero.
Copied(e) ==
  [i \in 1..MaxPartsV4 |->
     IF i <= Len(e.parts) /\ HdrWords + PtnWords * i <= Words(e.version)
     THEN e.parts[i] ELSE Empty]

AppsAt(parts, len) ==
  LET at == {i \in 1..len : StringAt(parts[i].name, 1) = StringAt(AppsName, 1)}
  IN IF at = {} THEN -1 ELSE parts[CHOOSE i \in at : \A j \in at : i <= j].start

smem_ptable_init ==
  LET e == smem.flash IN
  /\ tabPc = "idle" /\ smemTable.len = 0 /\ smem_read_alloc_entry_offset(e)
  /\ smemTable' = [magic |-> e.magic, len |-> Len(e.parts),
                   parts |-> IF e.magic THEN Copied(e) ELSE smemTable.parts]
  /\ IF ~e.magic THEN UNCHANGED <<tabPc, appsStart>>
     ELSE IF Len(e.parts) > MaxPartsV4 \/ e.version > 4
             \/ ~smem_read_alloc_entry(e, Words(e.version))
       THEN tabPc' = "assert" /\ UNCHANGED appsStart
       ELSE appsStart' = AppsAt(Copied(e), Len(e.parts)) /\ UNCHANGED tabPc
  /\ UNCHANGED <<smem, ramTable, flashTable, tabTok, tabAdds>>

\* The copy of every version has the same members.
smem_ram_ptable_init ==
  LET e == smem.ram IN
  /\ tabPc = "idle" /\ ramTable = <<>> /\ e.allocated
  /\ IF e.version \notin 0..2 THEN tabPc' = "assert" /\ UNCHANGED ramTable
                              ELSE ramTable' = e.parts /\ UNCHANGED tabPc
  /\ UNCHANGED <<smem, smemTable, appsStart, flashTable, tabTok, tabAdds>>

IsDdr(p) == p.type = "SYS_MEMORY" /\ p.category \in {"SDRAM", "IMEM"}

get_ddr_start ==
  LET at == {i \in 1..Len(ramTable) : IsDdr(ramTable[i])}
  IN IF at = {} THEN 0 ELSE ramTable[CHOOSE i \in at : \A j \in at : i <= j].start

-----------------------------------------------------------------------------
ptable_add(name, start) ==
  IF Len(flashTable) < MaxPTable
  THEN flashTable' = Append(flashTable, [name |-> name, start |-> start]) /\ UNCHANGED tabPc
  ELSE tabPc' = "assert" /\ UNCHANGED flashTable

\* Places count from 1, so the code's -1 is 0 here.
Matches(name) == {i \in 1..Len(flashTable) : flashTable[i].name = name}
ptable_get_index(name) ==
  IF Matches(name) = {} THEN 0 ELSE CHOOSE i \in Matches(name) : \A j \in Matches(name) : i <= j

ptable_find(name) ==
  IF Matches(name) = {} THEN Empty
  ELSE flashTable[CHOOSE i \in Matches(name) : \A j \in Matches(name) : i <= j]

\* smem_add_modem_partitions: the last part of each name is added.
smem_add_modem_partitions ==
  /\ tabPc = "idle" /\ smemTable.magic /\ smemTable.len > 0 /\ tabAdds < MaxAdds
  /\ tabPc' = "add" /\ tabTok' = [NoTok EXCEPT !.i = 1] /\ tabAdds' = tabAdds + 1
  /\ UNCHANGED <<smem, smemTable, appsStart, ramTable, flashTable>>

\* strtok writes the names in place: the table is not what it was.
Strtok(p, pname) ==
  LET r == strtok_r(smemTable.parts[tabTok.i].name, p, {":"}) IN
  /\ tabTok' = [tabTok EXCEPT !.tok = r.tok, !.last = r.last, !.pname = pname]
  /\ smemTable' = [smemTable EXCEPT !.parts[tabTok.i].name = r.mem]
  /\ UNCHANGED <<smem, appsStart, ramTable, flashTable, tabPc, tabAdds>>

At1(i) == smemTable.parts[i].name[1]
Started == tabTok.tok # 0 \/ tabTok.pname # 0

FirstToken ==
  /\ tabPc = "add" /\ tabTok.i <= smemTable.len /\ ~Started
  /\ At1(tabTok.i) # "NUL"
  /\ LET r == strtok_r(smemTable.parts[tabTok.i].name, 1, {":"}) IN
       IF r.tok # 0 THEN Strtok(1, 0)
       ELSE tabTok' = [NoTok EXCEPT !.i = tabTok.i + 1]
            /\ UNCHANGED <<smem, smemTable, appsStart, ramTable, flashTable, tabPc, tabAdds>>

NextToken == tabPc = "add" /\ tabTok.tok # 0 /\ Strtok(tabTok.last, tabTok.tok)

AddModem ==
  /\ tabPc = "add" /\ tabTok.tok = 0 /\ tabTok.pname # 0
  /\ ptable_add(StringAt(smemTable.parts[tabTok.i].name, tabTok.pname), smemTable.parts[tabTok.i].start)
  /\ tabTok' = [NoTok EXCEPT !.i = tabTok.i + 1]
  /\ UNCHANGED <<smem, smemTable, appsStart, ramTable, tabAdds>>

SkipsNameless ==
  /\ tabPc = "add" /\ tabTok.i <= smemTable.len /\ ~Started /\ At1(tabTok.i) = "NUL"
  /\ tabTok' = [NoTok EXCEPT !.i = tabTok.i + 1]
  /\ UNCHANGED <<smem, smemTable, appsStart, ramTable, flashTable, tabPc, tabAdds>>

AddsDone ==
  /\ tabPc = "add" /\ tabTok.i > smemTable.len
  /\ tabPc' = "idle" /\ tabTok' = NoTok
  /\ UNCHANGED <<smem, smemTable, appsStart, ramTable, flashTable, tabAdds>>

TabInit ==
  /\ smem \in Smems
  /\ smemTable = [magic |-> FALSE, len |-> 0, parts |-> [i \in 1..MaxPartsV4 |-> Empty]]
  /\ appsStart = -1 /\ ramTable = <<>> /\ flashTable = <<>>
  /\ tabPc = "idle" /\ tabTok = NoTok /\ tabAdds = 0

TabNext ==
  \/ smem_ptable_init \/ smem_ram_ptable_init \/ smem_add_modem_partitions
  \/ FirstToken \/ NextToken \/ AddModem \/ SkipsNameless \/ AddsDone

-----------------------------------------------------------------------------
TabTypeOK ==
  /\ smem \in Smems /\ tabPc \in {"idle", "add", "assert"} /\ tabAdds \in 0..MaxAdds
  /\ Len(flashTable) <= MaxPTable /\ tabTok.i \in 0..(MaxPartsV4 + 1)

\* The last part of a name: its last run of characters other than colons.
LastPart(s) ==
  LET starts == {p \in 1..Len(s) : s[p] # ":" /\ (p = 1 \/ s[p - 1] = ":")}
      from == CHOOSE p \in starts : \A r \in starts : r <= p
  IN IF starts = {} THEN <<>> ELSE SelectSeq(SubSeq(s, from, Len(s)), LAMBDA c : c # ":")

Names(parts) ==
  LET named == SelectSeq(parts, LAMBDA p : LastPart(StringAt(p.name, 1)) # <<>>)
  IN [i \in 1..Len(named) |-> [name |-> LastPart(StringAt(named[i].name, 1)), start |-> named[i].start]]

\* The first time they are added, the modem's partitions are in the table
\* under the last part of the names they have in shared memory, in that order
\* and none left out, though strtok keeps its place and writes in the names.
FirstAddNamesParts ==
  tabPc = "idle" /\ tabAdds = 1 => flashTable = Names(smem.flash.parts)

\* The start that was kept for the applications is that of the partition which
\* the filled table gives for their name, where no other shares its last part.
AppsStartAgrees ==
  LET name == LastPart(StringAt(AppsName, 1))
      sharing == {i \in 1..Len(smem.flash.parts) :
                    LastPart(StringAt(smem.flash.parts[i].name, 1)) = name}
  IN tabPc = "idle" /\ tabAdds = 1 /\ appsStart # -1 /\ Cardinality(sharing) = 1 =>
       ptable_find(name).start = appsStart

\* The two searches give the same entry, the one that was added first.
FindAgreesWithIndex ==
  \A i \in 1..Len(flashTable) :
    LET k == ptable_get_index(flashTable[i].name) IN
    /\ k \in 1..i
    /\ ptable_find(flashTable[i].name) = flashTable[k]

\* The memory that is taken for the start of the RAM is system memory, and no
\* such partition comes before it in the modem's table.
DdrStartIsFirst ==
  LET t == smem.ram.parts  d == {i \in 1..Len(t) : IsDdr(t[i])} IN
  ramTable # <<>> /\ d # {} => \E i \in d : get_ddr_start = t[i].start /\ \A j \in d : i <= j

\* The tables hold what shared memory says, under the names it is looked up by.
TablesRight ==
  TabTypeOK /\ FirstAddNamesParts /\ AppsStartAgrees /\ FindAgreesWithIndex /\ DdrStartIsFirst
=============================================================================
