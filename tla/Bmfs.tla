-------------------------------- MODULE Bmfs --------------------------------
(***************************************************************************)
(* Bootloader/BMFS/bmfs.c, the tool that makes the disk image and keeps    *)
(* files on it.  A file is a contiguous run of blocks named by a record of *)
(* the directory in block 0.  A command that writes the disk several times *)
(* is several steps and may stop between any two of them: a failed write,  *)
(* or the tool is killed.  Sizes are counted in blocks, so that a copy     *)
(* ends: the byte counters of read and write (int tint) overflow for files *)
(* of 2 GiB and more.                                                      *)
(***************************************************************************)
EXTENDS Integers, Sequences, FiniteSets

CONSTANTS
  Name,        \* file names
  Data,        \* what the blocks of a local file may hold
  DirEntries,  \* records of the directory (64)
  MaxBlocks,   \* bound: the largest disk
  MaxMiB,      \* bound: the largest file asked for, in MiB
  MaxSystem,   \* bound: the blocks the system given to initialize reaches
  Word,        \* unsigned arithmetic is modulo Word (2^64)
  BlockBytes,  \* bytes of a block (2 MiB)
  Kilo,        \* the factor of a unit (1024)
  SizeText     \* the size arguments given to initialize, as sequences of chars

END == "end"           \* FileName[0] = 0x00
DELETED == "deleted"   \* FileName[0] = 0x01

ASSUME BmfsAssumption ==
  /\ DirEntries \in Nat \ {0} /\ MaxBlocks \in Nat /\ MaxMiB \in Nat \ {0}
  /\ MaxSystem \in Nat
  /\ Word \in Nat /\ Word > 2 * MaxBlocks + MaxMiB
  /\ BlockBytes \in Nat \ {0} /\ Kilo \in Nat
  /\ Name \cap {END, DELETED} = {}

VARIABLES
  disk,     \* the image: tag, directory, size, blocks
  cmd,      \* the command that is running
  damaged,  \* history: since the last format, files were lost or overlap,
            \* by create or because a foreign directory came to light
  foreign,  \* history: the tag stands beside a directory format did not write
  kept      \* history: the files written completely, and what they hold

vars == <<disk, cmd, damaged, foreign, kept>>

Slot == 1..DirEntries
Entry == [name : Name \cup {END, DELETED}, start : Nat, reserved : Nat, size : Nat]
ZeroEntry == [name |-> END, start |-> 0, reserved |-> 0, size |-> 0]
Zeroed == [i \in Slot |-> ZeroEntry]

\* The directory area of a disk that was never formatted may read as a file.
Foreign(n) ==
  [Zeroed EXCEPT ![1] = [name |-> n, start |-> 0, reserved |-> 1, size |-> 0]]

Idle == [op |-> "none"]

\* A block of the image is written; past its end the image grows.
Put(d, b, v) ==
  LET n == IF b < d.blocks THEN d.blocks ELSE b + 1
  IN  [d EXCEPT !.blocks = n,
                !.data = [x \in 0..n - 1 |-> IF x = b THEN v
                                            ELSE IF x < d.blocks THEN d.data[x]
                                            ELSE "zero"]]

\* a - b of unsigned long long
Minus(a, b) == IF a >= b THEN a - b ELSE Word + a - b

-----------------------------------------------------------------------------
(* The directory *)

\* The records before the end marker.
InUse(dir) == {i \in Slot : \A j \in 1..i : dir[j].name # END}

Files(dir) == {i \in InUse(dir) : dir[i].name # DELETED}

\* findfile: the records of that name; the tool takes the first.
findfile(dir, n) == {i \in Files(dir) : dir[i].name = n}

First(S) == CHOOSE i \in S : \A j \in S : i <= j

list(dir) == {[name |-> dir[i].name, size |-> dir[i].size,
               reserved |-> 2 * dir[i].reserved] : i \in Files(dir)}

FileEnd(e) == e.start + e.reserved

\* Every file lies in the data blocks, and no block belongs to two.
Disjoint(d) ==
  /\ \A i \in Files(d.dir) : /\ d.dir[i].start >= 1
                             /\ FileEnd(d.dir[i]) <= d.blocks - 1
  /\ \A i, j \in Files(d.dir) : i # j =>
       \/ FileEnd(d.dir[i]) <= d.dir[j].start
       \/ FileEnd(d.dir[j]) <= d.dir[i].start

-----------------------------------------------------------------------------
(* create *)

\* num_used_entries: it stays 0 when the loop meets no end marker.
NumUsed(dir) == IF InUse(dir) = Slot THEN 0 ELSE Cardinality(InUse(dir))

FreeRecords(dir) == {i \in Slot : i \in InUse(dir) => dir[i].name = DELETED}

\* The orders qsort may leave with StartingBlockCmp: deleted records last, in
\* any order, the others by starting block.
SortedOrders(dir, n) ==
  {s \in [1..n -> 1..n] :
     /\ \A i, j \in 1..n : i # j => s[i] # s[j]
     /\ \A i, j \in 1..n : i < j /\ dir[s[j]].name # DELETED =>
          dir[s[i]].name # DELETED /\ dir[s[i]].start <= dir[s[j]].start}

\* The gap that turn t of the loop looks at: from the end of the record before
\* to the start of this one, or to the last block if there is none.
prev_file_end(dir, s, t) == IF t = 1 THEN 1 ELSE FileEnd(dir[s[t - 1]])

this_file_start(dir, s, n, t, num_blocks) ==
  IF t = n + 1 \/ dir[s[t]].name = DELETED THEN Minus(num_blocks, 1)
  ELSE dir[s[t]].start

\* Mutant: the block after the gap is taken too.
FitsHere_OffByOne(dir, s, n, num_blocks, blocks_requested) ==
  {t \in 1..n + 1 :
     Minus(this_file_start(dir, s, n, t, num_blocks) + 1, prev_file_end(dir, s, t))
       >= blocks_requested}

FitsHere(dir, s, n, num_blocks, blocks_requested) ==
  {t \in 1..n + 1 :
     Minus(this_file_start(dir, s, n, t, num_blocks), prev_file_end(dir, s, t))
       >= blocks_requested}

\* The record goes to the first free slot, and the slot after the last record
\* becomes the end marker.
AddRecord(dir, n, start, blocks) ==
  LET slot == First(FreeRecords(dir))
      new  == [dir EXCEPT ![slot] = [name |-> n, start |-> start,
                                     reserved |-> blocks, size |-> 0]]
  IN  IF slot = NumUsed(dir) + 1 /\ slot < DirEntries
      THEN [new EXCEPT ![slot + 1].name = END] ELSE new

\* The history variable when the disk becomes d.
Damage(d) ==
  damaged' = (damaged \/ (d.tag /\ ~(Disjoint(d) /\ Files(disk.dir) \subseteq Files(d.dir))))

Ready == cmd = Idle /\ disk.tag

Blocks(mib) == (mib + (mib % 2)) \div 2

create(n, mib) ==
  /\ Ready /\ findfile(disk.dir, n) = {} /\ FreeRecords(disk.dir) # {}
  /\ \E s \in SortedOrders(disk.dir, NumUsed(disk.dir)) :
       LET fits == FitsHere(disk.dir, s, NumUsed(disk.dir), disk.blocks,
                              Blocks(mib))
           d    == [disk EXCEPT !.dir = AddRecord(disk.dir, n,
                      prev_file_end(disk.dir, s, First(fits)), Blocks(mib))]
       IN  fits # {} /\ disk' = d /\ Damage(d)
  /\ UNCHANGED <<cmd, foreign, kept>>

-----------------------------------------------------------------------------
(* write, read, delete *)

\* What the file of record e holds.
read(d, e) == [b \in 1..e.size |-> d.data[e.start + b - 1]]

Forget(n) == [m \in DOMAIN kept \ {n} |-> kept[m]]

\* Mutant: a file of any size is let in.
HasRoom_Always(e, size) == TRUE

HasRoom(e, size) == size <= e.reserved

write(n, v, size) ==
  /\ Ready /\ findfile(disk.dir, n) # {}
  /\ LET i == First(findfile(disk.dir, n))
     IN  /\ HasRoom(disk.dir[i], size)
         /\ cmd' = [op |-> "write", slot |-> i, v |-> v, size |-> size, done |-> 0]
  /\ kept' = Forget(n)
  /\ UNCHANGED <<disk, damaged, foreign>>

\* The next block is copied.
write_block ==
  /\ cmd.op = "write" /\ cmd.done < cmd.size
  /\ disk' = Put(disk, disk.dir[cmd.slot].start + cmd.done, cmd.v)
  /\ cmd' = [cmd EXCEPT !.done = @ + 1]
  /\ UNCHANGED <<damaged, foreign, kept>>

write_directory ==
  /\ cmd.op = "write" /\ cmd.done = cmd.size
  /\ disk' = [disk EXCEPT !.dir[cmd.slot].size = cmd.size]
  /\ kept' = [m \in DOMAIN kept \cup {disk.dir[cmd.slot].name} |->
                IF m = disk.dir[cmd.slot].name
                THEN [b \in 1..cmd.size |-> cmd.v] ELSE kept[m]]
  /\ cmd' = Idle /\ UNCHANGED <<damaged, foreign>>

delete(n) ==
  /\ Ready /\ findfile(disk.dir, n) # {}
  /\ disk' = [disk EXCEPT !.dir[First(findfile(disk.dir, n))].name = DELETED]
  /\ kept' = Forget(n)
  /\ UNCHANGED <<cmd, damaged, foreign>>

-----------------------------------------------------------------------------
(* format and initialize *)

\* Only a disk with the tag needs /FORCE, so anybody who insists may format.
format ==
  /\ cmd = Idle
  /\ cmd' = [op |-> "format"] /\ UNCHANGED <<disk, damaged, foreign, kept>>

Formatting == cmd.op = "format" \/ (cmd.op = "init" /\ disk.blocks = cmd.blocks)

\* From here to the next write the disk shows whatever the directory area
\* held before.
format_tag ==
  /\ Formatting /\ ~disk.tag
  /\ disk' = [disk EXCEPT !.tag = TRUE]
  /\ Damage(disk') /\ foreign' = (disk.dir # Zeroed) /\ UNCHANGED <<cmd, kept>>

\* Mutant: the directory of the disk is left as it is.
format_directory_Missing ==
  /\ Formatting /\ disk.tag
  /\ disk' = disk /\ damaged' = FALSE /\ foreign' = FALSE
  /\ kept' = << >>
  /\ cmd' = IF cmd.op = "init" THEN [cmd EXCEPT !.op = "boot"] ELSE Idle

format_directory ==
  /\ Formatting /\ disk.tag
  /\ disk' = [disk EXCEPT !.dir = Zeroed] /\ damaged' = FALSE /\ foreign' = FALSE
  /\ kept' = << >>
  /\ cmd' = IF cmd.op = "init" THEN [cmd EXCEPT !.op = "boot"] ELSE Idle

DigitOf == [c \in {"0", "1", "2", "3", "4", "5", "6", "7", "8", "9"} |->
              CASE c = "0" -> 0 [] c = "1" -> 1 [] c = "2" -> 2 [] c = "3" -> 3
                [] c = "4" -> 4 [] c = "5" -> 5 [] c = "6" -> 6 [] c = "7" -> 7
                [] c = "8" -> 8 [] c = "9" -> 9]
FactorOf == [K |-> 1, M |-> 2, G |-> 3, T |-> 4, P |-> 5]

\* diskSize *= by, unless the product is seen to overflow.
Scaled(r, by, plus) ==
  IF (r.size * by) % Word > r.size
  THEN [r EXCEPT !.size = (r.size * by + plus) % Word] ELSE [r EXCEPT !.ret = 1]

\* One character of the size.
ParseChar(r, text, i) ==
  IF r.ret = 1 THEN r
  ELSE IF text[i] \in DOMAIN DigitOf
  THEN IF r.size = 0 THEN [r EXCEPT !.size = DigitOf[text[i]]]
       ELSE Scaled(r, 10, DigitOf[text[i]])
  ELSE IF i > 1 /\ text[i] \in DOMAIN FactorOf /\ i = Len(text)
  THEN [r EXCEPT !.factor = FactorOf[text[i]]] ELSE [r EXCEPT !.ret = 1]

\* Mutant: the unit is applied once too few.
ParseSize_OneLess(text) ==
  LET read_to[i \in 0..Len(text)] ==
        IF i = 0 THEN [size |-> 0, factor |-> 0, ret |-> 0]
        ELSE ParseChar(read_to[i - 1], text, i)
      scaled[i \in 0..5] ==
        IF i <= 1 \/ read_to[Len(text)].size = 0 THEN read_to[Len(text)]
        ELSE Scaled(scaled[i - 1], Kilo, 0)
  IN  scaled[read_to[Len(text)].factor]

\* The loop over the characters, then the loop that applies the unit.
ParseSize(text) ==
  LET read_to[i \in 0..Len(text)] ==
        IF i = 0 THEN [size |-> 0, factor |-> 0, ret |-> 0]
        ELSE ParseChar(read_to[i - 1], text, i)
      scaled[i \in 0..5] ==
        IF i = 0 \/ read_to[Len(text)].size = 0 THEN read_to[Len(text)]
        ELSE Scaled(scaled[i - 1], Kilo, 0)
  IN  scaled[read_to[Len(text)].factor]

minimumDiskSize == 3 * BlockBytes

\* initialize: the size is accepted, the files given open, the image is
\* truncated.  The master boot record, the boot loader and the kernel reach
\* system blocks, 0 if none is given.  Larger disks than MaxBlocks are left out.
initialize(text, system) ==
  LET r == ParseSize(text) IN
  /\ cmd = Idle /\ r.ret = 0 /\ r.size >= minimumDiskSize
  /\ r.size \div BlockBytes <= MaxBlocks
  /\ disk' = [tag |-> FALSE, dir |-> Zeroed, blocks |-> 0, data |-> << >>]
  /\ cmd' = [op |-> "init", text |-> text, size |-> r.size,
             blocks |-> r.size \div BlockBytes, system |-> system, done |-> 0]
  /\ kept' = << >> /\ UNCHANGED <<damaged, foreign>>

zero_block ==
  /\ cmd.op = "init" /\ disk.blocks < cmd.blocks
  /\ disk' = [disk EXCEPT !.blocks = @ + 1,
                          !.data = [b \in 0..disk.blocks |-> "zero"]]
  /\ UNCHANGED <<cmd, damaged, foreign, kept>>

\* The master boot record goes to the start of block 0, the boot loader and
\* the kernel behind the directory, from there on over as many blocks as they
\* need: nothing compares them with the size of block 0 or of the image.
write_boot ==
  /\ cmd.op = "boot" /\ cmd.done < cmd.system
  /\ disk' = Put(disk, cmd.done, "system")
  /\ cmd' = [cmd EXCEPT !.done = @ + 1] /\ UNCHANGED <<damaged, foreign, kept>>

\* initialize has written everything, a write fails, or the tool is killed.
stop == cmd # Idle /\ cmd' = Idle /\ UNCHANGED <<disk, damaged, foreign, kept>>

-----------------------------------------------------------------------------
Init ==
  /\ \E d \in {Zeroed} \cup {Foreign(n) : n \in Name}, boot \in {"zero", "system"} :
       disk = [tag |-> FALSE, dir |-> d, blocks |-> MaxBlocks,
               data |-> [b \in 0..MaxBlocks - 1 |-> IF b = 0 THEN boot ELSE "zero"]]
  /\ cmd = Idle /\ damaged = FALSE /\ foreign = FALSE /\ kept = << >>

Next ==
  \/ \E n \in Name, mib \in 1..MaxMiB : create(n, mib)
  \/ \E n \in Name, v \in Data, size \in 0..Blocks(MaxMiB) : write(n, v, size)
  \/ write_block \/ write_directory
  \/ \E n \in Name : delete(n)
  \/ format \/ format_tag \/ format_directory
  \/ \E text \in SizeText, system \in 0..MaxSystem : initialize(text, system)
  \/ zero_block \/ write_boot \/ stop

Spec == Init /\ [][Next]_vars

-----------------------------------------------------------------------------
\* A run of free data blocks of that length.
Gap(d, blocks) ==
  \E b \in 1..d.blocks - 1 :
    /\ b + blocks <= d.blocks - 1
    /\ \A i \in Files(d.dir) : FileEnd(d.dir[i]) <= b \/ b + blocks <= d.dir[i].start

HasDeleted(dir) == \E i \in InUse(dir) : dir[i].name = DELETED

\* On a disk without damage, create makes files overlap, leave the disk or
\* vanish in two cases only: the disk has less than two blocks, or there is a
\* deleted record and either no gap is large enough or the directory has no
\* end marker.  The step of format that brings a foreign directory to light is
\* the other source of damage; what create does after it is not counted.
DamageNeedsDeleted ==
  [][~damaged /\ damaged' =>
       \/ Formatting
       \/ disk.blocks < 2
       \/ /\ HasDeleted(disk.dir)
          /\ \/ InUse(disk.dir) = Slot
             \/ \A i \in Slot : disk'.dir[i] # disk.dir[i] =>
                                ~Gap(disk, disk'.dir[i].reserved)]_vars

\* On a disk without damage, by create or by a format that stopped before it
\* wrote the directory, each file that write has finished reads back as it was
\* written, whatever is created, deleted, written or interrupted beside it.
ContentsKept ==
  ~damaged => \A n \in DOMAIN kept :
    /\ findfile(disk.dir, n) # {}
    /\ read(disk, disk.dir[First(findfile(disk.dir, n))]) = kept[n]

\* Nothing but initialize writes block 0, where the boot sector is, not even
\* after create has put files over each other or past the end: the one way to
\* it is a file of a foreign directory, after a format that stopped between
\* the tag and the directory.  (Blocks the system reaches beyond block 0 are
\* not protected: create gives block 1 to the first file.)
BootSurvives ==
  [][~foreign /\ disk.blocks > 0 /\ disk'.blocks > 0 /\ disk.data[0] = "system"
       => disk'.data[0] = "system"]_vars

\* The number a size argument stands for.
Exact(text) ==
  LET unit == Len(text) > 0 /\ text[Len(text)] \in DOMAIN FactorOf
      value[i \in 0..Len(text)] ==
        IF i = 0 THEN 0 ELSE 10 * value[i - 1] + DigitOf[text[i]]
      kilos[i \in 0..5] == IF i = 0 THEN 1 ELSE Kilo * kilos[i - 1]
  IN  IF unit THEN value[Len(text) - 1] * kilos[FactorOf[text[Len(text)]]]
      ELSE value[Len(text)]

\* initialize makes a disk of the size asked for, if that fits a word.
SizeIsExact ==
  cmd.op = "init" /\ Exact(cmd.text) < Word => cmd.size = Exact(cmd.text)

=============================================================================
