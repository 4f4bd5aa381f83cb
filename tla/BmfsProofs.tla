----------------------------- MODULE BmfsProofs -----------------------------
(***************************************************************************)
(* Proofs about Bootloader/BMFS/bmfs.c (Bmfs), for every disk, directory   *)
(* and set of files.                                                       *)
(*                                                                         *)
(* The first part is the inductive invariant BmfsInv.  On a disk without   *)
(* damage the files lie apart, a write stays inside its file because no    *)
(* file is larger than its reservation, and what was written is there      *)
(* until the directory says so.  The second part is the allocation of      *)
(* create: with the records in the order qsort leaves, the first gap that  *)
(* is large enough is free (GapIsFree), and a gap that exists is found     *)
(* (GapIsFound).                                                           *)
(* The third part is about block 0, with the invariant that even a damaged *)
(* directory has no record that starts there (BehindBoot).                 *)
(***************************************************************************)
EXTENDS Bmfs, DataProofs

Held == Data \cup {"zero", "system"}

DiskOk(d) ==
  /\ d = [tag |-> d.tag, dir |-> d.dir, blocks |-> d.blocks, data |-> d.data]
  /\ d.tag \in BOOLEAN /\ d.dir \in [Slot -> Entry] /\ d.blocks \in Nat
  /\ d.data \in [0..(d.blocks - 1) -> Held]

\* No two files have one name, and no file is larger than its reservation.
DirOk(dir) ==
  /\ \A i, j \in Files(dir) : dir[i].name = dir[j].name => i = j
  /\ \A i \in Slot : dir[i].size <= dir[i].reserved
  /\ \A i \in Slot : dir[i].name # END => dir[i].reserved >= 1

\* A write that runs: the blocks before cmd.done are copied.
WriteOk ==
  cmd.op = "write" =>
    LET e == disk.dir[cmd.slot]
    IN  /\ cmd = [op |-> "write", slot |-> cmd.slot, v |-> cmd.v, size |-> cmd.size,
                  done |-> cmd.done]
        /\ disk.tag /\ cmd.slot \in Files(disk.dir) /\ cmd.v \in Data
        /\ cmd.size \in Nat /\ cmd.done \in 0..cmd.size /\ cmd.size <= e.reserved
        /\ e.name \notin DOMAIN kept
        /\ ~damaged => \A b \in 0..(cmd.done - 1) : disk.data[e.start + b] = cmd.v

\* An initialize that runs: the image holds zeros until the system is written,
\* and no files.
InitOk ==
  /\ cmd.op \in {"init", "boot"} =>
       /\ cmd = [op |-> cmd.op, text |-> cmd.text, size |-> cmd.size, blocks |-> cmd.blocks,
                 system |-> cmd.system, done |-> cmd.done]
       /\ cmd.done \in Nat
  /\ cmd.op = "init" => \A b \in 0..(disk.blocks - 1) : disk.data[b] = "zero"
  /\ cmd.op \in {"init", "boot"} \/ ~disk.tag => DOMAIN kept = {}

Safe == ~damaged /\ disk.tag => Disjoint(disk)

KeptOk ==
  ~damaged => \A n \in DOMAIN kept :
    \E i \in Files(disk.dir) :
      disk.dir[i].name = n /\ read(disk, disk.dir[i]) = kept[n]

BmfsInv ==
  /\ DiskOk(disk) /\ DirOk(disk.dir) /\ damaged \in BOOLEAN /\ DOMAIN kept \subseteq Name
  /\ cmd.op \in {"none", "write", "format", "init", "boot"}
  /\ WriteOk /\ InitOk /\ Safe /\ KeptOk

-----------------------------------------------------------------------------
(* The directory. *)

\* The tool takes the first of the records it looks for.
LEMMA FirstIs ==
  ASSUME NEW S \in SUBSET Nat, S # {}
  PROVE  First(S) \in S /\ \A j \in S : First(S) <= j
  BY NatMinimum DEF First

\* The files are entries before the end of the directory.
LEMMA FilesAreSlots ==
  ASSUME NEW dir
  PROVE  /\ Files(dir) \subseteq InUse(dir) /\ InUse(dir) \subseteq Slot
         /\ Slot \subseteq Nat
         /\ \A i \in Files(dir) : dir[i].name \notin {END, DELETED}
  <1>1. Slot \subseteq Nat /\ InUse(dir) \subseteq Slot
    BY BmfsAssumption DEF Slot, InUse
  <1>2. ASSUME NEW i \in InUse(dir) PROVE dir[i].name # END
    <2>1. i \in 1..i
      BY <1>1, <1>2 DEF Slot
    <2> QED BY <2>1 DEF InUse
  <1> QED BY <1>1, <1>2 DEF Files

\* The records in use depend on the names only.
LEMMA SameFiles ==
  ASSUME NEW dir, NEW new, \A i \in Slot : (new[i].name = END) <=> (dir[i].name = END)
  PROVE  InUse(new) = InUse(dir)
  <1>1. \A i \in Slot : 1..i \subseteq Slot
    BY BmfsAssumption DEF Slot
  <1> QED BY <1>1 DEF InUse

\* The record of a name is the only one.
LEMMA TheFile ==
  ASSUME NEW dir, DirOk(dir), NEW i \in Files(dir)
  PROVE  findfile(dir, dir[i].name) = {i} /\ First(findfile(dir, dir[i].name)) = i
  <1>1. findfile(dir, dir[i].name) = {i}
    BY DEF findfile, DirOk
  <1>2. {i} \in SUBSET Nat
    BY FilesAreSlots
  <1> QED BY <1>1, <1>2, FirstIs

\* findfile finds an entry that holds the name.
LEMMA Found ==
  ASSUME NEW dir, NEW n, findfile(dir, n) # {}
  PROVE  First(findfile(dir, n)) \in Files(dir) /\ dir[First(findfile(dir, n))].name = n
  <1>1. findfile(dir, n) \in SUBSET Nat
    BY FilesAreSlots DEF findfile
  <1> QED BY <1>1, FirstIs DEF findfile

\* A record that goes by another name, or has another size.
Renamed(d, i, n) == [d EXCEPT !.dir[i].name = n]

Resized(d, i, size) == [d EXCEPT !.dir[i].size = size]

\* new is d with those names and sizes in the directory.
Differs(new, d, names, sizes) ==
  /\ DiskOk(new) /\ new.tag = d.tag /\ new.blocks = d.blocks /\ new.data = d.data
  /\ \A j \in Slot : /\ new.dir[j].name = names[j]
                     /\ new.dir[j].start = d.dir[j].start
                     /\ new.dir[j].reserved = d.dir[j].reserved
                     /\ new.dir[j].size = sizes[j]

Names(d) == [j \in Slot |-> d.dir[j].name]

Sizes(d) == [j \in Slot |-> d.dir[j].size]

\* A name is written into the entry, and nothing else.
LEMMA RenamedIs ==
  ASSUME NEW d, DiskOk(d), NEW i \in Slot, NEW n \in Name \cup {END, DELETED}
  PROVE  Differs(Renamed(d, i, n), d, [Names(d) EXCEPT ![i] = n], Sizes(d))
  <1> DEFINE dir == [d.dir EXCEPT ![i].name = n]
             new == [tag |-> d.tag, dir |-> dir, blocks |-> d.blocks, data |-> d.data]
  <1>1. d.dir \in [Slot -> Entry]
    BY DEF DiskOk
  <1>2. dir \in [Slot -> Entry]
    BY <1>1 DEF Entry
  <1>3. \A j \in Slot : dir[j] = IF j = i THEN [d.dir[i] EXCEPT !.name = n] ELSE d.dir[j]
    BY <1>1
  <1>4. \A j \in Slot : d.dir[j] \in Entry
    BY <1>1
  <1> HIDE DEF dir
  <1>5. Renamed(d, i, n) = new
    BY DEF Renamed, DiskOk, dir
  <1>6. DiskOk(new)
    BY <1>2 DEF DiskOk
  <1>7. new.tag = d.tag /\ new.blocks = d.blocks /\ new.data = d.data /\ new.dir = dir
    OBVIOUS
  <1> HIDE DEF new
  <1> QED BY <1>3, <1>4, <1>5, <1>6, <1>7 DEF Entry, Differs, Names, Sizes

\* A size is written into the entry, and nothing else.
LEMMA ResizedIs ==
  ASSUME NEW d, DiskOk(d), NEW i \in Slot, NEW size \in Nat
  PROVE  Differs(Resized(d, i, size), d, Names(d), [Sizes(d) EXCEPT ![i] = size])
  <1> DEFINE dir == [d.dir EXCEPT ![i].size = size]
             new == [tag |-> d.tag, dir |-> dir, blocks |-> d.blocks, data |-> d.data]
  <1>1. d.dir \in [Slot -> Entry]
    BY DEF DiskOk
  <1>2. dir \in [Slot -> Entry]
    BY <1>1 DEF Entry
  <1>3. \A j \in Slot : dir[j] = IF j = i THEN [d.dir[i] EXCEPT !.size = size] ELSE d.dir[j]
    BY <1>1
  <1>4. \A j \in Slot : d.dir[j] \in Entry
    BY <1>1
  <1> HIDE DEF dir
  <1>5. Resized(d, i, size) = new
    BY DEF Resized, DiskOk, dir
  <1>6. DiskOk(new)
    BY <1>2 DEF DiskOk
  <1>7. new.tag = d.tag /\ new.blocks = d.blocks /\ new.data = d.data /\ new.dir = dir
    OBVIOUS
  <1> HIDE DEF new
  <1> QED BY <1>3, <1>4, <1>5, <1>6, <1>7 DEF Entry, Differs, Names, Sizes

\* What read returns depends on the place, the size and the blocks.
LEMMA SameRead ==
  ASSUME NEW d, NEW e, NEW c, NEW f, e.start = f.start, e.size = f.size,
         \A b \in 1..e.size : d.data[e.start + b - 1] = c.data[e.start + b - 1]
  PROVE  read(d, e) = read(c, f)
  BY DEF read

-----------------------------------------------------------------------------
(* The steps of write and delete. *)

\* write finds the entry and changes nothing on the disk.
LEMMA WriteStarts ==
  ASSUME BmfsInv, NEW n \in Name, NEW v \in Data, NEW size \in Nat, write(n, v, size)
  PROVE  BmfsInv'
  <1> DEFINE i == First(findfile(disk.dir, n))
  <1>1. /\ i \in Files(disk.dir) /\ disk.dir[i].name = n /\ disk.tag
        /\ size <= disk.dir[i].reserved
    BY Found DEF write, Ready, HasRoom
  <1>2. /\ cmd' = [op |-> "write", slot |-> i, v |-> v, size |-> size, done |-> 0]
        /\ disk' = disk /\ damaged' = damaged /\ kept' = Forget(n)
    BY DEF write
  <1> HIDE DEF i
  <1>3. DOMAIN kept' = DOMAIN kept \ {n} /\ \A m \in DOMAIN kept' : kept'[m] = kept[m]
    BY <1>2 DEF Forget
  <1>4. WriteOk'
    BY <1>1, <1>2, <1>3 DEF WriteOk
  <1>5. InitOk' /\ Safe'
    BY <1>1, <1>2, <1>3 DEF InitOk, Safe, BmfsInv
  <1>6. KeptOk'
    BY <1>2, <1>3 DEF KeptOk, BmfsInv
  <1> QED BY <1>2, <1>3, <1>4, <1>5, <1>6 DEF BmfsInv

\* A block of a file without damage lies in the image, apart from the others.
LEMMA InsideFile ==
  ASSUME DiskOk(disk), Disjoint(disk), NEW i \in Files(disk.dir),
         NEW x \in Nat, x < disk.dir[i].reserved
  PROVE  /\ disk.dir[i].start + x \in 1..(disk.blocks - 2)
         /\ \A j \in Files(disk.dir) \ {i}, y \in Nat : y < disk.dir[j].reserved =>
              disk.dir[j].start + y # disk.dir[i].start + x
  <1>1. \A j \in Files(disk.dir) : disk.dir[j].start \in Nat /\ disk.dir[j].reserved \in Nat
    BY FilesAreSlots DEF DiskOk, Entry
  <1>2. disk.blocks \in Nat
    BY DEF DiskOk
  <1> QED BY <1>1, <1>2 DEF Disjoint, FileEnd

\* A block is written past the end of the image, or inside it.
LEMMA PutIs ==
  ASSUME NEW d, DiskOk(d), NEW b \in Nat, NEW v \in Held
  PROVE  LET new == Put(d, b, v)
         IN  /\ DiskOk(new) /\ new.dir = d.dir /\ new.tag = d.tag
             /\ new.blocks > b /\ new.blocks >= d.blocks
             /\ b < d.blocks => new.blocks = d.blocks
             /\ new.data[b] = v
             /\ \A x \in 0..(d.blocks - 1) : x # b => new.data[x] = d.data[x]
  <1> DEFINE n == IF b < d.blocks THEN d.blocks ELSE b + 1
             data == [x \in 0..n - 1 |-> IF x = b THEN v
                                         ELSE IF x < d.blocks THEN d.data[x] ELSE "zero"]
             new == Put(d, b, v)
  <1>1. n \in Nat /\ n > b /\ n >= d.blocks /\ (b < d.blocks => n = d.blocks)
    BY DEF DiskOk
  <1>2. new = [d EXCEPT !.blocks = n, !.data = data]
    BY DEF Put
  <1> HIDE DEF n
  <1>3. data \in [0..(n - 1) -> Held]
    BY <1>1 DEF DiskOk, Held
  <1>4. data[b] = v /\ \A x \in 0..(d.blocks - 1) : x # b => data[x] = d.data[x]
    BY <1>1 DEF DiskOk
  <1> HIDE DEF data, new
  <1>5. new = [tag |-> d.tag, dir |-> d.dir, blocks |-> n, data |-> data]
    BY <1>2 DEF DiskOk
  <1>6. DiskOk(new)
    BY <1>1, <1>3, <1>5 DEF DiskOk
  <1> QED BY <1>1, <1>4, <1>5, <1>6 DEF new

\* The next block of a file is written.
LEMMA WrittenDisk ==
  ASSUME BmfsInv, write_block
  PROVE  LET b == disk.dir[cmd.slot].start + cmd.done
         IN  /\ DiskOk(disk') /\ disk'.dir = disk.dir /\ disk'.tag = disk.tag
             /\ b \in Nat /\ disk'.blocks > b /\ disk'.blocks >= disk.blocks
             /\ b < disk.blocks => disk'.blocks = disk.blocks
             /\ disk'.data[b] = cmd.v
             /\ \A x \in 0..(disk.blocks - 1) : x # b => disk'.data[x] = disk.data[x]
  <1> DEFINE b == disk.dir[cmd.slot].start + cmd.done
  <1>1. DiskOk(disk) /\ cmd.v \in Held /\ cmd.slot \in Slot /\ cmd.done \in Nat
    BY FilesAreSlots DEF BmfsInv, WriteOk, write_block, Held
  <1>2. b \in Nat
    BY <1>1 DEF DiskOk, Entry
  <1>3. disk' = Put(disk, b, cmd.v)
    BY DEF write_block
  <1> HIDE DEF b
  <1>4. /\ DiskOk(disk') /\ disk'.dir = disk.dir /\ disk'.tag = disk.tag
        /\ disk'.blocks > b /\ disk'.blocks >= disk.blocks
        /\ b < disk.blocks => disk'.blocks = disk.blocks
        /\ disk'.data[b] = cmd.v
        /\ \A x \in 0..(disk.blocks - 1) : x # b => disk'.data[x] = disk.data[x]
    BY <1>1, <1>2, <1>3, PutIs
  <1> QED BY <1>2, <1>4, Zenon DEF b

\* A block of the file is written, inside the blocks reserved for it.
LEMMA WriteBlock ==
  ASSUME BmfsInv, write_block
  PROVE  BmfsInv'
  <1> DEFINE e == disk.dir[cmd.slot]
             b == e.start + cmd.done
  <1>1. /\ DiskOk(disk') /\ disk'.dir = disk.dir /\ disk'.tag = disk.tag
        /\ b \in Nat /\ disk'.blocks > b /\ disk'.blocks >= disk.blocks
        /\ b < disk.blocks => disk'.blocks = disk.blocks
        /\ disk'.data[b] = cmd.v
        /\ \A x \in 0..(disk.blocks - 1) : x # b => disk'.data[x] = disk.data[x]
    BY WrittenDisk
  <1>2. /\ cmd.op = "write" /\ cmd.done < cmd.size /\ damaged' = damaged /\ kept' = kept
        /\ cmd' = [cmd EXCEPT !.done = @ + 1]
    BY DEF write_block
  <1>3. /\ cmd = [op |-> "write", slot |-> cmd.slot, v |-> cmd.v, size |-> cmd.size,
                  done |-> cmd.done]
        /\ disk.tag /\ cmd.slot \in Files(disk.dir) /\ cmd.v \in Data
        /\ cmd.size \in Nat /\ cmd.done \in 0..cmd.size /\ cmd.size <= e.reserved
        /\ e.name \notin DOMAIN kept
        /\ ~damaged => \A x \in 0..(cmd.done - 1) : disk.data[e.start + x] = cmd.v
    BY <1>2 DEF BmfsInv, WriteOk
  <1>4. cmd' = [op |-> "write", slot |-> cmd.slot, v |-> cmd.v, size |-> cmd.size,
                done |-> cmd.done + 1]
    BY <1>2, <1>3
  <1>5. e.start \in Nat /\ e.reserved \in Nat
    BY <1>3, FilesAreSlots DEF BmfsInv, DiskOk, Entry
  <1>6. ASSUME ~damaged
        PROVE  /\ Disjoint(disk) /\ b \in 1..(disk.blocks - 2)
               /\ \A i \in Files(disk.dir) \ {cmd.slot}, y \in Nat :
                    y < disk.dir[i].reserved => disk.dir[i].start + y # b
    <2>1. Disjoint(disk)
      BY <1>3, <1>6 DEF BmfsInv, Safe
    <2>2. cmd.done \in Nat /\ cmd.done < e.reserved
      BY <1>2, <1>3, <1>5
    <2> QED BY <1>3, <2>1, <2>2, InsideFile DEF BmfsInv
  <1>7. WriteOk'
    <2>1. ASSUME ~damaged, NEW x \in 0..cmd.done PROVE disk'.data[e.start + x] = cmd.v
      <3>1. CASE x = cmd.done
        BY <1>1, <3>1
      <3>2. CASE x # cmd.done
        <4>1. x \in 0..(cmd.done - 1) /\ e.start + x # b /\ e.start + x \in 0..(disk.blocks - 1)
          <5>1. cmd.done \in Nat /\ disk.blocks \in Nat /\ b \in 1..(disk.blocks - 2)
            BY <1>3, <1>6, <2>1 DEF BmfsInv, DiskOk
          <5> HIDE DEF e
          <5> QED BY <1>5, <3>2, <5>1
        <4> QED BY <1>1, <1>3, <2>1, <4>1
      <3> QED BY <3>1, <3>2
    <2> HIDE DEF b
    <2> QED BY <1>1, <1>2, <1>3, <1>4, <2>1 DEF WriteOk
  <1>8. InitOk'
    BY <1>1, <1>3, <1>4 DEF InitOk
  <1> HIDE DEF b
  <1>9. Safe'
    <2>1. ASSUME ~damaged PROVE disk'.blocks = disk.blocks
      BY <1>1, <1>6, <2>1 DEF BmfsInv, DiskOk
    <2> QED BY <1>1, <1>2, <1>3, <1>6, <2>1 DEF Safe, Disjoint
  <1>10. ASSUME ~damaged, NEW m \in DOMAIN kept
         PROVE  \E i \in Files(disk'.dir) :
                  disk'.dir[i].name = m /\ read(disk', disk'.dir[i]) = kept[m]
    <2>1. PICK i \in Files(disk.dir) :
                 disk.dir[i].name = m /\ read(disk, disk.dir[i]) = kept[m]
      BY <1>10 DEF BmfsInv, KeptOk
    <2> DEFINE f == disk.dir[i]
    <2>2. i # cmd.slot /\ f.start \in Nat /\ f.size \in Nat /\ f.reserved \in Nat
          /\ f.size <= f.reserved
      BY <1>3, <2>1, FilesAreSlots DEF BmfsInv, DiskOk, DirOk, Entry
    <2>3. ASSUME NEW x \in 1..f.size PROVE disk'.data[f.start + x - 1] = disk.data[f.start + x - 1]
      <3>1. x - 1 \in Nat /\ x - 1 < f.reserved /\ f.start + x - 1 = f.start + (x - 1)
        BY <2>2
      <3>2. f.start + (x - 1) \in 1..(disk.blocks - 2) /\ f.start + (x - 1) # b
        BY <1>6, <1>10, <2>1, <2>2, <3>1, InsideFile DEF BmfsInv
      <3>3. disk.blocks \in Nat
        BY DEF BmfsInv, DiskOk
      <3> QED BY <1>1, <3>1, <3>2, <3>3
    <2>4. read(disk', f) = read(disk, f)
      BY <2>3, SameRead
    <2> QED BY <1>1, <2>1, <2>4
  <1>11. KeptOk'
    BY <1>2, <1>10 DEF KeptOk
  <1> QED BY <1>1, <1>2, <1>4, <1>7, <1>8, <1>9, <1>11 DEF BmfsInv

\* The size is written last.
LEMMA WriteDirectory ==
  ASSUME BmfsInv, write_directory
  PROVE  BmfsInv'
  <1> DEFINE i == cmd.slot
             e == disk.dir[i]
  <1>1. /\ cmd.op = "write" /\ cmd.done = cmd.size /\ cmd' = Idle /\ damaged' = damaged
        /\ disk' = Resized(disk, i, cmd.size)
        /\ kept' = [m \in DOMAIN kept \cup {e.name} |->
                      IF m = e.name THEN [b \in 1..cmd.size |-> cmd.v] ELSE kept[m]]
    BY DEF write_directory, Resized
  <1>2. /\ disk.tag /\ i \in Files(disk.dir) /\ i \in Slot /\ cmd.v \in Data
        /\ cmd.size \in Nat /\ cmd.size <= e.reserved /\ e.name \notin DOMAIN kept
        /\ ~damaged => \A b \in 0..(cmd.done - 1) : disk.data[e.start + b] = cmd.v
    BY <1>1, FilesAreSlots DEF BmfsInv, WriteOk
  <1>3. e.name \in Name /\ e.start \in Nat
    BY <1>2, FilesAreSlots DEF BmfsInv, DiskOk, Entry
  <1>4. /\ DiskOk(disk') /\ disk'.tag = disk.tag /\ disk'.blocks = disk.blocks
        /\ disk'.data = disk.data
        /\ \A j \in Slot : /\ disk'.dir[j].name = disk.dir[j].name
                           /\ disk'.dir[j].start = disk.dir[j].start
                           /\ disk'.dir[j].reserved = disk.dir[j].reserved
                           /\ disk'.dir[j].size = IF j = i THEN cmd.size ELSE disk.dir[j].size
    <2>1. DiskOk(disk)
      BY DEF BmfsInv
    <2> HIDE DEF i
    <2>2. Differs(Resized(disk, i, cmd.size), disk, Names(disk), [Sizes(disk) EXCEPT ![i] = cmd.size])
      BY <1>2, <2>1, ResizedIs
    <2> QED BY <1>1, <2>2 DEF Differs, Names, Sizes
  <1>5. InUse(disk'.dir) = InUse(disk.dir) /\ Files(disk'.dir) = Files(disk.dir)
    <2>1. InUse(disk'.dir) = InUse(disk.dir)
      BY <1>4, SameFiles
    <2> QED BY <1>4, <2>1, FilesAreSlots DEF Files
  <1>6. DOMAIN kept' = DOMAIN kept \cup {e.name} /\ DOMAIN kept' \subseteq Name
    BY <1>1, <1>3 DEF BmfsInv
  <1>7. kept'[e.name] = [b \in 1..cmd.size |-> cmd.v] /\ \A m \in DOMAIN kept : kept'[m] = kept[m]
    BY <1>1, <1>2
  <1>8. cmd'.op = "none"
    BY <1>1 DEF Idle
  <1> HIDE DEF i, e
  <1>9. DirOk(disk'.dir)
    BY <1>2, <1>4, <1>5, FilesAreSlots DEF BmfsInv, DirOk, e
  <1>10. WriteOk' /\ InitOk'
    BY <1>2, <1>4, <1>8 DEF WriteOk, InitOk
  <1>11. Safe'
    BY <1>1, <1>4, <1>5, FilesAreSlots DEF BmfsInv, Safe, Disjoint, FileEnd
  <1>12. ASSUME ~damaged, NEW m \in DOMAIN kept'
         PROVE  \E j \in Files(disk'.dir) :
                  disk'.dir[j].name = m /\ read(disk', disk'.dir[j]) = kept'[m]
    <2>1. CASE m = e.name
      <3>1. disk'.dir[i].start = e.start /\ disk'.dir[i].size = cmd.size /\ disk'.dir[i].name = m
        BY <1>2, <1>4, <2>1 DEF e
      <3>2. ASSUME NEW b \in 1..cmd.size PROVE disk'.data[e.start + b - 1] = cmd.v
        <4>1. b - 1 \in 0..(cmd.done - 1) /\ e.start + b - 1 = e.start + (b - 1)
          BY <1>1, <1>2, <1>3
        <4> QED BY <1>2, <1>4, <1>12, <4>1
      <3>3. read(disk', disk'.dir[i]) = [b \in 1..cmd.size |-> cmd.v]
        BY <3>1, <3>2 DEF read
      <3> QED BY <1>2, <1>5, <1>7, <2>1, <3>1, <3>3
    <2>2. CASE m # e.name
      <3>1. m \in DOMAIN kept /\ kept'[m] = kept[m]
        BY <1>6, <1>7, <1>12, <2>2
      <3>2. PICK j \in Files(disk.dir) :
                   disk.dir[j].name = m /\ read(disk, disk.dir[j]) = kept[m]
        BY <1>12, <3>1 DEF BmfsInv, KeptOk
      <3>3. /\ j # i /\ j \in Slot /\ disk'.dir[j].start = disk.dir[j].start
            /\ disk'.dir[j].size = disk.dir[j].size /\ disk'.dir[j].name = m
        BY <1>4, <2>2, <3>2, FilesAreSlots DEF e
      <3>4. read(disk', disk'.dir[j]) = read(disk, disk.dir[j])
        BY <1>4, <3>3, SameRead
      <3> QED BY <1>5, <3>1, <3>2, <3>3, <3>4
    <2> QED BY <2>1, <2>2
  <1>13. KeptOk'
    BY <1>1, <1>12 DEF KeptOk
  <1> QED BY <1>1, <1>4, <1>6, <1>8, <1>9, <1>10, <1>11, <1>13 DEF BmfsInv

\* delete marks the entry, and the other files stay as they are.
LEMMA Delete ==
  ASSUME BmfsInv, NEW n \in Name, delete(n)
  PROVE  BmfsInv'
  <1> DEFINE i == First(findfile(disk.dir, n))
  <1>1. /\ i \in Files(disk.dir) /\ i \in Slot /\ disk.dir[i].name = n
        /\ disk.tag /\ cmd.op = "none" /\ cmd' = cmd
    BY Found, FilesAreSlots DEF delete, Ready, Idle
  <1>2. disk' = Renamed(disk, i, DELETED) /\ damaged' = damaged /\ kept' = Forget(n)
    BY DEF delete, Renamed
  <1> HIDE DEF i
  <1>3. DOMAIN kept' = DOMAIN kept \ {n} /\ \A m \in DOMAIN kept' : kept'[m] = kept[m]
    BY <1>2 DEF Forget
  <1>4. /\ DiskOk(disk') /\ disk'.tag = disk.tag /\ disk'.blocks = disk.blocks
        /\ disk'.data = disk.data
        /\ \A j \in Slot : /\ disk'.dir[j].name = IF j = i THEN DELETED ELSE disk.dir[j].name
                           /\ disk'.dir[j].start = disk.dir[j].start
                           /\ disk'.dir[j].reserved = disk.dir[j].reserved
                           /\ disk'.dir[j].size = disk.dir[j].size
    <2>1. DiskOk(disk) /\ DELETED \in Name \cup {END, DELETED}
      BY DEF BmfsInv
    <2>2. Differs(Renamed(disk, i, DELETED), disk, [Names(disk) EXCEPT ![i] = DELETED], Sizes(disk))
      BY <1>1, <2>1, RenamedIs
    <2> QED BY <1>2, <2>2 DEF Differs, Names, Sizes
  <1>5. Files(disk'.dir) = Files(disk.dir) \ {i}
    <2>1. disk.dir[i].name # END /\ DELETED # END
      BY <1>1, FilesAreSlots DEF DELETED, END
    <2>2. InUse(disk'.dir) = InUse(disk.dir)
      BY <1>4, <2>1, SameFiles
    <2> QED BY <1>4, <2>2, FilesAreSlots DEF Files
  <1>6. DirOk(disk'.dir)
    <2>1. disk.dir[i].name # END
      BY <1>1, FilesAreSlots
    <2> QED BY <1>4, <1>5, <2>1, FilesAreSlots DEF BmfsInv, DirOk
  <1>7. WriteOk' /\ InitOk'
    BY <1>1, <1>4 DEF WriteOk, InitOk
  <1>8. Safe'
    BY <1>2, <1>4, <1>5, FilesAreSlots DEF BmfsInv, Safe, Disjoint, FileEnd
  <1>9. ASSUME ~damaged, NEW m \in DOMAIN kept'
        PROVE  \E j \in Files(disk'.dir) :
                 disk'.dir[j].name = m /\ read(disk', disk'.dir[j]) = kept'[m]
    <2>1. PICK j \in Files(disk.dir) :
                 disk.dir[j].name = m /\ read(disk, disk.dir[j]) = kept[m]
      BY <1>3, <1>9 DEF BmfsInv, KeptOk
    <2>2. /\ j # i /\ j \in Slot /\ disk'.dir[j].start = disk.dir[j].start
          /\ disk'.dir[j].size = disk.dir[j].size /\ disk'.dir[j].name = m
      BY <1>1, <1>3, <1>4, <1>9, <2>1, FilesAreSlots
    <2>3. read(disk', disk'.dir[j]) = read(disk, disk.dir[j])
      BY <1>4, <2>2, SameRead
    <2> QED BY <1>3, <1>5, <1>9, <2>1, <2>2, <2>3
  <1>10. KeptOk'
    BY <1>2, <1>9 DEF KeptOk
  <1> QED BY <1>1, <1>2, <1>3, <1>4, <1>6, <1>7, <1>8, <1>10 DEF BmfsInv

-----------------------------------------------------------------------------
(* The steps of format and initialize. *)

\* The directory that format writes holds no files.
LEMMA NoFiles ==
  /\ Zeroed \in [Slot -> Entry] /\ InUse(Zeroed) = {} /\ Files(Zeroed) = {} /\ DirOk(Zeroed)
  <1>1. Zeroed \in [Slot -> Entry] /\ \A i \in Slot : Zeroed[i] = ZeroEntry
    BY DEF Zeroed, ZeroEntry, Entry
  <1>2. ZeroEntry.name = END /\ ZeroEntry.size = 0 /\ ZeroEntry.reserved = 0
    BY DEF ZeroEntry
  <1>3. ASSUME NEW i \in Slot PROVE i \notin InUse(Zeroed)
    <2>1. i \in 1..i
      BY DEF Slot
    <2> QED BY <1>1, <1>2, <2>1 DEF InUse
  <1>4. InUse(Zeroed) = {}
    BY <1>3 DEF InUse
  <1>5. Files(Zeroed) = {}
    BY <1>4 DEF Files
  <1> QED BY <1>1, <1>2, <1>4, <1>5 DEF DirOk

\* Steps that change the command only, and end no write or initialize.
LEMMA OtherCommand ==
  ASSUME BmfsInv, UNCHANGED <<disk, damaged, kept>>, cmd'.op \in {"none", "format"}
  PROVE  BmfsInv'
  <1>1. WriteOk' /\ InitOk'
    BY DEF BmfsInv, WriteOk, InitOk
  <1> QED BY <1>1 DEF BmfsInv, Safe, KeptOk

\* format writes the tag.
LEMMA FormatTag ==
  ASSUME BmfsInv, format_tag
  PROVE  BmfsInv'
  <1>1. /\ ~disk.tag /\ disk' = [disk EXCEPT !.tag = TRUE] /\ cmd' = cmd /\ kept' = kept
        /\ damaged' = (damaged \/ (disk'.tag /\ ~(Disjoint(disk')
                                     /\ Files(disk.dir) \subseteq Files(disk'.dir))))
    BY DEF format_tag, Damage
  <1>2. disk' = [tag |-> TRUE, dir |-> disk.dir, blocks |-> disk.blocks, data |-> disk.data]
    BY <1>1 DEF BmfsInv, DiskOk
  <1>3. DiskOk(disk') /\ DirOk(disk'.dir)
    BY <1>2 DEF BmfsInv, DiskOk
  <1>4. DOMAIN kept = {} /\ cmd.op # "write"
    BY <1>1 DEF BmfsInv, InitOk, WriteOk
  <1>5. WriteOk' /\ InitOk'
    BY <1>1, <1>2, <1>4 DEF BmfsInv, WriteOk, InitOk
  <1>6. Safe' /\ KeptOk' /\ damaged' \in BOOLEAN
    BY <1>1, <1>2, <1>4 DEF Safe, KeptOk
  <1> QED BY <1>1, <1>3, <1>5, <1>6 DEF BmfsInv

\* format clears the directory: there is no file left to keep.
LEMMA FormatDirectory ==
  ASSUME BmfsInv, format_directory
  PROVE  BmfsInv'
  <1>1. /\ disk.tag /\ disk' = [disk EXCEPT !.dir = Zeroed] /\ damaged' = FALSE /\ kept' = << >>
        /\ cmd' = IF cmd.op = "init" THEN [cmd EXCEPT !.op = "boot"] ELSE Idle
    BY DEF format_directory
  <1>2. disk' = [tag |-> TRUE, dir |-> Zeroed, blocks |-> disk.blocks, data |-> disk.data]
    BY <1>1 DEF BmfsInv, DiskOk
  <1>3. DiskOk(disk') /\ DirOk(disk'.dir)
    BY <1>2, NoFiles DEF BmfsInv, DiskOk
  <1>4. cmd'.op \in {"none", "boot"}
    BY <1>1 DEF BmfsInv, InitOk, Idle
  <1>5. DOMAIN kept' = {}
    BY <1>1
  <1>6. WriteOk' /\ Safe' /\ KeptOk'
    BY <1>2, <1>4, <1>5, NoFiles DEF WriteOk, Safe, KeptOk, Disjoint
  <1>7. InitOk'
    <2>1. CASE cmd.op = "init"
      <3>1. /\ cmd = [op |-> "init", text |-> cmd.text, size |-> cmd.size,
                      blocks |-> cmd.blocks, system |-> cmd.system, done |-> cmd.done]
            /\ cmd.done \in Nat
        BY <2>1 DEF BmfsInv, InitOk
      <3>2. cmd' = [op |-> "boot", text |-> cmd.text, size |-> cmd.size,
                    blocks |-> cmd.blocks, system |-> cmd.system, done |-> cmd.done]
        BY <1>1, <2>1, <3>1
      <3> QED BY <1>5, <3>1, <3>2 DEF InitOk
    <2>2. CASE cmd.op # "init"
      BY <1>1, <1>5, <2>2 DEF InitOk, Idle
    <2> QED BY <2>1, <2>2
  <1> QED BY <1>1, <1>3, <1>4, <1>5, <1>6, <1>7 DEF BmfsInv

\* initialize starts an empty image: there is no file left to keep.
LEMMA Initialize ==
  ASSUME BmfsInv, NEW text, NEW system, initialize(text, system)
  PROVE  BmfsInv'
  <1> DEFINE size == ParseSize(text).size
             blocks == ParseSize(text).size \div BlockBytes
  <1>1. /\ disk' = [tag |-> FALSE, dir |-> Zeroed, blocks |-> 0, data |-> << >>]
        /\ cmd' = [op |-> "init", text |-> text, size |-> size, blocks |-> blocks,
                   system |-> system, done |-> 0]
        /\ kept' = << >> /\ damaged' = damaged
    BY DEF initialize
  <1> HIDE DEF size, blocks
  <1>2. << >> \in [0..(0 - 1) -> Held]
    OBVIOUS
  <1>3. DiskOk(disk') /\ DirOk(disk'.dir)
    BY <1>1, <1>2, NoFiles DEF DiskOk
  <1>4. DOMAIN kept' = {}
    BY <1>1
  <1>5. WriteOk' /\ InitOk' /\ Safe' /\ KeptOk'
    BY <1>1, <1>4 DEF WriteOk, InitOk, Safe, KeptOk
  <1> QED BY <1>1, <1>3, <1>4, <1>5 DEF BmfsInv

\* The image grows by a zeroed block.
LEMMA ZeroBlock ==
  ASSUME BmfsInv, zero_block
  PROVE  BmfsInv'
  <1> DEFINE data == [b \in 0..disk.blocks |-> "zero"]
  <1>1. /\ cmd.op = "init" /\ cmd' = cmd /\ damaged' = damaged /\ kept' = kept
        /\ disk' = [disk EXCEPT !.blocks = @ + 1, !.data = data]
    BY DEF zero_block
  <1>2. disk' = [tag |-> disk.tag, dir |-> disk.dir, blocks |-> disk.blocks + 1, data |-> data]
    BY <1>1 DEF BmfsInv, DiskOk
  <1>3. /\ disk.blocks \in Nat /\ (disk.blocks + 1) - 1 = disk.blocks
        /\ data \in [0..disk.blocks -> Held] /\ \A b \in 0..disk.blocks : data[b] = "zero"
    BY DEF BmfsInv, DiskOk, Held
  <1> HIDE DEF data
  <1>4. DiskOk(disk') /\ DirOk(disk'.dir)
    BY <1>2, <1>3 DEF BmfsInv, DiskOk
  <1>5. WriteOk' /\ InitOk' /\ DOMAIN kept = {}
    BY <1>1, <1>2, <1>3 DEF BmfsInv, WriteOk, InitOk
  <1>6. Safe'
    <2>1. ASSUME Disjoint(disk) PROVE Disjoint(disk')
      <3>1. \A i \in Files(disk.dir) : disk.dir[i].start \in Nat /\ disk.dir[i].reserved \in Nat
        BY FilesAreSlots DEF BmfsInv, DiskOk, Entry
      <3> QED BY <1>2, <1>3, <2>1, <3>1, SMTT(30) DEF Disjoint, FileEnd
    <2> QED BY <1>1, <1>2, <2>1 DEF BmfsInv, Safe
  <1> QED BY <1>1, <1>4, <1>5, <1>6 DEF BmfsInv, KeptOk

\* The next block of the system is written, while there are no files.
LEMMA WriteBoot ==
  ASSUME BmfsInv, write_boot
  PROVE  BmfsInv'
  <1>1. /\ cmd.op = "boot" /\ damaged' = damaged /\ kept' = kept
        /\ disk' = Put(disk, cmd.done, "system") /\ cmd' = [cmd EXCEPT !.done = @ + 1]
    BY DEF write_boot
  <1>2. /\ cmd = [op |-> "boot", text |-> cmd.text, size |-> cmd.size, blocks |-> cmd.blocks,
                  system |-> cmd.system, done |-> cmd.done]
        /\ cmd.done \in Nat /\ DOMAIN kept = {}
    BY <1>1 DEF BmfsInv, InitOk
  <1>3. "system" \in Held /\ DiskOk(disk)
    BY DEF Held, BmfsInv
  <1>4. /\ DiskOk(disk') /\ disk'.dir = disk.dir /\ disk'.tag = disk.tag
        /\ disk'.blocks >= disk.blocks
    BY <1>1, <1>2, <1>3, PutIs
  <1>5. cmd' = [op |-> "boot", text |-> cmd.text, size |-> cmd.size, blocks |-> cmd.blocks,
                system |-> cmd.system, done |-> cmd.done + 1]
    BY <1>1, <1>2
  <1>6. WriteOk' /\ InitOk'
    BY <1>1, <1>2, <1>5 DEF WriteOk, InitOk
  <1>7. Safe'
    <2>1. ASSUME Disjoint(disk) PROVE Disjoint(disk')
      <3>1. \A i \in Files(disk.dir) : disk.dir[i].start \in Nat /\ disk.dir[i].reserved \in Nat
        BY FilesAreSlots DEF BmfsInv, DiskOk, Entry
      <3>2. disk.blocks \in Nat /\ disk'.blocks \in Nat
        BY <1>3, <1>4 DEF DiskOk
      <3> QED BY <1>4, <2>1, <3>1, <3>2 DEF Disjoint, FileEnd
    <2> QED BY <1>1, <1>4, <2>1 DEF BmfsInv, Safe
  <1>8. KeptOk'
    BY <1>1, <1>2 DEF KeptOk
  <1> QED BY <1>1, <1>4, <1>5, <1>6, <1>7, <1>8 DEF BmfsInv

\* The image holds no file system at first, and nothing to keep.
LEMMA InitInv ==
  ASSUME Init
  PROVE  BmfsInv
  <1>1. PICK d \in {Zeroed} \cup {Foreign(n) : n \in Name}, boot \in {"zero", "system"} :
          disk = [tag |-> FALSE, dir |-> d, blocks |-> MaxBlocks,
                  data |-> [b \in 0..MaxBlocks - 1 |-> IF b = 0 THEN boot ELSE "zero"]]
    BY DEF Init
  <1>2. d \in [Slot -> Entry] /\ DirOk(d)
    <2>1. CASE d = Zeroed
      BY <2>1, NoFiles
    <2>2. ASSUME NEW n \in Name, d = Foreign(n) PROVE d \in [Slot -> Entry] /\ DirOk(d)
      <3> DEFINE e == [name |-> n, start |-> 0, reserved |-> 1, size |-> 0]
      <3>1. e \in Entry /\ ZeroEntry \in Entry /\ ZeroEntry.name = END
        BY DEF Entry, ZeroEntry
      <3>2. d \in [Slot -> Entry] /\ \A i \in Slot : d[i] = IF i = 1 THEN e ELSE ZeroEntry
        BY <2>2, <3>1, NoFiles DEF Foreign, Zeroed
      <3>3. Files(d) \subseteq {1}
        BY <3>1, <3>2, FilesAreSlots
      <3> QED BY <3>1, <3>2, <3>3 DEF DirOk, ZeroEntry
    <2> QED BY <1>1, <2>1, <2>2
  <1>3. DiskOk(disk)
    BY <1>1, <1>2, BmfsAssumption DEF DiskOk, Held
  <1>4. cmd.op = "none" /\ damaged = FALSE /\ DOMAIN kept = {} /\ ~disk.tag /\ disk.dir = d
    BY <1>1 DEF Init, Idle
  <1> QED BY <1>2, <1>3, <1>4 DEF BmfsInv, WriteOk, InitOk, Safe, KeptOk

-----------------------------------------------------------------------------
(* create: the record. *)

\* The records in use are those before the first that is free for another
\* reason than being deleted.
LEMMA FirstFree ==
  ASSUME NEW dir, FreeRecords(dir) # {}
  PROVE  LET slot == First(FreeRecords(dir))
         IN  /\ slot \in Slot /\ slot \in FreeRecords(dir) /\ slot \notin Files(dir)
             /\ \A j \in 1..(slot - 1) : j \in Files(dir)
             /\ dir[slot].name = END =>
                  /\ InUse(dir) = 1..(slot - 1) /\ InUse(dir) # Slot
                  /\ slot = NumUsed(dir) + 1
  <1> DEFINE slot == First(FreeRecords(dir))
  <1>1. FreeRecords(dir) \in SUBSET Nat /\ FreeRecords(dir) \subseteq Slot
    BY FilesAreSlots DEF FreeRecords
  <1>2. slot \in FreeRecords(dir) /\ \A j \in FreeRecords(dir) : slot <= j
    BY <1>1, FirstIs
  <1> HIDE DEF slot
  <1>3. slot \in Slot /\ slot \in Nat /\ slot >= 1 /\ slot \notin Files(dir)
    BY <1>1, <1>2, BmfsAssumption DEF FreeRecords, Files, Slot
  <1>4. ASSUME NEW j \in 1..(slot - 1) PROVE j \in Files(dir)
    <2>1. j \in Slot /\ ~(slot <= j)
      BY <1>3, BmfsAssumption DEF Slot
    <2>2. j \notin FreeRecords(dir)
      BY <1>2, <2>1
    <2> QED BY <2>1, <2>2 DEF FreeRecords, Files
  <1>5. ASSUME dir[slot].name = END
        PROVE  /\ InUse(dir) = 1..(slot - 1) /\ InUse(dir) # Slot
               /\ slot = NumUsed(dir) + 1
    <2>1. 1..(slot - 1) \subseteq InUse(dir)
      BY <1>4, FilesAreSlots
    <2>2. ASSUME NEW j \in InUse(dir) PROVE j \in 1..(slot - 1)
      <3>1. j \in Slot /\ slot \notin 1..j
        BY <1>5, FilesAreSlots DEF InUse
      <3>2. j \in Nat /\ j >= 1
        BY <3>1, BmfsAssumption DEF Slot
      <3> QED BY <1>3, <3>1, <3>2
    <2>3. InUse(dir) = 1..(slot - 1) /\ slot \notin InUse(dir)
      <3>1. \A j \in InUse(dir) : j \in 1..(slot - 1)
        BY <2>2
      <3>2. slot \notin 1..(slot - 1)
        BY <1>3
      <3> QED BY <2>1, <3>1, <3>2, Zenon
    <2>4. Cardinality(1..(slot - 1)) = slot - 1
      <3>1. 1 \in Int /\ slot - 1 \in Int /\ slot - 1 \in Nat
        BY <1>3
      <3> HIDE DEF slot
      <3>2. Cardinality(1..(slot - 1)) = IF 1 > slot - 1 THEN 0 ELSE (slot - 1) - 1 + 1
        BY <3>1, FS_Interval
      <3> QED BY <3>1, <3>2
    <2>5. InUse(dir) # Slot
      BY <1>3, <2>3
    <2> QED BY <1>3, <2>3, <2>4, <2>5 DEF NumUsed
  <1> QED BY <1>2, <1>3, <1>4, <1>5 DEF slot

\* What the new record is, and what becomes of the others.
Added(new, dir, slot, n, start, blocks) ==
  /\ new \in [Slot -> Entry]
  /\ new[slot] = [name |-> n, start |-> start, reserved |-> blocks, size |-> 0]
  /\ \A j \in Slot \ {slot} :
       \/ new[j] = dir[j]
       \/ j = slot + 1 /\ slot = NumUsed(dir) + 1 /\ new[j] = [dir[j] EXCEPT !.name = END]
  /\ slot = NumUsed(dir) + 1 /\ slot < DirEntries => new[slot + 1].name = END

\* create writes one record, in the first free one, and marks the
\* end behind it when it was the end.
LEMMA AddRecordIs ==
  ASSUME NEW dir \in [Slot -> Entry], FreeRecords(dir) # {}, NEW n \in Name,
         NEW start \in Nat, NEW blocks \in Nat
  PROVE  Added(AddRecord(dir, n, start, blocks), dir, First(FreeRecords(dir)), n, start, blocks)
  <1> DEFINE slot == First(FreeRecords(dir))
             r == [name |-> n, start |-> start, reserved |-> blocks, size |-> 0]
             one == [dir EXCEPT ![slot] = r]
             new == AddRecord(dir, n, start, blocks)
  <1>1. slot \in Slot
    BY FirstFree
  <1>2. new = IF slot = NumUsed(dir) + 1 /\ slot < DirEntries
              THEN [one EXCEPT ![slot + 1].name = END] ELSE one
    BY DEF AddRecord
  <1>3. r \in Entry
    BY DEF Entry
  <1> HIDE DEF r, slot, new
  <1>4. one \in [Slot -> Entry] /\ one[slot] = r /\ \A j \in Slot \ {slot} : one[j] = dir[j]
    BY <1>1, <1>3
  <1> HIDE DEF one
  <1>5. CASE slot = NumUsed(dir) + 1 /\ slot < DirEntries
    <2>1. slot + 1 \in Slot /\ slot + 1 # slot
      BY <1>1, <1>5, BmfsAssumption DEF Slot
    <2>2. new = [one EXCEPT ![slot + 1].name = END]
      BY <1>2, <1>5
    <2>3. new \in [Slot -> Entry]
      BY <1>4, <2>1, <2>2 DEF Entry
    <2>4. one[slot + 1] = dir[slot + 1] /\ one[slot + 1] \in Entry
      BY <1>4, <2>1
    <2>5. new[slot + 1] = [dir[slot + 1] EXCEPT !.name = END] /\ new[slot + 1].name = END
      BY <1>4, <2>1, <2>2, <2>4 DEF Entry
    <2>6. \A j \in Slot \ {slot + 1} : new[j] = one[j]
      BY <1>4, <2>1, <2>2
    <2> QED BY <1>1, <1>4, <1>5, <2>1, <2>3, <2>5, <2>6 DEF new, slot, r, Added
  <1>6. CASE ~(slot = NumUsed(dir) + 1 /\ slot < DirEntries)
    BY <1>1, <1>2, <1>4, <1>6 DEF new, slot, r, Added
  <1> QED BY <1>5, <1>6

\* No old record becomes a file.
LEMMA NoNewFiles ==
  ASSUME NEW dir \in [Slot -> Entry], FreeRecords(dir) # {}, NEW n \in Name,
         NEW start \in Nat, NEW blocks \in Nat
  PROVE  \A j \in Files(AddRecord(dir, n, start, blocks)) \ {First(FreeRecords(dir))} :
           j \in Files(dir) /\ AddRecord(dir, n, start, blocks)[j] = dir[j]
  <1> DEFINE slot == First(FreeRecords(dir))
             new == AddRecord(dir, n, start, blocks)
  <1> SUFFICES ASSUME NEW j \in Files(new), j # slot
               PROVE  j \in Files(dir) /\ new[j] = dir[j]
    OBVIOUS
  <1>1. /\ slot \in Slot
        /\ dir[slot].name = END => slot = NumUsed(dir) + 1
    BY FirstFree
  <1>2. /\ new \in [Slot -> Entry]
        /\ \A k \in Slot \ {slot} :
             \/ new[k] = dir[k]
             \/ k = slot + 1 /\ slot = NumUsed(dir) + 1 /\ new[k] = [dir[k] EXCEPT !.name = END]
        /\ slot = NumUsed(dir) + 1 /\ slot < DirEntries => new[slot + 1].name = END
    <2>1. Added(new, dir, slot, n, start, blocks)
      BY AddRecordIs
    <2> HIDE DEF new, slot
    <2> QED BY <2>1 DEF Added
  <1>3. j \in Slot /\ j # slot /\ new[j].name \notin {END, DELETED} /\ j \in InUse(new)
    BY FilesAreSlots
  <1> HIDE DEF slot, new
  <1>4. ASSUME NEW k \in Slot \ {slot}, new[k].name # END PROVE new[k] = dir[k]
    <2>1. dir[k] \in Entry
      BY <1>4
    <2>2. [dir[k] EXCEPT !.name = END].name = END
      BY <2>1 DEF Entry
    <2> QED BY <1>2, <1>4, <2>2
  <1>5. new[j] = dir[j]
    BY <1>3, <1>4
  <1>6. ASSUME NEW k \in 1..j PROVE dir[k].name # END
    <2>1. k \in Slot /\ new[k].name # END
      BY <1>3, <1>6, BmfsAssumption DEF InUse, Slot
    <2>2. CASE k # slot
      BY <1>4, <2>1, <2>2
    <2>3. CASE k = slot
      <3>1. slot < j /\ j <= DirEntries /\ slot \in Nat /\ j \in Nat
        BY <1>1, <1>3, <1>6, <2>3, BmfsAssumption DEF Slot
      <3>2. slot + 1 \in 1..j /\ slot < DirEntries
        BY <3>1, BmfsAssumption
      <3>3. new[slot + 1].name # END
        BY <1>3, <3>2 DEF InUse
      <3> QED BY <1>1, <1>2, <2>3, <3>2, <3>3
    <2> QED BY <2>2, <2>3
  <1> QED BY <1>3, <1>5, <1>6 DEF InUse, Files, new

\* The entries in use are counted.
LEMMA NumUsedIs ==
  ASSUME NEW dir
  PROVE  NumUsed(dir) \in 0..DirEntries
  <1>1. IsFiniteSet(Slot) /\ Cardinality(Slot) = DirEntries /\ DirEntries \in Nat
    <2>1. 1 \in Int /\ DirEntries \in Int /\ DirEntries >= 1 /\ DirEntries \in Nat
      BY BmfsAssumption
    <2>2. IsFiniteSet(1..DirEntries)
          /\ Cardinality(1..DirEntries) = IF 1 > DirEntries THEN 0 ELSE DirEntries - 1 + 1
      BY <2>1, FS_Interval
    <2> QED BY <2>1, <2>2 DEF Slot
  <1>2. InUse(dir) \in SUBSET Slot
    BY FilesAreSlots
  <1>3. IsFiniteSet(InUse(dir)) /\ Cardinality(InUse(dir)) <= DirEntries
    BY <1>1, <1>2, FS_Subset
  <1>4. Cardinality(InUse(dir)) \in Nat
    BY <1>3, FS_CardinalityType
  <1> QED BY <1>1, <1>3, <1>4 DEF NumUsed

\* A gap starts at a block.
LEMMA GapStarts ==
  ASSUME NEW dir \in [Slot -> Entry], NEW s \in SortedOrders(dir, NumUsed(dir)),
         NEW t \in 1..(NumUsed(dir) + 1)
  PROVE  prev_file_end(dir, s, t) \in Nat
  <1> DEFINE n == NumUsed(dir)
  <1>1. n \in 0..DirEntries /\ DirEntries \in Nat
    BY NumUsedIs, BmfsAssumption
  <1>2. s \in [1..n -> 1..n]
    BY DEF SortedOrders
  <1>3. t \in 1..(n + 1)
    OBVIOUS
  <1> HIDE DEF n
  <1>4. CASE t # 1
    <2>1. t - 1 \in 1..n
      BY <1>1, <1>3, <1>4
    <2>2. s[t - 1] \in 1..n
      BY <1>2, <2>1
    <2>3. s[t - 1] \in Slot
      BY <1>1, <2>2 DEF Slot
    <2>4. dir[s[t - 1]] \in Entry
      BY <2>3
    <2> QED BY <1>4, <2>4 DEF prev_file_end, FileEnd, Entry
  <1> QED BY <1>4 DEF prev_file_end

\* A disk whose directory has one record more.
Grown(new, d, dir) ==
  /\ new.tag = d.tag /\ new.blocks = d.blocks /\ new.data = d.data /\ new.dir = dir
  /\ DiskOk(new)

\* What create does, if it does anything.
LEMMA CreateIs ==
  ASSUME BmfsInv, NEW n \in Name, NEW mib \in 1..MaxMiB, create(n, mib)
  PROVE  /\ Ready /\ findfile(disk.dir, n) = {} /\ FreeRecords(disk.dir) # {}
         /\ Blocks(mib) \in Nat /\ Blocks(mib) >= 1
         /\ UNCHANGED <<cmd, kept>>
         /\ Damage(disk')
         /\ \E s \in SortedOrders(disk.dir, NumUsed(disk.dir)), start \in Nat :
              LET fits == FitsHere(disk.dir, s, NumUsed(disk.dir), disk.blocks, Blocks(mib))
              IN  /\ fits # {} /\ start = prev_file_end(disk.dir, s, First(fits))
                  /\ Grown(disk', disk, AddRecord(disk.dir, n, start, Blocks(mib)))
  <1>1. /\ Ready /\ findfile(disk.dir, n) = {} /\ FreeRecords(disk.dir) # {}
        /\ UNCHANGED <<cmd, kept>>
    BY DEF create
  <1>2. Blocks(mib) \in Nat /\ Blocks(mib) >= 1
    <2>1. mib \in Nat /\ mib >= 1
      BY BmfsAssumption
    <2>2. mib % 2 \in {0, 1} /\ (mib % 2 = 0 => mib >= 2)
      BY <2>1
    <2> QED BY <2>1, <2>2 DEF Blocks
  <1> DEFINE fits(s) == FitsHere(disk.dir, s, NumUsed(disk.dir), disk.blocks, Blocks(mib))
             start(s) == prev_file_end(disk.dir, s, First(fits(s)))
             dir(s) == AddRecord(disk.dir, n, start(s), Blocks(mib))
             d(s) == [disk EXCEPT !.dir = dir(s)]
  <1>3. PICK s \in SortedOrders(disk.dir, NumUsed(disk.dir)) :
               fits(s) # {} /\ disk' = d(s) /\ Damage(d(s))
    BY DEF create
  <1>4. DiskOk(disk) /\ disk.dir \in [Slot -> Entry]
    BY DEF BmfsInv, DiskOk
  <1>5. start(s) \in Nat
    <2> DEFINE F == fits(s)
    <2>1. F \subseteq 1..(NumUsed(disk.dir) + 1) /\ F # {}
      BY <1>3 DEF FitsHere
    <2>2. F \in SUBSET Nat
      BY <2>1
    <2> HIDE DEF F
    <2>3. First(F) \in F
      BY <2>1, <2>2, FirstIs
    <2>4. First(F) \in 1..(NumUsed(disk.dir) + 1)
      BY <2>1, <2>3
    <2>5. prev_file_end(disk.dir, s, First(F)) \in Nat
      BY <1>4, <2>4, GapStarts
    <2> QED BY <2>5 DEF F
  <1> HIDE DEF start
  <1>6. dir(s) \in [Slot -> Entry]
    <2>1. Added(dir(s), disk.dir, First(FreeRecords(disk.dir)), n, start(s), Blocks(mib))
      BY <1>1, <1>2, <1>4, <1>5, AddRecordIs
    <2> QED BY <2>1 DEF Added
  <1> HIDE DEF dir
  <1>7. d(s) = [tag |-> disk.tag, dir |-> dir(s), blocks |-> disk.blocks, data |-> disk.data]
    BY <1>4 DEF DiskOk
  <1>8. Grown(d(s), disk, dir(s))
    BY <1>4, <1>6, <1>7 DEF Grown, DiskOk
  <1> HIDE DEF d
  <1>9. Damage(disk') /\ Grown(disk', disk, dir(s))
    BY <1>3, <1>8
  <1> QED BY <1>1, <1>2, <1>3, <1>5, <1>9 DEF start, dir

\* create reserves blocks that no other file has.
LEMMA Create ==
  ASSUME BmfsInv, NEW n \in Name, NEW mib \in 1..MaxMiB, create(n, mib)
  PROVE  BmfsInv'
  <1> DEFINE old == disk.dir
             new == disk'.dir
             blocks == Blocks(mib)
             slot == First(FreeRecords(old))
  <1>1. /\ disk.tag /\ cmd.op = "none" /\ cmd' = cmd /\ kept' = kept
        /\ findfile(old, n) = {} /\ FreeRecords(old) # {} /\ blocks \in Nat /\ blocks >= 1
        /\ damaged' = (damaged \/ (disk'.tag /\ ~(Disjoint(disk')
                                     /\ Files(disk.dir) \subseteq Files(disk'.dir))))
    BY CreateIs DEF Ready, Idle, Damage
  <1>2. PICK start \in Nat : Grown(disk', disk, AddRecord(old, n, start, blocks))
    BY CreateIs
  <1>3. /\ DiskOk(disk') /\ disk'.tag = disk.tag /\ disk'.blocks = disk.blocks
        /\ disk'.data = disk.data /\ new = AddRecord(old, n, start, blocks)
    BY <1>2 DEF Grown
  <1>4. old \in [Slot -> Entry] /\ DirOk(old)
    BY DEF BmfsInv, DiskOk
  <1>5. slot \in Slot /\ slot \notin Files(old)
    BY <1>1, FirstFree
  <1> HIDE DEF new, old, blocks
  <1>6. Added(new, old, slot, n, start, blocks)
    BY <1>1, <1>3, <1>4, AddRecordIs
  <1>7. \A j \in Files(new) \ {slot} : j \in Files(old) /\ new[j] = old[j]
    BY <1>1, <1>3, <1>4, NoNewFiles
  <1> HIDE DEF slot
  <1>8. DirOk(new)
    <2>1. new[slot].name = n /\ new[slot].size = 0 /\ new[slot].reserved = blocks
      BY <1>6 DEF Added
    <2>2. ASSUME NEW i \in Files(new), NEW j \in Files(new), new[i].name = new[j].name
          PROVE  i = j
      <3>1. \A k \in Files(old) : old[k].name # n
        BY <1>1 DEF findfile
      <3> QED BY <1>4, <1>7, <2>1, <2>2, <3>1 DEF DirOk
    <2>3. ASSUME NEW j \in Slot
          PROVE  new[j].size <= new[j].reserved /\ (new[j].name # END => new[j].reserved >= 1)
      <3>1. CASE j = slot
        BY <1>1, <2>1, <3>1
      <3>2. CASE j # slot /\ new[j] = old[j]
        BY <1>4, <3>2 DEF DirOk
      <3>3. CASE new[j] = [old[j] EXCEPT !.name = END]
        <4>1. /\ new[j].name = END /\ new[j].size = old[j].size
              /\ new[j].reserved = old[j].reserved
          BY <1>4, <3>3 DEF Entry
        <4> QED BY <1>4, <4>1 DEF DirOk
      <3> QED BY <1>6, <3>1, <3>2, <3>3 DEF Added
    <2> QED BY <2>2, <2>3 DEF DirOk
  <1>9. WriteOk' /\ InitOk'
    BY <1>1, <1>3 DEF WriteOk, InitOk
  <1>10. Safe' /\ damaged' \in BOOLEAN
    BY <1>1 DEF Safe, BmfsInv
  <1>11. ASSUME ~damaged', NEW m \in DOMAIN kept
         PROVE  \E j \in Files(new) : new[j].name = m /\ read(disk', new[j]) = kept[m]
    <2>1. ~damaged /\ Files(old) \subseteq Files(new)
      BY <1>1, <1>3, <1>11 DEF old, new
    <2>2. PICK j \in Files(old) : old[j].name = m /\ read(disk, old[j]) = kept[m]
      BY <1>11, <2>1 DEF BmfsInv, KeptOk, old
    <2>3. j \in Files(new) /\ new[j] = old[j]
      BY <1>5, <1>7, <2>1, <2>2
    <2>4. read(disk', new[j]) = read(disk, old[j])
      BY <1>3, <2>3, SameRead
    <2> QED BY <2>2, <2>3, <2>4
  <1>12. KeptOk'
    BY <1>1, <1>11 DEF KeptOk, new
  <1> QED BY <1>1, <1>3, <1>8, <1>9, <1>10, <1>12 DEF BmfsInv, new

-----------------------------------------------------------------------------
(* What is kept. *)

\* Every step keeps the invariant.
LEMMA BmfsInvNext == BmfsInv /\ [Next]_vars => BmfsInv'
  <1> SUFFICES ASSUME BmfsInv, [Next]_vars PROVE BmfsInv'
    OBVIOUS
  <1>1. ASSUME NEW n \in Name, NEW mib \in 1..MaxMiB, create(n, mib) PROVE BmfsInv'
    BY <1>1, Create
  <1>2. ASSUME NEW n \in Name, NEW v \in Data, NEW size \in 0..Blocks(MaxMiB), write(n, v, size)
        PROVE  BmfsInv'
    <2>1. size \in Nat
      OBVIOUS
    <2> QED BY <1>2, <2>1, WriteStarts
  <1>3. CASE write_block
    BY <1>3, WriteBlock
  <1>4. CASE write_directory
    BY <1>4, WriteDirectory
  <1>5. ASSUME NEW n \in Name, delete(n) PROVE BmfsInv'
    BY <1>5, Delete
  <1>6. CASE format
    <2>1. cmd'.op = "format" /\ UNCHANGED <<disk, damaged, kept>>
      BY <1>6 DEF format
    <2> QED BY <2>1, OtherCommand
  <1>7. CASE format_tag
    BY <1>7, FormatTag
  <1>8. CASE format_directory
    BY <1>8, FormatDirectory
  <1>9. ASSUME NEW text \in SizeText, NEW system \in 0..MaxSystem, initialize(text, system)
        PROVE  BmfsInv'
    BY <1>9, Initialize
  <1>10. CASE zero_block
    BY <1>10, ZeroBlock
  <1>11. CASE write_boot
    BY <1>11, WriteBoot
  <1>12. CASE stop
    <2>1. cmd'.op = "none" /\ UNCHANGED <<disk, damaged, kept>>
      BY <1>12 DEF stop, Idle
    <2> QED BY <2>1, OtherCommand
  <1>13. CASE UNCHANGED vars
    BY <1>13 DEF vars, BmfsInv, WriteOk, InitOk, Safe, KeptOk
  <1> QED BY <1>1, <1>2, <1>3, <1>4, <1>5, <1>6, <1>7, <1>8, <1>9, <1>10, <1>11, <1>12, <1>13
         DEF Next

\* The invariant holds in every state.
LEMMA BmfsHolds == Spec => []BmfsInv
  <1>1. Init => BmfsInv
    BY InitInv
  <1> QED BY <1>1, BmfsInvNext, PTL DEF Spec

\* On a disk without damage, each file whose write has ended reads back as it
\* was written, on a disk and a directory of any size.
THEOREM FilesAreKept == Spec => []ContentsKept
  <1>1. BmfsInv => ContentsKept
    <2> SUFFICES ASSUME BmfsInv, ~damaged, NEW n \in DOMAIN kept
                 PROVE  /\ findfile(disk.dir, n) # {}
                        /\ read(disk, disk.dir[First(findfile(disk.dir, n))]) = kept[n]
      BY DEF ContentsKept
    <2>1. PICK i \in Files(disk.dir) :
                 disk.dir[i].name = n /\ read(disk, disk.dir[i]) = kept[n]
      BY DEF BmfsInv, KeptOk
    <2>2. findfile(disk.dir, n) = {i} /\ First(findfile(disk.dir, n)) = i
      BY <2>1, TheFile DEF BmfsInv
    <2> QED BY <2>1, <2>2
  <1> QED BY <1>1, BmfsHolds, PTL

-----------------------------------------------------------------------------
(* create: the place. *)

\* Before the end marker lie the records that num_used_entries counts.
LEMMA UsedAreFirst ==
  ASSUME NEW dir, InUse(dir) # Slot
  PROVE  InUse(dir) = 1..NumUsed(dir)
  <1> DEFINE E == {i \in Slot : dir[i].name = END}
  <1>0. Slot \subseteq Nat /\ DirEntries \in Nat
    BY FilesAreSlots, BmfsAssumption
  <1>1. E \in SUBSET Nat /\ E # {}
    <2>1. PICK i \in Slot : i \notin InUse(dir)
      BY FilesAreSlots
    <2>2. PICK j \in 1..i : dir[j].name = END
      BY <2>1 DEF InUse
    <2>3. j \in Slot
      BY <1>0, <2>1, <2>2 DEF Slot
    <2> QED BY <1>0, <2>2, <2>3
  <1>2. PICK m \in E : \A j \in E : m <= j
    BY <1>1, NatMinimum
  <1>3. m \in Nat /\ m >= 1 /\ m <= DirEntries /\ dir[m].name = END
    BY <1>0, <1>2 DEF Slot
  <1>4. ASSUME NEW i \in InUse(dir) PROVE i \in 1..(m - 1)
    <2>1. i \in Slot /\ m \notin 1..i
      BY <1>3, FilesAreSlots DEF InUse
    <2>2. i \in Nat /\ i >= 1
      BY <1>0, <2>1 DEF Slot
    <2> QED BY <1>3, <2>1, <2>2
  <1>5. ASSUME NEW i \in 1..(m - 1) PROVE i \in InUse(dir)
    <2>1. i \in Slot
      BY <1>0, <1>3 DEF Slot
    <2>2. ASSUME NEW j \in 1..i PROVE dir[j].name # END
      <3>1. j \in Slot /\ ~(m <= j)
        BY <1>0, <1>3, <2>1 DEF Slot
      <3> QED BY <1>2, <3>1
    <2> QED BY <2>1, <2>2 DEF InUse
  <1> HIDE DEF E
  <1>6. InUse(dir) = 1..(m - 1)
    <2>1. \A i \in InUse(dir) : i \in 1..(m - 1)
      BY <1>4
    <2>2. \A i \in 1..(m - 1) : i \in InUse(dir)
      BY <1>5
    <2> QED BY <2>1, <2>2, Zenon
  <1>7. Cardinality(1..(m - 1)) = m - 1
    <2>1. 1 \in Int /\ m - 1 \in Int /\ m - 1 \in Nat
      BY <1>3
    <2>2. Cardinality(1..(m - 1)) = IF 1 > m - 1 THEN 0 ELSE (m - 1) - 1 + 1
      BY <2>1, FS_Interval
    <2> QED BY <2>1, <2>2
  <1> QED BY <1>6, <1>7 DEF NumUsed

\* s lists the n records in use: first k files by their place, then the
\* deleted ones.
Listed(d, s, n, k) ==
  /\ n \in Nat /\ n <= DirEntries /\ k \in 0..n /\ s \in [1..n -> 1..n]
  /\ \A i \in 1..k : s[i] \in Files(d.dir)
  /\ \A i \in (k + 1)..n : d.dir[s[i]].name = DELETED
  /\ \A f \in Files(d.dir) : \E i \in 1..k : s[i] = f
  /\ \A i, j \in 1..k : i < j => FileEnd(d.dir[s[i]]) <= d.dir[s[j]].start

\* qsort lists the files by their place, and the deleted records behind them.
LEMMA SortLists ==
  ASSUME NEW d, DiskOk(d), DirOk(d.dir), Disjoint(d), InUse(d.dir) # Slot,
         NEW s \in SortedOrders(d.dir, NumUsed(d.dir))
  PROVE  \E k \in 0..NumUsed(d.dir) : Listed(d, s, NumUsed(d.dir), k)
  <1> DEFINE dir == d.dir
             n == NumUsed(d.dir)
  <1>1. n \in Nat /\ n <= DirEntries /\ DirEntries \in Nat /\ InUse(dir) = 1..n
    BY NumUsedIs, UsedAreFirst, BmfsAssumption
  <1>2. /\ s \in [1..n -> 1..n]
        /\ \A i, j \in 1..n : i # j => s[i] # s[j]
        /\ \A i, j \in 1..n : i < j /\ dir[s[j]].name # DELETED =>
             dir[s[i]].name # DELETED /\ dir[s[i]].start <= dir[s[j]].start
    BY DEF SortedOrders
  <1> HIDE DEF n
  <1>3. \A f \in 1..n : \E i \in 1..n : s[i] = f
    <2>1. s \in Injection(1..n, 1..n)
      BY <1>2 DEF Injection, IsInjective
    <2>2. IsFiniteSet(1..n)
      BY <1>1, FS_Interval
    <2>3. s \in Surjection(1..n, 1..n)
      BY <2>1, <2>2, FS_Injection
    <2> QED BY <2>3 DEF Surjection
  <1> DEFINE Del == {i \in 1..n : dir[s[i]].name = DELETED}
  <1>4. PICK k \in 0..n : /\ \A i \in 1..k : dir[s[i]].name # DELETED
                          /\ \A i \in (k + 1)..n : dir[s[i]].name = DELETED
    <2>1. CASE Del = {}
      <3>1. n \in 0..n /\ (n + 1)..n = {} /\ \A i \in 1..n : dir[s[i]].name # DELETED
        BY <1>1, <2>1
      <3> QED BY <3>1
    <2>2. CASE Del # {}
      <3>1. Del \in SUBSET Nat
        OBVIOUS
      <3>2. PICK m \in Del : \A j \in Del : m <= j
        BY <2>2, <3>1, NatMinimum
      <3>3. m \in 1..n /\ m - 1 \in 0..n /\ (m - 1) + 1 = m /\ dir[s[m]].name = DELETED
        BY <1>1, <3>2
      <3>4. ASSUME NEW i \in 1..(m - 1) PROVE dir[s[i]].name # DELETED
        <4>1. i \in 1..n /\ ~(m <= i)
          BY <1>1, <3>3
        <4> QED BY <3>2, <4>1
      <3>5. ASSUME NEW i \in m..n PROVE dir[s[i]].name = DELETED
        <4>1. i \in 1..n /\ (i # m => m < i)
          BY <1>1, <3>3
        <4> QED BY <1>2, <3>3, <4>1
      <3> QED BY <3>3, <3>4, <3>5
    <2> QED BY <2>1, <2>2
  <1>5. \A i \in 1..k : i \in 1..n
    BY <1>1
  <1>6. ASSUME NEW i \in 1..k PROVE s[i] \in Files(dir)
    <2>1. i \in 1..n /\ s[i] \in 1..n
      BY <1>2, <1>5
    <2> QED BY <1>1, <1>4, <2>1 DEF Files
  <1>7. ASSUME NEW f \in Files(dir) PROVE \E i \in 1..k : s[i] = f
    <2>1. f \in 1..n /\ dir[f].name # DELETED
      BY <1>1, FilesAreSlots DEF DELETED
    <2>2. PICK i \in 1..n : s[i] = f
      BY <1>3, <2>1
    <2>3. i \notin (k + 1)..n
      BY <1>4, <2>1, <2>2
    <2>4. i \in 1..k
      BY <1>1, <2>2, <2>3
    <2> QED BY <2>2, <2>4
  <1>8. ASSUME NEW i \in 1..k, NEW j \in 1..k, i < j
        PROVE  FileEnd(dir[s[i]]) <= dir[s[j]].start
    <2>1. i \in 1..n /\ j \in 1..n /\ i # j /\ s[i] \in Files(dir) /\ s[j] \in Files(dir)
      BY <1>5, <1>6, <1>8
    <2>2. s[i] # s[j] /\ dir[s[i]].start <= dir[s[j]].start
      BY <1>2, <1>4, <1>8, <2>1
    <2>3. /\ dir[s[i]].start \in Nat /\ dir[s[i]].reserved \in Nat
          /\ dir[s[j]].start \in Nat /\ dir[s[j]].reserved \in Nat
      BY <2>1, FilesAreSlots DEF DiskOk, Entry
    <2>4. dir[s[j]].reserved >= 1
      BY <2>1, FilesAreSlots DEF DirOk
    <2>5. \/ FileEnd(dir[s[i]]) <= dir[s[j]].start
          \/ FileEnd(dir[s[j]]) <= dir[s[i]].start
      BY <2>1, <2>2 DEF Disjoint
    <2> QED BY <2>2, <2>3, <2>4, <2>5 DEF FileEnd
  <1>9. Listed(d, s, n, k)
    BY <1>1, <1>2, <1>4, <1>6, <1>7, <1>8 DEF Listed
  <1> QED BY <1>9 DEF n

\* The gap before the file of turn t, or after the last file.
IsGap(d, s, k, t, from, to) ==
  /\ from = IF t = 1 THEN 1 ELSE FileEnd(d.dir[s[t - 1]])
  /\ to = IF t = k + 1 THEN d.blocks - 1 ELSE d.dir[s[t]].start
  /\ from \in Nat /\ from >= 1 /\ to \in Nat /\ from <= to /\ to <= d.blocks - 1
  /\ Minus(to, from) = to - from

\* It is the one that create looks at in turn t.
LEMMA TheGap ==
  ASSUME NEW d, DiskOk(d), Disjoint(d), d.blocks >= 2,
         NEW s, NEW n, NEW k, Listed(d, s, n, k), NEW t \in 1..(k + 1)
  PROVE  IsGap(d, s, k, t, prev_file_end(d.dir, s, t),
               this_file_start(d.dir, s, n, t, d.blocks))
  <1> DEFINE from == prev_file_end(d.dir, s, t)
             to   == this_file_start(d.dir, s, n, t, d.blocks)
  <1>1. /\ n \in Nat /\ k \in 0..n /\ k \in Nat /\ d.blocks \in Nat
        /\ \A i \in 1..k : s[i] \in Files(d.dir)
        /\ \A i \in (k + 1)..n : d.dir[s[i]].name = DELETED
        /\ \A i, j \in 1..k : i < j => FileEnd(d.dir[s[i]]) <= d.dir[s[j]].start
    BY DEF Listed, DiskOk
  <1>2. \A i \in 1..k : /\ d.dir[s[i]].start \in Nat /\ d.dir[s[i]].reserved \in Nat
                        /\ d.dir[s[i]].start >= 1 /\ FileEnd(d.dir[s[i]]) <= d.blocks - 1
                        /\ d.dir[s[i]].name # DELETED
    BY <1>1, FilesAreSlots DEF DiskOk, Entry, Disjoint, DELETED
  <1>3. from = IF t = 1 THEN 1 ELSE FileEnd(d.dir[s[t - 1]])
    BY DEF prev_file_end
  <1>4. to = IF t = k + 1 THEN d.blocks - 1 ELSE d.dir[s[t]].start
    <2>1. CASE t = k + 1
      <3>1. t = n + 1 \/ t \in (k + 1)..n
        BY <1>1, <2>1
      <3>2. Minus(d.blocks, 1) = d.blocks - 1
        BY <1>1 DEF Minus
      <3> QED BY <1>1, <2>1, <3>1, <3>2 DEF this_file_start
    <2>2. CASE t # k + 1
      <3>1. t \in 1..k /\ t # n + 1
        BY <1>1, <2>2
      <3> QED BY <1>2, <2>2, <3>1 DEF this_file_start
    <2> QED BY <2>1, <2>2
  <1> HIDE DEF from, to
  <1>5. /\ t # 1 => t - 1 \in 1..k
        /\ t # k + 1 => t \in 1..k
        /\ t # 1 /\ t # k + 1 => t - 1 < t
    BY <1>1
  <1>6. from \in Nat /\ from >= 1
    BY <1>2, <1>3, <1>5 DEF FileEnd
  <1>7. to \in Nat /\ to <= d.blocks - 1
    <2>1. ASSUME NEW i \in 1..k PROVE d.dir[s[i]].start <= d.blocks - 1
      BY <1>1, <1>2 DEF FileEnd
    <2> QED BY <1>1, <1>2, <1>4, <1>5, <2>1
  <1>8. from <= to
    BY <1>1, <1>2, <1>3, <1>4, <1>5
  <1>9. Minus(to, from) = to - from
    BY <1>6, <1>7, <1>8 DEF Minus
  <1>10. IsGap(d, s, k, t, from, to)
    BY <1>3, <1>4, <1>6, <1>7, <1>8, <1>9 DEF IsGap
  <1> QED BY <1>10 DEF from, to

\* A gap among the files that is large enough holds the new file.
LEMMA GapIsFree ==
  ASSUME NEW d, DiskOk(d), Disjoint(d), d.blocks >= 2,
         NEW s, NEW n, NEW k, Listed(d, s, n, k), NEW t \in 1..(k + 1), NEW blocks \in Nat,
         t \in FitsHere(d.dir, s, n, d.blocks, blocks)
  PROVE  LET from == prev_file_end(d.dir, s, t)
         IN  /\ from \in Nat /\ from >= 1 /\ from + blocks <= d.blocks - 1
             /\ \A f \in Files(d.dir) : \/ FileEnd(d.dir[f]) <= from
                                        \/ from + blocks <= d.dir[f].start
  <1> DEFINE from == prev_file_end(d.dir, s, t)
             to   == this_file_start(d.dir, s, n, t, d.blocks)
  <1>1. Minus(to, from) >= blocks
    BY DEF FitsHere
  <1>2. /\ from = IF t = 1 THEN 1 ELSE FileEnd(d.dir[s[t - 1]])
        /\ to = IF t = k + 1 THEN d.blocks - 1 ELSE d.dir[s[t]].start
        /\ from \in Nat /\ from >= 1 /\ to \in Nat /\ to <= d.blocks - 1
        /\ Minus(to, from) = to - from
    <2>1. IsGap(d, s, k, t, from, to)
      BY TheGap
    <2> HIDE DEF from, to
    <2> QED BY <2>1 DEF IsGap
  <1> HIDE DEF from, to
  <1>3. /\ n \in Nat /\ k \in 0..n /\ k \in Nat /\ d.blocks \in Nat
        /\ \A i \in 1..k : s[i] \in Files(d.dir)
        /\ \A f \in Files(d.dir) : \E i \in 1..k : s[i] = f
        /\ \A i, j \in 1..k : i < j => FileEnd(d.dir[s[i]]) <= d.dir[s[j]].start
    BY DEF Listed, DiskOk
  <1>4. \A i \in 1..k : d.dir[s[i]].start \in Nat /\ d.dir[s[i]].reserved \in Nat
    BY <1>3, FilesAreSlots, SMTT(30) DEF DiskOk, Entry
  <1>5. from + blocks <= to /\ from + blocks <= d.blocks - 1
    BY <1>1, <1>2, <1>3
  <1>6. ASSUME NEW i \in 1..k
        PROVE  FileEnd(d.dir[s[i]]) <= from \/ from + blocks <= d.dir[s[i]].start
    <2>1. CASE i < t
      <3>1. t # 1 /\ t - 1 \in 1..k /\ (i # t - 1 => i < t - 1)
        BY <1>3, <2>1
      <3>2. i # t - 1 => FileEnd(d.dir[s[i]]) <= d.dir[s[t - 1]].start
        BY <1>3, <3>1
      <3>3. from = FileEnd(d.dir[s[t - 1]])
        BY <1>2, <3>1
      <3>4. /\ FileEnd(d.dir[s[i]]) \in Nat /\ d.dir[s[t - 1]].start \in Nat
            /\ FileEnd(d.dir[s[t - 1]]) \in Nat
            /\ d.dir[s[t - 1]].start <= FileEnd(d.dir[s[t - 1]])
        BY <1>4, <3>1 DEF FileEnd
      <3> QED BY <3>2, <3>3, <3>4
    <2>2. CASE i >= t
      <3>1. t \in 1..k /\ t # k + 1 /\ (i # t => t < i)
        BY <1>3, <2>2
      <3>2. i # t => FileEnd(d.dir[s[t]]) <= d.dir[s[i]].start
        BY <1>3, <3>1
      <3>3. to = d.dir[s[t]].start /\ to <= FileEnd(d.dir[s[t]])
        BY <1>2, <1>4, <3>1 DEF FileEnd
      <3>4. to <= d.dir[s[i]].start
        <4>1. FileEnd(d.dir[s[t]]) \in Nat /\ d.dir[s[i]].start \in Nat
          BY <1>4, <3>1 DEF FileEnd
        <4> QED BY <1>2, <3>2, <3>3, <4>1
      <3>5. d.dir[s[i]].start \in Nat
        BY <1>4
      <3> QED BY <1>2, <1>5, <3>4, <3>5
    <2> QED BY <1>3, <2>1, <2>2
  <1>7. ASSUME NEW f \in Files(d.dir)
        PROVE  FileEnd(d.dir[f]) <= from \/ from + blocks <= d.dir[f].start
    BY <1>3, <1>6
  <1> QED BY <1>2, <1>5, <1>7 DEF from

\* A gap that exists is found before the search meets a deleted record.
LEMMA GapIsFound ==
  ASSUME NEW d, DiskOk(d), Disjoint(d), d.blocks >= 2,
         NEW s, NEW n, NEW k, Listed(d, s, n, k), NEW blocks \in Nat, Gap(d, blocks)
  PROVE  \E t \in 1..(k + 1) : t \in FitsHere(d.dir, s, n, d.blocks, blocks)
  <1>1. /\ n \in Nat /\ k \in 0..n /\ k \in Nat /\ d.blocks \in Nat
        /\ \A i \in 1..k : s[i] \in Files(d.dir)
    BY DEF Listed, DiskOk
  <1>2. PICK b \in 1..(d.blocks - 1) :
          /\ b + blocks <= d.blocks - 1
          /\ \A i \in Files(d.dir) : FileEnd(d.dir[i]) <= b \/ b + blocks <= d.dir[i].start
    BY DEF Gap
  <1> DEFINE After == {i \in 1..k : ~(FileEnd(d.dir[s[i]]) <= b)}
  <1>3. PICK t \in 1..(k + 1) : /\ t # k + 1 => t \in After
                                /\ \A i \in 1..(t - 1) : i \notin After
    <2>1. CASE After = {}
      <3>1. k + 1 \in 1..(k + 1)
        BY <1>1
      <3> QED BY <2>1, <3>1
    <2>2. CASE After # {}
      <3>1. After \in SUBSET Nat
        OBVIOUS
      <3>2. PICK m \in After : \A j \in After : m <= j
        BY <2>2, <3>1, NatMinimum
      <3>3. m \in 1..k /\ m \in 1..(k + 1)
        BY <1>1, <3>2
      <3>4. ASSUME NEW i \in 1..(m - 1) PROVE i \notin After
        <4>1. ~(m <= i)
          BY <3>3
        <4> QED BY <3>2, <4>1
      <3> QED BY <3>2, <3>3, <3>4
    <2> QED BY <2>1, <2>2
  <1> DEFINE from == prev_file_end(d.dir, s, t)
             to   == this_file_start(d.dir, s, n, t, d.blocks)
  <1>4. /\ from = IF t = 1 THEN 1 ELSE FileEnd(d.dir[s[t - 1]])
        /\ to = IF t = k + 1 THEN d.blocks - 1 ELSE d.dir[s[t]].start
        /\ from \in Nat /\ from >= 1 /\ to \in Nat /\ to <= d.blocks - 1
        /\ Minus(to, from) = to - from
    <2>1. IsGap(d, s, k, t, from, to)
      BY TheGap
    <2> HIDE DEF from, to
    <2> QED BY <2>1 DEF IsGap
  <1> HIDE DEF from, to
  <1>5. from <= b
    <2>1. CASE t = 1
      BY <1>1, <1>4, <2>1
    <2>2. CASE t # 1
      <3>1. t - 1 \in 1..k /\ t - 1 \in 1..(t - 1)
        BY <1>1, <2>2
      <3> QED BY <1>3, <1>4, <2>2, <3>1
    <2> QED BY <2>1, <2>2
  <1>6. b + blocks <= to
    <2>1. CASE t = k + 1
      BY <1>2, <1>4, <2>1
    <2>2. CASE t # k + 1
      BY <1>1, <1>2, <1>3, <1>4, <2>2
    <2> QED BY <2>1, <2>2
  <1>7. Minus(to, from) >= blocks
    BY <1>1, <1>4, <1>5, <1>6
  <1>8. t \in 1..(n + 1)
    BY <1>1
  <1> QED BY <1>7, <1>8 DEF FitsHere, from, to

-----------------------------------------------------------------------------
(* create: when it does damage. *)

\* Before an end marker, the record that is added hides no file.
LEMMA FilesStay ==
  ASSUME NEW dir \in [Slot -> Entry], FreeRecords(dir) # {}, InUse(dir) # Slot,
         NEW n \in Name, NEW start \in Nat, NEW blocks \in Nat
  PROVE  Files(dir) \subseteq Files(AddRecord(dir, n, start, blocks))
  <1> DEFINE slot == First(FreeRecords(dir))
             new == AddRecord(dir, n, start, blocks)
             used == NumUsed(dir)
  <1>1. slot \in Slot /\ slot \notin Files(dir)
    BY FirstFree
  <1>2. Added(new, dir, slot, n, start, blocks)
    BY AddRecordIs
  <1>3. InUse(dir) = 1..used /\ used \in Nat
    BY UsedAreFirst, NumUsedIs
  <1> HIDE DEF slot, new, used
  <1>4. /\ new[slot].name = n
        /\ \A j \in Slot \ {slot} : new[j] = dir[j] \/ (j = slot + 1 /\ slot = used + 1)
    BY <1>2 DEF Added, used
  <1>5. ASSUME NEW j \in 1..used, j # slot PROVE new[j] = dir[j]
    <2>1. j \in Slot
      BY <1>3, FilesAreSlots
    <2>2. j # used + 1 + 1
      BY <1>3
    <2> QED BY <1>4, <1>5, <2>1, <2>2
  <1>6. ASSUME NEW j \in Files(dir) PROVE j \in Files(new)
    <2>1. j \in 1..used /\ j # slot /\ j \in Slot /\ dir[j].name # DELETED
      BY <1>1, <1>3, FilesAreSlots DEF DELETED
    <2>2. ASSUME NEW i \in 1..j PROVE new[i].name # END
      <3>1. i \in 1..used /\ dir[i].name # END
        BY <1>3, <2>1 DEF InUse
      <3>2. n # END
        BY BmfsAssumption
      <3> QED BY <1>4, <1>5, <3>1, <3>2
    <2>3. new[j].name # DELETED
      BY <1>5, <2>1
    <2> QED BY <2>1, <2>2, <2>3 DEF Files, InUse
  <1> QED BY <1>6 DEF new

\* With an end marker, create does no damage unless it has to go past the
\* deleted records.
LEMMA CreateIsSound ==
  ASSUME BmfsInv, NEW n \in Name, NEW mib \in 1..MaxMiB, create(n, mib), ~damaged,
         disk.blocks >= 2, InUse(disk.dir) # Slot,
         HasDeleted(disk.dir) => Gap(disk, Blocks(mib))
  PROVE  ~damaged'
  <1> DEFINE dir == disk.dir
             used == NumUsed(disk.dir)
             blocks == Blocks(mib)
             slot == First(FreeRecords(disk.dir))
  <1>1. /\ disk.tag /\ FreeRecords(dir) # {} /\ blocks \in Nat /\ blocks >= 1
        /\ damaged' = (damaged \/ (disk'.tag /\ ~(Disjoint(disk')
                                     /\ Files(disk.dir) \subseteq Files(disk'.dir))))
    BY CreateIs DEF Ready, Damage
  <1>2. PICK s \in SortedOrders(dir, used), start \in Nat :
          /\ FitsHere(dir, s, used, disk.blocks, blocks) # {}
          /\ start = prev_file_end(dir, s, First(FitsHere(dir, s, used, disk.blocks, blocks)))
          /\ Grown(disk', disk, AddRecord(dir, n, start, blocks))
    BY CreateIs
  <1>3. DiskOk(disk) /\ DirOk(dir) /\ Disjoint(disk) /\ dir \in [Slot -> Entry]
    BY <1>1 DEF BmfsInv, Safe, DiskOk
  <1>4. PICK k \in 0..used : Listed(disk, s, used, k)
    BY <1>3, SortLists
  <1> DEFINE fits == FitsHere(dir, s, used, disk.blocks, blocks)
             t == First(fits)
  <1>5. fits \subseteq 1..(used + 1) /\ fits \in SUBSET Nat
    BY DEF FitsHere
  <1>6. t \in fits /\ \A j \in fits : t <= j
    BY <1>2, <1>5, FirstIs
  <1> HIDE DEF t
  <1>7. t \in 1..(k + 1)
    <2>0. t \in 1..(used + 1) /\ used \in Nat /\ k \in Nat /\ k <= used
      BY <1>4, <1>5, <1>6, NumUsedIs
    <2>1. CASE HasDeleted(dir)
      <3>1. PICK j \in 1..(k + 1) : j \in fits
        BY <1>1, <1>3, <1>4, <2>1, GapIsFound
      <3> QED BY <1>6, <2>0, <3>1
    <2>2. CASE ~HasDeleted(dir)
      <3>1. ASSUME k < used PROVE FALSE
        <4>1. k + 1 \in (k + 1)..used /\ k + 1 \in 1..used
          BY <2>0, <3>1
        <4>2. dir[s[k + 1]].name = DELETED /\ s[k + 1] \in 1..used
          BY <1>4, <4>1 DEF Listed
        <4>3. s[k + 1] \in InUse(dir)
          BY <4>2, UsedAreFirst
        <4> QED BY <2>2, <4>2, <4>3 DEF HasDeleted
      <3> QED BY <2>0, <3>1
    <2> QED BY <2>1, <2>2
  <1>8. /\ start >= 1 /\ start + blocks <= disk.blocks - 1
        /\ \A f \in Files(dir) : FileEnd(dir[f]) <= start \/ start + blocks <= dir[f].start
    <2>1. start = prev_file_end(dir, s, t)
      BY <1>2 DEF t
    <2> QED BY <1>1, <1>3, <1>4, <1>6, <1>7, <2>1, GapIsFree
  <1>9. /\ disk'.dir = AddRecord(dir, n, start, blocks)
        /\ disk'.tag = disk.tag /\ disk'.blocks = disk.blocks
    BY <1>2 DEF Grown
  <1> HIDE DEF fits, blocks, dir
  <1>10. Files(dir) \subseteq Files(disk'.dir)
    BY <1>1, <1>3, <1>9, FilesStay DEF dir
  <1>11. \A j \in Files(disk'.dir) \ {slot} : j \in Files(dir) /\ disk'.dir[j] = dir[j]
    <2> DEFINE new == AddRecord(dir, n, start, blocks)
    <2>1. \A j \in Files(new) \ {First(FreeRecords(dir))} :
            j \in Files(dir) /\ new[j] = dir[j]
      BY <1>1, <1>3, NoNewFiles
    <2>2. slot = First(FreeRecords(dir)) /\ disk'.dir = new
      BY <1>9 DEF dir
    <2> HIDE DEF slot, new
    <2> QED BY <2>1, <2>2
  <1>12. disk'.dir[slot].start = start /\ FileEnd(disk'.dir[slot]) = start + blocks
    <2>1. Added(disk'.dir, dir, slot, n, start, blocks)
      BY <1>1, <1>3, <1>9, AddRecordIs DEF dir
    <2> QED BY <2>1 DEF Added, FileEnd
  <1> HIDE DEF slot
  <1>13. Disjoint(disk')
    <2>0. /\ \A i \in Files(dir) : dir[i].start >= 1 /\ FileEnd(dir[i]) <= disk.blocks - 1
          /\ \A i, j \in Files(dir) : i # j =>
               FileEnd(dir[i]) <= dir[j].start \/ FileEnd(dir[j]) <= dir[i].start
      BY Zenon, <1>3 DEF Disjoint, dir
    <2>1. ASSUME NEW i \in Files(disk'.dir)
          PROVE  disk'.dir[i].start >= 1 /\ FileEnd(disk'.dir[i]) <= disk'.blocks - 1
      <3>1. CASE i = slot
        BY <1>8, <1>9, <1>12, <3>1
      <3>2. CASE i # slot
        <4>1. i \in Files(dir) /\ disk'.dir[i] = dir[i]
          BY <1>11, <2>1, <3>2
        <4>2. dir[i].start >= 1 /\ FileEnd(dir[i]) <= disk.blocks - 1
          BY <2>0, <4>1
        <4> QED BY <1>9, <4>1, <4>2
      <3> QED BY <3>1, <3>2
    <2>2. ASSUME NEW i \in Files(disk'.dir), NEW j \in Files(disk'.dir), i # j
          PROVE  \/ FileEnd(disk'.dir[i]) <= disk'.dir[j].start
                 \/ FileEnd(disk'.dir[j]) <= disk'.dir[i].start
      <3>1. CASE i # slot /\ j # slot
        <4>1. /\ i \in Files(dir) /\ disk'.dir[i] = dir[i]
              /\ j \in Files(dir) /\ disk'.dir[j] = dir[j]
          BY <1>11, <2>2, <3>1
        <4>2. FileEnd(dir[i]) <= dir[j].start \/ FileEnd(dir[j]) <= dir[i].start
          BY <2>0, <2>2, <4>1
        <4> QED BY <4>1, <4>2
      <3>2. CASE i = slot
        <4>1. j \in Files(dir) /\ disk'.dir[j] = dir[j]
          BY <1>11, <2>2, <3>2
        <4>2. FileEnd(dir[j]) <= start \/ start + blocks <= dir[j].start
          BY <1>8, <4>1
        <4> QED BY <1>12, <3>2, <4>1, <4>2
      <3>3. CASE j = slot
        <4>1. i \in Files(dir) /\ disk'.dir[i] = dir[i]
          BY <1>11, <2>2, <3>3
        <4>2. FileEnd(dir[i]) <= start \/ start + blocks <= dir[i].start
          BY <1>8, <4>1
        <4> QED BY <1>12, <3>3, <4>1, <4>2
      <3> QED BY <3>1, <3>2, <3>3
    <2> QED BY <2>1, <2>2 DEF Disjoint
  <1> QED BY <1>1, <1>10, <1>13 DEF dir

\* When create does damage.
LEMMA CreateDamage ==
  ASSUME BmfsInv, NEW n \in Name, NEW mib \in 1..MaxMiB, create(n, mib), ~damaged, damaged',
         disk.blocks >= 2
  PROVE  /\ HasDeleted(disk.dir)
         /\ \/ InUse(disk.dir) = Slot
            \/ \A i \in Slot : disk'.dir[i] # disk.dir[i] => ~Gap(disk, disk'.dir[i].reserved)
  <1> DEFINE dir == disk.dir
             slot == First(FreeRecords(dir))
             blocks == Blocks(mib)
  <1>1. FreeRecords(dir) # {} /\ blocks \in Nat /\ dir \in [Slot -> Entry]
    BY CreateIs DEF BmfsInv, DiskOk
  <1>2. slot \in Slot /\ slot \in FreeRecords(dir) /\ \A j \in FreeRecords(dir) : slot <= j
    <2>1. FreeRecords(dir) \in SUBSET Nat /\ FreeRecords(dir) \subseteq Slot
      BY FilesAreSlots DEF FreeRecords
    <2> QED BY <1>1, <2>1, FirstIs
  <1>3. CASE InUse(dir) = Slot
    <2>1. dir[slot].name = DELETED
      BY <1>2, <1>3 DEF FreeRecords
    <2> QED BY <1>2, <1>3, <2>1 DEF HasDeleted
  <1>4. CASE InUse(dir) # Slot
    <2>1. HasDeleted(dir) /\ ~Gap(disk, blocks)
      BY <1>4, CreateIsSound
    <2>2. PICK start \in Nat : Grown(disk', disk, AddRecord(dir, n, start, blocks))
      BY CreateIs
    <2>2a. disk'.dir = AddRecord(dir, n, start, blocks)
      BY <2>2 DEF Grown
    <2>3. Added(disk'.dir, dir, slot, n, start, blocks)
      BY <1>1, <2>2a, AddRecordIs
    <2>4. slot # NumUsed(dir) + 1
      <3>1. PICK x \in InUse(dir) : dir[x].name = DELETED
        BY <2>1 DEF HasDeleted
      <3>2. x \in FreeRecords(dir)
        BY <3>1, FilesAreSlots DEF FreeRecords
      <3>3. x \in 1..NumUsed(dir) /\ NumUsed(dir) \in Nat /\ slot \in Nat
        BY <1>2, <1>4, <3>1, UsedAreFirst, NumUsedIs, FilesAreSlots
      <3> QED BY <1>2, <3>2, <3>3
    <2> HIDE DEF slot, dir, blocks
    <2>5. ASSUME NEW i \in Slot, disk'.dir[i] # dir[i] PROVE disk'.dir[i].reserved = blocks
      <3>1. /\ disk'.dir[slot] = [name |-> n, start |-> start, reserved |-> blocks, size |-> 0]
            /\ \A j \in Slot \ {slot} : disk'.dir[j] = dir[j] \/ slot = NumUsed(dir) + 1
        BY <2>3 DEF Added
      <3>2. i = slot
        BY <2>4, <2>5, <3>1
      <3> QED BY <3>1, <3>2
    <2> QED BY <2>1, <2>5 DEF dir
  <1> QED BY <1>3, <1>4

\* create makes files overlap, leave the disk or vanish in no other case than
\* those that DamageNeedsDeleted lists: on a disk of two blocks or more its
\* search for a place is right until it meets deleted records.
THEOREM DamageOnlyByDeleted == Spec => DamageNeedsDeleted
  <1> DEFINE P == ~damaged /\ damaged' =>
                    \/ Formatting
                    \/ disk.blocks < 2
                    \/ /\ HasDeleted(disk.dir)
                       /\ \/ InUse(disk.dir) = Slot
                          \/ \A i \in Slot : disk'.dir[i] # disk.dir[i] =>
                                             ~Gap(disk, disk'.dir[i].reserved)
  <1>1. ASSUME BmfsInv, [Next]_vars, ~damaged, damaged' PROVE P
    <2>1. disk.blocks \in Nat
      BY <1>1 DEF BmfsInv, DiskOk
    <2>2. ASSUME NEW n \in Name, NEW mib \in 1..MaxMiB, create(n, mib) PROVE P
      BY <1>1, <2>1, <2>2, CreateDamage
    <2>3. CASE format_tag
      BY <2>3 DEF format_tag
    <2>4. CASE \/ \E n \in Name, v \in Data, size \in 0..Blocks(MaxMiB) : write(n, v, size)
               \/ write_block \/ write_directory \/ \E n \in Name : delete(n)
               \/ format \/ format_directory
               \/ \E text \in SizeText, system \in 0..MaxSystem : initialize(text, system)
               \/ zero_block \/ write_boot \/ stop \/ UNCHANGED vars
      <3>1. damaged' = damaged \/ damaged' = FALSE
        BY <2>4 DEF write, write_block, write_directory, delete, format, format_directory,
                    initialize, zero_block, write_boot, stop, vars
      <3> QED BY <1>1, <3>1
    <2> HIDE DEF P
    <2> QED BY <1>1, <2>2, <2>3, <2>4 DEF Next
  <1>2. BmfsInv /\ [Next]_vars => [P]_vars
    BY <1>1
  <1> QED BY <1>2, BmfsHolds, PTL DEF Spec, DamageNeedsDeleted

-----------------------------------------------------------------------------
(* Block 0. *)

\* The records of a directory that format has written lie behind block 0,
\* whatever create has done to them, deleted ones included.
BehindBoot ==
  disk.tag /\ ~foreign => \A i \in Slot : disk.dir[i].name # END => disk.dir[i].start >= 1

\* A gap starts behind block 0 when the records do.
LEMMA GapBehindBoot ==
  ASSUME NEW dir \in [Slot -> Entry], NEW s \in SortedOrders(dir, NumUsed(dir)),
         NEW t \in 1..(NumUsed(dir) + 1),
         \A i \in Slot : dir[i].name # END => dir[i].start >= 1
  PROVE  prev_file_end(dir, s, t) >= 1
  <1> DEFINE n == NumUsed(dir)
  <1>1. n \in 0..DirEntries /\ DirEntries \in Nat
    BY NumUsedIs, BmfsAssumption
  <1>2. s \in [1..n -> 1..n] /\ t \in 1..(n + 1)
    BY DEF SortedOrders
  <1>3. CASE t # 1
    <2>1. n # 0 /\ InUse(dir) # Slot
      BY <1>1, <1>2, <1>3 DEF NumUsed
    <2> HIDE DEF n
    <2>2. t - 1 \in 1..n
      BY <1>1, <1>2, <1>3
    <2>3. s[t - 1] \in 1..n
      BY <1>2, <2>2
    <2>4. s[t - 1] \in InUse(dir)
      BY <2>1, <2>3, UsedAreFirst DEF n
    <2>5. s[t - 1] \in Slot /\ dir[s[t - 1]].name # END
      BY <2>4 DEF InUse, Slot
    <2>6. dir[s[t - 1]] \in Entry /\ dir[s[t - 1]].start >= 1
      BY <2>5
    <2> QED BY <1>3, <2>6 DEF prev_file_end, FileEnd, Entry
  <1> QED BY <1>3 DEF prev_file_end

\* create puts the new record behind block 0.
LEMMA CreateBehindBoot ==
  ASSUME BmfsInv, BehindBoot, NEW n \in Name, NEW mib \in 1..MaxMiB, create(n, mib)
  PROVE  BehindBoot'
  <1> SUFFICES ASSUME ~foreign, NEW i \in Slot, disk'.dir[i].name # END
               PROVE  disk'.dir[i].start >= 1
    BY DEF BehindBoot, create
  <1> DEFINE dir == disk.dir
             used == NumUsed(disk.dir)
             slot == First(FreeRecords(disk.dir))
             blocks == Blocks(mib)
  <1>1. disk.tag /\ FreeRecords(dir) # {} /\ blocks \in Nat /\ dir \in [Slot -> Entry]
    BY CreateIs DEF Ready, BmfsInv, DiskOk
  <1>2. \A j \in Slot : dir[j].name # END => dir[j].start >= 1
    BY <1>1 DEF BehindBoot
  <1>3. PICK s \in SortedOrders(dir, used), start \in Nat :
          /\ FitsHere(dir, s, used, disk.blocks, blocks) # {}
          /\ start = prev_file_end(dir, s, First(FitsHere(dir, s, used, disk.blocks, blocks)))
          /\ Grown(disk', disk, AddRecord(dir, n, start, blocks))
    BY CreateIs
  <1>4. start >= 1
    <2> DEFINE fits == FitsHere(dir, s, used, disk.blocks, blocks)
    <2>1. fits \subseteq 1..(used + 1) /\ fits \in SUBSET Nat
      BY DEF FitsHere
    <2>2. First(fits) \in fits
      BY <1>3, <2>1, FirstIs
    <2> HIDE DEF fits
    <2>3. First(fits) \in 1..(used + 1)
      BY <2>1, <2>2
    <2> QED BY <1>1, <1>2, <1>3, <2>3, GapBehindBoot DEF fits
  <1>5. Added(disk'.dir, dir, slot, n, start, blocks)
    <2>1. disk'.dir = AddRecord(dir, n, start, blocks)
      BY <1>3 DEF Grown
    <2> QED BY <1>1, <2>1, AddRecordIs
  <1> HIDE DEF dir, slot, blocks
  <1>6. CASE i = slot
    BY <1>4, <1>5, <1>6 DEF Added
  <1>7. CASE i # slot /\ disk'.dir[i] = dir[i]
    BY <1>2, <1>7
  <1>8. CASE disk'.dir[i] = [dir[i] EXCEPT !.name = END]
    <2>1. dir[i] \in Entry
      BY <1>1
    <2> QED BY <1>8, <2>1 DEF Entry
  <1> QED BY <1>5, <1>6, <1>7, <1>8 DEF Added

\* Every step keeps the records behind block 0.
LEMMA BehindBootNext == BmfsInv /\ BehindBoot /\ [Next]_vars => BehindBoot'
  <1> SUFFICES ASSUME BmfsInv, BehindBoot, [Next]_vars PROVE BehindBoot'
    OBVIOUS
  <1>0. DiskOk(disk) /\ disk.dir \in [Slot -> Entry]
    BY DEF BmfsInv, DiskOk
  <1>1. ASSUME NEW n \in Name, NEW mib \in 1..MaxMiB, create(n, mib) PROVE BehindBoot'
    BY <1>1, CreateBehindBoot
  <1>2. CASE write_block
    <2>1. disk'.dir = disk.dir /\ disk'.tag = disk.tag
      BY <1>2, WrittenDisk
    <2>2. foreign' = foreign
      BY <1>2 DEF write_block
    <2> QED BY <2>1, <2>2 DEF BehindBoot
  <1>3. CASE write_directory
    <2> DEFINE i == cmd.slot
    <2>1. disk' = [disk EXCEPT !.dir[i].size = cmd.size] /\ foreign' = foreign
      BY <1>3 DEF write_directory
    <2>2. i \in Slot
      BY <1>3, FilesAreSlots DEF write_directory, BmfsInv, WriteOk
    <2> HIDE DEF i
    <2>3. disk'.dir = [disk.dir EXCEPT ![i].size = cmd.size] /\ disk'.tag = disk.tag
      BY <1>0, <2>1 DEF DiskOk
    <2>4. \A j \in Slot : disk'.dir[j].name = disk.dir[j].name
                          /\ disk'.dir[j].start = disk.dir[j].start
      BY <1>0, <2>2, <2>3 DEF Entry
    <2> QED BY <2>1, <2>3, <2>4 DEF BehindBoot
  <1>4. ASSUME NEW n \in Name, delete(n) PROVE BehindBoot'
    <2> DEFINE i == First(findfile(disk.dir, n))
    <2>1. disk' = [disk EXCEPT !.dir[i].name = DELETED] /\ foreign' = foreign
      BY <1>4 DEF delete
    <2>2. i \in Slot /\ disk.dir[i].name = n
      BY <1>4, Found, FilesAreSlots DEF delete
    <2>3. n # END
      BY BmfsAssumption
    <2> HIDE DEF i
    <2>4. disk'.dir = [disk.dir EXCEPT ![i].name = DELETED] /\ disk'.tag = disk.tag
      BY <1>0, <2>1 DEF DiskOk
    <2>5. \A j \in Slot : /\ disk'.dir[j].start = disk.dir[j].start
                          /\ j # i => disk'.dir[j].name = disk.dir[j].name
      BY <1>0, <2>2, <2>4 DEF Entry
    <2> QED BY <2>1, <2>2, <2>3, <2>4, <2>5 DEF BehindBoot
  <1>5. CASE format_tag
    <2>1. disk' = [disk EXCEPT !.tag = TRUE] /\ foreign' = (disk.dir # Zeroed)
      BY <1>5 DEF format_tag
    <2>2. disk'.dir = disk.dir
      BY <1>0, <2>1 DEF DiskOk
    <2>3. \A i \in Slot : Zeroed[i].name = END
      BY DEF Zeroed, ZeroEntry
    <2> QED BY <2>1, <2>2, <2>3 DEF BehindBoot
  <1>6. CASE format_directory
    <2>1. disk' = [disk EXCEPT !.dir = Zeroed]
      BY <1>6 DEF format_directory
    <2>2. disk'.dir = Zeroed
      BY <1>0, <2>1 DEF DiskOk
    <2>3. \A i \in Slot : Zeroed[i].name = END
      BY DEF Zeroed, ZeroEntry
    <2> QED BY <2>2, <2>3 DEF BehindBoot
  <1>7. ASSUME NEW text \in SizeText, NEW system \in 0..MaxSystem, initialize(text, system)
        PROVE  BehindBoot'
    <2>1. ~disk'.tag
      BY <1>7 DEF initialize
    <2> QED BY <2>1 DEF BehindBoot
  <1>8. CASE zero_block
    <2> DEFINE data == [b \in 0..disk.blocks |-> "zero"]
    <2>1. disk' = [disk EXCEPT !.blocks = @ + 1, !.data = data] /\ foreign' = foreign
      BY <1>8 DEF zero_block
    <2> HIDE DEF data
    <2>2. disk'.dir = disk.dir /\ disk'.tag = disk.tag
      BY <1>0, <2>1 DEF DiskOk
    <2> QED BY <2>1, <2>2 DEF BehindBoot
  <1>9. CASE write_boot
    <2>1. /\ cmd.op = "boot" /\ disk' = Put(disk, cmd.done, "system") /\ foreign' = foreign
          /\ "system" \in Held
      BY <1>9 DEF write_boot, Held
    <2>2. cmd.done \in Nat
      BY <2>1 DEF BmfsInv, InitOk
    <2>3. disk'.dir = disk.dir /\ disk'.tag = disk.tag
      BY <1>0, <2>1, <2>2, PutIs
    <2> QED BY <2>1, <2>3 DEF BehindBoot
  <1>10. CASE \/ \E n \in Name, v \in Data, size \in 0..Blocks(MaxMiB) : write(n, v, size)
              \/ format \/ stop \/ UNCHANGED vars
    BY <1>10 DEF write, format, stop, vars, BehindBoot
  <1> QED BY <1>1, <1>2, <1>3, <1>4, <1>5, <1>6, <1>7, <1>8, <1>9, <1>10 DEF Next

\* A step leaves the system in block 0 as it is.
LEMMA BootStep ==
  ASSUME BmfsInv, BehindBoot, [Next]_vars, ~foreign, disk.blocks > 0, disk'.blocks > 0,
         disk.data[0] = "system"
  PROVE  disk'.data[0] = "system"
  <1>0. DiskOk(disk) /\ 0 \in 0..(disk.blocks - 1)
    BY DEF BmfsInv, DiskOk
  <1>1. ASSUME NEW n \in Name, NEW mib \in 1..MaxMiB, create(n, mib)
        PROVE  disk'.data = disk.data
    BY <1>1, CreateIs DEF Grown
  <1>2. CASE write_block
    <2> DEFINE b == disk.dir[cmd.slot].start + cmd.done
    <2>1. /\ cmd.op = "write"
          /\ \A x \in 0..(disk.blocks - 1) : x # b => disk'.data[x] = disk.data[x]
      BY <1>2, WrittenDisk DEF write_block
    <2>2. disk.tag /\ cmd.slot \in Files(disk.dir) /\ cmd.size \in Nat /\ cmd.done \in 0..cmd.size
      BY <2>1 DEF BmfsInv, WriteOk
    <2>3. cmd.slot \in Slot /\ disk.dir[cmd.slot].name # END
      BY <2>2, FilesAreSlots
    <2>4. disk.dir[cmd.slot].start \in Nat /\ disk.dir[cmd.slot].start >= 1
      BY <1>0, <2>2, <2>3 DEF BehindBoot, DiskOk, Entry
    <2>5. b # 0
      BY <2>2, <2>4
    <2> QED BY <1>0, <2>1, <2>5
  <1>3. CASE write_directory
    <2>1. disk' = [disk EXCEPT !.dir[cmd.slot].size = cmd.size]
      BY <1>3 DEF write_directory
    <2> QED BY <1>0, <2>1 DEF DiskOk
  <1>4. ASSUME NEW n \in Name, delete(n) PROVE disk'.data = disk.data
    <2>1. disk' = [disk EXCEPT !.dir[First(findfile(disk.dir, n))].name = DELETED]
      BY <1>4 DEF delete
    <2> QED BY <1>0, <2>1 DEF DiskOk
  <1>5. CASE format_tag \/ format_directory
    <2>1. disk' = [disk EXCEPT !.tag = TRUE] \/ disk' = [disk EXCEPT !.dir = Zeroed]
      BY <1>5 DEF format_tag, format_directory
    <2> QED BY <1>0, <2>1 DEF DiskOk
  <1>6. ASSUME NEW text \in SizeText, NEW system \in 0..MaxSystem, initialize(text, system)
        PROVE  FALSE
    <2>1. disk'.blocks = 0
      BY <1>6 DEF initialize
    <2> QED BY <2>1
  <1>7. CASE zero_block
    <2>1. cmd.op = "init"
      BY <1>7 DEF zero_block
    <2> QED BY <1>0, <2>1 DEF BmfsInv, InitOk
  <1>8. CASE write_boot
    <2>1. cmd.op = "boot" /\ disk' = Put(disk, cmd.done, "system") /\ "system" \in Held
      BY <1>8 DEF write_boot, Held
    <2>2. cmd.done \in Nat
      BY <2>1 DEF BmfsInv, InitOk
    <2>3. /\ disk'.data[cmd.done] = "system"
          /\ \A x \in 0..(disk.blocks - 1) : x # cmd.done => disk'.data[x] = disk.data[x]
      BY <1>0, <2>1, <2>2, PutIs
    <2> QED BY <1>0, <2>3
  <1>9. CASE \/ \E n \in Name, v \in Data, size \in 0..Blocks(MaxMiB) : write(n, v, size)
             \/ format \/ stop \/ UNCHANGED vars
    BY <1>9 DEF write, format, stop, vars
  <1> QED BY <1>1, <1>2, <1>3, <1>4, <1>5, <1>6, <1>7, <1>8, <1>9 DEF Next

\* Nothing but initialize writes block 0, where the boot sector is, however
\* create has damaged the disk, unless a format stopped between its two writes
\* and left a directory it did not write.
THEOREM SystemSurvives == Spec => BootSurvives
  <1>1. Init => BehindBoot
    BY DEF Init, BehindBoot
  <1>2. BmfsInv /\ BehindBoot /\ [Next]_vars =>
          [~foreign /\ disk.blocks > 0 /\ disk'.blocks > 0 /\ disk.data[0] = "system"
             => disk'.data[0] = "system"]_vars
    BY BootStep
  <1> QED BY <1>1, <1>2, BehindBootNext, BmfsHolds, PTL DEF Spec, BootSurvives

=============================================================================
