------------------------------ MODULE VfsProofs -----------------------------
(***************************************************************************)
(* Proofs about Vfs, for every number of descriptors and of blocks, every  *)
(* set of paths and every size of the disk.                                *)
(***************************************************************************)
EXTENDS Vfs, FiniteSetTheorems, WellFoundedInduction, TLAPS

-----------------------------------------------------------------------------
(* The inductive invariant.                                                *)

\* The blocks that go with a File block, Owned for any heap.
OwnedIn(h, f) == (Blocks(h, f) \cup {f, h[f].name}) \ {NULL}

\* What hangs on a File block is there and is what the file's driver put there.
Hangs(h, f) ==
  /\ f \in Block /\ h[f] \in File
  /\ h[f].name # NULL => h[h[f].name] = Text
  /\ h[f].driver = "fat" =>
       /\ h[f].private_data \in Block /\ h[h[f].private_data] \in FatPrivate
       /\ h[h[h[f].private_data].fat_file] \in FIL
  /\ h[f].driver = "proc" =>
       /\ h[f].private_data \in Block /\ h[h[f].private_data] \in ProcData
       /\ h[h[f].private_data].data # NULL => h[h[h[f].private_data].data] = Text
  /\ h[f].driver = "dev" => h[f].private_data = NULL

\* FatFs's pointer is inside the file; and as long as nobody appends or goes
\* past the end, the two counts of where it is, and of how long the file is, agree.
Agree(file, priv, fil) ==
  /\ fil.fptr <= fil.objsize
  /\ ~priv.append /\ ~file.past => file.position = fil.fptr /\ priv.size = fil.objsize

Sized(h, f) ==
  h[f].driver = "fat" => Agree(h[f], h[h[f].private_data], h[h[h[f].private_data].fat_file])

\* The types, the account of the blocks, and for every open descriptor what
\* hangs on it: without that nobody could say which blocks a close frees.
IInv ==
  /\ TypeOK /\ heap \in [Block -> Content] /\ IsFiniteSet(Open)
  /\ NothingLost
  /\ \A d \in Open : Hangs(heap, fd_table[d]) /\ Sized(heap, fd_table[d])

-----------------------------------------------------------------------------
(* Blocks, and what lies outside of them.                                  *)

\* NULL is no block.
LEMMA BlockType == Block \subseteq Nat /\ NULL \notin Block
  BY VfsAssumption DEF Block

\* What is in a block says of itself what it is.
LEMMA Kinds ==
  /\ \A r \in File : r.kind = "File"
  /\ \A r \in FIL : r.kind = "FIL"
  /\ \A r \in FatPrivate : r.kind = "FatPrivate"
  /\ \A r \in ProcData : r.kind = "ProcData"
  /\ Text.kind = "text" /\ FREE.kind = "free"
  BY DEF File, FIL, FatPrivate, ProcData, Text, FREE

\* A number that is not below another of its set.
LEMMA LeastElement ==
  ASSUME NEW S, S \subseteq Nat, S # {}
  PROVE  Lowest(S) \in S
  <1> DEFINE R == {ss \in Nat \X Nat : ss[1] < ss[2]}
  <1>1. IsWellFoundedOn(R, Nat)
    BY NatLessThanWellFounded DEF OpToRel
  <1>2. \A x, y \in Nat : y < x => <<y, x>> \in R
    OBVIOUS
  <1> HIDE DEF R
  <1>3. PICK x \in S : \A y \in S : ~ (<<y, x>> \in R)
    BY <1>1, WFMin
  <1>4. \A y \in S : ~(y < x)
    BY <1>2, <1>3
  <1>5. \A y \in S : x <= y
    BY <1>4
  <1> QED
    BY <1>3, <1>5 DEF Lowest

\* The three blocks of a file on the disk are three, and its name is another.
LEMMA FatBlocks ==
  ASSUME NEW h \in [Block -> Content], NEW f, Hangs(h, f), h[f].driver = "fat"
  PROVE  LET p == h[f].private_data
             l == h[p].fat_file
         IN  /\ OwnedIn(h, f) = {f, p, l, h[f].name} \ {NULL}
             /\ {f, p, l} \subseteq Block
             /\ f # p /\ f # l /\ p # l /\ h[f].name \notin {f, p, l}
             /\ h[f] \in File /\ h[p] \in FatPrivate /\ h[l] \in FIL
             /\ h[f].name \in Pointer
             /\ h[f].name # NULL => h[h[f].name] = Text
  <1> DEFINE p == h[f].private_data
             l == h[p].fat_file
             n == h[f].name
  <1>1. /\ f \in Block /\ p \in Block /\ h[f] \in File /\ h[p] \in FatPrivate /\ h[l] \in FIL
        /\ n \in Pointer
        /\ n # NULL => h[n] = Text
    BY DEF Hangs, File
  <1>2. l \in Block
    BY <1>1 DEF FatPrivate
  <1>3. OwnedIn(h, f) = {f, p, l, n} \ {NULL}
    BY DEF OwnedIn, Blocks
  <1>4. /\ h[f].kind = "File" /\ h[p].kind = "FatPrivate" /\ h[l].kind = "FIL"
        /\ n # NULL => h[n].kind = "text"
    BY <1>1, Kinds
  <1> HIDE DEF p, l, n
  <1>5. f # p /\ f # l /\ p # l /\ n \notin {f, p, l}
    BY <1>1, <1>2, <1>4, BlockType
  <1> QED
    BY <1>1, <1>2, <1>3, <1>5 DEF p, l, n

\* What hangs on a descriptor is blocks.
LEMMA OwnedBlocks ==
  ASSUME NEW h \in [Block -> Content], NEW f, Hangs(h, f)
  PROVE  OwnedIn(h, f) \subseteq Block
  <1>1. CASE h[f].driver = "fat"
    BY <1>1, FatBlocks DEF Pointer
  <1>2. CASE h[f].driver = "proc"
    BY <1>2 DEF Hangs, OwnedIn, Blocks, ProcData, File, Pointer
  <1>3. CASE h[f].driver = "dev"
    BY <1>3 DEF Hangs, OwnedIn, Blocks, File, Pointer
  <1> QED
    BY <1>1, <1>2, <1>3 DEF Hangs, File

\* A heap in which these blocks are as they were has them hang there still.
LEMMA Frame ==
  ASSUME NEW h \in [Block -> Content], NEW g, NEW f, Hangs(h, f),
         \A b \in OwnedIn(h, f) : g[b] = h[b]
  PROVE  /\ Hangs(g, f) /\ OwnedIn(g, f) = OwnedIn(h, f)
         /\ Sized(h, f) => Sized(g, f)
  <1>1. f \in Block /\ f # NULL /\ h[f] \in File
    BY BlockType DEF Hangs
  <1>2. f \in OwnedIn(h, f)
    BY <1>1 DEF OwnedIn
  <1>3. g[f] = h[f]
    BY <1>2
  <1>4. h[f].name # NULL => g[h[f].name] = h[h[f].name]
    BY DEF OwnedIn
  <1>5. CASE h[f].driver = "fat"
    <2> DEFINE p == h[f].private_data
               l == h[p].fat_file
    <2>1. g[p] = h[p] /\ g[l] = h[l]
      BY <1>5, FatBlocks, BlockType
    <2> QED
      BY <1>3, <1>4, <1>5, <2>1 DEF Hangs, OwnedIn, Blocks, Sized
  <1>6. CASE h[f].driver = "proc"
    <2> DEFINE p == h[f].private_data
    <2>1. p \in Block /\ p \in OwnedIn(h, f)
      BY <1>6, BlockType DEF Hangs, OwnedIn, Blocks
    <2>2. g[p] = h[p]
      BY <2>1
    <2>3. h[p].data # NULL => g[h[p].data] = h[h[p].data]
      BY <1>6 DEF OwnedIn, Blocks
    <2> QED
      BY <1>3, <1>4, <1>6, <2>2, <2>3 DEF Hangs, OwnedIn, Blocks, Sized
  <1>7. CASE h[f].driver = "dev"
    BY <1>3, <1>4, <1>7 DEF Hangs, OwnedIn, Blocks, Sized
  <1> QED
    BY <1>1, <1>5, <1>6, <1>7 DEF File

-----------------------------------------------------------------------------
(* Read, write and seek: the calls that change what is in the blocks of    *)
(* one file and leave them where they are.                                 *)

\* The blocks of a descriptor, before a step and after it.
LEMMA OwnedIs ==
  /\ \A d : Owned(d) = OwnedIn(heap, fd_table[d])
  /\ \A d : Owned(d)' = OwnedIn(heap', fd_table'[d])
  BY DEF Owned, OwnedIn, FileOf

\* A call for the descriptor d leaves every other descriptor open, and its blocks
\* and what is in them as they were.
OthersKept(d) ==
  \A c \in Open \ {d} : /\ c \in Open' /\ fd_table'[c] = fd_table[c]
                        /\ \A b \in Owned(c) : heap'[b] = heap[b]

\* The heap g is h with new values in the three blocks of the file f.
Changed(h, g, f, file, priv, fil) ==
  /\ g \in [Block -> Content]
  /\ g[f] = file /\ g[h[f].private_data] = priv /\ g[h[h[f].private_data].fat_file] = fil
  /\ \A b \in Block \ {f, h[f].private_data, h[h[f].private_data].fat_file} : g[b] = h[b]

\* The new values point where the old ones did, and agree with each other.
Follows(h, f, file, priv, fil) ==
  /\ file \in File /\ priv \in FatPrivate /\ fil \in FIL
  /\ file.name = h[f].name /\ file.private_data = h[f].private_data /\ file.driver = h[f].driver
  /\ priv.fat_file = h[h[f].private_data].fat_file
  /\ Agree(file, priv, fil)

\* Such a change takes no block from the file and gives it none.
LEMMA ChangeKeeps ==
  ASSUME NEW h \in [Block -> Content], NEW g, NEW f, NEW file, NEW priv, NEW fil,
         Hangs(h, f), h[f].driver = "fat",
         Changed(h, g, f, file, priv, fil), Follows(h, f, file, priv, fil)
  PROVE  /\ Hangs(g, f) /\ Sized(g, f) /\ OwnedIn(g, f) = OwnedIn(h, f)
         /\ \A b \in Block : g[b] = FREE <=> h[b] = FREE
  <1> DEFINE p == h[f].private_data
             l == h[p].fat_file
             n == h[f].name
  <1>1. /\ OwnedIn(h, f) = {f, p, l, n} \ {NULL}
        /\ {f, p, l} \subseteq Block
        /\ f # p /\ f # l /\ p # l /\ n \notin {f, p, l}
        /\ h[f] \in File /\ h[p] \in FatPrivate /\ h[l] \in FIL
        /\ n \in Pointer
    BY FatBlocks
  <1>2. n # NULL => h[n] = Text
    BY FatBlocks
  <1>3. /\ g[f] = file /\ g[p] = priv /\ g[l] = fil
        /\ \A b \in Block \ {f, p, l} : g[b] = h[b]
    BY DEF Changed
  <1>4. /\ file \in File /\ priv \in FatPrivate /\ fil \in FIL
        /\ file.name = n /\ file.private_data = p /\ file.driver = "fat" /\ priv.fat_file = l
        /\ Agree(file, priv, fil)
    BY DEF Follows
  <1> HIDE DEF p, l, n
  <1>5. n # NULL => g[n] = Text
    BY <1>1, <1>2, <1>3 DEF Pointer
  <1>6. /\ g[f].private_data = p /\ g[f].name = n /\ g[f].driver = "fat" /\ g[p].fat_file = l
    BY <1>3, <1>4
  <1>7. Hangs(g, f)
    BY <1>1, <1>3, <1>4, <1>5, <1>6 DEF Hangs
  <1>8. Sized(g, f)
    BY <1>3, <1>4, <1>6 DEF Sized
  <1>9. OwnedIn(g, f) = OwnedIn(h, f)
    BY <1>1, <1>6 DEF OwnedIn, Blocks
  <1>10. ASSUME NEW b \in Block PROVE g[b] = FREE <=> h[b] = FREE
    <2>1. g[b] = h[b] \/ (h[b] \in File \cup FatPrivate \cup FIL /\ g[b] \in File \cup FatPrivate \cup FIL)
      BY <1>1, <1>3, <1>4
    <2>2. FREE \notin File \cup FatPrivate \cup FIL
      BY Kinds
    <2> QED
      BY <2>1, <2>2
  <1> QED
    BY <1>7, <1>8, <1>9, <1>10

\* A step that changes what is in the blocks of one descriptor and leaves them
\* where they are keeps the invariant and the other descriptors, none of which
\* has one of these blocks.
LEMMA InPlace ==
  ASSUME IInv, NEW d \in Fd, d \in Open, heap' \in [Block -> Content],
         Hangs(heap', fd_table[d]), Sized(heap', fd_table[d]),
         OwnedIn(heap', fd_table[d]) = OwnedIn(heap, fd_table[d]),
         \A b \in Block : heap'[b] = FREE <=> heap[b] = FREE,
         \A b \in Block \ OwnedIn(heap, fd_table[d]) : heap'[b] = heap[b],
         UNCHANGED <<fd_table, fd_count, disk, behind>>
  PROVE  IInv' /\ OthersKept(d)
  <1>1. Open' = Open
    BY DEF Open
  <1>2. heap \in [Block -> Content] /\ \A c \in Open : Hangs(heap, fd_table[c]) /\ Sized(heap, fd_table[c])
    BY DEF IInv
  <1>3. ASSUME NEW c \in Open, c # d
        PROVE  /\ Hangs(heap', fd_table[c]) /\ Sized(heap', fd_table[c])
               /\ OwnedIn(heap', fd_table[c]) = OwnedIn(heap, fd_table[c])
               /\ \A b \in OwnedIn(heap, fd_table[c]) : heap'[b] = heap[b]
    <2>1. OwnedIn(heap, fd_table[c]) \cap OwnedIn(heap, fd_table[d]) = {}
      BY <1>3, OwnedIs DEF IInv, NothingLost
    <2>2. OwnedIn(heap, fd_table[c]) \subseteq Block
      BY <1>2, OwnedBlocks
    <2>3. \A b \in OwnedIn(heap, fd_table[c]) : heap'[b] = heap[b]
      BY <2>1, <2>2
    <2> QED
      BY <1>2, <2>3, Frame
  <1>4. \A c \in Open : Hangs(heap', fd_table[c]) /\ Sized(heap', fd_table[c]) /\ Owned(c)' = Owned(c)
    BY <1>3, OwnedIs
  <1>5. {b \in Block : heap'[b] # FREE} = {b \in Block : heap[b] # FREE}
    OBVIOUS
  <1>6. NothingLost'
    <2>1. NothingLost /\ behind' = behind
      BY DEF IInv
    <2>2. UNION {Owned(c)' : c \in Open} = UNION {Owned(c) : c \in Open}
      BY <1>4
    <2> QED
      BY <1>1, <1>4, <1>5, <2>1, <2>2 DEF NothingLost
  <1>7. TypeOK'
    <2>1. TypeOK
      BY DEF IInv
    <2>2. DOMAIN heap' = Block /\ \A b \in Block : heap'[b] \in Content
      OBVIOUS
    <2> QED
      BY <1>1, <2>1, <2>2 DEF TypeOK
  <1>8. OthersKept(d)
    BY <1>1, <1>3, OwnedIs DEF OthersKept
  <1> QED
    BY <1>1, <1>4, <1>6, <1>7, <1>8 DEF IInv

\* Such is a change of a file of the disk.
LEMMA ChangeStep ==
  ASSUME IInv, NEW d \in Fd, IsFat(d), NEW file, NEW priv, NEW fil,
         Changed(heap, heap', fd_table[d], file, priv, fil),
         Follows(heap, fd_table[d], file, priv, fil),
         UNCHANGED <<fd_table, fd_count, disk, behind>>
  PROVE  IInv' /\ OthersKept(d)
  <1>1. d \in Open
    BY DEF Open, IsFat
  <1>2. /\ heap \in [Block -> Content] /\ heap' \in [Block -> Content]
        /\ heap[fd_table[d]].driver = "fat" /\ Hangs(heap, fd_table[d])
    BY <1>1 DEF IInv, Changed, IsFat, FileOf
  <1>3. /\ Hangs(heap', fd_table[d]) /\ Sized(heap', fd_table[d])
        /\ OwnedIn(heap', fd_table[d]) = OwnedIn(heap, fd_table[d])
        /\ \A b \in Block : heap'[b] = FREE <=> heap[b] = FREE
    BY <1>2, ChangeKeeps
  <1>4. {fd_table[d], heap[fd_table[d]].private_data, heap[heap[fd_table[d]].private_data].fat_file}
        \subseteq OwnedIn(heap, fd_table[d])
    BY <1>2, FatBlocks, BlockType
  <1>5. \A b \in Block \ OwnedIn(heap, fd_table[d]) : heap'[b] = heap[b]
    BY <1>4 DEF Changed
  <1> QED
    BY <1>1, <1>2, <1>3, <1>5, InPlace

\* And such is a move in a /proc file: its File and its ProcData get a new place.
LEMMA MoveStep ==
  ASSUME IInv, NEW d \in Fd, IsProc(d), NEW to \in 0..PROC_SIZE,
         heap' = [heap EXCEPT ![FileOf(d).private_data].position = to, ![fd_table[d]].position = to],
         UNCHANGED <<fd_table, fd_count, disk, behind>>
  PROVE  IInv' /\ OthersKept(d)
  <1>1. d \in Open
    BY DEF Open, IsProc
  <1>2. PICK f : f = fd_table[d]
    OBVIOUS
  <1>3. PICK p : p = heap[f].private_data
    OBVIOUS
  <1>4. PICK n : n = heap[f].name
    OBVIOUS
  <1>5. PICK t : t = heap[p].data
    OBVIOUS
  <1>6. /\ heap \in [Block -> Content] /\ Hangs(heap, f) /\ heap[f].driver = "proc"
    BY <1>1, <1>2 DEF IInv, IsProc, FileOf
  <1>7. /\ f \in Block /\ p \in Block /\ heap[f] \in File /\ heap[p] \in ProcData
        /\ n # NULL => heap[n] = Text
        /\ t # NULL => heap[t] = Text
        /\ n \in Pointer /\ t \in Pointer
    BY <1>3, <1>4, <1>5, <1>6 DEF Hangs, File, ProcData
  <1>8. /\ f # p /\ n # f /\ n # p /\ t # f /\ t # p
    BY <1>7, Kinds, BlockType
  <1> DEFINE file == [heap[f] EXCEPT !.position = to]
             data == [heap[p] EXCEPT !.position = to]
  <1>9. to \in Nat
    BY VfsAssumption
  <1>10. /\ file \in File /\ file.name = n /\ file.private_data = p /\ file.driver = "proc"
         /\ data \in ProcData /\ data.data = t
    BY <1>3, <1>4, <1>5, <1>6, <1>7, <1>9 DEF File, ProcData
  <1>11. heap' = [heap EXCEPT ![p] = data, ![f] = file]
    BY <1>2, <1>3, <1>6, <1>7, <1>8 DEF FileOf
  <1>12. OwnedIn(heap, f) = {f, p, t, n} \ {NULL}
    BY <1>3, <1>4, <1>5, <1>6 DEF OwnedIn, Blocks
  <1> HIDE DEF file, data
  <1>13. file \in Content /\ data \in Content /\ file # FREE /\ data # FREE
         /\ heap[f] # FREE /\ heap[p] # FREE
    BY <1>7, <1>10, Kinds DEF Content
  <1>14. /\ heap' \in [Block -> Content] /\ heap'[f] = file /\ heap'[p] = data
         /\ \A b \in Block \ {f, p} : heap'[b] = heap[b]
    BY <1>6, <1>7, <1>8, <1>11, <1>13
  <1>15. /\ n # NULL => heap'[n] = Text
         /\ t # NULL => heap'[t] = Text
    BY <1>7, <1>8, <1>14 DEF Pointer
  <1>16. Hangs(heap', f) /\ Sized(heap', f)
    BY <1>7, <1>10, <1>14, <1>15 DEF Hangs, Sized
  <1>17. OwnedIn(heap', f) = OwnedIn(heap, f)
    BY <1>10, <1>12, <1>14 DEF OwnedIn, Blocks
  <1>18. \A b \in Block : heap'[b] = FREE <=> heap[b] = FREE
    BY <1>13, <1>14
  <1>19. \A b \in Block \ OwnedIn(heap, f) : heap'[b] = heap[b]
    BY <1>7, <1>12, <1>14, BlockType
  <1> QED
    BY <1>1, <1>2, <1>14, <1>16, <1>17, <1>18, <1>19, InPlace

\* f_lseek leaves its pointer inside the file: at the place asked for when that
\* is inside too, or when the file may grow so far.
LEMMA SeekTo ==
  ASSUME NEW f \in FIL, NEW to \in Nat
  PROVE  /\ Seek(f, to) \in FIL /\ Seek(f, to).fptr <= Seek(f, to).objsize
         /\ Seek(f, to).mode = f.mode
         /\ to <= f.objsize => Seek(f, to).fptr = to /\ Seek(f, to).objsize = f.objsize
         /\ "WRITE" \in f.mode /\ f.objsize < to /\ to <= DISK =>
              Seek(f, to).fptr = to /\ Seek(f, to).objsize = to
  <1> DEFINE ptr == CASE to <= f.objsize -> to
                      [] "WRITE" \in f.mode /\ to > f.objsize -> IF to <= DISK THEN to ELSE DISK
                      [] OTHER -> f.objsize
  <1>1. /\ f.fptr \in Nat /\ f.objsize \in Nat /\ f.objsize <= DISK /\ DISK \in Nat
        /\ f.fptr \in Length /\ f.objsize \in Length
    BY VfsAssumption DEF FIL, Length
  <1>2. to <= f.objsize => ptr = to
    BY <1>1
  <1>3. "WRITE" \in f.mode /\ to > f.objsize => ptr = IF to <= DISK THEN to ELSE DISK
    BY <1>1
  <1>4. ~(to <= f.objsize) /\ ~("WRITE" \in f.mode /\ to > f.objsize) => ptr = f.objsize
    OBVIOUS
  <1>5. Seek(f, to) = IF ptr > f.objsize THEN [f EXCEPT !.fptr = ptr, !.objsize = ptr, !.modified = TRUE]
                      ELSE [f EXCEPT !.fptr = ptr]
    BY DEF Seek
  <1> HIDE DEF ptr
  <1>6. ptr \in Length /\ ptr \in Nat
    BY <1>1, <1>2, <1>3, <1>4 DEF Length
  <1>7. CASE ptr > f.objsize
    <2> DEFINE g == [f EXCEPT !.fptr = ptr, !.objsize = ptr, !.modified = TRUE]
    <2>1. g \in FIL /\ g.fptr = ptr /\ g.objsize = ptr /\ g.mode = f.mode
      BY <1>6 DEF FIL
    <2>2. Seek(f, to) = g
      BY <1>5, <1>7
    <2> HIDE DEF g
    <2> QED
      BY <1>1, <1>2, <1>3, <1>4, <1>6, <1>7, <2>1, <2>2
  <1>8. CASE ~(ptr > f.objsize)
    <2> DEFINE g == [f EXCEPT !.fptr = ptr]
    <2>1. g \in FIL /\ g.fptr = ptr /\ g.objsize = f.objsize /\ g.mode = f.mode
      BY <1>6 DEF FIL
    <2>2. Seek(f, to) = g
      BY <1>5, <1>8
    <2> HIDE DEF g
    <2> QED
      BY <1>1, <1>2, <1>3, <1>4, <1>6, <1>8, <2>1, <2>2
  <1> QED
    BY <1>7, <1>8

\* What is known of the three blocks of an open file of the disk.
LEMMA OpenFat ==
  ASSUME IInv, NEW d \in Fd, IsFat(d)
  PROVE  LET f == fd_table[d]
             p == heap[f].private_data
             l == heap[p].fat_file
         IN  /\ {f, p, l} \subseteq Block /\ f # p /\ f # l /\ p # l
             /\ heap[f] \in File /\ heap[p] \in FatPrivate /\ heap[l] \in FIL
             /\ Agree(heap[f], heap[p], heap[l])
             /\ FileOf(d) = heap[f] /\ PrivOf(d) = heap[p] /\ FilOf(d) = heap[l]
             /\ heap \in [Block -> Content]
             /\ heap[f].driver = "fat"
  <1>1. Hangs(heap, fd_table[d]) /\ Sized(heap, fd_table[d]) /\ heap \in [Block -> Content]
    BY DEF IInv, Open, IsFat
  <1>2. heap[fd_table[d]].driver = "fat"
    BY DEF IsFat, FileOf
  <1>3. FileOf(d) = heap[fd_table[d]] /\ PrivOf(d) = heap[heap[fd_table[d]].private_data]
        /\ FilOf(d) = heap[heap[heap[fd_table[d]].private_data].fat_file]
    BY DEF FileOf, PrivOf, FilOf
  <1> QED
    BY <1>1, <1>2, <1>3, FatBlocks DEF Sized

\* Values of the three kinds put into the three blocks make a change.
LEMMA ThreeBlocks ==
  ASSUME NEW h \in [Block -> Content], NEW g, NEW f \in Block, NEW p \in Block, NEW l \in Block,
         f # p, f # l, p # l, h[f].private_data = p, h[p].fat_file = l,
         NEW file \in File, NEW priv \in FatPrivate, NEW fil \in FIL,
         g = [h EXCEPT ![l] = fil, ![f] = file, ![p] = priv]
  PROVE  Changed(h, g, f, file, priv, fil)
  <1>1. file \in Content /\ priv \in Content /\ fil \in Content
    BY DEF Content
  <1>2. g \in [Block -> Content]
    BY <1>1
  <1> QED
    BY <1>2 DEF Changed

\* A read takes no more than the file has, and moves both counts alike.
LEMMA ReadStep ==
  ASSUME IInv, NEW d \in Fd, NEW n \in Nat, fat_read(d, n)
  PROVE  IInv' /\ OthersKept(d)
  <1>1. IsFat(d)
    BY DEF fat_read
  <1>2. PICK f \in Block, p \in Block, l \in Block :
           /\ f = fd_table[d] /\ p = heap[f].private_data /\ l = heap[p].fat_file
           /\ f # p /\ f # l /\ p # l
    BY <1>1, OpenFat
  <1>3. PICK file \in File, priv \in FatPrivate, fil \in FIL :
           /\ file = heap[f] /\ priv = heap[p] /\ fil = heap[l]
           /\ Agree(file, priv, fil)
    BY <1>1, <1>2, OpenFat
  <1>4. PICK got \in Nat :
           /\ got <= fil.objsize - fil.fptr
           /\ heap' = [heap EXCEPT ![l].fptr = @ + got, ![f].position = @ + got]
    <2>1. FilOf(d) = fil /\ PrivOf(d).fat_file = l
      BY <1>1, <1>2, <1>3, OpenFat
    <2>2. fil.objsize \in Nat /\ fil.fptr \in Nat /\ fil.fptr <= fil.objsize
      BY <1>3, VfsAssumption DEF FIL, Length, Agree
    <2> DEFINE k == IF n <= fil.objsize - fil.fptr THEN n ELSE fil.objsize - fil.fptr
    <2>3. k \in Nat /\ k <= fil.objsize - fil.fptr
      BY <2>2
    <2>4. heap' = [heap EXCEPT ![l].fptr = @ + k, ![f].position = @ + k]
      BY <1>2, <2>1 DEF fat_read
    <2> HIDE DEF k
    <2> QED
      BY <2>3, <2>4
  <1> DEFINE file2 == [file EXCEPT !.position = @ + got]
             fil2 == [fil EXCEPT !.fptr = @ + got]
  <1>5. /\ fil.fptr \in Length /\ fil.objsize \in Length /\ file.position \in Nat
        /\ fil.fptr \in Nat /\ fil.objsize \in Nat
    BY VfsAssumption DEF FIL, File, Length
  <1>6. fil.fptr + got \in Length /\ fil.fptr + got <= fil.objsize
    BY <1>4, <1>5, VfsAssumption DEF Length
  <1>7. /\ fil2 \in FIL /\ fil2.fptr = fil.fptr + got /\ fil2.objsize = fil.objsize
    BY <1>6 DEF FIL
  <1>8. /\ file2 \in File /\ file2.position = file.position + got /\ file2.past = file.past
        /\ file2.name = file.name /\ file2.private_data = file.private_data
        /\ file2.driver = file.driver
    BY <1>5 DEF File
  <1>9. heap \in [Block -> Content]
    BY <1>1, OpenFat
  <1>10. heap' = [heap EXCEPT ![l] = fil2, ![f] = file2, ![p] = priv]
    BY <1>2, <1>3, <1>4, <1>9
  <1> HIDE DEF file2, fil2
  <1>11. Agree(file2, priv, fil2)
    BY <1>3, <1>5, <1>6, <1>7, <1>8 DEF Agree
  <1>12. Changed(heap, heap', fd_table[d], file2, priv, fil2)
    BY <1>2, <1>7, <1>8, <1>9, <1>10, ThreeBlocks
  <1>13. Follows(heap, fd_table[d], file2, priv, fil2)
    BY <1>2, <1>3, <1>7, <1>8, <1>11 DEF Follows
  <1>14. UNCHANGED <<fd_table, fd_count, disk, behind>>
    BY DEF fat_read
  <1> QED
    BY <1>1, <1>12, <1>13, <1>14, ChangeStep

\* What a write does to the three blocks.
LEMMA WriteValues ==
  ASSUME NEW file \in File, NEW priv \in FatPrivate, NEW fil \in FIL, NEW n \in Nat,
         Agree(file, priv, fil), "WRITE" \in fil.mode
  PROVE  LET f == IF priv.append THEN Seek(fil, fil.objsize) ELSE fil
             put == IF f.fptr + n <= DISK THEN n ELSE DISK - f.fptr
             position == file.position + put
             end == f.fptr + put
             file2 == [file EXCEPT !.position = position]
             priv2 == [priv EXCEPT !.size = IF position > @ THEN position ELSE @]
             fil2 == [Seek(f, end) EXCEPT !.modified = TRUE]
         IN  /\ file2 \in File /\ priv2 \in FatPrivate /\ fil2 \in FIL
             /\ file2.name = file.name /\ file2.private_data = file.private_data
             /\ file2.driver = file.driver /\ priv2.fat_file = priv.fat_file
             /\ Agree(file2, priv2, fil2)
  <1> DEFINE f == IF priv.append THEN Seek(fil, fil.objsize) ELSE fil
             put == IF f.fptr + n <= DISK THEN n ELSE DISK - f.fptr
             position == file.position + put
             end == f.fptr + put
             size == IF position > priv.size THEN position ELSE priv.size
             file2 == [file EXCEPT !.position = position]
             priv2 == [priv EXCEPT !.size = size]
             fil2 == [Seek(f, end) EXCEPT !.modified = TRUE]
  <1>1. /\ fil.objsize \in Nat /\ DISK \in Nat /\ file.position \in Nat /\ priv.size \in Nat
        /\ fil.fptr <= fil.objsize
    BY VfsAssumption DEF FIL, File, FatPrivate, Length, Agree
  <1>2. f \in FIL /\ f.fptr <= f.objsize /\ "WRITE" \in f.mode
    BY <1>1, SeekTo
  <1>3. ~priv.append => f = fil
    OBVIOUS
  <1> HIDE DEF f
  <1>4. f.fptr \in Nat /\ f.objsize \in Nat /\ f.objsize <= DISK /\ f.fptr <= DISK
    BY <1>2, VfsAssumption DEF FIL, Length
  <1>5. put \in Nat /\ end \in Nat /\ end <= DISK
    BY <1>1, <1>4
  <1>6. position \in Nat /\ size \in Nat
    BY <1>1, <1>5
  <1>7. position = file.position + put /\ end = f.fptr + put
        /\ size = IF position > priv.size THEN position ELSE priv.size
    OBVIOUS
  <1> HIDE DEF put, end, position, size
  <1> DEFINE s == Seek(f, end)
  <1>8. /\ s \in FIL /\ s.fptr <= s.objsize /\ s.fptr = end
        /\ end <= f.objsize => s.objsize = f.objsize
        /\ f.objsize < end => s.objsize = end
    <2>1. s \in FIL /\ s.fptr <= s.objsize
      BY <1>2, <1>5, SeekTo
    <2>2. end <= f.objsize => s.fptr = end /\ s.objsize = f.objsize
      BY <1>2, <1>5, SeekTo
    <2>3. f.objsize < end => s.fptr = end /\ s.objsize = end
      BY <1>2, <1>5, SeekTo
    <2>4. end <= f.objsize \/ f.objsize < end
      BY <1>4, <1>5
    <2> QED
      BY <2>1, <2>2, <2>3, <2>4
  <1> HIDE DEF s
  <1>9. fil2 \in FIL /\ fil2.fptr = s.fptr /\ fil2.objsize = s.objsize
    <2>1. fil2 = [s EXCEPT !.modified = TRUE]
      BY DEF s
    <2> HIDE DEF fil2
    <2> QED
      BY <1>8, <2>1 DEF FIL
  <1>10. /\ file2 \in File /\ file2.position = position /\ file2.past = file.past
         /\ file2.name = file.name /\ file2.private_data = file.private_data
         /\ file2.driver = file.driver
    BY <1>6 DEF File
  <1>11. /\ priv2 \in FatPrivate /\ priv2.size = size /\ priv2.append = priv.append
         /\ priv2.fat_file = priv.fat_file
    BY <1>6 DEF FatPrivate
  <1> HIDE DEF file2, priv2, fil2
  <1>12. Agree(file2, priv2, fil2)
    <2>1. fil2.fptr <= fil2.objsize
      BY <1>8, <1>9
    <2>2. ASSUME ~priv.append, ~file.past PROVE position = fil2.fptr /\ size = fil2.objsize
      <3>1. f = fil /\ file.position = fil.fptr /\ priv.size = fil.objsize
        BY <1>3, <2>2 DEF Agree
      <3>2. position = end
        BY <1>7, <3>1
      <3>3. size = s.objsize
        BY <1>4, <1>5, <1>7, <1>8, <3>1, <3>2
      <3> QED
        BY <1>8, <1>9, <3>2, <3>3
    <2> QED
      BY <1>10, <1>11, <2>1, <2>2 DEF Agree
  <1> QED
    BY <1>9, <1>10, <1>11, <1>12 DEF f, put, end, position, size, file2, priv2, fil2

\* A write counts what the disk took, so that the two counts stay together.
LEMMA WriteStep ==
  ASSUME IInv, NEW d \in Fd, NEW n \in Nat, fat_write(d, n)
  PROVE  IInv' /\ OthersKept(d)
  <1>1. IsFat(d) /\ "WRITE" \in FilOf(d).mode
    BY DEF fat_write
  <1>2. PICK f \in Block, p \in Block, l \in Block :
           /\ f = fd_table[d] /\ p = heap[f].private_data /\ l = heap[p].fat_file
           /\ f # p /\ f # l /\ p # l
    BY <1>1, OpenFat
  <1>3. PICK file \in File, priv \in FatPrivate, fil \in FIL :
           /\ file = heap[f] /\ priv = heap[p] /\ fil = heap[l]
           /\ file = FileOf(d) /\ priv = PrivOf(d) /\ fil = FilOf(d)
           /\ Agree(file, priv, fil)
    BY <1>1, <1>2, OpenFat
  <1> DEFINE f2 == IF priv.append THEN Seek(fil, fil.objsize) ELSE fil
             put == IF f2.fptr + n <= DISK THEN n ELSE DISK - f2.fptr
             position == file.position + put
             end == f2.fptr + put
             file2 == [file EXCEPT !.position = position]
             priv2 == [priv EXCEPT !.size = IF position > @ THEN position ELSE @]
             fil2 == [Seek(f2, end) EXCEPT !.modified = TRUE]
  <1>4. /\ file2 \in File /\ priv2 \in FatPrivate /\ fil2 \in FIL
        /\ file2.name = file.name /\ file2.private_data = file.private_data
        /\ file2.driver = file.driver /\ priv2.fat_file = priv.fat_file
        /\ Agree(file2, priv2, fil2)
    BY <1>1, <1>3, WriteValues
  <1>5. heap \in [Block -> Content]
    BY <1>1, OpenFat
  <1>6. heap' = [heap EXCEPT ![l] = fil2, ![f] = file2, ![p] = priv2]
    <2>1. heap' = [heap EXCEPT ![l] = fil2, ![f].position = position,
                               ![p].size = IF position > @ THEN position ELSE @]
      BY <1>2, <1>3 DEF fat_write
    <2> HIDE DEF fil2, position
    <2> QED
      BY <1>2, <1>3, <1>5, <2>1
  <1> HIDE DEF file2, priv2, fil2
  <1>7. Changed(heap, heap', fd_table[d], file2, priv2, fil2)
    BY <1>2, <1>4, <1>5, <1>6, ThreeBlocks
  <1>8. Follows(heap, fd_table[d], file2, priv2, fil2)
    BY <1>2, <1>3, <1>4 DEF Follows
  <1>9. UNCHANGED <<fd_table, fd_count, disk, behind>>
    BY DEF fat_write
  <1> QED
    BY <1>1, <1>7, <1>8, <1>9, ChangeStep

\* A seek to a place inside the file takes both counts there; one past the end
\* is remembered.
LEMMA SeekStep ==
  ASSUME IInv, NEW d \in Fd, NEW offset \in Int, NEW whence \in {"SET", "CUR", "END"},
         fat_lseek(d, offset, whence)
  PROVE  IInv' /\ OthersKept(d)
  <1>1. IsFat(d)
    BY DEF fat_lseek
  <1>2. PICK f \in Block, p \in Block, l \in Block :
           /\ f = fd_table[d] /\ p = heap[f].private_data /\ l = heap[p].fat_file
           /\ f # p /\ f # l /\ p # l
    BY <1>1, OpenFat
  <1>3. PICK file \in File, priv \in FatPrivate, fil \in FIL :
           /\ file = heap[f] /\ priv = heap[p] /\ fil = heap[l]
           /\ file = FileOf(d) /\ priv = PrivOf(d) /\ fil = FilOf(d)
           /\ Agree(file, priv, fil)
    BY <1>1, <1>2, OpenFat
  <1>4. /\ fil.fptr \in Nat /\ fil.objsize \in Nat /\ priv.size \in Nat /\ file.position \in Nat
        /\ file.past \in BOOLEAN
    BY VfsAssumption DEF FIL, FatPrivate, File, Length
  <1>5. heap \in [Block -> Content]
    BY <1>1, OpenFat
  <1>6. PICK to \in Nat :
           heap' = [heap EXCEPT ![l] = Seek(@, to), ![f].position = to,
                                ![f].past = @ \/ to > fil.objsize]
    <2> DEFINE from == CASE whence = "SET" -> 0
                         [] whence = "CUR" -> fil.fptr
                         [] whence = "END" -> priv.size
    <2>1. from \in Nat
      <3>1. whence = "SET" => from = 0
        OBVIOUS
      <3>2. whence = "CUR" => from = fil.fptr
        OBVIOUS
      <3>3. whence = "END" => from = priv.size
        OBVIOUS
      <3> HIDE DEF from
      <3> QED
        BY <1>4, <3>1, <3>2, <3>3
    <2>2. heap' = [heap EXCEPT ![l] = Seek(@, offset + from), ![f].position = offset + from,
                               ![f].past = @ \/ offset + from > fil.objsize]
      BY <1>2, <1>3 DEF fat_lseek
    <2> HIDE DEF from
    <2>3. offset + from \in Nat
      <3>1. offset + from \in 0..SEEK_MAX
        BY <1>2, <1>3 DEF fat_lseek, from
      <3> QED
        BY <3>1, VfsAssumption
    <2> QED
      BY <2>2, <2>3
  <1> DEFINE file2 == [file EXCEPT !.position = to, !.past = file.past \/ to > fil.objsize]
             fil2 == Seek(fil, to)
  <1>7. /\ file2 \in File /\ file2.position = to /\ file2.past = (file.past \/ to > fil.objsize)
        /\ file2.name = file.name /\ file2.private_data = file.private_data
        /\ file2.driver = file.driver
    BY <1>4 DEF File
  <1>8. /\ fil2 \in FIL /\ fil2.fptr <= fil2.objsize
        /\ to <= fil.objsize => fil2.fptr = to /\ fil2.objsize = fil.objsize
    BY SeekTo
  <1>9. heap' = [heap EXCEPT ![l] = fil2, ![f] = file2, ![p] = priv]
    <2>1. heap' = [heap EXCEPT ![l] = fil2, ![f].position = to, ![f].past = @ \/ to > fil.objsize]
      BY <1>3, <1>5, <1>6
    <2> HIDE DEF fil2
    <2> QED
      BY <1>2, <1>3, <1>5, <2>1
  <1> HIDE DEF file2, fil2
  <1>10. Agree(file2, priv, fil2)
    <2>1. ~file2.past => ~file.past /\ ~(to > fil.objsize)
      BY <1>7, Zenon
    <2>2. ~(to > fil.objsize) => to <= fil.objsize
      BY <1>4
    <2> QED
      BY <1>3, <1>7, <1>8, <2>1, <2>2 DEF Agree
  <1>11. Changed(heap, heap', fd_table[d], file2, priv, fil2)
    BY <1>2, <1>5, <1>7, <1>8, <1>9, ThreeBlocks
  <1>12. Follows(heap, fd_table[d], file2, priv, fil2)
    BY <1>2, <1>3, <1>7, <1>8, <1>10 DEF Follows
  <1>13. UNCHANGED <<fd_table, fd_count, disk, behind>>
    BY DEF fat_lseek
  <1> QED
    BY <1>1, <1>11, <1>12, <1>13, ChangeStep

\* A read and a seek of a /proc file end inside its text.
LEMMA ProcSteps ==
  ASSUME IInv, NEW d \in Fd,
         \/ \E n \in Nat : proc_read(d, n)
         \/ \E offset \in Int, whence \in {"SET", "CUR", "END"} : proc_lseek(d, offset, whence)
  PROVE  IInv' /\ OthersKept(d)
  <1>1. IsProc(d) /\ UNCHANGED <<fd_table, fd_count, disk, behind>>
    BY DEF proc_read, proc_lseek
  <1>2. PROC_SIZE \in Nat
    BY VfsAssumption
  <1>3. PrivOf(d).position \in 0..PROC_SIZE
    <2>1. Hangs(heap, fd_table[d]) /\ heap[fd_table[d]].driver = "proc"
      BY <1>1 DEF IInv, IsProc, FileOf, Open
    <2> QED
      BY <2>1 DEF Hangs, ProcData, PrivOf, FileOf
  <1>4. PICK to \in 0..PROC_SIZE :
           heap' = [heap EXCEPT ![FileOf(d).private_data].position = to, ![fd_table[d]].position = to]
    <2>1. CASE \E n \in Nat : proc_read(d, n)
      <3>1. PICK n \in Nat : proc_read(d, n)
        BY <2>1
      <3> DEFINE k == PrivOf(d).position + (IF n < PROC_SIZE - PrivOf(d).position THEN n
                                            ELSE PROC_SIZE - PrivOf(d).position)
      <3>2. heap' = [heap EXCEPT ![FileOf(d).private_data].position = k, ![fd_table[d]].position = k]
        BY <3>1 DEF proc_read
      <3>3. k \in 0..PROC_SIZE
        BY <1>2, <1>3
      <3> HIDE DEF k
      <3> QED
        BY <3>2, <3>3
    <2>2. CASE \E offset \in Int, whence \in {"SET", "CUR", "END"} : proc_lseek(d, offset, whence)
      <3>1. PICK offset \in Int, whence \in {"SET", "CUR", "END"} : proc_lseek(d, offset, whence)
        BY <2>2
      <3> DEFINE new_pos == offset + (CASE whence = "SET" -> 0
                                        [] whence = "CUR" -> PrivOf(d).position
                                        [] whence = "END" -> PROC_SIZE)
                 k == IF new_pos \in 0..PROC_SIZE THEN new_pos ELSE PROC_SIZE
      <3>2. heap' = [heap EXCEPT ![FileOf(d).private_data].position = k, ![fd_table[d]].position = k]
        BY <3>1 DEF proc_lseek
      <3> HIDE DEF new_pos
      <3>3. k \in 0..PROC_SIZE
        BY <1>2
      <3> HIDE DEF k
      <3> QED
        BY <3>2, <3>3
    <2> QED
      BY <2>1, <2>2
  <1> QED
    BY <1>1, <1>4, MoveStep

-----------------------------------------------------------------------------
(* The account of the blocks, block by block.                              *)

LEMMA Account ==
  ASSUME NothingLost
  PROVE  \A b \in Block : heap[b] # FREE <=>
            b \in behind \/ \E c \in Open : b \in OwnedIn(heap, fd_table[c])
  <1> SUFFICES ASSUME NEW b \in Block
               PROVE  b \in {x \in Block : heap[x] # FREE} <=>
                         b \in behind \/ \E c \in Open : b \in Owned(c)
    BY OwnedIs
  <1> QED
    BY DEF NothingLost

LEMMA AccountNext ==
  ASSUME behind' \subseteq Block,
         \A c \in Open' : OwnedIn(heap', fd_table'[c]) \subseteq Block,
         \A b \in Block : heap'[b] # FREE <=>
            b \in behind' \/ \E c \in Open' : b \in OwnedIn(heap', fd_table'[c]),
         \A c, e \in Open' : c # e => OwnedIn(heap', fd_table'[c]) \cap OwnedIn(heap', fd_table'[e]) = {},
         \A c \in Open' : OwnedIn(heap', fd_table'[c]) \cap behind' = {}
  PROVE  NothingLost'
  <1>1. \A c \in Open' : Owned(c)' \subseteq Block
    BY OwnedIs
  <1>2. \A b \in Block : heap'[b] # FREE <=> b \in behind' \/ \E c \in Open' : b \in Owned(c)'
    BY OwnedIs
  <1>3. {b \in Block : heap'[b] # FREE} = behind' \cup UNION {Owned(c)' : c \in Open'}
    BY <1>1, <1>2
  <1>4. /\ \A c, e \in Open' : c # e => Owned(c)' \cap Owned(e)' = {}
        /\ \A c \in Open' : Owned(c)' \cap behind' = {}
    BY OwnedIs
  <1> QED
    BY <1>3, <1>4 DEF NothingLost

\* A close frees the blocks of its descriptor and no others.
LEMMA CloseStep ==
  ASSUME IInv, NEW d \in Fd, vfs_close(d)
  PROVE  IInv' /\ OthersKept(d)
  <1> DEFINE f == fd_table[d]
             mine == OwnedIn(heap, f)
  <1>1. /\ d \in Open /\ heap \in [Block -> Content] /\ Hangs(heap, f)
        /\ TypeOK /\ NothingLost /\ IsFiniteSet(Open)
        /\ \A c \in Open : Hangs(heap, fd_table[c]) /\ Sized(heap, fd_table[c])
    BY DEF vfs_close, IInv, Open
  <1>2. /\ fd_table' = [fd_table EXCEPT ![d] = NULL] /\ fd_count' = fd_count - 1
        /\ behind' = behind
    BY DEF vfs_close, kfree_fd
  <1>3. Open' = Open \ {d} /\ \A c \in Open' : fd_table'[c] = fd_table[c]
    BY <1>1, <1>2 DEF TypeOK, Open
  <1>4. heap' = [b \in Block |-> IF b \in mine THEN FREE ELSE heap[b]]
    <2>1. heap' = kfree(heap, Blocks(heap, f) \cup {heap[f].name, f})
      BY DEF vfs_close, FileOf
    <2>2. \A b \in Block : b \in Blocks(heap, f) \cup {heap[f].name, f} <=> b \in mine
      BY BlockType DEF OwnedIn
    <2> HIDE DEF mine
    <2> QED
      BY <2>1, <2>2 DEF kfree
  <1>5. heap' \in [Block -> Content]
    BY <1>1, <1>4 DEF Content
  <1>6. ASSUME NEW c \in Open'
        PROVE  /\ Hangs(heap', fd_table'[c]) /\ Sized(heap', fd_table'[c])
               /\ OwnedIn(heap', fd_table'[c]) = OwnedIn(heap, fd_table[c])
               /\ OwnedIn(heap, fd_table[c]) \subseteq Block
               /\ OwnedIn(heap, fd_table[c]) \cap mine = {}
               /\ \A b \in OwnedIn(heap, fd_table[c]) : heap'[b] = heap[b]
    <2>1. c \in Open /\ c # d /\ fd_table'[c] = fd_table[c]
      BY <1>3
    <2>2. OwnedIn(heap, fd_table[c]) \cap mine = {}
      BY <1>1, <2>1, OwnedIs DEF NothingLost
    <2>3. OwnedIn(heap, fd_table[c]) \subseteq Block
      BY <1>1, <2>1, OwnedBlocks
    <2> HIDE DEF mine
    <2>4. \A b \in OwnedIn(heap, fd_table[c]) : heap'[b] = heap[b]
      BY <1>4, <2>2, <2>3
    <2>5. /\ Hangs(heap', fd_table[c]) /\ Sized(heap', fd_table[c])
          /\ OwnedIn(heap', fd_table[c]) = OwnedIn(heap, fd_table[c])
      BY <1>1, <2>1, <2>4, Frame
    <2> QED
      BY <2>1, <2>2, <2>3, <2>4, <2>5
  <1>7. NothingLost'
    <2>1. behind' \subseteq Block
      BY <1>1, <1>2 DEF TypeOK
    <2>2. /\ mine \cap behind = {}
          /\ \A c, e \in Open : c # e => OwnedIn(heap, fd_table[c]) \cap OwnedIn(heap, fd_table[e]) = {}
          /\ \A c \in Open : OwnedIn(heap, fd_table[c]) \cap behind = {}
      BY <1>1, OwnedIs DEF NothingLost
    <2>3. \A b \in Block : heap[b] # FREE <=>
             b \in behind \/ \E c \in Open : b \in OwnedIn(heap, fd_table[c])
      BY <1>1, Account
    <2>4. \A b \in Block : heap'[b] # FREE <=> heap[b] # FREE /\ b \notin mine
      BY <1>4
    <2>5. d \in Open /\ mine = OwnedIn(heap, fd_table[d])
      BY <1>1
    <2> HIDE DEF mine
    <2>6. \A b \in Block : heap'[b] # FREE <=>
             b \in behind \/ \E c \in Open' : b \in OwnedIn(heap, fd_table[c])
      <3> SUFFICES ASSUME NEW b \in Block
                   PROVE  heap'[b] # FREE <=>
                            b \in behind \/ \E c \in Open' : b \in OwnedIn(heap, fd_table[c])
        OBVIOUS
      <3>1. heap'[b] # FREE <=> (b \in behind \/ \E c \in Open : b \in OwnedIn(heap, fd_table[c])) /\ b \notin mine
        BY <2>3, <2>4
      <3>2. b \in behind => b \notin mine
        BY <2>2
      <3>3. \A c \in Open : b \in OwnedIn(heap, fd_table[c]) /\ b \notin mine => c \in Open'
        BY <1>3, <2>5
      <3>4. \A c \in Open' : c \in Open /\ (b \in OwnedIn(heap, fd_table[c]) => b \notin mine)
        BY <1>3, <1>6
      <3> QED
        BY <3>1, <3>2, <3>3, <3>4
    <2>7. \A b \in Block : heap'[b] # FREE <=>
             b \in behind' \/ \E c \in Open' : b \in OwnedIn(heap', fd_table'[c])
      BY <1>2, <1>6, <2>6
    <2>8. /\ \A c \in Open' : OwnedIn(heap', fd_table'[c]) \subseteq Block
          /\ \A c \in Open' : OwnedIn(heap', fd_table'[c]) \cap behind' = {}
      BY <1>2, <1>3, <1>6, <2>2
    <2>9. \A c, e \in Open' : c # e => OwnedIn(heap', fd_table'[c]) \cap OwnedIn(heap', fd_table'[e]) = {}
      BY <1>3, <1>6, <2>2
    <2> QED
      BY <2>1, <2>7, <2>8, <2>9, AccountNext
  <1>8. IsFiniteSet(Open') /\ Cardinality(Open') = Cardinality(Open) - 1
    BY <1>1, <1>3, FS_RemoveElement
  <1>9. TypeOK'
    <2>1. fd_table' \in [Fd -> Pointer] /\ fd_count' = Cardinality(Open')
      BY <1>1, <1>2, <1>8 DEF TypeOK, Pointer
    <2>2. disk' \in [Fat -> {NULL} \cup Length]
      <3>1. disk \in [Fat -> {NULL} \cup Length]
        BY <1>1 DEF TypeOK
      <3>2. CASE IsFat(d) /\ FilOf(d).modified
        <4>1. FilOf(d) \in FIL
          BY <3>2, OpenFat
        <4>2. FilOf(d).objsize \in Length
          BY <4>1 DEF FIL
        <4>3. disk' = [disk EXCEPT ![FilOf(d).path] = FilOf(d).objsize]
          BY <3>2 DEF vfs_close
        <4> QED
          BY <3>1, <4>2, <4>3
      <3>3. CASE ~(IsFat(d) /\ FilOf(d).modified)
        BY <3>1, <3>3 DEF vfs_close
      <3> QED
        BY <3>2, <3>3
    <2>3. DOMAIN heap' = Block /\ \A b \in Block : heap'[b] \in Content
      BY <1>5
    <2>4. behind' \subseteq Block
      BY <1>1, <1>2 DEF TypeOK
    <2> QED
      BY <2>1, <2>2, <2>3, <2>4 DEF TypeOK
  <1>10. OthersKept(d)
    BY <1>3, <1>6, OwnedIs DEF OthersKept
  <1> QED
    BY <1>5, <1>6, <1>7, <1>8, <1>9, <1>10 DEF IInv

-----------------------------------------------------------------------------
(* Opening.                                                                *)

\* A block that kmalloc may return for this heap.
Free(h, b) == b = NULL \/ (b \in Block /\ h[b] = FREE)

LEMMA KMallocFree == ASSUME NEW h PROVE Free(h, kmalloc(h))
  <1> DEFINE free == {b \in Block : h[b] = FREE}
  <1>1. CASE free = {}
    BY <1>1 DEF kmalloc, Free
  <1>2. CASE free # {}
    <2>1. free \subseteq Nat
      BY BlockType
    <2>2. Lowest(free) \in free
      BY <1>2, <2>1, LeastElement
    <2> QED
      BY <1>2, <2>2 DEF kmalloc, Free
  <1> QED
    BY <1>1, <1>2

\* The heap g is h with r in the block b, if there is a block.
Filled(h, g, b, r) ==
  /\ g \in [Block -> Content]
  /\ b = NULL => g = h
  /\ b # NULL => b \in Block /\ h[b] = FREE /\ g[b] = r
  /\ \A x \in Block : x # b => g[x] = h[x]

LEMMA PutFills ==
  ASSUME NEW h \in [Block -> Content], NEW b, Free(h, b), NEW r \in Content
  PROVE  Filled(h, Put(h, b, r), b, r)
  <1>1. CASE b = NULL
    BY <1>1, BlockType DEF Put, Filled
  <1>2. CASE b # NULL
    <2>1. b \in Block /\ h[b] = FREE /\ Put(h, b, r) = [h EXCEPT ![b] = r]
      BY <1>2 DEF Free, Put
    <2> QED
      BY <1>2, <2>1 DEF Filled
  <1> QED
    BY <1>1, <1>2

\* What a driver's open promises when it succeeds: which blocks it took, and
\* what it put there.
OpenedFat(h, g, p) ==
  \E l \in Block :
    /\ p \in Block /\ l # p /\ h[p] = FREE /\ h[l] = FREE
    /\ g[p] \in FatPrivate /\ g[p].fat_file = l /\ g[l] \in FIL
    /\ g[l].fptr <= g[l].objsize
    /\ ~g[p].append => g[l].fptr = 0 /\ g[p].size = g[l].objsize
    /\ \A b \in Block \ {p, l} : g[b] = h[b]

OpenedProc(h, g, p) ==
  \E t \in Pointer :
    /\ p \in Block /\ h[p] = FREE /\ g[p] \in ProcData /\ g[p].data = t
    /\ t # NULL => t # p /\ h[t] = FREE /\ g[t] = Text
    /\ \A b \in Block \ {p, t} : g[b] = h[b]

\* What it promises in any case: it leaves alone what is in use; and when it
\* fails, at whatever stage, it has given back every block it took.
Opened(h, o, driver) ==
  /\ o.heap \in [Block -> Content] /\ o.disk \in [Fat -> {NULL} \cup Length]
  /\ \A b \in Block : h[b] # FREE => o.heap[b] = h[b]
  /\ ~o.ok => o.heap = h
  /\ o.ok =>
       /\ driver = "fat" => OpenedFat(h, o.heap, o.priv)
       /\ driver = "proc" => OpenedProc(h, o.heap, o.priv)
       /\ driver = "dev" => o.priv = NULL /\ o.heap = h

LEMMA FatOpens ==
  ASSUME NEW h \in [Block -> Content], NEW path \in Fat, NEW flags \in Flags,
         disk \in [Fat -> {NULL} \cup Length]
  PROVE  Opened(h, fat_open(h, path, flags), "fat")
  <1> DEFINE fil == kmalloc(h)
             size == IF disk[path] = NULL \/ "CREAT" \in flags THEN 0 ELSE disk[path]
             r1 == [kind |-> "FIL", path |-> path, mode |-> flags, modified |-> disk[path] # size,
                    fptr |-> IF "APPEND" \in flags THEN size ELSE 0, objsize |-> size]
             h1 == Put(h, fil, r1)
             priv == kmalloc(h1)
             r2 == [kind |-> "FatPrivate", fat_file |-> fil,
                    append |-> "APPEND" \in flags, size |-> size]
             h2 == Put(h1, priv, r2)
             opened == [disk EXCEPT ![path] = size]
             o == fat_open(h, path, flags)
  <1>1. size \in Length /\ size \in Nat /\ 0 \in Length
    BY VfsAssumption DEF Length
  <1>2. opened \in [Fat -> {NULL} \cup Length]
    BY <1>1
  <1>3. r1 \in FIL /\ r1.objsize = size /\ r1.fptr = IF "APPEND" \in flags THEN size ELSE 0
    BY <1>1 DEF FIL
  <1>4. Free(h, fil) /\ Free(h1, priv)
    BY KMallocFree
  <1>5. Filled(h, h1, fil, r1)
    <2>1. r1 \in Content
      BY <1>3 DEF Content
    <2> HIDE DEF r1, fil
    <2> QED
      BY <1>4, <2>1, PutFills
  <1>6. CASE fil = NULL
    <2>1. o = Failed(h)
      BY <1>6 DEF fat_open
    <2> HIDE DEF o
    <2> QED
      BY <2>1 DEF Opened, Failed, o
  <1> DEFINE missing == disk[path] = NULL /\ flags \cap {"CREAT", "APPEND"} = {}
  <1>7. CASE fil # NULL /\ (missing \/ priv = NULL)
    <2>1. kfree(h1, {fil}) = h
      <3> HIDE DEF fil, h1, r1
      <3>1. h1 \in [Block -> Content] /\ h[fil] = FREE /\ \A b \in Block : b # fil => h1[b] = h[b]
        BY <1>5, <1>7 DEF Filled
      <3>2. \A b \in Block : (IF b \in {fil} THEN FREE ELSE h1[b]) = h[b]
        BY <3>1
      <3> QED
        BY <3>2 DEF kfree
    <2>2. CASE missing
      <3>1. o = Failed(kfree(h1, {fil}))
        BY <1>7, <2>2 DEF fat_open
      <3> HIDE DEF o, h1, fil
      <3> QED
        BY <2>1, <3>1 DEF Opened, Failed, o
    <2>3. CASE ~missing
      <3>1. o = [Failed(kfree(h1, {fil})) EXCEPT !.disk = opened]
        BY <1>7, <2>3 DEF fat_open
      <3> HIDE DEF h1, fil
      <3>2. o.ok = FALSE /\ o.heap = h /\ o.disk = opened
        BY <2>1, <3>1 DEF Failed
      <3> HIDE DEF o, opened
      <3> QED
        BY <1>2, <3>2 DEF Opened, o
    <2> QED
      BY <2>2, <2>3
  <1>8. CASE fil # NULL /\ ~missing /\ priv # NULL
    <2>1. o = [ok |-> TRUE, disk |-> opened, priv |-> priv, heap |-> h2]
      BY <1>8 DEF fat_open
    <2>2. o.heap = h2 /\ o.disk = opened /\ o.priv = priv /\ o.ok
      BY <2>1
    <2>3. r2 \in FatPrivate /\ r2.fat_file = fil /\ r2.append = ("APPEND" \in flags) /\ r2.size = size
      <3>1. fil \in Block
        BY <1>4, <1>8 DEF Free
      <3> QED
        BY <1>1, <3>1 DEF FatPrivate
    <2>4. fil # NULL
      BY <1>8
    <2> HIDE DEF r1, r2, fil, h1, priv, size, opened
    <2>5. Filled(h1, h2, priv, r2)
      <3>1. r2 \in Content /\ h1 \in [Block -> Content]
        BY <1>5, <2>3 DEF Content, Filled
      <3> QED
        BY <1>4, <3>1, PutFills
    <2> HIDE DEF h2
    <2>6. /\ fil \in Block /\ h[fil] = FREE /\ h1[fil] = r1
          /\ priv \in Block /\ h1[priv] = FREE /\ h2[priv] = r2
          /\ \A b \in Block \ {fil} : h1[b] = h[b]
          /\ \A b \in Block \ {priv} : h2[b] = h1[b]
          /\ h2 \in [Block -> Content]
      BY <1>5, <1>8, <2>4, <2>5 DEF Filled
    <2>7. r1 # FREE
      BY <1>3, Kinds
    <2>8. priv # fil /\ h[priv] = FREE /\ h2[fil] = r1
      BY <2>6, <2>7
    <2>9. OpenedFat(h, h2, priv)
      <3>1. r1.fptr <= r1.objsize
        BY <1>1, <1>3
      <3>2. ~r2.append => r1.fptr = 0 /\ r2.size = r1.objsize
        BY <1>3, <2>3
      <3> QED
        BY <1>3, <2>3, <2>6, <2>8, <3>1, <3>2 DEF OpenedFat
    <2>10. \A b \in Block : h[b] # FREE => h2[b] = h[b]
      BY <2>6, <2>8
    <2> HIDE DEF o
    <2> QED
      BY <1>2, <2>2, <2>6, <2>9, <2>10 DEF Opened, o
  <1> QED
    BY <1>6, <1>7, <1>8

LEMMA ProcOpens ==
  ASSUME NEW h \in [Block -> Content], disk \in [Fat -> {NULL} \cup Length]
  PROVE  Opened(h, proc_open(h), "proc")
  <1> DEFINE data == kmalloc(h)
             text == kmalloc(Put(h, data, Text))
             r == [kind |-> "ProcData", data |-> text, position |-> 0]
             h1 == Put(h, data, r)
             h2 == Put(h1, text, Text)
             o == proc_open(h)
  <1>1. Free(h, data) /\ Free(Put(h, data, Text), text)
    BY KMallocFree
  <1>2. CASE data = NULL
    <2>1. o = Failed(h)
      BY <1>2 DEF proc_open
    <2> HIDE DEF o
    <2> QED
      BY <2>1 DEF Opened, Failed, o
  <1>3. CASE data # NULL
    <2>1. o = [ok |-> TRUE, disk |-> disk, priv |-> data, heap |-> h2]
      BY <1>3 DEF proc_open
    <2>2. o.heap = h2 /\ o.disk = disk /\ o.priv = data /\ o.ok
      BY <2>1
    <2>3. Text \in Content /\ Text # FREE
      BY Kinds DEF Content
    <2>4. r \in ProcData /\ r.data = text /\ text \in Pointer
      BY <1>1, VfsAssumption DEF ProcData, Free, Pointer
    <2>5. Filled(h, Put(h, data, Text), data, Text)
      <3> HIDE DEF data
      <3> QED
        BY <1>1, <2>3, PutFills
    <2>6. Filled(h, h1, data, r)
      <3>1. r \in Content
        BY <2>4 DEF Content
      <3> HIDE DEF data, r
      <3> QED
        BY <1>1, <3>1, PutFills
    <2> HIDE DEF data, text, r, h1
    <2>7. text # NULL => text \in Block /\ text # data /\ h[text] = FREE
      BY <1>1, <1>3, <2>3, <2>5 DEF Filled, Free
    <2>8. Free(h1, text) /\ h1 \in [Block -> Content]
      BY <2>6, <2>7 DEF Filled, Free
    <2>9. Filled(h1, h2, text, Text)
      BY <2>3, <2>8, PutFills
    <2> HIDE DEF h2
    <2>10. /\ data \in Block /\ h[data] = FREE /\ h1[data] = r
           /\ \A b \in Block : b # data => h1[b] = h[b]
           /\ h2 \in [Block -> Content] /\ \A b \in Block : b # text => h2[b] = h1[b]
           /\ text # NULL => h2[text] = Text
      BY <1>3, <2>6, <2>9 DEF Filled
    <2>11. h2[data] = r
      BY <2>7, <2>10, BlockType
    <2>12. OpenedProc(h, h2, data)
      BY <2>4, <2>7, <2>10, <2>11 DEF OpenedProc
    <2>13. \A b \in Block : h[b] # FREE => h2[b] = h[b]
      BY <2>7, <2>10, BlockType
    <2> HIDE DEF o
    <2> QED
      BY <2>2, <2>10, <2>12, <2>13 DEF Opened, o
  <1> QED
    BY <1>2, <1>3

LEMMA DriverOpens ==
  ASSUME NEW h \in [Block -> Content], NEW path, NEW flags \in Flags,
         disk \in [Fat -> {NULL} \cup Length]
  PROVE  Opened(h, driver_open(h, path, flags), Driver(path))
  <1>1. CASE Driver(path) = "fat"
    <2>1. path \in Fat
      BY <1>1 DEF Driver
    <2>2. driver_open(h, path, flags) = fat_open(h, path, flags)
      BY <1>1 DEF driver_open
    <2> QED
      BY <1>1, <2>1, <2>2, FatOpens
  <1>2. CASE Driver(path) = "proc"
    <2>1. driver_open(h, path, flags) = proc_open(h)
      BY <1>2 DEF driver_open
    <2> QED
      BY <1>2, <2>1, ProcOpens
  <1>3. CASE Driver(path) = "dev"
    <2>1. driver_open(h, path, flags) = dev_open(h)
      BY <1>3 DEF driver_open
    <2>2. Opened(h, dev_open(h), "dev")
      BY DEF Opened, dev_open
    <2> QED
      BY <1>3, <2>1, <2>2
  <1> QED
    BY <1>1, <1>2, <1>3 DEF Driver

\* The heap h2 is h with a File block and a name, and g what the driver's open
\* made of h2.
Taken(h, h2, g, f, name, p, driver) ==
  /\ h[f] = FREE /\ h2[f] # FREE
  /\ name # NULL => name # f /\ h[name] = FREE /\ h2[name] = Text
  /\ \A b \in Block \ {f, name} : h2[b] = h[b]
  /\ \A b \in Block : h2[b] # FREE => g[b] = h2[b]
  /\ driver = "fat" => OpenedFat(h2, g, p)
  /\ driver = "proc" => OpenedProc(h2, g, p)
  /\ driver = "dev" => p = NULL /\ g = h2

\* The heap g2 is g with the File block as vfs_open completes it.
Completed(g, g2, f, file, name, p, driver) ==
  /\ g2 = [g EXCEPT ![f] = file]
  /\ file \in File /\ file.name = name /\ file.private_data = p /\ file.driver = driver
  /\ file.position = 0 /\ file.past = FALSE

\* The heap g has a new file f: all that was in use is as it was in h, and what
\* is now in use besides hangs on f.
Hung(h, g, f) ==
  /\ g \in [Block -> Content]
  /\ Hangs(g, f) /\ Sized(g, f)
  /\ OwnedIn(g, f) \subseteq {b \in Block : h[b] = FREE}
  /\ \A b \in Block : g[b] # FREE <=> h[b] # FREE \/ b \in OwnedIn(g, f)
  /\ \A b \in Block : h[b] # FREE => g[b] = h[b]

\* In the end exactly the blocks that were free before are the new descriptor's.
LEMMA NewFile ==
  ASSUME NEW h \in [Block -> Content], NEW h2 \in [Block -> Content], NEW g \in [Block -> Content],
         NEW f \in Block, NEW name \in Pointer, NEW p, NEW driver \in {"fat", "proc", "dev"},
         NEW file, NEW g2,
         Taken(h, h2, g, f, name, p, driver), Completed(g, g2, f, file, name, p, driver)
  PROVE  Hung(h, g2, f)
  <1> USE DEF Taken, Completed, Hung
  <1>1. g2 \in [Block -> Content] /\ g2[f] = file /\ \A b \in Block \ {f} : g2[b] = g[b]
    BY DEF Content
  <1>2. file # FREE /\ Text # FREE
    BY Kinds
  <1>3. name # NULL => name \in Block /\ g2[name] = Text
    BY <1>1, <1>2 DEF Pointer
  <1>4. \A b \in Block : h[b] # FREE => b # f /\ b # name /\ h2[b] = h[b] /\ g2[b] = h[b]
    BY <1>1, BlockType
  <1>5. f # NULL
    BY BlockType
  <1>6. CASE driver = "fat"
    <2>1. PICK l \in Block :
            /\ p \in Block /\ l # p /\ h2[p] = FREE /\ h2[l] = FREE
            /\ g[p] \in FatPrivate /\ g[p].fat_file = l /\ g[l] \in FIL
            /\ g[l].fptr <= g[l].objsize
            /\ ~g[p].append => g[l].fptr = 0 /\ g[p].size = g[l].objsize
            /\ \A b \in Block \ {p, l} : g[b] = h2[b]
      BY <1>6 DEF OpenedFat
    <2>2. p # f /\ l # f /\ p # name /\ l # name /\ h[p] = FREE /\ h[l] = FREE
      BY <1>2, <2>1, BlockType
    <2>3. g2[p] = g[p] /\ g2[l] = g[l]
      BY <1>1, <2>1, <2>2
    <2>4. g[p] # FREE /\ g[l] # FREE
      BY <2>1, Kinds
    <2>5. Hangs(g2, f)
      BY <1>1, <1>3, <1>6, <2>1, <2>3 DEF Hangs
    <2>6. Sized(g2, f)
      BY <1>1, <2>1, <2>3 DEF Sized, Agree
    <2>7. OwnedIn(g2, f) = {f, p, l, name} \ {NULL}
      <3>1. g2[f].driver = "fat" /\ g2[f].private_data = p /\ g2[p].fat_file = l /\ g2[f].name = name
        BY <1>1, <1>6, <2>1, <2>3
      <3> QED
        BY <3>1 DEF OwnedIn, Blocks
    <2>8. \A b \in Block : g2[b] # FREE <=> h[b] # FREE \/ b \in {f, p, l, name} \ {NULL}
      <3>1. \A b \in {f, p, l, name} \ {NULL} : g2[b] # FREE
        BY <1>1, <1>2, <1>3, <2>3, <2>4
      <3>2. \A b \in Block \ {f, p, l, name} : g2[b] = h[b]
        BY <1>1, <2>1
      <3> QED
        BY <1>4, <3>1, <3>2, BlockType
    <2> QED
      BY <1>1, <1>3, <1>4, <2>1, <2>2, <2>5, <2>6, <2>7, <2>8
  <1>7. CASE driver = "proc"
    <2>1. PICK t \in Pointer :
            /\ p \in Block /\ h2[p] = FREE /\ g[p] \in ProcData /\ g[p].data = t
            /\ t # NULL => t # p /\ h2[t] = FREE /\ g[t] = Text
            /\ \A b \in Block \ {p, t} : g[b] = h2[b]
      BY <1>7 DEF OpenedProc
    <2>2. p # f /\ p # name /\ h[p] = FREE
      BY <1>2, <2>1, BlockType
    <2>3. t # NULL => t \in Block /\ t # f /\ t # name /\ h[t] = FREE
      BY <1>2, <2>1, BlockType DEF Pointer
    <2>4. g2[p] = g[p] /\ (t # NULL => g2[t] = Text)
      BY <1>1, <2>1, <2>2, <2>3
    <2>5. g[p] # FREE
      BY <2>1, Kinds
    <2>6. Hangs(g2, f)
      BY <1>1, <1>3, <1>7, <2>1, <2>4 DEF Hangs
    <2>7. Sized(g2, f)
      BY <1>1, <1>7 DEF Sized
    <2>8. OwnedIn(g2, f) = {f, p, t, name} \ {NULL}
      <3>1. g2[f].driver = "proc" /\ g2[f].private_data = p /\ g2[p].data = t /\ g2[f].name = name
        BY <1>1, <1>7, <2>1, <2>4
      <3> QED
        BY <3>1 DEF OwnedIn, Blocks
    <2>9. \A b \in Block : g2[b] # FREE <=> h[b] # FREE \/ b \in {f, p, t, name} \ {NULL}
      <3>1. \A b \in {f, p, t, name} \ {NULL} : g2[b] # FREE
        BY <1>1, <1>2, <1>3, <2>4, <2>5
      <3>2. \A b \in Block \ {f, p, t, name} : g2[b] = h[b]
        BY <1>1, <2>1
      <3> QED
        BY <1>4, <3>1, <3>2, BlockType
    <2> QED
      BY <1>1, <1>3, <1>4, <2>1, <2>2, <2>3, <2>6, <2>7, <2>8, <2>9
  <1>8. CASE driver = "dev"
    <2>1. p = NULL /\ g = h2
      BY <1>8
    <2>2. Hangs(g2, f)
      BY <1>1, <1>3, <1>8, <2>1 DEF Hangs
    <2>3. Sized(g2, f)
      BY <1>1, <1>8 DEF Sized
    <2>4. OwnedIn(g2, f) = {f, name} \ {NULL}
      <3>1. g2[f].driver = "dev" /\ g2[f].private_data = NULL /\ g2[f].name = name
        BY <1>1, <1>8, <2>1
      <3> QED
        BY <3>1 DEF OwnedIn, Blocks
    <2>5. \A b \in Block : g2[b] # FREE <=> h[b] # FREE \/ b \in {f, name} \ {NULL}
      <3>1. \A b \in {f, name} \ {NULL} : g2[b] # FREE
        BY <1>1, <1>2, <1>3
      <3>2. \A b \in Block \ {f, name} : g2[b] = h[b]
        BY <1>1, <2>1
      <3> QED
        BY <1>4, <3>1, <3>2, BlockType
    <2> QED
      BY <1>1, <1>3, <1>4, <2>2, <2>3, <2>4, <2>5
  <1> QED
    BY <1>6, <1>7, <1>8

\* What a driver has opened when no descriptor is free is left behind; of an open
\* that fails (B is empty) nothing is.
LEMMA OpenFails ==
  ASSUME IInv, heap' \in [Block -> Content], disk' \in [Fat -> {NULL} \cup Length],
         \A b \in Block : heap[b] # FREE => heap'[b] = heap[b],
         NEW B, B = {b \in Block : heap[b] = FREE /\ heap'[b] # FREE}, behind' = behind \cup B,
         UNCHANGED <<fd_table, fd_count>>
  PROVE  IInv' /\ OthersKept(NULL)
  <1>1. /\ heap \in [Block -> Content] /\ TypeOK /\ NothingLost /\ IsFiniteSet(Open)
        /\ \A c \in Open : Hangs(heap, fd_table[c]) /\ Sized(heap, fd_table[c])
    BY DEF IInv
  <1>2. Open' = Open
    BY DEF Open
  <1>3. \A b \in Block : heap[b] # FREE <=>
           b \in behind \/ \E c \in Open : b \in OwnedIn(heap, fd_table[c])
    BY <1>1, Account
  <1>4. ASSUME NEW c \in Open
        PROVE  /\ Hangs(heap', fd_table[c]) /\ Sized(heap', fd_table[c])
               /\ OwnedIn(heap', fd_table[c]) = OwnedIn(heap, fd_table[c])
               /\ OwnedIn(heap, fd_table[c]) \subseteq Block
               /\ \A b \in OwnedIn(heap, fd_table[c]) : heap[b] # FREE /\ heap'[b] = heap[b]
    <2>1. OwnedIn(heap, fd_table[c]) \subseteq Block
      BY <1>1, OwnedBlocks
    <2>2. \A b \in OwnedIn(heap, fd_table[c]) : heap[b] # FREE
      BY <1>3, <2>1
    <2>3. \A b \in OwnedIn(heap, fd_table[c]) : heap'[b] = heap[b]
      BY <2>1, <2>2
    <2> QED
      BY <1>1, <2>1, <2>2, <2>3, Frame
  <1>5. NothingLost'
    <2>1. behind \subseteq Block /\ behind' \subseteq Block
      BY <1>1 DEF TypeOK
    <2>2. \A b \in Block : heap'[b] # FREE <=> heap[b] # FREE \/ b \in behind'
      BY <1>3
    <2>3. \A b \in Block : heap'[b] # FREE <=>
             b \in behind' \/ \E c \in Open' : b \in OwnedIn(heap', fd_table'[c])
      BY <1>2, <1>3, <1>4, <2>2
    <2>4. /\ \A c \in Open : OwnedIn(heap, fd_table[c]) \cap behind = {}
          /\ \A c, e \in Open : c # e => OwnedIn(heap, fd_table[c]) \cap OwnedIn(heap, fd_table[e]) = {}
      BY <1>1, OwnedIs DEF NothingLost
    <2>5. \A c \in Open' : OwnedIn(heap', fd_table'[c]) \cap behind' = {}
      BY <1>2, <1>4, <2>4
    <2>6. \A c, e \in Open' : c # e => OwnedIn(heap', fd_table'[c]) \cap OwnedIn(heap', fd_table'[e]) = {}
      BY <1>2, <1>4, <2>4
    <2>7. \A c \in Open' : OwnedIn(heap', fd_table'[c]) \subseteq Block
      BY <1>2, <1>4
    <2> QED
      BY <2>1, <2>3, <2>5, <2>6, <2>7, AccountNext
  <1>6. TypeOK'
    <2>1. behind' \subseteq Block /\ DOMAIN heap' = Block /\ \A b \in Block : heap'[b] \in Content
      BY <1>1 DEF TypeOK
    <2> QED
      BY <1>1, <1>2, <2>1 DEF TypeOK
  <1>7. OthersKept(NULL)
    BY <1>2, <1>4, OwnedIs DEF OthersKept
  <1> QED
    BY <1>1, <1>2, <1>4, <1>5, <1>6, <1>7 DEF IInv

\* An open that succeeds gives a free descriptor blocks that were free.
LEMMA OpenSucceeds ==
  ASSUME IInv, heap' \in [Block -> Content], disk' \in [Fat -> {NULL} \cup Length],
         NEW d \in Fd, NEW f \in Block, fd_table[d] = NULL,
         Hangs(heap', f), Sized(heap', f),
         OwnedIn(heap', f) \subseteq {b \in Block : heap[b] = FREE},
         \A b \in Block : heap'[b] # FREE <=> heap[b] # FREE \/ b \in OwnedIn(heap', f),
         \A b \in Block : heap[b] # FREE => heap'[b] = heap[b],
         fd_table' = [fd_table EXCEPT ![d] = f], fd_count' = fd_count + 1, UNCHANGED behind
  PROVE  IInv' /\ OthersKept(d)
  <1>1. /\ heap \in [Block -> Content] /\ TypeOK /\ NothingLost /\ IsFiniteSet(Open)
        /\ \A c \in Open : Hangs(heap, fd_table[c]) /\ Sized(heap, fd_table[c])
    BY DEF IInv
  <1>2. fd_table' \in [Fd -> Pointer] /\ fd_table'[d] = f /\ \A c \in Fd \ {d} : fd_table'[c] = fd_table[c]
    BY <1>1 DEF TypeOK, Pointer
  <1>3. d \notin Open /\ Open' = Open \cup {d} /\ \A c \in Open : fd_table'[c] = fd_table[c] /\ c # d
    BY <1>2, BlockType DEF Open
  <1>4. \A b \in Block : heap[b] # FREE <=>
           b \in behind \/ \E c \in Open : b \in OwnedIn(heap, fd_table[c])
    BY <1>1, Account
  <1>5. ASSUME NEW c \in Open
        PROVE  /\ Hangs(heap', fd_table'[c]) /\ Sized(heap', fd_table'[c])
               /\ OwnedIn(heap', fd_table'[c]) = OwnedIn(heap, fd_table[c])
               /\ OwnedIn(heap, fd_table[c]) \subseteq Block
               /\ \A b \in OwnedIn(heap, fd_table[c]) : heap[b] # FREE /\ heap'[b] = heap[b]
    <2>1. OwnedIn(heap, fd_table[c]) \subseteq Block
      BY <1>1, OwnedBlocks
    <2>2. \A b \in OwnedIn(heap, fd_table[c]) : heap[b] # FREE
      BY <1>4, <2>1
    <2>3. \A b \in OwnedIn(heap, fd_table[c]) : heap'[b] = heap[b]
      BY <2>1, <2>2
    <2> QED
      BY <1>1, <1>3, <2>1, <2>2, <2>3, Frame
  <1>6. NothingLost'
    <2> DEFINE new == OwnedIn(heap', f)
    <2>1. behind \subseteq Block /\ \A b \in behind : heap[b] # FREE
      BY <1>1, <1>4 DEF TypeOK
    <2>2. /\ \A c \in Open : OwnedIn(heap, fd_table[c]) \cap behind = {}
          /\ \A c, e \in Open : c # e => OwnedIn(heap, fd_table[c]) \cap OwnedIn(heap, fd_table[e]) = {}
      BY <1>1, OwnedIs DEF NothingLost
    <2>3. new \subseteq Block /\ \A b \in new : heap[b] = FREE
      OBVIOUS
    <2>4. OwnedIn(heap', fd_table'[d]) = new
      BY <1>2
    <2>5. \A b \in Block : heap'[b] # FREE <=> heap[b] # FREE \/ b \in new
      OBVIOUS
    <2> HIDE DEF new
    <2>6. \A b \in Block : heap'[b] # FREE <=>
             b \in behind' \/ \E c \in Open' : b \in OwnedIn(heap', fd_table'[c])
      BY <1>3, <1>4, <1>5, <2>4, <2>5
    <2>7. \A c \in Open' : OwnedIn(heap', fd_table'[c]) \cap behind' = {}
      BY <1>3, <1>5, <2>1, <2>2, <2>3, <2>4
    <2>8. \A c, e \in Open' : c # e => OwnedIn(heap', fd_table'[c]) \cap OwnedIn(heap', fd_table'[e]) = {}
      <3>1. \A c, e \in Open : c # e => OwnedIn(heap', fd_table'[c]) \cap OwnedIn(heap', fd_table'[e]) = {}
        BY <1>5, <2>2
      <3>2. \A c \in Open : OwnedIn(heap', fd_table'[c]) \cap new = {}
        BY <1>5, <2>3
      <3> QED
        BY <1>3, <2>4, <3>1, <3>2
    <2>9. \A c \in Open' : OwnedIn(heap', fd_table'[c]) \subseteq Block
      BY <1>3, <1>5, <2>3, <2>4
    <2> QED
      BY <2>1, <2>6, <2>7, <2>8, <2>9, AccountNext
  <1>7. IsFiniteSet(Open') /\ Cardinality(Open') = Cardinality(Open) + 1
    BY <1>1, <1>3, FS_AddElement
  <1>8. TypeOK'
    <2>1. behind' \subseteq Block /\ DOMAIN heap' = Block /\ \A b \in Block : heap'[b] \in Content
      BY <1>1 DEF TypeOK
    <2>2. fd_count' = Cardinality(Open')
      BY <1>1, <1>7 DEF TypeOK
    <2> QED
      BY <1>2, <2>1, <2>2 DEF TypeOK
  <1>9. \A c \in Open' : Hangs(heap', fd_table'[c]) /\ Sized(heap', fd_table'[c])
    BY <1>2, <1>3, <1>5
  <1>10. OthersKept(d)
    BY <1>3, <1>5, OwnedIs DEF OthersKept
  <1> QED
    BY <1>6, <1>7, <1>8, <1>9, <1>10 DEF IInv

LEMMA OpenStep ==
  ASSUME IInv, NEW path, NEW flags \in Flags, vfs_open(path, flags)
  PROVE  IInv' /\ \E d \in Fd \cup {NULL} : OthersKept(d)
  <1> DEFINE r0 == [kind |-> "File", name |-> NULL, private_data |-> NULL, position |-> 0,
                    driver |-> Driver(path), past |-> FALSE]
             free == {d \in Fd : fd_table[d] = NULL}
  <1>1. /\ heap \in [Block -> Content] /\ disk \in [Fat -> {NULL} \cup Length] /\ TypeOK
    BY DEF IInv, TypeOK
  <1>2. PICK f : f = kmalloc(heap)
    OBVIOUS
  <1>3. PICK h1 : h1 = Put(heap, f, r0)
    OBVIOUS
  <1>4. PICK name : name = kmalloc(h1)
    OBVIOUS
  <1>5. PICK h2 : h2 = Put(h1, name, Text)
    OBVIOUS
  <1>6. PICK o : o = driver_open(h2, path, flags)
    OBVIOUS
  <1>7. /\ f # NULL /\ disk' = o.disk
        /\ \/ /\ o.ok /\ free # {}
              /\ heap' = [o.heap EXCEPT ![f].name = name, ![f].private_data = o.priv]
              /\ fd_table' = [fd_table EXCEPT ![Lowest(free)] = f]
              /\ fd_count' = fd_count + 1 /\ UNCHANGED behind
           \/ /\ heap' = kfree(o.heap, {name, f})
              /\ behind' = behind \cup {b \in Block : o.ok /\ heap[b] = FREE /\ heap'[b] # FREE}
              /\ UNCHANGED <<fd_table, fd_count>>
    <2> HIDE DEF free
    <2> QED
      BY <1>2, <1>3, <1>4, <1>5, <1>6 DEF vfs_open, free
  <1>8. /\ Driver(path) \in {"fat", "proc", "dev"} /\ r0 \in File /\ r0 # FREE
        /\ Text \in Content /\ Text # FREE
    <2>1. Driver(path) \in {"fat", "proc", "dev"}
      BY DEF Driver
    <2>2. r0 \in File
      BY <2>1 DEF File, Pointer
    <2> QED
      BY <2>1, <2>2, Kinds DEF Content
  <1>9. Filled(heap, h1, f, r0) /\ h1 \in [Block -> Content]
    <2>1. r0 \in Content
      BY <1>8 DEF Content
    <2> HIDE DEF r0
    <2>2. Filled(heap, h1, f, r0)
      BY <1>1, <1>2, <1>3, <2>1, KMallocFree, PutFills
    <2> QED
      BY <2>2 DEF Filled
  <1>10. Filled(h1, h2, name, Text) /\ h2 \in [Block -> Content] /\ name \in Pointer
    <2>1. Free(h1, name)
      BY <1>4, KMallocFree
    <2>2. Filled(h1, h2, name, Text)
      BY <1>5, <1>8, <1>9, <2>1, PutFills
    <2> QED
      BY <2>1, <2>2 DEF Filled, Free, Pointer
  <1>11. Opened(h2, o, Driver(path))
    BY <1>1, <1>6, <1>10, DriverOpens
  <1>12. /\ f \in Block /\ heap[f] = FREE /\ h1[f] = r0
         /\ \A b \in Block : b # f => h1[b] = heap[b]
         /\ name # NULL => name \in Block /\ h1[name] = FREE /\ h2[name] = Text
         /\ \A b \in Block : b # name => h2[b] = h1[b]
    BY <1>7, <1>9, <1>10 DEF Filled
  <1>13. /\ \A b \in Block : h2[b] # FREE => o.heap[b] = h2[b]
         /\ o.heap \in [Block -> Content] /\ o.disk \in [Fat -> {NULL} \cup Length]
    BY <1>11 DEF Opened
  <1> HIDE DEF r0
  <1>14. /\ name # f /\ h2[f] = r0 /\ h2[f] # FREE /\ o.heap[f] = r0
         /\ name # NULL => heap[name] = FREE
         /\ \A b \in Block \ {f, name} : h2[b] = heap[b]
    <2>1. name # f
      BY <1>7, <1>8, <1>12
    <2> QED
      BY <1>8, <1>12, <1>13, <2>1
  <1>15. \A b \in Block : heap[b] # FREE => b # f /\ b # name /\ o.heap[b] = heap[b]
    BY <1>12, <1>13, <1>14, BlockType
  <1>16. CASE o.ok /\ free # {} /\ fd_table' # fd_table
    <2>1. /\ heap' = [o.heap EXCEPT ![f].name = name, ![f].private_data = o.priv]
          /\ fd_table' = [fd_table EXCEPT ![Lowest(free)] = f]
          /\ fd_count' = fd_count + 1 /\ UNCHANGED behind
      BY <1>7, <1>16
    <2>2. PICK d \in Fd : d = Lowest(free) /\ fd_table[d] = NULL
      <3>1. free \subseteq Nat
        BY VfsAssumption
      <3>2. Lowest(free) \in free
        BY <1>16, <3>1, LeastElement
      <3> QED
        BY <3>2
    <2>3. PICK p : p = o.priv
      OBVIOUS
    <2>4. PICK g \in [Block -> Content] : g = o.heap
      BY <1>13
    <2> DEFINE file == [r0 EXCEPT !.name = name, !.private_data = p]
    <2>5. /\ Driver(path) = "fat" => OpenedFat(h2, g, p)
          /\ Driver(path) = "proc" => OpenedProc(h2, g, p)
          /\ Driver(path) = "dev" => p = NULL /\ g = h2
      BY <1>11, <1>16, <2>3, <2>4 DEF Opened
    <2>6. p \in Pointer
      BY <1>8, <2>5 DEF OpenedFat, OpenedProc, Pointer
    <2>7. Completed(g, heap', f, file, name, p, Driver(path))
      <3>1. r0 \in File /\ r0.driver = Driver(path) /\ r0.position = 0 /\ r0.past = FALSE
        BY <1>8 DEF r0
      <3>2. file \in File
        BY <1>10, <2>6, <3>1 DEF File
      <3>3. heap' = [g EXCEPT ![f] = file]
        BY <1>12, <1>14, <2>1, <2>3, <2>4
      <3>4. file.name = name /\ file.private_data = p /\ file.driver = Driver(path)
            /\ file.position = 0 /\ file.past = FALSE
        BY <3>1 DEF File
      <3> HIDE DEF file
      <3> QED
        BY <3>2, <3>3, <3>4 DEF Completed
    <2> HIDE DEF file
    <2>9. /\ heap' \in [Block -> Content]
          /\ Hangs(heap', f) /\ Sized(heap', f)
          /\ OwnedIn(heap', f) \subseteq {b \in Block : heap[b] = FREE}
          /\ \A b \in Block : heap'[b] # FREE <=> heap[b] # FREE \/ b \in OwnedIn(heap', f)
          /\ \A b \in Block : heap[b] # FREE => heap'[b] = heap[b]
      <3>1. Taken(heap, h2, g, f, name, p, Driver(path))
        BY <1>12, <1>13, <1>14, <2>4, <2>5 DEF Taken
      <3>2. Hung(heap, heap', f)
        BY <1>1, <1>8, <1>10, <1>12, <2>7, <3>1, NewFile
      <3> QED
        BY <3>2 DEF Hung
    <2>10. fd_table' = [fd_table EXCEPT ![d] = f] /\ disk' \in [Fat -> {NULL} \cup Length]
      BY <1>7, <1>13, <2>1, <2>2
    <2> QED
      BY <1>12, <2>1, <2>2, <2>9, <2>10, OpenSucceeds
  <1>17. CASE /\ heap' = kfree(o.heap, {name, f})
              /\ behind' = behind \cup {b \in Block : o.ok /\ heap[b] = FREE /\ heap'[b] # FREE}
              /\ UNCHANGED <<fd_table, fd_count>>
    <2>1. heap' = [b \in Block |-> IF b \in {name, f} THEN FREE ELSE o.heap[b]]
      BY <1>17 DEF kfree
    <2>2. heap' \in [Block -> Content]
      BY <1>13, <2>1 DEF Content
    <2>3. \A b \in Block : heap[b] # FREE => heap'[b] = heap[b]
      BY <1>15, <2>1
    <2>4. disk' \in [Fat -> {NULL} \cup Length]
      BY <1>7, <1>13
    <2>5. ~o.ok => \A b \in Block : heap[b] = FREE => heap'[b] = FREE
      <3>1. ~o.ok => o.heap = h2
        BY <1>11 DEF Opened
      <3> QED
        BY <1>14, <2>1, <3>1
    <2>6. PICK B : B = {b \in Block : heap[b] = FREE /\ heap'[b] # FREE}
      OBVIOUS
    <2>7. {b \in Block : o.ok /\ heap[b] = FREE /\ heap'[b] # FREE} = B
      BY <2>5, <2>6
    <2> QED
      BY <1>17, <2>2, <2>3, <2>4, <2>6, <2>7, OpenFails
  <1>18. CASE /\ o.ok /\ free # {}
              /\ fd_table' = [fd_table EXCEPT ![Lowest(free)] = f]
    <2>1. Lowest(free) \in free
      <3>1. free \subseteq Nat
        BY VfsAssumption
      <3> QED
        BY <1>18, <3>1, LeastElement
    <2>2. fd_table' # fd_table
      BY <1>1, <1>12, <1>18, <2>1, BlockType DEF TypeOK
    <2> QED
      BY <1>16, <1>18, <2>2
  <1> QED
    BY <1>7, <1>17, <1>18

-----------------------------------------------------------------------------
LEMMA InitIInv == Init => IInv
  <1> SUFFICES ASSUME Init PROVE IInv
    OBVIOUS
  <1>1. /\ fd_table = [d \in Fd |-> NULL] /\ fd_count = 0 /\ behind = {}
        /\ heap = [b \in Block |-> FREE] /\ disk \in [Fat -> {NULL} \cup Length]
    BY DEF Init
  <1>2. Open = {}
    BY <1>1 DEF Open
  <1>3. IsFiniteSet(Open) /\ Cardinality(Open) = 0
    BY <1>2, FS_EmptySet
  <1>4. heap \in [Block -> Content]
    BY <1>1 DEF Content
  <1>5. TypeOK
    BY <1>1, <1>3, <1>4 DEF TypeOK, Pointer
  <1>6. NothingLost
    BY <1>1, <1>2 DEF NothingLost
  <1> QED
    BY <1>2, <1>3, <1>4, <1>5, <1>6 DEF IInv

\* The invariant is inductive.
LEMMA StepIInv == IInv /\ [Next]_vars => IInv'
  <1> SUFFICES ASSUME IInv, [Next]_vars PROVE IInv'
    OBVIOUS
  <1>1. ASSUME NEW p \in Fat \cup Proc \cup Dev, NEW flags \in Flags, vfs_open(p, flags) PROVE IInv'
    BY <1>1, OpenStep
  <1>2. ASSUME NEW d \in Fd, NEW n \in 1..2, fat_read(d, n) PROVE IInv'
    BY <1>2, ReadStep
  <1>3. ASSUME NEW d \in Fd, NEW n \in 1..2, fat_write(d, n) PROVE IInv'
    BY <1>3, WriteStep
  <1>4. ASSUME NEW d \in Fd, NEW n \in -1..1, NEW w \in {"SET", "CUR", "END"}, fat_lseek(d, n, w)
        PROVE  IInv'
    BY <1>4, SeekStep
  <1>7. ASSUME NEW d \in Fd, NEW n \in 1..2, proc_read(d, n) PROVE IInv'
    BY <1>7, ProcSteps
  <1>8. ASSUME NEW d \in Fd, NEW n \in -1..1, NEW w \in {"SET", "CUR", "END"}, proc_lseek(d, n, w)
        PROVE  IInv'
    BY <1>8, ProcSteps
  <1>5. ASSUME NEW d \in Fd, vfs_close(d) PROVE IInv'
    BY <1>5, CloseStep
  <1>6. CASE UNCHANGED vars
    <2>1. UNCHANGED <<fd_table, fd_count, heap, disk, behind>>
      BY <1>6 DEF vars
    <2>2. Open' = Open /\ \A d \in Open : Owned(d)' = Owned(d)
      BY <2>1, OwnedIs DEF Open
    <2>3. NothingLost'
      BY <2>1, <2>2 DEF IInv, NothingLost
    <2>4. TypeOK'
      BY <2>1, <2>2 DEF IInv, TypeOK
    <2> QED
      BY <2>1, <2>2, <2>3, <2>4 DEF IInv
  <1> QED
    BY <1>1, <1>2, <1>3, <1>4, <1>5, <1>6, <1>7, <1>8 DEF Next

LEMMA Invariance == Spec => []IInv
  BY InitIInv, StepIInv, PTL DEF Spec

-----------------------------------------------------------------------------
\* The table, the count of open descriptors and what is in each block have
\* their types, whatever is opened, moved and closed in whatever order.
THEOREM TypeCorrect == Spec => []TypeOK
  <1>1. IInv => TypeOK
    BY DEF IInv
  <1> QED
    BY Invariance, <1>1, PTL

\* For every number of descriptors and every heap: a block in use hangs on one
\* open descriptor, or had been opened by a driver when vfs_open found the table
\* full.  An open that fails, at whatever of its stages no block or no file is
\* left, gives back all that it took; so does a close, and nothing else.
THEOREM NothingIsLost == Spec => []NothingLost
  <1>1. IInv => NothingLost
    BY DEF IInv
  <1> QED
    BY Invariance, <1>1, PTL

\* Two descriptors never touch each other's blocks, though they may stand for one
\* file of the disk: each call is for one descriptor at most, and leaves every
\* other one open, with the same blocks and the same in them.
THEOREM FilesAreApart == Spec => [][\E d \in Fd \cup {NULL} : OthersKept(d)]_vars
  <1> DEFINE Apart == \E d \in Fd \cup {NULL} : OthersKept(d)
  <1>1. IInv /\ [Next]_vars => [Apart]_vars
    <2> SUFFICES ASSUME IInv, Next PROVE Apart
      OBVIOUS
    <2>1. ASSUME NEW p \in Fat \cup Proc \cup Dev, NEW flags \in Flags, vfs_open(p, flags)
          PROVE  Apart
      BY <2>1, OpenStep
    <2>2. ASSUME NEW d \in Fd, NEW n \in 1..2, fat_read(d, n) PROVE Apart
      BY <2>2, ReadStep
    <2>3. ASSUME NEW d \in Fd, NEW n \in 1..2, fat_write(d, n) PROVE Apart
      BY <2>3, WriteStep
    <2>4. ASSUME NEW d \in Fd, NEW n \in -1..1, NEW w \in {"SET", "CUR", "END"},
                 fat_lseek(d, n, w)
          PROVE  Apart
      BY <2>4, SeekStep
    <2>5. ASSUME NEW d \in Fd, vfs_close(d) PROVE Apart
      BY <2>5, CloseStep
    <2>6. ASSUME NEW d \in Fd, NEW n \in 1..2, proc_read(d, n) PROVE Apart
      BY <2>6, ProcSteps
    <2>7. ASSUME NEW d \in Fd, NEW n \in -1..1, NEW w \in {"SET", "CUR", "END"},
                 proc_lseek(d, n, w)
          PROVE  Apart
      BY <2>7, ProcSteps
    <2> QED
      BY <2>1, <2>2, <2>3, <2>4, <2>5, <2>6, <2>7 DEF Next
  <1> HIDE DEF Apart
  <1>2. Spec => [][Apart]_vars
    BY Invariance, <1>1, PTL DEF Spec
  <1> QED
    BY <1>2 DEF Apart

\* SEEK_END counts from the end of the file, for a file of any length on a disk
\* of any size.
THEOREM EndIsKnown == Spec => []EndKnown
  <1>1. IInv => EndKnown
    <2> SUFFICES ASSUME IInv, NEW d \in Open, IsFat(d), ~PrivOf(d).append, ~FileOf(d).past
                 PROVE  PrivOf(d).size = FilOf(d).objsize
      BY DEF EndKnown
    <2>1. d \in Fd
      BY DEF Open
    <2> QED
      BY <2>1, OpenFat DEF Agree
  <1> QED
    BY Invariance, <1>1, PTL

=============================================================================
