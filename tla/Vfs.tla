--------------------------------- MODULE Vfs --------------------------------
(***************************************************************************)
(* The kernel's virtual file system (vfs/vfs.c, vfs_fat.c, vfs_proc.c),    *)
(* which tasks call and trap0_handler offers to programs: a table of       *)
(* descriptors, each a File block with the blocks its driver hangs on it.  *)
(* Any sequence of calls is made, one at a time; kmalloc fails when no     *)
(* block is left, and FatFs when a file does not exist.                    *)
(*                                                                         *)
(* Blocks are the heap's, one for each kmalloc; of a file's contents only  *)
(* the length is kept, and of a device nothing, for its driver keeps       *)
(* nothing either.  vfs_init clears the table and then opens /dev/tty      *)
(* three times: the calls start from the cleared table, so those three are *)
(* among them.                                                             *)
(***************************************************************************)
EXTENDS Integers, FiniteSets

CONSTANTS
  Fd,        \* the descriptors allocate_fd hands out, 3..255
  HEAP,      \* blocks in the kernel's heap
  Fat,       \* paths of files on the disk
  Proc,      \* the paths of /proc
  Dev,       \* the paths of /dev
  DISK,      \* the length at which a file fills the disk
  SEEK_MAX,  \* bound: nobody seeks further
  PROC_SIZE, \* the length of the text of a /proc file
  NULL

ASSUME VfsAssumption ==
  /\ Fd \subseteq Nat /\ {HEAP, DISK, SEEK_MAX, PROC_SIZE} \subseteq Nat
  /\ NULL \notin Nat

VARIABLES
  fd_table,  \* the File block of each descriptor, or NULL
  fd_count,
  heap,      \* what is in each block
  disk,      \* the length of each file in its directory entry, or NULL
  behind     \* what a driver had opened when the table was found full

vars == <<fd_table, fd_count, heap, disk, behind>>

Block == 1..HEAP
FREE == [kind |-> "free"]
Pointer == Block \cup {NULL}
Length == 0..DISK

\* The flags of open that matter here; every other combination acts as one of these.
Flags == {{"READ"}, {"READ", "WRITE"}, {"WRITE", "CREAT"}, {"WRITE", "APPEND"},
          {"WRITE", "CREAT", "APPEND"}}

File == [kind : {"File"}, name : Pointer, private_data : Pointer, position : Nat,
         driver : {"fat", "proc", "dev"},   \* which functions were put into it
         past : BOOLEAN]                    \* history: it was moved past the end
FIL == [kind : {"FIL"}, path : Fat, mode : Flags, modified : BOOLEAN, fptr : Length, objsize : Length]
FatPrivate == [kind : {"FatPrivate"}, fat_file : Block, append : BOOLEAN, size : Nat]
ProcData == [kind : {"ProcData"}, data : Pointer, position : 0..PROC_SIZE]
Text == [kind |-> "text"]

Lowest(S) == CHOOSE x \in S : \A y \in S : x <= y

\* The block a call of kmalloc returns, and the heap with b filled or with B freed.
kmalloc(h) ==
  LET free == {b \in Block : h[b] = FREE}
  IN IF free = {} THEN NULL ELSE Lowest(free)
Put(h, b, r) == IF b = NULL THEN h ELSE [h EXCEPT ![b] = r]
kfree(h, B) == [b \in Block |-> IF b \in B THEN FREE ELSE h[b]]

Init ==
  /\ fd_table = [d \in Fd |-> NULL] /\ fd_count = 0
  /\ heap = [b \in Block |-> FREE]
  /\ disk \in [Fat -> {NULL} \cup Length]
  /\ behind = {}

-----------------------------------------------------------------------------
(* Opening.  A driver's open gives the heap and the disk it leaves, and    *)
(* the block it hangs on the File; ok says whether it returned 0.          *)

Failed(h) == [ok |-> FALSE, heap |-> h, disk |-> disk, priv |-> NULL]

\* Mutant: a file without a FatPrivate is closed, but its FIL is not freed.
fat_open_keeps_fil(h, path, flags) ==
  LET fil == kmalloc(h)
      size == IF disk[path] = NULL \/ "CREAT" \in flags THEN 0 ELSE disk[path]
      h1 == Put(h, fil, [kind |-> "FIL", path |-> path, mode |-> flags, modified |-> disk[path] # size,
                         fptr |-> IF "APPEND" \in flags THEN size ELSE 0, objsize |-> size])
      priv == kmalloc(h1)
      opened == [disk EXCEPT ![path] = size]
  IN IF fil = NULL THEN Failed(h)
     ELSE IF disk[path] = NULL /\ flags \cap {"CREAT", "APPEND"} = {} THEN Failed(kfree(h1, {fil}))
     ELSE IF priv = NULL THEN [Failed(h1) EXCEPT !.disk = opened]
     ELSE [ok |-> TRUE, disk |-> opened, priv |-> priv,
           heap |-> Put(h1, priv, [kind |-> "FatPrivate", fat_file |-> fil,
                                   append |-> "APPEND" \in flags, size |-> size])]

\* O_CREAT sets FA_CREATE_ALWAYS, as O_TRUNC does: FatFs cuts an existing file.
\* O_APPEND sets FA_OPEN_APPEND, which creates a missing file and stands at the end.
\* It fails without a FIL, without the file, and without a FatPrivate.
fat_open(h, path, flags) ==
  LET fil == kmalloc(h)
      size == IF disk[path] = NULL \/ "CREAT" \in flags THEN 0 ELSE disk[path]
      h1 == Put(h, fil, [kind |-> "FIL", path |-> path, mode |-> flags, modified |-> disk[path] # size,
                         fptr |-> IF "APPEND" \in flags THEN size ELSE 0, objsize |-> size])
      priv == kmalloc(h1)
      opened == [disk EXCEPT ![path] = size]
  IN IF fil = NULL THEN Failed(h)
     ELSE IF disk[path] = NULL /\ flags \cap {"CREAT", "APPEND"} = {} THEN Failed(kfree(h1, {fil}))
     ELSE IF priv = NULL THEN [Failed(kfree(h1, {fil})) EXCEPT !.disk = opened]
     ELSE [ok |-> TRUE, disk |-> opened, priv |-> priv,
           heap |-> Put(h1, priv, [kind |-> "FatPrivate", fat_file |-> fil,
                                   append |-> "APPEND" \in flags, size |-> size])]

\* The text is strdup's, whose failure nobody looks at.
proc_open(h) ==
  LET data == kmalloc(h)
      text == kmalloc(Put(h, data, Text))
  IN IF data = NULL THEN Failed(h)
     ELSE [ok |-> TRUE, disk |-> disk, priv |-> data,
           heap |-> Put(Put(h, data, [kind |-> "ProcData", data |-> text, position |-> 0]), text, Text)]

dev_open(h) == [ok |-> TRUE, heap |-> h, disk |-> disk, priv |-> NULL]

Driver(path) == IF path \in Fat THEN "fat" ELSE IF path \in Proc THEN "proc" ELSE "dev"

\* fat_open has the first look at every path; it finds no /dev and no /proc on
\* the disk, and the table of drivers has no path of the disk.
driver_open(h, path, flags) ==
  CASE Driver(path) = "fat"  -> fat_open(h, path, flags)
    [] Driver(path) = "proc" -> proc_open(h)
    [] Driver(path) = "dev"  -> dev_open(h)

vfs_open(path, flags) ==
  LET file == kmalloc(heap)
      h1 == Put(heap, file, [kind |-> "File", name |-> NULL, private_data |-> NULL, position |-> 0,
                             driver |-> Driver(path), past |-> FALSE])
      name == kmalloc(h1)
      o == driver_open(Put(h1, name, Text), path, flags)
      free == {d \in Fd : fd_table[d] = NULL}
  IN /\ file # NULL
     /\ disk' = o.disk
     /\ IF o.ok /\ free # {}
        THEN /\ heap' = [o.heap EXCEPT ![file].name = name, ![file].private_data = o.priv]
             /\ fd_table' = [fd_table EXCEPT ![Lowest(free)] = file]
             /\ fd_count' = fd_count + 1
             /\ UNCHANGED behind
        ELSE /\ heap' = kfree(o.heap, {name, file})
             \* A table found full: what the driver opened is neither closed nor freed.
             /\ behind' = behind \cup {b \in Block : o.ok /\ heap[b] = FREE /\ heap'[b] # FREE}
             /\ UNCHANGED <<fd_table, fd_count>>

-----------------------------------------------------------------------------
(* The calls on an open descriptor; any other returns -1 and changes       *)
(* nothing, as do ioctl, and reads, writes and seeks of a device.          *)

FileOf(d) == heap[fd_table[d]]
PrivOf(d) == heap[FileOf(d).private_data]
FilOf(d) == heap[PrivOf(d).fat_file]
IsFat(d) == fd_table[d] # NULL /\ FileOf(d).driver = "fat"
IsProc(d) == fd_table[d] # NULL /\ FileOf(d).driver = "proc"

\* f_lseek: past the end, a file open for writing grows as far as the disk has
\* room, and one open for reading goes to its end.
Seek(f, to) ==
  LET ptr == CASE to <= f.objsize -> to
               [] "WRITE" \in f.mode /\ to > f.objsize -> IF to <= DISK THEN to ELSE DISK
               [] OTHER -> f.objsize
  IN IF ptr > f.objsize THEN [f EXCEPT !.fptr = ptr, !.objsize = ptr, !.modified = TRUE]
     ELSE [f EXCEPT !.fptr = ptr]

fat_read(d, n) ==
  /\ IsFat(d) /\ "READ" \in FilOf(d).mode
  /\ LET f == FilOf(d)
         got == IF n <= f.objsize - f.fptr THEN n ELSE f.objsize - f.fptr
     IN heap' = [heap EXCEPT ![PrivOf(d).fat_file].fptr = @ + got,
                             ![fd_table[d]].position = @ + got]
  /\ UNCHANGED <<fd_table, fd_count, disk, behind>>

fat_write_asked(d, n) ==
  /\ IsFat(d) /\ "WRITE" \in FilOf(d).mode
  /\ LET p == PrivOf(d)
         f == IF p.append THEN Seek(FilOf(d), FilOf(d).objsize) ELSE FilOf(d)
         put == IF f.fptr + n <= DISK THEN n ELSE DISK - f.fptr
         position == FileOf(d).position + n
         end == f.fptr + put
     IN heap' = [heap EXCEPT
          ![p.fat_file] = [Seek(f, end) EXCEPT !.modified = TRUE],
          ![fd_table[d]].position = position,
          ![FileOf(d).private_data].size = IF position > @ THEN position ELSE @]
  /\ UNCHANGED <<fd_table, fd_count, disk, behind>>

\* A descriptor open for appending goes to the end first; a full disk takes less.
fat_write(d, n) ==
  /\ IsFat(d) /\ "WRITE" \in FilOf(d).mode
  /\ LET p == PrivOf(d)
         f == IF p.append THEN Seek(FilOf(d), FilOf(d).objsize) ELSE FilOf(d)
         put == IF f.fptr + n <= DISK THEN n ELSE DISK - f.fptr
         position == FileOf(d).position + put
         end == f.fptr + put
     IN heap' = [heap EXCEPT
          ![p.fat_file] = [Seek(f, end) EXCEPT !.modified = TRUE],
          ![fd_table[d]].position = position,
          ![FileOf(d).private_data].size = IF position > @ THEN position ELSE @]
  /\ UNCHANGED <<fd_table, fd_count, disk, behind>>

\* SEEK_SET, SEEK_CUR from FatFs's pointer, SEEK_END from the length in FatPrivate;
\* a negative offset is a size_t that wraps round to the place meant.
fat_lseek(d, offset, whence) ==
  /\ IsFat(d)
  /\ LET new_pos == offset + (CASE whence = "SET" -> 0
                                [] whence = "CUR" -> FilOf(d).fptr
                                [] whence = "END" -> PrivOf(d).size)
     IN /\ new_pos \in 0..SEEK_MAX
        /\ heap' = [heap EXCEPT
          ![PrivOf(d).fat_file] = Seek(@, new_pos),
          ![fd_table[d]].position = new_pos,
          ![fd_table[d]].past = @ \/ new_pos > FilOf(d).objsize]
  /\ UNCHANGED <<fd_table, fd_count, disk, behind>>

\* A read at the end returns 0 and moves nothing.
proc_read(d, n) ==
  /\ IsProc(d) /\ PrivOf(d).position < PROC_SIZE
  /\ LET available == PROC_SIZE - PrivOf(d).position
         to == PrivOf(d).position + (IF n < available THEN n ELSE available)
     IN heap' = [heap EXCEPT ![FileOf(d).private_data].position = to, ![fd_table[d]].position = to]
  /\ UNCHANGED <<fd_table, fd_count, disk, behind>>

\* A place past the end becomes the end, and so does one before the beginning,
\* which as a size_t is a large number.
proc_lseek(d, offset, whence) ==
  /\ IsProc(d)
  /\ LET new_pos == offset + (CASE whence = "SET" -> 0
                                [] whence = "CUR" -> PrivOf(d).position
                                [] whence = "END" -> PROC_SIZE)
         to == IF new_pos \in 0..PROC_SIZE THEN new_pos ELSE PROC_SIZE
     IN heap' = [heap EXCEPT ![FileOf(d).private_data].position = to, ![fd_table[d]].position = to]
  /\ UNCHANGED <<fd_table, fd_count, disk, behind>>

\* Everything a driver hung on the File
Blocks(h, b) ==
  LET p == h[b].private_data
  IN {p} \cup (CASE h[b].driver = "fat"  -> {h[p].fat_file}
                 [] h[b].driver = "proc" -> {h[p].data}
                 [] h[b].driver = "dev"  -> {})

kfree_fd_uncounted(d) == fd_table' = [fd_table EXCEPT ![d] = NULL] /\ UNCHANGED fd_count

kfree_fd(d) == fd_table' = [fd_table EXCEPT ![d] = NULL] /\ fd_count' = fd_count - 1

\* f_close writes the length of a modified file to the directory.
vfs_close(d) ==
  /\ fd_table[d] # NULL
  /\ disk' = IF IsFat(d) /\ FilOf(d).modified THEN [disk EXCEPT ![FilOf(d).path] = FilOf(d).objsize] ELSE disk
  /\ heap' = kfree(heap, Blocks(heap, fd_table[d]) \cup {FileOf(d).name, fd_table[d]})
  /\ kfree_fd(d)
  /\ UNCHANGED behind

Next ==
  \/ \E p \in Fat \cup Proc \cup Dev, flags \in Flags : vfs_open(p, flags)
  \/ \E d \in Fd :
       \/ \E n \in 1..2 : fat_read(d, n) \/ fat_write(d, n) \/ proc_read(d, n)
       \/ \E n \in -1..1, w \in {"SET", "CUR", "END"} : fat_lseek(d, n, w) \/ proc_lseek(d, n, w)
       \/ vfs_close(d)

Spec == Init /\ [][Next]_vars

-----------------------------------------------------------------------------
Content == {FREE} \cup File \cup FIL \cup FatPrivate \cup ProcData \cup {Text}

Open == {d \in Fd : fd_table[d] # NULL}
\* The blocks that go with a descriptor
Owned(d) == (Blocks(heap, fd_table[d]) \cup {fd_table[d], FileOf(d).name}) \ {NULL}

\* The state has its types, fd_count counts the open descriptors, and nobody
\* stands past the end of a /proc file, where a read would count what is left
\* as a size_t below zero.
TypeOK ==
  /\ fd_table \in [Fd -> Pointer] /\ fd_count = Cardinality(Open)
  /\ DOMAIN heap = Block /\ \A b \in Block : heap[b] \in Content
  /\ disk \in [Fat -> {NULL} \cup Length]
  /\ behind \subseteq Block

\* On every path, those on which kmalloc, FatFs or a driver fails half-way
\* included, the heap holds what hangs on one descriptor and nothing else.
\* The one exception is what a driver had opened with success when vfs_open
\* then found no descriptor free; an open that fails leaves nothing.
NothingLost ==
  /\ {b \in Block : heap[b] # FREE} = behind \cup UNION {Owned(d) : d \in Open}
  /\ \A c, d \in Open : c # d => Owned(c) \cap Owned(d) = {}
  /\ \A d \in Open : Owned(d) \cap behind = {}

\* The length that lseek(fd, n, SEEK_END) counts from is the file's, after any
\* reads, writes, short writes and seeks, for a descriptor that does not append
\* and was never moved past the end.
EndKnown ==
  \A d \in Open : IsFat(d) /\ ~PrivOf(d).append /\ ~FileOf(d).past => PrivOf(d).size = FilOf(d).objsize
=============================================================================
