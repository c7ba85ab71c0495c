------------------------------- MODULE RamDisk -------------------------------
(***************************************************************************)
(* The initial ram disk: the image that src/rdgen writes on the build host *)
(* and what rd.c and fs.c make of it in memory.  The image is the number   *)
(* of files, a table of headers of fixed size, and the files one after the *)
(* other; addresses and lengths are in words.                              *)
(***************************************************************************)
EXTENDS Integers, Sequences

CONSTANTS
    Files,           \* the files given to rdgen: a sequence of [name, length]
    HEADERS          \* words before the first file

ASSUME RamDiskAssumption ==
    /\ Files \in Seq([name : STRING, length : Nat])
    /\ HEADERS \in Nat

Inodes == DOMAIN Files
Other == <<0, 0>>                    \* a word that belongs to no file
Word(i, w) == <<i, w>>               \* word w (from 0) of file i
Contents(i) == [k \in 1 .. Files[i].length |-> Word(i, k - 1)]
FileWords == {Other} \cup UNION {{Word(i, w) : w \in 0 .. Files[i].length - 1} : i \in Inodes}

(* rdgen. *)

\* The offset in a file's header: the headers, and the files before it.
Ends[i \in 0 .. Len(Files)] == IF i = 0 THEN HEADERS ELSE Ends[i - 1] + Files[i].length
OffsetInData(i) == Ends[i - 1] - HEADERS       \* mutant: counted from the end of the headers
Offset(i) == Ends[i - 1]

\* initrd.img, as it is written: the headers, then one file after the other.
Written[i \in 0 .. Len(Files)] ==
    IF i = 0 THEN [a \in 1 .. HEADERS |-> Other] ELSE Written[i - 1] \o Contents(i)
Image == Written[Len(Files)]

(* rd.c and fs.c, for an image that was loaded at location. *)

\* rd_init makes each header's offset an address.
HeaderOffset(i, location) == Offset(i) + location

\* fs_finddir on the root: dev, which is no file, or the first file of that
\* name, or nothing.  The node of dev has length 0 and no read.
NoNode == -1
Dev == 0
Named(name) == {i \in Inodes : Files[i].name = name}
FindDir(name) ==
    IF name = "dev" THEN Dev
    ELSE IF Named(name) = {} THEN NoNode
    ELSE CHOOSE i \in Named(name) : \A j \in Named(name) : i <= j
NodeLength(node) == IF node = Dev THEN 0 ELSE Files[node].length

\* rd_read: how many words are copied, and the one that goes to buffer[w].
ReadSize(node, offset, size) ==
    IF node = Dev \/ offset > NodeLength(node) THEN 0
    ELSE IF offset + size > NodeLength(node) THEN NodeLength(node) - offset ELSE size
ReadWord(mem, node, location, offset, w) == mem[HeaderOffset(node, location) + offset + w]
=============================================================================
