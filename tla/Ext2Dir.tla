------------------------------ MODULE Ext2Dir ------------------------------
(***************************************************************************)
(* proj04/src/main.c and dir_entry_list.c: `diskprint' lists the root      *)
(* directory of an ext2 image and the inodes of its entries.  One buffer   *)
(* holds the block that was read last.                                     *)
(*                                                                         *)
(* A disk is an ext2 file system with blocks of BLOCK_SIZE and nothing     *)
(* but zeros before the superblock.  Sizes count units of 128 bytes, the   *)
(* size of struct ext2_inode_t.  A block is known by its number: what it   *)
(* holds follows from the disk (EntryIn, InodeIn).                         *)
(***************************************************************************)
EXTENDS Integers, Sequences, FiniteSets

CONSTANTS
  BLOCK_SIZE,   \* 32 units
  SeekLimit,    \* the blocks whose offset is an int: 2^19, or 2 GiB
  Disks         \* [s_inode_size, inodes_per_group, bg_inode_table, size,
                \* directory], the directory a sequence of its blocks, each
                \* [number, entries], an entry [offset, inode, rec_len, name]

EXT2_ROOT_INO == 2
InodeUnits    == 1       \* sizeof(struct ext2_inode_t)

NonEmpty(seq) == Len(seq) \in Nat \ {0} /\ DOMAIN seq = 1 .. Len(seq)

(* The entries of a directory block follow one another and fill it.        *)
Fills(entries) ==
  /\ entries[1].offset = 0
  /\ \A i \in DOMAIN entries :
       entries[i].offset + entries[i].rec_len =
         IF i = Len(entries) THEN BLOCK_SIZE ELSE entries[i + 1].offset

(* The superblock is in block 0 and the group descriptors are in block 1;  *)
(* the first group has the root's inode.                                   *)
ASSUME DisksAssumption ==
  /\ BLOCK_SIZE \in Nat \ {0} /\ SeekLimit \in Nat /\ SeekLimit > 1
  /\ \A d \in Disks :
       /\ d.s_inode_size \in 0 .. BLOCK_SIZE /\ d.size \in Nat
       /\ d.inodes_per_group \in Nat /\ d.inodes_per_group >= EXT2_ROOT_INO
       /\ d.bg_inode_table \in Nat /\ d.bg_inode_table > 1
       /\ NonEmpty(d.directory)
       /\ \A b \in DOMAIN d.directory :
            /\ d.directory[b].number \in Nat
            /\ d.bg_inode_table * BLOCK_SIZE + d.inodes_per_group * d.s_inode_size
                 <= d.directory[b].number * BLOCK_SIZE
            /\ \A c \in DOMAIN d.directory :
                 d.directory[b].number = d.directory[c].number => b = c
            /\ NonEmpty(d.directory[b].entries) /\ Fills(d.directory[b].entries)
            /\ \A i \in DOMAIN d.directory[b].entries :
                 /\ d.directory[b].entries[i].offset \in Nat
                 /\ d.directory[b].entries[i].rec_len \in Nat \ {0}
                 /\ d.directory[b].entries[i].inode \in Nat

VARIABLES
  reading,           \* how far main is
  disk,              \* the image it has opened
  superblock,        \* the size of an inode; 0 until it is read
  bg_descriptor,     \* where the inode table starts; 0 until it is read
  buffer,            \* the number of the block in the buffer, -1 at first
  root_first_block,  \* root_directory_inode->i_block[0]
  block_offset, dir_entry_offset,
  dir_entry_list,
  printed_inodes     \* for each entry of the list the number of the inode
                     \* that was printed for it, 0 for bytes that are none

headerVars == <<disk, superblock, bg_descriptor>>
walkVars   == <<block_offset, dir_entry_offset, dir_entry_list>>
diskVars   == <<reading, headerVars, buffer, root_first_block, walkVars,
                printed_inodes>>

DiskInit ==
  /\ reading = "start" /\ disk = [size |-> 0]
  /\ superblock = 0 /\ bg_descriptor = 0 /\ buffer = -1
  /\ root_first_block = 0 /\ block_offset = 0 /\ dir_entry_offset = 0
  /\ dir_entry_list = <<>> /\ printed_inodes = <<>>

-----------------------------------------------------------------------------
(* What the bytes of a block mean.                                         *)

Unused == [ offset |-> 0, inode |-> 0, rec_len |-> 0, name |-> "" ]

(* The entry at an offset of block b; zeros where b is no directory block. *)
EntryIn(b, offset) ==
  IF \E i \in DOMAIN disk.directory : disk.directory[i].number = b
  THEN CHOOSE e \in UNION { { disk.directory[i].entries[k] :
                                k \in DOMAIN disk.directory[i].entries } :
                            i \in { n \in DOMAIN disk.directory :
                                      disk.directory[n].number = b } } :
         e.offset = offset
  ELSE Unused

(* The inode that starts at unit u of block b.                             *)
InodeIn(b, u) ==
  LET behind == (b - disk.bg_inode_table) * BLOCK_SIZE + u
  IN  IF /\ disk.s_inode_size > 0
         /\ b >= disk.bg_inode_table
         /\ behind < disk.inodes_per_group * disk.s_inode_size
         /\ behind % disk.s_inode_size = 0
      THEN behind \div disk.s_inode_size + 1
      ELSE 0

(* At the end of the file the buffer keeps what it has.  An offset that is *)
(* no int leads anywhere: it wraps around to another block, or it is       *)
(* negative, lseek fails, and what follows the block read last is read.    *)
buffer_read_block(b) ==
  IF b < SeekLimit
  THEN buffer' = IF b < disk.size THEN b ELSE buffer
  ELSE buffer' \in {buffer} \cup 0 .. disk.size - 1

-----------------------------------------------------------------------------
buffer_init(d) ==
  /\ reading = "start" /\ reading' = "superblock" /\ disk' = d
  /\ UNCHANGED <<superblock, bg_descriptor, buffer, root_first_block, walkVars,
                 printed_inodes>>

cannot_open ==
  /\ reading = "start" /\ reading' = "exited"
  /\ UNCHANGED <<headerVars, buffer, root_first_block, walkVars, printed_inodes>>

(* A file of no bytes leaves the zeros the buffer starts with.             *)
init_superblock ==
  /\ reading = "superblock" /\ reading' = "bg_descriptor"
  /\ buffer_read_block(0)
  /\ superblock' = IF disk.size > 0 THEN disk.s_inode_size ELSE 0
  /\ UNCHANGED <<disk, bg_descriptor, root_first_block, walkVars, printed_inodes>>

init_bg_descriptor ==
  /\ reading = "bg_descriptor" /\ reading' = "root"
  /\ buffer_read_block(1)
  /\ bg_descriptor' = IF disk.size > 1 THEN disk.bg_inode_table ELSE 0
  /\ UNCHANGED <<disk, superblock, root_first_block, walkVars, printed_inodes>>

InodesPerBlock == BLOCK_SIZE \div superblock

(* Mutant: the inode is looked up in the first block of the table.         *)
FirstBlockOnly(inode_index, inode) ==
  /\ buffer_read_block(bg_descriptor)
  /\ inode = InodeIn(buffer', ((inode_index - 1) % InodesPerBlock) * InodeUnits)

(* `inode' is the number of the inode whose bytes are copied: the index    *)
(* counts structures of InodeUnits, whatever the size of an inode is.      *)
buffer_get_inode(inode_index, inode) ==
  /\ buffer_read_block(bg_descriptor + (inode_index - 1) \div InodesPerBlock)
  /\ inode = InodeIn(buffer', ((inode_index - 1) % InodesPerBlock) * InodeUnits)

(* Bytes that are no inode are zeros.                                      *)
read_root_inode ==
  /\ reading = "root" /\ superblock > 0
  /\ \E inode \in {0} \cup 1 .. disk.inodes_per_group :
       /\ buffer_get_inode(EXT2_ROOT_INO, inode)
       /\ root_first_block' = IF inode = EXT2_ROOT_INO
                              THEN disk.directory[1].number ELSE 0
  /\ reading' = "populate"
  /\ UNCHANGED <<headerVars, walkVars, printed_inodes>>

divide_by_inode_size ==
  /\ reading = "root" /\ superblock = 0 /\ reading' = "sigfpe"
  /\ UNCHANGED <<headerVars, buffer, root_first_block, walkVars, printed_inodes>>

begin_populate ==
  /\ reading = "populate" /\ reading' = "entries"
  /\ block_offset' = 0 /\ dir_entry_offset' = 0
  /\ buffer_read_block(root_first_block)
  /\ UNCHANGED <<headerVars, root_first_block, dir_entry_list, printed_inodes>>

DirEntry == EntryIn(buffer, dir_entry_offset % BLOCK_SIZE)

append_dir_entry_list(e) == dir_entry_list' = Append(dir_entry_list, e)

(* Mutant: the end of a block goes unnoticed.                              *)
NeverReadsOn ==
  /\ reading = "entries" /\ DirEntry.inode # 0
  /\ append_dir_entry_list(DirEntry)
  /\ dir_entry_offset' = dir_entry_offset + DirEntry.rec_len
  /\ UNCHANGED <<reading, headerVars, buffer, block_offset, root_first_block,
                 printed_inodes>>

(* A round of the loop of populate_dir_entry_list.  Behind the last entry  *)
(* of a block the next one read is block_offset itself, not the block the  *)
(* inode names: block 0, which begins with zeros.                          *)
populate_dir_entry_list ==
  /\ reading = "entries" /\ DirEntry.inode # 0
  /\ append_dir_entry_list(DirEntry)
  /\ dir_entry_offset' = dir_entry_offset + DirEntry.rec_len
  /\ IF dir_entry_offset' % BLOCK_SIZE = 0
     THEN buffer_read_block(block_offset) /\ block_offset' = block_offset + 1
     ELSE UNCHANGED <<buffer, block_offset>>
  /\ UNCHANGED <<reading, headerVars, root_first_block, printed_inodes>>

end_populate ==
  /\ reading = "entries" /\ DirEntry.inode = 0 /\ reading' = "inodes"
  /\ UNCHANGED <<headerVars, buffer, root_first_block, walkVars, printed_inodes>>

print_root_directory_inodes ==
  LET i == Len(printed_inodes) + 1
  IN  /\ reading = "inodes" /\ i \in DOMAIN dir_entry_list
      /\ \E inode \in {0} \cup 1 .. disk.inodes_per_group :
           /\ buffer_get_inode(dir_entry_list[i].inode, inode)
           /\ printed_inodes' = Append(printed_inodes, inode)
      /\ UNCHANGED <<reading, headerVars, root_first_block, walkVars>>

free_all ==
  /\ reading = "inodes" /\ Len(printed_inodes) = Len(dir_entry_list)
  /\ reading' = "done"
  /\ UNCHANGED <<headerVars, buffer, root_first_block, walkVars, printed_inodes>>

(* main is about to read a block.                                          *)
Reads ==
  \/ reading \in {"superblock", "bg_descriptor", "populate"}
  \/ reading = "root" /\ superblock > 0
  \/ /\ reading = "entries" /\ DirEntry.inode # 0
     /\ (dir_entry_offset + DirEntry.rec_len) % BLOCK_SIZE = 0
  \/ reading = "inodes" /\ Len(printed_inodes) < Len(dir_entry_list)

(* exit(2).                                                                *)
read_fails ==
  /\ Reads /\ reading' = "failed"
  /\ UNCHANGED <<headerVars, buffer, root_first_block, walkVars, printed_inodes>>

DiskEnded ==
  reading \in {"done", "exited", "failed", "sigfpe"} /\ UNCHANGED diskVars

DiskStart == (\E d \in Disks : buffer_init(d)) \/ cannot_open

DiskNext ==
  \/ DiskStart \/ init_superblock \/ init_bg_descriptor
  \/ read_root_inode \/ divide_by_inode_size
  \/ begin_populate \/ populate_dir_entry_list \/ end_populate
  \/ print_root_directory_inodes \/ free_all \/ read_fails \/ DiskEnded

DiskSpec == DiskInit /\ [][DiskNext]_diskVars

-----------------------------------------------------------------------------
(* Properties, of images that are not cut off, have inodes of the size of  *)
(* the structure and are not larger than 2 GiB.                            *)

Covered == /\ disk.size \in 1 .. SeekLimit /\ disk.s_inode_size = InodeUnits
           /\ disk.bg_inode_table * BLOCK_SIZE + disk.inodes_per_group
                <= disk.size * BLOCK_SIZE
           /\ \A i \in DOMAIN disk.directory : disk.directory[i].number < disk.size

FirstBlock == disk.directory[1].entries

(* The listing is the first block of the directory up to its first unused  *)
(* entry, each entry once and in order: a directory of one block without   *)
(* unused entries is listed in full, and only its first block of a longer  *)
(* one.                                                                    *)
ListsDirectory ==
  Covered =>
    /\ Len(dir_entry_list) <= Len(FirstBlock)
    /\ \A i \in DOMAIN dir_entry_list :
         dir_entry_list[i] = FirstBlock[i] /\ FirstBlock[i].inode # 0
    /\ reading = "done" /\ Len(dir_entry_list) < Len(FirstBlock) =>
         FirstBlock[Len(dir_entry_list) + 1].inode = 0

(* The inode printed for an entry is the one the entry names, if it is in  *)
(* the first block group, although each look-up overwrites the buffer the  *)
(* entries and the root inode came from.                                   *)
InodesMatch ==
  Covered =>
    \A i \in DOMAIN printed_inodes :
      dir_entry_list[i].inode \in 1 .. disk.inodes_per_group =>
        printed_inodes[i] = dir_entry_list[i].inode
=============================================================================
