------------------------------ MODULE FdtWriter ------------------------------
(***************************************************************************)
(* The sequential writer of libfdt, which lays a device tree out in one    *)
(* buffer: a header, the structure growing upwards, and the names of the   *)
(* properties growing down from the end.  Program is the calls a client    *)
(* makes, in order; DTBBuilder::build looks at the result of none of them. *)
(*                                                                         *)
(* Lengths are bytes.  What is kept of the bytes is what they are read as: *)
(* the tags of the structure, each with the name of its node or the offset *)
(* of the name of its property, and the names read in the strings block.   *)
(***************************************************************************)
EXTENDS Integers, Sequences, FiniteSets

CONSTANTS
    BufSizes,   \* the sizes of the buffer
    NameLength, \* the names of nodes and properties with their lengths
    Suffixes,   \* pairs of names, the first of which the second ends in
    Program     \* the calls: records of op, name and len

Names == DOMAIN NameLength
Call == [op : {"create", "finish_reservemap", "begin_node", "end_node", "property",
               "finish", "pack"},
         name : Names, len : Nat]

\* A name is shorter than what precedes the structure, so that no unsigned
\* difference of fdt_add_string_ wraps.
ASSUME WriterAssumption ==
    /\ BufSizes \subseteq Nat
    /\ NameLength \in [Names -> 0 .. 63]
    /\ "" \in Names
    /\ Suffixes \subseteq Names \X Names
    /\ \A n \in Names : <<n, n>> \in Suffixes
    /\ \A p \in Suffixes : NameLength[p[1]] <= NameLength[p[2]]
    /\ \A p \in Suffixes, q \in Suffixes :
          p[2] = q[2] /\ NameLength[p[1]] = NameLength[q[1]] => p[1] = q[1]
    /\ Program \in Seq(Call)
    /\ \A k \in 1 .. Len(Program) : Program[k].op = "end_node" => Program[k].name = ""

VARIABLES
    calls,  \* how many were made
    buf_size, magic, totalsize, off_mem_rsvmap, off_dt_struct, off_dt_strings,
    size_dt_struct, size_dt_strings,
    structure, \* the tags
    strings    \* names, with how far before the end they are read
header == <<buf_size, magic, totalsize, off_mem_rsvmap, off_dt_struct, off_dt_strings,
            size_dt_struct, size_dt_strings>>
tree == <<header, structure, strings>>
fdtVars == <<calls, tree>>

HeaderSize == 48   \* sizeof(struct fdt_header), aligned to a reserve entry
PackedHeader == 40
ReserveEntry == 16
TagSize == 4
PropertySize == 12
TagAlign(n) == ((n + 3) \div 4) * 4

WriterInit ==
    /\ calls = 0
    /\ buf_size \in BufSizes
    /\ magic = "none"
    /\ totalsize = 0 /\ off_mem_rsvmap = 0
    /\ off_dt_struct = 0 /\ off_dt_strings = 0
    /\ size_dt_struct = 0 /\ size_dt_strings = 0
    /\ structure = <<>> /\ strings = {}

\* fdt_sw_probe_memrsv_ and fdt_sw_probe_struct_.
InReserveMap == magic = "sw" /\ off_dt_strings = 0
InStructure == magic = "sw" /\ off_dt_strings = totalsize

StructTop == off_dt_struct + size_dt_struct

\* fdt_grab_space_, with the names taking up namesize bytes.
\* Seeded fault: the names are forgotten.
Fits_OverNames(len, namesize) == size_dt_struct + len <= totalsize - off_dt_struct
Fits(len, namesize) == size_dt_struct + len <= totalsize - off_dt_struct - namesize

Tag(tag, name, nameoff) == [tag |-> tag, name |-> name, nameoff |-> nameoff]

Grab(len, tag) ==
    /\ size_dt_struct' = size_dt_struct + len
    /\ structure' = Append(structure, tag)
    /\ UNCHANGED <<buf_size, magic, totalsize, off_mem_rsvmap, off_dt_struct, off_dt_strings>>

Create ==
    IF buf_size >= HeaderSize
    THEN /\ magic' = "sw" /\ totalsize' = buf_size
         /\ off_mem_rsvmap' = HeaderSize /\ off_dt_struct' = HeaderSize /\ off_dt_strings' = 0
         /\ size_dt_struct' = 0 /\ size_dt_strings' = 0
         /\ structure' = <<>> /\ strings' = {}
         /\ UNCHANGED buf_size
    ELSE UNCHANGED tree

\* fdt_add_reservemap_entry of the empty entry, and the strings begin.
FinishReservemap ==
    IF InReserveMap /\ off_dt_struct + ReserveEntry <= totalsize
    THEN /\ off_dt_struct' = off_dt_struct + ReserveEntry
         /\ off_dt_strings' = totalsize
         /\ UNCHANGED <<buf_size, magic, totalsize, off_mem_rsvmap, size_dt_struct,
                        size_dt_strings, structure, strings>>
    ELSE UNCHANGED tree

BeginNode(name) ==
    LET len == TagSize + TagAlign(NameLength[name] + 1)
    IN  IF InStructure /\ Fits(len, size_dt_strings)
        THEN Grab(len, Tag("begin", name, 0)) /\ UNCHANGED <<size_dt_strings, strings>>
        ELSE UNCHANGED tree

EndNode ==
    IF InStructure /\ Fits(TagSize, size_dt_strings)
    THEN Grab(TagSize, Tag("end", "", 0)) /\ UNCHANGED <<size_dt_strings, strings>>
    ELSE UNCHANGED tree

\* fdt_find_string_: the first place in the block, which is the furthest from
\* the end, where name can be read.
Found(name) == {e \in strings : e.name = name}
FirstFound(name) == CHOOSE e \in Found(name) : \A other \in Found(name) : e.at >= other.at

\* The names that can be read once name was put at that distance.
Readable(name, at) ==
    {[name |-> p[1], at |-> at - (NameLength[name] - NameLength[p[1]])] :
        p \in {p \in Suffixes : p[2] = name}}

\* The block without its last name, which fdt_del_last_string_ takes back.
RolledBack_Kept(name, namesize) == namesize
RolledBack(name, namesize) == namesize - (NameLength[name] + 1)

\* A property whose name is there already.
PropertySharing(name, size) ==
    IF Fits(size, size_dt_strings)
    THEN /\ Grab(size, Tag("prop", "", -FirstFound(name).at))
         /\ UNCHANGED <<size_dt_strings, strings>>
    ELSE UNCHANGED tree

\* A property whose name has to be added: fdt_add_string_ first, then the
\* property, and the name is taken back if that does not fit.
PropertyNaming(name, size) ==
    LET namesize == size_dt_strings + NameLength[name] + 1
        added == strings \cup Readable(name, namesize)
        rolled == RolledBack(name, namesize)
    IN  IF totalsize - namesize < StructTop THEN UNCHANGED tree
        ELSE IF Fits(size, namesize)
        THEN /\ Grab(size, Tag("prop", "", -namesize))
             /\ size_dt_strings' = namesize
             /\ strings' = added
        ELSE /\ size_dt_strings' = rolled
             /\ strings' = {e \in added : e.at <= rolled}
             /\ UNCHANGED <<buf_size, magic, totalsize, off_mem_rsvmap, off_dt_struct,
                            off_dt_strings, size_dt_struct, structure>>

Property(name, len) ==
    IF ~InStructure THEN UNCHANGED tree
    ELSE IF Found(name) # {} THEN PropertySharing(name, PropertySize + TagAlign(len))
    ELSE PropertyNaming(name, PropertySize + TagAlign(len))

\* Where the name of a property is once the names follow the structure.
\* Seeded fault: it is left where it was.
Moved_Not(nameoff) == nameoff
Moved(nameoff) == nameoff + size_dt_strings

\* fdt_finish: the names follow the structure, and every property is told how
\* far from the beginning of the block its name is.
Finish ==
    IF InStructure /\ Fits(TagSize, size_dt_strings)
    THEN /\ size_dt_struct' = size_dt_struct + TagSize
         /\ structure' = [k \in 1 .. Len(structure) |->
                IF structure[k].tag = "prop"
                THEN [structure[k] EXCEPT !.nameoff = Moved(@)]
                ELSE structure[k]]
         /\ off_dt_strings' = StructTop + TagSize
         /\ totalsize' = StructTop + TagSize + size_dt_strings
         /\ magic' = "complete"
         /\ UNCHANGED <<buf_size, off_mem_rsvmap, off_dt_struct, size_dt_strings, strings>>
    ELSE UNCHANGED tree

\* fdt_rw_probe_ refuses a tree in which anything is out of order; one that is
\* not finished may pass.
Packable ==
    /\ magic = "complete" \/ (magic = "sw" /\ size_dt_struct # 0)
    /\ off_dt_struct >= off_mem_rsvmap + ReserveEntry
    /\ off_dt_strings >= StructTop
    /\ totalsize >= off_dt_strings + size_dt_strings

\* fdt_pack: the smaller header.  A tree not aligned in memory stays as it is,
\* and nothing aligns the array build is given.
Pack ==
    \/ /\ Packable
       /\ off_mem_rsvmap' = PackedHeader
       /\ off_dt_struct' = PackedHeader + ReserveEntry
       /\ off_dt_strings' = PackedHeader + ReserveEntry + size_dt_struct
       /\ totalsize' = PackedHeader + ReserveEntry + size_dt_struct + size_dt_strings
       /\ UNCHANGED <<buf_size, magic, size_dt_struct, size_dt_strings, structure, strings>>
    \/ UNCHANGED tree

Make(c) ==
    \/ c.op = "create" /\ Create
    \/ c.op = "finish_reservemap" /\ FinishReservemap
    \/ c.op = "begin_node" /\ BeginNode(c.name)
    \/ c.op = "end_node" /\ EndNode
    \/ c.op = "property" /\ Property(c.name, c.len)
    \/ c.op = "finish" /\ Finish
    \/ c.op = "pack" /\ Pack

NextCall ==
    /\ calls < Len(Program)
    /\ calls' = calls + 1
    /\ Make(Program[calls + 1])

WriterSpec == WriterInit /\ [][NextCall]_fdtVars

-----------------------------------------------------------------------------
(* Properties.                                                             *)

WriterTypeOK ==
    /\ calls \in 0 .. Len(Program)
    /\ buf_size \in BufSizes
    /\ magic \in {"none", "sw", "complete"}
    /\ totalsize \in Nat /\ off_mem_rsvmap \in Nat /\ off_dt_struct \in Nat
    /\ off_dt_strings \in Nat /\ size_dt_struct \in Nat /\ size_dt_strings \in Nat
    /\ structure \in Seq([tag : {"begin", "end", "prop"}, name : Names \cup {""}, nameoff : Int])
    /\ strings \subseteq [name : Names, at : Nat]

\* The names, growing down, and the structure, growing up, never run into each
\* other, and both stay in the buffer, whatever calls failed before for want of
\* room (fdt_grab_space_, fdt_add_string_, fdt_finish, fdt_pack).  fdt_totalsize
\* is how many bytes the system copies out of the buffer.
BlocksDisjoint ==
    /\ totalsize <= buf_size
    /\ InStructure => StructTop + size_dt_strings <= totalsize
    /\ magic = "complete" =>
          /\ off_mem_rsvmap + ReserveEntry <= off_dt_struct
          /\ StructTop <= off_dt_strings
          /\ off_dt_strings + size_dt_strings = totalsize

\* The last name in the block is the name of a property: a property that did
\* not fit leaves none behind (fdt_property_placeholder).
NoOrphanName ==
    magic = "sw" /\ size_dt_strings > 0 =>
        \E k \in 1 .. Len(structure) :
            structure[k].tag = "prop" /\ structure[k].nameoff = -size_dt_strings

\* How far before the end of the block an offset points.
EndOfNames == IF magic = "complete" THEN size_dt_strings ELSE 0
Distance(nameoff) == EndOfNames - nameoff

\* What a tag is read as, given the names and the end of their block.
TokenIn(t, names, end) ==
    [tag |-> t.tag,
     names |-> IF t.tag = "prop"
               THEN {e.name : e \in {e \in names : e.at = end - t.nameoff}}
               ELSE {t.name}]
Tokens == [k \in 1 .. Len(structure) |-> TokenIn(structure[k], strings, EndOfNames)]

\* A reader finds the nodes and properties that were written, in the order of
\* the calls and under their names; a call that failed wrote nothing, and
\* moving the names and the structure about changes nothing of it.
Written == INSTANCE DeviceTree WITH tokens <- Tokens
TreeSpec == Written!TreeSpec
=============================================================================
