----------------------------- MODULE HostProofs ------------------------------
(***************************************************************************)
(* The writer of device trees keeps its blocks apart and writes the tree   *)
(* of its calls, for every program of calls and every size of the buffer.  *)
(* The program, for every command line, every file, every guest and every  *)
(* size of the trace's ring: its types, the trace it dumps, the text on    *)
(* its console, and what is in memory when the firmware of OpenSBI begins. *)
(***************************************************************************)
EXTENDS Host, SequenceTheorems, FiniteSetTheorems, WellFoundedInduction, TLAPS

-----------------------------------------------------------------------------
(* The writer.                                                             *)

\* The sizes and offsets of the header are numbers, and each phase has its
\* layout: nothing before fdt_create, no blocks in the reserve map, then two
\* blocks that grow towards each other, then the two side by side.
Sizes ==
    /\ buf_size \in Nat /\ totalsize \in Nat /\ off_mem_rsvmap \in Nat
    /\ off_dt_struct \in Nat /\ off_dt_strings \in Nat
    /\ size_dt_struct \in Nat /\ size_dt_strings \in Nat
    /\ magic \in {"none", "sw", "complete"}

Empty == size_dt_struct = 0 /\ size_dt_strings = 0

Writing ==
    /\ off_mem_rsvmap \in {PackedHeader, HeaderSize}
    /\ totalsize >= HeaderSize
    /\ off_dt_struct >= off_mem_rsvmap
    /\ off_dt_strings = 0 => Empty
    /\ off_dt_strings # 0 =>
          /\ off_dt_strings = totalsize
          /\ off_dt_struct >= off_mem_rsvmap + ReserveEntry
          /\ StructTop + size_dt_strings <= totalsize

Complete ==
    /\ off_mem_rsvmap \in {PackedHeader, HeaderSize}
    /\ off_mem_rsvmap + ReserveEntry <= off_dt_struct
    /\ StructTop <= off_dt_strings
    /\ off_dt_strings + size_dt_strings = totalsize

Layout ==
    /\ totalsize <= buf_size
    /\ magic = "none" => Empty /\ totalsize = 0
    /\ magic = "sw" => Writing
    /\ magic = "complete" => Complete

LayoutInv == calls \in Nat /\ Sizes /\ Layout

-----------------------------------------------------------------------------

\* The alignment to four bytes of a length is a length.
LEMMA TagAlignNat == ASSUME NEW n \in Nat PROVE TagAlign(n) \in Nat
BY DEF TagAlign

\* The parts of the assumption that are used, one by one.
LEMMA BufferSizes == BufSizes \subseteq Nat
BY WriterAssumption

LEMMA NameLengths == NameLength \in [Names -> 0 .. 63]
BY WriterAssumption

LEMMA EmptyName == "" \in Names
BY WriterAssumption

LEMMA LengthsNat == \A n \in Names : NameLength[n] \in Nat
<1>1. \A n \in 0 .. 63 : n \in Nat
  OBVIOUS
<1> QED BY <1>1, NameLengths, Zenon

LEMMA ProgramCalls == Program \in Seq(Call)
BY WriterAssumption

\* A call of the program has a name whose length is known.
LEMMA CallFacts ==
    ASSUME calls \in Nat, calls < Len(Program)
    PROVE  /\ Program[calls + 1] \in Call
           /\ Program[calls + 1].name \in Names
           /\ Program[calls + 1].len \in Nat
           /\ NameLength[Program[calls + 1].name] \in Nat
<1>1. Program \in Seq(Call)
  BY ProgramCalls
<1>2. calls + 1 \in 1 .. Len(Program)
  <2>1. Len(Program) \in Nat
    BY <1>1
  <2> QED BY <2>1
<1>3. Program[calls + 1] \in Call
  BY <1>1, <1>2
<1>4. Program[calls + 1].name \in Names /\ Program[calls + 1].len \in Nat
  BY <1>3 DEF Call
<1>5. NameLength[Program[calls + 1].name] \in Nat
  BY <1>4, LengthsNat, Zenon
<1> QED BY <1>3, <1>4, <1>5

\* Room that fdt_grab_space_ found keeps the blocks apart.
LEMMA GrabLayout ==
    ASSUME Sizes, Layout, InStructure, NEW len \in Nat, NEW t, NEW namesize \in Nat,
           namesize >= size_dt_strings, Fits(len, namesize), Grab(len, t),
           size_dt_strings' = namesize
    PROVE  Sizes' /\ Layout'
<1>1. off_dt_strings # 0 /\ off_dt_strings = totalsize
  BY DEF InStructure, Layout, Writing, HeaderSize, Sizes
<1>2. Sizes'
  BY DEF Sizes, Grab
<1>3. StructTop' + size_dt_strings' <= totalsize'
  BY DEF Sizes, Grab, Fits, StructTop
<1> QED BY <1>1, <1>2, <1>3 DEF Sizes, Layout, Writing, Empty, Grab, InStructure, StructTop

\* Every call keeps the layout.
LEMMA CreateLayout == Sizes /\ Layout /\ Create => Sizes' /\ Layout'
BY DEF Sizes, Layout, Create, Writing, Empty, HeaderSize, PackedHeader, tree, header,
       StructTop, Complete

LEMMA ReservemapLayout == Sizes /\ Layout /\ FinishReservemap => Sizes' /\ Layout'
BY DEF Sizes, Layout, FinishReservemap, Writing, Empty, HeaderSize, PackedHeader, tree, header,
       StructTop, Complete, InReserveMap, ReserveEntry

\* A call that fails changes nothing.
LEMMA FailedLayout == Sizes /\ Layout /\ UNCHANGED tree => Sizes' /\ Layout'
BY DEF Sizes, Layout, Writing, Empty, tree, header, StructTop, Complete

LEMMA BeginNodeLayout ==
    ASSUME Sizes, Layout, NEW name, NameLength[name] \in Nat, BeginNode(name)
    PROVE  Sizes' /\ Layout'
<1> DEFINE len == TagSize + TagAlign(NameLength[name] + 1)
<1>1. CASE InStructure /\ Fits(len, size_dt_strings)
  <2>1. len \in Nat
    BY TagAlignNat DEF TagSize
  <2>2. Grab(len, Tag("begin", name, 0)) /\ size_dt_strings' = size_dt_strings
    BY <1>1 DEF BeginNode
  <2>3. size_dt_strings \in Nat
    BY DEF Sizes
  <2> HIDE DEF len
  <2> QED BY <1>1, <2>1, <2>2, <2>3, GrabLayout
<1>2. CASE ~(InStructure /\ Fits(len, size_dt_strings))
  BY <1>2, FailedLayout DEF BeginNode
<1> QED BY <1>1, <1>2

LEMMA EndNodeLayout ==
    ASSUME Sizes, Layout, EndNode
    PROVE  Sizes' /\ Layout'
<1>1. CASE InStructure /\ Fits(TagSize, size_dt_strings)
  <2>1. PICK len, t : len = TagSize /\ t = Tag("end", "", 0)
    OBVIOUS
  <2>0. len \in Nat BY <2>1 DEF TagSize
  <2>2. Fits(len, size_dt_strings) /\ Grab(len, t) /\ size_dt_strings' = size_dt_strings
    BY <1>1, <2>1 DEF EndNode
  <2>3. size_dt_strings \in Nat /\ size_dt_strings >= size_dt_strings
    BY DEF Sizes
  <2> QED BY <1>1, <2>0, <2>2, <2>3, GrabLayout
<1>2. CASE ~(InStructure /\ Fits(TagSize, size_dt_strings))
  BY <1>2, FailedLayout DEF EndNode
<1> QED BY <1>1, <1>2

LEMMA PropertyLayout ==
    ASSUME Sizes, Layout, NEW name, NameLength[name] \in Nat, NEW len \in Nat,
           Property(name, len)
    PROVE  Sizes' /\ Layout'
<1> DEFINE size == PropertySize + TagAlign(len)
           namesize == size_dt_strings + NameLength[name] + 1
<1>1. size \in Nat /\ namesize \in Nat /\ size_dt_strings \in Nat /\ namesize >= size_dt_strings
  BY TagAlignNat DEF PropertySize, Sizes
<1>2. CASE UNCHANGED tree
  BY <1>2, FailedLayout
<1>3. CASE InStructure /\ PropertySharing(name, size) /\ ~UNCHANGED tree
  <2>1. /\ Fits(size, size_dt_strings)
        /\ Grab(size, Tag("prop", "", -FirstFound(name).at))
        /\ size_dt_strings' = size_dt_strings
    BY <1>3 DEF PropertySharing
  <2>2. PICK t : t = Tag("prop", "", -FirstFound(name).at)
    OBVIOUS
  <2>3. size_dt_strings >= size_dt_strings
    BY <1>1
  <2> HIDE DEF size
  <2>4. Grab(size, t)
    BY <2>1, <2>2
  <2> QED BY <1>1, <1>3, <2>1, <2>3, <2>4, GrabLayout
<1>4. CASE InStructure /\ PropertyNaming(name, size) /\ ~UNCHANGED tree
  <2>1. CASE Fits(size, namesize)
    <3>1. Grab(size, Tag("prop", "", -namesize)) /\ size_dt_strings' = namesize
      BY <1>4, <2>1 DEF PropertyNaming
    <3> HIDE DEF size, namesize
    <3> QED BY <1>1, <1>4, <2>1, <3>1, GrabLayout
  <2>2. CASE ~Fits(size, namesize)
    <3>1. /\ size_dt_strings' = RolledBack(name, namesize)
          /\ UNCHANGED <<buf_size, magic, totalsize, off_mem_rsvmap, off_dt_struct,
                         off_dt_strings, size_dt_struct, structure>>
      BY <1>4, <2>2 DEF PropertyNaming
    <3>2. size_dt_strings' = size_dt_strings
      BY <1>1, <3>1 DEF RolledBack
    <3> HIDE DEF size, namesize
    <3> QED BY <3>1, <3>2 DEF Sizes, Layout, Writing, Empty, StructTop, Complete
  <2> QED BY <2>1, <2>2
<1> QED BY <1>2, <1>3, <1>4 DEF Property

\* fdt_finish moves the names down, next to the structure.
LEMMA FinishLayout == Sizes /\ Layout /\ Finish => Sizes' /\ Layout'
<1> SUFFICES ASSUME Sizes, Layout, Finish PROVE Sizes' /\ Layout'
  OBVIOUS
<1>1. CASE InStructure /\ Fits(TagSize, size_dt_strings)
  <2>1. off_dt_strings # 0
    BY <1>1 DEF InStructure, Layout, Writing, HeaderSize, Sizes
  <2>2. Writing /\ magic' = "complete"
    BY <1>1 DEF InStructure, Layout, Finish
  <2>3. Sizes'
    BY <1>1 DEF Finish, Sizes, TagSize, StructTop
  <2> QED BY <1>1, <2>1, <2>2, <2>3 DEF Sizes, Layout, Writing, Finish, Complete, StructTop,
                                        TagSize, Fits
<1>2. CASE ~(InStructure /\ Fits(TagSize, size_dt_strings))
  BY <1>2, FailedLayout DEF Finish
<1> QED BY <1>1, <1>2

\* fdt_pack makes the tree smaller, a finished one or one it took for one.
LEMMA PackLayout == Sizes /\ Layout /\ Pack => Sizes' /\ Layout'
<1> SUFFICES ASSUME Sizes, Layout, Pack PROVE Sizes' /\ Layout'
  OBVIOUS
<1>1. CASE UNCHANGED tree
  BY <1>1, FailedLayout
<1>2. CASE ~UNCHANGED tree
  <2>1. /\ Packable
        /\ off_mem_rsvmap' = PackedHeader
        /\ off_dt_struct' = PackedHeader + ReserveEntry
        /\ off_dt_strings' = PackedHeader + ReserveEntry + size_dt_struct
        /\ totalsize' = PackedHeader + ReserveEntry + size_dt_struct + size_dt_strings
        /\ UNCHANGED <<buf_size, magic, size_dt_struct, size_dt_strings, structure, strings>>
    BY <1>2 DEF Pack
  <2>2. Sizes'
    BY <2>1 DEF Sizes, PackedHeader, ReserveEntry
  <2>3. CASE magic = "complete"
    BY <2>1, <2>2, <2>3 DEF Sizes, Layout, Complete, Packable, StructTop, PackedHeader,
                            ReserveEntry, HeaderSize
  <2>4. CASE magic = "sw" /\ size_dt_struct # 0
    <3>1. off_dt_strings = totalsize /\ Writing /\ off_dt_strings # 0
      BY <2>4 DEF Layout, Writing, Empty
    <3>2. size_dt_strings = 0
      BY <2>1, <3>1 DEF Packable, Sizes
    <3> QED BY <2>1, <2>2, <2>4, <3>1, <3>2 DEF Sizes, Layout, Writing, StructTop, PackedHeader,
                                                ReserveEntry, HeaderSize, Packable, Empty
  <2> QED BY <2>1, <2>3, <2>4 DEF Packable
<1> QED BY <1>1, <1>2

LEMMA InitLayout == WriterInit => LayoutInv
BY BufferSizes DEF WriterInit, LayoutInv, Sizes, Layout, Empty

LEMMA NextLayout == LayoutInv /\ [NextCall]_fdtVars => LayoutInv'
<1> SUFFICES ASSUME LayoutInv, [NextCall]_fdtVars PROVE LayoutInv'
  OBVIOUS
<1> USE DEF LayoutInv
<1>1. CASE UNCHANGED fdtVars
  BY <1>1, FailedLayout DEF fdtVars
<1>2. CASE NextCall
  <2> DEFINE c == Program[calls + 1]
  <2>1. c.name \in Names /\ c.len \in Nat /\ NameLength[c.name] \in Nat /\ calls' \in Nat
    BY <1>2, CallFacts DEF NextCall
  <2>2. Make(c)
    BY <1>2 DEF NextCall
  <2> HIDE DEF c
  <2>3. CASE Create
    BY <2>1, <2>3, CreateLayout
  <2>4. CASE FinishReservemap
    BY <2>1, <2>4, ReservemapLayout
  <2>5. CASE BeginNode(c.name)
    BY <2>1, <2>5, BeginNodeLayout
  <2>6. CASE EndNode
    BY <2>1, <2>6, EndNodeLayout
  <2>7. CASE Property(c.name, c.len)
    BY <2>1, <2>7, PropertyLayout
  <2>8. CASE Finish
    BY <2>1, <2>8, FinishLayout
  <2>9. CASE Pack
    BY <2>1, <2>9, PackLayout
  <2> QED BY <2>2, <2>3, <2>4, <2>5, <2>6, <2>7, <2>8, <2>9 DEF Make
<1> QED BY <1>1, <1>2

\* The writer never leaves its buffer and never writes names over structure or
\* structure over names, for every program of calls and every buffer.
THEOREM BlocksKeptApart == WriterSpec => []BlocksDisjoint
<1>1. LayoutInv => BlocksDisjoint
  BY DEF LayoutInv, Sizes, Layout, Writing, Complete, BlocksDisjoint, InStructure, StructTop,
         HeaderSize
<1> QED BY <1>1, InitLayout, NextLayout, PTL DEF WriterSpec

-----------------------------------------------------------------------------
(* The names.                                                              *)

TagSet == [tag : {"begin", "end", "prop"}, name : Names, nameoff : Int]

\* Every place in the strings block is read as one name, every name lies in
\* the block, and so does what a property points to.  With the last conjunct
\* that is why a name added later changes nothing that was written.
Readings(names, size) ==
    /\ names \subseteq [name : Names, at : Nat]
    /\ \A e \in names : e.at <= size
    /\ \A e \in names, d \in names : e.at = d.at => e.name = d.name

NamesInv ==
    /\ structure \in Seq(TagSet)
    /\ Readings(strings, size_dt_strings)
    /\ \A k \in 1 .. Len(structure) :
          structure[k].tag = "prop" => Distance(structure[k].nameoff) <= size_dt_strings
    /\ NoOrphanName

TreeInv == LayoutInv /\ NamesInv

\* A set of numbers with a bound has a greatest one.
Below == {p \in Nat \X Nat : p[1] < p[2]}

LEMMA BelowIsWellFounded == IsWellFoundedOn(Below, Nat)
BY NatLessThanWellFounded, Zenon DEF OpToRel, Below

LEMMA Highest ==
    ASSUME NEW S, S \subseteq Nat, S # {}, NEW bound \in Nat, \A n \in S : n <= bound
    PROVE  \E top \in S : \A n \in S : top >= n
<1> DEFINE T == {n \in Nat : n <= bound /\ bound - n \in S}
<1>1. PICK s \in S : TRUE
  OBVIOUS
<1>2. s \in Nat /\ s <= bound
  BY <1>1
<1>3. bound - s \in T
  BY <1>1, <1>2
<1>4. T \subseteq Nat /\ T # {}
  BY <1>3
<1> HIDE DEF T
<1>5. PICK x \in T : \A y \in T : ~(<<y, x>> \in Below)
  BY <1>4, BelowIsWellFounded, WFMin
<1> USE DEF T
<1>6. bound - x \in S /\ x \in Nat
  BY <1>5
<1>7. ASSUME NEW n \in S PROVE bound - x >= n
  <2>1. bound - n \in T
    <3>1. n \in Nat /\ n <= bound
      BY <1>7
    <3>2. PICK m : m = bound - n
      OBVIOUS
    <3>3. bound - m = n /\ m \in Nat /\ m <= bound
      BY <3>1, <3>2
    <3> QED BY <3>2, <3>3, <1>7
  <2>2. ~(<<bound - n, x>> \in Below)
    BY <1>5, <2>1
  <2>3. bound - n \in Nat
    BY <2>1
  <2>4. ~(bound - n < x)
    BY <2>2, <2>3, <1>6 DEF Below
  <2> QED BY <2>4, <1>6, <1>7
<1> QED BY <1>6, <1>7

\* fdt_find_string_ finds a name that is there.
LEMMA FirstFoundIsThere ==
    ASSUME NamesInv, size_dt_strings \in Nat, NEW name, Found(name) # {}
    PROVE  FirstFound(name) \in strings /\ FirstFound(name).name = name
<1> DEFINE Places == {e.at : e \in Found(name)}
<1>1. Places \subseteq Nat /\ Places # {} /\ \A n \in Places : n <= size_dt_strings
  BY DEF NamesInv, Readings, Found
<1> HIDE DEF Places
<1>2. PICK top \in Places : \A n \in Places : top >= n
  BY <1>1, Highest
<1> USE DEF Places
<1>3. \E e \in Found(name) : \A other \in Found(name) : e.at >= other.at
  BY <1>2
<1>4. FirstFound(name) \in Found(name)
  BY <1>3, Zenon DEF FirstFound
<1> QED BY <1>4 DEF Found

\* What is read after a name was put in, and where.
LEMMA ReadableFacts ==
    ASSUME NEW name \in Names, NEW s \in Nat,
           NEW e \in Readable(name, s + NameLength[name] + 1)
    PROVE  /\ e \in [name : Names, at : Nat]
           /\ e.at = s + 1 + NameLength[e.name]
           /\ e.at <= s + NameLength[name] + 1
           /\ <<e.name, name>> \in Suffixes
<1>0. PICK at : at = s + NameLength[name] + 1
  OBVIOUS
<1>1. PICK p \in Suffixes :
        /\ p[2] = name
        /\ e = [name |-> p[1], at |-> at - (NameLength[name] - NameLength[p[1]])]
  BY <1>0 DEF Readable
<1>2. p \in Names \X Names /\ NameLength[p[1]] <= NameLength[p[2]]
  BY WriterAssumption
<1>3. \A n \in Names : NameLength[n] \in Nat
  BY LengthsNat
<1>4. p = <<p[1], p[2]>> /\ p[1] \in Names
  BY <1>2
<1>5. NameLength[name] \in Nat /\ NameLength[p[1]] \in Nat
  BY <1>3, <1>4
<1>6. PICK a, b : a = NameLength[name] /\ b = NameLength[p[1]]
  OBVIOUS
<1>7. e.name = p[1] /\ e.at = s + a + 1 - (a - b) /\ a \in Nat /\ b \in Nat /\ b <= a
  BY <1>0, <1>1, <1>2, <1>5, <1>6
<1>8. e.at = s + 1 + b /\ e.at \in Nat /\ e.at <= s + a + 1
  BY <1>7
<1>9. e = [name |-> e.name, at |-> e.at]
  BY <1>1
<1> QED BY <1>1, <1>4, <1>6, <1>7, <1>8, <1>9

\* Two of them at one place are one, and the name itself is one of them.
LEMMA ReadableOnce ==
    ASSUME NEW name \in Names, NEW s \in Nat,
           NEW e \in Readable(name, s + NameLength[name] + 1),
           NEW d \in Readable(name, s + NameLength[name] + 1),
           e.at = d.at
    PROVE  e.name = d.name
<1>1. /\ <<e.name, name>> \in Suffixes /\ <<d.name, name>> \in Suffixes
      /\ e.at = s + 1 + NameLength[e.name] /\ d.at = s + 1 + NameLength[d.name]
      /\ e.name \in Names /\ d.name \in Names
  BY ReadableFacts
<1>2. \A n \in Names : NameLength[n] \in Nat
  BY LengthsNat
<1>3. NameLength[e.name] = NameLength[d.name]
  <2>1. PICK a, b : a = NameLength[e.name] /\ b = NameLength[d.name]
    OBVIOUS
  <2>2. a \in Nat /\ b \in Nat /\ s + 1 + a = s + 1 + b
    BY <1>1, <1>2, <2>1
  <2> QED BY <2>1, <2>2
<1>4. \A p \in Suffixes, q \in Suffixes :
        p[2] = q[2] /\ NameLength[p[1]] = NameLength[q[1]] => p[1] = q[1]
  BY WriterAssumption
<1> QED BY <1>1, <1>3, <1>4

LEMMA ReadableItself ==
    ASSUME NEW name \in Names, NEW at \in Nat
    PROVE  [name |-> name, at |-> at] \in Readable(name, at)
<1>1. <<name, name>> \in Suffixes
  BY WriterAssumption
<1>2. NameLength[name] \in Nat
  BY LengthsNat
<1>3. at - (NameLength[name] - NameLength[name]) = at
  BY <1>2
<1> QED BY <1>1, <1>3 DEF Readable

-----------------------------------------------------------------------------
(* The tree.                                                               *)

LEMMA SuffixUnique ==
    ASSUME NEW a, NEW b, NEW name, <<a, name>> \in Suffixes, <<b, name>> \in Suffixes,
           NameLength[a] = NameLength[b]
    PROVE  a = b
<1>1. \A p \in Suffixes, q \in Suffixes :
        p[2] = q[2] /\ NameLength[p[1]] = NameLength[q[1]] => p[1] = q[1]
  BY WriterAssumption
<1> QED BY <1>1

\* More names, all further from the end than a distance.
Further(names, more, size) ==
    names \subseteq more /\ \A e \in more : e \notin names => ~(e.at <= size)

\* Names added further from the end change no token.
LEMMA TokenKept ==
    ASSUME NEW t \in TagSet, NEW names, NEW more, NEW end \in Int, NEW size \in Nat,
           Further(names, more, size),
           t.tag = "prop" => end - t.nameoff <= size
    PROVE  TokenIn(t, more, end) = TokenIn(t, names, end)
<1> USE DEF Further
<1>1. CASE t.tag = "prop"
  <2>1. PICK d : d = end - t.nameoff
    OBVIOUS
  <2>2. d <= size
    BY <1>1, <2>1
  <2>3. {e \in more : e.at = d} = {e \in names : e.at = d}
    BY <2>2
  <2> QED BY <2>1, <2>3 DEF TokenIn
<1>2. CASE t.tag # "prop"
  BY <1>2 DEF TokenIn
<1> QED BY <1>1, <1>2

\* A function on 1 .. n + 1 as the sequence it extends.
LEMMA FunctionAppended ==
    ASSUME NEW n \in Nat, NEW T, NEW old, NEW new, old = [k \in 1 .. n |-> old[k]],
           new = [k \in 1 .. n + 1 |-> IF k = n + 1 THEN T ELSE old[k]]
    PROVE  new = Append(old, T)
<1> DEFINE S == {old[k] : k \in 1 .. n} \cup {T}
<1>1. old \in [1 .. n -> S] /\ new \in [1 .. n + 1 -> S] /\ T \in S
  OBVIOUS
<1> HIDE DEF S
<1>2. old \in Seq(S) /\ new \in Seq(S) /\ Len(old) = n /\ Len(new) = n + 1
  BY <1>1
<1>3. /\ Append(old, T) \in Seq(S) /\ Len(Append(old, T)) = n + 1
      /\ \A k \in 1 .. n : Append(old, T)[k] = old[k]
      /\ Append(old, T)[n + 1] = T
  BY <1>1, <1>2, AppendProperties
<1>4. \A k \in 1 .. n + 1 : new[k] = Append(old, T)[k]
  <2> TAKE k \in 1 .. n + 1
  <2>1. CASE k = n + 1
    BY <1>3, <2>1
  <2>2. CASE k # n + 1
    BY <1>3, <2>2
  <2> QED BY <2>1, <2>2
<1>5. PICK s : s = Append(old, T)
  OBVIOUS
<1>6. s \in Seq(S) /\ Len(s) = Len(new) /\ \A k \in 1 .. Len(new) : new[k] = s[k]
  BY <1>2, <1>3, <1>4, <1>5
<1>7. new = s
  BY <1>2, <1>6, SeqEqual
<1> QED BY <1>5, <1>7

\* A tag appended, with perhaps a name added, is a token appended.
LEMMA TokensAppended ==
    ASSUME NamesInv, size_dt_strings \in Nat, magic # "complete", magic' = magic,
           NEW t \in TagSet, structure' = Append(structure, t),
           Further(strings, strings', size_dt_strings)
    PROVE  Tokens' = Append(Tokens, TokenIn(t, strings', 0))
<1>1. EndOfNames = 0 /\ EndOfNames' = 0
  BY DEF EndOfNames
<1>2. /\ structure \in Seq(TagSet) /\ Len(structure) \in Nat
      /\ Len(structure') = Len(structure) + 1
      /\ structure'[Len(structure) + 1] = t
      /\ \A k \in 1 .. Len(structure) : structure'[k] = structure[k] /\ structure[k] \in TagSet
  BY AppendProperties DEF NamesInv
<1>3. ASSUME NEW k \in 1 .. Len(structure)
      PROVE  TokenIn(structure'[k], strings', 0) = TokenIn(structure[k], strings, 0)
  <2>1. PICK u : u = structure[k]
    OBVIOUS
  <2>2. u \in TagSet /\ structure'[k] = u
    BY <1>2, <2>1
  <2>3. u.tag = "prop" => 0 - u.nameoff <= size_dt_strings
    BY <1>1, <2>1 DEF NamesInv, Distance
  <2>4. TokenIn(u, strings', 0) = TokenIn(u, strings, 0)
    <3>1. PICK names, more, size, end :
            names = strings /\ more = strings' /\ size = size_dt_strings /\ end = 0
      OBVIOUS
    <3>2. Further(names, more, size)
      BY <3>1
    <3>3. /\ u.tag = "prop" => end - u.nameoff <= size
          /\ end \in Int /\ size \in Nat
      BY <2>3, <3>1
    <3>4. TokenIn(u, more, end) = TokenIn(u, names, end)
      BY <2>2, <3>2, <3>3, TokenKept
    <3> QED BY <3>1, <3>4
  <2> QED BY <2>1, <2>2, <2>4
<1>4. PICK n \in Nat : n = Len(structure)
  BY <1>2
<1>5. Tokens' = [k \in 1 .. n + 1 |-> TokenIn(structure'[k], strings', 0)]
  BY <1>1, <1>2, <1>4 DEF Tokens
<1>6. Tokens = [k \in 1 .. n |-> TokenIn(structure[k], strings, 0)]
  BY <1>1, <1>4 DEF Tokens
<1>8. PICK T : T = TokenIn(t, strings', 0)
  OBVIOUS
<1>10. \A k \in 1 .. n + 1 :
         TokenIn(structure'[k], strings', 0) = IF k = n + 1 THEN T ELSE Tokens[k]
  <2> TAKE k \in 1 .. n + 1
  <2>1. CASE k = n + 1
    BY <1>2, <1>4, <1>8, <2>1
  <2>2. CASE k # n + 1
    <3>1. k \in 1 .. n
      BY <2>2
    <3> QED BY <3>1, <2>2, <1>3, <1>4, <1>6
  <2> QED BY <2>1, <2>2
<1>11. PICK old, new : old = Tokens /\ new = Tokens'
  OBVIOUS
<1>12. /\ old = [k \in 1 .. n |-> old[k]]
       /\ new = [k \in 1 .. n + 1 |-> IF k = n + 1 THEN T ELSE old[k]]
  BY <1>5, <1>6, <1>10, <1>11, Zenon
<1>13. new = Append(old, T)
  BY <1>12, FunctionAppended
<1> QED BY <1>8, <1>11, <1>13

-----------------------------------------------------------------------------
(* The calls.                                                              *)

\* A name put in reads as itself at its place, and only there.
PutIn(names, s, name, n, added) ==
    /\ n \in Nat /\ n > s
    /\ Readings(added, n) /\ Further(names, added, s)
    /\ {e \in added : e.at <= s} = names
    /\ {e.name : e \in {e \in added : e.at = n}} = {name}

LEMMA NamesAdded ==
    ASSUME NEW names, NEW s \in Nat, Readings(names, s), NEW name \in Names, NEW n,
           n = s + NameLength[name] + 1, NEW added, added = names \cup Readable(name, n)
    PROVE  PutIn(names, s, name, n, added)
<1>1. n \in Nat /\ n > s
  <2>1. PICK l : l = NameLength[name]
    OBVIOUS
  <2>2. l \in Nat
    BY <2>1, LengthsNat
  <2> QED BY <2>1, <2>2
<1>2. ASSUME NEW e \in Readable(name, n)
      PROVE  /\ e \in [name : Names, at : Nat] /\ e.at <= n /\ ~(e.at <= s)
             /\ e.at = n => e.name = name
  <2>1. /\ e \in [name : Names, at : Nat] /\ e.at = s + 1 + NameLength[e.name]
        /\ e.at <= s + NameLength[name] + 1
        /\ <<e.name, name>> \in Suffixes
    BY <1>2, ReadableFacts
  <2>2. PICK a, l : a = NameLength[e.name] /\ l = NameLength[name]
    OBVIOUS
  <2>3. a \in Nat /\ l \in Nat
    BY <2>1, <2>2, LengthsNat
  <2>4. e.at = s + 1 + a /\ e.at <= n /\ n = s + l + 1
    BY <2>1, <2>2
  <2>5. ~(e.at <= s) /\ (e.at = n => a = l)
    BY <2>3, <2>4
  <2>6. <<name, name>> \in Suffixes
    BY WriterAssumption
  <2>7. e.at = n => e.name = name
    BY <2>1, <2>2, <2>5, <2>6, SuffixUnique
  <2> QED BY <2>1, <2>4, <2>5, <2>7
<1>3. ASSUME NEW e \in Readable(name, n), NEW d \in Readable(name, n), e.at = d.at
      PROVE  e.name = d.name
  BY <1>3, ReadableOnce
<1>4. \A e \in names : e \in [name : Names, at : Nat] /\ e.at <= s /\ e.at <= n /\ e.at # n
  BY <1>1 DEF Readings
<1>5. Readings(added, n)
  BY <1>2, <1>3, <1>4 DEF Readings
<1>6. Further(names, added, s) /\ {e \in added : e.at <= s} = names
  BY <1>2, <1>4 DEF Further
<1>7. {e.name : e \in {e \in added : e.at = n}} = {name}
  <2>1. [name |-> name, at |-> n] \in added
    BY <1>1, ReadableItself
  <2>2. \A e \in added : e.at = n => e.name = name
    BY <1>2, <1>4
  <2> QED BY <2>1, <2>2
<1> QED BY <1>1, <1>5, <1>6, <1>7 DEF PutIn

\* A tag is written, perhaps with a new name at the end of the block.
LEMMA GrabNames ==
    ASSUME LayoutInv, NamesInv, InStructure, NEW len, NEW t \in TagSet, Grab(len, t),
           NEW size \in Nat, size_dt_strings' = size, size >= size_dt_strings,
           Further(strings, strings', size_dt_strings), Readings(strings', size),
           t.tag = "prop" => 0 - t.nameoff <= size,
           size = size_dt_strings \/ (t.tag = "prop" /\ t.nameoff = -size)
    PROVE  NamesInv' /\ Tokens' = Append(Tokens, TokenIn(t, strings', 0))
<1>1. /\ magic = "sw" /\ magic' = "sw" /\ structure' = Append(structure, t)
      /\ size_dt_strings \in Nat
  BY DEF InStructure, Grab, LayoutInv, Sizes
<1>2. /\ structure \in Seq(TagSet) /\ Len(structure) \in Nat
      /\ structure' \in Seq(TagSet)
      /\ Len(structure') = Len(structure) + 1
      /\ structure'[Len(structure) + 1] = t
      /\ \A k \in 1 .. Len(structure) : structure'[k] = structure[k] /\ structure[k] \in TagSet
  BY <1>1, AppendProperties DEF NamesInv
<1>3. PICK n \in Nat : n = Len(structure)
  BY <1>2
<1>4. Len(structure') = n + 1 /\ structure'[n + 1] = t
  BY <1>2, <1>3
<1>5. \A k \in 1 .. n : structure'[k] = structure[k] /\ structure[k] \in TagSet
  BY <1>2, <1>3
<1>6. ASSUME NEW k \in 1 .. n + 1, structure'[k].tag = "prop"
      PROVE  0 - structure'[k].nameoff <= size
  <2>1. CASE k = n + 1
    BY <1>4, <1>6, <2>1
  <2>2. CASE k # n + 1
    <3>1. k \in 1 .. n
      BY <2>2
    <3>2. PICK u \in TagSet : u = structure[k] /\ u = structure'[k]
      BY <1>5, <3>1
    <3>3. 0 - u.nameoff <= size_dt_strings
      BY <1>1, <1>3, <1>6, <3>1, <3>2 DEF NamesInv, Distance, EndOfNames
    <3>4. u.nameoff \in Int
      BY <3>2 DEF TagSet
    <3>5. PICK o, d : o = u.nameoff /\ d = size_dt_strings
      OBVIOUS
    <3>6. 0 - o <= size
      <4>1. o \in Int /\ d \in Nat /\ 0 - o <= d /\ d <= size
        BY <1>1, <3>3, <3>4, <3>5
      <4> QED BY <4>1
    <3> QED BY <3>2, <3>5, <3>6
  <2> QED BY <2>1, <2>2
<1>7. NoOrphanName'
  <2>1. CASE size = size_dt_strings
    <3>1. CASE size > 0
      <4>1. PICK k \in 1 .. n : structure[k].tag = "prop" /\ structure[k].nameoff = -size
        BY <1>1, <1>3, <2>1, <3>1 DEF NamesInv, NoOrphanName
      <4>2. k \in 1 .. n + 1 /\ structure'[k] = structure[k]
        BY <1>5
      <4> QED BY <1>4, <4>1, <4>2 DEF NoOrphanName
    <3>2. CASE ~(size > 0)
      BY <3>2 DEF NoOrphanName
    <3> QED BY <3>1, <3>2
  <2>2. CASE t.tag = "prop" /\ t.nameoff = -size
    <3>1. n + 1 \in 1 .. n + 1
      OBVIOUS
    <3> QED BY <1>4, <2>2, <3>1 DEF NoOrphanName
  <2> QED BY <2>1, <2>2
<1>8. NamesInv'
  BY <1>1, <1>2, <1>4, <1>6, <1>7 DEF NamesInv, Distance, EndOfNames
<1>9. Tokens' = Append(Tokens, TokenIn(t, strings', 0))
  BY <1>1, TokensAppended
<1> QED BY <1>8, <1>9

\* A call that fails, and one that leaves structure, names and phase alone.
LEMMA SameNames ==
    ASSUME NamesInv, UNCHANGED <<magic, size_dt_strings, structure, strings>>
    PROVE  NamesInv' /\ Tokens' = Tokens
BY DEF NamesInv, NoOrphanName, Distance, EndOfNames, Tokens

LEMMA CreateNames ==
    ASSUME NamesInv, Create
    PROVE  NamesInv' /\ (Tokens' = Tokens \/ Tokens' = <<>>)
<1>1. CASE UNCHANGED tree
  BY <1>1, SameNames DEF tree, header
<1>2. CASE ~UNCHANGED tree
  <2>1. structure' = <<>> /\ strings' = {} /\ size_dt_strings' = 0
    BY <1>2 DEF Create
  <2>2. Len(structure') = 0 /\ structure' \in Seq(TagSet)
    BY <2>1
  <2>3. Tokens' = [k \in 1 .. 0 |-> TokenIn(structure'[k], strings', EndOfNames')]
    BY <2>2 DEF Tokens
  <2>4. 1 .. 0 = {}
    OBVIOUS
  <2>5. Tokens' = <<>>
    BY <2>3, <2>4
  <2> QED BY <2>1, <2>2, <2>4, <2>5 DEF NamesInv, Readings, NoOrphanName
<1> QED BY <1>1, <1>2

\* A node begins or ends.
LEMMA NodeNames ==
    ASSUME LayoutInv, NamesInv, InStructure, NEW len, NEW t \in TagSet, t.tag # "prop",
           Grab(len, t), UNCHANGED <<size_dt_strings, strings>>
    PROVE  /\ NamesInv'
           /\ Tokens' = Append(Tokens, [tag |-> t.tag, names |-> {t.name}])
<1>1. PICK size : size = size_dt_strings
  OBVIOUS
<1>2. /\ size \in Nat /\ size >= size_dt_strings /\ size_dt_strings' = size
      /\ Further(strings, strings', size_dt_strings) /\ Readings(strings', size)
  BY <1>1 DEF LayoutInv, Sizes, NamesInv, Further
<1>3. NamesInv' /\ Tokens' = Append(Tokens, TokenIn(t, strings', 0))
  BY <1>1, <1>2, GrabNames
<1> QED BY <1>3 DEF TokenIn

\* A property whose name is there.
LEMMA SharingNames ==
    ASSUME LayoutInv, NamesInv, InStructure, NEW name \in Names, Found(name) # {}, NEW size,
           PropertySharing(name, size), ~UNCHANGED tree
    PROVE  /\ NamesInv'
           /\ Tokens' = Append(Tokens, [tag |-> "prop", names |-> {name}])
<1>1. PICK s : s = size_dt_strings
  OBVIOUS
<1>2. PICK found : found = FirstFound(name)
  OBVIOUS
<1>3. PICK t : t = Tag("prop", "", -found.at)
  OBVIOUS
<1>4. Grab(size, t) /\ UNCHANGED <<size_dt_strings, strings>>
  BY <1>2, <1>3 DEF PropertySharing
<1>5. s \in Nat /\ s >= size_dt_strings /\ size_dt_strings' = s
  BY <1>1, <1>4 DEF LayoutInv, Sizes
<1>6. found \in strings /\ found.name = name
  BY <1>1, <1>2, <1>5, FirstFoundIsThere
<1>7. /\ found.at \in Nat /\ found.at <= s
      /\ \A e \in strings : e.at = found.at => e.name = name
  BY <1>1, <1>6 DEF NamesInv, Readings
<1>8. PICK at \in Nat : at = found.at /\ at <= s
  BY <1>7
<1>9. t \in TagSet /\ t.tag = "prop" /\ t.nameoff = -at
  <2>1. -at \in Int
    OBVIOUS
  <2> QED BY <1>3, <1>8, <2>1, EmptyName DEF Tag, TagSet
<1>10. 0 - t.nameoff = at
  BY <1>9
<1>11. Further(strings, strings', size_dt_strings) /\ Readings(strings', s)
  BY <1>1, <1>4 DEF NamesInv, Further
<1>12. t.tag = "prop" => 0 - t.nameoff <= s
  BY <1>8, <1>10
<1>13. NamesInv' /\ Tokens' = Append(Tokens, TokenIn(t, strings', 0))
  BY <1>1, <1>4, <1>5, <1>9, <1>11, <1>12, GrabNames
<1>14. {e.name : e \in {e \in strings : e.at = at}} = {name}
  BY <1>6, <1>7, <1>8
<1>15. TokenIn(t, strings', 0) = [tag |-> "prop", names |-> {name}]
  BY <1>4, <1>9, <1>10, <1>14 DEF TokenIn
<1> QED BY <1>13, <1>15

\* A property that brings its name, which is taken back if it does not fit.
LEMMA NamingNames ==
    ASSUME LayoutInv, NamesInv, InStructure, NEW name \in Names, NEW size,
           PropertyNaming(name, size), ~UNCHANGED tree
    PROVE  /\ NamesInv'
           /\ \/ Tokens' = Tokens
              \/ Tokens' = Append(Tokens, [tag |-> "prop", names |-> {name}])
<1>1. PICK s : s = size_dt_strings
  OBVIOUS
<1>2. PICK n : n = s + NameLength[name] + 1
  OBVIOUS
<1>3. PICK added : added = strings \cup Readable(name, n)
  OBVIOUS
<1>4. s \in Nat /\ NameLength[name] \in Nat
  BY <1>1, LengthsNat DEF LayoutInv, Sizes
<1>5. PICK names : names = strings /\ Readings(names, s)
  BY <1>1 DEF NamesInv
<1>6. /\ n \in Nat /\ n > s
      /\ Readings(added, n) /\ Further(names, added, s)
      /\ {e \in added : e.at <= s} = names
      /\ {e.name : e \in {e \in added : e.at = n}} = {name}
  <2>1. added = names \cup Readable(name, n)
    BY <1>3, <1>5
  <2>2. PutIn(names, s, name, n, added)
    BY <1>2, <1>4, <1>5, <2>1, NamesAdded
  <2> QED BY <2>2 DEF PutIn
<1>7. RolledBack(name, n) = s
  <2>1. PICK l : l = NameLength[name]
    OBVIOUS
  <2>2. l \in Nat /\ n = s + l + 1
    BY <1>2, <1>4, <2>1
  <2>3. n - (l + 1) = s
    BY <1>4, <2>2
  <2> QED BY <2>1, <2>3 DEF RolledBack
<1>8. CASE Fits(size, n)
  <2>1. PICK t : t = Tag("prop", "", -n)
    OBVIOUS
  <2>2. Grab(size, t) /\ size_dt_strings' = n /\ strings' = added
    BY <1>1, <1>2, <1>3, <1>8, <2>1 DEF PropertyNaming
  <2>3. t \in TagSet /\ t.tag = "prop" /\ t.nameoff = -n
    <3>1. -n \in Int
      BY <1>6
    <3> QED BY <2>1, <3>1, EmptyName DEF Tag, TagSet
  <2>4. 0 - t.nameoff = n
    BY <1>6, <2>3
  <2>5. t.tag = "prop" => 0 - t.nameoff <= n
    BY <1>6, <2>4
  <2>6. n >= size_dt_strings /\ Further(strings, strings', size_dt_strings) /\ Readings(strings', n)
    BY <1>1, <1>4, <1>5, <1>6, <2>2
  <2>7. NamesInv' /\ Tokens' = Append(Tokens, TokenIn(t, strings', 0))
    BY <1>6, <2>2, <2>3, <2>5, <2>6, GrabNames
  <2>8. TokenIn(t, strings', 0) = [tag |-> "prop", names |-> {name}]
    BY <1>6, <2>2, <2>3, <2>4 DEF TokenIn
  <2> QED BY <2>7, <2>8
<1>9. CASE ~Fits(size, n)
  <2>1. /\ size_dt_strings' = s /\ strings' = names
        /\ UNCHANGED <<magic, structure>>
    BY <1>1, <1>2, <1>3, <1>6, <1>7, <1>9 DEF PropertyNaming
  <2> QED BY <1>1, <1>5, <2>1, SameNames
<1> QED BY <1>8, <1>9

\* fdt_finish: what a property points to is as far from the end as before.
LEMMA FinishNames ==
    ASSUME LayoutInv, NamesInv, Finish
    PROVE  NamesInv' /\ Tokens' = Tokens
<1>1. CASE ~(InStructure /\ Fits(TagSize, size_dt_strings))
  BY <1>1, SameNames DEF Finish, tree, header
<1>2. CASE InStructure /\ Fits(TagSize, size_dt_strings)
  <2>1. PICK s : s = size_dt_strings
    OBVIOUS
  <2>2. s \in Nat
    BY <2>1 DEF LayoutInv, Sizes
  <2>3. /\ magic = "sw" /\ magic' = "complete" /\ strings' = strings /\ size_dt_strings' = s
        /\ EndOfNames = 0 /\ EndOfNames' = s
    BY <1>2, <2>1 DEF Finish, InStructure, EndOfNames
  <2>4. PICK n \in Nat : n = Len(structure)
    BY DEF NamesInv
  <2>5. structure' = [k \in 1 .. n |->
            IF structure[k].tag = "prop"
            THEN [structure[k] EXCEPT !.nameoff = structure[k].nameoff + s] ELSE structure[k]]
    BY <1>2, <2>1, <2>4 DEF Finish, Moved
  <2>6. ASSUME NEW k \in 1 .. n
        PROVE  /\ structure'[k] \in TagSet
               /\ structure'[k].tag = "prop" => s - structure'[k].nameoff <= s
               /\ TokenIn(structure'[k], strings', s) = TokenIn(structure[k], strings, 0)
    <3>1. PICK u \in TagSet : u = structure[k]
      BY <2>4 DEF NamesInv
    <3>2. CASE u.tag = "prop"
      <4>1. PICK o \in Int : o = u.nameoff
        BY DEF TagSet
      <4>2. structure'[k] = [u EXCEPT !.nameoff = o + s]
        BY <2>5, <3>1, <3>2, <4>1
      <4>3. PICK v : v = structure'[k]
        OBVIOUS
      <4>4. PICK m \in Int : m = o + s
        BY <2>2
      <4>5. v = [u EXCEPT !.nameoff = m]
        BY <4>2, <4>3, <4>4
      <4>6. v \in TagSet /\ v.tag = "prop" /\ v.nameoff = m
        BY <3>2, <4>5 DEF TagSet
      <4>7. 0 - o <= s
        BY <2>1, <2>3, <2>4, <3>1, <3>2, <4>1 DEF NamesInv, Distance
      <4>8. s - m = 0 - o
        BY <2>2, <4>4
      <4>9. TokenIn(v, strings, s) = TokenIn(u, strings, 0)
        BY <3>2, <4>1, <4>6, <4>8 DEF TokenIn
      <4> QED BY <2>3, <3>1, <4>3, <4>6, <4>7, <4>8, <4>9
    <3>3. CASE u.tag # "prop"
      <4>1. structure'[k] = u
        BY <2>5, <3>1, <3>3
      <4>2. TokenIn(u, strings, s) = TokenIn(u, strings, 0)
        BY <3>3 DEF TokenIn
      <4> QED BY <2>3, <3>1, <3>3, <4>1, <4>2
    <3> QED BY <3>2, <3>3
  <2>7. structure' \in Seq(TagSet) /\ Len(structure') = n
    <3>1. structure' \in [1 .. n -> TagSet]
      BY <2>5, <2>6
    <3> QED BY <3>1
  <2>8. NamesInv'
    BY <2>1, <2>3, <2>6, <2>7 DEF NamesInv, NoOrphanName, Distance
  <2>9. Tokens' = Tokens
    BY <2>3, <2>4, <2>6, <2>7 DEF Tokens
  <2> QED BY <2>8, <2>9
<1> QED BY <1>1, <1>2

LEMMA InitNames == WriterInit => NamesInv /\ Tokens = <<>> /\ calls = 0
<1> SUFFICES ASSUME WriterInit PROVE NamesInv /\ Tokens = <<>> /\ calls = 0
  OBVIOUS
<1>1. structure = <<>> /\ strings = {} /\ size_dt_strings = 0 /\ calls = 0
  BY DEF WriterInit
<1>2. Len(structure) = 0 /\ structure \in Seq(TagSet) /\ 1 .. 0 = {}
  BY <1>1
<1>3. Tokens = [k \in 1 .. 0 |-> TokenIn(structure[k], strings, EndOfNames)]
  BY <1>2 DEF Tokens
<1>4. Tokens = <<>>
  BY <1>2, <1>3
<1> QED BY <1>1, <1>2, <1>4 DEF NamesInv, Readings, NoOrphanName

\* What a call makes of the tokens.
TokenOf(op) == IF op = "begin_node" THEN "begin" ELSE IF op = "end_node" THEN "end" ELSE "prop"
Outcome(c) ==
    \/ Tokens' = Tokens
    \/ c.op = "create" /\ Tokens' = <<>>
    \/ /\ c.op \in {"begin_node", "end_node", "property"}
       /\ Tokens' = Append(Tokens, [tag |-> TokenOf(c.op), names |-> {c.name}])

LEMMA CallOutcome ==
    ASSUME LayoutInv, NamesInv, NextCall
    PROVE  NamesInv' /\ Outcome(Program[calls + 1])
<1>1. PICK c : c = Program[calls + 1]
  OBVIOUS
<1>2. c \in Call /\ c.name \in Names /\ c.len \in Nat /\ Make(c)
  BY <1>1, CallFacts DEF NextCall, LayoutInv
<1>3. CASE UNCHANGED tree
  BY <1>1, <1>3, SameNames DEF tree, header, Outcome
<1>4. CASE c.op = "create" /\ Create
  BY <1>1, <1>4, CreateNames DEF Outcome
<1>5. CASE c.op = "finish_reservemap" /\ FinishReservemap
  BY <1>1, <1>3, <1>5, SameNames DEF FinishReservemap, Outcome
<1>6. CASE c.op = "begin_node" /\ BeginNode(c.name) /\ ~UNCHANGED tree
  <2>1. PICK t : t = Tag("begin", c.name, 0)
    OBVIOUS
  <2>2. t \in TagSet /\ t.tag = "begin" /\ t.name = c.name
    BY <1>2, <2>1 DEF Tag, TagSet
  <2>3. PICK len : InStructure /\ Grab(len, t) /\ UNCHANGED <<size_dt_strings, strings>>
    BY <1>6, <2>1 DEF BeginNode
  <2>4. NamesInv' /\ Tokens' = Append(Tokens, [tag |-> t.tag, names |-> {t.name}])
    BY <2>2, <2>3, NodeNames
  <2> QED BY <1>1, <1>6, <2>2, <2>4 DEF Outcome, TokenOf
<1>7. CASE c.op = "end_node" /\ EndNode /\ ~UNCHANGED tree
  <2>1. PICK t : t = Tag("end", "", 0)
    OBVIOUS
  <2>2. t \in TagSet /\ t.tag = "end" /\ t.name = ""
    <3>1. PICK name \in Names : name = ""
      BY EmptyName
    <3>2. t = Tag("end", name, 0)
      BY <2>1, <3>1
    <3>3. t \in TagSet /\ t.tag = "end" /\ t.name = name
      BY <3>2 DEF Tag, TagSet
    <3> QED BY <3>1, <3>3
  <2>3. PICK len : InStructure /\ Grab(len, t) /\ UNCHANGED <<size_dt_strings, strings>>
    BY <1>7, <2>1 DEF EndNode
  <2>4. NamesInv' /\ Tokens' = Append(Tokens, [tag |-> t.tag, names |-> {t.name}])
    BY <2>2, <2>3, NodeNames
  <2>5. c.name = ""
    <3>1. \A k \in 1 .. Len(Program) : Program[k].op = "end_node" => Program[k].name = ""
      BY WriterAssumption
    <3>2. calls + 1 \in 1 .. Len(Program)
      <4>1. Len(Program) \in Nat /\ calls \in Nat /\ calls < Len(Program)
        BY ProgramCalls DEF LayoutInv, NextCall
      <4> QED BY <4>1
    <3> QED BY <1>1, <1>7, <3>1, <3>2
  <2> QED BY <1>1, <1>7, <2>2, <2>4, <2>5 DEF Outcome, TokenOf
<1>8. CASE c.op = "property" /\ Property(c.name, c.len) /\ ~UNCHANGED tree
  <2>1. PICK size : size = PropertySize + TagAlign(c.len)
    OBVIOUS
  <2>2. CASE Found(c.name) # {}
    <3>1. InStructure /\ PropertySharing(c.name, size)
      BY <1>8, <2>1, <2>2 DEF Property
    <3>2. NamesInv' /\ Tokens' = Append(Tokens, [tag |-> "prop", names |-> {c.name}])
      BY <1>2, <1>8, <2>2, <3>1, SharingNames
    <3> QED BY <1>1, <1>8, <3>2 DEF Outcome, TokenOf
  <2>3. CASE Found(c.name) = {}
    <3>1. InStructure /\ PropertyNaming(c.name, size)
      BY <1>8, <2>1, <2>3 DEF Property
    <3>2. /\ NamesInv'
          /\ \/ Tokens' = Tokens
             \/ Tokens' = Append(Tokens, [tag |-> "prop", names |-> {c.name}])
      BY <1>2, <1>8, <3>1, NamingNames
    <3> QED BY <1>1, <1>8, <3>2 DEF Outcome, TokenOf
  <2> QED BY <2>2, <2>3
<1>9. CASE c.op = "finish" /\ Finish
  BY <1>1, <1>9, FinishNames DEF Outcome
<1>10. CASE c.op = "pack" /\ Pack
  BY <1>1, <1>3, <1>10, SameNames DEF Pack, Outcome
<1> QED BY <1>2, <1>3, <1>4, <1>5, <1>6, <1>7, <1>8, <1>9, <1>10 DEF Make

LEMMA NextNames == TreeInv /\ [NextCall]_fdtVars => TreeInv'
<1> SUFFICES ASSUME TreeInv, [NextCall]_fdtVars PROVE TreeInv'
  OBVIOUS
<1>1. LayoutInv'
  BY NextLayout DEF TreeInv
<1>2. CASE NextCall
  BY <1>1, <1>2, CallOutcome DEF TreeInv
<1>3. CASE UNCHANGED fdtVars
  BY <1>1, <1>3, SameNames DEF TreeInv, fdtVars, tree, header
<1> QED BY <1>2, <1>3

LEMMA InvariantHolds == WriterSpec => []TreeInv
<1>1. WriterInit => TreeInv
  BY InitLayout, InitNames DEF TreeInv
<1> QED BY <1>1, NextNames, PTL DEF WriterSpec

\* A property that did not fit leaves no name behind.
THEOREM NoNameLeftBehind == WriterSpec => []NoOrphanName
<1>1. TreeInv => NoOrphanName
  BY DEF TreeInv, NamesInv
<1> QED BY <1>1, InvariantHolds, PTL

\* A reader finds exactly the tokens of the calls that succeeded, under their
\* names, whatever failed in between and wherever the blocks were moved.
THEOREM WritesTheTree == WriterSpec => TreeSpec
<1>1. WriterInit => Written!TreeInit
  BY InitNames DEF Written!TreeInit
<1>2. TreeInv /\ [NextCall]_fdtVars => [Written!TreeNext]_<<calls, Tokens>>
  <2> SUFFICES ASSUME TreeInv, [NextCall]_fdtVars
               PROVE  [Written!TreeNext]_<<calls, Tokens>>
    OBVIOUS
  <2>1. CASE NextCall
    <3>1. Outcome(Program[calls + 1])
      BY <2>1, CallOutcome DEF TreeInv
    <3>2. calls < Len(Program) /\ calls' = calls + 1
      BY <2>1 DEF NextCall
    <3>3. PICK c : c = Program[calls + 1]
      OBVIOUS
    <3>4. /\ DOMAIN Written!Writes = {"begin_node", "end_node", "property"}
          /\ \A op \in DOMAIN Written!Writes : Written!Writes[op] = TokenOf(op)
      BY DEF Written!Writes, TokenOf
    <3> QED BY <3>1, <3>2, <3>3, <3>4 DEF Outcome, Written!TreeNext
  <2>2. CASE UNCHANGED fdtVars
    <3>1. Tokens' = Tokens /\ calls' = calls
      BY <2>2, SameNames DEF fdtVars, tree, header, TreeInv
    <3> QED BY <3>1
  <2> QED BY <2>1, <2>2
<1> QED BY <1>1, <1>2, InvariantHolds, PTL DEF WriterSpec, TreeSpec, Written!TreeSpec

-----------------------------------------------------------------------------
(* The trace.                                                              *)

\* The ring is where it should be, and until the machine is made nothing has
\* been said; from the building of the tree to the loading of the firmware
\* nothing waits to be recorded.
RingInv ==
    /\ head \in 0 .. HistorySize - 1 /\ wrapped \in BOOLEAN /\ tr \in BOOLEAN
    /\ DOMAIN history = 0 .. HistorySize - 1
    /\ history = [k \in 0 .. HistorySize - 1 |-> history[k]]
    /\ DOMAIN config = {"memory_kb", "system", "trace", "valid"} /\ config.trace \in BOOLEAN
    /\ message \in Seq(Chars)
    /\ phase \in {"arguments", "parse", "create"} => head = 0 /\ wrapped = FALSE
    /\ phase \in {"arguments", "parse", "create", "build", "firmware"} => message = <<>>

SizeIsPositive == HistorySize \in Nat /\ HistorySize >= 1

LEMMA RingSize == SizeIsPositive
BY HistoryAssumption DEF SizeIsPositive

LEMMA InitRing == Init => RingInv /\ Contents = <<>> /\ Trace!LogInit
<1> SUFFICES ASSUME Init PROVE RingInv /\ Contents = <<>> /\ Trace!LogInit
  OBVIOUS
<1>1. /\ tr = FALSE /\ message = <<>> /\ head = 0 /\ wrapped = FALSE /\ dumped = <<>>
      /\ history = [k \in 0 .. HistorySize - 1 |-> Nul]
      /\ phase = "arguments" /\ config.trace = FALSE
      /\ DOMAIN config = {"memory_kb", "system", "trace", "valid"}
  BY DEF Init, DebugInit
<1>2. 1 .. 0 = {} /\ 0 \in 0 .. HistorySize - 1
  BY RingSize DEF SizeIsPositive
<1>3. Contents = <<>>
  <2>1. Newer = [k \in 1 .. 0 |-> history[k - 1]]
    BY <1>1 DEF Newer
  <2> QED BY <1>1, <1>2, <2>1 DEF Contents
<1>4. /\ DOMAIN history = 0 .. HistorySize - 1
      /\ history = [k \in 0 .. HistorySize - 1 |-> history[k]]
  BY <1>1
<1>5. message \in Seq(Chars)
  BY <1>1, EmptySeq
<1>6. head \in 0 .. HistorySize - 1 /\ wrapped \in BOOLEAN /\ tr \in BOOLEAN
      /\ config.trace \in BOOLEAN
  BY <1>1, <1>2
<1>7. RingInv
  BY <1>1, <1>4, <1>5, <1>6 DEF RingInv
<1> QED BY <1>1, <1>3, <1>7 DEF Trace!LogInit

\* What a ring of n places shows, place by place, if it holds m characters.
Slot(n, h, m, k) == IF m < n THEN k - 1
                    ELSE IF h + k <= n THEN h + k - 1 ELSE h + k - 1 - n
Shown(hist, n, h, m) == [k \in 1 .. m |-> hist[Slot(n, h, m, k)]]
Held == IF wrapped THEN HistorySize ELSE head

LEMMA ContentsAt ==
    ASSUME RingInv
    PROVE  Contents = Shown(history, HistorySize, head, Held)
<1>1. CASE ~wrapped
  <2>1. PICK n \in Nat, h \in Nat : n = HistorySize /\ h = head /\ h < n /\ Held = h
    BY <1>1, RingSize DEF SizeIsPositive, RingInv, Held
  <2>2. [k \in 1 .. h |-> history[k - 1]] = [k \in 1 .. h |-> history[Slot(n, h, h, k)]]
    BY <2>1 DEF Slot
  <2> QED BY <1>1, <2>1, <2>2 DEF Contents, Newer, Shown
<1>2. CASE wrapped
  <2>1. PICK n \in Nat, h \in Nat : n = HistorySize /\ h = head /\ h < n
    BY RingSize DEF SizeIsPositive, RingInv
  <2>2. PICK hist : hist = history
    OBVIOUS
  <2> DEFINE S == {hist[k] : k \in 0 .. n - 1}
             old == [k \in 1 .. n - h |-> hist[h + k - 1]]
             new == [k \in 1 .. h |-> hist[k - 1]]
             all == [k \in 1 .. n |-> hist[IF h + k <= n THEN h + k - 1 ELSE h + k - 1 - n]]
  <2>3. old \in [1 .. n - h -> S] /\ new \in [1 .. h -> S] /\ all \in [1 .. n -> S]
    <3>1. \A k \in 1 .. n - h : h + k - 1 \in 0 .. n - 1
      BY <2>1
    <3>2. \A k \in 1 .. h : k - 1 \in 0 .. n - 1
      BY <2>1
    <3>3. \A k \in 1 .. n : (IF h + k <= n THEN h + k - 1 ELSE h + k - 1 - n) \in 0 .. n - 1
      BY <2>1
    <3> QED BY <3>1, <3>2, <3>3
  <2>4. /\ old \in Seq(S) /\ new \in Seq(S) /\ all \in Seq(S)
        /\ Len(old) = n - h /\ Len(new) = h /\ Len(all) = n
    <3>1. n - h \in Nat
      BY <2>1
    <3> HIDE DEF S, old, new, all
    <3> QED BY <2>1, <2>3, <3>1
  <2>5. PICK both : both = old \o new
    OBVIOUS
  <2>6. /\ both \in Seq(S) /\ Len(both) = n
        /\ \A k \in 1 .. n : both[k] = IF k <= n - h THEN old[k] ELSE new[k - (n - h)]
    <3>1. \A o, w \in Seq(S) : /\ o \o w \in Seq(S)
                               /\ Len(o \o w) = Len(o) + Len(w)
                               /\ \A i \in 1 .. Len(o) + Len(w) :
                                     (o \o w)[i] = IF i <= Len(o) THEN o[i] ELSE w[i - Len(o)]
      <4> HIDE DEF S
      <4> QED BY ConcatProperties
    <3> HIDE DEF S, old, new, all
    <3>2. /\ both \in Seq(S) /\ Len(both) = Len(old) + Len(new)
          /\ \A i \in 1 .. Len(old) + Len(new) :
                both[i] = IF i <= Len(old) THEN old[i] ELSE new[i - Len(old)]
      BY <2>4, <2>5, <3>1
    <3>3. Len(old) + Len(new) = n
      BY <2>1, <2>4
    <3> QED BY <2>4, <3>2, <3>3
  <2>7. \A k \in 1 .. n : both[k] = all[k]
    <3> TAKE k \in 1 .. n
    <3>1. CASE k <= n - h
      <4>1. k \in 1 .. n - h /\ h + k <= n
        BY <2>1, <3>1
      <4> QED BY <2>6, <3>1, <4>1
    <3>2. CASE ~(k <= n - h)
      <4>1. k - (n - h) \in 1 .. h /\ ~(h + k <= n) /\ k - (n - h) - 1 = h + k - 1 - n
        BY <2>1, <3>2
      <4> QED BY <2>6, <3>2, <4>1
    <3> QED BY <3>1, <3>2
  <2>8. both = all
    <3> HIDE DEF S, old, new, all
    <3> QED BY <2>4, <2>6, <2>7, SeqEqual
  <2>9. Contents = both
    BY <1>2, <2>1, <2>2, <2>5 DEF Contents, Older, Newer
  <2>10. all = Shown(hist, n, h, n)
    BY <2>1 DEF Shown, Slot
  <2>11. Held = n
    BY <1>2, <2>1 DEF Held
  <2> QED BY <2>1, <2>2, <2>8, <2>9, <2>10, <2>11
<1> QED BY <1>1, <1>2 DEF RingInv

Inside(hist, n, S) == \A k \in 0 .. n - 1 : hist[k] \in S
SlotWritten(hist2, hist, n, h, c) ==
    \A k \in 0 .. n - 1 : hist2[k] = IF k = h THEN c ELSE hist[k]
Advanced(n, h, m, h2, m2) ==
    /\ m < n => m = h
    /\ h2 = IF h + 1 >= n THEN 0 ELSE h + 1
    /\ m2 = IF m < n THEN m + 1 ELSE m
Added(new, old, n, m, c) == new = IF m < n THEN Append(old, c) ELSE Append(Tail(old), c)
Reads(f, hist, n, h, m) == \A k \in 1 .. m : f[k] = hist[Slot(n, h, m, k)]

\* The sequence a ring shows, its length and its places.
LEMMA ShownSeq ==
    ASSUME NEW n \in Nat, n >= 1, NEW h \in 0 .. n - 1, NEW m \in 0 .. n, NEW hist, NEW S,
           Inside(hist, n, S)
    PROVE  /\ Shown(hist, n, h, m) \in Seq(S)
           /\ Len(Shown(hist, n, h, m)) = m
           /\ Reads(Shown(hist, n, h, m), hist, n, h, m)
<1>1. \A k \in 1 .. m : Slot(n, h, m, k) \in 0 .. n - 1
  BY DEF Slot
<1>2. Shown(hist, n, h, m) \in [1 .. m -> S]
  BY <1>1 DEF Shown, Inside
<1>3. PICK f : f = Shown(hist, n, h, m)
  OBVIOUS
<1>4. f \in Seq(S) /\ Len(f) = m
  BY <1>2, <1>3
<1>5. Reads(Shown(hist, n, h, m), hist, n, h, m)
  BY DEF Shown, Reads
<1> QED BY <1>3, <1>4, <1>5

\* Writing a character at the head and moving the head adds it at the end of
\* what is shown, and drops the oldest once the ring is full.
LEMMA RecordedLast ==
    ASSUME NEW n \in Nat, n >= 1, NEW h \in 0 .. n - 1, NEW m \in 0 .. n,
           NEW hist, NEW c, NEW h2 \in 0 .. n - 1, NEW m2 \in 0 .. n, Advanced(n, h, m, h2, m2),
           NEW hist2, SlotWritten(hist2, hist, n, h, c)
    PROVE  Added(Shown(hist2, n, h2, m2), Shown(hist, n, h, m), n, m, c)
<1> DEFINE S == {hist[k] : k \in 0 .. n - 1} \cup {hist2[k] : k \in 0 .. n - 1} \cup {c}
<1>1. /\ m < n => m = h
      /\ h2 = IF h + 1 >= n THEN 0 ELSE h + 1
      /\ m2 = IF m < n THEN m + 1 ELSE m
  BY DEF Advanced
<1>2. \A k \in 0 .. n - 1 : hist2[k] = IF k = h THEN c ELSE hist[k]
  BY DEF SlotWritten
<1>3. PICK a : a = Shown(hist, n, h, m)
  OBVIOUS
<1>4. PICK b : b = Shown(hist2, n, h2, m2)
  OBVIOUS
<1>5. Inside(hist, n, S) /\ Inside(hist2, n, S)
  BY DEF Inside
<1>7. /\ a \in Seq(S) /\ Len(a) = m
      /\ \A k \in 1 .. m : a[k] = hist[Slot(n, h, m, k)]
  <2>1. a \in Seq(S) /\ Len(a) = m /\ Reads(a, hist, n, h, m)
    <3> HIDE DEF S
    <3> QED BY <1>3, <1>5, ShownSeq
  <2> QED BY <2>1 DEF Reads
<1>8. /\ b \in Seq(S) /\ Len(b) = m2
      /\ \A k \in 1 .. m2 : b[k] = hist2[Slot(n, h2, m2, k)]
  <2>1. b \in Seq(S) /\ Len(b) = m2 /\ Reads(b, hist2, n, h2, m2)
    <3> HIDE DEF S
    <3> QED BY <1>4, <1>5, ShownSeq
  <2> QED BY <2>1 DEF Reads
<1>9. c \in S
  OBVIOUS
<1>10. CASE m < n
  <2>1. m = h /\ h2 = IF h + 1 >= n THEN 0 ELSE h + 1
    BY <1>1, <1>10
  <2>2. m2 = m + 1
    BY <1>1, <1>10
  <2>3. \A k \in 1 .. m + 1 : Slot(n, h2, m2, k) = k - 1
    BY <2>1, <2>2 DEF Slot
  <2>4. \A k \in 1 .. m : b[k] = a[k]
    <3> TAKE k \in 1 .. m
    <3>1. k - 1 \in 0 .. n - 1 /\ k - 1 # h
      BY <2>1
    <3>2. Slot(n, h, m, k) = k - 1
      BY <1>10 DEF Slot
    <3> HIDE DEF S
    <3> QED BY <1>2, <1>7, <1>8, <2>2, <2>3, <3>1, <3>2
  <2>5. b[m + 1] = c
    BY <1>2, <1>8, <2>1, <2>2, <2>3
  <2>6. PICK d : d = Append(a, c)
    OBVIOUS
  <2>7. d \in Seq(S) /\ Len(d) = m + 1 /\ d[m + 1] = c /\ \A k \in 1 .. m : d[k] = a[k]
    <3> HIDE DEF S
    <3> QED BY <1>7, <1>9, <2>6, AppendProperties
  <2>8. b = d
    <3> HIDE DEF S
    <3> QED BY <1>8, <2>2, <2>4, <2>5, <2>7, SeqEqual
  <2> QED BY <1>3, <1>4, <1>10, <2>6, <2>8 DEF Added
<1>11. CASE ~(m < n)
  <2>1. m = n /\ m2 = n /\ h2 = IF h + 1 >= n THEN 0 ELSE h + 1
    BY <1>1, <1>11
  <2>2. \A k \in 1 .. n - 1 : /\ Slot(n, h2, m2, k) = Slot(n, h, m, k + 1)
                              /\ Slot(n, h, m, k + 1) \in 0 .. n - 1
                              /\ Slot(n, h, m, k + 1) # h
    BY <2>1 DEF Slot
  <2>3. Slot(n, h2, m2, n) = h
    BY <2>1 DEF Slot
  <2>4. \A k \in 1 .. n - 1 : b[k] = a[k + 1]
    <3> TAKE k \in 1 .. n - 1
    <3>1. k + 1 \in 1 .. n /\ k \in 1 .. n
      OBVIOUS
    <3>2. PICK s \in 0 .. n - 1 : s = Slot(n, h, m, k + 1) /\ s # h /\ s = Slot(n, h2, m2, k)
      BY <2>2
    <3> HIDE DEF S
    <3> QED BY <1>2, <1>7, <1>8, <2>1, <3>1, <3>2
  <2>5. b[n] = c
    BY <1>2, <1>8, <2>1, <2>3
  <2>6. PICK t : t = Tail(a)
    OBVIOUS
  <2>7. t \in Seq(S) /\ Len(t) = n - 1 /\ \A k \in 1 .. n - 1 : t[k] = a[k + 1]
    <3> HIDE DEF S
    <3> QED BY <1>7, <2>1, <2>6
  <2>8. PICK d : d = Append(t, c)
    OBVIOUS
  <2>9. d \in Seq(S) /\ Len(d) = n /\ d[n] = c /\ \A k \in 1 .. n - 1 : d[k] = t[k]
    <3> HIDE DEF S
    <3> QED BY <1>9, <2>7, <2>8, AppendProperties
  <2>10. b = d
    <3>1. \A k \in 1 .. n : b[k] = d[k]
      <4> TAKE k \in 1 .. n
      <4>1. CASE k = n
        BY <2>5, <2>9, <4>1
      <4>2. CASE k # n
        <5>1. k \in 1 .. n - 1
          BY <4>2
        <5> QED BY <2>4, <2>7, <2>9, <5>1
      <4> QED BY <4>1, <4>2
    <3> HIDE DEF S
    <3> QED BY <1>8, <2>1, <2>9, <3>1, SeqEqual
  <2> QED BY <1>3, <1>4, <1>11, <2>6, <2>8, <2>10 DEF Added
<1> QED BY <1>10, <1>11

-----------------------------------------------------------------------------
(* The steps.                                                              *)

\* A step that leaves the ring alone leaves what it shows alone.
LEMMA SameContents == UNCHANGED ring => Contents' = Contents
BY DEF ring, Contents, Newer, Older

LEMMA LinesAreText ==
    \A part \in {"hardware", "loader", "boot", "store", "load", "mret"} : Lines[part] \in Seq(Chars)
BY HostAssumption

\* Recording a character of the message.
LEMMA RecordStep ==
    ASSUME RingInv, Record
    PROVE  RingInv' /\ (Trace!Record \/ UNCHANGED <<tr, message, Contents, dumped>>)
<1>1. /\ message # <<>> /\ message' = Tail(message) /\ UNCHANGED <<tr, dumped>>
      /\ UNCHANGED hostVars
  BY DEF Record, RecordChar
<1>2. UNCHANGED <<phase, config>>
  BY <1>1 DEF hostVars
<1>3. message' \in Seq(Chars)
  BY <1>1 DEF RingInv
<1>4. phase \notin {"arguments", "parse", "create", "build", "firmware"}
  BY <1>1 DEF RingInv
<1>5. CASE ~tr
  <2>1. UNCHANGED ring
    BY <1>5 DEF Record, RecordChar
  <2>2. Contents' = Contents
    BY <2>1, SameContents
  <2>3. RingInv'
    BY <1>1, <1>2, <1>3, <1>4, <2>1 DEF RingInv, ring
  <2> QED BY <1>1, <1>5, <2>2, <2>3 DEF Trace!Record
<1>6. CASE tr
  <2>1. /\ history' = [history EXCEPT ![head] = Head(message)]
        /\ head' = NextHead(head)
        /\ wrapped' = (wrapped \/ NextHead(head) = 0)
    BY <1>6 DEF Record, RecordChar
  <2>2. PICK n \in Nat, h \in Nat : n = HistorySize /\ n >= 1 /\ h = head /\ h \in 0 .. n - 1
    BY RingSize DEF SizeIsPositive, RingInv
  <2>3. PICK h2 \in 0 .. n - 1 : h2 = head' /\ h2 = IF h + 1 >= n THEN 0 ELSE h + 1
    BY <2>1, <2>2 DEF NextHead
  <2>4. wrapped' \in BOOLEAN /\ (wrapped' <=> wrapped \/ h2 = 0)
    BY <2>1, <2>3 DEF RingInv
  <2>5. /\ DOMAIN history' = 0 .. HistorySize - 1
        /\ history' = [k \in 0 .. HistorySize - 1 |-> history'[k]]
    BY <2>1 DEF RingInv
  <2>6. RingInv'
    BY <1>1, <1>2, <1>3, <1>4, <1>6, <2>2, <2>3, <2>4, <2>5 DEF RingInv
  <2>7. PICK m \in 0 .. n : m = Held /\ (m < n => m = h) /\ (m < n <=> ~wrapped)
    BY <2>2 DEF Held, RingInv
  <2>8. PICK m2 \in 0 .. n : m2 = Held' /\ m2 = IF m < n THEN m + 1 ELSE m
    <3>1. CASE wrapped
      BY <2>2, <2>4, <2>7, <3>1 DEF Held
    <3>2. CASE ~wrapped /\ h + 1 < n
      <4>1. h2 = h + 1 /\ h2 # 0 /\ m = h /\ m < n
        BY <2>2, <2>3, <2>7, <3>2
      <4>2. Held' = h2
        BY <2>3, <2>4, <3>2, <4>1 DEF Held
      <4> QED BY <4>1, <4>2
    <3>3. CASE ~wrapped /\ ~(h + 1 < n)
      <4>1. h2 = 0 /\ m = h /\ m < n /\ n = h + 1
        BY <2>2, <2>3, <2>7, <3>3
      <4>2. Held' = n
        BY <2>2, <2>4, <4>1 DEF Held
      <4> QED BY <4>1, <4>2
    <3> QED BY <3>1, <3>2, <3>3
  <2>9. PICK c : c = Head(message)
    OBVIOUS
  <2>10. PICK hist : hist = history
    OBVIOUS
  <2>11. PICK hist2 : hist2 = history'
    OBVIOUS
  <2>12. SlotWritten(hist2, hist, n, h, c)
    <3>1. DOMAIN hist = 0 .. n - 1 /\ hist2 = [hist EXCEPT ![h] = c]
      BY <2>1, <2>2, <2>9, <2>10, <2>11 DEF RingInv
    <3> QED BY <3>1 DEF SlotWritten
  <2>13. Added(Shown(hist2, n, h2, m2), Shown(hist, n, h, m), n, m, c)
    <3>1. n >= 1 /\ h \in 0 .. n - 1
      BY <2>2
    <3>2. Advanced(n, h, m, h2, m2)
      BY <2>3, <2>7, <2>8 DEF Advanced
    <3> QED BY <2>12, <3>1, <3>2, RecordedLast
  <2>14. Contents = Shown(hist, n, h, m)
    BY <2>2, <2>7, <2>10, ContentsAt
  <2>15. Contents' = Shown(hist2, n, h2, m2)
    <3>1. (Contents = Shown(history, HistorySize, head, Held))'
      BY <2>6, ContentsAt, PTL
    <3> QED BY <2>2, <2>3, <2>8, <2>11, <3>1
  <2>16. Len(Contents) = m
    <3>1. PICK S : S = {hist[k] : k \in 0 .. n - 1}
      OBVIOUS
    <3>2. Inside(hist, n, S)
      BY <3>1 DEF Inside
    <3> QED BY <2>2, <2>14, <3>2, ShownSeq
  <2>17. Trace!Record
    BY <1>1, <1>6, <2>2, <2>9, <2>13, <2>14, <2>15, <2>16 DEF Trace!Record, Added
  <2> QED BY <2>6, <2>17
<1> QED BY <1>5, <1>6 DEF RingInv

\* What RingInv says of the ring itself, of the command line and of the phase.
Configured == DOMAIN config = {"memory_kb", "system", "trace", "valid"} /\ config.trace \in BOOLEAN
Early == phase \in {"arguments", "parse", "create"}
Silent == phase \in {"arguments", "parse", "create", "build", "firmware"}

LEMMA RingKept ==
    ASSUME RingInv, UNCHANGED ring, tr' \in BOOLEAN, message' \in Seq(Chars), Configured',
           Early' => Early, Silent' => message' = <<>>
    PROVE  RingInv' /\ Contents' = Contents
<1>1. /\ head' = head /\ wrapped' = wrapped /\ history' = history
  BY DEF ring
<1>2. Contents' = Contents
  BY SameContents
<1>3. RingInv'
  BY <1>1 DEF RingInv, Configured, Early, Silent
<1> QED BY <1>2, <1>3

\* The steps that neither record nor say anything.
LEMMA QuietSteps ==
    ASSUME RingInv,
           \/ ParseStart \/ ParseFlag \/ ParseMemory \/ ParseSystem \/ ParseError \/ ParseEnd
           \/ BootDefault \/ BootOpenSbi \/ Build \/ GuestExits
    PROVE  RingInv' /\ UNCHANGED <<tr, message, Contents, dumped>>
<1>1. UNCHANGED <<tr, message, ring, dumped>>
  BY DEF ParseStart, ParseFlag, ParseMemory, ParseSystem, ParseError, ParseEnd, Unparsed,
         BootDefault, BootOpenSbi, Build, GuestExits, debugVars
<1>2. Configured'
  <2>1. Configured
    BY DEF RingInv, Configured
  <2>2. CASE ParseStart
    BY <2>1, <2>2 DEF ParseStart, Configured
  <2>3. CASE ParseFlag
    BY <2>1, <2>3 DEF ParseFlag, Configured
  <2>4. CASE ParseMemory
    BY <2>1, <2>4 DEF ParseMemory, Configured
  <2>5. CASE ParseSystem
    BY <2>1, <2>5 DEF ParseSystem, Configured
  <2>6. CASE ParseError
    BY <2>1, <2>6 DEF ParseError, Configured
  <2>7. CASE ParseEnd \/ BootDefault \/ BootOpenSbi \/ Build \/ GuestExits
    <3>1. UNCHANGED config
      BY <2>7 DEF ParseEnd, BootDefault, BootOpenSbi, Build, GuestExits, hostVars
    <3> QED BY <2>1, <3>1 DEF Configured
  <2> QED BY <2>2, <2>3, <2>4, <2>5, <2>6, <2>7
<1>3. (Early' => Early) /\ (Silent' => Silent \/ message = <<>>)
  BY DEF Early, Silent, ParseStart, ParseFlag, ParseMemory, ParseSystem, ParseError, ParseEnd,
         BootDefault, BootOpenSbi, Build, GuestExits, hostVars
<1>4. Silent => message = <<>>
  BY DEF RingInv, Silent
<1>5. tr' \in BOOLEAN /\ message' \in Seq(Chars)
  BY <1>1 DEF RingInv
<1>6. UNCHANGED ring /\ (Silent' => message' = <<>>)
  BY <1>1, <1>3, <1>4
<1>7. RingInv' /\ Contents' = Contents
  BY <1>2, <1>3, <1>5, <1>6, RingKept
<1> QED BY <1>1, <1>7

\* The making of the machine: tracing is turned on or off.
LEMMA MakeMachineStep ==
    ASSUME RingInv, MakeMachine
    PROVE  RingInv' /\ (Trace!Enable \/ UNCHANGED <<tr, message, Contents, dumped>>)
<1>1. /\ phase = "create" /\ head = 0 /\ wrapped = FALSE /\ UNCHANGED <<ring, dumped>>
  BY DEF MakeMachine, RingInv
<1>2. Configured' /\ config'.trace = config.trace
  BY DEF MakeMachine, RingInv, Configured
<1>3. ~Early' /\ ~Silent'
  BY DEF MakeMachine, Early, Silent
<1>4. /\ tr' \in BOOLEAN /\ message' \in Seq(Chars)
      /\ config.valid \/ UNCHANGED <<tr, message>>
  BY LinesAreText DEF MakeMachine, RingInv, EnableTrace, Say
<1>5. RingInv' /\ Contents' = Contents
  BY <1>1, <1>2, <1>3, <1>4, RingKept
<1>6. Contents = <<>>
  <2>1. 1 .. 0 = {}
    OBVIOUS
  <2> QED BY <1>1, <2>1 DEF Contents, Newer
<1> QED BY <1>1, <1>4, <1>5, <1>6 DEF Trace!Enable

\* The steps that begin a message, if no other is being recorded.
LEMMA SayingSteps ==
    ASSUME RingInv,
           \/ LoadPayload \/ Built \/ LoadFirmware \/ CopyTree \/ GuestStores \/ GuestPolls
    PROVE  RingInv' /\ (Trace!Start \/ UNCHANGED <<tr, message, Contents, dumped>>)
<1>1. message = <<>>
  BY DEF LoadPayload, Built, LoadFirmware, CopyTree, GuestStores, GuestPolls, Runs, RingInv
<1>2. UNCHANGED <<config, tr, ring, dumped>>
  BY DEF LoadPayload, Built, LoadFirmware, CopyTree, GuestStores, GuestPolls
<1>3. message' \in Seq(Chars)
  <2>1. \E part \in {"loader", "boot", "store", "load"} :
            message' = message \/ message' = Lines[part]
    BY DEF LoadPayload, Built, LoadFirmware, CopyTree, GuestStores, GuestPolls, Load, Say
  <2> QED BY <2>1, LinesAreText DEF RingInv
<1>4. ~Early' /\ (Silent' => message' = <<>>)
  <2>1. CASE Built
    BY <1>1, <2>1 DEF Built, Early, Silent
  <2>2. CASE GuestStores \/ GuestPolls
    BY <2>2 DEF GuestStores, GuestPolls, Runs, Early, Silent
  <2>3. CASE LoadPayload \/ LoadFirmware \/ CopyTree
    BY <2>3 DEF LoadPayload, LoadFirmware, CopyTree, Early, Silent
  <2> QED BY <2>1, <2>2, <2>3
<1>5. Configured' /\ tr' \in BOOLEAN
  BY <1>2 DEF RingInv, Configured
<1>6. RingInv' /\ Contents' = Contents
  BY <1>2, <1>3, <1>4, <1>5, RingKept
<1> QED BY <1>1, <1>2, <1>3, <1>6 DEF Trace!Start

\* ebreak: the dump.
LEMMA BreakStep ==
    ASSUME RingInv, GuestBreaks
    PROVE  RingInv' /\ Trace!Show
<1>1. /\ message = <<>> /\ phase = "run" /\ UNCHANGED <<phase, config, tr, ring>>
      /\ dumped' = IF tr THEN Contents ELSE dumped
      /\ message' = Lines["mret"]
  BY DEF GuestBreaks, Runs, Dump, Say
<1>2. message' \in Seq(Chars)
  BY <1>1, LinesAreText
<1>3. Configured' /\ tr' \in BOOLEAN /\ ~Early' /\ ~Silent'
  BY <1>1 DEF RingInv, Configured, Early, Silent
<1>4. RingInv' /\ Contents' = Contents
  BY <1>1, <1>2, <1>3, RingKept
<1> QED BY <1>1, <1>2, <1>4 DEF Trace!Show

LEMMA RingStep ==
    ASSUME RingInv, [Next]_vars
    PROVE  RingInv' /\ (Trace!LogNext \/ UNCHANGED <<tr, message, Contents, dumped>>)
<1>1. CASE Record
  BY <1>1, RecordStep DEF Trace!LogNext
<1>2. CASE MakeMachine
  BY <1>2, MakeMachineStep DEF Trace!LogNext
<1>3. CASE \/ ParseStart \/ ParseFlag \/ ParseMemory \/ ParseSystem \/ ParseError \/ ParseEnd
           \/ BootDefault \/ BootOpenSbi \/ Build \/ GuestExits
  BY <1>3, QuietSteps
<1>4. CASE LoadPayload \/ Built \/ LoadFirmware \/ CopyTree \/ GuestStores \/ GuestPolls
  BY <1>4, SayingSteps DEF Trace!LogNext
<1>5. CASE GuestBreaks
  BY <1>5, BreakStep DEF Trace!LogNext
<1>6. CASE UNCHANGED vars
  <2>1. UNCHANGED <<tr, message, ring, dumped, phase, config>>
    BY <1>6 DEF vars, debugVars, hostVars
  <2>2. Contents' = Contents
    BY <2>1, SameContents
  <2>3. RingInv'
    BY <2>1 DEF RingInv, ring
  <2> QED BY <2>1, <2>2, <2>3
<1> QED BY <1>1, <1>2, <1>3, <1>4, <1>5, <1>6 DEF Next

\* A dump shows the last HistorySize characters recorded while tracing was on,
\* in order, however often the ring wrapped (Debug::recordChar, Debug::dump).
THEOREM DumpShowsTheLast == Spec => TraceSpec
<1>1. Init => RingInv /\ Trace!LogInit
  BY InitRing
<1>2. RingInv /\ [Next]_vars => RingInv' /\ [Trace!LogNext]_(Trace!logVars)
  BY RingStep DEF Trace!logVars
<1> QED BY <1>1, <1>2, PTL DEF Spec, TraceSpec, Trace!LogSpec

-----------------------------------------------------------------------------
(* The writer as part of the program.                                      *)

LEMMA HostIsWriter == Spec => WriterSpec
<1>1. Init => WriterInit
  BY DEF Init
<1>2. [Next]_vars => [NextCall]_fdtVars
  <2> SUFFICES ASSUME [Next]_vars PROVE [NextCall]_fdtVars
    OBVIOUS
  <2>1. CASE Build
    BY <2>1 DEF Build
  <2>2. CASE ~Build
    BY <2>2 DEF Next, vars, Record, ParseStart, ParseFlag, ParseMemory, ParseSystem, ParseError,
                ParseEnd, Unparsed, MakeMachine, LoadPayload, BootDefault, BootOpenSbi, Built,
                LoadFirmware, CopyTree, GuestStores, GuestPolls, GuestBreaks, GuestExits
  <2> QED BY <2>1, <2>2
<1> QED BY <1>1, <1>2, PTL DEF Spec, WriterSpec

\* Whatever the command line and the size of the buffer, the tree the program
\* builds for the guest is that of the calls of DTBBuilder::build that
\* succeeded, with its blocks apart and a name for every property.
THEOREM GuestTree == Spec => []BlocksDisjoint /\ []NoOrphanName /\ TreeSpec
<1> QED BY HostIsWriter, BlocksKeptApart, NoNameLeftBehind, WritesTheTree, PTL

-----------------------------------------------------------------------------
\* The parts of the assumption about what the program is given.
SetupRecords ==
    [args : Seq(STRING), payload : FileSize, firmware : FileSize, guest : Seq(Instruction)]

LEMMA GivenSetups == Setups \subseteq SetupRecords /\ \A s \in DOMAIN Stoul : Stoul[s] \in Nat
BY HostAssumption DEF SetupRecords

LEMMA GivenGuest ==
    ASSUME setup \in Setups
    PROVE  /\ setup.guest \in Seq(Instruction) /\ Len(setup.guest) \in Nat
           /\ Len(setup.args) \in Nat
           /\ setup.payload \in Int /\ setup.firmware \in Int
           /\ setup.payload # Absent => setup.payload \in Nat
           /\ setup.firmware # Absent => setup.firmware \in Nat
<1>1. setup \in SetupRecords
  BY GivenSetups
<1>2. setup.guest \in Seq(Instruction) /\ setup.args \in Seq(STRING)
  BY <1>1 DEF SetupRecords
<1>3. setup.payload \in Nat \cup {-1} /\ setup.firmware \in Nat \cup {-1}
  BY <1>1 DEF SetupRecords, FileSize, Absent
<1> QED BY <1>2, <1>3 DEF Absent

\* The places of the files, and that the tree ends within the least memory.
LEMMA Places ==
    /\ PayloadAt \in Nat /\ DtbAt \in Nat /\ WrapKb \in Nat /\ MinimumKb \in Nat
    /\ 0 < PayloadAt /\ PayloadAt < DtbAt /\ MinimumKb < WrapKb
    /\ DtbAt + FdtBuffer <= MinimumKb * 1024
BY SMT DEF PayloadAt, DtbAt, WrapKb, MinimumKb, FdtBuffer

LEMMA GreaterOf ==
    ASSUME NEW a \in Int, NEW b \in Int
    PROVE  Max({a, b}) = (IF a <= b THEN b ELSE a) /\ Min({a, b}) = (IF a <= b THEN a ELSE b)
BY DEF Max, Min

-----------------------------------------------------------------------------
(* The types.                                                              *)

Phases ==
    {"arguments", "parse", "create", "payload", "boot", "build", "firmware", "copy",
     "run", "exit", "aborted"}
Writes == [what : {"payload", "firmware", "tree"}, at : Nat, len : Nat]

\* The parts of the type invariant by which step keeps them.
ParserTypes ==
    /\ setup \in Setups
    /\ phase \in Phases
    /\ arg_i \in Nat /\ 2 <= arg_i /\ (arg_i = 2 \/ arg_i <= Len(setup.args) + 1)
    /\ config \in [memory_kb : Nat, system : {"default", "opensbi"}, trace : BOOLEAN,
                   valid : BOOLEAN]
MachineTypes ==
    /\ mem_size \in Nat
    /\ writes \in Seq(Writes)
    /\ cpu \in [pc : {"zero", "ram"}, sp : Nat, a1 : Nat]
GuestTypes ==
    /\ next \in 1 .. Len(setup.guest) + 1
    /\ uart_registers \in [0 .. 7 -> 0 .. 255]
    /\ console \in Seq(0 .. 255)
\* What was recorded, and so what a dump shows, is characters of messages.
RingTypes ==
    /\ history \in [0 .. HistorySize - 1 -> Chars \cup {Nul}]
    /\ \A k \in 0 .. HistorySize - 1 : (wrapped \/ k < head) => history[k] \in Chars
    /\ dumped \in Seq(Chars)

\* The calls are those of the program, in the buffer it was given.
CallsInv == calls \in 0 .. Len(Program) /\ buf_size \in BufSizes

LEMMA KeepsBuffer == \A c : Make(c) => UNCHANGED buf_size
BY DEF Make, Create, FinishReservemap, BeginNode, EndNode, Property, PropertySharing,
       PropertyNaming, Finish, Pack, Grab, tree, header

LEMMA CallsHold == WriterSpec => []CallsInv
<1>1. WriterInit => CallsInv
  BY ProgramCalls DEF WriterInit, CallsInv
<1>2. CallsInv /\ [NextCall]_fdtVars => CallsInv'
  <2> SUFFICES ASSUME CallsInv, [NextCall]_fdtVars PROVE CallsInv'
    OBVIOUS
  <2>1. CASE NextCall
    BY <2>1, KeepsBuffer, ProgramCalls DEF NextCall, CallsInv
  <2>2. CASE UNCHANGED fdtVars
    BY <2>2 DEF fdtVars, tree, header, CallsInv
  <2> QED BY <2>1, <2>2
<1> QED BY <1>1, <1>2, PTL DEF WriterSpec

LEMMA WriterTypes == WriterSpec => []WriterTypeOK
<1>1. TreeInv /\ CallsInv => WriterTypeOK
  <2> SUFFICES ASSUME TreeInv, CallsInv PROVE WriterTypeOK
    OBVIOUS
  <2>1. Names \cup {""} = Names
    BY EmptyName
  <2>2. structure \in Seq([tag : {"begin", "end", "prop"}, name : Names \cup {""}, nameoff : Int])
    BY <2>1 DEF TreeInv, NamesInv, TagSet
  <2>3. strings \subseteq [name : Names, at : Nat]
    BY DEF TreeInv, NamesInv, Readings
  <2> QED BY <2>2, <2>3 DEF TreeInv, LayoutInv, Sizes, CallsInv, WriterTypeOK
<1> QED BY <1>1, CallsHold, InvariantHolds, PTL

\* How a step of the parser can go.
LEMMA ParserStep ==
    ASSUME ParserTypes, [Next]_vars
    PROVE  ParserTypes'
<1>1. setup' = setup /\ Len(setup.args) \in Nat
  <2>1. setup' = setup
    BY DEF Next, vars, hostVars, Record, ParseStart, ParseFlag, ParseMemory, ParseSystem, ParseError,
           ParseEnd, Unparsed, MakeMachine, LoadPayload, BootDefault, BootOpenSbi, Build, Built,
           LoadFirmware, CopyTree, GuestStores, GuestPolls, GuestBreaks, GuestExits
  <2> QED BY <2>1, GivenGuest DEF ParserTypes
<1>2. CASE \/ UNCHANGED <<phase, arg_i, config>>
  BY <1>1, <1>2 DEF ParserTypes
<1>3. CASE ParseStart \/ ParseFlag \/ ParseSystem \/ ParseError \/ ParseEnd
  <2>1. phase' \in Phases
    BY <1>3 DEF ParserTypes, Phases, ParseStart, ParseFlag, ParseSystem, ParseError, ParseEnd
  <2>2. config' \in [memory_kb : Nat, system : {"default", "opensbi"}, trace : BOOLEAN,
                     valid : BOOLEAN]
    BY <1>3 DEF ParserTypes, ParseStart, ParseFlag, ParseSystem, ParseError, ParseEnd
  <2>3. arg_i' \in Nat /\ 2 <= arg_i' /\ (arg_i' = 2 \/ arg_i' <= Len(setup.args) + 1)
    BY <1>1, <1>3 DEF ParserTypes, ParseStart, ParseFlag, ParseSystem, ParseError, ParseEnd,
                      HasValue, AfterValue
  <2> QED BY <1>1, <2>1, <2>2, <2>3 DEF ParserTypes
<1>4. CASE ParseMemory
  <2>1. phase' \in Phases
    BY <1>4 DEF ParserTypes, Phases, ParseMemory
  <2>2. Given \in DOMAIN Stoul => Stoul[Given] \in Nat
    BY GivenSetups
  <2>3. config' \in [memory_kb : Nat, system : {"default", "opensbi"}, trace : BOOLEAN,
                     valid : BOOLEAN]
    BY <1>4, <2>2 DEF ParserTypes, ParseMemory
  <2>4. arg_i' \in Nat /\ 2 <= arg_i' /\ (arg_i' = 2 \/ arg_i' <= Len(setup.args) + 1)
    BY <1>1, <1>4 DEF ParserTypes, ParseMemory, HasValue, AfterValue
  <2> QED BY <1>1, <2>1, <2>3, <2>4 DEF ParserTypes
<1>5. CASE MakeMachine
  <2>1. SystemKb(config) \in Nat
    BY Places, SMT DEF ParserTypes, SystemKb
  <2> QED BY <1>1, <1>5, <2>1 DEF ParserTypes, Phases, MakeMachine
<1>6. CASE \/ LoadPayload \/ BootDefault \/ BootOpenSbi \/ Built \/ LoadFirmware \/ CopyTree
           \/ GuestExits
  BY <1>1, <1>6 DEF ParserTypes, Phases, LoadPayload, BootDefault, BootOpenSbi, Built,
                    LoadFirmware, CopyTree, GuestExits
<1>7. CASE UNCHANGED vars \/ Record \/ Build \/ GuestStores \/ GuestPolls \/ GuestBreaks
  BY <1>2, <1>7 DEF vars, hostVars, Record, Build, GuestStores, GuestPolls, GuestBreaks
<1> QED BY <1>3, <1>4, <1>5, <1>6, <1>7 DEF Next

\* Writes over the bus are recorded with what of them is in memory.
LEMMA PutTypes ==
    ASSUME NEW what \in {"payload", "firmware", "tree"}, NEW at \in Nat, NEW size \in Nat,
           MachineTypes, Put(what, at, size)
    PROVE  writes' \in Seq(Writes)
<1>1. Min({size, mem_size - at}) \in Int
  <2>1. PICK room \in Int : room = mem_size - at
    BY DEF MachineTypes
  <2>2. Min({size, room}) \in Int
    BY GreaterOf
  <2> QED BY <2>1, <2>2
<1>2. Max({0, Min({size, mem_size - at})}) \in Nat
  BY <1>1, GreaterOf
<1>3. PICK len \in Nat : len = Max({0, Min({size, mem_size - at})})
  BY <1>2
<1>4. [what |-> what, at |-> at, len |-> len] \in Writes
  BY DEF Writes
<1> QED BY <1>3, <1>4, AppendProperties DEF Put, MachineTypes

LEMMA MachineStep ==
    ASSUME ParserTypes, WriterTypeOK, MachineTypes, [Next]_vars
    PROVE  MachineTypes'
<1>1. CASE UNCHANGED <<mem_size, writes, cpu>>
  BY <1>1 DEF MachineTypes
<1>2. CASE MakeMachine
  <2>1. SystemKb(config) \in Nat
    BY Places, SMT DEF ParserTypes, SystemKb
  <2>2. Bytes(SystemKb(config)) \in Nat
    BY <2>1, Places, SMT DEF Bytes
  <2> QED BY <1>2, <2>2 DEF MachineTypes, MakeMachine
<1>3. CASE LoadPayload
  <2>1. PICK at \in Nat : Load("payload", at, setup.payload)
    BY <1>3, Places DEF LoadPayload
  <2>2. writes' \in Seq(Writes)
    <3>1. CASE setup.payload = Absent
      BY <2>1, <3>1 DEF Load, MachineTypes
    <3>2. CASE setup.payload # Absent
      BY <2>1, <3>2, GivenGuest, PutTypes DEF Load, ParserTypes
    <3> QED BY <3>1, <3>2
  <2> QED BY <1>3, <2>2 DEF MachineTypes, LoadPayload
<1>4. CASE LoadFirmware
  <2>1. Load("firmware", 0, setup.firmware)
    BY <1>4 DEF LoadFirmware
  <2>2. writes' \in Seq(Writes)
    <3>1. CASE setup.firmware = Absent
      BY <2>1, <3>1 DEF Load, MachineTypes
    <3>2. CASE setup.firmware # Absent
      BY <2>1, <3>2, GivenGuest, PutTypes DEF Load, ParserTypes
    <3> QED BY <3>1, <3>2
  <2> QED BY <1>4, <2>2 DEF MachineTypes, LoadFirmware
<1>5. CASE CopyTree
  <2>1. Put("tree", DtbAt, totalsize) /\ totalsize \in Nat
    BY <1>5 DEF CopyTree, WriterTypeOK
  <2>2. writes' \in Seq(Writes)
    BY <2>1, Places, PutTypes
  <2> QED BY <1>5, <2>2 DEF MachineTypes, CopyTree
<1>6. CASE BootDefault \/ BootOpenSbi
  <2>1. UNCHANGED <<mem_size, writes>>
    BY <1>6 DEF BootDefault, BootOpenSbi
  <2>2. CASE BootDefault
    <3>1. cpu' = [cpu EXCEPT !.pc = "ram", !.sp = mem_size]
      BY <2>2 DEF BootDefault
    <3>2. mem_size \in Nat /\ cpu \in [pc : {"zero", "ram"}, sp : Nat, a1 : Nat]
      BY DEF MachineTypes
    <3>3. cpu' \in [pc : {"zero", "ram"}, sp : Nat, a1 : Nat]
      BY <3>1, <3>2
    <3> QED BY <2>1, <3>3 DEF MachineTypes
  <2>3. CASE BootOpenSbi
    <3>1. cpu' \in [pc : {"zero", "ram"}, sp : Nat, a1 : Nat]
      BY <2>3, Places DEF BootOpenSbi
    <3> QED BY <2>1, <3>1 DEF MachineTypes
  <2> QED BY <1>6, <2>2, <2>3
<1>7. CASE \/ UNCHANGED vars \/ Record \/ Build \/ Built \/ GuestStores \/ GuestPolls \/ GuestBreaks
           \/ GuestExits \/ ParseStart \/ ParseFlag \/ ParseMemory \/ ParseSystem \/ ParseError
           \/ ParseEnd
  BY <1>1, <1>7 DEF vars, hostVars, Record, Build, Built, GuestStores, GuestPolls, GuestBreaks,
                    GuestExits, ParseStart, ParseFlag, ParseMemory, ParseSystem, ParseError, ParseEnd,
                    Unparsed
<1> QED BY <1>2, <1>3, <1>4, <1>5, <1>6, <1>7 DEF Next

\* The instruction a guest is at.
LEMMA InstructionAt ==
    ASSUME ParserTypes, GuestTypes, NEW op, Runs(op)
    PROVE  /\ setup.guest[next] \in Instruction /\ setup.guest[next].op = op
           /\ next + 1 \in 1 .. Len(setup.guest) + 1
<1>1. setup.guest \in Seq(Instruction) /\ Len(setup.guest) \in Nat
  BY GivenGuest DEF ParserTypes
<1>2. next \in 1 .. Len(setup.guest)
  BY <1>1 DEF GuestTypes, Runs
<1> QED BY <1>1, <1>2 DEF Runs

LEMMA StoredByte ==
    ASSUME NEW i \in Instruction, i.op = "store"
    PROVE  i.offset \in 0 .. 7 /\ i.value \in 0 .. 255
BY DEF Instruction

LEMMA GuestStep ==
    ASSUME ParserTypes, GuestTypes, [Next]_vars
    PROVE  GuestTypes'
<1>1. setup' = setup
  BY DEF Next, vars, hostVars, Record, ParseStart, ParseFlag, ParseMemory, ParseSystem, ParseError,
         ParseEnd, Unparsed, MakeMachine, LoadPayload, BootDefault, BootOpenSbi, Build, Built,
         LoadFirmware, CopyTree, GuestStores, GuestPolls, GuestBreaks, GuestExits
<1>2. CASE GuestStores
  <2>1. PICK i \in Instruction : i = setup.guest[next] /\ i.op = "store"
    BY <1>2, InstructionAt DEF GuestStores
  <2>2. i.offset \in 0 .. 7 /\ i.value \in 0 .. 255
    BY <2>1, StoredByte
  <2>3. UartWriteByte(i.offset, i.value)
    BY <1>2, <2>1 DEF GuestStores
  <2>4. uart_registers' \in [0 .. 7 -> 0 .. 255] /\ console' \in Seq(0 .. 255)
    <3>1. console' = console \/ console' = Append(console, i.value)
      BY <2>3 DEF UartWriteByte
    <3>2. uart_registers' = uart_registers \/ uart_registers' = [uart_registers EXCEPT ![i.offset] = i.value]
      BY <2>3 DEF UartWriteByte
    <3>3. console \in Seq(0 .. 255) /\ uart_registers \in [0 .. 7 -> 0 .. 255]
      BY DEF GuestTypes
    <3>4. console' \in Seq(0 .. 255)
      <4>1. PICK S : S = 0 .. 255
        OBVIOUS
      <4>2. console \in Seq(S) /\ i.value \in S
        BY <2>2, <3>3, <4>1
      <4>3. Append(console, i.value) \in Seq(S)
        BY <4>2, AppendProperties
      <4> QED BY <3>1, <4>1, <4>2, <4>3
    <3>5. uart_registers' \in [0 .. 7 -> 0 .. 255]
      BY <2>2, <3>2, <3>3
    <3> QED BY <3>4, <3>5
  <2>5. next' \in 1 .. Len(setup.guest) + 1
    BY <1>2, InstructionAt DEF GuestStores
  <2> QED BY <1>1, <2>4, <2>5 DEF GuestTypes
<1>3. CASE GuestPolls
  <2>1. next' \in 1 .. Len(setup.guest) + 1
    BY <1>3, InstructionAt DEF GuestPolls, GuestTypes
  <2> QED BY <1>1, <1>3, <2>1 DEF GuestTypes, GuestPolls, uartVars
<1>4. CASE GuestBreaks
  <2>1. next' \in 1 .. Len(setup.guest) + 1
    BY <1>4, InstructionAt DEF GuestBreaks
  <2> QED BY <1>1, <1>4, <2>1 DEF GuestTypes, GuestBreaks, uartVars
<1>5. CASE UNCHANGED <<next, uart_registers, console>>
  BY <1>1, <1>5 DEF GuestTypes
<1>6. CASE \/ UNCHANGED vars \/ Record \/ Build \/ Built \/ MakeMachine \/ LoadPayload \/ BootDefault
           \/ BootOpenSbi \/ LoadFirmware \/ CopyTree
           \/ GuestExits \/ ParseStart \/ ParseFlag \/ ParseMemory \/ ParseSystem \/ ParseError
           \/ ParseEnd
  BY <1>5, <1>6 DEF vars, hostVars, uartVars, Record, Build, Built, MakeMachine, LoadPayload,
                    BootDefault, BootOpenSbi, LoadFirmware, CopyTree, GuestExits, ParseStart,
                    ParseFlag, ParseMemory, ParseSystem, ParseError, ParseEnd, Unparsed
<1> QED BY <1>2, <1>3, <1>4, <1>6 DEF Next

\* What a ring shows was recorded in it.
LEMMA ContentsTypes ==
    ASSUME RingInv, RingTypes
    PROVE  Contents \in Seq(Chars)
<1>1. PICK n \in Nat, h \in Nat : n = HistorySize /\ n >= 1 /\ h = head /\ h \in 0 .. n - 1
  BY RingSize DEF SizeIsPositive, RingInv
<1>2. PICK hist : hist = history
  OBVIOUS
<1>3. PICK m \in 0 .. n : m = Held /\ (m < n => m = h /\ ~wrapped) /\ (m = n => wrapped)
  BY <1>1 DEF Held, RingInv
<1>4. Contents = Shown(hist, n, h, m)
  BY <1>1, <1>2, <1>3, ContentsAt
<1>5. \A k \in 1 .. m : hist[Slot(n, h, m, k)] \in Chars
  <2> TAKE k \in 1 .. m
  <2>1. CASE m < n
    <3>1. Slot(n, h, m, k) = k - 1 /\ k - 1 \in 0 .. n - 1 /\ k - 1 < h
      BY <1>1, <1>3, <2>1 DEF Slot
    <3> QED BY <1>1, <1>2, <3>1 DEF RingTypes
  <2>2. CASE m = n
    <3>1. Slot(n, h, m, k) \in 0 .. n - 1
      BY <1>1, <2>2 DEF Slot
    <3> QED BY <1>1, <1>2, <1>3, <2>2, <3>1 DEF RingTypes
  <2> QED BY <2>1, <2>2
<1>6. Shown(hist, n, h, m) \in [1 .. m -> Chars]
  BY <1>5 DEF Shown
<1> QED BY <1>4, <1>6

LEMMA RingTypesStep ==
    ASSUME RingInv, RingTypes, [Next]_vars
    PROVE  RingTypes'
<1>1. CASE Record /\ tr
  <2>1. /\ message # <<>> /\ UNCHANGED dumped
        /\ history' = [history EXCEPT ![head] = Head(message)]
        /\ head' = NextHead(head)
        /\ wrapped' = (wrapped \/ NextHead(head) = 0)
    BY <1>1 DEF Record, RecordChar
  <2>2. PICK n \in Nat, h \in Nat : n = HistorySize /\ n >= 1 /\ h = head /\ h \in 0 .. n - 1
    BY RingSize DEF SizeIsPositive, RingInv
  <2>3. PICK c \in Chars : c = Head(message)
    BY <2>1 DEF RingInv
  <2>4. history' \in [0 .. n - 1 -> Chars \cup {Nul}]
    BY <2>1, <2>2, <2>3 DEF RingTypes
  <2>5. PICK h2 \in 0 .. n - 1 : h2 = head' /\ h2 = IF h + 1 >= n THEN 0 ELSE h + 1
    BY <2>1, <2>2 DEF NextHead
  <2>6. ASSUME NEW k \in 0 .. n - 1, wrapped' \/ k < h2 PROVE history'[k] \in Chars
    <3>1. CASE k = h
      BY <2>1, <2>2, <2>3, <2>4, <3>1 DEF RingTypes
    <3>2. CASE k # h
      <4>1. history'[k] = history[k]
        BY <2>1, <2>2, <3>2 DEF RingTypes
      <4>2. wrapped \/ k < h
        <5>1. wrapped \/ h2 = 0 \/ k < h2
          BY <2>1, <2>5, <2>6
        <5>2. CASE h2 = 0
          BY <2>1, <2>2, <2>5, <2>6, <3>2, <5>2
        <5>3. CASE k < h2
          BY <2>2, <2>5, <3>2, <5>3
        <5> QED BY <5>1, <5>2, <5>3
      <4> QED BY <2>2, <4>1, <4>2 DEF RingTypes
    <3> QED BY <3>1, <3>2
  <2> QED BY <2>1, <2>2, <2>4, <2>5, <2>6 DEF RingTypes
<1>2. CASE GuestBreaks
  <2>1. dumped' = (IF tr THEN Contents ELSE dumped) /\ UNCHANGED ring
    BY <1>2 DEF GuestBreaks, Dump
  <2> QED BY <2>1, ContentsTypes DEF RingTypes, ring
<1>3. CASE UNCHANGED <<ring, dumped>>
  BY <1>3 DEF RingTypes, ring
<1>4. CASE Record /\ ~tr
  BY <1>3, <1>4 DEF Record, RecordChar
<1>5. CASE \/ UNCHANGED vars \/ Build \/ Built \/ MakeMachine \/ LoadPayload \/ BootDefault
           \/ BootOpenSbi \/ LoadFirmware \/ CopyTree \/ GuestStores \/ GuestPolls
           \/ GuestExits \/ ParseStart \/ ParseFlag \/ ParseMemory \/ ParseSystem \/ ParseError
           \/ ParseEnd
  BY <1>3, <1>5 DEF vars, debugVars, Build, Built, MakeMachine, LoadPayload,
                    BootDefault, BootOpenSbi, LoadFirmware, CopyTree, GuestExits, ParseStart,
                    GuestStores, GuestPolls,
                    ParseFlag, ParseMemory, ParseSystem, ParseError, ParseEnd, Unparsed
<1> QED BY <1>1, <1>2, <1>4, <1>5 DEF Next

HostTypes == RingInv /\ ParserTypes /\ MachineTypes /\ GuestTypes /\ RingTypes

LEMMA InitTypes == Init => ParserTypes /\ MachineTypes /\ GuestTypes /\ RingTypes
<1> SUFFICES ASSUME Init PROVE ParserTypes /\ MachineTypes /\ GuestTypes /\ RingTypes
  OBVIOUS
<1>1. setup \in Setups /\ Len(setup.args) \in Nat /\ Len(setup.guest) \in Nat
  BY GivenGuest DEF Init
<1>2. ParserTypes
  BY <1>1, SMT DEF Init, ParserTypes, Phases, DefaultKb
<1>3. MachineTypes
  BY DEF Init, MachineTypes
<1>4. GuestTypes
  BY <1>1 DEF Init, UartInit, GuestTypes
<1>5. RingTypes
  <2>1. head = 0 /\ wrapped = FALSE /\ dumped = <<>> /\ history = [k \in 0 .. HistorySize - 1 |-> Nul]
    BY DEF Init, DebugInit
  <2>2. \A k \in 0 .. HistorySize - 1 : ~(k < 0)
    BY RingSize DEF SizeIsPositive
  <2> QED BY <2>1, <2>2 DEF RingTypes
<1> QED BY <1>2, <1>3, <1>4, <1>5

LEMMA TypesImplied == HostTypes /\ WriterTypeOK => TypeOK
<1> SUFFICES ASSUME HostTypes, WriterTypeOK PROVE TypeOK
  OBVIOUS
<1>1. arg_i \in 2 .. Max({2, Len(setup.args) + 1})
  <2>1. PICK n \in Nat : n = Len(setup.args)
    BY GivenGuest DEF HostTypes, ParserTypes
  <2>2. PICK i \in Nat : i = arg_i /\ 2 <= i /\ (i = 2 \/ i <= n + 1)
    BY <2>1 DEF HostTypes, ParserTypes
  <2>3. i \in 2 .. Max({2, n + 1})
    BY <2>2, GreaterOf
  <2> QED BY <2>1, <2>2, <2>3
<1> QED BY <1>1 DEF HostTypes, RingInv, ParserTypes, Phases, MachineTypes, Writes, GuestTypes,
               RingTypes, TypeOK

\* Every variable of the program keeps its type: the parser stays within the
\* command line, what is written to memory has a place and a length, the bytes
\* printed are bytes, and a dump shows characters only, never a place of the
\* ring that was not written.
THEOREM HostTypeCorrect == Spec => []TypeOK
<1>1. Init => HostTypes
  BY InitTypes, InitRing DEF HostTypes
<1>2. HostTypes /\ WriterTypeOK /\ [Next]_vars => HostTypes'
  BY RingStep, ParserStep, MachineStep, GuestStep, RingTypesStep DEF HostTypes
<1> QED BY <1>1, <1>2, TypesImplied, HostIsWriter, WriterTypes, PTL DEF Spec

-----------------------------------------------------------------------------
(* What is counted.                                                        *)

Rank(S, k) == Cardinality({j \in S : j <= k})

\* Numbers counted in order: one more, above the others, is the last of them
\* and changes the place of none.
LEMMA CountedLast ==
    ASSUME NEW n \in Nat, NEW S, S \subseteq 1 .. n
    PROVE  /\ Cardinality(S) \in Nat
           /\ \A k \in S : Rank(S, k) \in 1 .. Cardinality(S)
           /\ Cardinality(S \cup {n + 1}) = Cardinality(S) + 1
           /\ Rank(S \cup {n + 1}, n + 1) = Cardinality(S) + 1
           /\ \A k \in S : Rank(S \cup {n + 1}, k) = Rank(S, k)
<1>1. IsFiniteSet(S) /\ Cardinality(S) \in Nat
  <2>1. IsFiniteSet(1 .. n)
    BY FS_Interval
  <2>2. IsFiniteSet(S)
    BY <2>1, FS_Subset
  <2> QED BY <2>2, FS_CardinalityType
<1>2. n + 1 \notin S
  OBVIOUS
<1>3. Cardinality(S \cup {n + 1}) = Cardinality(S) + 1
  BY <1>1, <1>2, FS_AddElement
<1>4. Rank(S \cup {n + 1}, n + 1) = Cardinality(S) + 1
  <2>1. {j \in S \cup {n + 1} : j <= n + 1} = S \cup {n + 1}
    <3>1. \A j \in S \cup {n + 1} : j <= n + 1
      OBVIOUS
    <3> QED BY <3>1, Zenon
  <2> QED BY <1>3, <2>1 DEF Rank
<1>5. ASSUME NEW k \in S PROVE Rank(S, k) \in 1 .. Cardinality(S)
  <2>1. PICK T : T = {j \in S : j <= k}
    OBVIOUS
  <2>2. T \in SUBSET S /\ T # {}
    BY <1>5, <2>1
  <2>3. IsFiniteSet(T) /\ Cardinality(T) <= Cardinality(S)
    BY <1>1, <2>2, FS_Subset
  <2>4. Cardinality(T) \in Nat /\ Cardinality(T) # 0
    BY <2>2, <2>3, FS_CardinalityType, FS_EmptySet
  <2> QED BY <1>1, <2>1, <2>3, <2>4 DEF Rank
<1>6. ASSUME NEW k \in S PROVE Rank(S \cup {n + 1}, k) = Rank(S, k)
  <2>1. k \in Int /\ k < n + 1
    OBVIOUS
  <2>2. {j \in S \cup {n + 1} : j <= k} = {j \in S : j <= k}
    BY <2>1
  <2> QED BY <2>2 DEF Rank
<1> QED BY <1>1, <1>3, <1>4, <1>5, <1>6

-----------------------------------------------------------------------------
(* The console.                                                            *)

\* LCR holds what the last store to it left there, so that the latch is open
\* exactly if that store opened it.
ConsoleInv ==
    /\ ConsoleText
    /\ Latched(uart_registers) <=> Open(next)

LEMMA SentSoFar ==
    ASSUME ParserTypes, GuestTypes
    PROVE  next - 1 \in Nat /\ Sent \subseteq 1 .. next - 1 /\ Len(setup.guest) \in Nat
BY GivenGuest DEF ParserTypes, GuestTypes, Sent

\* What the guest has sent once it has gone past another instruction.
LEMMA SentNext ==
    ASSUME ParserTypes, GuestTypes, setup' = setup, next' = next + 1
    PROVE  Sent' = IF Stores(next, 0) /\ ~Open(next) THEN Sent \cup {next} ELSE Sent
<1>1. PICK n \in Nat : n = next - 1 /\ next = n + 1 /\ next' - 1 = n + 1
  BY SentSoFar DEF GuestTypes
<1>2. \A k : Stores(k, 0)' <=> Stores(k, 0)
  BY DEF Stores
<1>3. \A k : Open(k)' <=> Open(k)
  BY DEF Open, Stores
<1>4. Sent' = {k \in 1 .. n + 1 : Stores(k, 0) /\ ~Open(k)}
  BY <1>1, <1>2, <1>3 DEF Sent
<1>5. Sent = {k \in 1 .. n : Stores(k, 0) /\ ~Open(k)}
  BY <1>1 DEF Sent
<1>6. 1 .. n + 1 = (1 .. n) \cup {n + 1} /\ next = n + 1
  BY <1>1
<1> HIDE DEF Stores, Open
<1> QED BY <1>4, <1>5, <1>6

\* The latch after another instruction.
LEMMA OpenNext ==
    ASSUME ParserTypes, GuestTypes, setup' = setup, next' = next + 1
    PROVE  Open(next)' <=> IF Stores(next, LineControl) THEN setup.guest[next].value >= DivisorLatch
                           ELSE Open(next)
<1>1. PICK n \in Nat : n = next - 1 /\ next = n + 1 /\ next' - 1 = n + 1
  BY SentSoFar DEF GuestTypes
<1>2. PICK g : g = setup.guest
  OBVIOUS
<1> DEFINE S(k) == g[k].op = "store" /\ g[k].offset = LineControl
           V(k) == g[k].value >= DivisorLatch
<1>3. Open(next)' <=> \E j \in 1 .. n + 1 : S(j) /\ V(j) /\ \A later \in j + 1 .. n + 1 : ~S(later)
  BY <1>1, <1>2 DEF Open, Stores
<1>4. Open(next) <=> \E j \in 1 .. n : S(j) /\ V(j) /\ \A later \in j + 1 .. n : ~S(later)
  BY <1>1, <1>2 DEF Open, Stores
<1>5. Stores(next, LineControl) <=> S(n + 1)
  BY <1>1, <1>2 DEF Stores
<1>6. (setup.guest[next].value >= DivisorLatch) <=> V(n + 1)
  BY <1>1, <1>2
<1> HIDE DEF S, V
<1>7. CASE S(n + 1)
  <2>1. (\E j \in 1 .. n + 1 : S(j) /\ V(j) /\ \A later \in j + 1 .. n + 1 : ~S(later)) <=> V(n + 1)
    <3>1. ASSUME NEW j \in 1 .. n + 1, \A later \in j + 1 .. n + 1 : ~S(later) PROVE j = n + 1
      BY <1>7, <3>1
    <3>2. n + 1 \in 1 .. n + 1 /\ \A later \in n + 1 + 1 .. n + 1 : FALSE
      OBVIOUS
    <3> QED BY <1>7, <3>1, <3>2
  <2> QED BY <1>3, <1>5, <1>6, <1>7, <2>1
<1>8. CASE ~S(n + 1)
  <2>1. (\E j \in 1 .. n + 1 : S(j) /\ V(j) /\ \A later \in j + 1 .. n + 1 : ~S(later))
        <=> \E j \in 1 .. n : S(j) /\ V(j) /\ \A later \in j + 1 .. n : ~S(later)
    <3>1. \A j \in 1 .. n : (\A later \in j + 1 .. n + 1 : ~S(later)) <=> \A later \in j + 1 .. n : ~S(later)
      <4> TAKE j \in 1 .. n
      <4>1. j + 1 .. n + 1 = (j + 1 .. n) \cup {n + 1}
        OBVIOUS
      <4> QED BY <1>8, <4>1
    <3>2. 1 .. n + 1 = (1 .. n) \cup {n + 1}
      OBVIOUS
    <3> QED BY <1>8, <3>1, <3>2
  <2> QED BY <1>3, <1>4, <1>5, <1>8, <2>1
<1> QED BY <1>7, <1>8

LEMMA LatchBit == \A v \in 0 .. 255 : (v \div DivisorLatch) % 2 = 1 <=> v >= DivisorLatch
BY SMT DEF DivisorLatch

\* Nothing the guest's registers and console are about changed.
LEMMA ConsoleKept ==
    ASSUME ConsoleInv, UNCHANGED <<setup, next, uart_registers, console>>
    PROVE  ConsoleInv'
<1>1. \A k : (Open(k)' <=> Open(k)) /\ (Stores(k, 0)' <=> Stores(k, 0))
  BY DEF Open, Stores
<1>2. Sent' = Sent
  BY <1>1 DEF Sent
<1>3. Latched(uart_registers)' <=> Latched(uart_registers)
  BY DEF Latched
<1>4. Open(next)' <=> Open(next)
  BY DEF Open, Stores
<1>5. ConsoleText'
  BY <1>2 DEF ConsoleInv, ConsoleText
<1> QED BY <1>3, <1>4, <1>5 DEF ConsoleInv

\* An instruction that is no store, gone past or not.
LEMMA ConsoleNoStore ==
    ASSUME ParserTypes, GuestTypes, ConsoleInv, UNCHANGED <<setup, uart_registers, console>>,
           setup.guest[next].op # "store", next' \in {next, next + 1}
    PROVE  ConsoleInv'
<1>1. CASE next' = next
  BY <1>1, ConsoleKept
<1>2. CASE next' = next + 1
  <2>1. ~Stores(next, 0) /\ ~Stores(next, LineControl)
    BY DEF Stores
  <2>2. Sent' = Sent
    BY <1>2, <2>1, SentNext
  <2>3. Open(next)' <=> Open(next)
    BY <1>2, <2>1, OpenNext
  <2>4. Latched(uart_registers)' <=> Latched(uart_registers)
    BY DEF Latched
  <2>5. ConsoleText'
    BY <2>2 DEF ConsoleInv, ConsoleText
  <2> QED BY <2>3, <2>4, <2>5 DEF ConsoleInv
<1> QED BY <1>1, <1>2

\* A store: it is printed if it is to the first register and the latch is
\* closed, and opens or closes the latch if it is to LCR.
LEMMA ConsoleStore ==
    ASSUME ParserTypes, GuestTypes, ConsoleInv, GuestStores
    PROVE  ConsoleInv'
<1>1. PICK i \in Instruction : i = setup.guest[next] /\ i.op = "store"
  BY InstructionAt DEF GuestStores
<1>2. i.offset \in 0 .. 7 /\ i.value \in 0 .. 255
  BY <1>1, StoredByte
<1>3. /\ console' = IF i.offset = 0 /\ ~Latched(uart_registers) THEN Append(console, i.value) ELSE console
      /\ uart_registers' = IF i.offset \in 1 .. 7 /\ i.offset # LineStatus
                           THEN [uart_registers EXCEPT ![i.offset] = i.value] ELSE uart_registers
  BY <1>1 DEF GuestStores, UartWriteByte, Prints, Writable
<1>4. setup' = setup /\ next' = next + 1
  BY DEF GuestStores
<1>5. \A offset : Stores(next, offset) <=> i.offset = offset
  BY <1>1 DEF Stores
<1>6. Latched(uart_registers)' <=> Open(next)'
  <2>1. Open(next)' <=> IF i.offset = LineControl THEN i.value >= DivisorLatch ELSE Open(next)
    BY <1>1, <1>4, <1>5, OpenNext
  <2>2. CASE i.offset = LineControl
    <3>1. uart_registers'[LineControl] = i.value
      BY <1>2, <1>3, <2>2 DEF GuestTypes, LineControl, LineStatus
    <3>2. Latched(uart_registers)' <=> i.value >= DivisorLatch
      BY <1>2, <3>1, LatchBit DEF Latched
    <3> QED BY <2>1, <2>2, <3>2
  <2>3. CASE i.offset # LineControl
    <3>1. uart_registers'[LineControl] = uart_registers[LineControl]
      BY <1>2, <1>3, <2>3 DEF GuestTypes, LineControl
    <3>2. Latched(uart_registers)' <=> Latched(uart_registers)
      BY <3>1 DEF Latched
    <3> QED BY <2>1, <2>3, <3>2 DEF ConsoleInv
  <2> QED BY <2>2, <2>3
<1>7. ConsoleText'
  <2>1. PICK n \in Nat : n = next - 1 /\ next = n + 1
    BY SentSoFar DEF GuestTypes
  <2>2. PICK S : S = Sent /\ S \subseteq 1 .. n
    BY <2>1, SentSoFar
  <2>3. PICK g : g = setup.guest
    OBVIOUS
  <2>4. Len(console) = Cardinality(S) /\ \A k \in S : console[Rank(S, k)] = g[k].value
    BY <2>2, <2>3 DEF ConsoleInv, ConsoleText, Rank
  <2>5. CASE i.offset = 0 /\ ~Latched(uart_registers)
    <3>1. Sent' = S \cup {n + 1}
      BY <1>4, <1>5, <2>1, <2>2, <2>5, SentNext DEF ConsoleInv
    <3>2. PICK T : T = S \cup {n + 1}
      OBVIOUS
    <3>3. PICK V : V = 0 .. 255
      OBVIOUS
    <3>4. PICK old, new : old = console /\ new = console' /\ old \in Seq(V) /\ new = Append(old, i.value)
      BY <1>3, <2>5, <3>3 DEF GuestTypes
    <3>5. /\ Len(new) = Len(old) + 1 /\ new[Len(old) + 1] = i.value
          /\ \A k \in 1 .. Len(old) : new[k] = old[k]
      BY <1>2, <3>3, <3>4, AppendProperties
    <3>6. /\ \A k \in S : Rank(S, k) \in 1 .. Cardinality(S) /\ Rank(T, k) = Rank(S, k)
          /\ Rank(T, n + 1) = Cardinality(S) + 1
      BY <2>2, <3>2, CountedLast
    <3>7. \A k \in S : new[Rank(T, k)] = g[k].value
      <4> TAKE k \in S
      <4>1. PICK r : r = Rank(S, k)
        OBVIOUS
      <4>2. r \in 1 .. Len(old) /\ Rank(T, k) = r /\ old[r] = g[k].value
        BY <2>4, <3>4, <3>6, <4>1
      <4> QED BY <3>5, <4>2
    <3>8. new[Rank(T, n + 1)] = g[n + 1].value
      <4>1. Rank(T, n + 1) = Len(old) + 1
        BY <2>4, <3>4, <3>6
      <4>2. g[n + 1].value = i.value
        BY <1>1, <2>1, <2>3
      <4> QED BY <3>5, <4>1, <4>2
    <3>9. Len(new) = Cardinality(T)
      BY <2>2, <2>4, <3>2, <3>4, <3>5, CountedLast
    <3>10. \A k \in T : new[Rank(T, k)] = g[k].value
      BY <3>2, <3>7, <3>8
    <3> QED BY <1>4, <2>3, <3>1, <3>2, <3>4, <3>9, <3>10 DEF ConsoleText, Rank
  <2>6. CASE ~(i.offset = 0 /\ ~Latched(uart_registers))
    <3>1. Sent' = S
      BY <1>4, <1>5, <2>2, <2>6, SentNext DEF ConsoleInv
    <3>2. console' = console
      BY <1>3, <2>6
    <3> QED BY <1>4, <2>2, <2>3, <2>4, <3>1, <3>2 DEF ConsoleText, Rank
  <2> QED BY <2>5, <2>6
<1> QED BY <1>6, <1>7 DEF ConsoleInv

LEMMA ConsoleStep ==
    ASSUME ParserTypes, GuestTypes, ConsoleInv, [Next]_vars
    PROVE  ConsoleInv'
<1>1. CASE GuestStores
  BY <1>1, ConsoleStore
<1>2. CASE GuestPolls \/ GuestBreaks
  BY <1>2, ConsoleNoStore DEF GuestPolls, GuestBreaks, Runs, uartVars
<1>3. CASE \/ UNCHANGED vars \/ Record \/ Build \/ Built \/ MakeMachine \/ LoadPayload \/ BootDefault
           \/ BootOpenSbi \/ LoadFirmware \/ CopyTree
           \/ GuestExits \/ ParseStart \/ ParseFlag \/ ParseMemory \/ ParseSystem \/ ParseError
           \/ ParseEnd
  <2>1. UNCHANGED <<setup, next, uart_registers, console>>
    BY <1>3 DEF vars, hostVars, uartVars, Record, Build, Built, MakeMachine, LoadPayload,
                BootDefault, BootOpenSbi, LoadFirmware, CopyTree, GuestExits, ParseStart,
                ParseFlag, ParseMemory, ParseSystem, ParseError, ParseEnd, Unparsed
  <2> QED BY <2>1, ConsoleKept
<1> QED BY <1>1, <1>2, <1>3 DEF Next

LEMMA InitConsole == Init => ConsoleInv
<1> SUFFICES ASSUME Init PROVE ConsoleInv
  OBVIOUS
<1>1. next = 1 /\ console = <<>> /\ uart_registers = [k \in 0 .. 7 |-> IF k = LineStatus THEN 96 ELSE 0]
  BY DEF Init, UartInit
<1>2. Sent = {} /\ ~Open(next)
  BY <1>1 DEF Sent, Open
<1>3. ~Latched(uart_registers)
  BY <1>1 DEF Latched, LineControl, LineStatus, DivisorLatch
<1>4. ConsoleText
  BY <1>1, <1>2, FS_EmptySet DEF ConsoleText
<1> QED BY <1>2, <1>3, <1>4 DEF ConsoleInv

\* The console shows the bytes the guest sent and no others, in order, for
\* every guest and however it opened and closed the divisor latch.
THEOREM ConsoleShowsTheText == Spec => []ConsoleText
<1>1. Init => HostTypes /\ ConsoleInv
  BY InitTypes, InitRing, InitConsole DEF HostTypes
<1>2. HostTypes /\ WriterTypeOK /\ ConsoleInv /\ [Next]_vars => HostTypes' /\ ConsoleInv'
  BY RingStep, ParserStep, MachineStep, GuestStep, RingTypesStep, ConsoleStep DEF HostTypes
<1>3. ConsoleInv => ConsoleText
  BY DEF ConsoleInv
<1> QED BY <1>1, <1>2, <1>3, HostIsWriter, WriterTypes, PTL DEF Spec

-----------------------------------------------------------------------------
(* The building of the tree.                                               *)

\* The length of the program of calls and the room each of them may need.
Fitting(n, most) ==
    /\ n >= 4 /\ n = Len(Program)
    /\ Program[1].op = "create" /\ Program[2].op = "finish_reservemap"
    /\ \A k \in 3 .. n - 2 : IsToken(Program[k]) /\ Room(Program[k]) <= most
    /\ Program[n - 1].op = "finish" /\ Program[n].op = "pack"
    /\ 68 + (n - 4) * most <= FdtBuffer

LEMMA ProgramFits == \E n \in Nat, most \in Nat : Fitting(n, most)
<1>1. PICK n \in Nat : n = Len(Program)
  BY ProgramCalls
<1>2. PICK most \in 0 .. FdtBuffer :
              /\ \A k \in 3 .. n - 2 : Room(Program[k]) <= most
              /\ HeaderSize + ReserveEntry + (n - 4) * most + TagSize <= FdtBuffer
  BY <1>1, BuildAssumption, Zenon
<1>3. most \in Nat /\ 68 + (n - 4) * most <= FdtBuffer
  BY <1>2, SMT DEF HeaderSize, ReserveEntry, TagSize, FdtBuffer
<1>4. /\ n >= 4
      /\ Program[1].op = "create" /\ Program[2].op = "finish_reservemap"
      /\ \A k \in 3 .. n - 2 : IsToken(Program[k])
      /\ Program[n - 1].op = "finish" /\ Program[n].op = "pack"
  BY <1>1, BuildAssumption, Zenon
<1>5. Fitting(n, most)
  BY <1>1, <1>2, <1>3, <1>4 DEF Fitting
<1> QED BY <1>1, <1>3, <1>5

\* What the first k calls leave.
Laid(k, n, most) ==
    /\ k = 1 => /\ magic = "sw" /\ off_dt_strings = 0 /\ totalsize = FdtBuffer
                /\ off_mem_rsvmap = HeaderSize /\ off_dt_struct = HeaderSize
                /\ size_dt_struct = 0 /\ size_dt_strings = 0
    /\ k \in 2 .. n - 2 => /\ magic = "sw" /\ off_dt_strings = FdtBuffer /\ totalsize = FdtBuffer
                          /\ off_dt_struct = HeaderSize + ReserveEntry
                          /\ size_dt_struct + size_dt_strings <= (k - 2) * most
    /\ k >= n - 1 => magic = "complete"

TokensSoFar(k) == {j \in TokenCalls : j <= k}
Matched(k) ==
    /\ Len(Tokens) = Cardinality(TokensSoFar(k))
    /\ \A j \in TokensSoFar(k) : Program[j].name \in Tokens[Rank(TokensSoFar(k), j)].names

\* What fdt_grab_space_ did with room that was found.
Wrote(used) ==
    /\ \E t : structure' = Append(structure, t)
    /\ UNCHANGED <<magic, totalsize, off_dt_struct, off_dt_strings>>
    /\ size_dt_struct' + size_dt_strings' <= used

LEMMA GrabWrites ==
    ASSUME Sizes, NEW len \in Nat, NEW t, Grab(len, t), NEW namesize \in Nat,
           size_dt_strings' = namesize, NEW used \in Nat, size_dt_struct + len + namesize <= used
    PROVE  Wrote(used)
<1>1. structure' = Append(structure, t) /\ size_dt_struct' = size_dt_struct + len
      /\ UNCHANGED <<magic, totalsize, off_dt_struct, off_dt_strings>>
  BY DEF Grab
<1>2. \E tag : structure' = Append(structure, tag)
  BY <1>1
<1>3. size_dt_struct' + size_dt_strings' <= used
  BY <1>1 DEF Sizes
<1> QED BY <1>1, <1>2, <1>3, Zenon DEF Wrote

\* A call that fits writes its token.
LEMMA TokenFits ==
    ASSUME Sizes, NEW c, c \in Call, c.name \in Names, NameLength[c.name] \in Nat,
           IsToken(c), Make(c), magic = "sw", off_dt_strings = totalsize,
           NEW used \in Nat, size_dt_struct + size_dt_strings <= used,
           NEW most \in Nat, Room(c) <= most, off_dt_struct + used + most <= totalsize
    PROVE  Wrote(used + most)
<1>1. InStructure /\ StructTop = off_dt_struct + size_dt_struct
  BY DEF InStructure, StructTop
<1>2. /\ size_dt_struct \in Nat /\ size_dt_strings \in Nat /\ c.len \in Nat /\ used + most \in Nat
      /\ TagAlign(NameLength[c.name] + 1) \in Nat /\ TagAlign(c.len) \in Nat
      /\ off_dt_struct \in Nat /\ totalsize \in Nat
  BY TagAlignNat DEF Sizes, Call
<1>3. CASE c.op = "begin_node"
  <2>1. PICK len \in Nat : len = TagSize + TagAlign(NameLength[c.name] + 1) /\ len <= most
    BY <1>2, <1>3 DEF Room, TagSize
  <2>2. Fits(len, size_dt_strings)
    BY <1>2, <2>1 DEF Fits
  <2>3. PICK t : t = Tag("begin", c.name, 0)
    OBVIOUS
  <2>4. Grab(len, t) /\ size_dt_strings' = size_dt_strings
    BY <1>1, <1>3, <2>1, <2>2, <2>3 DEF Make, BeginNode
  <2>5. size_dt_struct + len + size_dt_strings <= used + most
    BY <1>2, <2>1
  <2> QED BY <1>2, <2>4, <2>5, GrabWrites
<1>4. CASE c.op = "end_node"
  <2>1. PICK len \in Nat : len = TagSize /\ len <= most
    BY <1>4 DEF Room, TagSize
  <2>2. Fits(len, size_dt_strings)
    BY <1>2, <2>1 DEF Fits
  <2>3. PICK t : t = Tag("end", "", 0)
    OBVIOUS
  <2>4. Grab(len, t) /\ size_dt_strings' = size_dt_strings
    BY <1>1, <1>4, <2>1, <2>2, <2>3 DEF Make, EndNode
  <2>5. size_dt_struct + len + size_dt_strings <= used + most
    BY <1>2, <2>1
  <2> QED BY <1>2, <2>1, <2>4, <2>5, GrabWrites
<1>5. CASE c.op = "property"
  <2>1. PICK size \in Nat : /\ size = PropertySize + TagAlign(c.len)
                            /\ size + NameLength[c.name] + 1 <= most
    BY <1>2, <1>5 DEF Room, PropertySize
  <2>2. Property(c.name, c.len)
    BY <1>5 DEF Make
  <2>3. CASE Found(c.name) # {}
    <3>1. Fits(size, size_dt_strings)
      BY <1>2, <2>1 DEF Fits
    <3>2. PropertySharing(c.name, size)
      BY <1>1, <2>1, <2>2, <2>3 DEF Property
    <3>3. PICK t : Grab(size, t) /\ size_dt_strings' = size_dt_strings
      BY <3>1, <3>2, Zenon DEF PropertySharing
    <3>5. size_dt_struct + size + size_dt_strings <= used + most
      BY <1>2, <2>1
    <3> QED BY <1>2, <3>3, <3>5, GrabWrites
  <2>4. CASE Found(c.name) = {}
    <3>1. PropertyNaming(c.name, size)
      BY <1>1, <2>1, <2>2, <2>4 DEF Property
    <3>2. PICK namesize \in Nat : namesize = size_dt_strings + NameLength[c.name] + 1
      BY <1>2
    <3>3. Fits(size, namesize) /\ ~(totalsize - namesize < StructTop)
      BY <1>1, <1>2, <2>1, <3>2 DEF Fits
    <3>5. PICK t : Grab(size, t) /\ size_dt_strings' = namesize
      BY <3>1, <3>2, <3>3, Zenon DEF PropertyNaming
    <3>6. size_dt_struct + size + namesize <= used + most
      BY <1>2, <2>1, <3>2
    <3> QED BY <1>2, <3>2, <3>5, <3>6, GrabWrites
  <2> QED BY <2>3, <2>4
<1> QED BY <1>3, <1>4, <1>5 DEF IsToken

LEMMA MoreOfThem == \A a, b, c \in Nat : a <= b => a * c <= b * c
OBVIOUS

\* As many tokens as tags.
LEMMA TokenCount == ASSUME NamesInv PROVE Len(structure) \in Nat /\ Len(Tokens) = Len(structure)
<1>1. PICK s \in Seq(TagSet) : s = structure
  BY DEF NamesInv
<1>2. PICK end, names : end = EndOfNames /\ names = strings
  OBVIOUS
<1>3. Tokens = [k \in 1 .. Len(s) |-> TokenIn(s[k], names, end)]
  BY <1>1, <1>2 DEF Tokens
<1>4. Len(s) \in Nat /\ Len([k \in 1 .. Len(s) |-> TokenIn(s[k], names, end)]) = Len(s)
  BY <1>1
<1> QED BY <1>1, <1>3, <1>4

\* Each call finds what it needs in place.
LEMMA LaidNext ==
    ASSUME TreeInv, CallsInv, NEW n \in Nat, NEW most \in Nat, Fitting(n, most),
           buf_size = FdtBuffer, Laid(calls, n, most), NextCall,
           NEW k \in Nat, k = calls + 1
    PROVE  /\ Laid(k, n, most)'
           /\ k \in 3 .. n - 2 => \E t : structure' = Append(structure, t)
           /\ k = 1 => structure' = <<>>
<1>1. calls' = k /\ k <= n /\ calls = k - 1 /\ k >= 1
  BY ProgramCalls DEF NextCall, CallsInv, Fitting
<1>2. PICK c : c = Program[k] /\ Make(c)
  BY <1>1 DEF NextCall
<1>3. c \in Call /\ c.name \in Names /\ NameLength[c.name] \in Nat
  BY <1>1, <1>2, CallFacts DEF NextCall
<1>4. Sizes
  BY DEF TreeInv, LayoutInv
<1>5. FdtBuffer \in Nat /\ FdtBuffer >= 48 /\ HeaderSize = 48 /\ ReserveEntry = 16 /\ TagSize = 4
  BY SMT DEF FdtBuffer, HeaderSize, ReserveEntry, TagSize
<1>6. CASE k = 1
  <2>1. c.op = "create"
    BY <1>2, <1>6 DEF Fitting
  <2>2. Create
    BY <1>2, <2>1 DEF Make
  <2>3. Laid(k, n, most)' /\ structure' = <<>>
    <3>1. /\ magic' = "sw" /\ totalsize' = FdtBuffer
          /\ off_mem_rsvmap' = HeaderSize /\ off_dt_struct' = HeaderSize /\ off_dt_strings' = 0
          /\ size_dt_struct' = 0 /\ size_dt_strings' = 0 /\ structure' = <<>>
      BY <1>5, <2>2 DEF Create
    <3>2. ~(k \in 2 .. n - 2) /\ ~(k >= n - 1)
      BY <1>6 DEF Fitting
    <3> QED BY <3>1, <3>2 DEF Laid
  <2> QED BY <1>1, <1>6, <2>3
<1>7. CASE k = 2
  <2>1. c.op = "finish_reservemap"
    BY <1>2, <1>7 DEF Fitting
  <2>2. FinishReservemap
    BY <1>2, <2>1 DEF Make
  <2>3. /\ magic = "sw" /\ off_dt_strings = 0 /\ totalsize = FdtBuffer /\ off_dt_struct = HeaderSize
        /\ size_dt_struct = 0 /\ size_dt_strings = 0
    BY <1>1, <1>7 DEF Laid
  <2>4. off_dt_struct + ReserveEntry <= totalsize
    <3>1. (n - 4) * most \in Nat
      BY DEF Fitting
    <3> QED BY <1>5, <2>3, <3>1 DEF Fitting
  <2>5. /\ magic' = "sw" /\ off_dt_strings' = FdtBuffer /\ totalsize' = FdtBuffer
        /\ off_dt_struct' = HeaderSize + ReserveEntry
        /\ size_dt_struct' = 0 /\ size_dt_strings' = 0
    BY <2>2, <2>3, <2>4 DEF FinishReservemap, InReserveMap
  <2>6. (k - 2) * most = 0 /\ k # 1 /\ ~(k >= n - 1)
    BY <1>7 DEF Fitting
  <2>7. Laid(k, n, most)'
    BY <2>5, <2>6 DEF Laid
  <2> QED BY <1>1, <1>7, <2>7
<1>8. CASE k \in 3 .. n - 2
  <2>1. IsToken(c) /\ Room(c) <= most
    BY <1>2, <1>8 DEF Fitting
  <2>2. k - 1 \in 2 .. n - 2 /\ calls = k - 1
    BY <1>1, <1>8
  <2>3. PICK used \in Nat : used = (k - 3) * most /\ used + most = (k - 2) * most
    BY <1>8
  <2>4. /\ magic = "sw" /\ off_dt_strings = FdtBuffer /\ totalsize = FdtBuffer
        /\ off_dt_struct = HeaderSize + ReserveEntry
        /\ size_dt_struct + size_dt_strings <= used
    BY <1>8, <2>2, <2>3 DEF Laid
  <2>5. off_dt_struct + used + most <= totalsize
    <3>1. (k - 2) * most <= (n - 4) * most
      BY <1>8, MoreOfThem
    <3>2. PICK some, every : some = (k - 2) * most /\ every = (n - 4) * most
      OBVIOUS
    <3>3. some \in Int /\ every \in Int
      BY <3>2
    <3>4. some <= every /\ used + most = some /\ 68 + every <= FdtBuffer
      BY <2>3, <3>1, <3>2 DEF Fitting
    <3>5. off_dt_struct = 64 /\ totalsize = FdtBuffer
      BY <1>5, <2>4
    <3> QED BY <1>5, <3>3, <3>4, <3>5
  <2>6. Wrote(used + most)
    BY <1>2, <1>3, <1>4, <2>1, <2>4, <2>5, TokenFits
  <2>7. k # 1 /\ ~(k >= n - 1) /\ k # 1 /\ calls # 0
    BY <1>1, <1>8
  <2>8. Laid(k, n, most)'
    BY <2>3, <2>4, <2>6, <2>7 DEF Laid, Wrote
  <2> QED BY <1>1, <2>6, <2>7, <2>8 DEF Wrote
<1>9. CASE k = n - 1 /\ k >= 3
  <2>1. c.op = "finish"
    BY <1>2, <1>9 DEF Fitting
  <2>2. Finish
    BY <1>2, <2>1 DEF Make
  <2>3. k - 1 \in 2 .. n - 2 /\ calls = k - 1 /\ k - 1 = n - 2
    BY <1>1, <1>9
  <2>4. /\ magic = "sw" /\ off_dt_strings = FdtBuffer /\ totalsize = FdtBuffer
        /\ off_dt_struct = HeaderSize + ReserveEntry
        /\ size_dt_struct + size_dt_strings <= (n - 2 - 2) * most
    BY <2>3 DEF Laid
  <2>5. Fits(TagSize, size_dt_strings)
    <3>1. n - 2 - 2 = n - 4
      OBVIOUS
    <3>2. PICK used \in Int : used = (n - 4) * most
      OBVIOUS
    <3>3. size_dt_struct + size_dt_strings <= used /\ 68 + used <= FdtBuffer
      BY <2>4, <3>1, <3>2 DEF Fitting
    <3> QED BY <1>4, <1>5, <2>4, <3>3 DEF Fits, Sizes
  <2>6. magic' = "complete"
    BY <2>2, <2>4, <2>5 DEF Finish, InStructure
  <2>7. k # 1 /\ ~(k \in 2 .. n - 2) /\ ~(k \in 3 .. n - 2) /\ calls # 0
    BY <1>1, <1>9
  <2>8. Laid(k, n, most)'
    BY <2>6, <2>7 DEF Laid
  <2> QED BY <1>1, <2>7, <2>8
<1>10. CASE k = n /\ k >= 4
  <2>1. c.op = "pack"
    BY <1>2, <1>10 DEF Fitting
  <2>2. Pack
    BY <1>2, <2>1 DEF Make
  <2>3. calls >= n - 1
    BY <1>1, <1>10
  <2>4. magic' = "complete"
    BY <2>2, <2>3 DEF Laid, Pack, tree, header
  <2>5. k # 1 /\ ~(k \in 2 .. n - 2) /\ ~(k \in 3 .. n - 2) /\ calls # 0
    BY <1>1, <1>10
  <2>6. Laid(k, n, most)'
    BY <2>4, <2>5 DEF Laid
  <2> QED BY <1>1, <2>5, <2>6
<1>11. k = 1 \/ k = 2 \/ k \in 3 .. n - 2 \/ (k = n - 1 /\ k >= 3) \/ (k = n /\ k >= 4)
  BY <1>1 DEF Fitting
<1> QED BY <1>6, <1>7, <1>8, <1>9, <1>10, <1>11

\* The calls that make tokens, one call further.
LEMMA TokensSoFarNext ==
    ASSUME NEW k \in Nat, k >= 1, k <= Len(Program)
    PROVE  TokensSoFar(k) = IF IsToken(Program[k]) THEN TokensSoFar(k - 1) \cup {k} ELSE TokensSoFar(k - 1)
<1>1. PICK n \in Nat : n = Len(Program)
  BY ProgramCalls
<1>2. \A j \in 1 .. n : j <= k <=> j <= k - 1 \/ j = k
  OBVIOUS
<1>3. k \in 1 .. n /\ ~(k <= k - 1)
  BY <1>1
<1> HIDE DEF IsToken
<1>4. \A j : j \in TokensSoFar(k) <=> j \in 1 .. n /\ IsToken(Program[j]) /\ j <= k
  BY <1>1 DEF TokensSoFar, TokenCalls
<1>5. \A j : j \in TokensSoFar(k - 1) <=> j \in 1 .. n /\ IsToken(Program[j]) /\ j <= k - 1
  BY <1>1 DEF TokensSoFar, TokenCalls
<1> QED BY <1>2, <1>3, <1>4, <1>5

LEMMA MatchedNext ==
    ASSUME TreeInv, CallsInv, NEW n \in Nat, NEW most \in Nat, Fitting(n, most),
           buf_size = FdtBuffer, Laid(calls, n, most), Matched(calls), NextCall,
           NEW k \in Nat, k = calls + 1
    PROVE  Matched(k)'
<1>1. calls' = k /\ k <= n /\ calls = k - 1 /\ k >= 1
  BY ProgramCalls DEF NextCall, CallsInv, Fitting
<1>2. NamesInv /\ NamesInv' /\ Outcome(Program[k])
  BY <1>1, CallOutcome DEF TreeInv
<1>3. /\ Len(structure) \in Nat /\ Len(Tokens) = Len(structure)
      /\ Len(structure') \in Nat /\ Len(Tokens') = Len(structure')
  <2>1. Len(structure) \in Nat /\ Len(Tokens) = Len(structure)
    BY <1>2, TokenCount
  <2>2. (Len(structure) \in Nat /\ Len(Tokens) = Len(structure))'
    BY <1>2, TokenCount, PTL
  <2> QED BY <2>1, <2>2
<1>4. PICK S, T : S = TokensSoFar(k - 1) /\ T = TokensSoFar(k)
  OBVIOUS
<1>5. T = IF IsToken(Program[k]) THEN S \cup {k} ELSE S
  BY <1>1, <1>4, TokensSoFarNext DEF Fitting
<1>6. S \subseteq 1 .. k - 1 /\ k - 1 \in Nat
  BY <1>1, <1>4, ProgramCalls DEF TokensSoFar, TokenCalls
<1>7. Len(Tokens) = Cardinality(S) /\ \A j \in S : Program[j].name \in Tokens[Rank(S, j)].names
  BY <1>1, <1>4 DEF Matched
<1>8. CASE k \in 3 .. n - 2
  <2>1. PICK t : structure' = Append(structure, t)
    BY <1>1, <1>8, LaidNext
  <2>2. Len(Tokens') # Len(Tokens)
    <3>1. structure \in Seq(TagSet)
      BY <1>2 DEF NamesInv
    <3>2. Len(Append(structure, t)) = Len(structure) + 1
      BY <3>1
    <3> QED BY <1>3, <2>1, <3>2
  <2>3. IsToken(Program[k]) /\ Program[k].op # "create"
    BY <1>8 DEF Fitting, IsToken
  <2>4. PICK e : Tokens' = Append(Tokens, e) /\ e.names = {Program[k].name}
    BY <1>2, <2>2, <2>3 DEF Outcome
  <2>5. PICK old, new : old = Tokens /\ new = Tokens' /\ new = Append(old, e)
    BY <2>4
  <2>6. /\ Len(new) = Len(old) + 1 /\ new[Len(old) + 1] = e
        /\ \A j \in 1 .. Len(old) : new[j] = old[j]
    <3>1. PICK V : old \in Seq(V) /\ e \in V
      <4>1. PICK m \in Nat : m = Len(structure)
        BY <1>3
      <4>2. Tokens = [j \in 1 .. m |-> Tokens[j]]
        BY <4>1 DEF Tokens
      <4>3. Tokens \in Seq({Tokens[j] : j \in 1 .. m} \cup {e})
        <5> DEFINE V == {Tokens[j] : j \in 1 .. m} \cup {e}
        <5>1. Tokens \in [1 .. m -> V]
          <6>1. \A j \in 1 .. m : Tokens[j] \in V
            OBVIOUS
          <6> QED BY <4>2, <6>1
        <5> QED BY <5>1
      <4> QED BY <2>5, <4>3
    <3> QED BY <2>5, <3>1, AppendProperties
  <2>7. T = S \cup {k} /\ k = (k - 1) + 1
    BY <1>5, <2>3
  <2>8. /\ Len(old) = Cardinality(S) /\ Cardinality(S) \in Nat
        /\ \A j \in S : Rank(S, j) \in 1 .. Cardinality(S) /\ Rank(T, j) = Rank(S, j)
        /\ Cardinality(T) = Cardinality(S) + 1
        /\ Rank(T, k) = Cardinality(S) + 1
    <3>1. PICK m \in Nat : m = k - 1 /\ m + 1 = k
      BY <1>6
    <3>2. S \subseteq 1 .. m /\ T = S \cup {m + 1}
      BY <1>6, <2>7, <3>1
    <3>3. /\ Cardinality(S) \in Nat
          /\ \A j \in S : Rank(S, j) \in 1 .. Cardinality(S)
          /\ Cardinality(T) = Cardinality(S) + 1
          /\ Rank(T, m + 1) = Cardinality(S) + 1
          /\ \A j \in S : Rank(T, j) = Rank(S, j)
      BY <3>2, CountedLast, Zenon
    <3>4. Len(old) = Cardinality(S)
      BY <1>7, <2>5
    <3> QED BY <3>1, <3>3, <3>4, Zenon
  <2>9. \A j \in S : Program[j].name \in new[Rank(T, j)].names
    <3> TAKE j \in S
    <3>1. PICK r : r = Rank(S, j)
      OBVIOUS
    <3>2. r \in 1 .. Len(old) /\ Rank(T, j) = r /\ Program[j].name \in old[r].names
      BY <1>7, <2>5, <2>8, <3>1
    <3> QED BY <2>6, <3>2
  <2>10. Program[k].name \in new[Rank(T, k)].names
    <3>1. new[Rank(T, k)] = e
      BY <2>6, <2>8
    <3> QED BY <2>4, <3>1
  <2> QED BY <1>1, <1>4, <2>5, <2>6, <2>7, <2>8, <2>9, <2>10 DEF Matched, TokensSoFar, TokenCalls
<1>9. CASE k = 1
  <2>1. structure' = <<>>
    BY <1>1, <1>9, LaidNext
  <2>2. ~IsToken(Program[k])
    BY <1>9 DEF Fitting, IsToken
  <2>3. T = {}
    <3>1. S = {}
      BY <1>6, <1>9
    <3> QED BY <1>5, <2>2, <3>1
  <2>4. Len(Tokens') = 0
    BY <1>3, <2>1
  <2> QED BY <1>1, <1>4, <2>3, <2>4, FS_EmptySet DEF Matched
<1>10. CASE k # 1 /\ ~(k \in 3 .. n - 2)
  <2>1. ~IsToken(Program[k]) /\ Program[k].op # "create"
    <3>1. k = 2 \/ k = n - 1 \/ k = n
      BY <1>1, <1>10
    <3> QED BY <3>1 DEF Fitting, IsToken
  <2>2. Tokens' = Tokens
    BY <1>2, <2>1 DEF Outcome, IsToken
  <2>3. T = S
    BY <1>5, <2>1
  <2> QED BY <1>1, <1>4, <1>7, <2>2, <2>3 DEF Matched
<1> QED BY <1>8, <1>9, <1>10

-----------------------------------------------------------------------------
\* What the calls left, in the buffer of the code.
BuildInv ==
    buf_size = FdtBuffer =>
        \E n \in Nat, most \in Nat : Fitting(n, most) /\ Laid(calls, n, most) /\ Matched(calls)

LEMMA InitBuild == WriterInit => BuildInv
<1> SUFFICES ASSUME WriterInit PROVE BuildInv
  OBVIOUS
<1>1. PICK n \in Nat, most \in Nat : Fitting(n, most)
  BY ProgramFits
<1>2. calls = 0 /\ structure = <<>>
  BY DEF WriterInit
<1>3. Laid(calls, n, most)
  BY <1>1, <1>2 DEF Laid, Fitting
<1>4. TokensSoFar(calls) = {}
  BY <1>2, ProgramCalls DEF TokensSoFar, TokenCalls
<1>5. Len(Tokens) = 0
  <2>1. NamesInv
    BY InitNames
  <2>2. Len(structure) = 0
    BY <1>2
  <2> QED BY <2>1, <2>2, TokenCount
<1> QED BY <1>1, <1>3, <1>4, <1>5, FS_EmptySet DEF Matched, BuildInv

LEMMA NextBuild == TreeInv /\ CallsInv /\ BuildInv /\ [NextCall]_fdtVars => BuildInv'
<1> SUFFICES ASSUME TreeInv, CallsInv, BuildInv, [NextCall]_fdtVars PROVE BuildInv'
  OBVIOUS
<1>1. CASE NextCall
  <2>1. UNCHANGED buf_size
    BY <1>1, KeepsBuffer DEF NextCall
  <2>2. SUFFICES ASSUME buf_size = FdtBuffer
                 PROVE  \E n \in Nat, most \in Nat :
                           Fitting(n, most) /\ Laid(calls, n, most)' /\ Matched(calls)'
    BY <2>1 DEF BuildInv
  <2>3. PICK n \in Nat, most \in Nat : Fitting(n, most) /\ Laid(calls, n, most) /\ Matched(calls)
    BY <2>2 DEF BuildInv
  <2>4. PICK k \in Nat : k = calls + 1 /\ k = calls'
    BY <1>1 DEF CallsInv, NextCall
  <2>5. Laid(k, n, most)' /\ Matched(k)'
    BY <1>1, <2>2, <2>3, <2>4, LaidNext, MatchedNext
  <2>6. Laid(calls, n, most)'
    BY <2>4, <2>5 DEF Laid
  <2>7. Matched(calls)'
    BY <2>4, <2>5 DEF Matched, TokensSoFar
  <2> QED BY <2>3, <2>6, <2>7
<1>2. CASE UNCHANGED fdtVars
  BY <1>2 DEF fdtVars, tree, header, BuildInv, Laid, Matched, Tokens, EndOfNames
<1> QED BY <1>1, <1>2

LEMMA BuildHolds == WriterSpec => []BuildInv
<1> QED BY CallsHold, InitBuild, NextBuild, InvariantHolds, PTL DEF WriterSpec

\* When all the calls are made, the tree is finished, with all it was given to
\* hold, and it is no longer than the buffer.
LEMMA BuiltTree ==
    ASSUME TreeInv, BuildInv, buf_size = FdtBuffer, calls = Len(Program)
    PROVE  /\ magic = "complete" /\ totalsize \in 1 .. FdtBuffer
           /\ Len(Tokens) = Cardinality(TokenCalls)
           /\ \A k \in TokenCalls :
                 Program[k].name \in Tokens[Cardinality({j \in TokenCalls : j <= k})].names
<1>1. PICK n \in Nat, most \in Nat : Fitting(n, most) /\ Laid(calls, n, most) /\ Matched(calls)
  BY DEF BuildInv
<1>2. calls = n /\ n >= 4 /\ n = Len(Program)
  BY <1>1 DEF Fitting
<1>3. magic = "complete"
  BY <1>1, <1>2 DEF Laid
<1>4. totalsize \in 1 .. FdtBuffer
  <2>1. BlocksDisjoint
    BY DEF TreeInv, LayoutInv, Sizes, Layout, Writing, Complete, BlocksDisjoint, InStructure,
           StructTop, HeaderSize
  <2>2. FdtBuffer \in Nat
    BY SMT DEF FdtBuffer
  <2> QED BY <1>3, <2>1, <2>2 DEF BlocksDisjoint, StructTop, ReserveEntry, TreeInv, LayoutInv, Sizes
<1>5. TokensSoFar(calls) = TokenCalls
  BY <1>2 DEF TokensSoFar, TokenCalls
<1> QED BY <1>1, <1>3, <1>4, <1>5 DEF Matched, Rank

-----------------------------------------------------------------------------
(* The files in memory.                                                    *)

Image(what, at, size) ==
    [what |-> what, at |-> at, len |-> Max({0, Min({size, mem_size - at})})]
PayloadImage == Image("payload", PayloadAt, setup.payload)
FirmwareImage == Image("firmware", 0, setup.firmware)
TreeImage == Image("tree", DtbAt, totalsize)

WithPayload == IF setup.payload = Absent THEN <<>> ELSE <<PayloadImage>>
WithFirmware == IF setup.firmware = Absent THEN WithPayload ELSE Append(WithPayload, FirmwareImage)

\* How far OpenSBISystem::boot is: the memory it asked for, the calls of
\* DTBBuilder::build and the files written.
Begun == phase \in {"build", "firmware", "copy", "run"}
BootInv ==
    /\ phase \in {"arguments", "parse", "create", "payload", "boot"} => calls = 0
    /\ phase \in {"arguments", "parse", "create", "payload"} => writes = <<>>
    /\ phase \in {"build", "firmware", "copy"} => config.system = "opensbi"
    /\ config.system = "opensbi" =>
          /\ phase \in {"payload", "boot"} \/ Begun =>
                MinimumKb <= config.memory_kb /\ mem_size = Bytes(config.memory_kb)
          /\ Begun => cpu.a1 = DtbAt
          /\ phase \in {"boot", "build", "firmware"} => writes = WithPayload
          /\ phase \in {"firmware", "copy"} => calls = Len(Program)
          /\ phase = "copy" => writes = WithFirmware
          /\ phase = "run" =>
                /\ calls = Len(Program)
                /\ totalsize > 0 => writes = Append(WithFirmware, TreeImage)

LEMMA InitBoot == Init => BootInv
BY DEF Init, WriterInit, BootInv, Begun

\* What the loader does is to write the whole file.
LEMMA LoadImage ==
    ASSUME NEW what, NEW at, NEW size, Load(what, at, size)
    PROVE  writes' = IF size = Absent THEN writes ELSE Append(writes, Image(what, at, size))
BY DEF Load, Put, Image

LEMMA SameImages ==
    ASSUME UNCHANGED <<setup, mem_size>>
    PROVE  /\ UNCHANGED <<PayloadImage, FirmwareImage, WithPayload, WithFirmware>>
           /\ UNCHANGED totalsize => UNCHANGED TreeImage
BY DEF PayloadImage, FirmwareImage, TreeImage, WithPayload, WithFirmware, Image

LEMMA BootStep ==
    ASSUME ParserTypes, MachineTypes, WriterTypeOK, BootInv, [Next]_vars
    PROVE  BootInv'
<1>1. CASE ParseStart \/ ParseFlag \/ ParseMemory \/ ParseSystem \/ ParseError \/ ParseEnd
  <2>1. phase \in {"arguments", "parse"} /\ phase' \in {"parse", "create", "aborted"}
    BY <1>1 DEF ParseStart, ParseFlag, ParseMemory, ParseSystem, ParseError, ParseEnd
  <2>2. UNCHANGED <<writes, calls>>
    BY <1>1 DEF ParseStart, ParseFlag, ParseMemory, ParseSystem, ParseError, ParseEnd, Unparsed,
                fdtVars
  <2> QED BY <2>1, <2>2 DEF BootInv, Begun
<1>2. CASE MakeMachine
  <2>1. /\ phase = "create" /\ phase' \in {"payload", "exit"}
        /\ config' = [config EXCEPT !.memory_kb = SystemKb(config)]
        /\ phase' = "payload" => mem_size' = Bytes(SystemKb(config))
        /\ UNCHANGED <<writes, calls>>
    BY <1>2 DEF MakeMachine, fdtVars
  <2>2. config'.memory_kb = SystemKb(config) /\ config'.system = config.system
    BY <2>1 DEF ParserTypes
  <2>3. config.system = "opensbi" => MinimumKb <= SystemKb(config)
    BY Places DEF SystemKb, ParserTypes
  <2> QED BY <2>1, <2>2, <2>3 DEF BootInv, Begun
<1>3. CASE LoadPayload
  <2>1. /\ phase = "payload" /\ phase' = "boot"
        /\ UNCHANGED <<setup, config, mem_size, calls>>
        /\ config.system = "opensbi" => Load("payload", PayloadAt, setup.payload)
    BY <1>3 DEF LoadPayload, fdtVars
  <2>2. config.system = "opensbi" => writes' = WithPayload'
    <3>1. SUFFICES ASSUME config.system = "opensbi" PROVE writes' = WithPayload
      BY <2>1, SameImages
    <3>2. writes' = IF setup.payload = Absent THEN writes ELSE Append(writes, PayloadImage)
      BY <2>1, <3>1, LoadImage DEF PayloadImage
    <3>3. writes = <<>>
      BY <2>1 DEF BootInv
    <3>4. Append(<<>>, PayloadImage) = <<PayloadImage>>
      OBVIOUS
    <3> QED BY <3>2, <3>3, <3>4 DEF WithPayload
  <2> QED BY <2>1, <2>2 DEF BootInv, Begun
<1>4. CASE BootDefault
  BY <1>4 DEF BootInv, Begun, BootDefault
<1>5. CASE BootOpenSbi
  <2>1. /\ phase = "boot" /\ phase' = "build" /\ cpu'.a1 = DtbAt
        /\ UNCHANGED <<setup, config, mem_size, writes, calls>> /\ config.system = "opensbi"
    BY <1>5 DEF BootOpenSbi, fdtVars
  <2> QED BY <2>1, SameImages DEF BootInv, Begun
<1>6. CASE Build
  <2>1. phase = "build" /\ UNCHANGED <<phase, setup, config, mem_size, writes, cpu>>
    BY <1>6 DEF Build, hostVars
  <2> QED BY <2>1, SameImages DEF BootInv, Begun
<1>7. CASE Built
  <2>1. /\ phase = "build" /\ calls = Len(Program) /\ totalsize \in Nat
        /\ phase' = "firmware" \/ (phase' = "run" /\ totalsize <= 0)
        /\ UNCHANGED <<setup, config, mem_size, writes, cpu, calls, totalsize>>
    BY <1>7 DEF Built, fdtVars, tree, header, WriterTypeOK
  <2> QED BY <2>1, SameImages DEF BootInv, Begun
<1>8. CASE LoadFirmware
  <2>1. /\ phase = "firmware" /\ phase' = "copy"
        /\ UNCHANGED <<setup, config, mem_size, cpu, calls>>
        /\ Load("firmware", 0, setup.firmware)
    BY <1>8 DEF LoadFirmware, fdtVars
  <2>2. writes' = WithFirmware'
    <3>1. writes' = IF setup.firmware = Absent THEN writes ELSE Append(writes, FirmwareImage)
      BY <2>1, LoadImage DEF FirmwareImage
    <3>2. writes = WithPayload
      BY <2>1 DEF BootInv
    <3>3. WithFirmware' = WithFirmware
      BY <2>1, SameImages
    <3> QED BY <3>1, <3>2, <3>3 DEF WithFirmware
  <2> QED BY <2>1, <2>2 DEF BootInv, Begun
<1>9. CASE CopyTree
  <2>1. /\ phase = "copy" /\ phase' = "run"
        /\ UNCHANGED <<setup, config, mem_size, cpu, calls, totalsize>>
        /\ Put("tree", DtbAt, totalsize)
    BY <1>9 DEF CopyTree, fdtVars, tree, header
  <2>2. writes' = Append(WithFirmware, TreeImage)
    BY <2>1 DEF BootInv, Put, TreeImage, Image
  <2>3. UNCHANGED <<WithFirmware, TreeImage>>
    BY <2>1, SameImages
  <2> QED BY <2>1, <2>2, <2>3 DEF BootInv, Begun
<1>10. CASE GuestExits
  BY <1>10 DEF BootInv, Begun, GuestExits
<1>11. CASE UNCHANGED vars \/ Record \/ GuestStores \/ GuestPolls \/ GuestBreaks
  <2>1. UNCHANGED <<setup, phase, config, mem_size, writes, cpu, calls, totalsize>>
    BY <1>11 DEF vars, hostVars, fdtVars, tree, header, Record, GuestStores, GuestPolls, GuestBreaks
  <2> QED BY <2>1, SameImages DEF BootInv, Begun
<1> QED BY <1>1, <1>2, <1>3, <1>4, <1>5, <1>6, <1>7, <1>8, <1>9, <1>10, <1>11 DEF Next

\* A file of which nothing is left out is in memory whole, if nothing written
\* later covers any of it.
LEMMA WholeInMemory ==
    ASSUME NEW what, NEW at \in Nat, NEW size \in Nat, size >= 1,
           NEW m \in Nat, m = Len(writes), NEW k \in 1 .. m,
           writes[k] = [what |-> what, at |-> at, len |-> size],
           \A later \in k + 1 .. m : \A a \in at .. at + size - 1 : ~Covers(writes[later], a),
           writes \in Seq(Writes)
    PROVE  InMemory(what, at, size)
<1>1. \A a \in at .. at + size - 1 : Holds(what, a)
  <2> TAKE a \in at .. at + size - 1
  <2>1. writes[k].what = what /\ Covers(writes[k], a)
    BY DEF Covers
  <2>2. \A later \in k + 1 .. m : ~Covers(writes[later], a)
    OBVIOUS
  <2> QED BY <2>1, <2>2 DEF Holds
<1>2. \A e \in Edges : e \in Nat
  <2>1. \A j \in 1 .. Len(writes) : writes[j].at \in Nat /\ writes[j].len \in Nat
    <3> TAKE j \in 1 .. Len(writes)
    <3>1. writes[j] \in Writes
      OBVIOUS
    <3> QED BY <3>1 DEF Writes
  <2> QED BY <2>1 DEF Edges
<1>3. {at, at + size - 1} \cup {e \in Edges : at <= e /\ e < at + size} \subseteq at .. at + size - 1
  BY <1>2
<1> QED BY <1>1, <1>3 DEF InMemory

\* A file that ends in memory is written whole, and one that does not is cut.
LEMMA ImageLength ==
    ASSUME mem_size \in Nat, NEW what \in {"payload", "firmware", "tree"}, NEW at \in Nat,
           NEW size \in Nat
    PROVE  /\ Image(what, at, size) \in Writes
           /\ Image(what, at, size).what = what /\ Image(what, at, size).at = at
           /\ Image(what, at, size).len <= size
           /\ at + size <= mem_size =>
                 Image(what, at, size) = [what |-> what, at |-> at, len |-> size]
<1>1. PICK room \in Int : room = mem_size - at
  OBVIOUS
<1>2. PICK least \in Int : least = Min({size, room}) /\ least = IF size <= room THEN size ELSE room
  BY <1>1, GreaterOf
<1>3. PICK len \in Nat : len = Max({0, least}) /\ len = IF 0 <= least THEN least ELSE 0
  BY <1>2, GreaterOf
<1>4. Image(what, at, size) = [what |-> what, at |-> at, len |-> len]
  BY <1>1, <1>2, <1>3 DEF Image
<1>5. len <= size /\ (at + size <= mem_size => len = size)
  <2>1. PICK n \in Nat : n = mem_size
    OBVIOUS
  <2>2. room = n - at /\ least \in {size, room} /\ (size <= room => least = size) /\ least <= size
    BY <1>1, <1>2, <2>1
  <2>3. (0 <= least => len = least) /\ (~(0 <= least) => len = 0)
    BY <1>3
  <2>4. len <= size
    BY <2>2, <2>3
  <2>5. at + size <= n => size <= room
    BY <2>2
  <2>6. at + size <= n => len = size
    BY <2>2, <2>3, <2>5
  <2> QED BY <2>1, <2>4, <2>6
<1> QED BY <1>4, <1>5 DEF Writes

\* The images, in the order they were written.
LEMMA ImagesWritten ==
    ASSUME ParserTypes, MachineTypes, totalsize \in Nat,
           writes = Append(WithFirmware, TreeImage)
    PROVE  \E m \in Nat :
              /\ m = Len(writes) /\ m >= 1 /\ writes[m] = TreeImage
              /\ setup.firmware # Absent => m >= 2 /\ writes[m - 1] = FirmwareImage
              /\ setup.payload # Absent =>
                    /\ m >= 2 /\ writes[1] = PayloadImage
                    /\ \A later \in 2 .. m - 1 :
                          setup.firmware # Absent /\ writes[later] = FirmwareImage
<1>1. TreeImage \in Writes
  BY Places, ImageLength DEF TreeImage, MachineTypes
<1>2. setup.payload # Absent => PayloadImage \in Writes
  BY Places, ImageLength, GivenGuest DEF PayloadImage, MachineTypes, ParserTypes
<1>3. setup.firmware # Absent => FirmwareImage \in Writes
  BY Places, ImageLength, GivenGuest DEF FirmwareImage, MachineTypes, ParserTypes
<1>4. PICK p \in Seq(Writes) :
         /\ p = WithPayload
         /\ \/ (p = <<>> /\ Len(p) = 0 /\ setup.payload = Absent)
            \/ (Len(p) = 1 /\ p[1] = PayloadImage /\ setup.payload # Absent)
  <2>1. CASE setup.payload = Absent
    <3>1. WithPayload = <<>> /\ <<>> \in Seq(Writes) /\ Len(<<>>) = 0
      BY <2>1 DEF WithPayload
    <3> QED BY <2>1, <3>1
  <2>2. CASE setup.payload # Absent
    <3>1. WithPayload = <<PayloadImage>>
      BY <2>2 DEF WithPayload
    <3>2. PICK i \in Writes : i = PayloadImage
      BY <1>2, <2>2
    <3>3. <<i>> \in Seq(Writes) /\ Len(<<i>>) = 1 /\ <<i>>[1] = i
      OBVIOUS
    <3> QED BY <2>2, <3>1, <3>2, <3>3
  <2> QED BY <2>1, <2>2
<1>5. PICK f \in Seq(Writes) :
         /\ f = WithFirmware
         /\ \/ (f = p /\ setup.firmware = Absent)
            \/ (f = Append(p, FirmwareImage) /\ setup.firmware # Absent)
  <2>1. CASE setup.firmware = Absent
    BY <1>4, <2>1 DEF WithFirmware
  <2>2. CASE setup.firmware # Absent
    <3>1. Append(p, FirmwareImage) \in Seq(Writes)
      BY <1>3, <2>2, AppendProperties
    <3> QED BY <1>4, <2>2, <3>1 DEF WithFirmware
  <2> QED BY <2>1, <2>2
<1>6. PICK l \in Nat : l = Len(p)
  OBVIOUS
<1>7. PICK q \in Nat : q = Len(f) /\ Len(writes) = q + 1 /\ writes[q + 1] = TreeImage
                       /\ \A j \in 1 .. q : writes[j] = f[j]
  BY <1>1, <1>5, AppendProperties
<1>8. setup.firmware # Absent =>
          q = l + 1 /\ f[q] = FirmwareImage /\ \A j \in 1 .. l : f[j] = p[j]
  BY <1>3, <1>5, <1>6, <1>7, AppendProperties
<1>9. setup.firmware = Absent => q = l /\ f = p
  BY <1>5, <1>6, <1>7
<1>10. PICK m \in Nat : m = q + 1
  BY <1>7
<1>11. m = Len(writes) /\ m >= 1 /\ writes[m] = TreeImage /\ m - 1 = q
  BY <1>7, <1>10
<1>12. setup.firmware # Absent => m >= 2 /\ writes[m - 1] = FirmwareImage
  BY <1>6, <1>7, <1>8, <1>11
<1>13. setup.payload # Absent =>
           /\ m >= 2 /\ writes[1] = PayloadImage
           /\ \A later \in 2 .. m - 1 : setup.firmware # Absent /\ writes[later] = FirmwareImage
  <2> SUFFICES ASSUME setup.payload # Absent
               PROVE  /\ m >= 2 /\ writes[1] = PayloadImage
                      /\ \A later \in 2 .. m - 1 :
                            setup.firmware # Absent /\ writes[later] = FirmwareImage
    OBVIOUS
  <2>1. l = 1 /\ p[1] = PayloadImage
    BY <1>4, <1>6
  <2>2. q >= 1 /\ f[1] = PayloadImage
    BY <1>8, <1>9, <2>1
  <2>3. q = 1 \/ (q = 2 /\ setup.firmware # Absent /\ f[2] = FirmwareImage)
    BY <1>8, <1>9, <2>1
  <2> QED BY <1>7, <1>11, <2>2, <2>3
<1> QED BY <1>11, <1>12, <1>13

LEMMA BootImplied ==
    ASSUME ParserTypes, MachineTypes, WriterTypeOK, TreeInv, BuildInv, BootInv
    PROVE  BootImages
<1> SUFFICES ASSUME phase = "run", config.system = "opensbi", config.memory_kb < WrapKb,
                    buf_size = FdtBuffer
             PROVE  /\ magic = "complete" /\ cpu.a1 = DtbAt
                    /\ Len(Tokens) = Cardinality(TokenCalls)
                    /\ \A k \in TokenCalls :
                          Program[k].name \in Tokens[Cardinality({j \in TokenCalls : j <= k})].names
                    /\ InMemory("tree", DtbAt, totalsize)
                    /\ setup.firmware \in 1 .. PayloadAt => InMemory("firmware", 0, setup.firmware)
                    /\ /\ setup.payload \in 1 .. DtbAt - PayloadAt
                       /\ setup.firmware <= PayloadAt
                       => InMemory("payload", PayloadAt, setup.payload)
  BY DEF BootImages
<1>1. /\ calls = Len(Program) /\ cpu.a1 = DtbAt
      /\ MinimumKb <= config.memory_kb /\ mem_size = Bytes(config.memory_kb)
      /\ totalsize > 0 => writes = Append(WithFirmware, TreeImage)
  BY DEF BootInv, Begun
<1>2. /\ magic = "complete" /\ totalsize \in 1 .. FdtBuffer
      /\ Len(Tokens) = Cardinality(TokenCalls)
      /\ \A k \in TokenCalls :
            Program[k].name \in Tokens[Cardinality({j \in TokenCalls : j <= k})].names
  BY <1>1, BuiltTree
<1>3. PICK total \in Nat : total = totalsize /\ total >= 1 /\ total <= FdtBuffer
  BY <1>2
<1>4. mem_size \in Nat /\ DtbAt + FdtBuffer <= mem_size
  <2>1. PICK kb \in Nat : kb = config.memory_kb /\ MinimumKb <= kb /\ kb < WrapKb
    BY <1>1 DEF ParserTypes
  <2>2. mem_size = kb * 1024
    <3>1. kb % WrapKb = kb
      BY <2>1, Places
    <3> QED BY <1>1, <2>1, <3>1 DEF Bytes
  <2>3. PICK least \in Nat, top \in Int : least = MinimumKb /\ top = DtbAt + FdtBuffer
                                         /\ top <= least * 1024
    <3>1. DtbAt + FdtBuffer \in Int
      BY SMT DEF DtbAt, FdtBuffer
    <3> QED BY <3>1, Places
  <2>4. least * 1024 <= kb * 1024 /\ mem_size \in Nat
    BY <2>1, <2>3 DEF MachineTypes
  <2> QED BY <2>2, <2>3, <2>4
<1>5. DtbAt \in Nat /\ PayloadAt \in Nat /\ 0 < PayloadAt /\ PayloadAt < DtbAt /\ FdtBuffer \in Nat
  <2>1. FdtBuffer \in Nat
    BY SMT DEF FdtBuffer
  <2> QED BY <2>1, Places
<1>6. PICK m \in Nat :
         /\ m = Len(writes) /\ m >= 1 /\ writes[m] = TreeImage
         /\ setup.firmware # Absent => m >= 2 /\ writes[m - 1] = FirmwareImage
         /\ setup.payload # Absent =>
               /\ m >= 2 /\ writes[1] = PayloadImage
               /\ \A later \in 2 .. m - 1 :
                     setup.firmware # Absent /\ writes[later] = FirmwareImage
  BY <1>1, <1>3, ImagesWritten
<1>7. writes \in Seq(Writes)
  BY DEF MachineTypes
<1>8. TreeImage = [what |-> "tree", at |-> DtbAt, len |-> total]
  <2>1. DtbAt + total <= mem_size
    BY <1>3, <1>4, <1>5
  <2> QED BY <1>3, <1>4, <1>5, <2>1, ImageLength DEF TreeImage
<1>9. InMemory("tree", DtbAt, totalsize)
  <2>1. m \in 1 .. m /\ m + 1 .. m = {}
    BY <1>6
  <2>2. writes[m] = [what |-> "tree", at |-> DtbAt, len |-> total]
    BY <1>6, <1>8
  <2> QED BY <1>3, <1>5, <1>6, <1>7, <2>1, <2>2, WholeInMemory
<1>10. \A a \in Nat : a < DtbAt => ~Covers(TreeImage, a)
  BY <1>5, <1>8 DEF Covers
<1>11. ASSUME setup.firmware \in 1 .. PayloadAt PROVE InMemory("firmware", 0, setup.firmware)
  <2>1. PICK size \in Nat : size = setup.firmware /\ size >= 1 /\ size <= PayloadAt
    BY <1>5, <1>11
  <2>2. size # Absent
    BY <2>1 DEF Absent
  <2>3. FirmwareImage = [what |-> "firmware", at |-> 0, len |-> size]
    <3>1. 0 + size <= mem_size
      BY <1>4, <1>5, <2>1
    <3> QED BY <1>4, <2>1, <3>1, ImageLength DEF FirmwareImage
  <2>4. PICK k \in Nat : k = m - 1 /\ k \in 1 .. m /\ writes[k] = FirmwareImage /\ k + 1 .. m = {m}
    BY <1>6, <2>1, <2>2
  <2>5. \A later \in k + 1 .. m : \A a \in 0 .. 0 + size - 1 : ~Covers(writes[later], a)
    <3>1. \A a \in 0 .. 0 + size - 1 : a \in Nat /\ a < DtbAt
      BY <1>5, <2>1
    <3> QED BY <1>6, <1>10, <2>4, <3>1
  <2> QED BY <1>6, <1>7, <2>1, <2>3, <2>4, <2>5, WholeInMemory
<1>12. ASSUME setup.payload \in 1 .. DtbAt - PayloadAt, setup.firmware <= PayloadAt
       PROVE  InMemory("payload", PayloadAt, setup.payload)
  <2>1. PICK size \in Nat : size = setup.payload /\ size >= 1 /\ PayloadAt + size <= DtbAt
    BY <1>5, <1>12
  <2>2. size # Absent
    BY <2>1 DEF Absent
  <2>3. PayloadImage = [what |-> "payload", at |-> PayloadAt, len |-> size]
    <3>1. PayloadAt + size <= mem_size
      BY <1>4, <1>5, <2>1
    <3> QED BY <1>4, <1>5, <2>1, <3>1, ImageLength DEF PayloadImage
  <2>4. ASSUME setup.firmware # Absent
        PROVE  \A a \in Nat : PayloadAt <= a => ~Covers(FirmwareImage, a)
    <3>1. PICK other \in Nat : other = setup.firmware /\ other <= PayloadAt
      BY <1>12, <2>4, GivenGuest DEF ParserTypes
    <3>2. PICK len \in Nat : len = FirmwareImage.len /\ FirmwareImage.at = 0 /\ len <= other
      <4>1. 0 \in Nat /\ "firmware" \in {"payload", "firmware", "tree"}
        OBVIOUS
      <4>2. PICK i : i = FirmwareImage /\ i \in Writes /\ i.at = 0 /\ i.len <= other
        BY <1>4, <3>1, <4>1, ImageLength DEF FirmwareImage
      <4>3. i.len \in Nat
        BY <4>2 DEF Writes
      <4> QED BY <4>2, <4>3
    <3> QED BY <1>5, <3>1, <3>2 DEF Covers
  <2>5. \A later \in 1 + 1 .. m : \A a \in PayloadAt .. PayloadAt + size - 1 : ~Covers(writes[later], a)
    <3> TAKE later \in 1 + 1 .. m
    <3> TAKE a \in PayloadAt .. PayloadAt + size - 1
    <3>1. a \in Nat /\ PayloadAt <= a /\ a < DtbAt
      BY <1>5, <2>1
    <3>2. CASE later = m
      BY <1>6, <1>10, <3>1, <3>2
    <3>3. CASE later # m
      <4>1. later \in 2 .. m - 1
        BY <1>6, <3>3
      <4>2. setup.firmware # Absent /\ writes[later] = FirmwareImage
        BY <1>6, <2>1, <2>2, <4>1
      <4> QED BY <2>4, <3>1, <4>2
    <3> QED BY <3>2, <3>3
  <2>6. 1 \in 1 .. m /\ writes[1] = PayloadImage
    BY <1>6, <2>1, <2>2
  <2> QED BY <1>5, <1>6, <1>7, <2>1, <2>3, <2>5, <2>6, WholeInMemory
<1> QED BY <1>1, <1>2, <1>9, <1>11, <1>12

\* Under OpenSBI, whatever the command line and the files: when the firmware
\* begins, the device tree is finished, holds every node and property of
\* DTBBuilder::build, and is whole in memory where a1 points; the files are
\* whole too, if each ends before the next begins.
THEOREM GuestBoots == Spec => []BootImages
<1>1. ParserTypes /\ MachineTypes /\ WriterTypeOK /\ BootInv /\ [Next]_vars => BootInv'
  BY BootStep
<1>2. Init => ParserTypes /\ MachineTypes /\ BootInv
  BY InitTypes, InitBoot
<1>3. ParserTypes /\ MachineTypes /\ WriterTypeOK /\ [Next]_vars => ParserTypes' /\ MachineTypes'
  BY ParserStep, MachineStep
<1>4. WriterSpec => [](WriterTypeOK /\ TreeInv /\ BuildInv)
  BY WriterTypes, InvariantHolds, BuildHolds, PTL
<1>5. ParserTypes /\ MachineTypes /\ WriterTypeOK /\ TreeInv /\ BuildInv /\ BootInv => BootImages
  BY BootImplied
<1> QED BY <1>1, <1>2, <1>3, <1>4, <1>5, HostIsWriter, PTL DEF Spec
=============================================================================
