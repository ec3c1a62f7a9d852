----------------------------- MODULE DTBBuilder ------------------------------
(***************************************************************************)
(* DTBBuilder::build: the calls that write the device tree of the virtual  *)
(* machine, with the lengths of the names and values as they are for the   *)
(* addresses OpenSBISystem passes.                                         *)
(***************************************************************************)
EXTENDS Integers, Sequences, FiniteSetsExt, TLC

ToCall(op, name, len) == [op |-> op, name |-> name, len |-> len]
Begin(name) == <<ToCall("begin_node", name, 0)>>
End == <<ToCall("end_node", "", 0)>>
\* fdt_property, fdt_property_cell; fdt_property_string counts the last zero.
Value(name, len) == <<ToCall("property", name, len)>>
Cell(name) == Value(name, 4)
Text(name, chars) == Value(name, chars + 1)

\* generate_isa_string: rv64 or rv32 and the letters of misa, IMAFC here.
IsaLength(letters, room) == IF room < 6 THEN 0 ELSE Min({4 + letters, room - 1})

CpuNode ==
    Begin("cpu@0")
    \o Cell("interrupt-controller") \o Text("device_type", 3) \o Cell("reg")
    \o Text("status", 4) \o Text("compatible", 5) \o Text("riscv,isa", IsaLength(5, 32))
    \o Text("mmu-type", 10) \o Cell("riscv,pmp") \o Cell("riscv,pmp-granularity")
    \o Begin("interrupt-controller")
    \o Cell("#interrupt-cells") \o Value("interrupt-controller", 0)
    \o Text("compatible", 14) \o Cell("phandle") \o Cell("linux,phandle")
    \o End \o End

SocNode ==
    Begin("soc")
    \o Cell("#address-cells") \o Cell("#size-cells") \o Text("compatible", 10)
    \o Value("ranges", 0)
    \o Begin("uart@10000000")
    \o Text("compatible", 8) \o Value("reg", 16) \o Cell("clock-frequency")
    \o Cell("reg-shift") \o Cell("reg-io-width")
    \o End
    \o Begin("clint@2000000")
    \o Text("compatible", 12) \o Value("reg", 16) \o Value("interrupts-extended", 16)
    \o End \o End

BuildCalls ==
    <<ToCall("create", "", 0), ToCall("finish_reservemap", "", 0)>>
    \o Begin("")
    \o Cell("#address-cells") \o Cell("#size-cells") \o Text("compatible", 28)
    \o Text("model", 25)
    \o Begin("chosen") \o Text("stdout-path", 18) \o End
    \o Begin("cpus")
    \o Cell("#address-cells") \o Cell("#size-cells") \o Cell("timebase-frequency")
    \o CpuNode \o End
    \o Begin("memory@80000000") \o Text("device_type", 6) \o Value("reg", 16) \o End
    \o SocNode
    \o End
    \o <<ToCall("finish", "", 0), ToCall("pack", "", 0)>>

BuildLengths ==
    LET Of(n, names) == [name \in names |-> n]
    IN  [name \in {""} |-> 0]
        @@ Of(3, {"soc", "reg"}) @@ Of(4, {"cpus"}) @@ Of(5, {"cpu@0", "model"})
        @@ Of(6, {"chosen", "status", "ranges"}) @@ Of(7, {"phandle"}) @@ Of(8, {"mmu-type"})
        @@ Of(9, {"riscv,isa", "riscv,pmp", "reg-shift"}) @@ Of(10, {"compatible"})
        @@ Of(11, {"#size-cells", "stdout-path", "device_type"}) @@ Of(12, {"reg-io-width"})
        @@ Of(13, {"linux,phandle", "uart@10000000", "clint@2000000"})
        @@ Of(14, {"#address-cells"}) @@ Of(15, {"memory@80000000", "clock-frequency"})
        @@ Of(16, {"#interrupt-cells"}) @@ Of(18, {"timebase-frequency"})
        @@ Of(19, {"interrupts-extended"}) @@ Of(20, {"interrupt-controller"})
        @@ Of(21, {"riscv,pmp-granularity"})

BuildSuffixes ==
    {<<name, name>> : name \in DOMAIN BuildLengths} \cup {<<"phandle", "linux,phandle">>}
=============================================================================
