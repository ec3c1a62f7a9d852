------------------------------- MODULE MCHost --------------------------------
(***************************************************************************)
(* Host with the device tree of DTBBuilder::build and some command lines,  *)
(* files and guests.                                                       *)
(***************************************************************************)
EXTENDS Host, DTBBuilder

\* Each line begins with a bracket and ends with a newline.
MCLines ==
    [k \in {"hardware", "loader", "boot", "store", "load", "mret"} |-> <<"[", k, "n">>]
MCChars == {"[", "n", "hardware", "loader", "boot", "store", "load", "mret"}

MCStoul ==
    [s \in {"0", "1", "40000", "65536", "4194305"} |->
        CASE s = "0" -> 0 [] s = "1" -> 1 [] s = "40000" -> 40000 [] s = "65536" -> 65536
          [] s = "4194305" -> 4194305]

\* The driver sets the divisor, and writes LSR, the FIFO control and IER.
Driver ==
    <<Store(3, 128), Store(0, 1), Store(1, 0), Store(3, 3), Store(2, 7), Store(5, 0),
      Poll, Store(0, 72), Break, Poll, Store(0, 73), Store(1, 5), Break, Exit>>
Careless == <<Poll, Store(0, 65), Store(3, 128), Store(0, 66), Store(3, 0), Break, Exit>>

With(args, payload, firmware, guest) ==
    [args |-> args, payload |-> payload, firmware |-> firmware, guest |-> guest]
Sbi == <<"kernel", "--system", "sbi">>

\* Command lines: of each kind that parses, or does not.
CommandLines ==
    {<<>>, <<"kernel">>, <<"kernel", "--trace">>, <<"kernel", "--trace", "--debug", "--memory", "1">>,
     <<"kernel", "--memory", "0">>, <<"kernel", "--memory">>, <<"kernel", "--memory", "much">>,
     <<"kernel", "--system">>, <<"kernel", "--sbi">>, Sbi, Sbi \o <<"--trace">>,
     Sbi \o <<"--memory", "1", "--trace">>, Sbi \o <<"--memory", "40000">>,
     Sbi \o <<"--trace", "--memory", "65536">>, <<"kernel", "--memory", "4194305">> \o Tail(Sbi),
     Sbi \o <<"--system", "other">>, <<"kernel", "--system", "bare", "--memory", "65536", "--trace">>}

\* Files: absent, empty, of some bytes, up to the next, beyond it and beyond
\* memory.
Files ==
    {<<Absent, Absent>>, <<0, 0>>, <<100, 200>>, <<100, PayloadAt>>, <<100, PayloadAt + 1>>,
     <<DtbAt - PayloadAt, 200>>, <<DtbAt - PayloadAt + 1, 200>>, <<90000000, 200>>,
     <<100, DtbAt + 100>>, <<1000, Absent>>}

MCSetups ==
    {With(args, 100, 200, Driver) : args \in CommandLines}
    \cup {With(args, f[1], f[2], Driver) : f \in Files,
             args \in {Sbi \o <<"--memory", "1">>, <<"kernel", "--memory", "65536">>}}
    \cup {With(args, 100, 200, Careless) :
             args \in {Sbi \o <<"--trace">>, <<"kernel", "--trace">>}}

\* sizeof(fdt_buf), and what no call, some calls and every call fit in.
MCBufSizes == {47, 48, 63, 64, FdtBuffer} \cup {100 + 60 * k : k \in 0 .. 20}
=============================================================================
