-------------------------------- MODULE Uart ---------------------------------
(***************************************************************************)
(* The UART: eight registers, the first of which prints.                   *)
(***************************************************************************)
EXTENDS Integers, Sequences

VARIABLES
    uart_registers,
    console \* the characters it has printed
uartVars == <<uart_registers, console>>

LineControl == 3
LineStatus == 5
DivisorLatch == 128 \* the bit of LCR that gives offset 0 another meaning

UartInit ==
    /\ uart_registers = [k \in 0 .. 7 |-> IF k = LineStatus THEN 96 ELSE 0]
    /\ console = <<>>

Latched(registers) == (registers[LineControl] \div DivisorLatch) % 2 = 1

\* Seeded faults: the divisor is printed; the line status can be overwritten.
Prints_Always(offset) == offset = 0
Prints(offset) == offset = 0 /\ ~Latched(uart_registers)
Writable_All(offset) == offset \in 1 .. 7
Writable(offset) == offset \in 1 .. 7 /\ offset # LineStatus

UartWriteByte(offset, value) ==
    /\ console' = IF Prints(offset) THEN Append(console, value) ELSE console
    /\ uart_registers' =
           IF Writable(offset) THEN [uart_registers EXCEPT ![offset] = value]
           ELSE uart_registers

UartReadByte(offset) == uart_registers[offset]
=============================================================================
