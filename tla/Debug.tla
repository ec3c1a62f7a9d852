-------------------------------- MODULE Debug --------------------------------
(***************************************************************************)
(* The trace: a ring of characters that every message is recorded in and   *)
(* that ebreak prints.  What --debug echoes on the console is left out.    *)
(***************************************************************************)
EXTENDS Integers, Sequences

CONSTANTS
    HistorySize, \* DEBUG_HISTORY_SIZE
    Chars        \* the characters of the messages

ASSUME HistoryAssumption == HistorySize \in Nat \ {0}

VARIABLES
    tr, message, history, head, wrapped,
    dumped \* what the last dump printed
ring == <<history, head, wrapped>>
debugVars == <<tr, message, ring, dumped>>

Nul == "" \* no message has it

DebugInit ==
    /\ tr = FALSE
    /\ message = <<>>
    /\ history = [k \in 0 .. HistorySize - 1 |-> Nul]
    /\ head = 0 /\ wrapped = FALSE
    /\ dumped = <<>>

\* A message is put together from what log, begin, writeString and end are
\* given, and recorded a character at a time.
Say(m) == message' = m

\* enableTrace, before anything is recorded.
EnableTrace(on) == tr' = on

\* recordChar.
\* Seeded fault: the ring wraps one character late.
NextHead_Late(h) == IF h + 1 > HistorySize THEN 0 ELSE h + 1
NextHead(h) == IF h + 1 >= HistorySize THEN 0 ELSE h + 1

RecordChar ==
    /\ message # <<>>
    /\ message' = Tail(message)
    /\ IF tr
       THEN /\ history' = [history EXCEPT ![head] = Head(message)]
            /\ head' = NextHead(head)
            /\ wrapped' = (wrapped \/ NextHead(head) = 0)
       ELSE UNCHANGED ring
    /\ UNCHANGED <<tr, dumped>>

\* What dump prints: from head to the end of the ring if it has wrapped, and
\* from its beginning to head.
Newer == [k \in 1 .. head |-> history[k - 1]]
Older == [k \in 1 .. HistorySize - head |-> history[head + k - 1]]
Contents == IF wrapped THEN Older \o Newer ELSE Newer

Dump == dumped' = IF tr THEN Contents ELSE dumped

-----------------------------------------------------------------------------
(* Properties.                                                             *)

\* A dump shows the last characters recorded, in the order they were recorded,
\* and nothing older or never written, however often the ring wrapped.
Trace == INSTANCE TraceLog WITH Size <- HistorySize, log <- Contents
TraceSpec == Trace!LogSpec
=============================================================================
