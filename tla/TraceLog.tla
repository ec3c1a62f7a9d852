------------------------------ MODULE TraceLog -------------------------------
(***************************************************************************)
(* A trace of bounded length: the last characters of everything that was   *)
(* written while tracing was on, in order.                                 *)
(***************************************************************************)
EXTENDS Integers, Sequences

CONSTANTS Size, Chars

VARIABLES
    tr,
    message, \* what is still to be written
    log,
    dumped   \* what the last dump showed
logVars == <<tr, message, log, dumped>>

LogInit == tr \in BOOLEAN /\ message = <<>> /\ log = <<>> /\ dumped = <<>>

Enable == log = <<>> /\ tr' \in BOOLEAN /\ message' \in Seq(Chars) /\ UNCHANGED <<log, dumped>>

Start == message = <<>> /\ message' \in Seq(Chars) /\ UNCHANGED <<tr, log, dumped>>

Record ==
    /\ message # <<>>
    /\ message' = Tail(message)
    /\ log' = IF ~tr THEN log
              ELSE IF Len(log) < Size THEN Append(log, Head(message))
              ELSE Append(Tail(log), Head(message))
    /\ UNCHANGED <<tr, dumped>>

\* A dump may be followed by another message in the same step.
Show ==
    /\ message = <<>> /\ message' \in Seq(Chars)
    /\ dumped' = IF tr THEN log ELSE dumped
    /\ UNCHANGED <<tr, log>>

LogNext == Enable \/ Start \/ Record \/ Show

LogSpec == LogInit /\ [][LogNext]_logVars
=============================================================================
