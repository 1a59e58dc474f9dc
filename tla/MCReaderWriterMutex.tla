-------------------------- MODULE MCReaderWriterMutex --------------------------
(* Four threads for ReaderWriterMutex. *)
EXTENDS ReaderWriterMutex

CONSTANTS a, b, c, d

\* Two that may upgrade, two that may write, and each also reads or writes.
MCCalls == [t \in Threads |->
  CASE t = a -> {"upgrade", "read"}
    [] t = b -> {"upgrade", "write"}
    [] t = c -> {"write", "read"}
    [] t = d -> {"read"}]
================================================================================
