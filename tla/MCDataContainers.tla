---------------------------- MODULE MCDataContainers ---------------------------
(* Two items of sizes that fill blocks exactly, partly and several times *)
EXTENDS DataContainers

\* Blocks of 5 bytes, 2 of them for a length: a short message ends with the block,
\* a long one goes on over the next two.
MCSizeOf(v) == IF v = "short" THEN 3 ELSE 7
================================================================================
