------------------------------- MODULE MemoryPool ------------------------------
(***************************************************************************)
(* The pool of fixed-size blocks that serialized revisions are written to  *)
(* and read from through protobuf's zero-copy streams                      *)
(* (map-api/include/map-api/proto-stl-stream.h).  A pool is a record of    *)
(* its blocks, numbered from 0 as in the code, and the next free position. *)
(***************************************************************************)
EXTENDS Integers, Sequences

CONSTANTS BlockSize,  \* bytes in a block
          HeaderSize  \* bytes of the length in front of a message

ASSUME PoolAssumption ==
  /\ HeaderSize \in Nat \ {0}
  /\ BlockSize \in Nat
  /\ HeaderSize <= BlockSize

LOCAL Least(m, n) == IF m <= n THEN m ELSE n

Free == <<"free">>
Block == [i \in 0 .. BlockSize - 1 |-> Free]

EmptyPool == [blocks |-> <<>>, index |-> 0, position |-> 0]

\* Moves on to a new block when this one is full.
EnsureMemoryIndicesAreValid(pool) ==
  IF pool.position < BlockSize /\ pool.blocks # <<>> THEN pool
  ELSE LET index == IF pool.blocks = <<>> THEN pool.index ELSE pool.index + 1
           missing == index + 1 - Len(pool.blocks)
       IN  [blocks |-> pool.blocks \o [i \in 1..missing |-> Block],
            index |-> index, position |-> 0]

\* The buffer that Next hands out: the rest of the present block
Buffer(pool) ==
  LET p == EnsureMemoryIndicesAreValid(pool)
  IN  [block |-> p.index, from |-> p.position, size |-> BlockSize - p.position]

NextBuffer(pool) ==
  EnsureMemoryIndicesAreValid(
    [EnsureMemoryIndicesAreValid(pool) EXCEPT !.position = BlockSize])

\* How many blocks a stream at this position goes back over to give up count bytes
BlocksBack(position, count) ==
  IF count <= position THEN 0 ELSE (count - position + BlockSize - 1) \div BlockSize

BackUp(pool, count) ==
  LET back == BlocksBack(pool.position, count)
  IN  [pool EXCEPT !.index = @ - back, !.position = @ - count + back * BlockSize]

Fill(pool, buffer, bytes) ==
  [pool EXCEPT !.blocks[buffer.block + 1] =
     [i \in DOMAIN @ |-> IF i >= buffer.from /\ i < buffer.from + Len(bytes)
                         THEN bytes[i - buffer.from + 1] ELSE @[i]]]

RECURSIVE WriteBytes(_, _)
\* SerializeToZeroCopyStream: fills buffer after buffer and gives back the rest of the last.
WriteBytes(pool, bytes) ==
  LET buffer == Buffer(pool)
      n == Least(buffer.size, Len(bytes))
      filled == Fill(NextBuffer(pool), buffer, SubSeq(bytes, 1, n))
  IN  IF n = Len(bytes) THEN BackUp(filled, buffer.size - n)
      ELSE WriteBytes(filled, SubSeq(bytes, n + 1, Len(bytes)))

Header(size) == [i \in 1..HeaderSize |-> <<"length", size, i>>]

RECURSIVE ForHeader(_)
\* A pool whose present block has room for the header
ForHeader(pool) == IF Buffer(pool).size >= HeaderSize THEN pool ELSE ForHeader(NextBuffer(pool))

\* The pool after a message was written, and the address to read it from
WriteMessage(pool, bytes) ==
  LET start == ForHeader(pool)
      headed == BackUp(Fill(NextBuffer(start), Buffer(start), Header(Len(bytes))),
                       Buffer(start).size - HeaderSize)
  IN  [pool |-> WriteBytes(headed, bytes),
       address |-> [block |-> start.index, offset |-> start.position]]

\* The CHECKs of RetrieveDataBlock
Retrievable(pool, block, offset) ==
  block >= 0 /\ block < Len(pool.blocks) /\ offset < BlockSize

RECURSIVE ReadBytes(_, _, _, _)
\* ParseFromBoundedZeroCopyStream from a position of the pool
ReadBytes(pool, block, offset, size) ==
  IF size = 0 \/ ~Retrievable(pool, block, offset) THEN <<>>
  ELSE LET n == Least(size, BlockSize - offset)
       IN  [i \in 1..n |-> pool.blocks[block + 1][offset + i - 1]]
             \o ReadBytes(pool, block + 1, 0, size - n)

\* The CHECKs of ReadMessage: the length is there in one piece and is not 0
Readable(pool, address) ==
  /\ Retrievable(pool, address.block, address.offset)
  /\ BlockSize - address.offset >= HeaderSize
  /\ \E size \in 1 .. Len(pool.blocks) * BlockSize :
        \A i \in 1..HeaderSize :
           pool.blocks[address.block + 1][address.offset + i - 1] = Header(size)[i]

\* Reads the length, gives back what it got beyond it, and reads as many bytes.
ReadMessage(pool, address) ==
  LET size == pool.blocks[address.block + 1][address.offset][2]
      beyond == BlockSize - address.offset - HeaderSize
      back == BlocksBack(0, beyond)
  IN  ReadBytes(pool, address.block + 1 - back, back * BlockSize - beyond, size)
================================================================================
