--------------------------- MODULE ReceiveBuffer ---------------------------
(***************************************************************************)
(* Buffer, the byte buffer between a connection of the message server and  *)
(* its codec: what is written after the write position is read from the    *)
(* read position on, and what has been read makes place for more.          *)
(***************************************************************************)
EXTENDS Integers, Sequences

CONSTANTS
  Zero      \* a byte nobody has written

Buffers(Cells) == {b \in [store : Seq(Cells), read : Nat, write : Nat] :
                     b.read <= b.write /\ b.write <= Len(b.store)}

Zeros(size) == [i \in 1..size |-> Zero]

EmptyBuffer(size) == [store |-> Zeros(size), read |-> 0, write |-> 0]

Readable(b) == b.write - b.read
Writable(b) == Len(b.store) - b.write

Unread(b) == SubSeq(b.store, b.read + 1, b.write)

MoveReadPos(b, n) == [b EXCEPT !.read = @ + n]

(* Faulty: the write position is left where it was. *)
NormalizeReadOnly(b) ==
  [store |-> [i \in 1..Len(b.store) |->
                IF i <= Readable(b) THEN b.store[b.read + i] ELSE b.store[i]],
   read |-> 0, write |-> b.write]

(* What is unread moves to the front; the rest keeps its old bytes. *)
Normalize(b) ==
  [store |-> [i \in 1..Len(b.store) |->
                IF i <= Readable(b) THEN b.store[b.read + i] ELSE b.store[i]],
   read |-> 0, write |-> Readable(b)]

Grow(b, n) ==
  LET more == b.write + n
      size == IF 2 * Len(b.store) > more THEN 2 * Len(b.store) ELSE more
  IN [b EXCEPT !.store = @ \o Zeros(size - Len(@))]

ExpandIfNeed(b, n) ==
  IF Writable(b) >= n THEN b
  ELSE IF Writable(Normalize(b)) >= n THEN Normalize(b)
  ELSE Grow(Normalize(b), n)

PutAt(s, at, data) ==
  [i \in 1..Len(s) |-> IF i > at /\ i <= at + Len(data) THEN data[i - at] ELSE s[i]]

Write(b, data) ==
  LET room == ExpandIfNeed(b, Len(data)) IN
  [room EXCEPT !.store = PutAt(@, room.write, data), !.write = @ + Len(data)]
=============================================================================
