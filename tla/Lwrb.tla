-------------------------------- MODULE Lwrb --------------------------------
(***************************************************************************)
(* The lwrb ring buffer (app/Middlewares/lwrb) under one producer and one  *)
(* consumer that may interrupt each other at any shared access: the setting*)
(* its comments claim to be safe for without a lock.  A call is split at   *)
(* its shared accesses: load of the two positions, one memcpy per linear   *)
(* part of the storage, store of the position the caller owns.             *)
(***************************************************************************)
EXTENDS Naturals, Sequences

CONSTANTS Data,   \* the bytes
          Size,   \* bytes of storage given to lwrb_init
          Calls,  \* the byte sequences a producer passes to lwrb_write
          Wants   \* the byte counts a consumer passes to lwrb_read

ASSUME LwrbAssumption ==
  /\ Data # {}
  /\ Size \in Nat \ {0}
  /\ Calls \subseteq Seq(Data)
  /\ Wants \subseteq Nat

Slots == 0 .. Size - 1

VARIABLES buff,    \* the storage
          w_ptr,   \* next slot to write, stored by the producer only
          r_ptr,   \* next slot to read, stored by the consumer only
          writer,  \* locals of lwrb_write_ex: [pc, data, at, ret]
          reader   \* locals of lwrb_read_ex: [pc, n, got, at]

vars == <<buff, w_ptr, r_ptr, writer, reader>>

BUF_MIN(x, y) == IF x < y THEN x ELSE y

(* Bytes held, as lwrb_get_full computes them from the two positions.      *)
GetFull(w, r) == IF w >= r THEN w - r ELSE Size - (r - w)

(* Fault: the slot that tells full from empty is given away.               *)
GetFree_LastSlot(w, r) == IF w >= r THEN Size - (w - r) ELSE r - w

(* Bytes that may still be written: one slot always stays unused.          *)
GetFree(w, r) == (IF w >= r THEN Size - (w - r) ELSE r - w) - 1

(* The slot i places after p, for p a slot and i <= Size.                  *)
Wrap(p, i) == IF p + i >= Size THEN p + i - Size ELSE p + i

Init == /\ buff \in [Slots -> Data]
        /\ w_ptr = 0
        /\ r_ptr = 0
        /\ writer = [pc |-> "idle", data |-> << >>, at |-> 0, ret |-> 0]
        /\ reader = [pc |-> "idle", n |-> 0, got |-> << >>, at |-> 0]
-----------------------------------------------------------------------------
(* lwrb_write_ex: the amount is fixed from one load of r_ptr.              *)
WriteLoad(d) ==
  LET n == BUF_MIN(GetFree(w_ptr, r_ptr), Len(d))
  IN /\ writer.pc = "idle"
     /\ writer' = [pc   |-> IF n = 0 THEN "idle" ELSE "linear",
                   data |-> SubSeq(d, 1, n),
                   at   |-> w_ptr,
                   ret  |-> n]
     /\ UNCHANGED <<buff, w_ptr, r_ptr, reader>>

(* Step 1: the part up to the end of the storage.                          *)
WriteLinear ==
  LET tocopy == BUF_MIN(Size - writer.at, Len(writer.data))
  IN /\ writer.pc = "linear"
     /\ buff' = [j \in Slots |-> IF writer.at <= j /\ j < writer.at + tocopy
                                 THEN writer.data[j - writer.at + 1]
                                 ELSE buff[j]]
     /\ writer' = [writer EXCEPT
                     !.pc = IF tocopy < Len(writer.data) THEN "wrap" ELSE "store",
                     !.at = writer.at + tocopy]
     /\ UNCHANGED <<w_ptr, r_ptr, reader>>

(* Step 2: the overflow part, from the beginning of the storage.           *)
WriteWrap ==
  LET tocopy == Size - w_ptr
      btw    == Len(writer.data) - tocopy
  IN /\ writer.pc = "wrap"
     /\ buff' = [j \in Slots |-> IF j < btw THEN writer.data[tocopy + j + 1]
                                 ELSE buff[j]]
     /\ writer' = [writer EXCEPT !.pc = "store", !.at = btw]
     /\ UNCHANGED <<w_ptr, r_ptr, reader>>

(* Fault: no end-of-buffer check.                                          *)
WriteStore_NoEndCheck ==
  /\ writer.pc = "store"
  /\ w_ptr' = writer.at
  /\ writer' = [pc |-> "idle", data |-> << >>, at |-> 0, ret |-> writer.ret]
  /\ UNCHANGED <<buff, r_ptr, reader>>

(* Step 3: end-of-buffer check, then the store that publishes the bytes.   *)
WriteStore ==
  /\ writer.pc = "store"
  /\ w_ptr' = IF writer.at >= Size THEN 0 ELSE writer.at
  /\ writer' = [pc |-> "idle", data |-> << >>, at |-> 0, ret |-> writer.ret]
  /\ UNCHANGED <<buff, r_ptr, reader>>
-----------------------------------------------------------------------------
(* lwrb_read_ex: the mirror image, the amount fixed from one load of w_ptr.*)
ReadLoad(b) ==
  LET n == BUF_MIN(GetFull(w_ptr, r_ptr), b)
  IN /\ reader.pc = "idle"
     /\ reader' = [pc  |-> IF n = 0 THEN "idle" ELSE "linear",
                   n   |-> n,
                   got |-> << >>,
                   at  |-> r_ptr]
     /\ UNCHANGED <<buff, w_ptr, r_ptr, writer>>

ReadLinear ==
  LET tocopy == BUF_MIN(Size - reader.at, reader.n)
  IN /\ reader.pc = "linear"
     /\ reader' = [reader EXCEPT
                     !.pc  = IF tocopy < reader.n THEN "wrap" ELSE "store",
                     !.got = [i \in 1 .. tocopy |-> buff[reader.at + i - 1]],
                     !.at  = reader.at + tocopy]
     /\ UNCHANGED <<buff, w_ptr, r_ptr, writer>>

(* Fault: the overflow part is read one slot late.                         *)
ReadWrap_OffByOne ==
  LET btr == reader.n - Len(reader.got)
  IN /\ reader.pc = "wrap"
     /\ reader' = [reader EXCEPT
                     !.pc  = "store",
                     !.got = reader.got \o [i \in 1 .. btr |-> buff[i]],
                     !.at  = btr]
     /\ UNCHANGED <<buff, w_ptr, r_ptr, writer>>

ReadWrap ==
  LET btr == reader.n - Len(reader.got)
  IN /\ reader.pc = "wrap"
     /\ reader' = [reader EXCEPT
                     !.pc  = "store",
                     !.got = reader.got \o [i \in 1 .. btr |-> buff[i - 1]],
                     !.at  = btr]
     /\ UNCHANGED <<buff, w_ptr, r_ptr, writer>>

ReadStore ==
  /\ reader.pc = "store"
  /\ r_ptr' = IF reader.at >= Size THEN 0 ELSE reader.at
  /\ reader' = [reader EXCEPT !.pc = "idle", !.at = 0]
  /\ UNCHANGED <<buff, w_ptr, writer>>
-----------------------------------------------------------------------------
WriteSteps == WriteLinear \/ WriteWrap \/ WriteStore
ReadSteps  == ReadLinear \/ ReadWrap \/ ReadStore

Next == \/ \E d \in Calls : WriteLoad(d)
        \/ WriteSteps
        \/ \E b \in Wants : ReadLoad(b)
        \/ ReadSteps

Spec == Init /\ [][Next]_vars
-----------------------------------------------------------------------------
(* The positions stay inside the storage, and so do the copies of a call   *)
(* in progress (lwrb_write_ex and lwrb_read_ex wrap at the end).           *)
TypeOK ==
  /\ buff \in [Slots -> Data]
  /\ w_ptr \in Slots
  /\ r_ptr \in Slots
  /\ writer \in [pc : {"idle", "linear", "wrap", "store"}, data : Seq(Data),
                 at : 0 .. Size, ret : Nat]
  /\ reader \in [pc : {"idle", "linear", "wrap", "store"}, n : Nat,
                 got : Seq(Data), at : 0 .. Size]

(* The slots the producer's call in progress may store to, and those the   *)
(* consumer's may load from.                                               *)
WriteRegion == IF writer.pc = "idle" THEN {}
               ELSE {Wrap(w_ptr, i) : i \in 0 .. Len(writer.data) - 1}
ReadRegion  == IF reader.pc = "idle" THEN {}
               ELSE {Wrap(r_ptr, i) : i \in 0 .. reader.n - 1}

(* Freedom from data races: no slot is written by lwrb_write while a       *)
(* concurrent lwrb_read copies it, however the two calls interleave.       *)
NoOverlap == WriteRegion \cap ReadRegion = {}

(* The bytes between the two positions, oldest first.                      *)
Contents == [i \in 1 .. GetFull(w_ptr, r_ptr) |-> buff[Wrap(r_ptr, i - 1)]]

Queue == INSTANCE BoundedQueue WITH
           Capacity <- Size - 1,
           q  <- Contents,
           wr <- [busy |-> writer.pc # "idle", data |-> writer.data,
                  ret |-> writer.ret],
           rd <- [busy |-> reader.pc # "idle", n |-> reader.n,
                  got |-> IF reader.pc = "idle" THEN reader.got ELSE << >>]

(* lwrb_read and lwrb_write without a lock behave as a bounded FIFO queue  *)
(* of Size - 1 bytes: nothing is lost, duplicated, reordered or overwritten*)
(* before it is read.                                                      *)
ImplementsQueue == Queue!Init /\ [][Queue!Next]_(Queue!vars)
=============================================================================
