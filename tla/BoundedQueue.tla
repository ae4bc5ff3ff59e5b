---------------------------- MODULE BoundedQueue ----------------------------
(***************************************************************************)
(* What the lwrb ring buffer promises to one producer and one consumer: a  *)
(* first-in first-out queue of at most Capacity bytes.  A call decides how *)
(* many bytes it will move when it starts and moves them at one instant    *)
(* before it returns.                                                      *)
(***************************************************************************)
EXTENDS Naturals, Sequences

CONSTANTS Capacity,  \* most bytes the queue ever holds
          Calls,     \* the byte sequences a producer may write
          Wants      \* the byte counts a consumer may ask for

VARIABLES q,    \* the bytes written and not yet read, oldest first
          wr,   \* the producer's call: [busy, data, ret]
          rd    \* the consumer's call: [busy, n, got]

vars == <<q, wr, rd>>

Least(a, b) == IF a < b THEN a ELSE b

Init == /\ q = << >>
        /\ wr = [busy |-> FALSE, data |-> << >>, ret |-> 0]
        /\ rd = [busy |-> FALSE, n |-> 0, got |-> << >>]

(* A write of d accepts as much of d as the queue had room for when it     *)
(* started; with no room it returns 0 at once.                             *)
WriteCall(d) ==
  LET n == Least(Capacity - Len(q), Len(d))
  IN /\ ~wr.busy
     /\ wr' = [busy |-> n > 0, data |-> SubSeq(d, 1, n), ret |-> n]
     /\ UNCHANGED <<q, rd>>

WriteDo ==
  /\ wr.busy
  /\ Len(q) + Len(wr.data) <= Capacity
  /\ q' = q \o wr.data
  /\ wr' = [busy |-> FALSE, data |-> << >>, ret |-> wr.ret]
  /\ UNCHANGED rd

(* A read of up to b bytes takes what the queue held when it started.      *)
ReadCall(b) ==
  LET n == Least(Len(q), b)
  IN /\ ~rd.busy
     /\ rd' = [busy |-> n > 0, n |-> n, got |-> << >>]
     /\ UNCHANGED <<q, wr>>

ReadDo ==
  /\ rd.busy
  /\ rd.n <= Len(q)
  /\ rd' = [busy |-> FALSE, n |-> rd.n, got |-> SubSeq(q, 1, rd.n)]
  /\ q' = SubSeq(q, rd.n + 1, Len(q))
  /\ UNCHANGED wr

Next == \/ \E d \in Calls : WriteCall(d)
        \/ WriteDo
        \/ \E b \in Wants : ReadCall(b)
        \/ ReadDo

Spec == Init /\ [][Next]_vars
=============================================================================
