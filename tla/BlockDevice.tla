---------------------------- MODULE BlockDevice -----------------------------
(***************************************************************************)
(* What the shared SD NAND driver promises its clients (the USB mass       *)
(* storage class, the shell, the video recorder): a call transfers its     *)
(* blocks one after the other, while it lasts and at no other time; one    *)
(* that succeeds has transferred all of them, one that fails some prefix.  *)
(***************************************************************************)
EXTENDS Naturals, Sequences

CONSTANTS Clients,      \* tasks that use the device
          LogBlockNbr,  \* number of blocks
          Lbas,         \* block addresses a call may name
          Transfers,    \* the block sequences a call may write
          Counts        \* the block counts a call may read

VARIABLES disk,   \* contents of the blocks 0 .. LogBlockNbr - 1
          call,   \* per client: the call in progress
          reply   \* per client: the result of its last call

vars == <<disk, call, reply>>

NoCall == [op |-> "none", lba |-> 0, n |-> 0, data |-> << >>, moved |-> 0]

Init == /\ call = [c \in Clients |-> NoCall]
        /\ reply = [c \in Clients |-> "none"]

Write(c, lba, data) ==
  /\ call[c].op = "none"
  /\ call' = [call EXCEPT ![c] = [op |-> "write", lba |-> lba, n |-> Len(data),
                                  data |-> data, moved |-> 0]]
  /\ reply' = [reply EXCEPT ![c] = "none"]
  /\ UNCHANGED disk

Read(c, lba, n) ==
  /\ call[c].op = "none"
  /\ call' = [call EXCEPT ![c] = [op |-> "read", lba |-> lba, n |-> n,
                                  data |-> << >>, moved |-> 0]]
  /\ reply' = [reply EXCEPT ![c] = "none"]
  /\ UNCHANGED disk

(* The next block of a call reaches the disk, or the caller's buffer.      *)
Transfer(c) ==
  LET r == call[c]
      b == r.lba + r.moved
  IN /\ r.op # "none"
     /\ r.moved < r.n /\ b < LogBlockNbr
     /\ IF r.op = "write"
        THEN /\ disk' = [disk EXCEPT ![b] = r.data[r.moved + 1]]
             /\ call' = [call EXCEPT ![c].moved = @ + 1]
        ELSE /\ call' = [call EXCEPT ![c].moved = @ + 1,
                                     ![c].data = Append(@, disk[b])]
             /\ UNCHANGED disk
     /\ UNCHANGED reply

Return(c, rc) ==
  /\ call[c].op # "none"
  /\ rc = "OK" => call[c].moved = call[c].n
  /\ call' = [call EXCEPT ![c] = NoCall]
  /\ reply' = [reply EXCEPT ![c] = rc]
  /\ UNCHANGED disk

Next == \E c \in Clients :
          \/ \E lba \in Lbas, data \in Transfers : Write(c, lba, data)
          \/ \E lba \in Lbas, n \in Counts : Read(c, lba, n)
          \/ Transfer(c)
          \/ \E rc \in {"OK", "ERROR"} : Return(c, rc)

Spec == Init /\ [][Next]_vars
=============================================================================
