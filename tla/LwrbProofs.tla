----------------------------- MODULE LwrbProofs -----------------------------
(***************************************************************************)
(* Proofs about the ring buffer of module Lwrb: a concurrent read and write*)
(* never touch the same slot, and the buffer implements BoundedQueue.      *)
(***************************************************************************)
EXTENDS Lwrb, SequenceTheorems, TLAPS

Full == GetFull(w_ptr, r_ptr)
Free == GetFree(w_ptr, r_ptr)

(* The position a copy of n bytes that starts in slot p ends at, before    *)
(* the end-of-buffer check.                                                *)
EndOf(p, n) == IF p + n > Size THEN p + n - Size ELSE p + n

(* The producer's locals: its bytes fit in the free space, and the part it *)
(* has copied is in the storage behind w_ptr.                              *)
WriterInv ==
  /\ writer.pc = "idle" => writer.data = << >>
  /\ writer.pc # "idle" => Len(writer.data) \in 1 .. Free
  /\ writer.pc = "linear" => writer.at = w_ptr
  /\ writer.pc = "wrap" =>
       /\ w_ptr + Len(writer.data) > Size
       /\ \A i \in 1 .. Size - w_ptr : buff[Wrap(w_ptr, i - 1)] = writer.data[i]
  /\ writer.pc = "store" =>
       /\ writer.at = EndOf(w_ptr, Len(writer.data))
       /\ \A i \in 1 .. Len(writer.data) : buff[Wrap(w_ptr, i - 1)] = writer.data[i]

(* The consumer's locals: its bytes are held, and what it has copied is    *)
(* still what the storage holds behind r_ptr.                              *)
ReaderInv ==
  /\ reader.pc # "idle" => reader.n \in 1 .. Full
  /\ reader.pc = "linear" => reader.at = r_ptr
  /\ reader.pc = "wrap" =>
       /\ r_ptr + reader.n > Size
       /\ Len(reader.got) = Size - r_ptr
       /\ \A i \in 1 .. Len(reader.got) : reader.got[i] = buff[Wrap(r_ptr, i - 1)]
  /\ reader.pc = "store" =>
       /\ reader.at = EndOf(r_ptr, reader.n)
       /\ Len(reader.got) = reader.n
       /\ \A i \in 1 .. reader.n : reader.got[i] = buff[Wrap(r_ptr, i - 1)]

IInv == TypeOK /\ WriterInv /\ ReaderInv
-----------------------------------------------------------------------------
(* What the two positions say of the space: the held and the free slots    *)
(* are together all slots but one (lwrb_get_full, lwrb_get_free).          *)
LEMMA SpaceLemma ==
  ASSUME NEW w \in Slots, NEW r \in Slots
  PROVE  /\ GetFull(w, r) \in 0 .. Size - 1
         /\ GetFree(w, r) \in 0 .. Size - 1
         /\ GetFull(w, r) + GetFree(w, r) = Size - 1
BY LwrbAssumption DEF Slots, GetFull, GetFree

(* Wrapping stays inside the storage.                                      *)
LEMMA WrapLemma ==
  ASSUME NEW p \in Slots, NEW i \in 0 .. Size
  PROVE  Wrap(p, i) \in Slots
BY LwrbAssumption DEF Slots, Wrap

(* No free slot is a held slot.                                            *)
LEMMA DisjointLemma ==
  ASSUME NEW w \in Slots, NEW r \in Slots,
         NEW k \in 0 .. GetFree(w, r) - 1, NEW i \in 0 .. GetFull(w, r) - 1
  PROVE  Wrap(w, k) # Wrap(r, i)
BY LwrbAssumption DEF Slots, Wrap, GetFull, GetFree

(* What advancing one position by n does to the space.                     *)
LEMMA AdvanceWrite ==
  ASSUME NEW w \in Slots, NEW r \in Slots, NEW n \in 0 .. GetFree(w, r)
  PROVE  GetFull(Wrap(w, n), r) = GetFull(w, r) + n
BY LwrbAssumption DEF Slots, Wrap, GetFull, GetFree

(* The same for the consumer's position, which gives the room back.        *)
LEMMA AdvanceRead ==
  ASSUME NEW w \in Slots, NEW r \in Slots, NEW n \in 0 .. GetFull(w, r)
  PROVE  /\ GetFull(w, Wrap(r, n)) = GetFull(w, r) - n
         /\ GetFree(w, Wrap(r, n)) = GetFree(w, r) + n
BY LwrbAssumption DEF Slots, Wrap, GetFull, GetFree

(* The first free slot follows the last held one.                          *)
LEMMA JoinLemma ==
  ASSUME NEW w \in Slots, NEW r \in Slots, NEW k \in 0 .. GetFree(w, r) - 1
  PROVE  Wrap(r, GetFull(w, r) + k) = Wrap(w, k)
BY LwrbAssumption DEF Slots, Wrap, GetFull, GetFree

(* A sequence that agrees with the first elements of another is its prefix,*)
(* one that agrees with the last ones its suffix.                          *)
LEMMA PrefixLemma ==
  ASSUME NEW S, NEW s \in Seq(S), NEW t \in Seq(S), NEW n \in 0 .. Len(s),
         Len(t) = n, \A i \in 1 .. n : t[i] = s[i]
  PROVE  t = SubSeq(s, 1, n)
<1>1. Len(s) \in Nat /\ n \in Nat /\ n <= Len(s)
  BY LenProperties
<1>2. \A i \in 1 .. n : s[i] \in S
  BY <1>1, ElementOfSeq
<1>3. /\ SubSeq(s, 1, n) \in Seq(S)
      /\ Len(SubSeq(s, 1, n)) = IF 1 <= n THEN n - 1 + 1 ELSE 0
      /\ \A i \in 1 .. n - 1 + 1 : SubSeq(s, 1, n)[i] = s[1 + i - 1]
  BY <1>1, <1>2, SubSeqProperties
<1>4. Len(SubSeq(s, 1, n)) = n /\ n - 1 + 1 = n
  BY <1>1, <1>3
<1>5. \A i \in 1 .. n : SubSeq(s, 1, n)[i] = t[i]
  BY <1>1, <1>3, <1>4
<1> QED BY <1>3, <1>4, <1>5, SeqEqual

(* The other half: a sequence that agrees with the last elements.          *)
LEMMA SuffixLemma ==
  ASSUME NEW S, NEW s \in Seq(S), NEW t \in Seq(S), NEW n \in 0 .. Len(s),
         Len(t) = Len(s) - n, \A i \in 1 .. Len(s) - n : t[i] = s[i + n]
  PROVE  t = SubSeq(s, n + 1, Len(s))
<1> DEFINE u == SubSeq(s, n + 1, Len(s))
<1>1. Len(s) \in Nat /\ n \in Nat /\ n <= Len(s)
  BY LenProperties
<1>2. \A i \in n + 1 .. Len(s) : s[i] \in S
  BY <1>1, ElementOfSeq
<1>3. /\ u \in Seq(S)
      /\ Len(u) = IF n + 1 <= Len(s) THEN Len(s) - (n + 1) + 1 ELSE 0
      /\ \A i \in 1 .. Len(s) - (n + 1) + 1 : u[i] = s[n + 1 + i - 1]
  BY <1>1, <1>2, SubSeqProperties
<1> HIDE DEF u
<1>4. Len(u) = Len(s) - n /\ Len(s) - (n + 1) + 1 = Len(s) - n
  BY <1>1, <1>3
<1>5. \A i \in 1 .. Len(s) - n : u[i] = t[i]
  <2> SUFFICES ASSUME NEW i \in 1 .. Len(s) - n PROVE u[i] = t[i]
    OBVIOUS
  <2>1. n + 1 + i - 1 = i + n
    BY <1>1
  <2> QED BY <1>3, <1>4, <2>1
<1>6. t = u
  BY <1>3, <1>4, <1>5, SeqEqual
<1> QED BY <1>6 DEF u

(* Two idle calls and an empty ring.                                       *)
LEMMA InitInv == Init => IInv
<1> SUFFICES ASSUME Init PROVE IInv
  OBVIOUS
<1>1. << >> \in Seq(Data)
  BY EmptySeq
<1>2. TypeOK
  BY <1>1, LwrbAssumption DEF Init, TypeOK, Slots
<1>3. WriterInv /\ ReaderInv
  BY DEF Init, WriterInv, ReaderInv
<1> QED BY <1>2, <1>3 DEF IInv

(* A call of lwrb_write fixes its bytes from the free space it sees.       *)
LEMMA WriteLoadInv ==
  ASSUME IInv, NEW d \in Calls, WriteLoad(d)
  PROVE  IInv'
<1> DEFINE n == BUF_MIN(GetFree(w_ptr, r_ptr), Len(d))
<1>1. d \in Seq(Data) /\ Len(d) \in Nat /\ \A i \in 1 .. Len(d) : d[i] \in Data
  BY LwrbAssumption, LenProperties, ElementOfSeq
<1>2. Free \in 0 .. Size - 1
  BY SpaceLemma DEF Free, IInv, TypeOK
<1>3. n \in 0 .. Free /\ n <= Len(d)
  BY <1>1, <1>2, LwrbAssumption DEF BUF_MIN, Free
<1>4. /\ SubSeq(d, 1, n) \in Seq(Data)
      /\ Len(SubSeq(d, 1, n)) = n
  <2>1. \A i \in 1 .. n : d[i] \in Data
    BY <1>1, <1>2, <1>3
  <2> QED BY <2>1, <1>2, <1>3, SubSeqProperties, LwrbAssumption
<1>5. n = 0 => SubSeq(d, 1, n) = << >>
  BY SubSeqEmpty
<1> HIDE DEF n
<1>6. writer' = [pc |-> IF n = 0 THEN "idle" ELSE "linear",
                 data |-> SubSeq(d, 1, n), at |-> w_ptr, ret |-> n]
  BY DEF WriteLoad, n
<1>7. UNCHANGED <<buff, w_ptr, r_ptr, reader>>
  BY DEF WriteLoad
<1>8. TypeOK'
  BY <1>2, <1>3, <1>4, <1>6, <1>7, LwrbAssumption DEF IInv, TypeOK, Slots
<1>9. WriterInv'
  BY <1>2, <1>3, <1>4, <1>5, <1>6, <1>7 DEF WriterInv, Free
<1>10. ReaderInv'
  BY <1>7 DEF IInv, ReaderInv, Full
<1> QED BY <1>8, <1>9, <1>10 DEF IInv

(* The first memcpy of a write fills slots behind w_ptr that the consumer  *)
(* does not look at.                                                       *)
LEMMA WriteLinearInv ==
  ASSUME IInv, WriteLinear
  PROVE  /\ IInv'
         /\ \A i \in 1 .. Full : buff'[Wrap(r_ptr, i - 1)] = buff[Wrap(r_ptr, i - 1)]
<1> DEFINE L == Len(writer.data)
           tocopy == BUF_MIN(Size - writer.at, L)
<1> USE LwrbAssumption
<1>1. /\ writer.pc = "linear" /\ writer.at = w_ptr
      /\ writer.data \in Seq(Data) /\ L \in Nat /\ L \in 1 .. Free
      /\ w_ptr \in Slots /\ r_ptr \in Slots
      /\ \A i \in 1 .. L : writer.data[i] \in Data
  BY LenProperties, ElementOfSeq DEF IInv, TypeOK, WriterInv, WriteLinear
<1>2. /\ Full \in 0 .. Size - 1 /\ Free \in 0 .. Size - 1
      /\ Full + Free = Size - 1
  BY <1>1, SpaceLemma DEF Full, Free
<1>3. /\ tocopy \in 1 .. L
      /\ w_ptr + tocopy \in 0 .. Size
      /\ tocopy < L => w_ptr + tocopy = Size
  BY <1>1, <1>2 DEF BUF_MIN, Slots
<1> HIDE DEF tocopy
<1>4. /\ buff' = [j \in Slots |-> IF w_ptr <= j /\ j < w_ptr + tocopy
                                  THEN writer.data[j - w_ptr + 1]
                                  ELSE buff[j]]
      /\ writer' = [writer EXCEPT !.pc = IF tocopy < L THEN "wrap" ELSE "store",
                                  !.at = w_ptr + tocopy]
      /\ UNCHANGED <<w_ptr, r_ptr, reader>>
  BY <1>1 DEF WriteLinear, tocopy
<1>5. TypeOK'
  <2>1. buff' \in [Slots -> Data]
    BY <1>1, <1>3, <1>4 DEF IInv, TypeOK, Slots
  <2> QED BY <2>1, <1>1, <1>3, <1>4 DEF IInv, TypeOK, Slots
<1>6. \A i \in 1 .. tocopy : buff'[Wrap(w_ptr, i - 1)] = writer.data[i]
  BY <1>1, <1>3, <1>4 DEF Wrap, Slots
<1>7. WriterInv'
  <2>1. writer'.data = writer.data /\ writer'.at = w_ptr + tocopy
        /\ writer'.pc = IF tocopy < L THEN "wrap" ELSE "store"
    BY <1>1, <1>4 DEF IInv, TypeOK
  <2>2. CASE tocopy < L
    <3>1. tocopy = Size - w_ptr /\ w_ptr + L > Size
      BY <1>1, <1>3, <2>2 DEF Slots
    <3>2. \A i \in 1 .. Size - w_ptr : buff'[Wrap(w_ptr, i - 1)] = writer.data[i]
      BY <1>6, <3>1
    <3>3. writer'.pc = "wrap" /\ w_ptr' = w_ptr /\ Free' = Free
      BY <1>4, <2>1, <2>2 DEF Free
    <3> QED BY <1>1, <2>1, <3>1, <3>2, <3>3 DEF WriterInv
  <2>3. CASE tocopy = L
    BY <1>1, <1>2, <1>3, <1>4, <1>6, <2>1, <2>3 DEF WriterInv, Free, Slots, EndOf
  <2> QED BY <1>3, <2>2, <2>3
<1>8. \A i \in 1 .. Full : buff'[Wrap(r_ptr, i - 1)] = buff[Wrap(r_ptr, i - 1)]
  <2> SUFFICES ASSUME NEW i \in 1 .. Full
               PROVE  buff'[Wrap(r_ptr, i - 1)] = buff[Wrap(r_ptr, i - 1)]
    OBVIOUS
  <2> DEFINE j == Wrap(r_ptr, i - 1)
  <2>1. j \in Slots
    BY <1>1, <1>2, WrapLemma
  <2>2. \A k \in 0 .. Free - 1 : Wrap(w_ptr, k) # j
    BY <1>1, <1>2, DisjointLemma DEF Full, Free
  <2>3. ~(w_ptr <= j /\ j < w_ptr + tocopy)
    <3> SUFFICES ASSUME w_ptr <= j, j < w_ptr + tocopy PROVE FALSE
      OBVIOUS
    <3>1. j - w_ptr \in 0 .. Free - 1 /\ Wrap(w_ptr, j - w_ptr) = j
      BY <1>1, <1>2, <1>3, <2>1 DEF Slots, Wrap
    <3> QED BY <2>2, <3>1
  <2> QED BY <1>4, <2>1, <2>3
<1>9. ReaderInv'
  <2>1. UNCHANGED <<Full, r_ptr, reader>>
    BY <1>4 DEF Full
  <2>2. \A n \in Nat : n <= Full =>
          \A i \in 1 .. n : buff'[Wrap(r_ptr, i - 1)] = buff[Wrap(r_ptr, i - 1)]
    BY <1>2, <1>8
  <2>3. CASE reader.pc = "wrap"
    <3>1. Len(reader.got) \in Nat /\ Len(reader.got) <= Full
      BY <1>1, <1>2, <2>3 DEF IInv, ReaderInv, Slots
    <3>2. \A i \in 1 .. Len(reader.got) : reader.got[i] = buff'[Wrap(r_ptr, i - 1)]
      BY <2>2, <2>3, <3>1 DEF IInv, ReaderInv
    <3> QED BY <2>1, <2>3, <3>2 DEF IInv, ReaderInv
  <2>4. CASE reader.pc = "store"
    <3>1. reader.n \in Nat /\ reader.n <= Full
      BY <1>2, <2>4 DEF IInv, ReaderInv
    <3>2. \A i \in 1 .. reader.n : reader.got[i] = buff'[Wrap(r_ptr, i - 1)]
      BY <2>2, <2>4, <3>1 DEF IInv, ReaderInv
    <3> QED BY <2>1, <2>4, <3>2 DEF IInv, ReaderInv
  <2>5. CASE reader.pc \in {"idle", "linear"}
    BY <2>1, <2>5 DEF IInv, ReaderInv
  <2> QED BY <2>1, <2>3, <2>4, <2>5 DEF IInv, TypeOK
<1> QED BY <1>5, <1>7, <1>8, <1>9 DEF IInv

(* The second memcpy fills the rest, from the beginning of the storage.    *)
LEMMA WriteWrapInv ==
  ASSUME IInv, WriteWrap
  PROVE  /\ IInv'
         /\ \A i \in 1 .. Full : buff'[Wrap(r_ptr, i - 1)] = buff[Wrap(r_ptr, i - 1)]
<1> DEFINE L == Len(writer.data)
           btw == L - (Size - w_ptr)
<1> USE LwrbAssumption
<1>1. /\ writer.pc = "wrap" /\ w_ptr + L > Size
      /\ \A i \in 1 .. Size - w_ptr : buff[Wrap(w_ptr, i - 1)] = writer.data[i]
      /\ writer.data \in Seq(Data) /\ L \in Nat /\ L \in 1 .. Free
      /\ w_ptr \in Slots /\ r_ptr \in Slots
      /\ \A i \in 1 .. L : writer.data[i] \in Data
  BY LenProperties, ElementOfSeq DEF IInv, TypeOK, WriterInv, WriteWrap
<1>2. /\ Full \in 0 .. Size - 1 /\ Free \in 0 .. Size - 1
      /\ Full + Free = Size - 1
  BY <1>1, SpaceLemma DEF Full, Free
<1>3. btw \in 1 .. w_ptr /\ btw <= L /\ btw \in 0 .. Size
  BY <1>1, <1>2 DEF Slots
<1>4. /\ buff' = [j \in Slots |-> IF j < btw THEN writer.data[Size - w_ptr + j + 1]
                                  ELSE buff[j]]
      /\ writer' = [writer EXCEPT !.pc = "store", !.at = btw]
      /\ UNCHANGED <<w_ptr, r_ptr, reader>>
  BY DEF WriteWrap
<1>5. TypeOK'
  <2>1. buff' \in [Slots -> Data]
    BY <1>1, <1>3, <1>4 DEF IInv, TypeOK, Slots
  <2> QED BY <2>1, <1>1, <1>3, <1>4 DEF IInv, TypeOK, Slots
<1>6. \A i \in 1 .. L : buff'[Wrap(w_ptr, i - 1)] = writer.data[i]
  <2> SUFFICES ASSUME NEW i \in 1 .. L
               PROVE  buff'[Wrap(w_ptr, i - 1)] = writer.data[i]
    OBVIOUS
  <2>1. CASE i <= Size - w_ptr
    <3>1. Wrap(w_ptr, i - 1) = w_ptr + i - 1 /\ w_ptr + i - 1 \in Slots
          /\ ~(w_ptr + i - 1 < btw)
      BY <1>1, <1>2, <1>3, <2>1 DEF Wrap, Slots
    <3> QED BY <1>1, <1>4, <2>1, <3>1
  <2>2. CASE i > Size - w_ptr
    <3>1. /\ Wrap(w_ptr, i - 1) = w_ptr + i - 1 - Size
          /\ w_ptr + i - 1 - Size \in Slots
          /\ w_ptr + i - 1 - Size < btw
          /\ Size - w_ptr + (w_ptr + i - 1 - Size) + 1 = i
      BY <1>1, <1>2, <1>3, <2>2 DEF Wrap, Slots
    <3> QED BY <1>4, <3>1
  <2> QED BY <1>1, <2>1, <2>2 DEF Slots
<1>7. WriterInv'
  <2>1. writer'.data = writer.data /\ writer'.at = btw /\ writer'.pc = "store"
        /\ w_ptr' = w_ptr /\ Free' = Free
    BY <1>1, <1>4 DEF IInv, TypeOK, Free
  <2>2. btw = EndOf(w_ptr, L)
    BY <1>1, <1>3 DEF EndOf, Slots
  <2> QED BY <1>1, <1>6, <2>1, <2>2 DEF WriterInv
<1>8. \A i \in 1 .. Full : buff'[Wrap(r_ptr, i - 1)] = buff[Wrap(r_ptr, i - 1)]
  <2> SUFFICES ASSUME NEW i \in 1 .. Full
               PROVE  buff'[Wrap(r_ptr, i - 1)] = buff[Wrap(r_ptr, i - 1)]
    OBVIOUS
  <2> DEFINE j == Wrap(r_ptr, i - 1)
  <2>1. j \in Slots
    BY <1>1, <1>2, WrapLemma
  <2>2. \A k \in 0 .. Free - 1 : Wrap(w_ptr, k) # j
    BY <1>1, <1>2, DisjointLemma DEF Full, Free
  <2>3. ~(j < btw)
    <3> SUFFICES ASSUME j < btw PROVE FALSE
      OBVIOUS
    <3>1. Size - w_ptr + j \in 0 .. Free - 1 /\ Wrap(w_ptr, Size - w_ptr + j) = j
      BY <1>1, <1>2, <1>3, <2>1 DEF Slots, Wrap
    <3> QED BY <2>2, <3>1
  <2> QED BY <1>4, <2>1, <2>3
<1>9. ReaderInv'
  <2>1. UNCHANGED <<Full, r_ptr, reader>>
    BY <1>4 DEF Full
  <2>2. \A n \in Nat : n <= Full =>
          \A i \in 1 .. n : buff'[Wrap(r_ptr, i - 1)] = buff[Wrap(r_ptr, i - 1)]
    BY <1>2, <1>8
  <2>3. CASE reader.pc = "wrap"
    <3>1. Len(reader.got) \in Nat /\ Len(reader.got) <= Full
      BY <1>1, <1>2, <2>3 DEF IInv, ReaderInv, Slots
    <3>2. \A i \in 1 .. Len(reader.got) : reader.got[i] = buff'[Wrap(r_ptr, i - 1)]
      BY <2>2, <2>3, <3>1 DEF IInv, ReaderInv
    <3> QED BY <2>1, <2>3, <3>2 DEF IInv, ReaderInv
  <2>4. CASE reader.pc = "store"
    <3>1. reader.n \in Nat /\ reader.n <= Full
      BY <1>2, <2>4 DEF IInv, ReaderInv
    <3>2. \A i \in 1 .. reader.n : reader.got[i] = buff'[Wrap(r_ptr, i - 1)]
      BY <2>2, <2>4, <3>1 DEF IInv, ReaderInv
    <3> QED BY <2>1, <2>4, <3>2 DEF IInv, ReaderInv
  <2>5. CASE reader.pc \in {"idle", "linear"}
    BY <2>1, <2>5 DEF IInv, ReaderInv
  <2> QED BY <2>1, <2>3, <2>4, <2>5 DEF IInv, TypeOK
<1> QED BY <1>5, <1>7, <1>8, <1>9 DEF IInv

(* Publishing the bytes adds them behind those already held.               *)
LEMMA WriteStoreInv ==
  ASSUME IInv, WriteStore
  PROVE  /\ IInv'
         /\ Full' = Full + Len(writer.data)
<1> DEFINE L == Len(writer.data)
<1> USE LwrbAssumption
<1>1. /\ writer.pc = "store" /\ writer.at = EndOf(w_ptr, L)
      /\ writer.data \in Seq(Data) /\ L \in Nat /\ L \in 1 .. Free
      /\ w_ptr \in Slots /\ r_ptr \in Slots
  BY LenProperties DEF IInv, TypeOK, WriterInv, WriteStore
<1>2. /\ Full \in 0 .. Size - 1 /\ Free \in 0 .. Size - 1
      /\ Full + Free = Size - 1
  BY <1>1, SpaceLemma DEF Full, Free
<1>3. /\ w_ptr' = Wrap(w_ptr, L)
      /\ writer' = [pc |-> "idle", data |-> << >>, at |-> 0, ret |-> writer.ret]
      /\ UNCHANGED <<buff, r_ptr, reader>>
  BY <1>1, <1>2 DEF WriteStore, EndOf, Slots, Wrap
<1>4. w_ptr' \in Slots
  BY <1>1, <1>2, <1>3, WrapLemma
<1>5. Full' = Full + L
  BY <1>1, <1>2, <1>3, AdvanceWrite DEF Full, Free
<1>6. TypeOK'
  BY <1>3, <1>4, EmptySeq DEF IInv, TypeOK, Slots
<1>7. WriterInv'
  BY <1>3 DEF WriterInv
<1>8. ReaderInv'
  <2>1. \A n \in 1 .. Full : n \in 1 .. Full'
    BY <1>1, <1>2, <1>5
  <2>2. UNCHANGED <<buff, r_ptr, reader>> /\ ReaderInv
    BY <1>3 DEF IInv
  <2>3. reader'.pc # "idle" => reader'.n \in 1 .. Full'
    BY <2>1, <2>2 DEF ReaderInv
  <2> QED BY <2>2, <2>3 DEF ReaderInv
<1> QED BY <1>5, <1>6, <1>7, <1>8 DEF IInv

(* A call of lwrb_read fixes its bytes from what it sees held.             *)
LEMMA ReadLoadInv ==
  ASSUME IInv, NEW b \in Wants, ReadLoad(b)
  PROVE  IInv'
<1> DEFINE n == BUF_MIN(GetFull(w_ptr, r_ptr), b)
<1> USE LwrbAssumption
<1>1. b \in Nat /\ w_ptr \in Slots /\ r_ptr \in Slots
  BY DEF IInv, TypeOK
<1>2. Full \in 0 .. Size - 1
  BY <1>1, SpaceLemma DEF Full
<1>3. n \in 0 .. Full /\ n \in Nat
  BY <1>1, <1>2 DEF BUF_MIN, Full
<1> HIDE DEF n
<1>4. /\ reader' = [pc |-> IF n = 0 THEN "idle" ELSE "linear", n |-> n,
                    got |-> << >>, at |-> r_ptr]
      /\ UNCHANGED <<buff, w_ptr, r_ptr, writer>>
  BY DEF ReadLoad, n
<1>5. TypeOK'
  BY <1>1, <1>3, <1>4, EmptySeq DEF IInv, TypeOK, Slots
<1>6. WriterInv'
  BY <1>4 DEF IInv, WriterInv, Free
<1>7. ReaderInv'
  BY <1>2, <1>3, <1>4 DEF ReaderInv, Full
<1> QED BY <1>5, <1>6, <1>7 DEF IInv

(* The first memcpy of a read takes the oldest bytes.                      *)
LEMMA ReadLinearInv ==
  ASSUME IInv, ReadLinear
  PROVE  IInv'
<1> DEFINE tocopy == BUF_MIN(Size - reader.at, reader.n)
           g == [i \in 1 .. tocopy |-> buff[r_ptr + i - 1]]
<1> USE LwrbAssumption
<1>1. /\ reader.pc = "linear" /\ reader.at = r_ptr
      /\ reader.n \in 1 .. Full /\ reader.n \in Nat
      /\ w_ptr \in Slots /\ r_ptr \in Slots /\ buff \in [Slots -> Data]
  BY DEF IInv, TypeOK, ReaderInv, ReadLinear
<1>2. Full \in 0 .. Size - 1
  BY <1>1, SpaceLemma DEF Full
<1>3. /\ tocopy \in Nat /\ tocopy \in 1 .. reader.n
      /\ r_ptr + tocopy \in 0 .. Size
      /\ tocopy < reader.n => r_ptr + tocopy = Size
  BY <1>1, <1>2 DEF BUF_MIN, Slots
<1> HIDE DEF tocopy
<1>4. /\ g \in Seq(Data) /\ Len(g) = tocopy
      /\ \A i \in 1 .. tocopy : g[i] = buff[Wrap(r_ptr, i - 1)]
  <2>1. \A i \in 1 .. tocopy : r_ptr + i - 1 \in Slots /\ Wrap(r_ptr, i - 1) = r_ptr + i - 1
    BY <1>1, <1>3 DEF Slots, Wrap
  <2>2. \A i \in 1 .. tocopy : buff[r_ptr + i - 1] \in Data
    BY <1>1, <2>1
  <2> QED BY <1>3, <2>1, <2>2
<1>5. /\ reader' = [reader EXCEPT !.pc = IF tocopy < reader.n THEN "wrap" ELSE "store",
                                  !.got = g, !.at = r_ptr + tocopy]
      /\ UNCHANGED <<buff, w_ptr, r_ptr, writer>>
  BY <1>1 DEF ReadLinear, tocopy
<1> HIDE DEF g
<1>6. TypeOK'
  BY <1>1, <1>3, <1>4, <1>5 DEF IInv, TypeOK
<1>7. WriterInv'
  BY <1>5 DEF IInv, WriterInv, Free
<1>8. ReaderInv'
  <2>1. /\ reader'.pc = (IF tocopy < reader.n THEN "wrap" ELSE "store")
        /\ reader'.n = reader.n /\ reader'.got = g /\ reader'.at = r_ptr + tocopy
        /\ r_ptr' = r_ptr /\ Full' = Full /\ buff' = buff
    BY <1>5 DEF IInv, TypeOK, Full
  <2>2. CASE tocopy < reader.n
    <3>1. tocopy = Size - r_ptr /\ r_ptr + reader.n > Size
      BY <1>1, <1>3, <2>2 DEF Slots
    <3> QED BY <1>1, <1>4, <2>1, <2>2, <3>1 DEF ReaderInv
  <2>3. CASE ~(tocopy < reader.n)
    <3>0. tocopy = reader.n
      BY <1>1, <1>3, <2>3
    <3>1. r_ptr + tocopy = EndOf(r_ptr, reader.n)
      BY <1>1, <1>3, <3>0 DEF Slots, EndOf
    <3> QED BY <1>1, <1>4, <2>1, <2>3, <3>0, <3>1 DEF ReaderInv
  <2> QED BY <2>2, <2>3
<1> QED BY <1>6, <1>7, <1>8 DEF IInv

(* The second memcpy takes the rest.                                       *)
LEMMA ReadWrapInv ==
  ASSUME IInv, ReadWrap
  PROVE  IInv'
<1> DEFINE k   == Len(reader.got)
           btr == reader.n - k
           h   == [i \in 1 .. btr |-> buff[i - 1]]
<1> USE LwrbAssumption
<1>1. /\ reader.pc = "wrap" /\ r_ptr + reader.n > Size /\ k = Size - r_ptr
      /\ \A i \in 1 .. k : reader.got[i] = buff[Wrap(r_ptr, i - 1)]
      /\ reader.n \in 1 .. Full /\ reader.n \in Nat /\ reader.got \in Seq(Data)
      /\ w_ptr \in Slots /\ r_ptr \in Slots /\ buff \in [Slots -> Data]
  BY DEF IInv, TypeOK, ReaderInv, ReadWrap
<1>2. Full \in 0 .. Size - 1
  BY <1>1, SpaceLemma DEF Full
<1> HIDE DEF k
<1>3. btr \in Nat /\ btr \in 1 .. r_ptr /\ btr \in 0 .. Size /\ k \in Nat
      /\ k + btr = reader.n /\ btr = EndOf(r_ptr, reader.n)
  <2>1. r_ptr \in Nat /\ r_ptr < Size /\ k \in Nat /\ Size \in Nat
    BY <1>1 DEF Slots
  <2>2. reader.n < Size
    BY <1>1, <1>2
  <2>3. r_ptr + reader.n > Size /\ k = Size - r_ptr /\ reader.n \in Nat
    BY <1>1
  <2>4. btr = r_ptr + reader.n - Size
    BY <2>1, <2>3
  <2>5. btr = EndOf(r_ptr, reader.n)
    BY <2>3, <2>4 DEF EndOf
  <2>6. btr \in Nat /\ btr \in 1 .. r_ptr /\ btr \in 0 .. Size
    BY <2>1, <2>2, <2>3, <2>4
  <2>7. k + btr = reader.n
    BY <2>1, <2>3
  <2> QED BY <2>1, <2>5, <2>6, <2>7
<1> HIDE DEF btr
<1>4. /\ h \in Seq(Data) /\ Len(h) = btr
      /\ \A i \in 1 .. btr : h[i] = buff[i - 1]
  <2>1. \A i \in 1 .. btr : buff[i - 1] \in Data
    <3> SUFFICES ASSUME NEW i \in 1 .. btr PROVE buff[i - 1] \in Data
      OBVIOUS
    <3>1. i - 1 \in Slots
      BY <1>1, <1>3 DEF Slots
    <3> QED BY <1>1, <3>1
  <2> QED BY <1>3, <2>1 DEF h
<1>5. /\ reader' = [reader EXCEPT !.pc = "store", !.got = reader.got \o h, !.at = btr]
      /\ UNCHANGED <<buff, w_ptr, r_ptr, writer>>
  BY DEF ReadWrap, h, btr, k
<1> HIDE DEF h
<1>6. /\ reader.got \o h \in Seq(Data) /\ Len(reader.got \o h) = reader.n
      /\ \A i \in 1 .. reader.n :
           (reader.got \o h)[i] = IF i <= k THEN reader.got[i] ELSE h[i - k]
  <2>1. /\ reader.got \o h \in Seq(Data) /\ Len(reader.got \o h) = k + btr
        /\ \A i \in 1 .. k + btr :
             (reader.got \o h)[i] = IF i <= k THEN reader.got[i] ELSE h[i - k]
    BY <1>1, <1>4, ConcatProperties DEF k
  <2> QED BY <1>3, <2>1
<1>7. \A i \in 1 .. reader.n : (reader.got \o h)[i] = buff[Wrap(r_ptr, i - 1)]
  <2> SUFFICES ASSUME NEW i \in 1 .. reader.n
               PROVE  (reader.got \o h)[i] = buff[Wrap(r_ptr, i - 1)]
    OBVIOUS
  <2>0. i \in Nat /\ (i <= k \/ i > k)
    BY <1>1, <1>3
  <2>1. CASE i <= k
    BY <1>1, <1>3, <1>6, <2>1
  <2>2. CASE i > k
    <3>1. i - k \in 1 .. btr /\ Wrap(r_ptr, i - 1) = (i - k) - 1
      BY <1>1, <1>2, <1>3, <2>2 DEF Wrap, Slots
    <3>2. (reader.got \o h)[i] = h[i - k]
      BY <1>3, <1>6, <2>0, <2>2
    <3> QED BY <1>4, <3>1, <3>2
  <2> QED BY <2>0, <2>1, <2>2
<1> DEFINE c == reader.got \o h
<1> HIDE DEF c
<1>8. TypeOK'
  BY <1>1, <1>3, <1>5, <1>6 DEF IInv, TypeOK, c
<1>9. WriterInv'
  BY <1>5 DEF IInv, WriterInv, Free
<1>10. ReaderInv'
  <2>1. /\ reader'.pc = "store" /\ reader'.n = reader.n /\ reader'.at = btr
        /\ reader'.got = reader.got \o h
        /\ r_ptr' = r_ptr /\ Full' = Full /\ buff' = buff
    BY <1>5 DEF IInv, TypeOK, Full
  <2> QED BY <1>1, <1>3, <1>6, <1>7, <2>1 DEF ReaderInv
<1> QED BY <1>8, <1>9, <1>10 DEF IInv

(* The store of r_ptr gives the slots of the bytes read back.              *)
LEMMA ReadStoreInv ==
  ASSUME IInv, ReadStore
  PROVE  /\ IInv'
         /\ Full' = Full - reader.n
         /\ \A i \in 0 .. Full' - 1 : Wrap(r_ptr', i) = Wrap(r_ptr, i + reader.n)
<1> USE LwrbAssumption
<1>1. /\ reader.pc = "store" /\ reader.at = EndOf(r_ptr, reader.n)
      /\ reader.n \in 1 .. Full /\ reader.n \in Nat
      /\ w_ptr \in Slots /\ r_ptr \in Slots
  BY DEF IInv, TypeOK, ReaderInv, ReadStore
<1>2. /\ Full \in 0 .. Size - 1 /\ Free \in 0 .. Size - 1
      /\ Full + Free = Size - 1
  BY <1>1, SpaceLemma DEF Full, Free
<1>3. /\ r_ptr' = Wrap(r_ptr, reader.n)
      /\ reader' = [reader EXCEPT !.pc = "idle", !.at = 0]
      /\ UNCHANGED <<buff, w_ptr, writer>>
  BY <1>1, <1>2 DEF ReadStore, EndOf, Wrap, Slots
<1>4. r_ptr' \in Slots
  BY <1>1, <1>2, <1>3, WrapLemma
<1>5. Full' = Full - reader.n /\ Free' = Free + reader.n
  BY <1>1, <1>2, <1>3, AdvanceRead DEF Full, Free
<1>6. \A i \in 0 .. Full' - 1 : Wrap(r_ptr', i) = Wrap(r_ptr, i + reader.n)
  BY <1>1, <1>2, <1>3, <1>5 DEF Slots, Wrap
<1>7. TypeOK'
  <2>1. 0 \in 0 .. Size
    OBVIOUS
  <2> QED BY <1>3, <1>4, <2>1 DEF IInv, TypeOK
<1>8. WriterInv'
  <2>1. \A n \in 1 .. Free : n \in 1 .. Free'
    BY <1>1, <1>2, <1>5
  <2>2. UNCHANGED <<buff, w_ptr, writer>> /\ WriterInv
    BY <1>3 DEF IInv
  <2>3. writer'.pc # "idle" => Len(writer'.data) \in 1 .. Free'
    BY <2>1, <2>2 DEF WriterInv
  <2> QED BY <2>2, <2>3 DEF WriterInv
<1>9. ReaderInv'
  <2>1. reader'.pc = "idle"
    BY <1>3 DEF IInv, TypeOK
  <2> QED BY <2>1 DEF ReaderInv
<1> QED BY <1>5, <1>6, <1>7, <1>8, <1>9 DEF IInv
-----------------------------------------------------------------------------
(* The inductive invariant holds in every state.                           *)
THEOREM Invariance == Spec => []IInv
<1>1. IInv /\ [Next]_vars => IInv'
  <2> SUFFICES ASSUME IInv, [Next]_vars PROVE IInv'
    OBVIOUS
  <2>1. ASSUME NEW d \in Calls, WriteLoad(d) PROVE IInv'
    BY <2>1, WriteLoadInv
  <2>2. CASE WriteLinear BY <2>2, WriteLinearInv
  <2>3. CASE WriteWrap   BY <2>3, WriteWrapInv
  <2>4. CASE WriteStore  BY <2>4, WriteStoreInv
  <2>5. ASSUME NEW b \in Wants, ReadLoad(b) PROVE IInv'
    BY <2>5, ReadLoadInv
  <2>6. CASE ReadLinear  BY <2>6, ReadLinearInv
  <2>7. CASE ReadWrap    BY <2>7, ReadWrapInv
  <2>8. CASE ReadStore   BY <2>8, ReadStoreInv
  <2>9. CASE UNCHANGED vars
    BY <2>9 DEF vars, IInv, TypeOK, WriterInv, ReaderInv, Full, Free
  <2> QED BY <2>1, <2>2, <2>3, <2>4, <2>5, <2>6, <2>7, <2>8, <2>9
          DEF Next, WriteSteps, ReadSteps
<1> QED BY <1>1, InitInv, PTL DEF Spec

(* The positions of lwrb_write and lwrb_read stay inside the storage, and   *)
(* a copy moves whole calls.                                               *)
THEOREM RingTypes == Spec => []TypeOK
<1>1. IInv => TypeOK
  BY DEF IInv
<1> QED BY <1>1, Invariance, PTL

(* lwrb_write and lwrb_read may run at the same time without a lock, for   *)
(* any storage size: they never touch the same slot.                       *)
THEOREM NoDataRace == Spec => []NoOverlap
<1>1. IInv => NoOverlap
  <2> SUFFICES ASSUME IInv, writer.pc # "idle", reader.pc # "idle",
                      NEW k \in 0 .. Len(writer.data) - 1, NEW i \in 0 .. reader.n - 1
               PROVE  Wrap(w_ptr, k) # Wrap(r_ptr, i)
    BY DEF NoOverlap, WriteRegion, ReadRegion
  <2>1. /\ w_ptr \in Slots /\ r_ptr \in Slots
        /\ Len(writer.data) \in 1 .. Free /\ reader.n \in 1 .. Full
    BY DEF IInv, TypeOK, WriterInv, ReaderInv
  <2>2. Full \in 0 .. Size - 1 /\ Free \in 0 .. Size - 1
    BY <2>1, SpaceLemma DEF Full, Free
  <2>3. k \in 0 .. GetFree(w_ptr, r_ptr) - 1 /\ i \in 0 .. GetFull(w_ptr, r_ptr) - 1
    BY <2>1, <2>2, LwrbAssumption DEF Full, Free
  <2> QED BY <2>1, <2>3, DisjointLemma
<1> QED BY <1>1, Invariance, PTL
-----------------------------------------------------------------------------
(* The bytes held form a sequence as long as lwrb_get_full says.           *)
LEMMA ContentsLemma ==
  ASSUME IInv
  PROVE  /\ Contents \in Seq(Data)
         /\ Len(Contents) = Full /\ Full \in Nat
         /\ Len(Contents) + Free = Size - 1
         /\ \A i \in 1 .. Full : Contents[i] = buff[Wrap(r_ptr, i - 1)]
<1>1. /\ w_ptr \in Slots /\ r_ptr \in Slots /\ buff \in [Slots -> Data]
  BY DEF IInv, TypeOK
<1>2. /\ Full \in 0 .. Size - 1 /\ Full \in Nat /\ Full + Free = Size - 1
  BY <1>1, SpaceLemma, LwrbAssumption DEF Full, Free
<1>3. \A i \in 1 .. Full : i - 1 \in 0 .. Size
  BY <1>2, LwrbAssumption
<1>4. \A i \in 1 .. Full : buff[Wrap(r_ptr, i - 1)] \in Data
  BY <1>1, <1>3, WrapLemma
<1>5. Contents = [i \in 1 .. Full |-> buff[Wrap(r_ptr, i - 1)]]
  BY DEF Contents, Full
<1> QED BY <1>2, <1>4, <1>5

(* The same one step later: its proof needs the invariant of that state.   *)
LEMMA ContentsPrime ==
  ASSUME IInv'
  PROVE  /\ Contents' \in Seq(Data)
         /\ Len(Contents') = Full' /\ Full' \in Nat
         /\ \A i \in 1 .. Full' : Contents'[i] = buff'[Wrap(r_ptr', i - 1)]
<1>1. /\ w_ptr' \in Slots /\ r_ptr' \in Slots /\ buff' \in [Slots -> Data]
  BY DEF IInv, TypeOK
<1>2. /\ Full' \in 0 .. Size - 1 /\ Full' \in Nat
  BY <1>1, SpaceLemma, LwrbAssumption DEF Full, Free
<1>3. \A i \in 1 .. Full' : i - 1 \in 0 .. Size
  BY <1>2, LwrbAssumption
<1>4. \A i \in 1 .. Full' : buff'[Wrap(r_ptr', i - 1)] \in Data
  BY <1>1, <1>3, WrapLemma
<1>5. Contents' = [i \in 1 .. Full' |-> buff'[Wrap(r_ptr', i - 1)]]
  BY DEF Contents, Full
<1> QED BY <1>2, <1>4, <1>5

(* The copies of a write change no byte that is held.                      *)
LEMMA WriteCopyKeeps ==
  ASSUME IInv, WriteLinear \/ WriteWrap
  PROVE  Contents' = Contents
<1>1. UNCHANGED <<w_ptr, r_ptr>>
  BY DEF WriteLinear, WriteWrap
<1>2. \A i \in 1 .. Full : buff'[Wrap(r_ptr, i - 1)] = buff[Wrap(r_ptr, i - 1)]
  BY WriteLinearInv, WriteWrapInv
<1> QED BY <1>1, <1>2 DEF Contents, Full

(* Publishing appends the bytes of the call.                               *)
LEMMA WriteStoreAppends ==
  ASSUME IInv, WriteStore
  PROVE  Contents' = Contents \o writer.data
<1> DEFINE L == Len(writer.data)
<1>1. /\ w_ptr \in Slots /\ r_ptr \in Slots /\ writer.data \in Seq(Data)
      /\ L \in Nat /\ L \in 1 .. Free
      /\ \A i \in 1 .. L : buff[Wrap(w_ptr, i - 1)] = writer.data[i]
      /\ UNCHANGED <<buff, r_ptr>>
  BY LenProperties DEF IInv, TypeOK, WriterInv, WriteStore
<1>2. IInv' /\ Full' = Full + L
  BY WriteStoreInv
<1>3. /\ Contents \in Seq(Data) /\ Len(Contents) = Full /\ Full \in Nat
      /\ \A i \in 1 .. Full : Contents[i] = buff[Wrap(r_ptr, i - 1)]
  BY ContentsLemma
<1>4. /\ Contents' \in Seq(Data) /\ Len(Contents') = Full'
      /\ \A i \in 1 .. Full' : Contents'[i] = buff[Wrap(r_ptr, i - 1)]
  BY <1>1, <1>2, ContentsPrime
<1>5. /\ Contents \o writer.data \in Seq(Data)
      /\ Len(Contents \o writer.data) = Full + L
      /\ \A i \in 1 .. Full + L : (Contents \o writer.data)[i] =
           IF i <= Full THEN Contents[i] ELSE writer.data[i - Full]
  BY <1>1, <1>3, ConcatProperties
<1>6. \A i \in 1 .. Full' : Contents'[i] = (Contents \o writer.data)[i]
  <2> SUFFICES ASSUME NEW i \in 1 .. Full'
               PROVE  Contents'[i] = (Contents \o writer.data)[i]
    OBVIOUS
  <2>0. i \in Nat /\ i \in 1 .. Full + L /\ (i <= Full \/ i > Full)
    BY <1>1, <1>2, <1>3
  <2>1. CASE i <= Full
    <3>1. i \in 1 .. Full
      BY <1>3, <2>0, <2>1
    <3>2. (Contents \o writer.data)[i] = Contents[i]
      BY <1>5, <2>0, <2>1
    <3> QED BY <1>3, <1>4, <3>1, <3>2
  <2>2. CASE i > Full
    <3> DEFINE k == i - Full
    <3>1. k \in 1 .. L /\ k - 1 \in 0 .. Free - 1 /\ Full + (k - 1) = i - 1
      <4>1. Free \in Nat
        BY <1>1, SpaceLemma, LwrbAssumption DEF Free
      <4> QED BY <1>1, <1>3, <2>0, <2>2, <4>1
    <3>2. Wrap(r_ptr, Full + (k - 1)) = Wrap(w_ptr, k - 1)
      BY <1>1, <3>1, JoinLemma DEF Full, Free
    <3>3. Contents'[i] = writer.data[k]
      BY <1>1, <1>4, <3>1, <3>2
    <3> QED BY <1>3, <1>5, <2>0, <2>2, <3>3
  <2> QED BY <2>0, <2>1, <2>2
<1> QED BY <1>2, <1>4, <1>5, <1>6, SeqEqual

(* Storing r_ptr removes the bytes copied out, which are the oldest ones.  *)
LEMMA ReadStoreRemoves ==
  ASSUME IInv, ReadStore
  PROVE  /\ reader.n \in 1 .. Len(Contents)
         /\ reader.got = SubSeq(Contents, 1, reader.n)
         /\ Contents' = SubSeq(Contents, reader.n + 1, Len(Contents))
<1> DEFINE n == reader.n
<1>1. /\ n \in Nat /\ n \in 1 .. Full /\ reader.got \in Seq(Data) /\ Len(reader.got) = n
      /\ \A i \in 1 .. n : reader.got[i] = buff[Wrap(r_ptr, i - 1)]
      /\ UNCHANGED buff
  BY DEF IInv, TypeOK, ReaderInv, ReadStore
<1>2. /\ IInv' /\ Full' = Full - n
      /\ \A i \in 0 .. Full' - 1 : Wrap(r_ptr', i) = Wrap(r_ptr, i + n)
  BY ReadStoreInv
<1>3. /\ Contents \in Seq(Data) /\ Len(Contents) = Full /\ Full \in Nat
      /\ \A i \in 1 .. Full : Contents[i] = buff[Wrap(r_ptr, i - 1)]
      /\ \A i \in 1 .. Full : Contents[i] \in Data
  BY ContentsLemma, ElementOfSeq
<1>4. /\ Contents' \in Seq(Data) /\ Len(Contents') = Full' /\ Full' \in Nat
      /\ \A i \in 1 .. Full' : Contents'[i] = buff[Wrap(r_ptr', i - 1)]
  BY <1>1, <1>2, ContentsPrime
<1>5. reader.got = SubSeq(Contents, 1, n)
  <2>1. \A i \in 1 .. n : i \in 1 .. Full
    BY <1>1, <1>3
  <2>2. n \in 0 .. Full /\ \A i \in 1 .. n : reader.got[i] = Contents[i]
    BY <1>1, <1>3, <2>1
  <2> QED BY <1>1, <1>3, <2>2, PrefixLemma
<1>6. Contents' = SubSeq(Contents, n + 1, Full)
  <2>0. \A j \in 1 .. Full : Contents[j] = buff[Wrap(r_ptr, j - 1)]
    BY <1>3
  <2>1. \A i \in 1 .. Full' : Contents'[i] = Contents[i + n]
    <3> SUFFICES ASSUME NEW i \in 1 .. Full' PROVE Contents'[i] = Contents[i + n]
      OBVIOUS
    <3>1. i \in Nat /\ 1 <= i /\ i <= Full'
      BY <1>4
    <3>2. i - 1 \in 0 .. Full' - 1 /\ i + n \in 1 .. Full /\ i - 1 + n = i + n - 1
      <4>1. n \in Nat /\ Full \in Nat /\ Full' \in Nat /\ Full' = Full - n
        BY <1>1, <1>2, <1>3, <1>4
      <4> HIDE DEF n
      <4> QED BY <3>1, <4>1
    <3>3. Wrap(r_ptr', i - 1) = Wrap(r_ptr, i + n - 1)
      BY <1>2, <3>2
    <3>4. Contents[i + n] = buff[Wrap(r_ptr, i + n - 1)]
      <4>1. n \in Nat
        BY <1>1
      <4> QED BY <2>0, <3>1, <3>2, <4>1
    <3> QED BY <1>4, <3>3, <3>4
  <2>2. n \in 0 .. Full /\ Len(Contents') = Full - n
    BY <1>1, <1>2, <1>3, <1>4
  <2>3. Len(Contents) - n = Full' /\ n \in 0 .. Len(Contents)
    BY <1>2, <1>3, <1>4, <2>2
  <2>4. /\ Len(Contents') = Len(Contents) - n
        /\ \A i \in 1 .. Len(Contents) - n : Contents'[i] = Contents[i + n]
    BY <1>4, <2>1, <2>3
  <2>5. Contents' = SubSeq(Contents, n + 1, Len(Contents))
    <3> HIDE DEF n
    <3> QED BY <1>3, <1>4, <2>3, <2>4, SuffixLemma
  <2> QED BY <1>3, <2>5
<1> QED BY <1>1, <1>3, <1>5, <1>6
-----------------------------------------------------------------------------
(* Every step of the ring buffer is a step of the bounded queue or leaves  *)
(* the queue as it is.                                                     *)
LEMMA StepRefines ==
  ASSUME IInv, [Next]_vars
  PROVE  [Queue!Next]_(Queue!vars)
<1> USE DEF Queue!vars, Queue!Next
<1>1. /\ w_ptr \in Slots /\ r_ptr \in Slots
      /\ Len(Contents) = Full /\ Full \in Nat
      /\ Size - 1 - Len(Contents) = Free
  <2>1. /\ w_ptr \in Slots /\ r_ptr \in Slots
    BY DEF IInv, TypeOK
  <2>2. Free \in 0 .. Size - 1
    BY <2>1, SpaceLemma DEF Free
  <2> QED BY <2>1, <2>2, ContentsLemma, LwrbAssumption
<1>2. ASSUME NEW d \in Calls, WriteLoad(d) PROVE Queue!WriteCall(d)
  <2> DEFINE n == BUF_MIN(Free, Len(d))
  <2>1. d \in Seq(Data) /\ Len(d) \in Nat
    BY LwrbAssumption, LenProperties
  <2>2. Free \in 0 .. Size - 1
    BY <1>1, SpaceLemma DEF Free
  <2>3. n \in Nat /\ n = Queue!Least(Size - 1 - Len(Contents), Len(d))
    BY <1>1, <2>1, <2>2, LwrbAssumption DEF BUF_MIN, Queue!Least
  <2>4. /\ writer.pc = "idle"
        /\ writer' = [pc |-> IF n = 0 THEN "idle" ELSE "linear",
                      data |-> SubSeq(d, 1, n), at |-> w_ptr, ret |-> n]
        /\ UNCHANGED <<buff, w_ptr, r_ptr, reader>>
    BY <1>2 DEF WriteLoad, Free
  <2> HIDE DEF n
  <2>5. UNCHANGED Contents
    BY <2>4 DEF Contents
  <2>6. (writer'.pc # "idle") = (n > 0)
    BY <2>3, <2>4
  <2>7. writer'.data = SubSeq(d, 1, n) /\ writer'.ret = n
    BY <2>4
  <2> QED BY <2>3, <2>4, <2>5, <2>6, <2>7 DEF Queue!WriteCall
<1>3. CASE WriteLinear \/ WriteWrap
  <2>1. UNCHANGED Contents
    BY <1>3, WriteCopyKeeps
  <2>2. /\ UNCHANGED reader
        /\ writer.pc # "idle" /\ writer'.pc # "idle"
        /\ writer'.data = writer.data /\ writer'.ret = writer.ret
    BY <1>3 DEF WriteLinear, WriteWrap, IInv, TypeOK
  <2> QED BY <2>1, <2>2
<1>4. CASE WriteStore
  <2>1. /\ Contents' = Contents \o writer.data
        /\ Full' = Full + Len(writer.data)
        /\ Full' \in Nat /\ Full' <= Size - 1
    <3>1. IInv' /\ Full' = Full + Len(writer.data)
      BY <1>4, WriteStoreInv
    <3>2. Full' \in 0 .. Size - 1
      BY <3>1, SpaceLemma DEF Full, IInv, TypeOK
    <3> QED BY <1>4, <3>1, <3>2, WriteStoreAppends, LwrbAssumption
  <2>2. /\ writer.pc = "store" /\ UNCHANGED reader
        /\ writer' = [pc |-> "idle", data |-> << >>, at |-> 0, ret |-> writer.ret]
    BY <1>4 DEF WriteStore
  <2>3. Queue!WriteDo
    BY <1>1, <2>1, <2>2 DEF Queue!WriteDo
  <2> QED BY <2>3
<1>5. ASSUME NEW b \in Wants, ReadLoad(b) PROVE Queue!ReadCall(b)
  <2> DEFINE n == BUF_MIN(Full, b)
  <2>1. n \in Nat /\ n = Queue!Least(Len(Contents), b)
    BY <1>1, LwrbAssumption DEF BUF_MIN, Queue!Least
  <2>2. /\ reader.pc = "idle"
        /\ reader' = [pc |-> IF n = 0 THEN "idle" ELSE "linear", n |-> n,
                      got |-> << >>, at |-> r_ptr]
        /\ UNCHANGED <<buff, w_ptr, r_ptr, writer>>
    BY <1>5 DEF ReadLoad, Full
  <2> HIDE DEF n
  <2>3. UNCHANGED Contents
    BY <2>2 DEF Contents
  <2>4. (reader'.pc # "idle") = (n > 0)
    BY <2>1, <2>2
  <2>5. reader'.n = n /\ reader'.got = << >>
    BY <2>2
  <2> QED BY <2>1, <2>2, <2>3, <2>4, <2>5 DEF Queue!ReadCall
<1>6. CASE ReadLinear \/ ReadWrap
  <2>1. UNCHANGED <<buff, w_ptr, r_ptr, writer>>
    BY <1>6 DEF ReadLinear, ReadWrap
  <2>2. UNCHANGED Contents
    BY <2>1 DEF Contents
  <2>3. reader.pc # "idle" /\ reader'.pc # "idle" /\ reader'.n = reader.n
    BY <1>6 DEF ReadLinear, ReadWrap, IInv, TypeOK
  <2> QED BY <2>1, <2>2, <2>3
<1>7. CASE ReadStore
  <2>1. /\ reader.pc = "store" /\ reader' = [reader EXCEPT !.pc = "idle", !.at = 0]
        /\ UNCHANGED writer
    BY <1>7 DEF ReadStore
  <2>2. reader'.pc = "idle" /\ reader'.n = reader.n /\ reader'.got = reader.got
    BY <2>1 DEF IInv, TypeOK
  <2>3. /\ reader.n \in 1 .. Len(Contents)
        /\ reader.got = SubSeq(Contents, 1, reader.n)
        /\ Contents' = SubSeq(Contents, reader.n + 1, Len(Contents))
    BY <1>7, ReadStoreRemoves
  <2>4. reader.n <= Len(Contents)
    BY <1>1, <2>3
  <2>5. Queue!ReadDo
    BY <2>1, <2>2, <2>3, <2>4 DEF Queue!ReadDo
  <2> QED BY <2>5
<1>8. CASE UNCHANGED vars
  BY <1>8 DEF vars, Contents
<1> QED BY <1>2, <1>3, <1>4, <1>5, <1>6, <1>7, <1>8 DEF Next, WriteSteps, ReadSteps

(* The ring buffer implements the bounded queue, for any storage size and  *)
(* any calls.                                                              *)
THEOREM Refinement == Spec => ImplementsQueue
<1>1. Init => Queue!Init
  <2> SUFFICES ASSUME Init PROVE Queue!Init
    OBVIOUS
  <2>1. Contents = << >>
    <3>1. Full = 0
      BY DEF Init, Full, GetFull
    <3> QED BY <3>1, InitInv, ContentsLemma, EmptySeq
  <2> QED BY <2>1 DEF Init, Queue!Init
<1>2. IInv /\ [Next]_vars => [Queue!Next]_(Queue!vars)
  BY StepRefines
<1> QED BY <1>1, <1>2, Invariance, PTL DEF Spec, ImplementsQueue
=============================================================================
