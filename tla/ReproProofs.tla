---------------------------- MODULE ReproProofs -----------------------------
(***************************************************************************)
(* Proofs about minimize.Slice (module Slice), for every length of the     *)
(* slice, every predicate and all limits, and about the reproduction of    *)
(* crashes (module Repro), for every log and every number of timeouts.     *)
(***************************************************************************)
EXTENDS Repro, FiniteSetTheorems, TLAPS

USE SMT, Zenon, SMTT(30)    \* the provers of a step that names none, in this order

-----------------------------------------------------------------------------
(* minimize.Slice.                                                         *)
ChunkSet == {c \in [lo : Nat, hi : Nat, final : BOOLEAN] : c.lo <= c.hi}
Within(c) == c.lo + 1 .. c.hi

SliceType ==
  /\ n \in Nat /\ guilty \in SUBSET (1 .. n)
  /\ at \in {"off", "chunk", "piece", "done"} /\ err \in {"none", "pred", "chunks"}
  /\ rest \in Seq(ChunkSet) /\ newChunks \in Seq(ChunkSet)
  /\ from \in Nat /\ till \in Nat /\ from <= till /\ size \in Nat \ {0}
  /\ predRuns \in Nat

-----------------------------------------------------------------------------
(* The elements of no chunks, of one more chunk, and of one less. *)
LEMMA ElementsEmpty == elements(<<>>) = {}
BY DEF elements

LEMMA ElementsAppend ==
  ASSUME NEW s \in Seq(ChunkSet), NEW c \in ChunkSet
  PROVE  elements(Append(s, c)) = elements(s) \cup Within(c)
<1> DEFINE t == Append(s, c)
<1>1. /\ t \in Seq(ChunkSet) /\ DOMAIN t = 1 .. Len(s) + 1 /\ DOMAIN s = 1 .. Len(s) /\ Len(s) \in Nat
      /\ \A i \in 1 .. Len(s) : t[i] = s[i]
      /\ t[Len(s) + 1] = c
  OBVIOUS
<1>2. ASSUME NEW e \in elements(t) PROVE e \in elements(s) \cup Within(c)
  <2>1. PICK i \in DOMAIN t : e \in t[i].lo + 1 .. t[i].hi
    BY DEF elements
  <2>2. CASE i \in 1 .. Len(s)
    BY <1>1, <2>1, <2>2 DEF elements
  <2>3. CASE i = Len(s) + 1
    BY <1>1, <2>1, <2>3 DEF Within
  <2> QED BY <1>1, <2>2, <2>3
<1>3. ASSUME NEW e \in elements(s) PROVE e \in elements(t)
  <2>1. PICK i \in DOMAIN s : e \in s[i].lo + 1 .. s[i].hi
    BY DEF elements
  <2> QED BY <1>1, <2>1 DEF elements
<1>4. Within(c) \subseteq elements(t)
  BY <1>1 DEF elements, Within
<1> QED BY <1>2, <1>3, <1>4

LEMMA ElementsTail ==
  ASSUME NEW s \in Seq(ChunkSet), s # <<>>
  PROVE  elements(s) = Within(Head(s)) \cup elements(Tail(s))
<1> DEFINE t == Tail(s)
<1>1. /\ Head(s) = s[1] /\ DOMAIN s = 1 .. Len(s) /\ Len(s) \in Nat /\ Len(s) >= 1
      /\ DOMAIN t = 1 .. Len(s) - 1
      /\ \A i \in 1 .. Len(s) - 1 : t[i] = s[i + 1]
  OBVIOUS
<1>2. ASSUME NEW e \in elements(s) PROVE e \in Within(s[1]) \cup elements(t)
  <2>1. PICK i \in DOMAIN s : e \in s[i].lo + 1 .. s[i].hi
    BY DEF elements
  <2>2. CASE i = 1
    BY <2>1, <2>2 DEF Within
  <2>3. CASE i # 1
    <3>1. i - 1 \in DOMAIN t /\ t[i - 1] = s[i]
      BY <1>1, <2>3
    <3> QED BY <2>1, <3>1 DEF elements
  <2> QED BY <2>2, <2>3
<1>3. ASSUME NEW e \in elements(t) PROVE e \in elements(s)
  <2>1. PICK i \in DOMAIN t : e \in t[i].lo + 1 .. t[i].hi
    BY DEF elements
  <2>2. i + 1 \in DOMAIN s /\ t[i] = s[i + 1]
    BY <1>1
  <2> QED BY <2>1, <2>2 DEF elements
<1>4. Within(s[1]) \subseteq elements(s)
  BY <1>1 DEF elements, Within
<1> QED BY <1>1, <1>2, <1>3, <1>4

-----------------------------------------------------------------------------
(* The size of the sub-chunks is not zero; if a chunk that is split in two *)
(* has one part, it has one element.                                       *)
LEMMA ChunkSizePositive ==
  ASSUME NEW e \in Nat, NEW p \in Nat \ {0}
  PROVE  chunkSize(e, p) \in Nat \ {0}
<1>1. CASE e = 0
  BY <1>1 DEF chunkSize
<1>2. CASE e # 0
  <2> DEFINE x == e + p - 1
             q == x \div p
  <2>1. x \in Nat /\ x >= p
    BY <1>2
  <2>2. q \in Int /\ p * q <= x /\ x < p * q + p
    BY <2>1
  <2>3. ~(q <= 0)
    <3>1. ASSUME q <= 0 PROVE FALSE
      <4>1. p * q <= 0
        BY <3>1, <2>2
      <4> QED BY <4>1, <2>1, <2>2
    <3> QED BY <3>1
  <2> QED BY <1>2, <2>2, <2>3 DEF chunkSize
<1> QED BY <1>1, <1>2

LEMMA OneElement ==
  ASSUME NEW e \in Nat, 0 < e, e <= chunkSize(e, 2)
  PROVE  e = 1
BY DEF chunkSize

LEMMA SplitIntoPositive ==
  ASSUME NEW e \in Nat
  PROVE  splitInto(e) \in Nat \ {0}
BY SliceAssumption DEF splitInto, initialSplit

(* What holds at the end of a sub-chunk. *)
LEMMA EndInside ==
  ASSUME SliceType, from < till
  PROVE  End \in Nat /\ from < End /\ End <= till
BY DEF SliceType, End

-----------------------------------------------------------------------------
LEMMA TypeInit == SliceInit => SliceType
BY DEF SliceInit, Off, SliceType

LEMMA TypeStep ==
  ASSUME SliceType, [SliceNext]_vars
  PROVE  SliceType'
<1> USE DEF SliceType
<1>1. CASE SliceStart
  <2> DEFINE c == Chunk(0, n, FALSE)
  <2>1. c \in ChunkSet
    BY DEF Chunk, ChunkSet
  <2>2. rest' = <<c>> /\ at' = "chunk"
        /\ UNCHANGED <<n, guilty, flaky, err, newChunks, from, till, size, someNeeded, foundNeeded, predRuns>>
    BY <1>1 DEF SliceStart
  <2> HIDE DEF c
  <2> QED BY <2>1, <2>2
<1>2. CASE NextChunk
  <2> DEFINE chunk == Head(rest)
             elems == chunk.hi - chunk.lo
             sz == chunkSize(elems, splitInto(elems))
  <2>1. chunk \in ChunkSet /\ Tail(rest) \in Seq(ChunkSet)
    BY <1>2 DEF NextChunk
  <2>2. chunk.lo \in Nat /\ chunk.hi \in Nat /\ chunk.lo <= chunk.hi /\ elems \in Nat
    BY <2>1 DEF ChunkSet
  <2>3. sz \in Nat \ {0}
    BY <2>2, SplitIntoPositive, ChunkSizePositive, Zenon
  <2> DEFINE c == Chunk(chunk.lo, chunk.hi, TRUE)
  <2>4. c \in ChunkSet
    BY <2>2 DEF Chunk, ChunkSet
  <2> HIDE DEF sz, elems, chunk, c
  <2>5. CASE chunk.final \/ (someNeeded /\ 0 < elems /\ elems <= sz)
    <3>1. /\ rest' = Tail(rest) /\ newChunks' = Append(newChunks, c) /\ from' = chunk.hi /\ till' = chunk.hi
          /\ UNCHANGED <<at, size, n, guilty, err, predRuns>>
      BY <1>2, <2>5, Zenon DEF NextChunk, sz, elems, chunk, c
    <3> QED BY <3>1, <2>1, <2>2, <2>4
  <2>6. CASE ~(chunk.final \/ (someNeeded /\ 0 < elems /\ elems <= sz))
    <3>1. /\ rest' = Tail(rest) /\ at' = "piece" /\ from' = chunk.lo /\ till' = chunk.hi /\ size' = sz
          /\ UNCHANGED <<newChunks, n, guilty, err, predRuns>>
      BY <1>2, <2>6 DEF NextChunk, sz, elems, chunk
    <3> QED BY <3>1, <2>1, <2>2, <2>3
  <2> QED BY <2>5, <2>6
<1>3. ASSUME from < till, Keep, predRuns' \in Nat PROVE SliceType'
  <2>1. End \in Nat /\ from < End /\ End <= till
    BY <1>3, EndInside
  <2> DEFINE c == Chunk(from, End, FALSE)
  <2>2. c \in ChunkSet
    BY <2>1 DEF Chunk, ChunkSet
  <2>3. newChunks' = Append(newChunks, c) /\ from' = End /\ UNCHANGED <<n, guilty, at, err, rest, till, size>>
    BY <1>3 DEF Keep
  <2> HIDE DEF c
  <2> QED BY <1>3, <2>1, <2>2, <2>3
<1>4. CASE KeepUntested
  BY <1>3, <1>4 DEF KeepUntested
<1>5. ASSUME NEW answer \in Pred(Without), predRun(answer) PROVE SliceType'
  <2>1. CASE answer = "false"
    BY <1>3, <1>5, <2>1 DEF predRun
  <2>2. CASE answer = "true"
    <3>1. from' = End /\ predRuns' = predRuns + 1 /\ UNCHANGED <<n, guilty, at, err, rest, newChunks, till, size>>
      BY <1>5, <2>2 DEF predRun
    <3>2. End \in Nat /\ End <= till
      BY <1>5, EndInside DEF predRun
    <3> QED BY <3>1, <3>2
  <2>3. CASE answer = "error"
    <3>1. at' = "done" /\ err' = "pred" /\ predRuns' = predRuns + 1
          /\ UNCHANGED <<n, guilty, rest, newChunks, from, till, size>>
      BY <1>5, <2>3 DEF predRun, passVars
    <3> QED BY <3>1
  <2> QED BY <1>5, <2>1, <2>2, <2>3 DEF predRun
<1>6. CASE EndChunk
  BY <1>6 DEF EndChunk, passVars
<1>7. CASE EndPass
  <2>1. CASE done \/ (MaxChunks > 0 /\ Len(newChunks) > MaxChunks)
    <3>1. at' = "done" /\ err' \in {"none", "chunks"} /\ UNCHANGED <<n, guilty, rest, newChunks, from, till, size, predRuns>>
      BY <1>7, <2>1 DEF EndPass, passVars
    <3> QED BY <3>1
  <2>2. CASE ~(done \/ (MaxChunks > 0 /\ Len(newChunks) > MaxChunks))
    <3>1. /\ rest' = newChunks /\ newChunks' = <<>> /\ from' = 0 /\ till' = 0
          /\ UNCHANGED <<n, guilty, at, err, size, predRuns>>
      BY <1>7, <2>2 DEF EndPass
    <3> QED BY <3>1
  <2> QED BY <2>1, <2>2
<1>8. CASE UNCHANGED vars
  BY <1>8 DEF vars, sliceVars, passVars
<1> QED BY <1>1, <1>2, <1>4, <1>5, <1>6, <1>7, <1>8 DEF SliceNext, SliceStep

-----------------------------------------------------------------------------
(* Before Slice starts there are no chunks; between two chunks there are   *)
(* no sub-chunks.                                                          *)
KeepsInv ==
  /\ at = "off" => rest = <<>> /\ newChunks = <<>> /\ from = 0 /\ till = 0
  /\ at = "chunk" => from = till
  /\ KeepsWhatHeld

LEMMA KeepsInit == SliceInit => KeepsInv
BY DEF SliceInit, Off, KeepsInv, KeepsWhatHeld

(* A step that leaves the chunks alone. *)
LEMMA SameLeft ==
  ASSUME UNCHANGED <<newChunks, rest, from, till>>
  PROVE  Left' = Left
BY DEF Left, elements

LEMMA KeepsStep ==
  ASSUME SliceType, SliceType', KeepsInv, [SliceNext]_vars
  PROVE  KeepsInv'
<1>1. CASE SliceStart
  <2> DEFINE c == Chunk(0, n, FALSE)
  <2>1. c \in ChunkSet /\ Within(c) = 1 .. n
    BY DEF Chunk, ChunkSet, Within, SliceType
  <2>2. /\ rest' = Append(<<>>, c) /\ at' = "chunk" /\ held' = 1 .. n
        /\ newChunks' = <<>> /\ from' = 0 /\ till' = 0
    BY <1>1 DEF SliceStart, KeepsInv
  <2> HIDE DEF c
  <2>3. elements(rest') = 1 .. n
    <3>1. <<>> \in Seq(ChunkSet)
      OBVIOUS
    <3>2. elements(Append(<<>>, c)) = elements(<<>>) \cup Within(c)
      BY <3>1, <2>1, ElementsAppend, Zenon
    <3>3. elements(rest') = elements(Append(<<>>, c))
      BY <2>2
    <3> QED BY <2>1, <3>2, <3>3, ElementsEmpty, Zenon
  <2>4. Left' = 1 .. n
    BY <2>2, <2>3, ElementsEmpty DEF Left, elements
  <2> QED BY <2>2, <2>4 DEF KeepsInv, KeepsWhatHeld
<1>2. CASE NextChunk
  <2> DEFINE chunk == Head(rest)
             c == Chunk(chunk.lo, chunk.hi, TRUE)
  <2>1. at = "chunk" /\ from = till /\ Left = held /\ rest # <<>> /\ rest' = Tail(rest) /\ held' = held
    BY <1>2 DEF NextChunk, KeepsInv, KeepsWhatHeld
  <2>2. chunk \in ChunkSet /\ Tail(rest) \in Seq(ChunkSet) /\ rest \in Seq(ChunkSet) /\ newChunks \in Seq(ChunkSet)
    BY <2>1 DEF SliceType
  <2>3. c \in ChunkSet /\ Within(c) = Within(chunk)
    BY <2>2 DEF ChunkSet, Chunk, Within
  <2>4. held = elements(newChunks) \cup Within(chunk) \cup elements(rest')
    <3>1. (from + 1 .. till) = {}
      BY <2>1 DEF SliceType
    <3>2. elements(rest) = Within(chunk) \cup elements(rest')
      BY <2>1, <2>2, ElementsTail
    <3> QED BY <3>1, <3>2, <2>1 DEF Left
  <2> HIDE DEF c, chunk
  <2>5. CASE newChunks' = Append(newChunks, c) /\ from' = chunk.hi /\ till' = chunk.hi /\ at' = at
    <3>1. elements(newChunks') = elements(newChunks) \cup Within(chunk)
      BY <2>2, <2>3, <2>5, ElementsAppend
    <3>2. from' + 1 .. till' = {}
      BY <2>2, <2>5 DEF ChunkSet
    <3>3. Left' = elements(newChunks') \cup (from' + 1 .. till') \cup elements(rest')
      BY DEF Left, elements
    <3>4. Left' = elements(newChunks) \cup Within(chunk) \cup elements(rest')
      BY <3>1, <3>2, <3>3
    <3>5. Left' = held'
      BY <2>1, <2>4, <3>4
    <3> QED BY <2>1, <2>5, <3>5 DEF KeepsInv, KeepsWhatHeld
  <2>6. CASE newChunks' = newChunks /\ from' = chunk.lo /\ till' = chunk.hi /\ at' = "piece"
    <3>1. from' + 1 .. till' = Within(chunk)
      BY <2>6 DEF Within
    <3>2. Left' = elements(newChunks) \cup (from' + 1 .. till') \cup elements(rest')
      BY <2>6 DEF Left, elements
    <3>3. Left' = held'
      BY <2>1, <2>4, <3>1, <3>2, Zenon
    <3> QED BY <2>6, <3>3 DEF KeepsInv, KeepsWhatHeld
  <2> QED BY <1>2, <2>5, <2>6, Zenon DEF NextChunk, chunk, c
<1>3. ASSUME at = "piece", from < till, Keep PROVE KeepsInv'
  <2> DEFINE c == Chunk(from, End, FALSE)
  <2>1. End \in Nat /\ from < End /\ End <= till
    BY <1>3, EndInside
  <2>2. c \in ChunkSet /\ Within(c) = from + 1 .. End
    BY <2>1 DEF Chunk, ChunkSet, Within, SliceType
  <2>3. newChunks' = Append(newChunks, c) /\ from' = End /\ at' = at /\ rest' = rest /\ till' = till /\ held' = held
    BY <1>3 DEF Keep
  <2> HIDE DEF c
  <2>4. elements(newChunks') = elements(newChunks) \cup (from + 1 .. End)
    BY <2>2, <2>3, ElementsAppend DEF SliceType
  <2>5. from + 1 .. till = (from + 1 .. End) \cup (End + 1 .. till)
    BY <2>1 DEF SliceType
  <2>6. Left' = elements(newChunks') \cup (End + 1 .. till) \cup elements(rest)
    BY <2>3 DEF Left, elements
  <2>7. Left' = Left
    BY <2>4, <2>5, <2>6 DEF Left
  <2> QED BY <1>3, <2>3, <2>7 DEF KeepsInv, KeepsWhatHeld
<1>4. CASE KeepUntested
  BY <1>3, <1>4 DEF KeepUntested
<1>5. ASSUME NEW answer \in Pred(Without), predRun(answer) PROVE KeepsInv'
  <2>1. CASE answer = "false"
    BY <1>3, <1>5, <2>1 DEF predRun
  <2>2. CASE answer = "true"
    <3>1. from' = End /\ held' = Without /\ at' = at /\ at = "piece" /\ UNCHANGED <<rest, newChunks, till>>
      BY <1>5, <2>2 DEF predRun
    <3>2. Left' = Without
      BY <3>1 DEF Left, Without, elements
    <3> QED BY <3>1, <3>2 DEF KeepsInv, KeepsWhatHeld
  <2>3. CASE answer = "error"
    <3>1. at' = "done" /\ at = "piece" /\ UNCHANGED <<newChunks, rest, from, till, held>>
      BY <1>5, <2>3 DEF predRun, passVars
    <3> QED BY <3>1, SameLeft DEF KeepsInv, KeepsWhatHeld
  <2> QED BY <1>5, <2>1, <2>2, <2>3 DEF predRun
<1>6. CASE EndChunk
  <2>1. at = "piece" /\ from = till /\ at' = "chunk" /\ UNCHANGED <<newChunks, rest, from, till, held>>
    BY <1>6 DEF EndChunk, passVars
  <2> QED BY <2>1, SameLeft DEF KeepsInv, KeepsWhatHeld
<1>7. CASE EndPass
  <2>1. CASE done \/ (MaxChunks > 0 /\ Len(newChunks) > MaxChunks)
    <3>1. at = "chunk" /\ at' = "done" /\ UNCHANGED <<newChunks, rest, from, till, held>>
      BY <1>7, <2>1 DEF EndPass, passVars
    <3> QED BY <3>1, SameLeft DEF KeepsInv, KeepsWhatHeld
  <2>2. CASE ~(done \/ (MaxChunks > 0 /\ Len(newChunks) > MaxChunks))
    <3>1. /\ at = "chunk" /\ rest = <<>> /\ from = till /\ Left = held
          /\ rest' = newChunks /\ newChunks' = <<>> /\ from' = 0 /\ till' = 0 /\ at' = at /\ held' = held
      BY <1>7, <2>2 DEF EndPass, KeepsInv, KeepsWhatHeld
    <3>2. from + 1 .. till = {} /\ 0 + 1 .. 0 = {}
      BY <3>1 DEF SliceType
    <3>3. Left = elements(newChunks)
      BY <3>1, <3>2, ElementsEmpty DEF Left
    <3>4. Left' = elements(<<>>) \cup (0 + 1 .. 0) \cup elements(newChunks)
      BY <3>1 DEF Left, elements
    <3> QED BY <3>1, <3>2, <3>3, <3>4, ElementsEmpty DEF KeepsInv, KeepsWhatHeld
  <2> QED BY <2>1, <2>2
<1>8. CASE UNCHANGED vars
  <2>1. UNCHANGED <<at, newChunks, rest, from, till, held>>
    BY <1>8 DEF vars, sliceVars, passVars
  <2> QED BY <2>1, SameLeft DEF KeepsInv, KeepsWhatHeld
<1> QED BY <1>1, <1>2, <1>4, <1>5, <1>6, <1>7, <1>8 DEF SliceNext, SliceStep

(* minimize.Slice: whatever the predicate answers and whatever the limits  *)
(* are, what is left is a slice that the predicate was true of last.       *)
THEOREM SliceKeeps == SliceSpec => []KeepsWhatHeld
<1>1. SliceInit => SliceType /\ KeepsInv
  BY TypeInit, KeepsInit
<1>2. SliceType /\ KeepsInv /\ [SliceNext]_vars => (SliceType /\ KeepsInv)'
  BY TypeStep, KeepsStep
<1>3. KeepsInv => KeepsWhatHeld
  BY DEF KeepsInv
<1> QED BY <1>1, <1>2, <1>3, PTL DEF SliceSpec

-----------------------------------------------------------------------------
(* The chunks come in the order of the slice: those that were looked at,   *)
(* the sub-chunks at hand, and the others.                                 *)
Sorted(chunks) == \A i, j \in DOMAIN chunks : i < j => chunks[i].hi <= chunks[j].lo

OrderInv ==
  /\ \A i \in DOMAIN newChunks : newChunks[i].hi <= from
  /\ \A i \in DOMAIN rest : till <= rest[i].lo
  /\ Sorted(newChunks) /\ Sorted(rest)

LEMMA AppendSorted ==
  ASSUME NEW s \in Seq(ChunkSet), NEW c \in ChunkSet, Sorted(s), NEW x \in Nat,
         \A i \in DOMAIN s : s[i].hi <= c.lo, c.hi <= x
  PROVE  Sorted(Append(s, c)) /\ \A i \in DOMAIN Append(s, c) : Append(s, c)[i].hi <= x
<1> DEFINE t == Append(s, c)
<1>1. /\ DOMAIN t = 1 .. Len(s) + 1 /\ DOMAIN s = 1 .. Len(s) /\ Len(s) \in Nat
      /\ \A i \in 1 .. Len(s) : t[i] = s[i] /\ s[i] \in ChunkSet
      /\ t[Len(s) + 1] = c
  OBVIOUS
<1>2. \A i \in 1 .. Len(s) : s[i].hi \in Nat
  BY <1>1 DEF ChunkSet
<1>3. c.lo \in Nat /\ c.hi \in Nat /\ c.lo <= c.hi
  BY DEF ChunkSet
<1> HIDE DEF t
<1>4. Sorted(t)
  <2> SUFFICES ASSUME NEW i \in DOMAIN t, NEW j \in DOMAIN t, i < j
               PROVE  t[i].hi <= t[j].lo
    BY DEF Sorted
  <2>1. CASE j = Len(s) + 1
    BY <2>1, <1>1
  <2>2. CASE j \in 1 .. Len(s)
    BY <2>2, <1>1 DEF Sorted
  <2> QED BY <2>1, <2>2, <1>1
<1>5. \A i \in DOMAIN t : t[i].hi <= x
  BY <1>1, <1>2, <1>3
<1> QED BY <1>4, <1>5 DEF t

LEMMA TailSorted ==
  ASSUME NEW s \in Seq(ChunkSet), s # <<>>, Sorted(s)
  PROVE  Sorted(Tail(s)) /\ \A i \in DOMAIN Tail(s) : Head(s).hi <= Tail(s)[i].lo
<1> DEFINE t == Tail(s)
<1>1. /\ Head(s) = s[1] /\ DOMAIN s = 1 .. Len(s) /\ Len(s) \in Nat /\ Len(s) >= 1
      /\ DOMAIN t = 1 .. Len(s) - 1
      /\ \A i \in 1 .. Len(s) - 1 : t[i] = s[i + 1]
  OBVIOUS
<1> HIDE DEF t
<1>2. Sorted(t)
  <2> SUFFICES ASSUME NEW i \in DOMAIN t, NEW j \in DOMAIN t, i < j
               PROVE  t[i].hi <= t[j].lo
    BY DEF Sorted
  <2>1. i + 1 \in DOMAIN s /\ j + 1 \in DOMAIN s /\ i + 1 < j + 1
    BY <1>1
  <2> QED BY <2>1, <1>1 DEF Sorted
<1>3. \A i \in DOMAIN t : s[1].hi <= t[i].lo
  BY <1>1 DEF Sorted
<1> QED BY <1>1, <1>2, <1>3 DEF t

LEMMA OrderInit == SliceInit => OrderInv
BY DEF SliceInit, Off, OrderInv, Sorted

LEMMA OrderStep ==
  ASSUME SliceType, KeepsInv, OrderInv, [SliceNext]_vars
  PROVE  OrderInv'
<1>1. CASE SliceStart
  <2> DEFINE c == Chunk(0, n, FALSE)
  <2>1. c.lo = 0
    BY DEF Chunk
  <2>2. rest' = <<c>> /\ newChunks' = <<>> /\ till' = 0
    BY <1>1 DEF SliceStart, KeepsInv
  <2> HIDE DEF c
  <2> QED BY <2>1, <2>2 DEF OrderInv, Sorted
<1>2. CASE NextChunk
  <2> DEFINE chunk == Head(rest)
             c == Chunk(chunk.lo, chunk.hi, TRUE)
  <2>1. at = "chunk" /\ from = till /\ rest # <<>> /\ rest' = Tail(rest)
    BY <1>2 DEF NextChunk, KeepsInv
  <2>2. chunk \in ChunkSet /\ rest \in Seq(ChunkSet) /\ newChunks \in Seq(ChunkSet) /\ from \in Nat
    BY <2>1 DEF SliceType
  <2>3. chunk.lo \in Nat /\ chunk.hi \in Nat /\ chunk.lo <= chunk.hi
    BY <2>2 DEF ChunkSet
  <2>4. c \in ChunkSet /\ c.lo = chunk.lo /\ c.hi = chunk.hi
    BY <2>3 DEF ChunkSet, Chunk
  <2>5. till <= chunk.lo
    BY <2>1, <2>2 DEF OrderInv
  <2>6. Sorted(rest') /\ \A i \in DOMAIN rest' : chunk.hi <= rest'[i].lo
    BY <2>1, <2>2, TailSorted DEF OrderInv
  <2>7. \A i \in DOMAIN newChunks : newChunks[i].hi <= chunk.lo
    <3>1. \A i \in DOMAIN newChunks : newChunks[i].hi \in Nat
      BY <2>2 DEF ChunkSet
    <3> QED BY <3>1, <2>1, <2>2, <2>3, <2>5 DEF OrderInv
  <2> HIDE DEF c, chunk
  <2>8. CASE newChunks' = Append(newChunks, c) /\ from' = chunk.hi /\ till' = chunk.hi
    <3>1. Sorted(newChunks') /\ \A i \in DOMAIN newChunks' : newChunks'[i].hi <= chunk.hi
      <4>1. Sorted(newChunks) /\ \A i \in DOMAIN newChunks : newChunks[i].hi <= c.lo
        BY <2>4, <2>7 DEF OrderInv
      <4>2. c.hi <= chunk.hi
        BY <2>3, <2>4
      <4>3. /\ Sorted(Append(newChunks, c))
            /\ \A i \in DOMAIN Append(newChunks, c) : Append(newChunks, c)[i].hi <= chunk.hi
        BY <2>2, <2>3, <2>4, <4>1, <4>2, AppendSorted
      <4> QED BY <4>3, <2>8
    <3> QED BY <2>6, <2>8, <3>1 DEF OrderInv, Sorted
  <2>9. CASE newChunks' = newChunks /\ from' = chunk.lo /\ till' = chunk.hi
    BY <2>6, <2>7, <2>9 DEF OrderInv, Sorted
  <2> QED BY <1>2, <2>8, <2>9, Zenon DEF NextChunk, chunk, c
<1>3. ASSUME from < till, Keep PROVE OrderInv'
  <2> DEFINE c == Chunk(from, End, FALSE)
  <2>1. End \in Nat /\ from < End /\ End <= till
    BY <1>3, EndInside
  <2>2. c \in ChunkSet /\ c.lo = from /\ c.hi = End
    BY <2>1 DEF Chunk, ChunkSet, SliceType
  <2>3. newChunks' = Append(newChunks, c) /\ from' = End /\ rest' = rest /\ till' = till
    BY <1>3 DEF Keep
  <2> HIDE DEF c
  <2>4. Sorted(newChunks) /\ \A i \in DOMAIN newChunks : newChunks[i].hi <= c.lo
    BY <2>2 DEF OrderInv
  <2>5. c.hi <= End
    BY <2>1, <2>2
  <2>6. /\ Sorted(Append(newChunks, c))
        /\ \A i \in DOMAIN Append(newChunks, c) : Append(newChunks, c)[i].hi <= End
    BY <2>1, <2>2, <2>4, <2>5, AppendSorted, Zenon DEF SliceType
  <2> QED BY <2>3, <2>6 DEF OrderInv, Sorted
<1>4. CASE KeepUntested
  BY <1>3, <1>4 DEF KeepUntested
<1>5. ASSUME NEW answer \in Pred(Without), predRun(answer) PROVE OrderInv'
  <2>1. CASE answer = "false"
    BY <1>3, <1>5, <2>1 DEF predRun
  <2>2. CASE answer = "true"
    <3>1. from' = End /\ UNCHANGED <<rest, newChunks, till>> /\ End \in Nat /\ from <= End
      BY <1>5, <2>2, EndInside DEF predRun, SliceType
    <3>2. \A i \in DOMAIN newChunks : newChunks[i].hi \in Nat
      BY DEF SliceType, ChunkSet
    <3> QED BY <3>1, <3>2 DEF OrderInv, Sorted, SliceType
  <2>3. CASE answer = "error"
    <3>1. UNCHANGED <<newChunks, rest, from, till>>
      BY <1>5, <2>3 DEF predRun, passVars
    <3> QED BY <3>1 DEF OrderInv, Sorted
  <2> QED BY <1>5, <2>1, <2>2, <2>3 DEF predRun
<1>6. CASE EndChunk
  <2>1. UNCHANGED <<newChunks, rest, from, till>>
    BY <1>6 DEF EndChunk, passVars
  <2> QED BY <2>1 DEF OrderInv, Sorted
<1>7. CASE EndPass
  <2>1. CASE UNCHANGED <<newChunks, rest, from, till>>
    BY <2>1 DEF OrderInv, Sorted
  <2>2. CASE rest' = newChunks /\ newChunks' = <<>> /\ till' = 0
    <3>1. \A i \in DOMAIN newChunks : newChunks[i].lo \in Nat
      BY DEF SliceType, ChunkSet
    <3> QED BY <2>2, <3>1 DEF OrderInv, Sorted
  <2> QED BY <1>7, <2>1, <2>2 DEF EndPass, passVars
<1>8. CASE UNCHANGED vars
  <2>1. UNCHANGED <<newChunks, rest, from, till>>
    BY <1>8 DEF vars, sliceVars, passVars
  <2> QED BY <2>1 DEF OrderInv, Sorted
<1> QED BY <1>1, <1>2, <1>4, <1>5, <1>6, <1>7, <1>8 DEF SliceNext, SliceStep

-----------------------------------------------------------------------------
(* A chunk that stays holds a needed element; a chunk that is final holds  *)
(* nothing else.                                                           *)
Needed == {c \in ChunkSet : (\E g \in guilty : g \in Within(c)) /\ (c.final => c.hi = c.lo + 1)}

(* If the predicate needs the guilty elements and the steps are not        *)
(* limited: nothing needed was removed, every chunk of a pass after the    *)
(* first is needed, and if no sub-chunk was needed so far the others are.  *)
NeedBody ==
  /\ guilty \subseteq held
  /\ newChunks \in Seq(Needed)
  /\ someNeeded => rest \in Seq(Needed)
  /\ ~someNeeded => \A i \in DOMAIN rest : ~rest[i].final
  /\ at = "piece" /\ someNeeded /\ ~foundNeeded => \E g \in guilty : g \in from + 1 .. till
  /\ at = "done" /\ err = "none" =>
       rest = <<>> /\ from = till /\ \A i \in DOMAIN newChunks : newChunks[i].final

NeedInv ==
  /\ at = "off" => ~someNeeded
  /\ ~flaky /\ MaxSteps = 0 /\ at # "off" => NeedBody

LEMMA NeedInit == SliceInit => NeedInv
BY DEF SliceInit, Off, NeedInv

(* The sub-chunks at hand are in no other chunk. *)
LEMMA Outside ==
  ASSUME SliceType, OrderInv, NEW g \in from + 1 .. till
  PROVE  g \notin elements(newChunks) /\ g \notin elements(rest)
<1>1. ASSUME g \in elements(newChunks) PROVE FALSE
  <2>1. PICK i \in DOMAIN newChunks : g \in newChunks[i].lo + 1 .. newChunks[i].hi
    BY <1>1 DEF elements
  <2>2. newChunks[i].lo \in Nat /\ newChunks[i].hi \in Nat
    BY DEF SliceType, ChunkSet
  <2> QED BY <2>1, <2>2 DEF OrderInv, SliceType
<1>2. ASSUME g \in elements(rest) PROVE FALSE
  <2>1. PICK i \in DOMAIN rest : g \in rest[i].lo + 1 .. rest[i].hi
    BY <1>2 DEF elements
  <2>2. rest[i].lo \in Nat /\ rest[i].hi \in Nat
    BY DEF SliceType, ChunkSet
  <2> QED BY <2>1, <2>2 DEF OrderInv, SliceType
<1> QED BY <1>1, <1>2

LEMMA NeedStep ==
  ASSUME SliceType, KeepsInv, OrderInv, NeedInv, [SliceNext]_vars
  PROVE  NeedInv'
<1>1. flaky' = flaky /\ guilty' = guilty /\ (at' = "off" => at = "off" /\ someNeeded' = someNeeded)
  BY Zenon DEF SliceNext, SliceStep, SliceStart, NextChunk, KeepUntested, Keep, predRun, EndChunk, EndPass,
         vars, sliceVars, passVars
<1>2. Needed' = Needed
  BY <1>1 DEF Needed, Within
<1> SUFFICES ASSUME ~flaky, MaxSteps = 0, at' # "off"
             PROVE  NeedBody'
  BY <1>1 DEF NeedInv
<1>3. at # "off" => NeedBody
  BY DEF NeedInv
<1>4. CASE SliceStart
  <2> DEFINE c == Chunk(0, n, FALSE)
  <2>1. c.final = FALSE
    BY DEF Chunk
  <2>2. rest' = <<c>> /\ newChunks' = <<>> /\ at' = "chunk" /\ held' = 1 .. n /\ someNeeded' = someNeeded
    BY <1>4 DEF SliceStart, KeepsInv
  <2>3. ~someNeeded
    BY <1>4 DEF SliceStart, NeedInv
  <2> HIDE DEF c
  <2>4. guilty' \subseteq held'
    BY <1>1, <2>2 DEF SliceType
  <2>5. \A i \in DOMAIN rest' : ~rest'[i].final
    BY <2>1, <2>2
  <2> QED BY <2>2, <2>3, <2>4, <2>5 DEF NeedBody
<1>5. CASE NextChunk
  <2> DEFINE chunk == Head(rest)
             elems == chunk.hi - chunk.lo
             sz == chunkSize(elems, splitInto(elems))
             c == Chunk(chunk.lo, chunk.hi, TRUE)
  <2>1. /\ at = "chunk" /\ rest # <<>> /\ rest' = Tail(rest) /\ held' = held
        /\ someNeeded' = someNeeded /\ rest \in Seq(ChunkSet) /\ newChunks \in Seq(ChunkSet)
    BY <1>5 DEF NextChunk, SliceType
  <2>2. NeedBody /\ guilty' \subseteq held'
    BY <1>1, <1>3, <2>1 DEF NeedBody
  <2>3. chunk \in ChunkSet /\ chunk.lo \in Nat /\ chunk.hi \in Nat /\ elems \in Nat
    <3>1. chunk \in ChunkSet
      BY <2>1
    <3> QED BY <3>1 DEF ChunkSet
  <2>4. someNeeded => chunk \in Needed /\ rest' \in Seq(Needed)
    <3>1. someNeeded => rest \in Seq(Needed)
      BY <2>2 DEF NeedBody
    <3> QED BY <3>1, <2>1
  <2>5. ~someNeeded => ~chunk.final /\ \A i \in DOMAIN rest' : ~rest'[i].final
    <3> SUFFICES ASSUME ~someNeeded PROVE ~chunk.final /\ \A i \in DOMAIN rest' : ~rest'[i].final
      OBVIOUS
    <3>1. \A i \in DOMAIN rest : ~rest[i].final
      BY <2>2 DEF NeedBody
    <3>2. /\ chunk = rest[1] /\ DOMAIN rest = 1 .. Len(rest) /\ Len(rest) \in Nat /\ Len(rest) >= 1
          /\ DOMAIN rest' = 1 .. Len(rest) - 1
          /\ \A i \in 1 .. Len(rest) - 1 : rest'[i] = rest[i + 1]
      BY <2>1
    <3> QED BY <3>1, <3>2
  <2>6. CASE chunk.final \/ (someNeeded /\ 0 < elems /\ elems <= sz)
    <3>1. newChunks' = Append(newChunks, c) /\ at' = "chunk"
      BY <1>5, <2>1, <2>6, Zenon DEF NextChunk
    <3>2. someNeeded
      BY <2>5, <2>6
    <3>3. chunk.hi = chunk.lo + 1
      <4>1. CASE chunk.final
        BY <4>1, <3>2, <2>4 DEF Needed
      <4>2. CASE 0 < elems /\ elems <= sz
        <5>1. splitInto(elems) = 2
          BY <3>2 DEF splitInto
        <5>2. elems = 1
          BY <4>2, <5>1, <2>3, OneElement
        <5> QED BY <5>2, <2>3
      <4> QED BY <2>6, <4>1, <4>2
    <3>4. c \in Needed
      <4>1. PICK g \in guilty : g \in Within(chunk)
        BY <3>2, <2>4 DEF Needed
      <4>2. Within(c) = Within(chunk) /\ c \in ChunkSet /\ c.lo = chunk.lo /\ c.hi = chunk.hi
        BY <2>3 DEF ChunkSet, Chunk, Within
      <4> QED BY <4>1, <4>2, <3>3, Zenon DEF Needed
    <3> HIDE DEF c, chunk, elems, sz
    <3>5. newChunks' \in Seq(Needed)
      BY <3>1, <3>4, <2>2 DEF NeedBody
    <3> QED BY <1>2, <2>1, <2>2, <2>4, <3>1, <3>2, <3>5 DEF NeedBody
  <2>7. CASE ~(chunk.final \/ (someNeeded /\ 0 < elems /\ elems <= sz))
    <3>1. at' = "piece" /\ from' = chunk.lo /\ till' = chunk.hi /\ newChunks' = newChunks
      BY <1>5, <2>7 DEF NextChunk
    <3>2. someNeeded => \E g \in guilty : g \in from' + 1 .. till'
      BY <3>1, <2>4 DEF Needed, Within
    <3> HIDE DEF c, chunk, elems, sz
    <3>3. newChunks' \in Seq(Needed)
      BY <3>1, <2>2 DEF NeedBody
    <3> QED BY <1>1, <1>2, <2>1, <2>2, <2>4, <2>5, <3>1, <3>2, <3>3 DEF NeedBody
  <2> QED BY <2>6, <2>7
<1>6. ASSUME at = "piece", from < till, Keep, NEW g \in guilty, g \in from + 1 .. End
      PROVE  NeedBody'
  <2> DEFINE c == Chunk(from, End, FALSE)
  <2>1. End \in Nat /\ from < End /\ End <= till
    BY <1>6, EndInside
  <2>2. c \in ChunkSet /\ Within(c) = from + 1 .. End /\ c.final = FALSE
    BY <2>1 DEF Chunk, ChunkSet, SliceType, Within
  <2>3. c \in Needed
    BY <1>6, <2>2, Zenon DEF Needed
  <2>4. /\ newChunks' = Append(newChunks, c) /\ foundNeeded' = TRUE
        /\ UNCHANGED <<at, rest, someNeeded, held>>
    BY <1>6 DEF Keep
  <2> HIDE DEF c
  <2>5. newChunks' \in Seq(Needed)
    BY <1>3, <1>6, <2>3, <2>4 DEF NeedBody
  <2> QED BY <1>1, <1>2, <1>3, <1>6, <2>4, <2>5 DEF NeedBody
<1>7. CASE KeepUntested
  <2>1. at = "piece" /\ from < till /\ Keep /\ ~Tested /\ NeedBody
    BY <1>3, <1>7 DEF KeepUntested
  <2>2. ~OutOfSteps
    BY DEF OutOfSteps
  <2>3. ~(End < till) /\ ~foundNeeded /\ someNeeded
    BY <2>1, <2>2 DEF Tested
  <2>4. End = till
    BY <2>1, <2>3, EndInside DEF SliceType
  <2>5. PICK g \in guilty : g \in from + 1 .. till
    BY <2>1, <2>3 DEF NeedBody
  <2> QED BY <1>6, <2>1, <2>4, <2>5
<1>8. ASSUME NEW answer \in Pred(Without), predRun(answer) PROVE NeedBody'
  <2>1. at = "piece" /\ from < till /\ NeedBody /\ Left = held
    BY <1>3, <1>8 DEF predRun, KeepsInv, KeepsWhatHeld
  <2>2. End \in Nat /\ from < End /\ End <= till
    BY <2>1, EndInside
  <2>3. CASE answer = "false"
    <3>1. ~(guilty \subseteq Without)
      BY <1>8, <2>3 DEF Pred
    <3>2. PICK g \in guilty : g \notin Without
      BY <3>1
    <3>3. g \in Left
      BY <2>1 DEF NeedBody
    <3>4. g \in from + 1 .. till /\ g \notin End + 1 .. till
      BY <3>2, <3>3 DEF Left, Without
    <3>5. g \in from + 1 .. End
      BY <3>4, <2>2 DEF SliceType
    <3>6. Keep
      BY <1>8, <2>3 DEF predRun
    <3> QED BY <1>6, <2>1, <3>5, <3>6
  <2>4. CASE answer = "true"
    <3>1. guilty \subseteq Without
      BY <1>8, <2>4 DEF Pred
    <3>2. from' = End /\ held' = Without /\ UNCHANGED <<at, err, rest, newChunks, till, someNeeded, foundNeeded>>
      BY <1>8, <2>4 DEF predRun
    <3>3. guilty' \subseteq held'
      BY <1>1, <3>1, <3>2
    <3>4. ASSUME someNeeded, ~foundNeeded PROVE \E g \in guilty' : g \in from' + 1 .. till'
      <4>1. PICK g \in guilty : g \in from + 1 .. till
        BY <2>1, <3>4 DEF NeedBody
      <4>2. g \in End + 1 .. till
        BY <3>1, <4>1, Outside DEF Without
      <4> QED BY <1>1, <3>2, <4>1, <4>2
    <3> QED BY <1>2, <2>1, <3>2, <3>3, <3>4 DEF NeedBody
  <2>5. CASE answer = "error"
    BY <1>8, <2>5 DEF Pred
  <2> QED BY <1>8, <2>3, <2>4, <2>5 DEF predRun
<1>9. CASE EndChunk
  <2>1. at = "piece" /\ at' = "chunk" /\ UNCHANGED <<newChunks, rest, from, till, someNeeded, held>>
    BY <1>9 DEF EndChunk, passVars
  <2> QED BY <1>1, <1>2, <1>3, <2>1 DEF NeedBody
<1>10. CASE EndPass
  <2>1. at = "chunk" /\ rest = <<>> /\ held' = held /\ from = till /\ NeedBody
    BY <1>3, <1>10 DEF EndPass, KeepsInv
  <2>2. ~OutOfSteps
    BY DEF OutOfSteps
  <2>3. CASE at' = "done" /\ err' = (IF done THEN "none" ELSE "chunks") /\ UNCHANGED passVars
    <3>1. UNCHANGED <<newChunks, rest, from, till, someNeeded>>
      BY <2>3 DEF passVars
    <3>2. err' = "none" => \A i \in DOMAIN newChunks : newChunks[i].final
      BY <2>2, <2>3 DEF done
    <3> QED BY <1>1, <1>2, <2>1, <2>3, <3>1, <3>2 DEF NeedBody
  <2>4. CASE rest' = newChunks /\ newChunks' = <<>> /\ someNeeded' = TRUE /\ UNCHANGED at
    BY <1>1, <1>2, <2>1, <2>4 DEF NeedBody
  <2> QED BY <1>10, <2>3, <2>4, Zenon DEF EndPass
<1>11. CASE UNCHANGED vars
  <2>1. UNCHANGED <<at, err, newChunks, rest, from, till, someNeeded, foundNeeded, held>>
    BY <1>11 DEF vars, sliceVars, passVars
  <2> QED BY <1>1, <1>2, <1>3, <2>1 DEF NeedBody
<1> QED BY <1>4, <1>5, <1>7, <1>8, <1>9, <1>10, <1>11 DEF SliceNext, SliceStep

LEMMA NeedFinds ==
  ASSUME SliceType, KeepsInv, NeedInv
  PROVE  FindsTheNeeded
<1> SUFFICES ASSUME at = "done", err = "none", ~flaky, MaxSteps = 0
             PROVE  elements(newChunks) = guilty
  BY DEF FindsTheNeeded
<1>1. NeedBody /\ Left = held
  BY DEF NeedInv, KeepsInv, KeepsWhatHeld
<1>2. guilty \subseteq elements(newChunks)
  <2>1. rest = <<>> /\ from + 1 .. till = {}
    BY <1>1 DEF NeedBody, SliceType
  <2>2. elements(rest) = {}
    BY <2>1, ElementsEmpty
  <2> QED BY <1>1, <2>1, <2>2 DEF NeedBody, Left
<1>3. ASSUME NEW e \in elements(newChunks) PROVE e \in guilty
  <2>1. PICK i \in DOMAIN newChunks : e \in newChunks[i].lo + 1 .. newChunks[i].hi
    BY DEF elements
  <2>2. newChunks[i] \in Needed /\ newChunks[i].final
    BY <1>1 DEF NeedBody
  <2>3. PICK g \in guilty : g \in newChunks[i].lo + 1 .. newChunks[i].hi
    BY <2>2 DEF Needed, Within
  <2>4. newChunks[i].hi = newChunks[i].lo + 1 /\ newChunks[i].lo \in Nat
    BY <2>2 DEF Needed, ChunkSet
  <2>5. e = g
    BY <2>1, <2>3, <2>4
  <2> QED BY <2>5
<1> QED BY <1>2, <1>3

(* "Slice() finds a minimal subsequence of slice elements that still gives *)
(* Pred() == true" (slice.go:28): for every slice and every set of needed  *)
(* elements, a run without a limit of steps that ends without an error     *)
(* returns exactly the needed elements.                                    *)
THEOREM SliceFinds == SliceSpec => []FindsTheNeeded
<1> DEFINE Inv == SliceType /\ KeepsInv /\ OrderInv /\ NeedInv
<1>1. SliceInit => Inv
  BY TypeInit, KeepsInit, OrderInit, NeedInit
<1>2. Inv /\ [SliceNext]_vars => Inv'
  BY TypeStep, KeepsStep, OrderStep, NeedStep
<1>3. Inv => FindsTheNeeded
  BY NeedFinds
<1> QED BY <1>1, <1>2, <1>3, PTL DEF SliceSpec

-----------------------------------------------------------------------------
(* pkg/repro: the inductive invariant.                                     *)

SliceInv == SliceType /\ KeepsInv /\ OrderInv /\ NeedInv

(* ErrTooManyChunks is about the chunks that Slice ends with.              *)
TooMany == err = "chunks" => at = "done" /\ Len(newChunks) > MaxChunks

(* Slice runs during the bisection, which needs a log.                     *)
Bisecting ==
  /\ flaky \in BOOLEAN
  /\ IF flaky \/ n = 0 THEN guilty = {} ELSE guilty # {}
  /\ at # "off" <=> pc = "bisect"
  /\ at = "off" => Off
  /\ at # "off" => n > 0

Opts(o) == o = [sandbox |-> o.sandbox, on |-> o.on]

(* The report goes with the result from its first version on.              *)
Reported ==
  /\ res = [calls |-> res.calls, simple |-> res.simple, opts |-> res.opts]
  /\ Opts(res.opts) /\ Legal(res.opts) /\ simplify \in Nat \ {0}
  /\ pc \in {"single", "log", "bisect"} => CRepro = FALSE
  /\ pc \in {"calls", "args", "extractC", "simplifyProg"} => CRepro = FALSE /\ report = Syz(res)
  /\ pc = "simplifyC" => CRepro = TRUE /\ report = C(res)
  /\ pc \in {"rerun", "reproduced"} => report = IF CRepro THEN C(res) ELSE Syz(res)

(* What is known about the programs that are needed.                       *)
Traced ==
  ~flaky /\ n > 0 /\ MaxSteps = 0 =>
    /\ pc = "single" => \A i \in lastEntries : guilty \subseteq {i} => i \in todo
    /\ pc = "calls" => guilty \subseteq res.calls /\ res.calls \ todo \subseteq guilty
    /\ pc \in {"args", "extractC", "simplifyProg", "simplifyC", "rerun", "reproduced"} => res.calls = guilty
    /\ pc = "failed" => Cardinality(guilty) > MaxChunks

ReproInv == SliceInv /\ TooMany /\ Bisecting /\ Reported /\ Traced

-----------------------------------------------------------------------------
(* The part of Slice.                                                      *)

LEMMA SliceInvStep ==
  ASSUME SliceInv, [SliceNext]_vars
  PROVE  SliceInv'
BY TypeStep, KeepsStep, OrderStep, NeedStep DEF SliceInv

LEMMA TooManyStep ==
  ASSUME SliceInv, TooMany, [SliceNext]_vars
  PROVE  TooMany'
<1>1. CASE EndPass
  <2>1. CASE done \/ (MaxChunks > 0 /\ Len(newChunks) > MaxChunks)
    BY <1>1, <2>1 DEF EndPass, TooMany, passVars
  <2>2. CASE ~(done \/ (MaxChunks > 0 /\ Len(newChunks) > MaxChunks))
    BY <1>1, <2>2 DEF EndPass, TooMany
  <2> QED BY <2>1, <2>2
<1>2. CASE UNCHANGED vars
  BY <1>2 DEF TooMany, vars, sliceVars, passVars
<1>3. CASE SliceStart \/ NextChunk \/ KeepUntested \/ EndChunk \/ \E answer \in Pred(Without) : predRun(answer)
  <2>1. at # "done" /\ (err' = err \/ err' = "pred")
    BY <1>3, Zenon DEF SliceStart, NextChunk, KeepUntested, Keep, EndChunk, predRun
  <2> QED BY <2>1 DEF TooMany
<1> QED BY <1>1, <1>2, <1>3 DEF SliceNext, SliceStep

(* A step that leaves Slice alone.                                         *)
LEMMA SliceKept ==
  ASSUME ReproInv, UNCHANGED vars
  PROVE  /\ SliceInv' /\ TooMany' /\ lastEntries' = lastEntries
         /\ UNCHANGED <<n, guilty, flaky, at>>
         /\ pc # "bisect" /\ pc' # "bisect" => Bisecting'
<1>1. SliceInv' /\ TooMany'
  BY SliceInvStep, TooManyStep DEF ReproInv
<1>2. UNCHANGED <<n, guilty, flaky, at, err, rest, newChunks, from, till, size, someNeeded, foundNeeded, predRuns, held>>
  BY DEF vars, sliceVars, passVars
<1>3. ASSUME pc # "bisect", pc' # "bisect" PROVE Bisecting'
  BY <1>2, <1>3, Zenon DEF ReproInv, Bisecting, Off
<1> QED BY <1>1, <1>2, <1>3 DEF lastEntries

(* The bisection ends.                                                     *)
LEMMA SliceCleared ==
  ASSUME ReproInv, SliceOff, pc' # "bisect"
  PROVE  /\ SliceInv' /\ TooMany' /\ Bisecting' /\ lastEntries' = lastEntries
         /\ UNCHANGED <<n, guilty, flaky>>
<1>1. /\ at' = "off" /\ err' = "none" /\ rest' = <<>> /\ newChunks' = <<>> /\ from' = 0 /\ till' = 0 /\ size' = 1
      /\ someNeeded' = FALSE /\ foundNeeded' = FALSE /\ predRuns' = 0 /\ held' = {}
      /\ UNCHANGED <<n, guilty, flaky>>
  BY DEF SliceOff
<1>2. SliceType'
  BY <1>1 DEF ReproInv, SliceInv, SliceType
<1>3. KeepsInv'
  BY <1>1 DEF KeepsInv, KeepsWhatHeld
<1>4. OrderInv'
  BY <1>1 DEF OrderInv, Sorted
<1>5. NeedInv'
  BY <1>1 DEF NeedInv
<1>6. Bisecting'
  BY <1>1, Zenon DEF ReproInv, Bisecting, Off
<1>7. TooMany'
  BY <1>1 DEF TooMany
<1> QED BY <1>1, <1>2, <1>3, <1>4, <1>5, <1>6, <1>7 DEF SliceInv, lastEntries

LEMMA LogEnds ==
  ASSUME ReproInv, ~flaky, n > 0
  PROVE  guilty # {} /\ guilty \subseteq 1 .. n /\ n \in Nat
BY DEF ReproInv, Bisecting, SliceInv, SliceType

(* bisectProgs answers for an empty log what the predicate would.          *)
LEMMA BisectionStep ==
  ASSUME ReproInv, bisectProgs
  PROVE  SliceNext /\ at' # "off" /\ UNCHANGED <<n, guilty, flaky>>
<1>1. at # "off" /\ n > 0 /\ flaky \in BOOLEAN
  BY DEF ReproInv, Bisecting, bisectProgs
<1>2. SliceNext
  <2>1. CASE SliceStep
    BY <2>1 DEF SliceNext
  <2>2. ASSUME NEW answer \in IF Without = {} THEN {"false"} ELSE Pred(Without), predRun(answer)
        PROVE  answer \in Pred(Without)
    <3>1. CASE Without # {}
      BY <2>2, <3>1
    <3>2. CASE Without = {}
      <4>1. answer = "false"
        BY <2>2, <3>2
      <4>2. CASE flaky
        BY <4>1, <4>2 DEF Pred
      <4>3. CASE ~flaky
        <5>1. ~(guilty \subseteq Without)
          BY <1>1, <3>2, <4>3, LogEnds
        <5> QED BY <4>1, <4>3, <5>1 DEF Pred
      <4> QED BY <4>2, <4>3
    <3> QED BY <3>1, <3>2
  <2> QED BY <2>1, <2>2 DEF bisectProgs, SliceNext
<1>3. at' # "off" /\ UNCHANGED <<n, guilty, flaky>>
  BY <1>1, <1>2, Zenon DEF SliceNext, SliceStep, SliceStart, NextChunk, KeepUntested, Keep, predRun, EndChunk, EndPass, passVars
<1> QED BY <1>2, <1>3

(* ErrTooManyChunks: every chunk holds a needed element, and they are      *)
(* disjoint.                                                               *)
LEMMA MoreThanChunks ==
  ASSUME ReproInv, ~flaky, MaxSteps = 0, err = "chunks"
  PROVE  Cardinality(guilty) > MaxChunks
<1> DEFINE k == Len(newChunks)
           f == [i \in 1 .. k |-> CHOOSE g \in guilty : g \in Within(newChunks[i])]
<1>1. at = "done" /\ k > MaxChunks /\ SliceType /\ OrderInv
  BY DEF ReproInv, TooMany, SliceInv
<1>2. newChunks \in Seq(Needed) /\ newChunks \in Seq(ChunkSet)
  BY <1>1 DEF ReproInv, SliceInv, NeedInv, NeedBody, SliceType
<1>3. k \in Nat /\ DOMAIN newChunks = 1 .. k
  BY <1>2
<1>4. \A i \in 1 .. k : f[i] \in guilty /\ f[i] \in Within(newChunks[i])
  <2>1. \A i \in 1 .. k : newChunks[i] \in Needed
    BY <1>2, <1>3
  <2>2. \A i \in 1 .. k : \E g \in guilty : g \in Within(newChunks[i])
    BY <2>1 DEF Needed
  <2> QED BY <2>2
<1>5. ASSUME NEW i \in 1 .. k, NEW j \in 1 .. k, i < j PROVE f[i] # f[j]
  <2>1. newChunks[i].hi <= newChunks[j].lo
    BY <1>1, <1>3, <1>5 DEF OrderInv, Sorted
  <2>2. /\ newChunks[i].hi \in Nat /\ newChunks[j].lo \in Nat
        /\ newChunks[i].lo \in Nat /\ newChunks[j].hi \in Nat
    BY <1>2, <1>3 DEF ChunkSet
  <2> HIDE DEF f
  <2> QED BY <1>4, <2>1, <2>2 DEF Within
<1>6. f \in Injection(1 .. k, guilty)
  <2>1. f \in [1 .. k -> guilty]
    BY <1>4
  <2>2. \A i, j \in 1 .. k : f[i] = f[j] => i = j
    <3> HIDE DEF f, k
    <3> QED BY <1>3, <1>5
  <2> HIDE DEF f, k
  <2> QED BY <2>1, <2>2 DEF Injection, IsInjective
<1>7. IsFiniteSet(guilty)
  <2>1. IsFiniteSet(1 .. n)
    BY <1>1, FS_Interval DEF SliceType
  <2> QED BY <1>1, <2>1, FS_Subset, Zenon DEF SliceType
<1>8. k <= Cardinality(guilty) /\ Cardinality(guilty) \in Nat
  <2> HIDE DEF f, k
  <2>1. Cardinality(1 .. k) = k
    BY <1>3, FS_Interval
  <2>2. Cardinality(1 .. k) <= Cardinality(guilty)
    BY <1>6, <1>7, FS_Injection
  <2> QED BY <1>7, <2>1, <2>2, FS_CardinalityType
<1> QED BY <1>1, <1>3, <1>8, SliceAssumption

-----------------------------------------------------------------------------
(* The extraction of a program from the log.                               *)

LEMMA Stopped ==
  ASSUME ReproInv, Fail, SliceInv', TooMany', Bisecting'
  PROVE  ReproInv'
<1>1. pc' = "error" /\ UNCHANGED <<res, CRepro, simplify, report>>
  BY DEF Fail
<1>2. Reported'
  BY <1>1 DEF ReproInv, Reported
<1>3. Traced'
  BY <1>1 DEF Traced
<1> QED BY <1>2, <1>3 DEF ReproInv

(* The next timeout: nothing was found, and if the crash needs certain     *)
(* programs they are too many.                                             *)
LEMMA TimeoutOver ==
  ASSUME ReproInv, NextTimeout, pc \in {"single", "log", "bisect"}, UNCHANGED report,
         UNCHANGED <<n, guilty, flaky>>, lastEntries' = lastEntries,
         SliceInv', TooMany', pc' # "bisect" => Bisecting',
         ~flaky /\ n > 0 /\ MaxSteps = 0 => Cardinality(guilty) > MaxChunks
  PROVE  ReproInv'
<1>1. /\ UNCHANGED <<res, CRepro, simplify, report>>
      /\ (pc' = "single" /\ todo' = lastEntries) \/ pc' = "failed"
  BY DEF NextTimeout
<1>2. Reported'
  BY <1>1 DEF ReproInv, Reported
<1>3. Traced'
  BY <1>1 DEF Traced
<1> QED BY <1>1, <1>2, <1>3 DEF ReproInv

LEMMA ResultFound ==
  ASSUME ReproInv, NEW progs, Extracted(progs), pc \in {"single", "bisect"},
         UNCHANGED <<n, guilty, flaky>>,
         SliceInv', TooMany', pc' # "bisect" => Bisecting',
         ~flaky /\ n > 0 /\ MaxSteps = 0 => guilty \subseteq progs
  PROVE  ReproInv'
<1> DEFINE r == [NoResult EXCEPT !.calls = progs]
<1>1. res' = r /\ pc' = "calls" /\ todo' = progs /\ report' = Syz(res') /\ CRepro' = CRepro /\ simplify' = simplify
  BY DEF Extracted
<1>2. r = [calls |-> progs, simple |-> {}, opts |-> startOpts]
  BY DEF NoResult
<1>3. r = [calls |-> r.calls, simple |-> r.simple, opts |-> r.opts] /\ r.calls = progs /\ r.opts = startOpts
  BY <1>2
<1> HIDE DEF r
<1>4. Opts(r.opts) /\ Legal(r.opts)
  BY <1>3, ReproAssumption, StartOptsLegal DEF Opts
<1>5. CRepro = FALSE /\ simplify \in Nat \ {0}
  BY DEF ReproInv, Reported
<1>6. Reported'
  BY <1>1, <1>3, <1>4, <1>5 DEF Reported
<1>7. Traced'
  BY <1>1, <1>3 DEF Traced
<1> QED BY <1>1, <1>6, <1>7 DEF ReproInv

LEMMA SingleStep ==
  ASSUME ReproInv, extractProgSingle
  PROVE  ReproInv'
<1> DEFINE i == Max(todo)
<1>1. pc = "single" /\ UNCHANGED vars
  BY DEF extractProgSingle
<1>2. /\ SliceInv' /\ TooMany' /\ UNCHANGED <<n, guilty, flaky>>
      /\ pc' # "bisect" => Bisecting'
      /\ lastEntries' = lastEntries
  BY <1>1, SliceKept
<1>3. PICK end \in Ends({i}) :
          \/ end = "true" /\ Extracted({i})
          \/ end = "false" /\ todo' = todo \ {i} /\ UNCHANGED <<pc, timeout, res, CRepro, simplify, attempts, corrupted, report>>
          \/ end = "error" /\ Fail
  BY DEF extractProgSingle
<1>4. ~flaky => end = IF guilty \subseteq {i} THEN "true" ELSE "false"
  BY DEF Ends, Pred
<1> HIDE DEF i
<1>5. CASE end = "true" /\ Extracted({i})
  BY <1>1, <1>2, <1>4, <1>5, ResultFound
<1>6. CASE end = "error" /\ Fail
  <2>1. pc' # "bisect"
    BY <1>6 DEF Fail
  <2> QED BY <1>2, <1>6, <2>1, Stopped
<1>7. CASE end = "false" /\ todo' = todo \ {i} /\ UNCHANGED <<pc, timeout, res, CRepro, simplify, attempts, corrupted, report>>
  <2>1. Reported'
    BY <1>7 DEF ReproInv, Reported
  <2>2. Traced'
    <3> SUFFICES ASSUME ~flaky, n > 0, MaxSteps = 0, NEW j \in lastEntries, guilty \subseteq {j}
                 PROVE  j \in todo'
      BY <1>1, <1>2, <1>7 DEF Traced
    <3>1. j \in todo /\ j # i
      BY <1>1, <1>4, <1>7 DEF ReproInv, Traced
    <3> QED BY <1>7, <3>1
  <2> QED BY <1>1, <1>2, <1>7, <2>1, <2>2 DEF ReproInv
<1> QED BY <1>3, <1>5, <1>6, <1>7

LEMMA NoSingleStep ==
  ASSUME ReproInv, NoSingle
  PROVE  ReproInv'
<1>1. pc = "single" /\ todo = {} /\ UNCHANGED <<vars, report>>
  BY DEF NoSingle, NextTimeout
<1>2. /\ SliceInv' /\ TooMany' /\ UNCHANGED <<n, guilty, flaky>>
      /\ pc' # "bisect" => Bisecting'
      /\ lastEntries' = lastEntries
  BY <1>1, SliceKept
<1>3. CASE n = 1
  <2>1. NextTimeout
    BY <1>3 DEF NoSingle
  <2>2. ~(~flaky /\ MaxSteps = 0)
    <3> SUFFICES ASSUME ~flaky, MaxSteps = 0 PROVE FALSE
      OBVIOUS
    <3>1. guilty \subseteq {1}
      BY <1>3, LogEnds
    <3>2. 1 \in lastEntries
      BY <1>3 DEF lastEntries
    <3> QED BY <1>1, <1>3, <3>1, <3>2 DEF ReproInv, Traced
  <2> QED BY <1>1, <1>2, <2>1, <2>2, TimeoutOver
<1>4. CASE n # 1
  <2>1. pc' = "log" /\ UNCHANGED <<timeout, todo, res, CRepro, simplify, attempts, corrupted, report>>
    BY <1>4 DEF NoSingle
  <2>2. Reported'
    BY <1>1, <2>1 DEF ReproInv, Reported
  <2>3. Traced'
    BY <2>1 DEF Traced
  <2> QED BY <1>2, <2>1, <2>2, <2>3 DEF ReproInv
<1> QED BY <1>3, <1>4

(* The whole log crashes if the crash needs some of its programs.          *)
LEMMA LogStep ==
  ASSUME ReproInv, extractProgBisect
  PROVE  ReproInv'
<1>1. pc = "log" /\ n \in Nat /\ flaky \in BOOLEAN
  BY DEF extractProgBisect, ReproInv, SliceInv, SliceType, Bisecting
<1>2. PICK end \in Ends(1 .. n) :
       IF end = "true"
       THEN /\ SliceStart
            /\ pc' = "bisect" /\ report' = Log(1 .. n)
            /\ UNCHANGED <<timeout, todo, res, CRepro, simplify, attempts, corrupted>>
       ELSE NextTimeout /\ UNCHANGED <<vars, report>>
  BY DEF extractProgBisect
<1>3. CASE end = "true"
  <2>1. SliceStart /\ pc' = "bisect" /\ UNCHANGED <<res, CRepro, simplify>>
    BY <1>2, <1>3
  <2>2. SliceNext /\ at' = "chunk" /\ UNCHANGED <<n, guilty, flaky>>
    BY <2>1 DEF SliceNext, SliceStart
  <2>3. SliceInv' /\ TooMany'
    BY <2>2, SliceInvStep, TooManyStep DEF ReproInv
  <2>4. n > 0
    <3>1. 1 .. n # {}
      BY <1>3 DEF Ends
    <3> QED BY <1>1, <3>1
  <2>5. Bisecting'
    BY <2>1, <2>2, <2>4 DEF ReproInv, Bisecting
  <2>6. Reported'
    BY <1>1, <2>1 DEF ReproInv, Reported
  <2>7. Traced'
    BY <2>1 DEF Traced
  <2> QED BY <2>3, <2>5, <2>6, <2>7 DEF ReproInv
<1>4. CASE end # "true"
  <2>1. NextTimeout /\ UNCHANGED <<vars, report>>
    BY <1>2, <1>4
  <2>2. /\ SliceInv' /\ TooMany' /\ UNCHANGED <<n, guilty, flaky>>
        /\ pc' # "bisect" => Bisecting'
        /\ lastEntries' = lastEntries
    BY <1>1, <2>1, SliceKept
  <2>3. ~(~flaky /\ n > 0)
    <3> SUFFICES ASSUME ~flaky, n > 0 PROVE FALSE
      OBVIOUS
    <3>1. guilty \subseteq 1 .. n /\ 1 .. n # {}
      BY <1>1, LogEnds
    <3> QED BY <1>4, <3>1 DEF Ends, Pred
  <2> QED BY <1>1, <2>1, <2>2, <2>3, TimeoutOver
<1> QED BY <1>3, <1>4

LEMMA BisectStep ==
  ASSUME ReproInv, bisectProgs
  PROVE  ReproInv'
<1>1. pc = "bisect" /\ UNCHANGED <<pc, res, CRepro, simplify>>
  BY DEF bisectProgs
<1>2. SliceNext /\ at' # "off" /\ UNCHANGED <<n, guilty, flaky>>
  BY BisectionStep
<1>3. SliceInv' /\ TooMany'
  BY <1>2, SliceInvStep, TooManyStep DEF ReproInv
<1>4. Bisecting'
  BY <1>1, <1>2 DEF ReproInv, Bisecting
<1>5. Reported'
  BY <1>1 DEF ReproInv, Reported
<1>6. Traced'
  BY <1>1 DEF Traced
<1> QED BY <1>3, <1>4, <1>5, <1>6 DEF ReproInv

LEMMA ConcatenateStep ==
  ASSUME ReproInv, Concatenate
  PROVE  ReproInv'
<1> DEFINE E == elements(newChunks)
<1>1. pc = "bisect" /\ at = "done" /\ SliceOff /\ pc' # "bisect"
  BY DEF Concatenate, Fail, NextTimeout, Extracted
<1>2. /\ SliceInv' /\ TooMany' /\ Bisecting' /\ lastEntries' = lastEntries
      /\ UNCHANGED <<n, guilty, flaky>>
  BY <1>1, SliceCleared
<1>3. n > 0 /\ err \in {"none", "pred", "chunks"}
  BY <1>1 DEF ReproInv, Bisecting, SliceInv, SliceType
<1>4. err = "none" /\ ~flaky /\ MaxSteps = 0 => E = guilty /\ E # {} /\ Ends(E) = {"true"}
  <2> SUFFICES ASSUME err = "none", ~flaky, MaxSteps = 0
               PROVE  E = guilty /\ E # {} /\ Ends(E) = {"true"}
    OBVIOUS
  <2>1. E = guilty
    BY <1>1, NeedFinds DEF ReproInv, SliceInv, FindsTheNeeded
  <2>2. guilty # {}
    BY <1>3, LogEnds
  <2> HIDE DEF E
  <2> QED BY <2>1, <2>2 DEF Ends, Pred
<1>5. /\ \/ err = "pred" /\ Fail
         \/ (err = "chunks" \/ E = {}) /\ NextTimeout /\ UNCHANGED report /\ err # "pred"
         \/ err = "none" /\ \E end \in Ends(E) : 
            \/ end = "true" /\ Extracted(E)
            \/ end = "false" /\ NextTimeout /\ UNCHANGED report
            \/ end = "error" /\ Fail
  BY <1>3 DEF Concatenate
<1> HIDE DEF E
<1>6. CASE Fail
  BY <1>2, <1>6, Stopped
<1>7. CASE NextTimeout /\ UNCHANGED report /\ (err = "chunks" \/ (err = "none" /\ ~(~flaky /\ MaxSteps = 0)))
  BY <1>1, <1>2, <1>7, MoreThanChunks, TimeoutOver
<1>8. CASE err = "none" /\ Extracted(E)
  BY <1>1, <1>2, <1>4, <1>8, ResultFound
<1>9. \/ Fail
      \/ NextTimeout /\ UNCHANGED report /\ (err = "chunks" \/ (err = "none" /\ ~(~flaky /\ MaxSteps = 0)))
      \/ err = "none" /\ Extracted(E)
  <2>1. CASE err = "none" /\ ~flaky /\ MaxSteps = 0
    BY <1>4, <1>5, <2>1
  <2>2. CASE ~(err = "none" /\ ~flaky /\ MaxSteps = 0)
    BY <1>3, <1>5, <2>2
  <2> QED BY <2>1, <2>2
<1> QED BY <1>6, <1>7, <1>8, <1>9

-----------------------------------------------------------------------------
(* The result gets simpler.                                                *)

(* The result is not changed by a step after the extraction, unless it     *)
(* crashes the kernel in its new form.                                     *)
Later == {"calls", "args", "extractC", "simplifyProg", "simplifyC", "rerun"}

LEMMA LaterStep ==
  ASSUME ReproInv, UNCHANGED vars, pc \in Later, pc' # "bisect", Reported', Traced'
  PROVE  ReproInv'
<1>1. pc # "bisect"
  BY DEF Later
<1> QED BY <1>1, SliceKept DEF ReproInv

LEMMA CallsStep ==
  ASSUME ReproInv, removeCalls
  PROVE  ReproInv'
<1> DEFINE i == Max(todo)
           calls == res.calls \ {i}
           r == [res EXCEPT !.calls = calls]
<1>1. /\ pc = "calls" /\ todo' = todo \ {i} /\ UNCHANGED <<vars, pc, CRepro, simplify>>
      /\ \E end \in Pred(calls) : IF end = "true" THEN res' = r /\ report' = Syz(r) ELSE UNCHANGED <<res, report>>
  BY DEF removeCalls, Minimized
<1>2. UNCHANGED <<n, guilty, flaky>>
  BY <1>1 DEF vars
<1>3. /\ res = [calls |-> res.calls, simple |-> res.simple, opts |-> res.opts]
      /\ Opts(res.opts) /\ Legal(res.opts) /\ simplify \in Nat \ {0}
      /\ CRepro = FALSE /\ report = Syz(res)
  BY <1>1 DEF ReproInv, Reported
<1>4. /\ r = [calls |-> r.calls, simple |-> r.simple, opts |-> r.opts]
      /\ r.calls = calls /\ r.opts = res.opts
  BY <1>3
<1> HIDE DEF r, i
<1>5. Reported'
  <2>1. CASE res' = r /\ report' = Syz(r)
    BY <1>1, <1>3, <1>4, <2>1 DEF Reported
  <2>2. CASE UNCHANGED <<res, report>>
    BY <1>1, <2>2 DEF ReproInv, Reported
  <2> QED BY <1>1, <2>1, <2>2
<1>6. Traced'
  <2> SUFFICES ASSUME ~flaky, n > 0, MaxSteps = 0
               PROVE  guilty \subseteq res'.calls /\ res'.calls \ todo' \subseteq guilty
    BY <1>1, <1>2 DEF Traced
  <2>1. guilty \subseteq res.calls /\ res.calls \ todo \subseteq guilty
    BY <1>1 DEF ReproInv, Traced
  <2>2. CASE guilty \subseteq calls
    <3>1. res'.calls = calls
      BY <1>1, <1>4, <2>2 DEF Pred
    <3> QED BY <1>1, <2>1, <2>2, <3>1
  <2>3. CASE ~(guilty \subseteq calls)
    <3>1. res' = res
      BY <1>1, <2>3 DEF Pred
    <3> QED BY <1>1, <2>1, <2>3, <3>1
  <2> QED BY <2>2, <2>3
<1> QED BY <1>1, <1>5, <1>6, LaterStep DEF Later

LEMMA ArgsStep ==
  ASSUME ReproInv, minimizeArgs
  PROVE  ReproInv'
<1> DEFINE i == Min(todo)
           r == [res EXCEPT !.simple = res.simple \cup {i}]
<1>1. /\ pc = "args" /\ UNCHANGED <<vars, pc, CRepro, simplify>>
      /\ (res' = r /\ report' = Syz(r)) \/ UNCHANGED <<res, report>>
  BY DEF minimizeArgs, Minimized
<1>2. UNCHANGED <<n, guilty, flaky>>
  BY <1>1 DEF vars
<1>3. /\ res = [calls |-> res.calls, simple |-> res.simple, opts |-> res.opts]
      /\ Opts(res.opts) /\ Legal(res.opts) /\ simplify \in Nat \ {0}
      /\ CRepro = FALSE /\ report = Syz(res)
  BY <1>1 DEF ReproInv, Reported
<1>4. /\ r = [calls |-> r.calls, simple |-> r.simple, opts |-> r.opts]
      /\ r.calls = res.calls /\ r.opts = res.opts
  BY <1>3
<1> HIDE DEF r, i
<1>5. Reported'
  <2>1. CASE res' = r /\ report' = Syz(r)
    BY <1>1, <1>3, <1>4, <2>1 DEF Reported
  <2>2. CASE UNCHANGED <<res, report>>
    BY <1>1, <2>2 DEF ReproInv, Reported
  <2> QED BY <1>1, <2>1, <2>2
<1>6. Traced'
  <2>1. res'.calls = res.calls
    BY <1>1, <1>4
  <2> QED BY <1>1, <1>2, <2>1 DEF ReproInv, Traced
<1> QED BY <1>1, <1>5, <1>6, LaterStep DEF Later

LEMMA MinimizeStep ==
  ASSUME ReproInv, MinimizeNext
  PROVE  ReproInv'
<1>1. /\ todo = {} /\ UNCHANGED <<vars, res, CRepro, simplify, report>>
      /\ (pc = "calls" /\ pc' = "args") \/ (pc = "args" /\ pc' = "extractC")
  BY DEF MinimizeNext
<1>2. UNCHANGED <<n, guilty, flaky>>
  BY <1>1 DEF vars
<1>3. Reported'
  BY <1>1 DEF ReproInv, Reported
<1>4. Traced'
  <2> SUFFICES ASSUME ~flaky, n > 0, MaxSteps = 0
               PROVE  res.calls = guilty
    BY <1>1, <1>2 DEF Traced
  <2>1. CASE pc = "calls"
    BY <1>1, <2>1 DEF ReproInv, Traced
  <2>2. CASE pc = "args"
    BY <1>1, <2>2 DEF ReproInv, Traced
  <2> QED BY <1>1, <2>1, <2>2
<1> QED BY <1>1, <1>3, <1>4, LaterStep DEF Later

LEMMA ExtractCStep ==
  ASSUME ReproInv, extractC
  PROVE  ReproInv'
<1>1. /\ pc = "extractC" /\ UNCHANGED <<vars, res>>
      /\ \/ CRepro' = TRUE /\ pc' = "simplifyC" /\ simplify' = 1 /\ report' = C(res)
         \/ pc' = "simplifyProg" /\ UNCHANGED <<CRepro, simplify, report>>
         \/ pc' = "error" /\ UNCHANGED <<CRepro, simplify, report>>
  BY DEF extractC
<1>2. UNCHANGED <<n, guilty, flaky>>
  BY <1>1 DEF vars
<1>3. Reported'
  <2>1. CASE pc' = "simplifyC"
    BY <1>1, <2>1 DEF ReproInv, Reported
  <2>2. CASE pc' # "simplifyC"
    BY <1>1, <2>2 DEF ReproInv, Reported
  <2> QED BY <2>1, <2>2
<1>4. Traced'
  BY <1>1, <1>2 DEF ReproInv, Traced
<1> QED BY <1>1, <1>3, <1>4, LaterStep DEF Later

LEMMA SkipStep ==
  ASSUME ReproInv, Skip
  PROVE  ReproInv'
<1>1. /\ pc \in {"simplifyProg", "simplifyC"} /\ simplify' = simplify + 1
      /\ UNCHANGED <<vars, pc, res, CRepro, report>>
  BY DEF Skip, Simplifying
<1>2. UNCHANGED <<n, guilty, flaky>>
  BY <1>1 DEF vars
<1>3. Reported'
  BY <1>1 DEF ReproInv, Reported
<1>4. Traced'
  BY <1>1, <1>2 DEF ReproInv, Traced
<1> QED BY <1>1, <1>3, <1>4, LaterStep DEF Later

LEMMA RerunStep ==
  ASSUME ReproInv, Rerun
  PROVE  ReproInv'
<1>1. /\ pc \in {"simplifyProg", "simplifyC"} /\ pc' = "rerun"
      /\ UNCHANGED <<vars, res, CRepro, simplify, report>>
  BY DEF Rerun
<1>2. UNCHANGED <<n, guilty, flaky>>
  BY <1>1 DEF vars
<1>3. Reported'
  <2>1. CASE pc = "simplifyProg"
    BY <1>1, <2>1 DEF ReproInv, Reported
  <2>2. CASE pc = "simplifyC"
    BY <1>1, <2>2 DEF ReproInv, Reported
  <2> QED BY <1>1, <2>1, <2>2
<1>4. Traced'
  BY <1>1, <1>2 DEF ReproInv, Traced
<1> QED BY <1>1, <1>3, <1>4, LaterStep DEF Later

LEMMA RunAgainStep ==
  ASSUME ReproInv, RunAgain
  PROVE  ReproInv'
<1> DEFINE best == IF CRepro THEN C(res) ELSE Syz(res)
<1>1. /\ pc = "rerun" /\ pc' \in {"rerun", "error", "reproduced"}
      /\ UNCHANGED <<vars, res, CRepro, simplify>>
      /\ report' = report \/ report' = best
  BY DEF RunAgain
<1>2. UNCHANGED <<n, guilty, flaky>>
  BY <1>1 DEF vars
<1>3. report = best
  BY <1>1 DEF ReproInv, Reported
<1>4. best' = best
  BY <1>1 DEF C, Syz
<1>5. Reported'
  <2> HIDE DEF best
  <2>1. report' = best'
    BY <1>1, <1>3, <1>4
  <2> QED BY <1>1, <2>1 DEF ReproInv, Reported, best
<1>6. Traced'
  BY <1>1, <1>2 DEF ReproInv, Traced
<1> QED BY <1>1, <1>5, <1>6, LaterStep DEF Later

-----------------------------------------------------------------------------
(* The options.                                                            *)

LEMMA Dropped ==
  ASSUME NEW o, Opts(o), NEW flags
  PROVE  /\ Opts(Drop(o, flags))
         /\ Drop(o, flags).sandbox = o.sandbox /\ Drop(o, flags).on = o.on \ flags
BY DEF Drop, Opts

LEMMA Sandboxed ==
  ASSUME NEW o, Opts(o), NEW box
  PROVE  /\ Opts([o EXCEPT !.sandbox = box])
         /\ [o EXCEPT !.sandbox = box].sandbox = box
         /\ [o EXCEPT !.sandbox = box].on = o.on
BY DEF Opts

LEMMA NumberOfFlags == Len(OneFlag) = 16 /\ cSimplifies = 21
BY DEF OneFlag, cSimplifies

LEMMA SingleFlags ==
  ASSUME NEW i \in 1 .. 16
  PROVE  OneFlag[i] \notin {"Threaded", "Repeat"}
<1>1. \/ i = 1 \/ i = 2 \/ i = 3 \/ i = 4 \/ i = 5 \/ i = 6 \/ i = 7 \/ i = 8
      \/ i = 9 \/ i = 10 \/ i = 11 \/ i = 12 \/ i = 13 \/ i = 14 \/ i = 15 \/ i = 16
  OBVIOUS
<1> QED BY <1>1 DEF OneFlag

(* A simplification of legal options gives legal ones.                     *)
LEMMA StaysLegal ==
  ASSUME NEW o, Opts(o), Legal(o), NEW k \in 1 .. 21, NEW s \in Simplified(o, k)
  PROVE  Opts(s) /\ Legal(s)
<1>1. CASE k = 1
  <2>1. s = Drop(o, {"Threaded"}) /\ "Collide" \notin o.on
    BY <1>1 DEF Simplified
  <2>2. Opts(s) /\ s.sandbox = o.sandbox /\ s.on = o.on \ {"Threaded"}
    BY <2>1, Dropped
  <2> QED BY <2>1, <2>2, Zenon DEF Legal
<1>2. CASE k = 2
  <2>1. s = Drop(o, {"Repeat", "Cgroups", "NetReset", "Procs"})
    BY <1>2 DEF Simplified
  <2>2. Opts(s) /\ s.sandbox = o.sandbox /\ s.on = o.on \ {"Repeat", "Cgroups", "NetReset", "Procs"}
    BY <2>1, Dropped
  <2> QED BY <2>2, Zenon DEF Legal
<1>3. CASE k = 3
  <2>1. s = Drop(o, {"Procs"})
    BY <1>3 DEF Simplified
  <2>2. Opts(s) /\ s.sandbox = o.sandbox /\ s.on = o.on \ {"Procs"}
    BY <2>1, Dropped
  <2> QED BY <2>2, Zenon DEF Legal
<1>4. CASE k = 4
  <2>1. s = [o EXCEPT !.sandbox = "none"]
    BY <1>4 DEF Simplified
  <2>2. Opts(s) /\ s.sandbox = "none" /\ s.on = o.on
    BY <2>1, Sandboxed
  <2> QED BY <2>2, Zenon DEF Legal
<1>5. CASE k = 5
  <2> DEFINE d == Drop(o, SandboxFlags)
  <2>1. s = [d EXCEPT !.sandbox = ""]
    <3>1. k # 1 /\ k # 2 /\ k # 3 /\ k # 4
      BY <1>5
    <3>2. s \in IF o.sandbox # "" THEN {[d EXCEPT !.sandbox = ""]} ELSE {}
      BY <1>5, <3>1, Zenon DEF Simplified
    <3> HIDE DEF d
    <3> QED BY <3>2, Zenon
  <2>2. Opts(d) /\ d.on = o.on \ SandboxFlags
    BY Dropped
  <2> HIDE DEF d
  <2>3. Opts(s) /\ s.sandbox = "" /\ s.on = o.on \ SandboxFlags
    BY <2>1, <2>2, Sandboxed, Zenon
  <2> QED BY <2>3, Zenon DEF Legal, SandboxFlags
<1>6. CASE k > 5
  <2> DEFINE flag == OneFlag[k - 5]
  <2>1. k - 5 \in 1 .. 16
    BY <1>6
  <2>2. flag \notin {"Threaded", "Repeat"}
    BY <2>1, SingleFlags
  <2>3. /\ s = Drop(o, {flag})
        /\ flag = "UseTmpDir" => o.sandbox # "namespace" /\ "Cgroups" \notin o.on
    <3>1. k # 1 /\ k # 2 /\ k # 3 /\ k # 4 /\ k # 5
      BY <1>6
    <3>2. s \in IF \/ flag \notin o.on
                   \/ flag = "CloseFDs" /\ "Repeat" \in o.on
                   \/ flag = "UseTmpDir" /\ (o.sandbox = "namespace" \/ "Cgroups" \in o.on)
                THEN {} ELSE {Drop(o, {flag})}
      BY <3>1 DEF Simplified
    <3> HIDE DEF flag
    <3> QED BY <3>2
  <2> HIDE DEF flag
  <2>4. Opts(s) /\ s.sandbox = o.sandbox /\ s.on = o.on \ {flag}
    BY <2>3, Dropped
  <2> QED BY <2>2, <2>3, <2>4, Zenon DEF Legal
<1> QED BY <1>1, <1>2, <1>3, <1>4, <1>5, <1>6

LEMMA TestedOptions ==
  ASSUME ReproInv, Simplifying, NEW o \in ToTest
  PROVE  Opts(o) /\ Legal(o)
<1>1. Opts(res.opts) /\ Legal(res.opts) /\ simplify \in Nat \ {0}
  BY DEF ReproInv, Reported
<1>2. simplify \in 1 .. 21
  BY <1>1, NumberOfFlags DEF Simplifying, progSimplifies
<1> QED BY <1>1, <1>2, StaysLegal DEF ToTest

LEMMA OptionsStep ==
  ASSUME ReproInv, simplifyProg \/ simplifyC
  PROVE  ReproInv'
<1>1. /\ pc \in {"simplifyProg", "simplifyC"} /\ Simplifying /\ simplify' = simplify + 1
      /\ UNCHANGED <<vars, CRepro>>
  BY DEF simplifyProg, simplifyC
<1>2. UNCHANGED <<n, guilty, flaky>>
  BY <1>1 DEF vars
<1>3. /\ res = [calls |-> res.calls, simple |-> res.simple, opts |-> res.opts]
      /\ simplify \in Nat \ {0}
  BY DEF ReproInv, Reported
<1>4. PICK o \in ToTest :
        \/ /\ res' = [res EXCEPT !.opts = o]
           /\ \/ pc = "simplifyProg" /\ report' = Syz(res') /\ pc' = "extractC"
              \/ pc = "simplifyC" /\ report' = C(res') /\ pc' = pc
        \/ UNCHANGED <<res, report>> /\ pc' \in {pc, "error"}
  BY DEF simplifyProg, simplifyC
<1>5. CASE UNCHANGED <<res, report>> /\ pc' \in {pc, "error"}
  <2>1. Reported'
    BY <1>1, <1>5 DEF ReproInv, Reported
  <2>2. Traced'
    BY <1>1, <1>2, <1>5 DEF ReproInv, Traced
  <2>3. pc' # "bisect" /\ pc \in Later
    BY <1>1, <1>5 DEF Later
  <2> QED BY <1>1, <2>1, <2>2, <2>3, LaterStep
<1>6. CASE /\ res' = [res EXCEPT !.opts = o]
           /\ \/ pc = "simplifyProg" /\ report' = Syz(res') /\ pc' = "extractC"
              \/ pc = "simplifyC" /\ report' = C(res') /\ pc' = pc
  <2> DEFINE r == [res EXCEPT !.opts = o]
  <2>1. /\ r = [calls |-> r.calls, simple |-> r.simple, opts |-> r.opts]
        /\ r.calls = res.calls /\ r.opts = o
    BY <1>3
  <2>2. Opts(o) /\ Legal(o)
    BY <1>1, TestedOptions
  <2>3. res' = r
    BY <1>6
  <2> HIDE DEF r
  <2>4. Reported'
    <3>1. CASE pc = "simplifyProg"
      <4>1. CRepro = FALSE /\ report' = Syz(res') /\ pc' = "extractC"
        BY <1>6, <3>1 DEF ReproInv, Reported
      <4> QED BY <1>1, <1>3, <2>1, <2>2, <2>3, <4>1 DEF Reported
    <3>2. CASE pc = "simplifyC"
      <4>1. CRepro = TRUE /\ report' = C(res') /\ pc' = "simplifyC"
        BY <1>6, <3>2 DEF ReproInv, Reported
      <4> QED BY <1>1, <1>3, <2>1, <2>2, <2>3, <4>1 DEF Reported
    <3> QED BY <1>1, <3>1, <3>2
  <2>5. Traced'
    <3>1. res'.calls = res.calls
      BY <2>1, <2>3
    <3> QED BY <1>1, <1>2, <1>6, <3>1 DEF ReproInv, Traced
  <2>6. pc' # "bisect" /\ pc \in Later
    BY <1>1, <1>6 DEF Later
  <2> QED BY <1>1, <2>4, <2>5, <2>6, LaterStep
<1> QED BY <1>4, <1>5, <1>6

-----------------------------------------------------------------------------
(* The invariant holds.                                                    *)

LEMMA ReproInitInv == Init => ReproInv
<1> SUFFICES ASSUME Init PROVE ReproInv
  OBVIOUS
<1>1. /\ n \in Nat /\ guilty \in SUBSET (1 .. n) /\ flaky \in BOOLEAN /\ Off
      /\ IF flaky \/ n = 0 THEN guilty = {} ELSE guilty # {}
      /\ pc = "single" /\ todo = lastEntries
      /\ res = NoResult /\ CRepro = FALSE /\ simplify = 1
  BY ReproAssumption DEF Init
<1>2. SliceInv
  BY <1>1, TypeInit, KeepsInit, OrderInit, NeedInit DEF SliceInv, SliceInit
<1>3. TooMany /\ at = "off"
  BY <1>1 DEF TooMany, Off
<1>4. Bisecting
  BY <1>1, <1>3, Zenon DEF Bisecting
<1>5. Reported
  BY <1>1, ReproAssumption, StartOptsLegal DEF Reported, NoResult, Opts
<1>6. Traced
  BY <1>1 DEF Traced
<1> QED BY <1>2, <1>3, <1>4, <1>5, <1>6 DEF ReproInv

LEMMA ReproInvStep == ReproInv /\ [Next]_allVars => ReproInv'
<1> SUFFICES ASSUME ReproInv, [Next]_allVars PROVE ReproInv'
  OBVIOUS
<1>1. CASE UNCHANGED allVars
  <2>1. UNCHANGED <<vars, pc, todo, res, CRepro, simplify, report>>
    BY <1>1 DEF allVars, reproVars
  <2>2. SliceInv' /\ TooMany' /\ UNCHANGED <<n, guilty, flaky, at>> /\ lastEntries' = lastEntries
    BY <2>1, SliceKept
  <2>3. Bisecting'
    BY <2>1, Zenon DEF ReproInv, Bisecting, Off, vars, sliceVars, passVars
  <2>4. Reported'
    BY <2>1 DEF ReproInv, Reported
  <2>5. Traced'
    BY <2>1, <2>2 DEF ReproInv, Traced
  <2> QED BY <2>2, <2>3, <2>4, <2>5 DEF ReproInv
<1>2. CASE Next
  BY <1>1, <1>2, SingleStep, NoSingleStep, LogStep, BisectStep, ConcatenateStep, CallsStep, ArgsStep,
     MinimizeStep, ExtractCStep, SkipStep, OptionsStep, RerunStep, RunAgainStep DEF Next
<1> QED BY <1>1, <1>2

(* The inductive invariant of a reproduction: what Slice is doing, what is *)
(* known of the programs that the crash needs, and that the report is of a *)
(* run of the result as it stands.                                         *)
THEOREM ReproInvariant == Spec => []ReproInv
BY ReproInitInv, ReproInvStep, PTL DEF Spec

(* Whatever the tests answer and however often the result is made simpler  *)
(* or run again, the report that repro.Run returns is of a crash of the    *)
(* very program, and with the very options, that it returns.               *)
THEOREM ReportIsOfResult == Spec => []ReportOfResult
<1>1. ReproInv => ReportOfResult
  BY DEF ReproInv, Reported, ReportOfResult
<1> QED BY <1>1, ReproInvariant, PTL

(* If the crash needs certain programs of the log, the reproducer consists *)
(* of exactly these, for logs of any length and any bound on the chunks;   *)
(* there is none only if they are more than MaxChunks.  Slice is called    *)
(* without a bound on its steps (bisectProgs sets none).                   *)
THEOREM GuiltyAreFound ==
  ASSUME MaxSteps = 0
  PROVE  Spec => []GuiltyFound
<1>1. ReproInv => GuiltyFound
  BY DEF ReproInv, Traced, GuiltyFound
<1> QED BY <1>1, ReproInvariant, PTL

(* The options of every test are legal (opts.Check), if those at the start *)
(* are: progSimplifies and cSimplifies never clear an option that another  *)
(* one needs.                                                              *)
THEOREM OptionsStayLegal == Spec => []OptionsLegal
<1>1. ReproInv => OptionsLegal
  <2>1. ReproInv => Legal(res.opts)
    BY DEF ReproInv, Reported
  <2> QED BY <2>1, TestedOptions DEF OptionsLegal
<1> QED BY <1>1, ReproInvariant, PTL
=============================================================================
