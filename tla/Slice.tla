------------------------------- MODULE Slice --------------------------------
(***************************************************************************)
(* pkg/bisect/minimize: Slice removes elements of a slice as long as a     *)
(* predicate holds of what is left.  A chunk is always a contiguous part   *)
(* of the original slice: the elements lo + 1 .. hi.  A pass over the      *)
(* chunks (splitChunks) moves them from rest to newChunks; the sub-chunks  *)
(* of the one at hand that were not looked at yet are from + 1 .. till.    *)
(***************************************************************************)
EXTENDS Integers, Sequences

CONSTANTS MaxSteps, MaxChunks   \* 0: no limit

ASSUME SliceAssumption == MaxSteps \in Nat /\ MaxChunks \in Nat

VARIABLES
  n,              \* the number of elements
  guilty, flaky,  \* the predicate: it needs these elements, or answers anything
  at, err,
  rest, newChunks, from, till, size,
  someNeeded, foundNeeded,
  predRuns,
  held            \* auxiliary: the elements for which the predicate held last

passVars == <<rest, newChunks, from, till, size, someNeeded, foundNeeded>>
sliceVars == <<at, err, passVars, predRuns, held>>
vars == <<n, guilty, flaky, sliceVars>>

Chunk(lo, hi, final) == [lo |-> lo, hi |-> hi, final |-> final]
elements(chunks) == UNION {chunks[i].lo + 1 .. chunks[i].hi : i \in DOMAIN chunks}

(* What is left of the slice. *)
Left == elements(newChunks) \cup (from + 1 .. till) \cup elements(rest)

Pred(elems) ==
  IF flaky THEN {"true", "false", "error"} ELSE IF guilty \subseteq elems THEN {"true"} ELSE {"false"}

Off ==
  /\ at = "off" /\ err = "none"
  /\ rest = <<>> /\ newChunks = <<>> /\ from = 0 /\ till = 0 /\ size = 1
  /\ someNeeded = FALSE /\ foundNeeded = FALSE
  /\ predRuns = 0 /\ held = {}

(* Slice, for a slice of which the predicate holds. *)
SliceStart ==
  /\ at = "off" /\ at' = "chunk"
  /\ rest' = <<Chunk(0, n, FALSE)>> /\ held' = 1 .. n
  /\ UNCHANGED <<n, guilty, flaky, err, newChunks, from, till, size, someNeeded, foundNeeded, predRuns>>

-----------------------------------------------------------------------------
(* initialSplit: log2 of the size is compared with the number of steps. *)
initialSplit(elems) == IF MaxSteps > 0 /\ elems > 2 ^ MaxSteps THEN MaxSteps ELSE 3
splitInto(elems) == IF someNeeded THEN 2 ELSE initialSplit(elems)

(* splitChunk: the size of the sub-chunks; there is one if nothing is left. *)
chunkSize(elems, parts) == IF elems = 0 THEN 1 ELSE (elems + parts - 1) \div parts

(* Mutant: a chunk that cannot be split is not marked. *)
NextChunk_NeverFinal ==
  LET chunk == Head(rest)
      elems == chunk.hi - chunk.lo
      sz == chunkSize(elems, splitInto(elems))
  IN /\ at = "chunk" /\ rest # <<>>
     /\ rest' = Tail(rest)
     /\ IF someNeeded /\ 0 < elems /\ elems <= sz
        THEN newChunks' = Append(newChunks, chunk) /\ UNCHANGED <<at, from, till, size, foundNeeded>>
        ELSE /\ at' = "piece" /\ UNCHANGED newChunks
             /\ from' = chunk.lo /\ till' = chunk.hi /\ size' = sz /\ foundNeeded' = FALSE
     /\ UNCHANGED <<n, guilty, flaky, err, someNeeded, predRuns, held>>

(* The next chunk of a pass: it stays, or is split. *)
NextChunk ==
  LET chunk == Head(rest)
      elems == chunk.hi - chunk.lo
      sz == chunkSize(elems, splitInto(elems))
  IN /\ at = "chunk" /\ rest # <<>>
     /\ rest' = Tail(rest)
     /\ IF chunk.final \/ (someNeeded /\ 0 < elems /\ elems <= sz)
        THEN /\ newChunks' = Append(newChunks, Chunk(chunk.lo, chunk.hi, TRUE))
             /\ from' = chunk.hi /\ till' = chunk.hi
             /\ UNCHANGED <<at, size, foundNeeded>>
        ELSE /\ at' = "piece"
             /\ from' = chunk.lo /\ till' = chunk.hi /\ size' = sz /\ foundNeeded' = FALSE
             /\ UNCHANGED newChunks
     /\ UNCHANGED <<n, guilty, flaky, err, someNeeded, predRuns, held>>

(* A sub-chunk, and what is left without it. *)
End == IF from + size < till THEN from + size ELSE till
Without == elements(newChunks) \cup (End + 1 .. till) \cup elements(rest)

OutOfSteps == MaxSteps > 0 /\ predRuns >= MaxSteps

(* The last sub-chunk is needed if no other one was.  After MaxSteps runs  *)
(* the predicate counts as false.                                          *)
Tested == (End < till \/ foundNeeded \/ ~someNeeded) /\ ~OutOfSteps

Keep ==
  /\ newChunks' = Append(newChunks, Chunk(from, End, FALSE))
  /\ from' = End /\ foundNeeded' = TRUE
  /\ UNCHANGED <<n, guilty, flaky, at, err, rest, till, size, someNeeded, held>>

KeepUntested ==
  /\ at = "piece" /\ from < till /\ ~Tested
  /\ Keep
  /\ UNCHANGED predRuns

(* predRun, with the answer of the predicate. *)
predRun(answer) ==
  /\ at = "piece" /\ from < till /\ Tested
  /\ predRuns' = predRuns + 1
  /\ \/ answer = "false" /\ Keep
     \/ /\ answer = "true"
        /\ from' = End /\ held' = Without
        /\ UNCHANGED <<n, guilty, flaky, at, err, rest, newChunks, till, size, someNeeded, foundNeeded>>
     \/ /\ answer = "error"
        /\ at' = "done" /\ err' = "pred"
        /\ UNCHANGED <<n, guilty, flaky, passVars, held>>

EndChunk ==
  /\ at = "piece" /\ from = till /\ at' = "chunk"
  /\ UNCHANGED <<n, guilty, flaky, err, passVars, predRuns, held>>

(* The end of a pass: done, ErrTooManyChunks, or another one. *)
done == OutOfSteps \/ \A i \in DOMAIN newChunks : newChunks[i].final

(* Mutant: the limit is reached one chunk early. *)
EndPass_AtLimit ==
  /\ at = "chunk" /\ rest = <<>>
  /\ IF done \/ (MaxChunks > 0 /\ Len(newChunks) >= MaxChunks)
     THEN at' = "done" /\ err' = (IF done THEN "none" ELSE "chunks") /\ UNCHANGED passVars
     ELSE /\ rest' = newChunks /\ newChunks' = <<>> /\ from' = 0 /\ till' = 0 /\ someNeeded' = TRUE
          /\ UNCHANGED <<at, err, size, foundNeeded>>
  /\ UNCHANGED <<n, guilty, flaky, predRuns, held>>

EndPass ==
  /\ at = "chunk" /\ rest = <<>>
  /\ IF done \/ (MaxChunks > 0 /\ Len(newChunks) > MaxChunks)
     THEN /\ at' = "done" /\ err' = IF done THEN "none" ELSE "chunks"
          /\ UNCHANGED passVars
     ELSE /\ rest' = newChunks /\ newChunks' = <<>> /\ from' = 0 /\ till' = 0 /\ someNeeded' = TRUE
          /\ UNCHANGED <<at, err, size, foundNeeded>>
  /\ UNCHANGED <<n, guilty, flaky, predRuns, held>>

SliceStep ==
  \/ NextChunk \/ KeepUntested \/ EndChunk \/ EndPass

SliceInit == n \in Nat /\ guilty \in SUBSET (1 .. n) /\ flaky \in BOOLEAN /\ Off
SliceNext == SliceStart \/ SliceStep \/ \E answer \in Pred(Without) : predRun(answer)
SliceSpec == SliceInit /\ [][SliceNext]_vars

-----------------------------------------------------------------------------
(* Whatever the predicate answers, what is left is what it held of last:   *)
(* the result is a slice for which the predicate was true, also after too  *)
(* many steps or chunks.                                                   *)
KeepsWhatHeld == at # "off" => Left = held

(* "Slice() finds a minimal subsequence of slice elements that still gives *)
(* Pred() == true": if the predicate needs certain elements and the steps  *)
(* are not limited, the result is these elements.                          *)
FindsTheNeeded == at = "done" /\ err = "none" /\ ~flaky /\ MaxSteps = 0 => elements(newChunks) = guilty
=============================================================================
