-------------------------- MODULE LogBufferProofs --------------------------
(***************************************************************************)
(* Theorems about LogBuffer, for a ring of any size, any number of tasks   *)
(* that log and of lines that they log.                                    *)
(*                                                                         *)
(* The order of the ring is inductive once it is known what % does to the  *)
(* indexes that occur (AroundIs).  That a settled slot is whole rests on   *)
(* who owns the slots that are being filled (Kept), what a reader copies   *)
(* on that and on which lines can have claimed its slots since             *)
(* (AskedOrGone), and that a read is complete on the ring not shrinking    *)
(* between the two counts (Fitted).                                        *)
(***************************************************************************)
EXTENDS LogBuffer, TLAPS

\* There are no more slots in use than lines, and no line of the future.
Counted ==
  /\ Count <= lines
  /\ \A i \in Slots : claimed[i] <= lines

\* A slot that no reader sees belongs to a line that has left the ring.
GoneLinesAreOlder ==
  ~wrapped => \A i \in Slots : i >= head => claimed[i] <= lines - Count

\* A slot is being filled for the line that has claimed it last or for an older
\* one.  Where lines do not overlap, it has that line or one task, which nobody
\* disturbs.
Kept(i) ==
  /\ \A w \in FillersOf(i) : writer[w].line <= claimed[i]
  /\ i \notin overlapped =>
       /\ FillersOf(i) = {} => entry[i] = [line |-> claimed[i], whole |-> TRUE]
       /\ \A w \in FillersOf(i) :
            /\ FillersOf(i) = {w}
            /\ claimed[i] = writer[w].line
            /\ writer[w].at = "fill" => entry[i] = [line |-> writer[w].line, whole |-> FALSE]

Owned == \A i \in Slots : Kept(i)

\* What the handler fitted to its count still fits when the count is taken again.
Fitted ==
  /\ reader.at \notin {"copy", "copying", "respond"} => reader.copied = 0
  /\ reader.at = "read" => reader.want > 0 /\ reader.start + reader.want <= Count
  /\ reader.at \in {"copy", "copying"} =>
       /\ reader.take = reader.want /\ reader.copied < reader.take
       /\ reader.start >= 0 =>
            reader.base \in Slots /\ reader.take <= Capacity /\ reader.asked \in Nat

\* The slots still to be copied are those of the lines asked for, or they have
\* been claimed by later ones and the lines have left the ring.
AskedOrGone ==
  reader.at \in {"copy", "copying"} /\ reader.start >= 0 =>
    \A i \in reader.copied..reader.take - 1 :
      LET line == reader.asked + i
          found == claimed[Around(reader.base + i)]
      IN found = line \/ (found > line /\ line <= lines - Count)

\* What a reader relies on.
ReadInv == Fitted /\ AskedOrGone /\ ReadsWhatWasAsked /\ ReadIsComplete

LogInv ==
  TypeOK /\ Counted /\ RingInOrder /\ GoneLinesAreOlder /\ Owned /\ ReadInv
-----------------------------------------------------------------------------
(* The ring's arithmetic *)

\* The index of an entry is less than a whole ring away from its first.
LEMMA AroundIsNear ==
  ASSUME NEW i \in Int
  PROVE  Around(i) \in 1 - Capacity..Capacity - 1
<1>1. CASE i >= 0  BY <1>1, CapacityAssumption DEF Around
<1>2. CASE ~(i >= 0)
  <2>1. -i \in Nat  BY <1>2
  <2>2. (-i) % Capacity \in 0..Capacity - 1  BY <2>1, CapacityAssumption
  <2> QED BY <1>2, <2>2, CapacityAssumption DEF Around
<1> QED BY <1>1, <1>2

\* No other index that the code takes around the ring is more than once around it.
LEMMA AroundIs ==
  ASSUME NEW i \in 0..2 * Capacity - 1
  PROVE  Around(i) = IF i < Capacity THEN i ELSE i - Capacity
<1>1. CASE i < Capacity  BY <1>1, CapacityAssumption DEF Around
<1>2. CASE i >= Capacity  BY <1>2, CapacityAssumption DEF Around
<1> QED BY <1>1, <1>2, CapacityAssumption

LEMMA AroundIsSlot ==
  ASSUME NEW i \in 0..2 * Capacity - 1
  PROVE  Around(i) \in Slots
  BY AroundIs, CapacityAssumption DEF Slots

\* Going on from an index that was taken around is going on from the index.
LEMMA AroundTwice ==
  ASSUME NEW i \in 0..2 * Capacity - 1, NEW j \in Nat, i + j < 2 * Capacity
  PROVE  Around(Around(i) + j) = Around(i + j)
<1>1. CASE i < Capacity
  BY <1>1, AroundIs, CapacityAssumption
<1>2. CASE i >= Capacity
  <2>1. Around(i) = i - Capacity  BY <1>2, AroundIs, CapacityAssumption
  <2>2. i - Capacity + j \in 0..2 * Capacity - 1 /\ i - Capacity + j < Capacity
    BY <1>2, CapacityAssumption
  <2>3. Around(i - Capacity + j) = i - Capacity + j
    BY <2>2, AroundIs
  <2>4. i + j \in 0..2 * Capacity - 1 /\ ~(i + j < Capacity)
    BY <1>2, CapacityAssumption
  <2>5. Around(i + j) = i + j - Capacity
    BY <2>4, AroundIs, CapacityAssumption
  <2> QED BY <2>1, <2>3, <2>5, CapacityAssumption
<1> QED BY <1>1, <1>2, CapacityAssumption

LEMMA Sizes ==
  ASSUME TypeOK
  PROVE  /\ Capacity \in Nat /\ Capacity > 0 /\ MaxLines \in Nat
         /\ head \in Nat /\ head < Capacity
         /\ Count \in Nat /\ Count <= Capacity
         /\ Oldest \in Nat /\ Oldest < Capacity
         /\ lines \in Nat
<1>1. head \in 0..Capacity - 1 /\ lines \in 0..MaxLines /\ wrapped \in BOOLEAN
  BY DEF TypeOK, Slots, Lines
<1> QED BY <1>1, CapacityAssumption, MaxLinesAssumption DEF Count, Oldest
-----------------------------------------------------------------------------
(* Claiming a slot *)

\* The ring before and after a line claims the slot at head.
LEMMA ClaimMoves ==
  ASSUME TypeOK, NEW w \in Writers, Claim(w)
  PROVE  /\ head' \in Slots /\ wrapped' \in BOOLEAN
         /\ Count' = IF Count < Capacity THEN Count + 1 ELSE Capacity
         /\ Oldest' = IF wrapped THEN Around(head + 1) ELSE 0
         /\ ~wrapped => Count = head /\ Oldest = 0
         /\ wrapped => Count = Capacity /\ Oldest = head
<1>1. head \in 0..Capacity - 1 /\ wrapped \in BOOLEAN  BY DEF TypeOK, Slots
<1>2. head + 1 \in 0..2 * Capacity - 1  BY <1>1, CapacityAssumption
<1>3. Around(head + 1) = IF head + 1 < Capacity THEN head + 1 ELSE 0
  BY <1>1, <1>2, AroundIs, CapacityAssumption
<1>4. head' = Around(head + 1) /\ (wrapped' <=> wrapped \/ Around(head + 1) = 0)
  BY DEF Claim, Lapped, NextSlot
<1>5. head' \in Slots  BY <1>2, <1>4, AroundIsSlot
<1>6. wrapped' \in BOOLEAN  BY DEF Claim, Lapped, NextSlot
<1>7. ~wrapped => Count = head /\ Oldest = 0  BY DEF Count, Oldest
<1>8. wrapped => Count = Capacity /\ Oldest = head  BY DEF Count, Oldest
<1>9. Count' = IF wrapped' THEN Capacity ELSE head'  BY DEF Count
<1>10. Oldest' = IF wrapped' THEN head' ELSE 0  BY DEF Oldest
<1>11. CASE wrapped
  <2>1. wrapped'  BY <1>4, <1>11
  <2> QED BY <1>1, <1>4, <1>5, <1>6, <1>8, <1>9, <1>10, <1>11, <2>1, CapacityAssumption
<1>12. CASE ~wrapped /\ head + 1 < Capacity
  <2>1. ~wrapped'  BY <1>1, <1>3, <1>4, <1>12
  <2> QED BY <1>1, <1>3, <1>4, <1>5, <1>6, <1>7, <1>9, <1>10, <1>12, <2>1, CapacityAssumption
<1>13. CASE ~wrapped /\ ~(head + 1 < Capacity)
  <2>1. wrapped' /\ head' = 0  BY <1>1, <1>3, <1>4, <1>13
  <2> QED BY <1>1, <1>5, <1>6, <1>7, <1>9, <1>10, <1>13, <2>1, CapacityAssumption
<1> QED BY <1>11, <1>12, <1>13

\* The claimed slot comes last; the oldest line leaves a ring that was full.
LEMMA ClaimKeepsOrder ==
  ASSUME TypeOK, RingInOrder, NEW w \in Writers, Claim(w)
  PROVE  RingInOrder'
<1> DEFINE N == IF Count < Capacity THEN Count + 1 ELSE Capacity
           First == IF wrapped THEN Around(head + 1) ELSE 0
<1>1. /\ Count' = N /\ Oldest' = First
      /\ ~wrapped => Count = head /\ Oldest = 0
      /\ wrapped => Count = Capacity /\ Oldest = head
  BY ClaimMoves
<1> HIDE DEF N, First
<1>2. lines' = lines + 1 /\ claimed' = [claimed EXCEPT ![head] = lines + 1]
  BY DEF Claim
<1>3. claimed \in [Slots -> Lines] /\ head \in Slots  BY DEF TypeOK
<1>4. SUFFICES ASSUME NEW i \in 0..Count' - 1
               PROVE  claimed'[Around(Oldest' + i)] = lines' - Count' + 1 + i
  BY Zenon DEF RingInOrder, Around
<1>5. N \in Nat /\ i \in Nat /\ i < N /\ N <= Capacity
  BY <1>1, Sizes DEF N
<1> SUFFICES claimed'[Around(First + i)] = lines + 1 - N + 1 + i
  <2>1. Oldest' + i = First + i  BY <1>1
  <2>2. Around(Oldest' + i) = Around(First + i)  BY <2>1
  <2>3. lines' - Count' + 1 + i = lines + 1 - N + 1 + i  BY <1>1, <1>2, <1>5, Sizes
  <2> QED BY <2>2, <2>3
<1>6. CASE wrapped
  <2>1. Around(First + i) = Around(head + 1 + i)
    <3>1. head + 1 \in 0..2 * Capacity - 1 /\ head + 1 + i < 2 * Capacity
      BY <1>5, Sizes
    <3> QED BY <1>5, <1>6, <3>1, AroundTwice DEF First
  <2>2. N = Capacity /\ Count = Capacity /\ Oldest = head
    BY <1>1, <1>6, Sizes DEF N
  <2>3. CASE i = Capacity - 1
    <3>1. head + 1 + i \in 0..2 * Capacity - 1 /\ ~(head + 1 + i < Capacity)
      BY <2>3, Sizes
    <3>2. Around(head + 1 + i) = head  BY <2>3, <3>1, AroundIs, Sizes
    <3> QED BY <1>2, <1>3, <2>1, <2>2, <2>3, <3>2, Sizes
  <2>4. CASE i < Capacity - 1
    <3>1. claimed[Around(head + (i + 1))] = lines - Capacity + 1 + (i + 1)
      <4>1. i + 1 \in 0..Count - 1  BY <1>5, <2>2, <2>4, Sizes
      <4> QED BY <2>2, <4>1 DEF RingInOrder
    <3>2. head + 1 + i \in 0..2 * Capacity - 1  BY <1>5, Sizes
    <3>3. Around(head + 1 + i) # head /\ Around(head + 1 + i) \in Slots
      BY <1>5, <2>4, <3>2, AroundIs, AroundIsSlot, Sizes
    <3>4. head + (i + 1) = head + 1 + i  BY <1>5, Sizes
    <3> QED BY <1>2, <1>3, <1>5, <2>1, <2>2, <3>1, <3>3, <3>4, Sizes
  <2> QED BY <1>5, <2>2, <2>3, <2>4, Sizes
<1>7. CASE ~wrapped
  <2>1. N = head + 1 /\ Count = head /\ Oldest = 0 /\ First = 0
    BY <1>1, <1>7, Sizes DEF N, First
  <2>2. Around(First + i) = i /\ i \in Slots
    <3>1. 0 + i \in 0..2 * Capacity - 1 /\ 0 + i < Capacity /\ 0 + i = i
      BY <1>5, Sizes
    <3> QED BY <2>1, <3>1, AroundIs, Sizes DEF Slots
  <2>3. CASE i = head
    BY <1>2, <1>3, <2>1, <2>2, <2>3, Sizes
  <2>4. CASE i < head
    <3>1. i \in 0..Count - 1  BY <1>5, <2>1, <2>4, Sizes
    <3>2. claimed[Around(Oldest + i)] = lines - Count + 1 + i
      BY <3>1 DEF RingInOrder
    <3>3. Around(Oldest + i) = i  BY <2>1, <2>2
    <3> QED BY <1>2, <1>3, <1>5, <2>1, <2>2, <2>4, <3>2, <3>3, Sizes
  <2> QED BY <1>5, <2>1, <2>3, <2>4, Sizes
<1> QED BY <1>6, <1>7

\* The line whose slot is claimed leaves the ring, or has left it; no line
\* that has left the ring comes back.
LEMMA ClaimEndsALine ==
  ASSUME TypeOK, Counted, RingInOrder, GoneLinesAreOlder, NEW w \in Writers, Claim(w)
  PROVE  /\ claimed[head] <= lines' - Count'
         /\ lines - Count <= lines' - Count'
         /\ lines - Count \in Nat /\ lines' - Count' \in Nat
         /\ GoneLinesAreOlder'
<1>1. /\ head' \in Slots /\ wrapped' \in BOOLEAN
      /\ Count' = IF Count < Capacity THEN Count + 1 ELSE Capacity
      /\ ~wrapped => Count = head
      /\ wrapped => Count = Capacity /\ Oldest = head
  BY ClaimMoves
<1>2. lines' = lines + 1 /\ claimed' = [claimed EXCEPT ![head] = lines + 1]
  BY DEF Claim
<1>3. lines \in Nat /\ Count \in Nat /\ Count <= lines /\ Count <= Capacity
      /\ head \in Slots /\ head \in Nat /\ head < Capacity /\ Capacity \in Nat
      /\ \A i \in Slots : claimed[i] \in Nat
  BY Sizes DEF Counted, TypeOK, Lines
<1>4. lines - Count \in Nat /\ lines' - Count' \in Nat /\ lines - Count <= lines' - Count'
  BY <1>1, <1>2, <1>3
<1>5. claimed[head] <= lines' - Count'
  <2>1. CASE wrapped
    <3>1. Count = Capacity /\ Oldest = head  BY <1>1, <2>1
    <3>2. claimed[Around(Oldest + 0)] = lines - Count + 1 + 0
      <4>1. 0 \in 0..Count - 1  BY <1>3, <3>1, Sizes
      <4> QED BY <4>1 DEF RingInOrder
    <3>3. Around(Oldest + 0) = head
      <4>1. head + 0 \in 0..2 * Capacity - 1 /\ head + 0 < Capacity /\ head + 0 = head
        BY <1>3
      <4> QED BY <3>1, <4>1, AroundIs
    <3> QED BY <1>1, <1>2, <1>3, <3>1, <3>2, <3>3
  <2>2. CASE ~wrapped
    BY <1>1, <1>2, <1>3, <1>4, <2>2 DEF GoneLinesAreOlder
  <2> QED BY <2>1, <2>2
<1>6. GoneLinesAreOlder'
  <2> SUFFICES ASSUME ~wrapped', NEW i \in Slots, i >= head'
               PROVE  claimed'[i] <= lines' - Count'
    BY DEF GoneLinesAreOlder
  <2>1. ~wrapped /\ head' = head + 1
    <3>1. ~wrapped /\ head' = Around(head + 1) /\ Around(head + 1) # 0
      BY DEF Claim, Lapped, NextSlot
    <3>2. head + 1 \in 0..2 * Capacity - 1  BY <1>3
    <3> QED BY <1>3, <3>1, <3>2, AroundIs
  <2>2. i # head /\ i >= head  BY <1>3, <2>1 DEF Slots
  <2>3. claimed'[i] = claimed[i]  BY <1>2, <1>3, <2>2 DEF TypeOK
  <2>4. claimed[i] <= lines - Count  BY <2>1, <2>2 DEF GoneLinesAreOlder
  <2> QED BY <1>3, <1>4, <2>3, <2>4
<1> QED BY <1>4, <1>5, <1>6

Writer == [at: {"idle", "claimed", "fill", "append"},
           slot: Slots, line: Lines, seen: Contents]

LEMMA NoLineIsContents == NoLine \in Contents /\ 0 \in Lines /\ 0 \in Slots
  BY CapacityAssumption, MaxLinesAssumption DEF NoLine, Contents, Lines, Slots

\* A claim adds one line to the newest end, and to nothing else.
LEMMA ClaimKeepsTypeOK ==
  ASSUME TypeOK, Counted, NEW w \in Writers, Claim(w)
  PROVE  TypeOK' /\ Counted'
<1>1. head' \in Slots /\ wrapped' \in BOOLEAN
      /\ Count' = IF Count < Capacity THEN Count + 1 ELSE Capacity
  BY ClaimMoves
<1>2. lines + 1 \in Lines /\ lines \in Nat
  BY MaxLinesAssumption DEF TypeOK, Lines, Claim
<1>3. head \in Slots  BY DEF TypeOK
<1>4. writer' \in [Writers -> Writer]
  <2>1. [at |-> "claimed", slot |-> head, line |-> lines + 1, seen |-> NoLine] \in Writer
    BY <1>2, <1>3, NoLineIsContents DEF Writer
  <2> QED BY <2>1 DEF TypeOK, Claim, Writer
<1>5. claimed' = [claimed EXCEPT ![head] = lines + 1] /\ lines' = lines + 1
  BY DEF Claim
<1>6. claimed' \in [Slots -> Lines]  BY <1>2, <1>5 DEF TypeOK
<1>7. overlapped' \subseteq Slots
  <2>1. overlapped' = overlapped \ {head} \/ overlapped' = overlapped \cup {head}
    BY DEF Claim
  <2> QED BY <1>3, <2>1 DEF TypeOK
<1>8. TypeOK'
  <2>1. UNCHANGED <<entry, reader, out, unsettled>>  BY DEF Claim, reading
  <2> QED BY <1>1, <1>2, <1>4, <1>5, <1>6, <1>7, <2>1 DEF TypeOK, Writer
<1>9. Counted'
  <2>1. Count' <= lines'  BY <1>1, <1>2, <1>5, Sizes DEF Counted
  <2>2. ASSUME NEW i \in Slots PROVE claimed'[i] <= lines'
    <3>1. claimed[i] <= lines /\ claimed[i] \in Nat
      BY DEF Counted, TypeOK, Lines
    <3> QED BY <1>2, <1>5, <3>1 DEF TypeOK
  <2> QED BY <2>1, <2>2 DEF Counted
<1> QED BY <1>8, <1>9

\* What happens elsewhere leaves a slot as it was.
LEMMA KeptStays ==
  ASSUME NEW i \in Slots, Kept(i), FillersOf(i)' = FillersOf(i),
         \A w \in FillersOf(i) : writer'[w] = writer[w],
         entry'[i] = entry[i], claimed'[i] = claimed[i],
         i \in overlapped => i \in overlapped'
  PROVE  Kept(i)'
<1> DEFINE F == FillersOf(i)
<1>1. FillersOf(i)' = F  OBVIOUS
<1> HIDE DEF F
<1>2. \A w \in F : writer'[w].line = writer[w].line /\ writer'[w].at = writer[w].at
  BY DEF F
<1> QED BY <1>1, <1>2 DEF Kept, F

\* The slot that is claimed has one task, which has not begun to fill it, unless
\* another one is still at it; the other slots keep theirs.
LEMMA ClaimKeepsOwned ==
  ASSUME TypeOK, Counted, Owned, NEW w \in Writers, Claim(w)
  PROVE  Owned'
<1>1. /\ overlapped' = IF FillersOf(head) = {} THEN overlapped \ {head}
                                               ELSE overlapped \cup {head}
      /\ entry' = entry /\ writer[w].at = "idle" /\ head \in Slots
      /\ lines \in Nat /\ \A i \in Slots : claimed[i] <= lines /\ claimed[i] \in Nat
  BY DEF Claim, TypeOK, Lines, Counted
<1>2. writer'[w] = [at |-> "claimed", slot |-> head, line |-> lines + 1, seen |-> NoLine]
      /\ \A v \in Writers \ {w} : writer'[v] = writer[v]
  BY DEF TypeOK, Claim
<1>3. claimed'[head] = lines + 1 /\ \A i \in Slots \ {head} : claimed'[i] = claimed[i]
  BY DEF TypeOK, Claim
<1> SUFFICES ASSUME NEW i \in Slots PROVE Kept(i)'  BY DEF Owned
<1>4. FillersOf(i)' = IF i = head THEN FillersOf(i) \cup {w} ELSE FillersOf(i)
  BY <1>1, <1>2 DEF FillersOf
<1>5. Kept(i) /\ w \notin FillersOf(i) /\ FillersOf(i) \subseteq Writers
  BY <1>1 DEF Owned, FillersOf
<1>6. CASE i = head
  <2>1. \A v \in FillersOf(i)' : writer'[v].line <= claimed'[i]
    <3>1. \A v \in FillersOf(i) : writer[v].line \in Nat /\ writer'[v] = writer[v]
      BY <1>2, <1>5 DEF TypeOK, Lines
    <3>2. \A v \in FillersOf(i) : writer[v].line <= lines + 1
      BY <1>1, <1>5, <3>1 DEF Kept
    <3>3. writer'[w].line = lines + 1 /\ claimed'[i] = lines + 1  BY <1>2, <1>3, <1>6
    <3> QED BY <1>1, <1>4, <1>6, <3>1, <3>2, <3>3
  <2>2. i \notin overlapped' => FillersOf(i)' = {w}  BY <1>1, <1>4, <1>6
  <2>3. claimed'[i] = writer'[w].line /\ writer'[w].at # "fill"  BY <1>2, <1>3, <1>6
  <2> QED BY <2>1, <2>2, <2>3 DEF Kept
<1>7. CASE i # head
  <2>1. \A v \in FillersOf(i) : writer'[v] = writer[v]  BY <1>2, <1>5
  <2>2. i \in overlapped => i \in overlapped'  BY <1>1, <1>7
  <2> QED BY <1>1, <1>3, <1>4, <1>5, <1>7, <2>1, <2>2, KeptStays
<1> QED BY <1>6, <1>7

\* A reader that is copying slots sees in them newer lines at most, and no line
\* that has left the ring comes back.
LEMMA ClaimKeepsReads ==
  ASSUME TypeOK, Counted, RingInOrder, GoneLinesAreOlder, ReadInv,
         NEW w \in Writers, Claim(w)
  PROVE  ReadInv'
<1> USE DEF ReadInv
<1>1. UNCHANGED <<reader, out, unsettled>>  BY DEF Claim, reading
<1>2. Count' \in Nat /\ Count' >= Count /\ Count \in Nat
  BY ClaimMoves, Sizes
<1>3. reader.start \in Int /\ reader.want \in Int /\ reader.take \in Nat
      /\ reader.copied \in Nat /\ reader.asked \in Int
  BY DEF TypeOK
<1>4. /\ claimed[head] <= lines' - Count' /\ lines - Count <= lines' - Count'
      /\ lines - Count \in Nat /\ lines' - Count' \in Nat
  BY ClaimEndsALine
<1>5. Fitted'
  <2>1. (1 - Capacity..Capacity - 1)' = 1 - Capacity..Capacity - 1  OBVIOUS
  <2> QED BY <1>1, <1>2, <1>3 DEF Fitted, Slots
<1>6. AskedOrGone'
  <2> SUFFICES ASSUME reader.at \in {"copy", "copying"}, reader.start >= 0,
                      NEW i \in reader.copied..reader.take - 1
               PROVE  LET line == reader.asked + i
                          found == claimed'[Around(reader.base + i)]
                      IN found = line \/ (found > line /\ line <= lines' - Count')
    BY <1>1, Zenon DEF AskedOrGone, Around
  <2> DEFINE s == Around(reader.base + i)
             line == reader.asked + i
  <2>1. s \in Slots
    <3>1. reader.base + i \in 0..2 * Capacity - 1
      BY <1>3, CapacityAssumption DEF Slots, Fitted
    <3> QED BY <3>1, AroundIsSlot
  <2>2. claimed[s] = line \/ (claimed[s] > line /\ line <= lines - Count)
    BY DEF AskedOrGone
  <2>3. line \in Nat  BY <1>3 DEF Fitted
  <2> SUFFICES claimed'[s] = line \/ (claimed'[s] > line /\ line <= lines' - Count')
    OBVIOUS
  <2> HIDE DEF s, line
  <2>4. claimed[s] \in Nat /\ claimed[s] <= lines /\ lines \in Nat
    BY <2>1 DEF Counted, TypeOK, Lines
  <2>5. claimed'[s] = IF s = head THEN lines + 1 ELSE claimed[s]
    BY <2>1 DEF Claim, TypeOK
  <2>6. CASE s = head
    <3>1. line <= claimed[s] /\ claimed'[s] = lines + 1  BY <2>2, <2>3, <2>4, <2>5, <2>6
    <3>2. claimed'[s] > line  BY <2>3, <2>4, <3>1
    <3>3. claimed[s] <= lines' - Count'  BY <1>4, <2>6
    <3>4. line <= lines' - Count'  BY <1>4, <2>3, <2>4, <3>1, <3>3
    <3> QED BY <3>2, <3>4
  <2>7. CASE s # head
    <3>1. claimed'[s] = claimed[s]  BY <2>5, <2>7
    <3>2. line <= lines - Count => line <= lines' - Count'  BY <1>4, <2>3
    <3> QED BY <2>2, <3>1, <3>2
  <2> QED BY <2>6, <2>7
<1>7. ReadsWhatWasAsked'
  <2> SUFFICES ASSUME reader.start >= 0, NEW i \in DOMAIN out \ unsettled
               PROVE  LET line == reader.asked + i
                      IN /\ out[i].whole
                         /\ out[i].line = line \/ (out[i].line > line /\ line <= lines' - Count')
    BY <1>1, Zenon DEF ReadsWhatWasAsked
  <2>1. i \in Int /\ out[i].line \in Int  BY <1>3 DEF TypeOK, Contents, Lines
  <2>2. LET line == reader.asked + i
        IN /\ out[i].whole
           /\ out[i].line = line \/ (out[i].line > line /\ line <= lines - Count)
    BY DEF ReadsWhatWasAsked
  <2> QED BY <1>3, <1>4, <2>1, <2>2
<1>8. ReadIsComplete'  BY <1>1 DEF ReadIsComplete
<1> QED BY <1>5, <1>6, <1>7, <1>8
-----------------------------------------------------------------------------
(* Filling a slot and appending to one *)

\* Both leave the ring and the reader alone.
LEMMA RingStays ==
  ASSUME UNCHANGED <<ring, reading, lines, claimed>>
  PROVE  /\ Counted => Counted'
         /\ RingInOrder => RingInOrder'
         /\ GoneLinesAreOlder => GoneLinesAreOlder'
         /\ ReadInv => ReadInv'
<1>1. UNCHANGED <<head, wrapped, reader, out, unsettled, lines, claimed>>
  BY DEF ring, reading
<1>2. Count' = Count /\ Oldest' = Oldest  BY <1>1 DEF Count, Oldest
<1>3. Counted => Counted'  BY <1>1, <1>2 DEF Counted
<1>4. RingInOrder => RingInOrder'  BY <1>1, <1>2, Zenon DEF RingInOrder, Around
<1>5. Fitted => Fitted'  BY <1>1, <1>2 DEF Fitted, Slots
<1>6. AskedOrGone => AskedOrGone'  BY <1>1, <1>2, Zenon DEF AskedOrGone, Around
<1>7. ReadsWhatWasAsked => ReadsWhatWasAsked'
  BY <1>1, <1>2, Zenon DEF ReadsWhatWasAsked
<1>8. ReadIsComplete => ReadIsComplete'  BY <1>1 DEF ReadIsComplete
<1>9. GoneLinesAreOlder => GoneLinesAreOlder'
  BY <1>1, <1>2 DEF GoneLinesAreOlder
<1> QED BY <1>3, <1>4, <1>5, <1>6, <1>7, <1>8, <1>9 DEF ReadInv

\* And they leave all slots alone but one, which has the task that fills it.
LEMMA FillBeginsKeeps ==
  ASSUME TypeOK, Owned, NEW w \in Writers, FillBegins(w)
  PROVE  TypeOK' /\ Owned'
<1> DEFINE mine == writer[w].slot
           content == [line |-> writer[w].line, whole |-> FALSE]
<1>1. /\ writer[w].at = "claimed" /\ entry' = [entry EXCEPT ![mine] = content]
      /\ writer' = [writer EXCEPT ![w].at = "fill"]
      /\ UNCHANGED <<head, wrapped, reader, out, unsettled, lines, claimed, overlapped>>
  BY DEF FillBegins, ClaimedSlot, ring, reading, history
<1>2. writer[w] \in Writer /\ mine \in Slots /\ content \in Contents
  BY DEF TypeOK, Writer, Contents
<1>3. /\ writer'[w].at = "fill" /\ writer'[w].slot = mine
      /\ writer'[w].line = writer[w].line
      /\ \A v \in Writers \ {w} : writer'[v] = writer[v]
  BY <1>1 DEF TypeOK
<1>4. /\ entry'[mine] = content
      /\ \A i \in Slots \ {mine} : entry'[i] = entry[i]
  BY <1>1, <1>2 DEF TypeOK
<1>5. TypeOK'
  <2>1. entry' \in [Slots -> Contents]
    <3> HIDE DEF content
    <3> QED BY <1>1, <1>2 DEF TypeOK
  <2>2. writer' \in [Writers -> Writer]  BY <1>1 DEF TypeOK, Writer
  <2> QED BY <1>1, <2>1, <2>2 DEF TypeOK, Writer
<1> SUFFICES ASSUME NEW i \in Slots PROVE Kept(i)'  BY <1>5 DEF Owned
<1>6. FillersOf(i)' = FillersOf(i) /\ FillersOf(i) \subseteq Writers /\ Kept(i)
  BY <1>1, <1>3 DEF FillersOf, Owned
<1>7. CASE i = mine
  <2>1. w \in FillersOf(i)  BY <1>1, <1>7 DEF FillersOf
  <2>2. \A v \in FillersOf(i) : writer'[v].line = writer[v].line  BY <1>3, <1>6
  <2>3. entry'[i] = [line |-> writer'[w].line, whole |-> FALSE]  BY <1>3, <1>4, <1>7
  <2> QED BY <1>1, <1>6, <2>1, <2>2, <2>3 DEF Kept
<1>8. CASE i # mine
  <2>1. w \notin FillersOf(i)  BY <1>8 DEF FillersOf
  <2> QED BY <1>1, <1>3, <1>4, <1>6, <1>8, <2>1, KeptStays
<1> QED BY <1>7, <1>8

LEMMA FillEndsKeeps ==
  ASSUME TypeOK, Owned, NEW w \in Writers, FillEnds(w)
  PROVE  TypeOK' /\ Owned'
<1> DEFINE mine == writer[w].slot
           whole == [line |-> writer[w].line, whole |-> TRUE]
<1>1. /\ writer[w].at = "fill"
      /\ writer' = [writer EXCEPT ![w] = NotLogging]
      /\ UNCHANGED <<head, wrapped, reader, out, unsettled, lines, claimed, overlapped>>
  BY DEF FillEnds, ring, reading, history
<1>2. PICK content \in {whole} \cup (IF Undisturbed(w) THEN {} ELSE {NoLine}) :
        entry' = [entry EXCEPT ![mine] = content]
  BY DEF FillEnds, ClaimedSlot
<1>3. writer[w] \in Writer /\ mine \in Slots /\ whole \in Contents
  BY DEF TypeOK, Writer, Contents
<1>4. content \in Contents  BY <1>2, <1>3, NoLineIsContents
<1>5. writer'[w].at = "idle" /\ \A v \in Writers \ {w} : writer'[v] = writer[v]
  BY <1>1 DEF TypeOK, NotLogging
<1>6. entry'[mine] = content /\ \A i \in Slots \ {mine} : entry'[i] = entry[i]
  BY <1>2, <1>3 DEF TypeOK
<1>7. TypeOK'
  <2>1. entry' \in [Slots -> Contents]  BY <1>2, <1>4 DEF TypeOK
  <2>2. writer' \in [Writers -> Writer]
    <3>1. NotLogging \in Writer  BY NoLineIsContents DEF NotLogging, Writer
    <3> QED BY <1>1, <3>1 DEF TypeOK, Writer
  <2> QED BY <1>1, <2>1, <2>2 DEF TypeOK, Writer
<1> SUFFICES ASSUME NEW i \in Slots PROVE Kept(i)'  BY <1>7 DEF Owned
<1>8. FillersOf(i)' = FillersOf(i) \ {w} /\ FillersOf(i) \subseteq Writers /\ Kept(i)
  BY <1>5 DEF FillersOf, Owned
<1>9. CASE i = mine
  <2>1. w \in FillersOf(i)  BY <1>1, <1>9 DEF FillersOf
  <2>2. \A v \in FillersOf(i)' : writer'[v] = writer[v]  BY <1>5, <1>8
  <2>3. \A v \in FillersOf(i)' : writer'[v].line <= claimed'[i]
    BY <1>1, <1>8, <2>2 DEF Kept
  <2>4. i \notin overlapped' =>
          FillersOf(i)' = {} /\ entry'[i] = [line |-> claimed'[i], whole |-> TRUE]
    <3> SUFFICES ASSUME i \notin overlapped
                 PROVE  FillersOf(i)' = {} /\ entry'[i] = [line |-> claimed[i], whole |-> TRUE]
      BY <1>1
    <3>1. FillersOf(i) = {w} /\ claimed[i] = writer[w].line
          /\ entry[i] = [line |-> writer[w].line, whole |-> FALSE]
      BY <1>1, <1>8, <2>1 DEF Kept
    <3>2. \A v \in Writers \ {w} : ~(writer[v].at = "fill" /\ writer[v].slot = mine)
      <4>1. \A v \in Writers \ {w} : v \notin FillersOf(i)  BY <3>1
      <4> QED BY <1>9, <4>1 DEF FillersOf
    <3>3. Undisturbed(w)  BY <1>9, <3>1, <3>2 DEF Undisturbed, ClaimedSlot
    <3>4. content = whole  BY <1>2, <3>3
    <3> QED BY <1>6, <1>8, <1>9, <3>1, <3>4
  <2> QED BY <2>3, <2>4 DEF Kept
<1>10. CASE i # mine
  <2>1. w \notin FillersOf(i)  BY <1>10 DEF FillersOf
  <2>2. FillersOf(i)' = FillersOf(i) /\ \A v \in FillersOf(i) : writer'[v] = writer[v]
    BY <1>5, <1>8, <2>1
  <2> QED BY <1>1, <1>6, <1>8, <1>10, <2>2, KeptStays
<1> QED BY <1>9, <1>10

\* A task that appends fills no slot, before and after.
LEMMA NotAFiller ==
  ASSUME TypeOK, NEW w \in Writers, writer[w].at \notin {"claimed", "fill"},
         writer'[w].at \notin {"claimed", "fill"},
         \A v \in Writers \ {w} : writer'[v] = writer[v],
         NEW i \in Slots
  PROVE  FillersOf(i)' = FillersOf(i) /\ \A v \in FillersOf(i) : writer'[v] = writer[v]
  BY DEF FillersOf

LEMMA AppendMeasuresKeeps ==
  ASSUME TypeOK, Owned, NEW w \in Writers, AppendMeasures(w)
  PROVE  TypeOK' /\ Owned'
<1> DEFINE seen == IF BeingFilled(Newest) THEN NoLine ELSE entry[Newest]
<1>1. /\ writer[w].at = "idle"
      /\ writer' = [writer EXCEPT ![w] = [at |-> "append", slot |-> Newest, line |-> 0,
                                          seen |-> seen]]
      /\ UNCHANGED <<head, wrapped, entry, reader, out, unsettled, lines, claimed, overlapped>>
  BY DEF AppendMeasures, ring, reading, history
<1>2. Newest \in Slots
  <2>1. head + Capacity - 1 \in 0..2 * Capacity - 1  BY Sizes
  <2> QED BY <2>1, AroundIsSlot DEF Newest
<1>3. seen \in Contents  BY <1>2, NoLineIsContents DEF TypeOK
<1> HIDE DEF seen
<1>4. [at |-> "append", slot |-> Newest, line |-> 0, seen |-> seen] \in Writer
  BY <1>2, <1>3, NoLineIsContents DEF Writer
<1>5. TypeOK'
  <2>1. writer' \in [Writers -> Writer]  BY <1>1, <1>4 DEF TypeOK, Writer
  <2> QED BY <1>1, <2>1 DEF TypeOK, Writer
<1>6. writer'[w].at = "append" /\ \A v \in Writers \ {w} : writer'[v] = writer[v]
  BY <1>1 DEF TypeOK
<1> SUFFICES ASSUME NEW i \in Slots PROVE Kept(i)'  BY <1>5 DEF Owned
<1>7. FillersOf(i)' = FillersOf(i) /\ \A v \in FillersOf(i) : writer'[v] = writer[v]
  BY <1>1, <1>6, NotAFiller
<1> QED BY <1>1, <1>7, KeptStays DEF Owned

\* It spoils the line of a slot only where lines overlap by that.
LEMMA AppendWritesKeeps ==
  ASSUME TypeOK, Owned, NEW w \in Writers, AppendWrites(w)
  PROVE  TypeOK' /\ Owned'
<1> DEFINE hit == writer[w].slot
<1>1. /\ writer[w].at = "append"
      /\ writer' = [writer EXCEPT ![w] = NotLogging]
      /\ UNCHANGED <<head, wrapped, reader, out, unsettled, lines, claimed>>
      /\ \/ UNCHANGED <<entry, overlapped>>
         \/ /\ entry' = [entry EXCEPT ![hit] = NoLine]
            /\ overlapped' = overlapped \cup {hit}
  BY DEF AppendWrites, ring, reading
<1>2. writer[w] \in Writer /\ hit \in Slots  BY DEF TypeOK, Writer
<1>3. TypeOK'
  <2>1. NotLogging \in Writer  BY NoLineIsContents DEF NotLogging, Writer
  <2>2. writer' \in [Writers -> Writer]  BY <1>1, <2>1 DEF TypeOK, Writer
  <2>3. entry' \in [Slots -> Contents]  BY <1>1, NoLineIsContents DEF TypeOK
  <2>4. overlapped' \subseteq Slots  BY <1>1, <1>2 DEF TypeOK
  <2> QED BY <1>1, <2>2, <2>3, <2>4 DEF TypeOK, Writer
<1>4. writer'[w].at = "idle" /\ \A v \in Writers \ {w} : writer'[v] = writer[v]
  BY <1>1 DEF TypeOK, NotLogging
<1> SUFFICES ASSUME NEW i \in Slots PROVE Kept(i)'  BY <1>3 DEF Owned
<1>5. FillersOf(i)' = FillersOf(i) /\ \A v \in FillersOf(i) : writer'[v] = writer[v]
  BY <1>1, <1>4, NotAFiller
<1>6. Kept(i)  BY DEF Owned
<1>7. CASE entry'[i] = entry[i]
  <2>1. i \in overlapped => i \in overlapped'  BY <1>1
  <2> QED BY <1>1, <1>5, <1>6, <1>7, <2>1, KeptStays
<1>8. CASE entry'[i] # entry[i]
  <2>1. i \in overlapped'
    <3>1. i = hit /\ overlapped' = overlapped \cup {hit}  BY <1>1, <1>8 DEF TypeOK
    <3> QED BY <3>1
  <2>2. \A v \in FillersOf(i)' : writer'[v].line <= claimed'[i]
    BY <1>1, <1>5, <1>6 DEF Kept
  <2> QED BY <2>1, <2>2 DEF Kept
<1> QED BY <1>7, <1>8
-----------------------------------------------------------------------------
(* Serving a request *)

Reader == [at: {"idle", "clear", "info", "read", "copy", "copying", "respond"},
           start: Int, want: Int, info: BOOLEAN,
           base: 1 - Capacity..Capacity - 1, take: Nat, copied: Nat,
           asked: Int, seen: Contents]

\* A step that only moves the reader leaves the ring as it is.
LEMMA RingUnmoved ==
  ASSUME UNCHANGED <<ring, history>>
  PROVE  /\ Count' = Count /\ Oldest' = Oldest /\ UNCHANGED <<lines, claimed>>
         /\ Counted => Counted'
         /\ RingInOrder => RingInOrder'
         /\ GoneLinesAreOlder => GoneLinesAreOlder'
<1>1. UNCHANGED <<head, wrapped, lines, claimed>>  BY DEF ring, history
<1>2. Count' = Count /\ Oldest' = Oldest  BY <1>1 DEF Count, Oldest
<1>3. Counted => Counted'  BY <1>1, <1>2 DEF Counted
<1>4. RingInOrder => RingInOrder'  BY <1>1, <1>2, Zenon DEF RingInOrder, Around
<1>5. GoneLinesAreOlder => GoneLinesAreOlder'
  BY <1>1, <1>2 DEF GoneLinesAreOlder
<1> QED BY <1>1, <1>2, <1>3, <1>4, <1>5

\* What a step of the HTTP task has to show, besides what it never touches.
LEMMA ServeFrame ==
  ASSUME LogInv, UNCHANGED <<entry, writer, history>>,
         head' \in Slots, wrapped' \in BOOLEAN, reader' \in Reader,
         out' \in [0..reader'.copied - 1 -> Contents],
         unsettled' \subseteq 0..reader'.copied - 1,
         Counted', RingInOrder', GoneLinesAreOlder', ReadInv'
  PROVE  LogInv'
<1>1. UNCHANGED <<entry, writer, lines, claimed, overlapped>>  BY DEF history
<1>2. TypeOK'  BY <1>1 DEF LogInv, TypeOK, Reader
<1>3. Owned'
  <2> SUFFICES ASSUME NEW i \in Slots PROVE Kept(i)'  BY DEF Owned
  <2>1. FillersOf(i)' = FillersOf(i)  BY <1>1 DEF FillersOf
  <2>2. Kept(i) /\ FillersOf(i) \subseteq Writers  BY DEF LogInv, Owned, FillersOf
  <2> QED BY <1>1, <2>1, <2>2, KeptStays
<1> QED BY <1>2, <1>3 DEF LogInv

\* A reader that has not begun to copy has answered nothing that could be wrong.
LEMMA NothingCopied ==
  ASSUME LogInv, UNCHANGED <<entry, writer, history, out, unsettled>>,
         head' \in Slots, wrapped' \in BOOLEAN, reader' \in Reader,
         reader'.copied = reader.copied, reader.copied = 0, reader'.at # "respond",
         Counted', RingInOrder', GoneLinesAreOlder', Fitted', AskedOrGone'
  PROVE  LogInv'
<1>1. out' \in [0..reader'.copied - 1 -> Contents]
      /\ unsettled' \subseteq 0..reader'.copied - 1
  BY DEF LogInv, TypeOK
<1>2. ReadsWhatWasAsked'
  <2>1. 0..reader'.copied - 1 = {}  OBVIOUS
  <2>2. DOMAIN out' = {}  BY <1>1, <2>1
  <2> QED BY <2>2 DEF ReadsWhatWasAsked
<1>3. ReadIsComplete'  BY DEF ReadIsComplete
<1> QED BY <1>1, <1>2, <1>3, ServeFrame DEF ReadInv

LEMMA NotReadingIsReader == NotReading \in Reader
  BY CapacityAssumption, NoLineIsContents DEF NotReading, Reader

\* The reader that is idle again owes nothing.
LEMMA IdleKeeps ==
  ASSUME LogInv, UNCHANGED <<ring, entry, writer, history>>, reader' = NotReading,
         out' = Nothing, unsettled' = {}
  PROVE  LogInv'
<1>1. reader' \in Reader /\ reader'.at = "idle" /\ reader'.copied = 0
  BY NotReadingIsReader DEF NotReading
<1>2. head' \in Slots /\ wrapped' \in BOOLEAN  BY DEF LogInv, TypeOK, ring
<1>3. Counted' /\ RingInOrder' /\ GoneLinesAreOlder'
  BY RingUnmoved DEF LogInv
<1>4. 0..reader'.copied - 1 = {}  BY <1>1
<1>5. out' \in [0..reader'.copied - 1 -> Contents]
      /\ unsettled' \subseteq 0..reader'.copied - 1
  BY <1>4 DEF Nothing
<1>6. DOMAIN out' = {}  BY DEF Nothing
<1>7. ReadInv'
  BY <1>1, <1>6 DEF ReadInv, Fitted, AskedOrGone, ReadsWhatWasAsked, ReadIsComplete
<1> QED BY <1>1, <1>2, <1>3, <1>5, <1>7, ServeFrame

LEMMA RequestKeeps ==
  ASSUME LogInv, Request
  PROVE  LogInv'
<1>1. UNCHANGED <<ring, entry, writer, history, out, unsettled>> /\ reader.at = "idle"
  BY DEF Request, Reading
<1>2. PICK start \in Starts, count \in Counts, clear \in BOOLEAN, info \in BOOLEAN :
        reader' = [NotReading EXCEPT !.at = IF clear THEN "clear" ELSE "info",
                                     !.start = start, !.want = count, !.info = info]
  BY DEF Request
<1>3. reader' = [at |-> IF clear THEN "clear" ELSE "info", start |-> start,
                 want |-> count, info |-> info, base |-> 0, take |-> 0,
                 copied |-> 0, asked |-> 0, seen |-> NoLine]
  BY <1>2, Zenon DEF NotReading
<1>4. reader' \in Reader
  BY <1>3, CapacityAssumption, QueryAssumption, NoLineIsContents DEF Reader
<1>5. head' \in Slots /\ wrapped' \in BOOLEAN  BY <1>1 DEF LogInv, TypeOK, ring
<1>6. Counted' /\ RingInOrder' /\ GoneLinesAreOlder'
  BY <1>1, RingUnmoved DEF LogInv
<1>7. reader.copied = 0  BY <1>1 DEF LogInv, ReadInv, Fitted
<1>8. reader'.at \in {"clear", "info"} /\ reader'.copied = 0  BY <1>3
<1>9. Fitted' /\ AskedOrGone'  BY <1>8 DEF Fitted, AskedOrGone
<1> QED BY <1>1, <1>4, <1>5, <1>6, <1>7, <1>8, <1>9, NothingCopied

LEMMA ClearKeeps ==
  ASSUME LogInv, Clear
  PROVE  LogInv'
<1>1. /\ UNCHANGED <<entry, writer, history, out, unsettled>> /\ reader.at = "clear"
      /\ head' = 0 /\ wrapped' = FALSE /\ reader' = [reader EXCEPT !.at = "info"]
  BY DEF Clear, Reading
<1>2. reader \in Reader /\ lines \in Nat
  BY DEF LogInv, TypeOK, Reader, Lines
<1>3. reader' \in Reader /\ reader'.at = "info" /\ reader'.copied = reader.copied
  BY <1>1, <1>2 DEF Reader
<1>4. head' \in Slots /\ wrapped' \in BOOLEAN /\ Count' = 0
  <2>1. head' \in Slots  BY <1>1, NoLineIsContents
  <2>2. wrapped' \in BOOLEAN  BY <1>1, Zenon
  <2>3. Count' = 0  BY <1>1 DEF Count
  <2> QED BY <2>1, <2>2, <2>3
<1>5. Counted'
  BY <1>1, <1>2, <1>4 DEF LogInv, Counted, history
<1>6. RingInOrder'
  <2>1. 0..Count' - 1 = {}  BY <1>4
  <2> QED BY <2>1 DEF RingInOrder
<1>7. GoneLinesAreOlder'
  BY <1>1, <1>2, <1>4 DEF LogInv, Counted, GoneLinesAreOlder, history
<1>8. reader.copied = 0  BY <1>1 DEF LogInv, ReadInv, Fitted
<1>9. Fitted' /\ AskedOrGone'  BY <1>3, <1>8 DEF Fitted, AskedOrGone
<1> QED BY <1>1, <1>3, <1>4, <1>5, <1>6, <1>7, <1>8, <1>9, NothingCopied

\* What the handler fits to its count ends within the ring.
LEMMA InfoKeeps ==
  ASSUME LogInv, Info
  PROVE  LogInv'
<1> DEFINE start == IF reader.start > Count
                    THEN IF Count > 0 THEN Count - 1 ELSE 0
                    ELSE reader.start
           want == IF start + reader.want > Count
                   THEN Count - start ELSE reader.want
<1>1. UNCHANGED <<ring, entry, writer, history, out, unsettled>> /\ reader.at = "info"
  BY DEF Info, Reading
<1>2. reader \in Reader /\ TypeOK /\ reader.copied = 0
  BY <1>1 DEF LogInv, TypeOK, Reader, ReadInv, Fitted
<1>3. head' \in Slots /\ wrapped' \in BOOLEAN  BY <1>1, <1>2 DEF TypeOK, ring
<1>4. Counted' /\ RingInOrder' /\ GoneLinesAreOlder' /\ Count' = Count
  BY <1>1, RingUnmoved DEF LogInv
<1>5. CASE reader' = NotReading
  <2>1. reader' \in Reader /\ reader'.at = "idle" /\ reader'.copied = 0
    BY <1>5, NotReadingIsReader DEF NotReading
  <2>2. Fitted' /\ AskedOrGone'  BY <2>1 DEF Fitted, AskedOrGone
  <2> QED BY <1>1, <1>2, <1>3, <1>4, <2>1, <2>2, NothingCopied
<1>6. CASE want > 0 /\ reader' = [reader EXCEPT !.at = "read", !.start = start, !.want = want]
  <2>1. reader.start \in Int /\ reader.want \in Int  BY <1>2 DEF Reader
  <2>2. start \in Int  BY <1>2, <2>1, Sizes
  <2>3. want \in Int /\ start + want <= Count
    <3> HIDE DEF start
    <3> QED BY <1>2, <2>1, <2>2, Sizes
  <2> HIDE DEF start, want
  <2>4. /\ reader' \in Reader /\ reader'.at = "read" /\ reader'.start = start
        /\ reader'.want = want /\ reader'.copied = reader.copied
    BY <1>2, <1>6, <2>2, <2>3 DEF Reader
  <2>5. Fitted' /\ AskedOrGone'
    BY <1>2, <1>4, <1>6, <2>3, <2>4 DEF Fitted, AskedOrGone
  <2> QED BY <1>1, <1>2, <1>3, <1>4, <2>4, <2>5, NothingCopied
<1> QED BY <1>5, <1>6 DEF Info

\* The handler made room for want entries, and so many are left: a claim since
\* then has only added to them.
LEMMA ReadSlotsKeeps ==
  ASSUME LogInv, ReadSlots
  PROVE  LogInv'
<1>1. UNCHANGED <<ring, entry, writer, history, out, unsettled>> /\ reader.at = "read"
  BY DEF ReadSlots, Reading
<1>2. reader \in Reader /\ TypeOK  BY DEF LogInv, TypeOK, Reader
<1>3. reader.start \in Int /\ reader.want \in Int /\ reader.want > 0
      /\ reader.copied = 0 /\ reader.start + reader.want <= Count
  BY <1>1, <1>2 DEF LogInv, ReadInv, Fitted, Reader
<1>4. ~PastTheEnd  BY <1>2, <1>3, Sizes DEF PastTheEnd
<1> DEFINE asked == lines - Count + 1 + reader.start
           base == Nth(reader.start)
<1>5. reader' = [reader EXCEPT !.at = "copy", !.take = reader.want, !.base = base,
                               !.asked = asked]
  <2>1. ~(reader.start + reader.want > Count)  BY <1>2, <1>3, Sizes
  <2> QED BY <1>4, <2>1 DEF ReadSlots
<1>6. asked \in Int /\ (reader.start >= 0 => asked \in Nat)
  <2>1. Count <= lines /\ lines \in Nat /\ Count \in Nat
    BY <1>2, Sizes DEF LogInv, Counted
  <2> QED BY <1>3, <2>1
<1>7. reader.start >= 0 => Oldest + reader.start \in 0..2 * Capacity - 1
  BY <1>2, <1>3, Sizes
<1>8. base \in 1 - Capacity..Capacity - 1
  <2>1. Oldest + reader.start \in Int  BY <1>2, <1>3, Sizes
  <2> QED BY <2>1, AroundIsNear DEF Nth
<1>9. reader.start >= 0 => base \in Slots /\ reader.want <= Capacity
  <2>1. reader.start >= 0 => base \in Slots  BY <1>7, AroundIsSlot DEF Nth
  <2>2. reader.start >= 0 => reader.want <= Capacity  BY <1>2, <1>3, Sizes
  <2> QED BY <2>1, <2>2
<1> HIDE DEF asked, base
<1>10. /\ reader' \in Reader /\ reader'.at = "copy" /\ reader'.take = reader.want
       /\ reader'.want = reader.want /\ reader'.copied = 0
       /\ reader'.base = base /\ reader'.asked = asked /\ reader'.start = reader.start
  <2>1. reader.want \in Nat  BY <1>3
  <2>2. reader' \in Reader  BY <1>2, <1>5, <1>6, <1>8, <2>1 DEF Reader
  <2>3. reader'.at = "copy" /\ reader'.take = reader.want /\ reader'.want = reader.want
        /\ reader'.copied = reader.copied
    BY <1>2, <1>5 DEF Reader
  <2>4. reader'.base = base /\ reader'.asked = asked /\ reader'.start = reader.start
    BY <1>2, <1>5 DEF Reader
  <2> QED BY <1>3, <2>2, <2>3, <2>4
<1>11. head' \in Slots /\ wrapped' \in BOOLEAN  BY <1>1, <1>2 DEF TypeOK, ring
<1>12. Counted' /\ RingInOrder' /\ GoneLinesAreOlder'
       /\ Count' = Count /\ UNCHANGED <<lines, claimed>>
  BY <1>1, RingUnmoved DEF LogInv
<1>13. Fitted'
  BY <1>3, <1>6, <1>9, <1>10 DEF Fitted, Slots
<1>14. AskedOrGone'
  <2> SUFFICES ASSUME reader.start >= 0, NEW i \in 0..reader.want - 1
               PROVE  claimed[Around(base + i)] = asked + i
    BY <1>10, <1>12, Zenon DEF AskedOrGone, Around
  <2>1. i \in Nat /\ reader.start + i \in 0..Count - 1
        /\ Oldest + reader.start + i < 2 * Capacity
    BY <1>2, <1>3, Sizes
  <2>2. Around(base + i) = Around(Oldest + reader.start + i)
    BY <1>7, <2>1, AroundTwice DEF base, Nth
  <2>3. claimed[Around(Oldest + (reader.start + i))] = lines - Count + 1 + (reader.start + i)
    BY <2>1 DEF LogInv, RingInOrder
  <2>4. Oldest + (reader.start + i) = Oldest + reader.start + i
        /\ lines - Count + 1 + (reader.start + i) = asked + i
        /\ asked + i \in Int
    BY <1>2, <1>3, <2>1, Sizes DEF asked
  <2> QED BY <2>2, <2>3, <2>4
<1> QED BY <1>1, <1>3, <1>10, <1>11, <1>12, <1>13, <1>14, NothingCopied

LEMMA CopyBeginsKeeps ==
  ASSUME LogInv, CopyBegins
  PROVE  LogInv'
<1> DEFINE seen == IF Source \notin Slots \/ BeingFilled(Source) \/ BeingAppended(Source)
                   THEN NoLine ELSE entry[Source]
<1>1. /\ UNCHANGED <<ring, entry, writer, history, out, unsettled>> /\ reader.at = "copy"
      /\ reader' = [reader EXCEPT !.at = "copying", !.seen = seen]
  BY DEF CopyBegins, Reading
<1>2. reader \in Reader /\ seen \in Contents
  BY NoLineIsContents DEF LogInv, TypeOK, Reader
<1> HIDE DEF seen
<1>3. /\ reader' \in Reader /\ reader'.at = "copying" /\ reader'.start = reader.start
      /\ reader'.want = reader.want /\ reader'.base = reader.base
      /\ reader'.take = reader.take /\ reader'.copied = reader.copied
      /\ reader'.asked = reader.asked
  BY <1>1, <1>2 DEF Reader
<1>4. head' \in Slots /\ wrapped' \in BOOLEAN  BY <1>1 DEF LogInv, TypeOK, ring
<1>5. Counted' /\ RingInOrder' /\ GoneLinesAreOlder'
      /\ Count' = Count /\ UNCHANGED <<lines, claimed>>
  BY <1>1, RingUnmoved DEF LogInv
<1>6. Fitted'  BY <1>1, <1>3 DEF LogInv, ReadInv, Fitted, Slots
<1>7. AskedOrGone'
  <2> SUFFICES ASSUME reader.start >= 0, NEW i \in reader.copied..reader.take - 1
               PROVE  LET line == reader.asked + i
                          found == claimed[Around(reader.base + i)]
                      IN found = line \/ (found > line /\ line <= lines - Count)
    BY <1>3, <1>5, Zenon DEF AskedOrGone, Around
  <2> QED BY <1>1 DEF LogInv, ReadInv, AskedOrGone
<1>8. ReadsWhatWasAsked' /\ ReadIsComplete'
  BY <1>1, <1>3, <1>5 DEF LogInv, ReadInv, ReadsWhatWasAsked, ReadIsComplete
<1>9. out' \in [0..reader'.copied - 1 -> Contents]
      /\ unsettled' \subseteq 0..reader'.copied - 1
  BY <1>1, <1>3 DEF LogInv, TypeOK
<1> QED BY <1>1, <1>3, <1>4, <1>5, <1>6, <1>7, <1>8, <1>9, ServeFrame DEF ReadInv

\* A copy of a slot that was settled all the while is the line of its last claim.
LEMMA CopyEndsKeeps ==
  ASSUME LogInv, CopyEnds
  PROVE  LogInv'
<1> DEFINE k == reader.copied
           at == IF k + 1 = reader.take THEN "respond" ELSE "copy"
           settled == Unwritten /\ Source \notin overlapped /\ FillersOf(Source) = {}
<1>1. /\ UNCHANGED <<ring, entry, writer, history>> /\ reader.at = "copying"
      /\ reader' = [reader EXCEPT !.copied = k + 1, !.seen = NoLine, !.at = at]
      /\ unsettled' = IF settled THEN unsettled ELSE unsettled \cup {k}
  BY DEF CopyEnds, Reading
<1>2. PICK content \in Copies :
        out' = [i \in 0..k |-> IF i = k THEN content ELSE out[i]]
  BY DEF CopyEnds
<1>3. reader \in Reader /\ out \in [0..k - 1 -> Contents] /\ unsettled \subseteq 0..k - 1
  BY DEF LogInv, TypeOK, Reader
<1>4. k \in Nat /\ reader.take \in Nat /\ reader.take = reader.want /\ k < reader.take
  BY <1>1, <1>3 DEF LogInv, ReadInv, Fitted, Reader
<1>5. /\ reader' \in Reader /\ reader'.at = at /\ reader'.copied = k + 1
      /\ reader'.take = reader.take /\ reader'.want = reader.want
      /\ reader'.base = reader.base /\ reader'.asked = reader.asked
      /\ reader'.start = reader.start
  <2>1. at \in {"idle", "clear", "info", "read", "copy", "copying", "respond"}  OBVIOUS
  <2> HIDE DEF at
  <2>2. k + 1 \in Nat  BY <1>4
  <2> HIDE DEF k
  <2>3. reader' \in Reader  BY <1>1, <1>3, <2>1, <2>2, NoLineIsContents DEF Reader
  <2>4. reader'.at = at /\ reader'.copied = k + 1 /\ reader'.take = reader.take
        /\ reader'.want = reader.want
    BY <1>1, <1>3 DEF Reader
  <2>5. reader'.base = reader.base /\ reader'.asked = reader.asked
        /\ reader'.start = reader.start
    BY <1>1, <1>3 DEF Reader
  <2> QED BY <2>3, <2>4, <2>5
<1>6. content \in Contents
  BY <1>2, NoLineIsContents DEF Copies, LogInv, TypeOK
<1>7. out' \in [0..reader'.copied - 1 -> Contents]
      /\ unsettled' \subseteq 0..reader'.copied - 1
  <2>1. reader'.copied - 1 = k  BY <1>4, <1>5
  <2>2. \A i \in 0..k : i # k => i \in 0..k - 1  BY <1>4
  <2>3. out' \in [0..k -> Contents]  BY <1>2, <1>3, <1>6, <2>2
  <2>4. unsettled' \subseteq 0..k  BY <1>1, <1>3, <1>4
  <2> QED BY <2>1, <2>3, <2>4
<1>8. head' \in Slots /\ wrapped' \in BOOLEAN  BY <1>1 DEF LogInv, TypeOK, ring
<1>9. Counted' /\ RingInOrder' /\ GoneLinesAreOlder'
      /\ Count' = Count /\ UNCHANGED <<lines, claimed>>
  BY <1>1, RingUnmoved DEF LogInv
<1>10. Fitted' /\ ReadIsComplete'
  BY <1>1, <1>4, <1>5 DEF LogInv, ReadInv, Fitted, ReadIsComplete, Slots
<1>11. AskedOrGone'
  <2> SUFFICES ASSUME reader.start >= 0, NEW i \in k + 1..reader.take - 1
               PROVE  LET line == reader.asked + i
                          found == claimed[Around(reader.base + i)]
                      IN found = line \/ (found > line /\ line <= lines - Count)
    BY <1>5, <1>9, Zenon DEF AskedOrGone, Around
  <2>1. i \in reader.copied..reader.take - 1  BY <1>4
  <2> QED BY <1>1, <2>1 DEF LogInv, ReadInv, AskedOrGone
<1>12. ReadsWhatWasAsked'
  <2> SUFFICES ASSUME reader.start >= 0, NEW i \in DOMAIN out' \ unsettled'
               PROVE  LET line == reader.asked + i
                      IN /\ out'[i].whole
                         /\ out'[i].line = line \/ (out'[i].line > line /\ line <= lines - Count)
    BY <1>5, <1>9, Zenon DEF ReadsWhatWasAsked
  <2>1. DOMAIN out' = 0..k /\ i \in 0..k  BY <1>2
  <2>2. CASE i = k
    <3>1. settled  BY <1>1, <2>2
    <3>2. Source \in Slots /\ content = entry[Source]
      BY <1>2, <3>1 DEF Copies, Unwritten
    <3>3. entry[Source] = [line |-> claimed[Source], whole |-> TRUE]
      BY <3>1, <3>2 DEF LogInv, Owned, Kept
    <3>4. k \in reader.copied..reader.take - 1  BY <1>4
    <3>5. LET line == reader.asked + k
              found == claimed[Source]
          IN found = line \/ (found > line /\ line <= lines - Count)
      BY <1>1, <3>4 DEF LogInv, ReadInv, AskedOrGone, Source
    <3>6. out'[i] = content  BY <1>2, <2>1, <2>2
    <3> QED BY <2>2, <3>2, <3>3, <3>5, <3>6
  <2>3. CASE i # k
    <3>1. i \in 0..k - 1 /\ DOMAIN out = 0..k - 1  BY <1>3, <1>4, <2>1, <2>3
    <3>2. i \notin unsettled  BY <1>1
    <3>3. out'[i] = out[i]  BY <1>2, <2>1, <2>3
    <3> QED BY <3>1, <3>2, <3>3 DEF LogInv, ReadInv, ReadsWhatWasAsked
  <2> QED BY <2>2, <2>3
<1> QED BY <1>1, <1>5, <1>7, <1>8, <1>9, <1>10, <1>11, <1>12, ServeFrame DEF ReadInv

LEMMA ServeKeeps ==
  ASSUME LogInv, Serve
  PROVE  LogInv'
<1>1. ASSUME Respond PROVE LogInv'
  BY <1>1, IdleKeeps DEF Respond, Reading
<1> QED BY <1>1, RequestKeeps, ClearKeeps, InfoKeeps, ReadSlotsKeeps, CopyBeginsKeeps,
           CopyEndsKeeps DEF Serve
-----------------------------------------------------------------------------
LEMMA LogKeeps ==
  ASSUME LogInv, NEW w \in Writers, Log(w)
  PROVE  LogInv'
<1> USE DEF LogInv
<1>1. CASE Claim(w)
  BY <1>1, ClaimKeepsTypeOK, ClaimKeepsOrder, ClaimEndsALine, ClaimKeepsOwned,
     ClaimKeepsReads
<1>2. CASE FillBegins(w)
  <2>1. UNCHANGED <<ring, reading, lines, claimed>>  BY <1>2 DEF FillBegins, history
  <2> QED BY <1>2, <2>1, RingStays, FillBeginsKeeps
<1>3. CASE FillEnds(w)
  <2>1. UNCHANGED <<ring, reading, lines, claimed>>  BY <1>3 DEF FillEnds, history
  <2> QED BY <1>3, <2>1, RingStays, FillEndsKeeps
<1>4. CASE AppendMeasures(w)
  <2>1. UNCHANGED <<ring, reading, lines, claimed>>  BY <1>4 DEF AppendMeasures, history
  <2> QED BY <1>4, <2>1, RingStays, AppendMeasuresKeeps
<1>5. CASE AppendWrites(w)
  <2>1. UNCHANGED <<ring, reading, lines, claimed>>  BY <1>5 DEF AppendWrites
  <2> QED BY <1>5, <2>1, RingStays, AppendWritesKeeps
<1> QED BY <1>1, <1>2, <1>3, <1>4, <1>5 DEF Log

LEMMA LogInit == Init => LogInv
<1> SUFFICES ASSUME Init PROVE LogInv  OBVIOUS
<1>1. TypeOK
  <2>1. reader \in Reader /\ reader.copied = 0  BY NotReadingIsReader DEF Init, NotReading
  <2>2. out \in [0..reader.copied - 1 -> Contents]
    <3>1. 0..reader.copied - 1 = {}  BY <2>1
    <3> QED BY <3>1 DEF Init, Nothing
  <2>3. [line |-> 0, whole |-> TRUE] \in Contents  BY NoLineIsContents DEF Contents
  <2>4. NotLogging \in Writer  BY NoLineIsContents DEF NotLogging, Writer
  <2> QED BY <2>1, <2>2, <2>3, <2>4, NoLineIsContents DEF Init, TypeOK, Reader, Writer
<1>2. Count = 0 /\ lines = 0 /\ \A i \in Slots : claimed[i] = 0
  BY DEF Init, Count
<1>3. Counted  BY <1>2 DEF Counted
<1>4. RingInOrder
  <2>1. 0..Count - 1 = {}  BY <1>2
  <2> QED BY <2>1 DEF RingInOrder
<1>5. Owned
  <2>1. \A i \in Slots : FillersOf(i) = {}  BY DEF FillersOf, Init, NotLogging
  <2> QED BY <2>1 DEF Owned, Kept, Init
<1>6. ReadInv
  <2>1. reader.at = "idle" /\ reader.copied = 0 /\ DOMAIN out = {}
    BY DEF Init, NotReading, Nothing
  <2> QED BY <2>1 DEF ReadInv, Fitted, AskedOrGone, ReadsWhatWasAsked, ReadIsComplete
<1>7. GoneLinesAreOlder
  <2>1. 0 <= 0 - 0  OBVIOUS
  <2> QED BY <1>2, <2>1 DEF GoneLinesAreOlder
<1> QED BY <1>1, <1>3, <1>4, <1>5, <1>6, <1>7 DEF LogInv

LEMMA LogInvariant == Spec => []LogInv
<1>1. LogInv /\ [Next]_vars => LogInv'
  <2> SUFFICES ASSUME LogInv, [Next]_vars PROVE LogInv'  OBVIOUS
  <2>1. CASE \E w \in Writers : Log(w)  BY <2>1, LogKeeps
  <2>2. CASE Serve  BY <2>2, ServeKeeps
  <2>3. CASE UNCHANGED vars
    <3>1. UNCHANGED <<ring, entry, writer, reading, history>>
      BY <2>3 DEF vars
    <3>2. UNCHANGED <<head, wrapped, entry, writer, reader, out, unsettled,
                      lines, claimed, overlapped>>
      BY <3>1 DEF ring, reading, history
    <3>3. head' \in Slots /\ wrapped' \in BOOLEAN /\ reader' \in Reader
          /\ out' \in [0..reader'.copied - 1 -> Contents]
          /\ unsettled' \subseteq 0..reader'.copied - 1
      BY <3>2 DEF LogInv, TypeOK, Reader
    <3>4. Counted' /\ RingInOrder' /\ GoneLinesAreOlder' /\ ReadInv'
      BY <3>1, <3>2, RingStays DEF LogInv
    <3> QED BY <3>1, <3>3, <3>4, ServeFrame
  <2> QED BY <2>1, <2>2, <2>3 DEF Next
<1> QED BY LogInit, <1>1, PTL DEF Spec

\* Every index into the ring is one of its slots, except for where a negative
\* start leads, which is less than a ring before it, whatever the ring's size.
THEOREM LogTypeCorrect == Spec => []TypeOK
<1>1. LogInv => TypeOK  BY DEF LogInv
<1> QED BY <1>1, LogInvariant, PTL

\* log_buffer.h:56: from s_head - or from slot 0, before the ring has wrapped
\* and after it was cleared - the slots hold the last lines in their order.
THEOREM LogInOrder == Spec => []RingInOrder
<1>1. LogInv => RingInOrder  BY DEF LogInv
<1> QED BY <1>1, LogInvariant, PTL

\* Filling a slot outside the critical section leaves it whole, whatever is filled,
\* appended and cleared meanwhile, unless the ring has come around to the slot
\* before that was done or an append was measured before it and written after.
THEOREM SettledLinesAreWhole == Spec => []SettledSlotHoldsItsLine
<1>1. LogInv => SettledSlotHoldsItsLine
  BY DEF LogInv, Owned, Kept, SettledSlotHoldsItsLine
<1> QED BY <1>1, LogInvariant, PTL

\* log_buffer_read copies without the lock; what it copies from slots at rest is
\* the lines it was asked for or, once they have left the ring, later ones.
THEOREM ReadsNothingOlder == Spec => []ReadsWhatWasAsked
<1>1. LogInv => ReadsWhatWasAsked  BY DEF LogInv, ReadInv
<1> QED BY <1>1, LogInvariant, PTL

\* handler_log sends as many entries as it made room for, although it counted
\* them before log_buffer_read counted them again.
THEOREM ReadsAreComplete == Spec => []ReadIsComplete
<1>1. LogInv => ReadIsComplete  BY DEF LogInv, ReadInv
<1> QED BY <1>1, LogInvariant, PTL

\* log_buffer.c:129-133: a slot that is still being filled is claimed again only
\* when the line that is being filled in leaves the ring by that, or has left it
\* by a clear: a task has as long to fill its slot as its line is in the ring.
OverrunLinesAreGone ==
  [][\A i \in Slots : claimed'[i] # claimed[i] =>
       \A w \in FillersOf(i) : writer[w].line <= lines' - Count']_vars

LEMMA OverrunByClaim ==
  ASSUME LogInv, NEW w \in Writers, Claim(w), NEW i \in Slots, claimed'[i] # claimed[i],
         NEW v \in FillersOf(i)
  PROVE  writer[v].line <= lines' - Count'
<1>1. i = head  BY DEF Claim, LogInv, TypeOK
<1>2. writer[v].line <= claimed[i]  BY DEF LogInv, Owned, Kept
<1>3. claimed[head] <= lines' - Count' /\ lines' - Count' \in Nat
  BY ClaimEndsALine DEF LogInv
<1>4. writer[v].line \in Int /\ claimed[i] \in Int
  BY DEF FillersOf, LogInv, TypeOK, Lines
<1> QED BY <1>1, <1>2, <1>3, <1>4

\* Each slot that is claimed from under a task that fills it is that of a line that
\* no reader sees any more, although clear hands slots out before their time.
THEOREM OnlyGoneLinesAreOverrun == Spec => OverrunLinesAreGone
<1>1. LogInv /\ [Next]_vars =>
        [\A i \in Slots : claimed'[i] # claimed[i] =>
           \A w \in FillersOf(i) : writer[w].line <= lines' - Count']_vars
  <2> SUFFICES ASSUME LogInv, Next, NEW i \in Slots, claimed'[i] # claimed[i],
                      NEW v \in FillersOf(i)
               PROVE  writer[v].line <= lines' - Count'
    OBVIOUS
  <2>1. claimed' = claimed \/ \E w \in Writers : Claim(w)
    BY DEF Next, Log, Serve, FillBegins, FillEnds, AppendMeasures, AppendWrites, Request,
           Clear, Info, ReadSlots, CopyBegins, CopyEnds, Respond, Reading, history
  <2> QED BY <2>1, OverrunByClaim
<1> QED BY <1>1, LogInvariant, PTL DEF Spec, OverrunLinesAreGone
=============================================================================
