----------------------------- MODULE LogBuffer -----------------------------
(***************************************************************************)
(* The log ring of app/log_buffer.c and its reader, handler_log of          *)
(* net/http_server.c.                                                      *)
(*                                                                         *)
(* Any task that logs runs log_vprintf_hook: it claims a slot in a critical *)
(* section and fills the slot outside it, or appends to the newest slot     *)
(* inside one, while other tasks claim and fill theirs on the other core,   *)
(* and while the HTTP task clears the ring or copies slots, which takes no  *)
(* lock either.  A line is known by the number of its claim.  What takes    *)
(* time in a slot, filling, appending and copying, has two steps: its first *)
(* access to the slot and its last.                                        *)
(***************************************************************************)
EXTENDS Integers

CONSTANTS
  Writers,    \* tasks that log
  Capacity,   \* s_capacity
  MaxLines,   \* bound: lines logged
  Starts,     \* bound: what atoi makes of a request's start ...
  Counts      \* bound: ... and of its count, which is capped at 500

ASSUME CapacityAssumption == Capacity \in Nat \ {0}

ASSUME MaxLinesAssumption == MaxLines \in Nat

ASSUME QueryAssumption == Starts \subseteq Int /\ Counts \subseteq Int

VARIABLES
  head,       \* s_head
  wrapped,    \* s_wrapped
  entry,      \* what the slots hold
  writer,     \* what each task does next: [at, slot, line, seen]
  reader,     \* the request that handler_log serves
  out,        \* the entries it has copied
  lines,      \* history: lines that claimed a slot
  claimed,    \* history: claimed[i] is the last line that claimed slot i
  overlapped, \* history: slots whose line was claimed while another one was
              \* being filled in there, or was hit by an append
  unsettled   \* history: entries of out whose slot changed during the copy,
              \* was not filled yet or is in overlapped

ring == <<head, wrapped>>
history == <<lines, claimed, overlapped>>
reading == <<reader, out, unsettled>>
vars == <<ring, entry, writer, reading, history>>

Slots == 0..Capacity - 1

\* 0 stands for what the memory held before.
Lines == 0..MaxLines

\* An entry of a line is not whole from the first write of the fill to the last.
Contents == [line: Lines, whole: BOOLEAN]

\* What no line has written, or several have.
NoLine == [line |-> 0, whole |-> FALSE]

NotLogging == [at |-> "idle", slot |-> 0, line |-> 0, seen |-> NoLine]

NotReading == [at |-> "idle", start |-> 0, want |-> 0, info |-> FALSE,
               base |-> 0, take |-> 0, copied |-> 0, asked |-> 0, seen |-> NoLine]

Nothing == [i \in {} |-> NoLine]

TypeOK ==
  /\ head \in Slots /\ wrapped \in BOOLEAN
  /\ entry \in [Slots -> Contents]
  /\ writer \in [Writers -> [at: {"idle", "claimed", "fill", "append"},
                             slot: Slots, line: Lines, seen: Contents]]
  /\ reader \in [at: {"idle", "clear", "info", "read", "copy", "copying", "respond"},
                 start: Int, want: Int, info: BOOLEAN,
                 base: 1 - Capacity..Capacity - 1, take: Nat, copied: Nat,
                 asked: Int, seen: Contents]
  /\ out \in [0..reader.copied - 1 -> Contents]
  /\ lines \in Lines /\ claimed \in [Slots -> Lines]
  /\ overlapped \subseteq Slots /\ unsettled \subseteq 0..reader.copied - 1

\* log_buffer_init: the slots come from malloc as they are.
Init ==
  /\ head = 0 /\ wrapped = FALSE
  /\ entry = [i \in Slots |-> [line |-> 0, whole |-> TRUE]]
  /\ writer = [w \in Writers |-> NotLogging]
  /\ reader = NotReading /\ out = Nothing /\ unsettled = {}
  /\ lines = 0 /\ claimed = [i \in Slots |-> 0] /\ overlapped = {}

\* log_buffer_info's count, and log_buffer_read's oldest.
Count == IF wrapped THEN Capacity ELSE head

Oldest == IF wrapped THEN head ELSE 0

\* The remainder of C, which has the sign of its left operand.
Around(i) == IF i >= 0 THEN i % Capacity ELSE -((-i) % Capacity)

Newest == Around(head + Capacity - 1)

\* Mutant: the ring is read from slot 0 even when it has wrapped.
NthIgnoresWrap(i) == Around(i)

\* The slot of the line with i older ones.
Nth(i) == Around(Oldest + i)

\* Only an append keeps s_lock for more than one step.
Unlocked == \A w \in Writers : writer[w].at # "append"

\* The tasks that have claimed slot i and not finished with it.
FillersOf(i) == {w \in Writers : writer[w].at \in {"claimed", "fill"} /\ writer[w].slot = i}

\* Slot i is being written to.
BeingFilled(i) == \E w \in Writers : writer[w].at = "fill" /\ writer[w].slot = i

BeingAppended(i) == \E w \in Writers : writer[w].at = "append" /\ writer[w].slot = i
-----------------------------------------------------------------------------
(* log_vprintf_hook *)

\* Mutant: the head runs on past the last slot.
NextSlotRunsOn == head + 1

NextSlot == Around(head + 1)

\* Mutant: wrapped is set when slot 0 is claimed again, not when it is next.
LappedLate == wrapped \/ (lines > 0 /\ head = 0)

Lapped == wrapped \/ NextSlot = 0

\* A line with a tag (or an empty one) claims the slot at head.
Claim(w) ==
  /\ writer[w].at = "idle" /\ Unlocked /\ lines < MaxLines
  /\ writer' = [writer EXCEPT ![w] = [at |-> "claimed", slot |-> head,
                                      line |-> lines + 1, seen |-> NoLine]]
  /\ head' = NextSlot
  /\ wrapped' = Lapped
  /\ lines' = lines + 1
  /\ claimed' = [claimed EXCEPT ![head] = lines + 1]
  /\ overlapped' = IF FillersOf(head) = {} THEN overlapped \ {head}
                                           ELSE overlapped \cup {head}
  /\ UNCHANGED <<entry, reading>>

\* Mutant: a line goes to the newest slot, not to the claimed one.
NewestSlot(w) == Newest

ClaimedSlot(w) == writer[w].slot

\* timestamp_ms, level, tag and msg, which overwrites whatever was appended to
\* the slot since it was claimed.
FillBegins(w) ==
  /\ writer[w].at = "claimed"
  /\ entry' = [entry EXCEPT ![ClaimedSlot(w)] = [line |-> writer[w].line, whole |-> FALSE]]
  /\ writer' = [writer EXCEPT ![w].at = "fill"]
  /\ UNCHANGED <<ring, reading, history>>

\* Nobody else has written to the slot since FillBegins.
Undisturbed(w) ==
  /\ entry[ClaimedSlot(w)] = [line |-> writer[w].line, whole |-> FALSE]
  /\ \A v \in Writers \ {w} :
       ~(writer[v].at = "fill" /\ writer[v].slot = writer[w].slot)

FillEnds(w) ==
  /\ writer[w].at = "fill"
  /\ \E content \in {[line |-> writer[w].line, whole |-> TRUE]}
                      \cup (IF Undisturbed(w) THEN {} ELSE {NoLine}) :
       entry' = [entry EXCEPT ![ClaimedSlot(w)] = content]
  /\ writer' = [writer EXCEPT ![w] = NotLogging]
  /\ UNCHANGED <<ring, reading, history>>

\* A line without a tag goes to the slot before head, whosever that is: under
\* the lock, which does not stop a task that is filling the slot, the length of
\* its message is taken ...
AppendMeasures(w) ==
  /\ writer[w].at = "idle" /\ Unlocked
  /\ writer' = [writer EXCEPT ![w] =
       [at |-> "append", slot |-> Newest, line |-> 0,
        seen |-> IF BeingFilled(Newest) THEN NoLine ELSE entry[Newest]]]
  /\ UNCHANGED <<ring, entry, reading, history>>

\* ... and the line is written after so many characters, if it has room there.
\* In the message that was measured that is behind its end; in one that came
\* after that, it may be in its middle.
AppendWrites(w) ==
  /\ writer[w].at = "append"
  /\ LET i == writer[w].slot
     IN \/ UNCHANGED <<entry, overlapped>>
        \/ /\ BeingFilled(i) \/ entry[i] # writer[w].seen
           /\ entry' = [entry EXCEPT ![i] = NoLine]
           /\ overlapped' = overlapped \cup {i}
  /\ writer' = [writer EXCEPT ![w] = NotLogging]
  /\ UNCHANGED <<ring, reading, lines, claimed>>

Log(w) ==
  Claim(w) \/ FillBegins(w) \/ FillEnds(w) \/ AppendMeasures(w) \/ AppendWrites(w)
-----------------------------------------------------------------------------
(* handler_log, in the HTTP task *)

Reading(from) == reader.at = from /\ UNCHANGED <<entry, writer, history>>

\* atoi takes any number, a negative one too.
Request ==
  /\ Reading("idle")
  /\ \E start \in Starts, count \in Counts, clear \in BOOLEAN, info \in BOOLEAN :
       reader' = [NotReading EXCEPT !.at = IF clear THEN "clear" ELSE "info",
                                    !.start = start, !.want = count,
                                    !.info = info]
  /\ UNCHANGED <<ring, out, unsettled>>

\* log_buffer_clear
Clear ==
  /\ Reading("clear") /\ Unlocked
  /\ head' = 0 /\ wrapped' = FALSE
  /\ reader' = [reader EXCEPT !.at = "info"]
  /\ UNCHANGED <<out, unsettled>>

\* The handler takes the count and fits the end of the request to it, and its
\* start if it is beyond the end, but not if it is negative.  It answers at
\* once when the count is all it was asked for, when nothing is left to read or
\* when malloc fails.
Info ==
  /\ Reading("info") /\ Unlocked
  /\ LET start == IF reader.start > Count
                  THEN IF Count > 0 THEN Count - 1 ELSE 0
                  ELSE reader.start
         want == IF start + reader.want > Count
                 THEN Count - start ELSE reader.want
     IN \/ reader' = NotReading
        \/ /\ ~reader.info /\ want > 0
           /\ reader' = [reader EXCEPT !.at = "read", !.start = start,
                                       !.want = want]
  /\ UNCHANGED <<ring, out, unsettled>>

\* Mutant: the newest line counts as beyond the end.
PastTheEndByOne == reader.start + 1 >= Count

PastTheEnd == reader.start >= Count

\* log_buffer_read takes the count once more: its answer to a start beyond it,
\* or where and how much to copy.
ReadSlots ==
  /\ Reading("read") /\ Unlocked
  /\ \/ PastTheEnd /\ reader' = [reader EXCEPT !.at = "respond"]
     \/ /\ ~PastTheEnd
        /\ reader' = [reader EXCEPT
             !.at = "copy",
             !.take = IF reader.start + reader.want > Count
                      THEN Count - reader.start ELSE reader.want,
             !.base = Nth(reader.start),
             !.asked = lines - Count + 1 + reader.start]
  /\ UNCHANGED <<ring, out, unsettled>>

\* src: with a negative start it may be before the first slot.
Source == Around(reader.base + reader.copied)

\* The memcpy of a slot, which takes no lock: its first byte ...
CopyBegins ==
  /\ Reading("copy")
  /\ reader' = [reader EXCEPT
       !.at = "copying",
       !.seen = IF Source \notin Slots \/ BeingFilled(Source) \/ BeingAppended(Source)
                THEN NoLine ELSE entry[Source]]
  /\ UNCHANGED <<ring, out, unsettled>>

\* Nobody has written to the slot since CopyBegins.
Unwritten ==
  /\ Source \in Slots /\ reader.seen = entry[Source]
  /\ ~BeingFilled(Source) /\ ~BeingAppended(Source)

\* A copy gets what is there when it ends, what was there when it began, or
\* something of both.
Copies ==
  IF Source \notin Slots THEN {NoLine}
  ELSE IF Unwritten THEN {entry[Source]}
  ELSE {reader.seen, entry[Source], NoLine}

\* ... and its last.
CopyEnds ==
  /\ Reading("copying")
  /\ \E content \in Copies :
       out' = [i \in 0..reader.copied |->
                 IF i = reader.copied THEN content ELSE out[i]]
  /\ unsettled' = IF Unwritten /\ Source \notin overlapped /\ FillersOf(Source) = {}
                  THEN unsettled ELSE unsettled \cup {reader.copied}
  /\ reader' = [reader EXCEPT !.copied = reader.copied + 1, !.seen = NoLine,
                              !.at = IF reader.copied + 1 = reader.take
                                     THEN "respond" ELSE "copy"]
  /\ UNCHANGED ring

Respond ==
  /\ Reading("respond")
  /\ reader' = NotReading /\ out' = Nothing /\ unsettled' = {}
  /\ UNCHANGED ring

Serve ==
  Request \/ Clear \/ Info \/ ReadSlots \/ CopyBegins \/ CopyEnds \/ Respond
-----------------------------------------------------------------------------
Next == (\E w \in Writers : Log(w)) \/ Serve

Spec == Init /\ [][Next]_vars
-----------------------------------------------------------------------------
(* log_buffer.h:56 "Entries are ordered oldest-to-newest": the slots that a   *)
(* reader sees belong to the last Count lines, in the order of their claims,  *)
(* across wrap-around and clear.                                              *)
RingInOrder ==
  \A i \in 0..Count - 1 :
    claimed[Around(Oldest + i)] = lines - Count + 1 + i

\* A slot that nobody is filling holds the line that claimed it, whole, unless
\* the slot was claimed from under a task that was filling it, or an append that
\* had measured another message was written into this one.
SettledSlotHoldsItsLine ==
  \A i \in Slots \ overlapped :
    FillersOf(i) = {} => entry[i] = [line |-> claimed[i], whole |-> TRUE]

\* Where nobody writes to a slot while it is copied, an answer has the line that
\* was asked for there, whole, or if that has left the ring meanwhile, a later
\* one: never an older one, nor what a line before has left in the slot.  That is
\* for requests with a start that is not negative.
ReadsWhatWasAsked ==
  reader.start >= 0 =>
    \A i \in DOMAIN out \ unsettled :
      LET line == reader.asked + i
      IN /\ out[i].whole
         /\ out[i].line = line \/ (out[i].line > line /\ line <= lines - Count)

\* handler_log counts, and log_buffer_read counts again after the lock was
\* free; the answer has as many entries as the handler made room for.
ReadIsComplete == reader.at = "respond" => reader.copied = reader.want
=============================================================================
