------------------------------ MODULE ControlSink ------------------------------
(****************************************************************************)
(* What a client may see of a reply while it is being written: the sink that *)
(* stands between the provider's deltas and the stream of a dialogue turn   *)
(* (crates/ene-companion/src/dialogue.rs, ControlHoldingSink), and what the  *)
(* turn makes of the whole text at its end (finish_turn).                    *)
(*                                                                          *)
(* A reply is ordinary text, or one task command that begins with the       *)
(* marker [task-control].  The marker arrives in pieces of any size, so the  *)
(* sink holds back what could still become one.  A text is a sequence of     *)
(* symbols: those of the marker, a space and anything else.                  *)
(*                                                                          *)
(* The sink is given the text as the provider sent it; what is interpreted   *)
(* and stored at the end is scrubbed of the registered credential, of which  *)
(* there is one or none.                                                     *)
(****************************************************************************)
EXTENDS Naturals, Sequences, SequencesExt, FiniteSets

CONSTANTS
  Marker,      \* the marker, as a sequence of symbols
  Space,       \* white space
  Symbols,     \* every symbol, Space and those of Marker included
  Mask,        \* REDACTED_CREDENTIAL
  Secrets,     \* values the credential may have; the empty one: none is registered
  Tails,       \* what a task command may be answered with
  MaxText,     \* bound: the length of a reply
  MaxDelta     \* bound: the length of a delta

ControlSinkAssumption ==
  /\ Marker \in Seq(Symbols \ {Space}) /\ Len(Marker) > 0
  /\ Space \in Symbols
  /\ Mask \notin Symbols
  /\ Secrets \cup Tails \subseteq Seq(Symbols)
  /\ MaxText \in Nat /\ MaxDelta \in Nat \ {0}

VARIABLES
  text,        \* what the provider has sent
  pushed,      \* what was handed to the stream
  buffer,      \* what the sink holds back
  mode,        \* Undecided, Ordinary, Directive or LateMarker
  outcome,     \* Running, or what the turn made of the text
  stored,      \* the row of the reply in the history, if there is one
  secret       \* the credential; it does not change here

vars == <<text, pushed, buffer, mode, outcome, stored, secret>>

----------------------------------------------------------------------------
(* The marker in a text.                                                     *)

MarkersAt(s) == { i \in 1 .. Len(s) : IsPrefix(Marker, SubSeq(s, i, Len(s))) }
First(S) == CHOOSE i \in S : \A j \in S : i <= j
Solid(s) == { i \in 1 .. Len(s) : s[i] # Space }
Before(s, i) == SubSeq(s, 1, i - 1)
From(s, i) == SubSeq(s, i, Len(s))

\* The lengths a held suffix may have: one that could still become a marker.
Holds(s) == { n \in 1 .. (Len(Marker) - 1) :
                n <= Len(s) /\ SubSeq(s, Len(s) - n + 1, Len(s)) = SubSeq(Marker, 1, n) }
\* Mutated: the hold ends one symbol short of a whole marker.
HoldLengthShort(s) ==
  IF Holds(s) \ {Len(Marker) - 1} = {} THEN 0
  ELSE CHOOSE n \in Holds(s) \ {Len(Marker) - 1} : \A k \in Holds(s) \ {Len(Marker) - 1} : k <= n

\* Mutated: as much as a marker less one is held, whatever it is.
HoldLengthBlind(s) == IF Len(s) < Len(Marker) THEN Len(s) ELSE Len(Marker) - 1

HoldLength(s) == IF Holds(s) = {} THEN 0 ELSE CHOOSE n \in Holds(s) : \A k \in Holds(s) : k <= n

\* CredentialScrubber::scrub: every occurrence, from the left, is masked.
Scrubbed(s) ==
  FoldLeft(LAMBDA done, c : IF secret # << >> /\ IsSuffix(secret, Append(done, c))
                            THEN Append(Before(done, Len(done) - Len(secret) + 2), Mask)
                            ELSE Append(done, c), << >>, s)
Says(s) == secret # << >> /\ \E i \in 1 .. Len(s) : IsPrefix(secret, From(s, i))

----------------------------------------------------------------------------
(* The sink.                                                                 *)

\* flush_ordinary: the text before a marker is the last that is published;
\* without one, all but a suffix that could begin one.
FlushOrdinary(s) ==
  IF MarkersAt(s) # {}
  THEN /\ pushed' = pushed \o Before(s, First(MarkersAt(s)))
       /\ buffer' = << >> /\ mode' = "LateMarker"
  ELSE LET keep == Len(s) - HoldLength(s)
       IN  /\ pushed' = pushed \o SubSeq(s, 1, keep)
           /\ buffer' = From(s, keep + 1) /\ mode' = "Ordinary"

\* decide_undecided: white space decides nothing; a marker as the first thing
\* makes the reply a directive; a candidate that is a part of the marker waits.
DecideUndecided(s) ==
  \/ /\ Solid(s) = {}
     /\ buffer' = s /\ UNCHANGED <<pushed, mode>>
  \/ /\ Solid(s) # {} /\ First(Solid(s)) \in MarkersAt(s)
     /\ buffer' = << >> /\ mode' = "Directive" /\ UNCHANGED pushed
  \/ /\ Solid(s) # {} /\ First(Solid(s)) \notin MarkersAt(s)
     /\ IF Len(s) - First(Solid(s)) + 1 < Len(Marker) /\ IsPrefix(From(s, First(Solid(s))), Marker)
        THEN buffer' = s /\ UNCHANGED <<pushed, mode>>
        ELSE FlushOrdinary(s)

Push(d) ==
  \/ mode \in {"Directive", "LateMarker"} /\ UNCHANGED <<pushed, buffer, mode>>
  \/ mode = "Ordinary" /\ FlushOrdinary(buffer \o d)
  \/ mode = "Undecided" /\ DecideUndecided(buffer \o d)

\* Mutated: a reply that was never decided loses what is held.
FinalizeDecided ==
  /\ buffer' = << >>
  /\ pushed' = IF mode = "Ordinary" THEN pushed \o buffer ELSE pushed
  /\ UNCHANGED mode

\* finalize: what is still held is ordinary text after all.
Finalize ==
  /\ buffer' = << >>
  /\ pushed' = IF mode \in {"Undecided", "Ordinary"} THEN pushed \o buffer ELSE pushed
  /\ UNCHANGED mode

----------------------------------------------------------------------------
(* The turn.                                                                 *)

\* interpret_task_control: one marker, at the head of the first line that is
\* not empty, and a body that parses; the body is one symbol or more here, and
\* whether it parses is the provider's choice.
OneDirective(s) == Cardinality(MarkersAt(s)) = 1 /\ First(Solid(s)) \in MarkersAt(s)

Init ==
  /\ text = << >> /\ pushed = << >> /\ buffer = << >>
  /\ mode = "Undecided" /\ outcome = "Running"
  /\ stored = << >> /\ secret \in Secrets

Arrive(d) ==
  /\ outcome = "Running" /\ Len(text) + Len(d) <= MaxText
  /\ text' = text \o d
  /\ Push(d)
  /\ UNCHANGED <<outcome, stored, secret>>

Interrupts == outcome' = "Interrupted" /\ UNCHANGED stored

\* append_reply_with_undelivered, unless one of its premises has moved.
Store(kind, s) == Interrupts \/ (outcome' = kind /\ stored' = <<s>>)

\* Mutated: the text is stored as the provider sent it.
SettleOrdinaryRaw ==
  /\ outcome = "Running" /\ mode \in {"Undecided", "Ordinary"}
  /\ Finalize
  /\ Store("Reply", text)
  /\ UNCHANGED <<text, secret>>

\* The provider has answered, the answer could be scrubbed and the turn is
\* still the current one.
SettleOrdinary ==
  /\ outcome = "Running" /\ mode \in {"Undecided", "Ordinary"}
  /\ Finalize
  /\ Store("Reply", Scrubbed(text))
  /\ UNCHANGED <<text, secret>>

\* A command is answered, and the answer scrubbed, shown and stored.
Command(tail) ==
  /\ pushed' = pushed \o Scrubbed(tail)
  /\ Store("Command", Scrubbed(tail))

\* Mutated: the command is read from the text as the provider sent it.
SettleDirectiveRaw ==
  /\ outcome = "Running" /\ mode = "Directive"
  /\ \/ Interrupts /\ UNCHANGED pushed
     \/ OneDirective(text) /\ \E tail \in Tails : Command(tail)
  /\ UNCHANGED <<text, buffer, mode, secret>>

\* The scrubbed text is interpreted; a command may be invalid, unavailable or
\* its answer refused by the stream.
SettleDirective ==
  /\ outcome = "Running" /\ mode = "Directive"
  /\ \/ Interrupts /\ UNCHANGED pushed
     \/ OneDirective(Scrubbed(text)) /\ \E tail \in Tails : Command(tail)
  /\ UNCHANGED <<text, buffer, mode, secret>>

\* A late marker, a provider that failed, an answer not adopted or not
\* scrubbed, a turn that is stale.
Abandon ==
  /\ outcome = "Running" /\ Interrupts
  /\ UNCHANGED <<text, pushed, buffer, mode, secret>>

Deltas == UNION { [1 .. n -> Symbols] : n \in 1 .. MaxDelta }

Next == (\E d \in Deltas : Arrive(d)) \/ SettleOrdinary \/ SettleDirective \/ Abandon
Spec == Init /\ [][Next]_vars

----------------------------------------------------------------------------
(* Properties.                                                               *)

\* What may be seen of a text whatever follows it: all before the first symbol
\* a marker begins or could begin with.
Begins(s) == { i \in 1 .. Len(s) : IsPrefix(Marker, From(s, i)) \/ IsPrefix(From(s, i), Marker) }
Presentable(s) == Before(s, First(Begins(s) \union {Len(s) + 1}))

\* Texts of symbols, a mode and an outcome of the code.
TypeOK ==
  /\ {text, buffer, secret} \subseteq Seq(Symbols) /\ pushed \in Seq(Symbols \cup {Mask})
  /\ mode \in {"Undecided", "Ordinary", "Directive", "LateMarker"}
  /\ outcome \in {"Running", "Reply", "Command", "Interrupted"}
  /\ Len(stored) <= 1

\* However the deltas are cut: while the text is being written nothing is
\* shown that is, or could become, the marker or what follows it; and a turn
\* that is interrupted has shown no more than that, all of a text without a
\* marker, or the answer to a command.
NothingOfTheMarker ==
  /\ outcome = "Running" => IsPrefix(pushed, Presentable(text))
  /\ outcome = "Interrupted" =>
       \/ IsPrefix(pushed, Presentable(text))
       \/ MarkersAt(text) = {} /\ pushed = text
       \/ OneDirective(Scrubbed(text)) /\ \E tail \in Tails : pushed = Scrubbed(tail)

\* A text that has begun is streamed as it arrives: nothing more is held back
\* than a part of a marker.
NothingHeldLong ==
  (outcome = "Running" /\ mode = "Ordinary") => pushed = Presentable(text)

\* A reply has shown the text to the letter, without a marker in it, and is
\* stored as that text scrubbed: what is shown is what is stored, but for the
\* credential.  A command has shown its answer as it is stored, and was one
\* command when scrubbed.  No row says the credential.
ShownIsStored ==
  /\ outcome = "Reply" => /\ pushed = text /\ MarkersAt(text) = {}
                          /\ stored = <<Scrubbed(text)>>
                          /\ ~Says(text) => stored = <<pushed>>
  /\ outcome = "Command" => stored = <<pushed>> /\ OneDirective(Scrubbed(text))
  /\ stored # << >> => ~Says(stored[1])

\* What is shown of a text while it arrives, and in the end.
SinkSafe == TypeOK /\ NothingOfTheMarker /\ NothingHeldLong /\ ShownIsStored

=============================================================================
