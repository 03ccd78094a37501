------------------------------ MODULE Redaction ------------------------------
(***************************************************************************)
(* Redaction of an event between its verification and its storage          *)
(* (internal/redaction/redactor.go, cmd/ingestion/main.go and pipeline.go).*)
(*                                                                         *)
(* A text is a sequence of words and blanks.  The arguments of a tool call *)
(* are redacted as raw JSON text: values between the tokens of its         *)
(* structure, with a blank after the comma or not (protojson leaves that   *)
(* open).  A value is a string or a bare number; in a string the words are *)
(* apart by blanks or by an escape (\n), which is no blank.  A pattern     *)
(* matches kinds of words and numbers; a greedy one (\S+, [^\s]+) goes on  *)
(* to the next blank, through whatever structure comes first.              *)
(*                                                                         *)
(* Of a match the marker is left, at the place of its first word; the      *)
(* others are gone, and nothing is there for a pattern to stop at.  The    *)
(* place of a number is bare, without quotes.  The letter of the escape    *)
(* before a word is a letter to a pattern: one that wants a boundary (\b)  *)
(* before a digit misses the word, one that takes any letters (an email's  *)
(* name) takes the letter as well and leaves a cut escape.                 *)
(***************************************************************************)
EXTENDS Naturals, Sequences, SequencesExt, Functions

CONSTANTS
  Words, Bare,        \* kinds of words and of numbers
  DefaultPatterns,    \* sequence of [hits, greedy, escaped, valid]
  CustomPatterns,     \* those of the config
  MaxWords,           \* bound on the words of a text
  None

Structure == {"open", "close", "endvalue", "nextvalue"}
Other == {"sp", "esc", "marker", "gone", "bare", "cut"}

\* "escaped" says what a pattern makes of a word after an escape: it is found, taken
\* with the letter of the escape, or missed.
Pattern ==
  [hits : SUBSET (Words \cup Bare), greedy : BOOLEAN, valid : BOOLEAN,
   escaped : {"found", "taken", "missed"}]

\* What the constants are, assumed by the module that gives them values.  Patterns
\* match words and numbers, and the marker is none.
RedactionAssumption ==
  /\ MaxWords \in Nat
  /\ Words \cap Bare = {} /\ (Words \cup Bare) \cap (Structure \cup Other) = {}
  /\ DefaultPatterns \in Seq(Pattern) /\ CustomPatterns \in Seq(Pattern)
  /\ \A p \in Range(DefaultPatterns) : p.valid

VARIABLES
  event,      \* the event as it was verified
  now,        \* the event in the handler
  redacted,   \* RedactedFields
  phase,      \* "verified", "redacted", "stored" or "store_error"
  line        \* the event in the store

vars == <<event, now, redacted, phase, line>>

-----------------------------------------------------------------------------
Joined(ws, apart) ==
  [i \in 1 .. 2 * Len(ws) - 1 |-> IF i % 2 = 1 THEN ws[(i + 1) \div 2] ELSE apart]

RawTexts == {Joined(ws, "sp") : ws \in BoundedSeq(Words, MaxWords)}

Values ==
  {Joined(ws, apart) : ws \in BoundedSeq(Words, MaxWords) \ {<<>>}, apart \in {"sp", "esc"}}
    \cup {<<n>> : n \in Bare}

Commas == {<<"endvalue", "nextvalue">>, <<"endvalue", "sp", "nextvalue">>}

\* The raw JSON of an object with one value or two.
RawObjects ==
  {<<"open">> \o v \o <<"close">> : v \in Values}
    \cup {<<"open">> \o v \o c \o w \o <<"close">> : v \in Values, c \in Commas, w \in Values}

\* json.Marshal refuses raw JSON that does not parse: the structure is whole when
\* it is closed and no comma is cut in two, and no marker is a value of its own and
\* no escape without its letter.
WellFormed(raw) ==
  /\ \A i \in DOMAIN raw : raw[i] = "open" <=> i = 1
  /\ raw # <<>> /\ Last(raw) = "close"
  /\ \A i \in DOMAIN raw :
       /\ raw[i] \notin {"bare", "cut"}
       /\ raw[i] = "endvalue" =>
            raw[i + 1] = "nextvalue" \/ (raw[i + 1] = "sp" /\ raw[i + 2] = "nextvalue")
       /\ raw[i] = "nextvalue" =>
            raw[i - 1] = "endvalue" \/ (raw[i - 1] = "sp" /\ raw[i - 2] = "endvalue")

\* Prompt events and tool calls; labels are not looked at.
RawEvents ==
  [content : RawTexts, arguments : {None}, error_msg : {<<>>}, label : {<<>>} \cup {<<w>> : w \in Words}]
    \cup [content : {<<>>}, arguments : RawObjects, label : {<<>>},
          error_msg : {<<>>} \cup {<<w>> : w \in Words}]

-----------------------------------------------------------------------------
Patterns == DefaultPatterns \o CustomPatterns

\* A match of p begins at token i.  Custom patterns that do not compile are left out.
Begins(p, s, i) ==
  /\ p.valid /\ s[i] \in p.hits
  /\ p.escaped = "missed" /\ i > 1 => s[i - 1] # "esc"

\* Token j is in a match of p that begins at i.
Covers(p, s, i, j) ==
  /\ i <= j /\ Begins(p, s, i)
  /\ i < j => p.greedy /\ \A k \in i..j : s[k] # "sp"

\* Token j is the escape whose letter a match of p takes.
Cuts(p, s, j) ==
  s[j] = "esc" /\ p.escaped = "taken" /\ j < Len(s) /\ Begins(p, s, j + 1)

\* Every match, from the left, gives way to the marker.
ReplaceAllString(p, s) ==
  [j \in DOMAIN s |->
     IF \E i \in 1 .. j - 1 : Covers(p, s, i, j) THEN "gone"
     ELSE IF Begins(p, s, j) THEN (IF s[j] \in Bare THEN "bare" ELSE "marker")
     ELSE IF Cuts(p, s, j) THEN "cut" ELSE s[j]]

\* Faulty variant: only the first pattern that matches is applied.
scrubFirst(s) ==
  LET hit == SelectInSeq(Patterns, LAMBDA p : ReplaceAllString(p, s) # s)
  IN  IF hit = 0 THEN s ELSE ReplaceAllString(Patterns[hit], s)

scrub(s) ==
  LET after[n \in 0..Len(Patterns)] ==
        IF n = 0 THEN s ELSE ReplaceAllString(Patterns[n], after[n - 1])
  IN  after[Len(Patterns)]

Init ==
  /\ event \in {e \in RawEvents : e.arguments # None => WellFormed(e.arguments)}
  /\ now = event /\ redacted = {} /\ phase = "verified" /\ line = None

\* The fields that changed are listed.
Redact ==
  /\ phase = "verified" /\ phase' = "redacted"
  /\ LET args == IF now.arguments = None THEN None ELSE scrub(now.arguments) IN
     /\ now' = [now EXCEPT !.content = scrub(@), !.error_msg = scrub(@), !.arguments = args]
     /\ redacted' = {f \in {"content", "error_msg"} : scrub(now[f]) # now[f]}
                      \cup {f \in {"arguments"} : args # now.arguments}
  /\ UNCHANGED <<event, line>>

\* Append marshals the event, and fails when the raw JSON is not well formed.
Persist ==
  /\ phase = "redacted"
  /\ IF now.arguments = None \/ WellFormed(now.arguments)
       THEN phase' = "stored" /\ line' = now
       ELSE phase' = "store_error" /\ UNCHANGED line
  /\ UNCHANGED <<event, now, redacted>>

Done == phase \in {"stored", "store_error"} /\ UNCHANGED vars

Next == Redact \/ Persist \/ Done

Spec == Init /\ [][Next]_vars

-----------------------------------------------------------------------------
Scrubbed == {"content", "arguments", "error_msg"}

\* No pattern matches what is stored in the fields that are scrubbed, raw JSON as
\* raw JSON, whatever the other patterns made of them (redactor.go:130-143).
NothingLeft ==
  line # None => \A f \in Scrubbed : line[f] = None \/
    \A p \in Range(Patterns) : ReplaceAllString(p, line[f]) = line[f]

\* The fields listed with the event are those that differ from what was sent
\* (redactor.go:83-128, pipeline.go:173-177).
ListedIffChanged ==
  phase # "verified" => redacted = {f \in DOMAIN event : now[f] # event[f]}

\* A match of p at i takes out of raw JSON more than text: it is of a number, it
\* takes the letter of an escape, or it runs through the end of a value.
BreaksOut(p, raw, i) ==
  /\ Begins(p, raw, i)
  /\ \/ raw[i] \in Bare
     \/ p.escaped = "taken" /\ i > 1 /\ raw[i - 1] = "esc"
     \/ p.greedy /\ \E j \in DOMAIN raw :
          raw[j] \in {"close", "endvalue"} /\ j > i /\ \A k \in i..j : raw[k] # "sp"

\* What is not stored has lost its form to such a match, and no event is lost for
\* another reason (redactor.go:47, 116-123).
LostToAMatchOnly ==
  phase = "store_error" =>
    \E i \in DOMAIN event.arguments : \E p \in Range(Patterns) :
      BreaksOut(p, event.arguments, i)

\* redactor.go:14-17: "Redact modifies the event in place, replacing sensitive
\* content with [REDACTED] markers", types/event.go:106 "Preserved as raw JSON":
\* a tool call with something to redact is stored.
RedactedIsStored == phase # "store_error"

\* redactor.go:82: "Redact scrubs sensitive content from all text fields of an
\* event."
AllTextScrubbed ==
  line # None => \A p \in Range(Patterns) : ReplaceAllString(p, line.label) = line.label
=============================================================================
