------------------------------ MODULE MemoryMap ------------------------------
(***************************************************************************)
(* The text of MEMORY.md: the entries the topic operations put into its    *)
(* memory map, the exact edit, the bounds a write must keep, and the       *)
(* bounded text a session reads (bootstrap.ts).  MemoryTransaction says    *)
(* when these happen; here they happen one after the other.                *)
(*                                                                         *)
(* Abstracted: a line is one of a few kinds with a few characters, a       *)
(* character is the number of its bytes; lines end in one newline, so a    *)
(* mixture of line ends, which the insertion evens out, is left out.  The  *)
(* code takes a line for the placeholder wherever it holds its phrase, and *)
(* reads lines, not Markdown: here the placeholder is one line, and there  *)
(* are no fences and no nested lists.                                      *)
(***************************************************************************)
EXTENDS Naturals, Sequences, SequencesExt, FiniteSetsExt

CONSTANTS
  Topic,
  MaxLines,     \* MAX_BOOTSTRAP_LINES
  MaxBytes,     \* MAX_BOOTSTRAP_BYTES
  MaxInitial,   \* lines of the file there is at first
  MaxEdits,     \* times the file is changed other than by a topic
  None

VARIABLES
  file,         \* the lines of MEMORY.md, None while there is no file
  foreign,      \* the lines as a person last left them
  added,        \* topics put into the map since then
  shown,        \* the characters a session reads of the file as it is
  edits

mapVars == <<file, foreign, added, shown, edits>>

Line(kind, topic) == [kind |-> kind, topic |-> topic]
Heading == Line("## Memory map", None)
Section == Line("## another section", None)
Placeholder == Line("No topic memories yet.", None)
Prose == Line("prose", None)
Blank == Line("", None)
Entry(t) == Line("canonical entry", t)
Mention(t) == Line("other entry", t)     \* - `t` → something else

\* What the editors of the model write.
Written == {Heading, Section, Placeholder, Prose, Blank}
             \cup {Entry(t) : t \in Topic} \cup {Mention(t) : t \in Topic}

\* INITIAL_MEMORY_MD_CONTENT, shortened; the last line is what follows the last newline.
InitialContent == <<Section, Heading, Placeholder, Blank>>

-----------------------------------------------------------------------------
(* Characters and bytes *)

\* A character is its width in UTF-8, but for the newline, a character of one byte, and for
\* the three-byte character that decoding puts in the place of an incomplete one.
Newline == 0
Replacement == 5
Continuation == 6
Width(c) == IF c = Newline THEN 1 ELSE IF c = Replacement THEN 3 ELSE c

Characters(line) ==
  CASE line = Blank -> <<>>
    [] line = Prose -> <<4>>
    [] line.kind = "canonical entry" -> <<1, 3>>
    [] OTHER -> <<1>>

Text(lines) == Tail(FlattenSeq([i \in DOMAIN lines |-> <<Newline>> \o Characters(lines[i])]))

\* A character's first byte says how many there are.
Encode(text) ==
  FlattenSeq([i \in DOMAIN text |-> [j \in 1..Width(text[i]) |-> IF j = 1 THEN text[i] ELSE Continuation]])

Decode(bytes) ==
  LET lead == SelectSeq([i \in DOMAIN bytes |-> i], LAMBDA i : bytes[i] # Continuation)
  IN  [n \in DOMAIN lead |->
         IF lead[n] + Width(bytes[lead[n]]) - 1 <= Len(bytes) THEN bytes[lead[n]] ELSE Replacement]

TruncateLines(text) ==
  LET ends == {i \in DOMAIN text :
                 text[i] = Newline /\ Len(SelectSeq(SubSeq(text, 1, i), LAMBDA c : c = Newline)) = MaxLines}
  IN  IF ends = {} THEN text ELSE SubSeq(text, 1, Min(ends))

TruncateUtf8(bytes) ==
  LET leads == {i \in 1..Min({MaxBytes, Len(bytes)}) : bytes[i] # Continuation}
      last == Max(leads)
      complete == last + Width(bytes[last]) - 1
  IN  CASE Len(bytes) <= MaxBytes -> bytes
        [] Len(bytes) > MaxBytes /\ leads = {} -> <<>>
        [] Len(bytes) > MaxBytes /\ leads # {} ->
             SubSeq(bytes, 1, IF complete <= MaxBytes THEN complete ELSE last - 1)

\* A plausible slip: the read stops at the limit.
ReadNoFurther == MaxBytes

\* The read stops a little behind the limit, where a character may cross it.
ReadPrefix == MaxBytes + 4

Bounded(text) ==
  LET bytes == Encode(text)
      read == SubSeq(bytes, 1, Min({Len(bytes), ReadPrefix}))
  IN  Decode(TruncateUtf8(Encode(TruncateLines(Decode(read)))))

WithinBounds(lines) ==
  /\ Len(Encode(Text(lines))) <= MaxBytes
  /\ TruncateLines(Text(lines)) = Text(lines)

-----------------------------------------------------------------------------
(* The memory map *)

TrimEnd(lines) ==
  LET full == {i \in DOMAIN lines : lines[i] # Blank}
  IN  IF full = {} THEN <<>> ELSE SubSeq(lines, 1, Max(full))

Headings(lines) == {i \in DOMAIN lines : lines[i] = Heading}

SectionLines(lines, heading) ==
  {i \in heading + 1..Len(lines) : \A j \in heading + 1..i : lines[j] \notin {Section, Heading}}

\* A plausible slip: the lines that map t already are left where they are.
SettleFirst(lines, mapping, t) == [lines EXCEPT ![Min(mapping)] = Entry(t)]

\* The first line that maps t becomes its entry, the others go.
Settle(lines, mapping, t) ==
  FlattenSeq([i \in DOMAIN lines |->
                IF i = Min(mapping) THEN <<Entry(t)>> ELSE IF i \in mapping THEN <<>> ELSE <<lines[i]>>])

\* insertTopicIntoMemoryMapContent of a file with at most one heading.
WithTopic(lines, t) ==
  LET heading == Min(Headings(lines))
      section == SectionLines(lines, heading)
      mapping == {i \in section : lines[i].topic = t}
      places == {i \in section : lines[i] = Placeholder}
      bullets == {i \in section : lines[i].topic # None}
      leading == {i \in section : \A j \in heading + 1..i : lines[j] = Blank}
  IN  CASE Headings(lines) = {} ->
             LET kept == TrimEnd(lines)
             IN  kept \o (IF kept = <<>> THEN <<>> ELSE <<Blank>>) \o <<Heading, Blank, Entry(t), Blank>>
        [] Headings(lines) # {} /\ mapping # {} -> Settle(lines, mapping, t)
        [] Headings(lines) # {} /\ mapping = {} /\ places # {} -> [lines EXCEPT ![Min(places)] = Entry(t)]
        [] Headings(lines) # {} /\ mapping = {} /\ places = {} ->
             InsertAt(lines, Max({heading} \cup leading \cup bullets) + 1, Entry(t))

-----------------------------------------------------------------------------
(* Operations; one that throws leaves the file as it was *)

\* A person, or a tool that takes the text from the model, left these lines.
Left(lines) ==
  /\ edits < MaxEdits
  /\ edits' = edits + 1
  /\ file' = lines
  /\ foreign' = lines
  /\ added' = {}
  /\ shown' = None

\* A read of the whole file refuses one that is too large.
Readable(lines) == Len(Encode(Text(lines))) <= MaxBytes

Ensure == file = None /\ Left(InitialContent)

Write(lines) == WithinBounds(lines) /\ Left(lines)

\* The text to replace must be there exactly once.
Edit(old, new) ==
  /\ file # None
  /\ Readable(file)
  /\ old # Blank
  /\ \E i \in DOMAIN file :
       /\ {j \in DOMAIN file : file[j] = old} = {i}
       /\ WithinBounds(ReplaceAt(file, i, new))
       /\ Left(ReplaceAt(file, i, new))

\* An editor outside DSH keeps to no bounds.
EditedOutside == file # None /\ Left(Append(file, Prose))

AddTopic(t) ==
  LET current == IF file = None THEN InitialContent ELSE file
      updated == WithTopic(current, t)
  IN  /\ Readable(current)
      /\ Cardinality(Headings(current)) <= 1
      /\ WithinBounds(updated)
      /\ file' = updated
      /\ foreign' = IF file = None THEN current ELSE foreign
      /\ added' = added \cup {t}
      /\ shown' = None
      /\ UNCHANGED edits

Read ==
  /\ file # None
  /\ shown' = Bounded(Text(file))
  /\ UNCHANGED <<file, foreign, added, edits>>

Init ==
  /\ file \in {None} \cup UNION {[1..n -> Written] : n \in 1..MaxInitial}
  /\ foreign = file
  /\ added = {}
  /\ shown = None
  /\ edits = 0

Next ==
  \/ Ensure
  \/ \E line \in Written : Write(<<line>>)
  \/ \E old, new \in Written : Edit(old, new)
  \/ EditedOutside
  \/ \E t \in Topic : AddTopic(t)
  \/ Read

Spec == Init /\ [][Next]_mapVars

-----------------------------------------------------------------------------
(* Properties *)

\* Whatever a person left in MEMORY.md, the topics put into the map since then have one entry
\* each, in the section of the map; every other line stands where it stood among the others,
\* the lines up to the heading untouched; and a session that reads the file sees all of it
\* (insertTopicIntoMemoryMapContent with the bounds of the write and of the read).
MapKept ==
  added # {} =>
    LET heading == Min(Headings(file))
        section == SectionLines(file, heading)
        Others(lines) == SelectSeq(lines, LAMBDA l : l \notin {Blank, Placeholder} /\ l.topic \notin added)
    IN  /\ \A t \in added : \E i \in section :
             file[i] = Entry(t) /\ {j \in section : file[j].topic = t} = {i}
        /\ IF Headings(foreign) = {}
           THEN Others(file) = Others(foreign) \o <<Heading>>
           ELSE Others(file) = Others(foreign) /\ SubSeq(file, 1, heading) = SubSeq(foreign, 1, heading)
        /\ shown \in {None, Text(file)}

\* A session is shown the longest beginning of MEMORY.md that is within both limits and ends
\* between two characters, though no more than a little past the limit is read of the file
\* (boundedUtf8Bootstrap, readProjectMemoryBootstrap).
ShownIsLongest ==
  shown # None =>
    LET Newlines(text) == Len(SelectSeq(text, LAMBDA c : c = Newline))
        Bytes(text) == FoldSeq(LAMBDA c, n : n + Width(c), 0, text)
        within == {p \in Prefixes(Text(file)) :
                     /\ Bytes(p) <= MaxBytes
                     /\ Newlines(p) < MaxLines \/ (Newlines(p) = MaxLines /\ p[Len(p)] = Newline)}
    IN  shown \in within /\ \A p \in within : Len(p) <= Len(shown)
=============================================================================
