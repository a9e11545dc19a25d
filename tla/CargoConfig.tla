----------------------------- MODULE CargoConfig -----------------------------
(***************************************************************************)
(* src/src/cargo-config.js: reading and writing one setting in a file that *)
(* the user edits by hand and cargo reads.  The file is a sequence of      *)
(* lines; a line is what cargo and the patterns of locate tell apart.      *)
(* Indentation, quoting and line ends are left out, and an absent file is  *)
(* an empty one.                                                           *)
(***************************************************************************)
EXTENDS Integers, Sequences, SequencesExt, FiniteSetsExt, Ascending

CONSTANTS
  UserLines,  \* the lines the user may type
  Durations, ExcludeLists,
  MaxLines    \* nothing is added to a longer file

TABLE == "registry"
BARE_KEY == "global-min-publish-age"
None == "[]"     \* the empty exclude list; also what a marker nobody can parse holds

\* [table], with or without a comment behind it; name = value; table.name = value;
\* the marker comment; any other line.
Header(table, noted) == [kind |-> "table", table |-> table, name |-> "", value |-> "", noted |-> noted]
Assign(name, value) == [kind |-> "key", table |-> "", name |-> name, value |-> value, noted |-> FALSE]
Dotted(table, name, value) == [kind |-> "dotted", table |-> table, name |-> name, value |-> value, noted |-> FALSE]
Marker(excludes) == [kind |-> "marker", table |-> "", name |-> "", value |-> excludes, noted |-> FALSE]
Text(text) == [kind |-> "text", table |-> "", name |-> text, value |-> "", noted |-> FALSE]
Empty == Text("")

\* What these make, of any names and values: no table has the empty name.
IsLine(line) ==
  /\ line.kind = "table" => line.table # ""
  /\ line.kind = "key" => line.table = ""
  /\ line.noted => line.kind = "table"

ASSUME LinesAssumption == \A line \in UserLines : IsLine(line)

VARIABLES
  file,  \* .cargo/config.toml
  last   \* history: what the writer was asked to write, until the user's next edit

vars == <<file, last>>

NoWrite == [duration |-> "", excludes |-> None]

FirstOf(indexes) == IF indexes = {} THEN 0 ELSE Min(indexes)
LastOf(indexes) == IF indexes = {} THEN 0 ELSE Max(indexes)

-----------------------------------------------------------------------------
(* locate: one walk over the lines.                                          *)

\* tableOf wants nothing behind the bracket.
tableOf(line) == line.kind = "table" /\ ~line.noted
TableAt(lines, k) == LET h == LastOf({l \in 1 .. k : tableOf(lines[l])})
                     IN  IF h = 0 THEN "" ELSE lines[h].table

\* Mutant: the key is looked for whatever table is open.
AnyTable(lines) ==
  {k \in DOMAIN lines : lines[k].name = BARE_KEY /\ lines[k].kind \in {"key", "dotted"}}

Keys(lines) ==
  {k \in DOMAIN lines :
     /\ lines[k].name = BARE_KEY
     /\ \/ lines[k].kind = "dotted" /\ lines[k].table = TABLE /\ TableAt(lines, k) = ""
        \/ lines[k].kind = "key" /\ TableAt(lines, k) = TABLE}

IsMarker(line) == line.kind = "marker"

\* Mutant: only the key itself counts.
KeyDotted(lines) == {k \in DOMAIN lines : lines[k].kind = "dotted" /\ lines[k].table = TABLE
                                            /\ lines[k].name = BARE_KEY /\ TableAt(lines, k) = ""}

AnyDotted(lines) == {k \in DOMAIN lines : lines[k].kind = "dotted" /\ lines[k].table = TABLE
                                            /\ TableAt(lines, k) = ""}

locate(lines) ==
  [keyIndex |-> FirstOf(Keys(lines)),
   tableIndex |-> FirstOf({k \in DOMAIN lines : tableOf(lines[k]) /\ lines[k].table = TABLE}),
   lastDottedIndex |-> LastOf(AnyDotted(lines))]

\* readCargoConfig: the value, "" for none, and the exclude lists of all markers.
value(lines) == LET at == locate(lines)
                IN  IF at.keyIndex = 0 THEN "" ELSE lines[at.keyIndex].value
excludes(lines) == {lines[k].value : k \in {l \in DOMAIN lines : IsMarker(lines[l])}} \ {None}

-----------------------------------------------------------------------------
(* writeCargoConfig.                                                         *)

\* Mutant: markers written before stay.
KeepsMarkers(lines) == lines

kept(lines) == Filtered(lines, {k \in DOMAIN lines : ~IsMarker(lines[k])})

\* The spelling that is there; the table where there is none.
dotted(at, lines) == IF at.keyIndex > 0 THEN lines[at.keyIndex].kind = "dotted"
                     ELSE at.tableIndex = 0 /\ at.lastDottedIndex > 0

\* Mutant: the line at the place of insertion goes.
SpliceReplaces(lines, k, block) ==
  SubSeq(lines, 1, k) \o block \o SubSeq(lines, k + 2, Len(lines))

\* Insert the block behind line k.
InsertBehind(lines, k, block) ==
  SubSeq(lines, 1, k) \o block \o SubSeq(lines, k + 1, Len(lines))

Written(text, duration, list) ==
  LET lines == kept(text)
      at == locate(lines)
      assignment == IF dotted(at, lines) THEN Dotted(TABLE, BARE_KEY, duration)
                    ELSE Assign(BARE_KEY, duration)
      block == IF list = None THEN <<assignment>> ELSE <<Marker(list), assignment>>
  IN  IF at.keyIndex > 0
      THEN SubSeq(lines, 1, at.keyIndex - 1) \o block
             \o SubSeq(lines, at.keyIndex + 1, Len(lines))
      ELSE IF at.tableIndex > 0 THEN InsertBehind(lines, at.tableIndex, block)
      ELSE IF at.lastDottedIndex > 0 THEN InsertBehind(lines, at.lastDottedIndex, block)
      ELSE lines \o (IF lines # <<>> /\ Last(lines) # Empty THEN <<Empty>> ELSE <<>>)
                 \o <<Header(TABLE, FALSE)>> \o block

Write(duration, list) ==
  /\ Len(file) <= MaxLines
  /\ file' = Written(file, duration, list)
  /\ last' = [duration |-> duration, excludes |-> list]

-----------------------------------------------------------------------------
(* What cargo makes of the file.  A header counts with or without a comment. *)

Section(lines, k) == LastOf({l \in 1 .. k : lines[l].kind = "table"})
TopLevel(lines, k) == Section(lines, k) = 0
InTable(lines, k, table) == ~TopLevel(lines, k) /\ lines[Section(lines, k)].table = table

Headers(lines) == {k \in DOMAIN lines : lines[k].kind = "table" /\ lines[k].table = TABLE}
DottedAtTop(lines) == {k \in DOMAIN lines : TopLevel(lines, k) /\ lines[k].kind = "dotted"
                                              /\ lines[k].table = TABLE}
\* registry = { ... }
Inline(lines) == {k \in DOMAIN lines : TopLevel(lines, k) /\ lines[k].kind = "key"
                                         /\ lines[k].name = TABLE}

\* TOML: one spelling of a table, and no key twice.
Loads(lines) ==
  /\ \A k, l \in Headers(lines) \union Inline(lines) : k = l
  /\ DottedAtTop(lines) # {} => Headers(lines) = {} /\ Inline(lines) = {}
  /\ \A k, l \in DOMAIN lines :
       k # l /\ lines[k].kind \in {"key", "dotted"} /\ lines[l].kind = lines[k].kind
         /\ Section(lines, k) = Section(lines, l)
         => lines[k].table # lines[l].table \/ lines[k].name # lines[l].name

Settings(lines) ==
  {lines[k].value : k \in {l \in DOMAIN lines :
     /\ lines[l].name = BARE_KEY
     /\ \/ l \in DottedAtTop(lines)
        \/ lines[l].kind = "key" /\ InTable(lines, l, TABLE)}}

-----------------------------------------------------------------------------
(* The user inserts and deletes lines and leaves a file cargo loads.         *)

Edit(lines) == Loads(lines) /\ file' = lines /\ last' = NoWrite

Insert(k, line) == Len(file) < MaxLines /\ Edit(InsertAt(file, k, line))
Delete(k) == Edit(RemoveAt(file, k))

Init == file = <<>> /\ last = NoWrite

Next == \/ \E duration \in Durations, list \in ExcludeLists : Write(duration, list)
        \/ \E k \in 1 .. Len(file) + 1, line \in UserLines : Insert(k, line)
        \/ \E k \in DOMAIN file : Delete(k)

Spec == Init /\ [][Next]_vars

-----------------------------------------------------------------------------
(* Properties.                                                               *)

\* What the patterns of locate do not know: a header with a comment, an inline table.
Recognised(lines) == Inline(lines) = {} /\ \A k \in DOMAIN lines : ~lines[k].noted

\* "TOML forbids mixing them": whatever the user has and in whatever order edits and
\* writes come, cargo still loads the file after a write.
CargoLoads == Recognised(file) => Loads(file)

\* What readCargoConfig reports as the current value is the one cargo uses.
ReaderAgrees ==
  Recognised(file) =>
    Settings(file) = (IF locate(file).keyIndex = 0 THEN {} ELSE {value(file)})

\* After a write the reader gets the threshold and the exclude list back, not those of an
\* earlier write (exclusions are "round-tripped through a marker"), and cargo uses it.
WriteIsReadBack ==
  last # NoWrite => /\ value(file) = last.duration
                    /\ excludes(file) = {last.excludes} \ {None}
                    /\ Recognised(file) => Settings(file) = {last.duration}

\* Writing the same again changes nothing.
WriteIsIdempotent == last # NoWrite => Written(file, last.duration, last.excludes) = file

\* "The writer touches only the one assignment (or inserts one)": all other lines of the
\* user stay, in their order; where there is no place for the setting a table is added
\* at the end.
Mine(lines) == {k \in DOMAIN lines : IsMarker(lines[k])} \union Keys(lines)
Others(lines) == Filtered(lines, DOMAIN lines \ Mine(lines))
UserLinesKept ==
  [][last' # NoWrite =>
       \/ Others(file') = Others(file)
       \/ /\ locate(file).tableIndex = 0
          /\ Others(file') \in {Others(file) \o <<Header(TABLE, FALSE)>>,
                                Others(file) \o <<Empty, Header(TABLE, FALSE)>>}]_vars
=============================================================================
