------------------------------ MODULE UciDraft ------------------------------
(***************************************************************************)
(* The draft of one configuration file, and the two ways the panel tells a *)
(* person what is in it (openwrt/network_write.go).                        *)
(*                                                                         *)
(* A file is the sequence of its sections; `id' is the name uci uses inside*)
(* (`cfg05fe63', or a name somebody gave), `opt' the options, "" for one   *)
(* that is absent, which is what the code reads it as.  uci keeps the      *)
(* draft as a list of lines, printed by `uci changes': this module needs   *)
(* of a line which key it is about and whether it moves the section.       *)
(***************************************************************************)
EXTENDS Integers, Sequences, FiniteSets

Ids(file)     == {file[i].id : i \in DOMAIN file}
Pos(file, id) == CHOOSE i \in DOMAIN file : file[i].id = id
Of(file, id)  == file[Pos(file, id)]

\* Positions in a sequence: how many of a set of them are not after i, and the
\* n-th of them.
Rank(K, i) == Cardinality({j \in K : j <= i})
Nth(K, n)  == CHOOSE i \in K : Rank(K, i) = n

\* What a sequence has at these positions, in its order.
Picked(s, K) == [n \in 1 .. Cardinality(K) |-> s[Nth(K, n)]]

OfKind(file, kind) == Picked(file, {i \in DOMAIN file : file[i].kind = kind})

Section(id, kind, opt) == [id |-> id, kind |-> kind, opt |-> opt]

NoOptions(options) == [o \in options |-> ""]

\* Options changed together; the domain of f is part of opt's.
Over(opt, f) == [o \in DOMAIN opt |-> IF o \in DOMAIN f THEN f[o] ELSE opt[o]]

-----------------------------------------------------------------------------
(* uci.                                                                     *)

UciSet(file, id, f) == [file EXCEPT ![Pos(file, id)].opt = Over(@, f)]

UciDelete(file, id) ==
  [i \in 1 .. Len(file) - 1 |->
     IF i < Pos(file, id) THEN file[i] ELSE file[i + 1]]

\* `uci reorder': the place, from 0 in the whole file, the section ends up at,
\* or the end when there is no such place.
UciReorder(file, id, place) ==
  LET rest == UciDelete(file, id)
      n    == IF place < Len(rest) THEN place ELSE Len(rest)
  IN  SubSeq(rest, 1, n) \o <<Of(file, id)>> \o SubSeq(rest, n + 1, Len(rest))

\* A line of `uci changes': a section's own has no option.
Line(id, option, reorder) == [id |-> id, option |-> option, reorder |-> reorder]

\* The name of the next section uci adds: never one the draft has used.
NewId(file, lines) ==
  LET used == Ids(file) \cup {lines[i].id : i \in DOMAIN lines}
  IN  CHOOSE n \in 1 .. Cardinality(used) + 1 : n \notin used

-----------------------------------------------------------------------------
(* stage: a batch of settings for one section.                              *)

\* A setting; "" removes the key, and `same' is the written value that behaves
\* like none.
Setting(key, value, same) == [key |-> key, value |-> value, same |-> same]

Effective(s, before) ==
  IF s.value = "" THEN before \notin {"", s.same} ELSE before # s.value

\* The settings that change something.  One that cannot be read is taken for
\* absent.
Edits(sets, opt, unread) ==
  {s \in {sets[i] : i \in DOMAIN sets} :
     Effective(s, IF s.key \in unread THEN "" ELSE opt[s.key])}

Values(edits) ==
  [k \in {s.key : s \in edits} |-> (CHOOSE s \in edits : s.key = k).value]

Staged(file, id, edits) == UciSet(file, id, Values(edits))

\* The edits one after the other, as the batch has them.
InTurn(sets, edits) == Picked(sets, {i \in DOMAIN sets : sets[i] \in edits})

LinesOf(id, sets, edits) ==
  LET es == InTurn(sets, edits)
  IN  [i \in DOMAIN es |-> Line(id, es[i].key, FALSE)]

\* A draft a failure may leave behind: the file, and its lines.
Cut(file, log) == [file |-> file, log |-> log]

\* What is there after some of the commands of a batch.
Cuts(file, log, id, sets, edits) ==
  LET until(n) == edits \cap {sets[i] : i \in 1 .. n}
  IN  {Cut(Staged(file, id, until(n)), log \o LinesOf(id, sets, until(n)))
         : n \in 0 .. Len(sets)}

-----------------------------------------------------------------------------
(* The rows of the apply bar.                                               *)

\* A row; what it says is a tuple, <<>> for nothing.  `id' is the section its
\* detail names.
Row(id, label, from, to, subject) ==
  [id |-> id, label |-> label, from |-> from, to |-> to, subject |-> subject]

NoRow == Row(0, <<>>, <<>>, <<>>, <<>>)

Said(v) == IF v = "" THEN <<>> ELSE <<v>>

\* stage's own rows, from the values it read.
RowsOf(id, sets, edits, opt, unread, Label(_), subject) ==
  LET es == InTurn(sets, edits)
  IN  [i \in DOMAIN es |->
         LET k == es[i].key
         IN  Row(id, Label(k), Said(IF k \in unread THEN "" ELSE opt[k]),
                 Said(es[i].value), subject)]

\* Mutant: the number is the section's in the whole file.
PlaceInTheFile(file, id) == IF id \in Ids(file) THEN Pos(file, id) ELSE 0

\* A rule's number in the list the screen shows, 0 when it is not there.
Place(file, id) ==
  IF id \in Ids(file) /\ Of(file, id).kind = "rule"
    THEN Cardinality({i \in 1 .. Pos(file, id) : file[i].kind = "rule"})
    ELSE 0

\* entrySubject.
Subject(s, Words(_)) ==
  IF s.opt["name"] # "" THEN <<s.opt["name"]>> ELSE Words(s)

\* A rule moved in the list; a move of anything else changes nothing.
MoveRow(before, after, id, Words(_)) ==
  LET was == Place(before, id)
      now == Place(after, id)
  IN  IF was = 0 \/ now = 0 \/ was = now THEN NoRow
      ELSE Row(id, <<"position">>, <<"place", was>>, <<"place", now>>,
               Subject(Of(before, id), Words))

\* Mutant: an entry with any line in the draft is taken for a whole one.
AnyEntries(before, after, lines, entryKinds) ==
  {id \in Ids(before) \cup Ids(after) :
     /\ (IF id \in Ids(after) THEN Of(after, id) ELSE Of(before, id)).kind
          \in entryKinds
     /\ \E i \in DOMAIN lines : lines[i].id = id}

\* The sections that are one thing to a person, and appear or go as a whole:
\* any of them with a line of its own.
WholeEntries(before, after, lines, entryKinds) ==
  {id \in Ids(before) \cup Ids(after) :
     /\ (IF id \in Ids(after) THEN Of(after, id) ELSE Of(before, id)).kind
          \in entryKinds
     /\ \E i \in DOMAIN lines : lines[i].id = id /\ lines[i].option = ""}

\* A whole entry in a column: its words, or its kind when there are none.
Entry(s, Words(_)) == IF Words(s) = <<>> THEN <<s.kind>> ELSE Words(s)

\* The row of one line.  Says names a whole section, Words describes it, Label
\* names an option of it.
RowOfLine(before, after, e, whole, entryKinds, Words(_), Says(_), Label(_, _)) ==
  LET was   == e.id \in Ids(before)
      is    == e.id \in Ids(after)
      sec   == IF is THEN Of(after, e.id) ELSE Of(before, e.id)
      about == IF was THEN Of(before, e.id) ELSE Of(after, e.id)
      from  == IF was THEN Of(before, e.id).opt[e.option] ELSE ""
      to    == IF is THEN Of(after, e.id).opt[e.option] ELSE ""
  IN  IF e.reorder THEN MoveRow(before, after, e.id, Words)
      ELSE IF ~was /\ ~is THEN NoRow
      ELSE IF e.option = ""
             THEN IF was = is THEN NoRow
                  ELSE Row(e.id, Says(sec), IF was THEN Entry(sec, Words) ELSE <<>>,
                           IF is THEN Entry(sec, Words) ELSE <<>>, <<>>)
      ELSE IF e.id \in whole \/ from = to THEN NoRow
      ELSE Row(e.id, Label(sec, e.option), Said(from), Said(to),
               IF about.kind \in entryKinds THEN Subject(about, Words) ELSE <<>>)

\* The first line of its key.
FirstAt(lines, i) ==
  \A j \in 1 .. i - 1 : lines[j].id # lines[i].id \/ lines[j].option # lines[i].option

\* The bar: the row each line has, once for a key, where its first line is.
Bar(lines, row) ==
  LET rows == [i \in DOMAIN lines |-> IF FirstAt(lines, i) THEN row[i] ELSE NoRow]
  IN  Picked(rows, {i \in DOMAIN rows : rows[i] # NoRow})

\* StagedChanges.
StagedChanges(before, after, lines, entryKinds, Words(_), Says(_), Label(_, _)) ==
  LET whole == WholeEntries(before, after, lines, entryKinds)
  IN  Bar(lines, [i \in DOMAIN lines |->
                    RowOfLine(before, after, lines[i], whole, entryKinds,
                              Words, Says, Label)])
=============================================================================
