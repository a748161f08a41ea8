------------------------------- MODULE LogStore -------------------------------
(***************************************************************************)
(* The log of calls and account events (LogService in                      *)
(* services/log_service.py): a file of lines.  Adding, deleting and the    *)
(* cleanup take the lock; listings do not.  They count the lines, open the *)
(* file and read it backwards piece by piece, while lines are added and    *)
(* the file is truncated and written anew.  Old lines carry no id: a       *)
(* listing makes one up from the number and the text of the line.          *)
(***************************************************************************)
EXTENDS Integers, Sequences, FiniteSets

CONSTANTS
  Legacy,     \* the logs that an older version may have left, sequences of texts
  Queries,    \* what a listing may look for: texts, where it starts, how many it wants
  MaxAdds,    \* bound: lines added
  MaxRewrites, MaxDeaths, MaxListings  \* bounds: rewrites, deaths of the process, listings

\* A query is precise if it names more than a type.
LogQuery == [precise : BOOLEAN, texts : SUBSET Int, offset : Nat, limit : Nat]

ASSUME LogAssumption ==
  /\ {MaxAdds, MaxRewrites, MaxDeaths, MaxListings} \subseteq Nat
  /\ Legacy \subseteq Seq(Int) /\ Queries \subseteq LogQuery

\* A line says something; what a death tears, and what is written behind it, nobody can parse.
Garbage == -1
NoId == [by |-> "none", at |-> 0, text |-> 0]
\* A faulty variant, for the mutation runs: an id that is made of the number only.
NumberedId(number, text) == [by |-> "line", at |-> number, text |-> 0]
LegacyId(number, text) == [by |-> "line", at |-> number, text |-> text]
FreshId(text) == [by |-> "uuid", at |-> 0, text |-> text]

VARIABLES
  lines,    \* the file
  torn,     \* its last line has no end
  rewrite,  \* what a rewrite, having truncated the file, is about to write
  locked,   \* a rewrite holds the lock
  listing,  \* where the listing is
  query,    \* what it looks for; whether it is precise
  place,    \* lines before the place it has read back to
  number,   \* the number it gives to the next line
  passed,   \* matching lines so far
  found,    \* the page
  shaken,   \* the file was rewritten since it was opened
  shown,    \* history: ids and texts of finished pages
  removed,  \* history: ids and texts of deleted lines
  adds, rewrites, deaths, listings  \* counted for the bounds

logVars == <<lines, torn, rewrite, locked, listing, query, place, number, passed, found, shaken,
             shown, removed, adds, rewrites, deaths, listings>>
readVars == <<listing, query, place, number, passed, found, listings>>

LogTypeOK ==
  /\ \A i \in 1..Len(lines) : lines[i].text \in Int
  /\ {torn, locked, shaken} \subseteq BOOLEAN /\ listing \in {"idle", "counted", "open"}
  /\ Cardinality(found) <= passed /\ adds \in 0..MaxAdds /\ rewrites \in 0..MaxRewrites

LogInit ==
  /\ \E old \in Legacy : lines = [i \in 1..Len(old) |-> [id |-> NoId, text |-> old[i]]]
  /\ torn = FALSE /\ rewrite = <<>> /\ locked = FALSE /\ listing = "idle" /\ query \in {q \in Queries : q.precise}
  /\ place = 0 /\ number = 0 /\ passed = 0 /\ found = {} /\ shaken = FALSE
  /\ shown = {} /\ removed = {} /\ adds = 0 /\ rewrites = 0 /\ deaths = 0 /\ listings = 0

\* _parse_line: the id a line carries, or one made up.
Parsed(line, n) == [line EXCEPT !.id = IF @ = NoId THEN LegacyId(n, line.text) ELSE @]
Readable(line) == line.text # Garbage

(***************************************************************************)
(* Writers.                                                                *)
(***************************************************************************)
\* add: one more line, behind a torn one in the same line.
Appended(line) ==
  IF torn THEN [lines EXCEPT ![Len(lines)] = [id |-> NoId, text |-> Garbage]] ELSE Append(lines, line)

Add ==
  /\ ~locked /\ adds < MaxAdds /\ adds' = adds + 1
  /\ lines' = Appended([id |-> FreshId(100 + adds), text |-> 100 + adds]) /\ torn' = FALSE
  /\ UNCHANGED <<rewrite, locked, readVars, shaken, shown, removed, rewrites, deaths>>

\* The process dies while it adds a line.
AddDies ==
  /\ ~locked /\ deaths < MaxDeaths /\ deaths' = deaths + 1
  /\ lines' = Appended([id |-> NoId, text |-> Garbage]) /\ torn' = TRUE
  /\ listing' = "idle" /\ found' = {}
  /\ UNCHANGED <<rewrite, locked, query, place, number, passed, listings, shaken, shown, removed, adds, rewrites>>

\* A line as a rewrite reads it: with its id, or as it is when nobody can parse it.
Read(i) == IF Readable(lines[i]) THEN Parsed(lines[i], i - 1) ELSE lines[i]

\* The members of a set of numbers in their order.
InOrder(S) ==
  CHOOSE f \in [1..Cardinality(S) -> S] : \A i, j \in 1..Cardinality(S) : i < j => f[i] < f[j]

\* The lines that stay, with their ids written down; garbage stays as it is.
Kept(drops) ==
  LET stay == {i \in 1..Len(lines) : ~(Readable(lines[i]) /\ Read(i) \in drops)}
  IN [k \in 1..Cardinality(stay) |-> Read(InOrder(stay)[k])]

\* The file is read and truncated.
Truncate(drops) ==
  /\ ~locked /\ locked' = TRUE /\ rewrites < MaxRewrites /\ rewrites' = rewrites + 1
  /\ rewrite' = Kept(drops) /\ lines' = <<>> /\ torn' = FALSE /\ shaken' = TRUE

Numbered == {Parsed(lines[i], i - 1) : i \in {j \in 1..Len(lines) : Readable(lines[j])}}

\* Lines are deleted by ids that a page showed.
Delete ==
  /\ \E ids \in SUBSET {s.id : s \in shown} \ {{}} :
       LET drops == {line \in Numbered : line.id \in ids}
       IN Truncate(drops) /\ removed' = removed \cup drops
  /\ UNCHANGED <<readVars, shown, adds, deaths>>

\* The cleanup drops the lines that are too old: the older ones come first.  It
\* leaves the file alone when there is none.
Cleanup ==
  /\ \E n \in 1..Len(lines) :
       /\ \E i \in 1..n : Readable(lines[i])
       /\ Truncate({Parsed(lines[i], i - 1) : i \in {j \in 1..n : Readable(lines[j])}})
  /\ UNCHANGED <<readVars, shown, removed, adds, deaths>>

Write ==
  /\ locked /\ locked' = FALSE /\ lines' = rewrite /\ rewrite' = <<>> /\ shaken' = TRUE
  /\ UNCHANGED <<torn, readVars, shown, removed, adds, rewrites, deaths>>

\* The process dies in a rewrite: what was not yet written is lost.
WriteDies ==
  /\ locked /\ deaths < MaxDeaths /\ deaths' = deaths + 1
  /\ \E n \in 0..Len(rewrite) : lines' = SubSeq(rewrite, 1, n)
  /\ locked' = FALSE /\ rewrite' = <<>> /\ listing' = "idle" /\ found' = {}
  /\ UNCHANGED <<torn, query, place, number, passed, listings, shaken, shown, removed, adds, rewrites>>

(***************************************************************************)
(* Listings.                                                               *)
(***************************************************************************)
\* The lines are counted; there is a page of nothing when there are none.
Count ==
  /\ listing = "idle" /\ listings < MaxListings /\ Len(lines) > 0 /\ listings' = listings + 1
  /\ query' \in Queries /\ number' = Len(lines) - 1
  /\ listing' = "counted" /\ passed' = 0 /\ found' = {}
  /\ UNCHANGED <<lines, torn, rewrite, locked, place, shaken, shown, removed, adds, rewrites, deaths>>

Open ==
  /\ listing = "counted" /\ listing' = "open" /\ place' = Len(lines) /\ shaken' = FALSE
  /\ UNCHANGED <<lines, torn, rewrite, locked, query, number, passed, found, listings, shown, removed, adds, rewrites, deaths>>

\* A precise query gives up the first line of the file when its numbers ran
\* out; the other one gives up when it has taken as many lines as it counted.
Takes == number >= 0 \/ (query.precise /\ place > 1)

Matches(line) == Readable(line) /\ line.text \in query.texts

\* A line that matches is counted, and on the page if it is in its range.
Meets(line) ==
  /\ passed' = passed + 1
  /\ found' = IF passed >= query.offset /\ Cardinality(found) < query.limit THEN found \cup {line} ELSE found

\* The line before the place; a rewritten file has another one, half of one, or none there.
Look ==
  /\ listing = "open" /\ place > 0 /\ Takes
  /\ place' = place - 1 /\ number' = number - 1
  /\ \/ place <= Len(lines) /\ Matches(lines[place]) /\ Meets(Parsed(lines[place], number))
     \/ /\ shaken \/ (place <= Len(lines) /\ ~Matches(lines[place]))
        /\ UNCHANGED <<passed, found>>
  /\ UNCHANGED <<lines, torn, rewrite, locked, listing, query, listings, shaken, shown, removed, adds, rewrites, deaths>>

\* Without a precise query, one line more than the page is enough.
PageFull == ~query.precise /\ passed > query.offset + query.limit

\* The page is told: the file is read, or the page is full.
Tell ==
  /\ listing = "open"
  /\ place = 0 \/ ~Takes \/ PageFull
  /\ listing' = "idle" /\ found' = {} /\ shown' = shown \cup found
  /\ UNCHANGED <<lines, torn, rewrite, locked, query, place, number, passed, listings, shaken, removed, adds, rewrites, deaths>>

LogNext ==
  Add \/ AddDies \/ Delete \/ Cleanup \/ Write \/ WriteDies \/ Count \/ Open \/ Look \/ Tell

LogSpec == LogInit /\ [][LogNext]_logVars

(***************************************************************************)
(* Properties.                                                             *)
(***************************************************************************)
\* What is deleted is what the administrator saw under that id, whatever was
\* added or cleaned up between the listing and the deletion, and during it.
DeletedIsShown == removed \subseteq shown

\* What one would like of a log.  TLC refutes it: a death between the
\* truncation of the file and the end of its rewriting loses lines.
AddedSurvives == [][deaths' # deaths => Len(lines') >= Len(rewrite)]_logVars
=============================================================================
