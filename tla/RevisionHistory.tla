---------------------------- MODULE RevisionHistory ----------------------------
(***************************************************************************)
(* What the history file of a message holds and how it is read back        *)
(* (src/core/history.js).  A file is its lines, and what stands behind its *)
(* last newline is the last of them: appendFile goes on where an earlier   *)
(* append was cut short, in the middle of a line.                          *)
(***************************************************************************)
EXTENDS ChannelGrammar

Fence       == [kind : {"rev", "rev end"}, id : Id, revision : Nat]
HistoryLine == Line \cup Fence

RevOpen(id, revision)  == [kind |-> "rev", id |-> id, revision |-> revision]
RevClose(id, revision) == [kind |-> "rev end", id |-> id, revision |-> revision]

Revision == [revision : Nat, body : Seq(Line) \cup {NoBody}]

--------------------------------------------------------------------------------
(* Writing. *)

\* Mutant: nothing stands behind the fence, not even the end of its line.
FormatUnended(id, r) ==
  << [Plain("heading") EXCEPT !.revision = r.revision], Plain("meta"), Blank, RevOpen(id, r.revision) >>
  \o r.body \o << RevClose(id, r.revision) >>

\* appendRevision: heading, one line for when and by whom, and the fenced body.
FormatRevision(id, r) ==
  << [Plain("heading") EXCEPT !.revision = r.revision], Plain("meta"), Blank, RevOpen(id, r.revision) >>
  \o r.body
  \o << RevClose(id, r.revision), Blank, Plain("rule"), Blank >>

\* What is left of a line that was cut, or was run together with another, is none that
\* the reader has a use for.
Remnant == Text(0)

\* What of a text may be on file when the process or the host goes down.
CutLine(l)  == IF l = Blank THEN {Blank} ELSE {Blank, Remnant, l}
Tears(text) ==
  UNION {{Append(SubSeq(text, 1, k - 1), l) : l \in CutLine(text[k])} : k \in DOMAIN text}

RunOn(a, b) == IF a = Blank THEN b ELSE IF b = Blank THEN a ELSE Remnant

Appended(file, text) ==
  [i \in 1 .. Len(file) + Len(text) - 1 |->
     IF i < Len(file) THEN file[i]
     ELSE IF i = Len(file) THEN RunOn(file[i], text[1]) ELSE text[i - Len(file) + 1]]

--------------------------------------------------------------------------------
(* Reading. *)

RevOpens(file, id) == {i \in DOMAIN file : file[i].kind = "rev" /\ file[i].id = id}

\* Mutant: the scan for the end of a revision goes to the end of the file.
LimitOfFile(file, id, o) == Len(file) + 1

\* A revision reaches to the next one at most.
Limit(file, id, o) == Min({i \in RevOpens(file, id) : i > o} \cup {Len(file) + 1})

\* It ends at the last fence of its own there; or is reported as unterminated.
ReadRevision(file, id, o) ==
  LET closes == {i \in (o + 1) .. (Limit(file, id, o) - 1) : file[i] = RevClose(id, file[o].revision)}
  IN  [revision |-> file[o].revision,
       body |-> IF closes = {} THEN NoBody ELSE AsText(SubSeq(file, o + 1, Max(closes) - 1))]

\* Before the fence, in v0.3.0: from the blank line below the heading to the first rule
\* below a blank line.
ReadLegacy(file) ==
  LET heads == {h \in DOMAIN file : file[h].kind = "heading"}
      next(h) == Min({k \in heads : k > h} \cup {Len(file) + 1})
      ends(h) == {r \in (h + 5) .. (next(h) - 1) : file[r].kind = "rule" /\ file[r - 1] = Blank}
  IN  {[revision |-> file[h].revision, body |-> SubSeq(file, h + 3, Min(ends(h)) - 2)] :
         h \in {k \in heads : ends(k) # {} /\ file[k + 1].kind = "meta" /\ file[k + 2] = Blank}}

\* A file with a fence is read by its fences alone.
ReadHistory(file, id) ==
  IF RevOpens(file, id) = {} THEN ReadLegacy(file)
  ELSE {ReadRevision(file, id, o) : o \in RevOpens(file, id)}
================================================================================
