----------------------------- MODULE ChannelGrammar -----------------------------
(***************************************************************************)
(* The on-disk grammar of channel.md: how src/core/format.js renders a     *)
(* message as lines and reads it back, and how src/core/channel.js finds   *)
(* the blocks of a file.                                                   *)
(*                                                                         *)
(* A line is what the code tells lines apart by: its kind, and the fields  *)
(* of a marker or of a fence.  A text is a sequence of lines and never     *)
(* empty, since the empty string is one blank line.                        *)
(***************************************************************************)
EXTENDS Integers, Sequences, FiniteSetsExt

CONSTANTS
  Id,      \* message ids, in the order in which they are minted
  NoBody   \* CORRUPT_BODY: the body of a block that could not be recovered

ASSUME IdAssumption == Id \subseteq Nat \ {0} /\ Id # {}

\* "text" is any line the grammar has no use for, told apart by its id.
LineKind == {"heading", "marker", "spoiled marker", "meta", "banner", "details", "details end",
             "open", "close", "rule", "blank", "text"}
Line     == [kind : LineKind, id : Nat, revision : Nat, archived : BOOLEAN]

ASSUME NoBodyAssumption == NoBody \notin Seq(Line)

Of(kind, id) == [kind |-> kind, id |-> id, revision |-> 0, archived |-> FALSE]
Plain(kind)  == Of(kind, 0)
Text(n)      == Of("text", n)
Blank        == Plain("blank")

\* Lines that isValidMessageBody refuses in a body: control comments and headings.
Control == {"heading", "marker", "spoiled marker", "open", "close"}
IsBody(body) == body \in Seq(Line) /\ body # <<>> /\ \A i \in DOMAIN body : body[i].kind \notin Control

AsText(ls) == IF ls = <<>> THEN <<Blank>> ELSE ls

StripBlankEdges(ls) ==
  LET filled == {i \in DOMAIN ls : ls[i].kind # "blank"}
  IN  IF filled = {} THEN <<>> ELSE SubSeq(ls, Min(filled), Max(filled))

\* A body that could not be recovered would be rendered as the empty string.
Trim(body) == IF body = NoBody THEN <<Blank>> ELSE AsText(StripBlankEdges(body))

--------------------------------------------------------------------------------
(* Rendering. *)

Fenced(m) == <<Of("open", m.id)>> \o Trim(m.body) \o <<Of("close", m.id)>>

\* The lines of a block before its body: heading, marker, and one for Time, Git and Edited.
HeadOf(m) ==
  << Plain("heading"),
     [kind |-> "marker", id |-> m.id, revision |-> m.revision, archived |-> m.archived],
     Plain("meta"), Blank >>

Banner == <<Plain("banner"), Blank, Plain("details"), Blank>>

FormatMessage(m) ==
  HeadOf(m)
  \o (IF m.archived THEN Banner \o Fenced(m) \o <<Blank, Plain("details end")>> ELSE Fenced(m))
  \o <<Blank, Plain("rule")>>

\* How v0.2 rendered it: no fence.
FormatLegacy(m) ==
  HeadOf(m)
  \o (IF m.archived THEN Banner \o m.body \o <<Blank, Plain("details end")>> ELSE m.body)
  \o <<Blank, Plain("rule")>>

--------------------------------------------------------------------------------
(* The blocks of a file. *)

Lookahead == 3   \* MARKER_LOOKAHEAD_LINES

\* The lines that may be the marker of the heading at h: those that look like one.
MarkerIdx(ls, h) ==
  {k \in (h + 1) .. (h + Lookahead) \cap DOMAIN ls :
     /\ ls[k].kind \in {"marker", "spoiled marker"}
     /\ \A j \in (h + 1) .. (k - 1) : ls[j].kind = "blank"}

BlockStarts(ls) == {h \in DOMAIN ls : h > 1 /\ ls[h].kind = "heading" /\ MarkerIdx(ls, h) # {}}

BlockEnd(ls, h) == Min({k \in BlockStarts(ls) : k > h} \cup {Len(ls) + 1})

\* The lines of the block that starts at h.
BlockAt(ls, h) == SubSeq(ls, h, BlockEnd(ls, h) - 1)

--------------------------------------------------------------------------------
(* Reading one block: its first line is its heading. *)

UnwrapArchived(ls) ==
  LET opens  == {i \in DOMAIN ls : ls[i].kind = "details"}
      closes == {i \in DOMAIN ls : ls[i].kind = "details end" /\ i > Min(opens)}
  IN  IF opens = {} \/ closes = {} THEN ls
      ELSE StripBlankEdges(SubSeq(ls, Min(opens) + 1, Max(closes) - 1))

\* From the first blank line after the marker to the first rule.
LegacyBody(b, k) ==
  LET start == Min({i \in DOMAIN b : i > k /\ b[i].kind = "blank"} \cup {Len(b) + 1}) + 1
      end   == Min({i \in DOMAIN b : i >= start /\ b[i].kind = "rule"} \cup {Len(b) + 1})
  IN  Trim(UnwrapArchived(SubSeq(b, start, end - 1)))

\* Mutant: the fence is not bound to the id of its message.
ExtractUnbound(b, k, id) ==
  LET opens  == {i \in DOMAIN b : i > k /\ b[i].kind = "open"}
      closes == {i \in DOMAIN b : i > Min(opens) /\ b[i].kind = "close"}
  IN  IF opens = {} THEN LegacyBody(b, k)
      ELSE IF closes = {} THEN NoBody
      ELSE AsText(SubSeq(b, Min(opens) + 1, Max(closes) - 1))

\* A fence that was opened and is not closed is corruption, and not an old block.
ExtractBody(b, k, id) ==
  LET opens  == {i \in DOMAIN b : i > k /\ b[i] = Of("open", id)}
      closes == {i \in DOMAIN b : i > Min(opens) /\ b[i] = Of("close", id)}
  IN  IF opens = {} THEN LegacyBody(b, k)
      ELSE IF closes = {} THEN NoBody
      ELSE AsText(SubSeq(b, Min(opens) + 1, Max(closes) - 1))

\* A marker with a key twice, or with junk in it, is rejected: the block is no message.
IsMessage(b) == \E k \in MarkerIdx(b, 1) : b[k].kind = "marker"

ParseMessage(b) ==
  LET k == Min(MarkerIdx(b, 1))
  IN  [id |-> b[k].id, revision |-> b[k].revision, archived |-> b[k].archived,
       body |-> ExtractBody(b, k, b[k].id)]

--------------------------------------------------------------------------------
(* Reading a file. *)

\* parseChannel: what a reader of the file is shown, by id.
Messages(ls) ==
  {ParseMessage(b) : b \in {c \in {BlockAt(ls, h) : h \in BlockStarts(ls)} : IsMessage(c)}}

ParseChannel(ls) ==
  LET messages == Messages(ls)
  IN  [id \in {m.id : m \in messages} |-> CHOOSE m \in messages : m.id = id]

\* findMessageBlock: where the first block of that id starts, and what it says.
Found(ls, id) ==
  {h \in BlockStarts(ls) : \E b \in {BlockAt(ls, h)} : IsMessage(b) /\ ParseMessage(b).id = id}
FindMessageBlock(ls, id) == Min(Found(ls, id))
MessageAt(ls, h) == ParseMessage(BlockAt(ls, h))

\* highestId: markers that do not parse count.
MarkerLines(ls) == {i \in DOMAIN ls : ls[i].kind \in {"marker", "spoiled marker"}}
MarkedIds(ls)   == {ls[i].id : i \in MarkerLines(ls)}

\* Ids are unique: no two lines are the marker of one.
MarkedOnce(ls) == \A i, j \in MarkerLines(ls) : ls[i].id = ls[j].id => i = j

FenceIds(ls) == {ls[i].id : i \in {j \in DOMAIN ls : ls[j].kind \in {"open", "close"}}}
================================================================================
