----------------------------- MODULE ChannelFormat -----------------------------
(***************************************************************************)
(* What the service's writes and an operator's hand make of the lines of   *)
(* channel.md, and of the revisions kept beside it.  The writes are atomic *)
(* here: how they exclude each other is ChannelFile's concern.             *)
(***************************************************************************)
EXTENDS RevisionHistory, SequencesExt

CONSTANTS
  Bodies,       \* what a client may send as a body
  Old,          \* what a service may find at its first start: lines and history files
  MaxFaults,    \* edits by hand, and edits of the service that fail, a bound
  MaxKept       \* revisions it writes, of all messages, a bound

ASSUME BodiesAssumption == \A body \in Bodies : IsBody(body)

\* The first line is the end of the header's last, and a fence has the id of a marker.  A
\* history that is there is one of v0.3.0, without a fence.
ASSUME OldAssumption ==
  \A old \in Old :
    /\ old.lines \in Seq(Line) /\ old.lines # <<>> /\ old.lines[1].kind = "blank"
    /\ MarkedOnce(old.lines)
    /\ FenceIds(old.lines) \subseteq MarkedIds(old.lines) /\ MarkedIds(old.lines) \subseteq Id
    /\ \A id \in Id : old.files[id] \in Seq(Line) /\ old.files[id] # <<>>

VARIABLES
  lines,  \* channel.md, from the end of its header
  revs,   \* per message, the lines of its .history.md, the revisions written to it
          \* (a ghost), those of them that an edit then replaced (a ghost), and their numbers
  minted, \* ids of messages so far: the clock and its random bits make them unique
  hand,   \* edits by hand so far
  book    \* what a reader of the file is shown

formatVars == <<lines, revs, minted, hand, book>>

FormatInit ==
  /\ \E old \in Old :
       /\ lines = old.lines
       /\ revs = [id \in Id |-> [file |-> old.files[id], written |-> ReadLegacy(old.files[id]),
                                replaced |-> {}, kept |-> 0, lost |-> 0]]
  /\ minted = MarkedIds(lines)
  /\ hand = 0
  /\ book = ParseChannel(lines)

--------------------------------------------------------------------------------
(* The service. *)

\* Whoever writes the file, this is what it says from then on.
Publish(ls) == lines' = ls /\ book' = ParseChannel(lines')

Before(h) == SubSeq(lines, 1, h - 1)
After(k)  == IF k > Len(lines) THEN <<Blank>> ELSE SubSeq(lines, k, Len(lines))

\* Mutant: the end of the block is where its first rule is.
SpliceToRule(m) ==
  LET h == FindMessageBlock(lines, m.id)
  IN  Before(h) \o FormatMessage(m)
      \o After(Min({i \in DOMAIN lines : i > h /\ lines[i].kind = "rule"} \cup {Len(lines)}) + 1)

\* An interior block gives its trailing newline up; the last one owns the file's.
SpliceBlock(m) ==
  LET h == FindMessageBlock(lines, m.id)
  IN  Before(h) \o FormatMessage(m) \o After(BlockEnd(lines, h))

\* What stands below the header without leading newlines, and without the rule that
\* an empty channel has there.
Stripped(ls) ==
  LET first == Min({i \in DOMAIN ls : ls[i].kind # "blank"} \cup {Len(ls) + 1})
  IN  AsText(SubSeq(ls, first, Len(ls)))
Below(ls) ==
  IF Stripped(ls)[1].kind = "rule" THEN Stripped(Tail(Stripped(ls))) ELSE Stripped(ls)

AppendMessage(id, body) ==
  /\ id \notin minted /\ \A other \in MarkedIds(lines) : id > other
  /\ minted' = minted \cup {id}
  /\ Publish(<<Blank, Blank>>
           \o FormatMessage([id |-> id, revision |-> 0, archived |-> FALSE, body |-> body])
           \o Below(lines))
  /\ UNCHANGED <<revs, hand>>

\* Mutant: whatever was read is rendered.
FoundOnly(id) == id \in DOMAIN book

\* A message that is there, and whose body could be read: assertRenderable.
Renderable(id) == id \in DOMAIN book /\ book[id].body # NoBody

Edited(m, body) == [m EXCEPT !.body = body, !.revision = @ + 1]

\* What an edit keeps: the body that was there, as the revision that replaces it.
PriorOf(id) == [revision |-> book[id].revision + 1, body |-> Trim(book[id].body)]

Total(number) == MapThenSumSet(LAMBDA id : revs[id][number], Id)

Faults == hand + Total("lost")

\* Of the revision, text is on file in the end; a lost one replaces nothing.
KeepRevision(id, text, lost) ==
  /\ Total("kept") < MaxKept /\ (lost = 1 => Faults < MaxFaults)
  /\ revs' = [revs EXCEPT ![id] =
       [file |-> Appended(@.file, text), written |-> @.written \cup {PriorOf(id)},
        replaced |-> IF lost = 0 THEN @.replaced \cup {PriorOf(id)} ELSE @.replaced,
        kept |-> @.kept + 1, lost |-> @.lost + lost]]

EditMessage(id, body) ==
  /\ Renderable(id)
  /\ Publish(SpliceBlock(Edited(book[id], body)))
  /\ KeepRevision(id, FormatRevision(id, PriorOf(id)), 0)
  /\ UNCHANGED <<minted, hand>>

\* The service dies, or one of its writes fails, once the revision is on file, whole or
\* in part.
LoseEdit(id) ==
  /\ Renderable(id)
  /\ \E text \in Tears(FormatRevision(id, PriorOf(id))) : KeepRevision(id, text, 1)
  /\ UNCHANGED <<lines, minted, hand, book>>

ArchiveMessage(id) ==
  /\ Renderable(id)
  /\ Publish(SpliceBlock([book[id] EXCEPT !.archived = TRUE]))
  /\ UNCHANGED <<revs, minted, hand>>

--------------------------------------------------------------------------------
(* The hand: one line at a time. *)

ByHand == Faults < MaxFaults /\ hand' = hand + 1 /\ UNCHANGED <<revs, minted>>

DeleteLine(i) == ByHand /\ Publish(RemoveAt(lines, i))

InsertLine(i, l) == ByHand /\ Publish(InsertAt(lines, i + 1, l))

SpoilMarker(i) ==
  /\ ByHand /\ lines[i].kind = "marker"
  /\ Publish([lines EXCEPT ![i].kind = "spoiled marker"])

FormatNext ==
  \/ \E id \in Id :
       \/ \E body \in Bodies : AppendMessage(id, body) \/ EditMessage(id, body)
       \/ LoseEdit(id)
       \/ ArchiveMessage(id)
  \/ \E i \in DOMAIN lines :
       \/ i > 1 /\ DeleteLine(i)
       \/ \E l \in {Blank, Plain("rule")} : InsertLine(i, l)
       \/ SpoilMarker(i)

FormatSpec == FormatInit /\ [][FormatNext]_formatVars

--------------------------------------------------------------------------------
(* What it is for. *)

Posted(new)         == ~ new.archived /\ new.revision = 0 /\ \E body \in Bodies : new.body = Trim(body)
EditOf(new, old)    == \E body \in Bodies : new = Edited(old, Trim(body))
ArchiveOf(new, old) == new = [old EXCEPT !.body = Trim(@), !.archived = TRUE]

\* A write of the service shows in what is read as one message posted, edited or
\* archived with the body it was given, and in no other message, whatever a hand has
\* done to the file before: a message is never read differently for a write that is
\* not its own, and none goes.
WritesAreExact ==
  [][hand' = hand /\ lines' # lines =>
       \E id \in DOMAIN book' :
         /\ book' = [i \in DOMAIN book \cup {id} |-> IF i = id THEN book'[id] ELSE book[i]]
         /\ IF id \in DOMAIN book
            THEN /\ book[id].body # NoBody
                 /\ EditOf(book'[id], book[id]) \/ ArchiveOf(book'[id], book[id])
            ELSE Posted(book'[id])]_formatVars

\* "Repair is a human edit to channel.md" (format.js, parseMessage): the lines of a
\* block whose body could not be recovered survive every write of the service.
DamageIsKept ==
  [][\A id \in DOMAIN book : hand' = hand /\ book[id].body = NoBody =>
       /\ Found(lines', id) # {}
       /\ BlockAt(lines', FindMessageBlock(lines', id)) = BlockAt(lines, FindMessageBlock(lines, id))]_formatVars

\* A block as the service writes it, or v0.2 did: its marker stands below its heading and
\* is its only one, every fence is its own, and there is a body to be found.
TidyBlock(b) ==
  /\ Len(b) >= 2 /\ b[2].kind = "marker"
  /\ \A i \in 3 .. Len(b) : b[i].kind \in Control =>
       b[i].kind \in {"open", "close"} /\ b[i].id = b[2].id
  /\ \/ \E i \in 3 .. Len(b) : b[i] = Of("open", b[2].id)
     \/ \E i \in 3 .. Len(b) : \E j \in (i + 1) .. Len(b) : b[i].kind = "blank" /\ b[j].kind = "rule"

\* A file of such blocks, and nothing of a message above them.
Tidy(ls) ==
  /\ \A i \in DOMAIN ls : ls[i].kind \in Control => \E h \in BlockStarts(ls) : h =< i
  /\ \A h \in BlockStarts(ls) : TidyBlock(BlockAt(ls, h))

\* No hand was at the file before the service first starts.
OldIsTidy == \A old \in Old : Tidy(old.lines)

\* The first edit by hand of one line shows in one message.  (A second may make the
\* body of an unfenced message run on into a message that has lost its heading.)
HandStaysLocal ==
  [][hand = 0 /\ hand' = 1 =>
       \E id \in Id : \A other \in Id \ {id} :
         /\ other \in DOMAIN book <=> other \in DOMAIN book'
         /\ other \in DOMAIN book => book[other] = book'[other]]_formatVars

\* "Trailing newlines are trimmed ... to keep the file byte-stable", and "re-archiving
\* neither nests the wrapper nor grows the file" (channel.js, spliceBlock and
\* archiveMessage): what is read of a message just rendered is rendered to the same
\* file, whatever a hand had done to the file before.
RewritesAreStable ==
  [][\A id \in DOMAIN book :
       ArchiveMessage(id) \/ (\E body \in Bodies : EditMessage(id, body)) =>
         SpliceBlock(book[id])' = lines']_formatVars

\* What an edit replaced can be read in the history ever after, as the revision that
\* replaced it, whatever edits fail around it, in the middle of a line or with its number.
EditsAreKept == \A id \in Id : revs[id].replaced \subseteq ReadHistory(revs[id].file, id)

\* "A confident partial body is worse than a named failure" (history.js, readFenced): a
\* body that the history gives is one that the message had, whole.
NoBodyIsGuessed ==
  \A id \in Id : \A r \in ReadHistory(revs[id].file, id) : r.body # NoBody => r \in revs[id].written

\* "Kept only so history written before the fence still reads" (history.js, readLegacy):
\* a revision that can be read can be read from then on.  Not so in this build: the first
\* fenced revision hides those of v0.3.0, and an append after one that was cut off just
\* before its last newlines makes that one unterminated.
HistoryStillReads ==
  [][\A id \in Id : ReadHistory(revs[id].file, id) \subseteq ReadHistory(revs'[id].file, id)]_formatVars
================================================================================
