---------------------------- MODULE MCChannelFormat ----------------------------
(* Model-checking instance of ChannelFormat: an empty channel, or one with a *)
(* message of v0.2 on it, and bodies with lines that mean something outside   *)
(* of a fence.                                                                *)
EXTENDS ChannelFormat

MCBodies ==
  { << Plain("details"), Text(1), Plain("rule"), Plain("details end"), Blank, Text(2) >>,
    << Text(3) >> }

File(block) == << Blank, Blank >> \o block \o << Blank >>

Message(archived, body, revision) ==
  [id |-> 1, revision |-> revision, archived |-> archived, body |-> body]

Unedited == [id \in Id |-> <<Blank>>]

\* What v0.3.0 kept of an edit: no fence.
LegacyRevision(revision, body) ==
  << [Plain("heading") EXCEPT !.revision = revision], Plain("meta"), Blank >>
  \o body \o << Blank, Plain("rule"), Blank >>

MCOld ==
  { [lines |-> ls, files |-> Unedited] :
      ls \in { << Blank, Blank, Plain("rule"), Blank, Blank >>,
               File(FormatLegacy(Message(FALSE, << Text(1), Plain("rule"), Text(2) >>, 0))),
               File(FormatLegacy(Message(TRUE, << Text(1) >>, 0))) } }
  \cup
  { [lines |-> File(FormatMessage(Message(FALSE, << Text(2) >>, 1))),
     files |-> [Unedited EXCEPT ![1] = LegacyRevision(1, << Text(1) >>)]] }
================================================================================
