------------------------------ MODULE ChannelText ------------------------------
(***************************************************************************)
(* What channel.md says, and what one write makes of it.  A file is a      *)
(* function from the ids on it to their blocks; the block a write renders  *)
(* is spliced in place of the old one and every other block is kept.       *)
(***************************************************************************)
EXTENDS Integers

CONSTANTS
  Write,      \* the write requests, each also the name of the body it carries
  Old,        \* messages on the file before the first of them
  Principal,
  Operator,   \* the principals of role operator
  None

ASSUME WriteAssumption    == Write \cap Old = {}
ASSUME OperatorAssumption == Operator \subseteq Principal

\* A message has the name of the write that posted it, and so has its body.
Msg == Write \cup Old

Block == [author : Principal, body : Msg, revision : Nat, archived : BOOLEAN]
IsFile(file) == DOMAIN file \subseteq Msg /\ file \in [DOMAIN file -> Block]

\* The files a service may start on.
OldFiles ==
  {file \in [Old -> [author : Principal, body : Old, revision : {0}, archived : BOOLEAN]] :
     \A m \in Old : file[m].body = m}

Posted(file, w, actor) ==
  [m \in DOMAIN file \cup {w} |->
     IF m = w THEN [author |-> actor, body |-> w, revision |-> 0, archived |-> FALSE]
     ELSE file[m]]

Edited(file, w, id) ==
  LET old == file[id]
  IN  [file EXCEPT ![id] = [old EXCEPT !.body = w, !.revision = old.revision + 1]]

Archived(file, id) == [file EXCEPT ![id].archived = TRUE]

\* A request: a post names itself.
Kind    == {"post", "edit", "archive"}
Request == [kind : Kind, id : Msg, actor : Principal]
ASSUME NoneAssumption == None \notin Write \cup Request

IsFor(request, w) == request \in Request /\ (request.kind = "post" <=> request.id = w)

\* The file that a request's write leaves behind.
Rewritten(file, w, request) ==
  CASE request.kind = "post"    -> Posted(file, w, request.actor)
    [] request.kind = "edit"    -> Edited(file, w, request.id)
    [] request.kind = "archive" -> Archived(file, request.id)

\* Anyone who may publish may post; only the author may edit; the author or an
\* operator may archive.
Permitted(file, request) ==
  \/ request.kind = "post"
  \/ /\ request.id \in DOMAIN file
     /\ \/ request.actor = file[request.id].author
        \/ request.kind = "archive" /\ request.actor \in Operator
================================================================================
