---------------------------- MODULE MCConversation ----------------------------
(* Values for the constants of ConversationIngest that a .cfg cannot write. *)
EXTENDS ConversationIngest, TLC

CONSTANTS
  m1, m2, m3, said, thought, dump,       \* messages and texts
  fact, path, idea, long, short,             \* sentences
  ours, theirs, mine, link, lekiu, file, other, here, there

(* Two projects whose agents produce the same file, one of them another file  *)
(* too; the conversation links the two.                                     *)
MCProject == ours :> here @@ theirs :> there @@ mine :> here @@ link :> NoProject
MCSource == ours :> lekiu @@ theirs :> lekiu @@ mine :> lekiu @@ link :> file
MCTarget == ours :> file @@ theirs :> file @@ mine :> other @@ link :> other

(* A message in two parts, one of a tool, and one of an unknown JSON shape   *)
(* that repeats a sentence of the first.                                     *)
MCByTime == <<m1, m2, m3>>
MCRole == m1 :> "user" @@ m2 :> "tool" @@ m3 :> "assistant"
MCRaw == m1 :> dump @@ m2 :> said @@ m3 :> dump
MCParts == m1 :> <<said, "envelope", thought>> @@ m2 :> << >> @@ m3 :> <<"unknown">>

MCSentences == said :> <<fact, path>> @@ thought :> <<idea>> @@ dump :> <<long, short, idea, fact>>

(* Of MinChars = 2 and MaxChars = 4: one piece, two, or none. *)
MCLength == fact :> 3 @@ path :> 4 @@ idea :> 2 @@ long :> 6 @@ short :> 1

MCSegments == {<<fact, 1>>, <<path, 1>>, <<idea, 1>>, <<long, 1>>, <<long, 2>>}
MCExperience == [s \in MCSegments |-> IF s[1] \in {path, idea} THEN 3 ELSE 1]
MCKnowledge == [s \in MCSegments |-> IF s[1] = fact THEN 1 ELSE 0]
MCRelations == [s \in MCSegments |-> IF s[1] = path THEN <<link>> ELSE << >>]
MCTopic == [s \in MCSegments |-> idea]
=============================================================================
