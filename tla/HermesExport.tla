---------------------------- MODULE HermesExport ----------------------------
(***************************************************************************)
(* core/ingest_hermes.py: the messages of the agent runtime's database,     *)
(* which is only read, are written to a file that the curator reads.  The   *)
(* file is emptied first and then grows as the buffer is flushed; an export *)
(* that dies leaves what it had flushed, the last line of which may be torn. *)
(* One export runs at a time; the runtime adds messages meanwhile.          *)
(***************************************************************************)
EXTENDS Integers, Sequences, FiniteSets

CONSTANTS
  Messages,     \* of the database
  ByTime,       \* the messages ordered by session, timestamp and id
  Archive,      \* those that are in it from the start
  Selected,     \* those within the sessions and times asked for
  Role,         \* message -> its role
  RolesAsked,   \* the roles asked for; none means all but "tool"
  ScanLimit,    \* rows to scan, or 0
  Texts, NoText,
  Structured,   \* the messages whose content is a JSON list
  Raw,          \* message -> its content as it is, or NoText when it is blank
  Parts         \* message -> what walk() finds in each part of the list

(* A part is a text, a blank text, a tool call or a thought, or neither. *)
PartKinds == Texts \cup {"blank", "envelope", "unknown"}

ASSUME HermesAssumption ==
  /\ ByTime \in Seq(Messages)
  /\ \A m \in Messages : \E k \in 1..Len(ByTime) : ByTime[k] = m
  /\ Archive \subseteq Messages /\ Selected \subseteq Messages
  /\ Structured \subseteq Messages
  /\ ScanLimit \in Nat
  /\ Raw \in [Messages -> Texts \cup {NoText}]
  /\ NoText \notin Texts
  /\ \A m \in Structured : Raw[m] # NoText
  /\ Parts \in [Messages -> Seq(PartKinds)]

VARIABLES
  sent,       \* the messages in the database
  snapshot,   \* those that the SELECT of the last export saw
  exporting,  \* "never", "open" or "ended"
  flushed,    \* the whole lines in the file
  torn        \* is there a part of another line after them?

hermesVars == <<sent, snapshot, exporting, flushed, torn>>

-----------------------------------------------------------------------------
(* Sequences *)

(* The elements of the parts, one part after the other. *)
Concat(parts) ==
  LET upTo[k \in 0..Len(parts)] == IF k = 0 THEN << >> ELSE upTo[k - 1] \o parts[k]
  IN upTo[Len(parts)]

(* The elements of a sequence that are in a set, in their order. *)
Those(list, set) == Concat([k \in 1..Len(list) |-> IF list[k] \in set THEN <<list[k]>> ELSE << >>])

-----------------------------------------------------------------------------
(* What is exported *)

(* Mutant: a JSON value of an unknown shape is dropped like a tool call. *)
CleanContent_DropsUnknown(m) ==
  LET found == {k \in 1..Len(Parts[m]) : Parts[m][k] \notin {"envelope", "unknown"}}
      first == CHOOSE k \in found : \A j \in found : k <= j
  IN CASE m \notin Structured -> Raw[m]
       [] m \in Structured /\ found # {} ->
            IF Parts[m][first] = "blank" THEN NoText ELSE Parts[m][first]
       [] OTHER -> NoText

(* walk() ends at the first part that has a text, blank or not.  Without one, *)
(* a tool call or a thought in the list drops the message; a JSON value of    *)
(* unknown shape is kept as it is.                                           *)
CleanContent(m) ==
  LET found == {k \in 1..Len(Parts[m]) : Parts[m][k] \notin {"envelope", "unknown"}}
      first == CHOOSE k \in found : \A j \in found : k <= j
      chatter == \E k \in 1..Len(Parts[m]) : Parts[m][k] = "envelope"
  IN CASE m \notin Structured -> Raw[m]
       [] m \in Structured /\ found # {} ->
            IF Parts[m][first] = "blank" THEN NoText ELSE Parts[m][first]
       [] m \in Structured /\ found = {} -> IF chatter THEN NoText ELSE Raw[m]

(* The WHERE clause; tool rows are skipped after it unless roles are asked. *)
Where(m) == m \in Selected /\ (RolesAsked = {} \/ Role[m] \in RolesAsked)
Skipped(m) == (RolesAsked = {} /\ Role[m] = "tool") \/ CleanContent(m) = NoText

(* The LIMIT counts the rows that are skipped afterwards. *)
Scanned(db) ==
  LET rows == Those(ByTime, {m \in db : Where(m)})
  IN IF ScanLimit = 0 \/ ScanLimit > Len(rows) THEN rows ELSE SubSeq(rows, 1, ScanLimit)

(* database -> the lines that an export of it writes *)
Written == [db \in SUBSET Messages |-> Those(Scanned(db), {m \in Messages : ~Skipped(m)})]

HermesTypeOK ==
  /\ sent \subseteq Messages
  /\ snapshot \subseteq sent
  /\ exporting \in {"never", "open", "ended"}
  /\ flushed \in 0..Len(Written[snapshot])
  /\ torn \in BOOLEAN

HermesInit ==
  /\ sent = Archive
  /\ snapshot = {}
  /\ exporting = "never"
  /\ flushed = 0
  /\ torn = FALSE

-----------------------------------------------------------------------------
(* Steps *)

(* The agent runtime stores a message, of whichever session. *)
Send(m) ==
  /\ m \notin sent
  /\ sent' = sent \cup {m}
  /\ UNCHANGED <<snapshot, exporting, flushed, torn>>

(* open(out_path, "w") empties the file; the sorted SELECT is one snapshot. *)
OpenOut ==
  /\ exporting # "open"
  /\ snapshot' = sent
  /\ exporting' = "open"
  /\ flushed' = 0
  /\ torn' = FALSE
  /\ UNCHANGED sent

(* The buffer is full somewhere in a line. *)
Flush ==
  /\ exporting = "open"
  /\ \E n \in flushed..Len(Written[snapshot]) :
       /\ flushed' = n
       /\ torn' \in {part \in BOOLEAN : part => n < Len(Written[snapshot])}
  /\ UNCHANGED <<sent, snapshot, exporting>>

CloseOut ==
  /\ exporting = "open"
  /\ exporting' = "ended"
  /\ flushed' = Len(Written[snapshot])
  /\ torn' = FALSE
  /\ UNCHANGED <<sent, snapshot>>

(* Killed, or the database raises in the middle of the cursor. *)
ExportDies ==
  /\ exporting = "open"
  /\ exporting' = "ended"
  /\ UNCHANGED <<sent, snapshot, flushed, torn>>

HermesNext ==
  \/ \E m \in Messages : Send(m)
  \/ OpenOut \/ Flush \/ CloseOut \/ ExportDies

(* The file holds all that its export had to write. *)
Complete == exporting = "ended" /\ flushed = Len(Written[snapshot]) /\ ~torn
=============================================================================
