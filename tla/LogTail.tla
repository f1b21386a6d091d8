-------------------------------- MODULE LogTail --------------------------------
(***************************************************************************)
(* How the agent reads Rust's log (internal/logtail/tail.go).              *)
(*                                                                         *)
(* Rust empties the file and starts again whenever it is launched, or the  *)
(* file is put in the place of another; in between it adds lines.  Follow  *)
(* looks at the file by name and through its handle every quarter of a     *)
(* second, decides whether this is still the session it was reading, and   *)
(* reads on.  Rust does not wait for it: a session may begin between any   *)
(* two of these, and may be longer than the one before by the next look.   *)
(*                                                                         *)
(* What is read is counted in lines; the bytes of a line that is not       *)
(* complete wait for the rest.  The first line has a time to the           *)
(* millisecond, so no two sessions begin alike.                            *)
(***************************************************************************)
EXTENDS Naturals, Sequences, FiniteSets

CONSTANTS
  MaxSession,  \* bound: sessions of the game
  MaxLines     \* bound: lines of one

ASSUME LogTailAssumption == MaxSession \in Nat \ {0} /\ MaxLines \in Nat \ {0}

VARIABLES
  there,    \* os.Stat finds the file
  file,     \* which file has the name (os.SameFile)
  content,  \* per file: the session in it and its length
  phase,     \* where Follow is: "look", "read", "head"
  before,   \* the file that was there when it began; 0: none
  skipped,  \* history: the length of it that was skipped
  handle,   \* the file it has open; 0: none
  pos,
  head,     \* the session whose first bytes it remembers; 0: no bytes
  opened,
  lines,    \* onLine: sessions and numbers, in order
  broken    \* history: a session began in the middle of a look

tail == <<phase, before, skipped, handle, pos, head, opened, lines>>
logVars == <<there, file, content, tail, broken>>

Session == 1 .. MaxSession
Content == [session : Session, length : 0 .. MaxLines]

LogTailTypeOK ==
  /\ there \in BOOLEAN /\ file \in Session /\ content \in [Session -> Content]
  /\ phase \in {"look", "read", "head"}
  /\ before \in Session \cup {0} /\ skipped \in 0 .. MaxLines
  /\ handle \in Session \cup {0} /\ pos \in 0 .. MaxLines
  /\ head \in Session \cup {0} /\ opened \in BOOLEAN
  /\ lines \in Seq(Session \X (1 .. MaxLines)) /\ broken \in BOOLEAN

LogTailInit ==
  /\ there \in BOOLEAN /\ file = 1 /\ before = IF there THEN 1 ELSE 0
  /\ \E n \in 0 .. MaxLines : content = [f \in Session |-> [session |-> 1, length |-> n]]
  /\ phase = "look" /\ skipped = 0 /\ handle = 0
  /\ pos = 0 /\ head = 0 /\ opened = FALSE /\ lines = <<>> /\ broken = FALSE

Latest == content[file].session

-----------------------------------------------------------------------------
(* Rust.                                                                   *)

Writes ==
  /\ there /\ content[file].length < MaxLines
  /\ content' = [content EXCEPT ![file].length = @ + 1]
  /\ UNCHANGED <<there, file, tail, broken>>

\* A new session: in the same file, in another one, or in one where none was.
Begins ==
  /\ Latest < MaxSession /\ there' = TRUE
  /\ LET new == [session |-> Latest + 1, length |-> 0]
     IN \/ /\ there /\ content' = [content EXCEPT ![file] = new]
           /\ broken' = (broken \/ phase # "look" \/ (~opened /\ file = before))
           /\ UNCHANGED file
        \/ /\ file < MaxSession /\ file' = file + 1
           /\ content' = [content EXCEPT ![file + 1] = new]
           /\ UNCHANGED broken
  /\ UNCHANGED tail

Goes ==
  /\ there /\ there' = FALSE
  /\ UNCHANGED <<file, content, tail, broken>>

-----------------------------------------------------------------------------
(* Follow.                                                                 *)

Length == content[handle].length
HeadOf(f) == IF content[f].length > 0 THEN content[f].session ELSE 0

\* closeFile.
Closes == handle' = 0 /\ pos' = 0 /\ head' = 0

\* Whatever was there before is skipped, the first time.
Opens ==
  LET old == ~opened /\ file = before
      skip == IF old THEN content[file].length ELSE 0
  IN /\ handle' = file /\ pos' = skip /\ head' = HeadOf(file) /\ opened' = TRUE
     /\ skipped' = IF opened THEN skipped ELSE skip
     /\ phase' = "read"

\* Mutant: a session is known by the file having become shorter.
IsShorter == Length < pos

\* "Emptied and begun again".  No bytes are the beginning of any file.
IsNewSession == Length < pos \/ (head # 0 /\ HeadOf(handle) # head)

\* The switch of the loop, for a poll that ends here if no file is open.
Looks ==
  /\ phase = "look"
  /\ \/ ~there /\ Closes /\ UNCHANGED <<phase, opened, skipped>>
     \/ there /\ handle = 0 /\ Opens
     \/ there /\ handle = 0 /\ UNCHANGED <<phase, handle, pos, head, opened, skipped>>
     \/ /\ there /\ handle \notin {0, file}
        /\ Closes /\ UNCHANGED <<phase, opened, skipped>>
     \/ /\ there /\ handle = file /\ phase' = "read"
        /\ IF IsNewSession THEN pos' = 0 /\ head' = HeadOf(file)
           ELSE UNCHANGED <<pos, head>>
        /\ UNCHANGED <<handle, opened, skipped>>
  /\ UNCHANGED <<there, file, content, before, lines, broken>>

\* To the end of the file.
Reads ==
  /\ phase = "read" /\ phase' = "head"
  /\ lines' = lines \o [i \in 1 .. (IF Length > pos THEN Length - pos ELSE 0) |->
                          <<content[handle].session, pos + i>>]
  /\ pos' = IF Length > pos THEN Length ELSE pos
  /\ UNCHANGED <<there, file, content, before, skipped, handle, head, opened, broken>>

\* The fullest head there is.
KeepsHead ==
  /\ phase = "head" /\ phase' = "look"
  /\ head' = IF head = 0 /\ pos > 0 THEN HeadOf(handle) ELSE head
  /\ UNCHANGED <<there, file, content, before, skipped, handle, pos, opened, lines, broken>>

LogTailNext ==
  Writes \/ Begins \/ Goes \/ Looks \/ Reads \/ KeepsHead

LogTailSpec == LogTailInit /\ [][LogTailNext]_logVars

-----------------------------------------------------------------------------
(* What the agent makes of it.                                             *)

\* "Reading it would make the agent think it had just been banned": of the
\* session that was there before, nothing that was there before.  And "a new
\* session is always read from the top": each in order, no line twice, none left
\* out, and all that there is by the end of a look; unless a session began in
\* the file in the middle of a look, or before the first.
TailIsTrue ==
  ~broken =>
    /\ \A i \in 1 .. Len(lines) :
         LET s == lines[i][1]
             n == lines[i][2]
         IN IF i = 1 \/ lines[i - 1][1] # s
            THEN /\ \A j \in 1 .. i - 1 : lines[j][1] < s
                 /\ n = (IF s = 1 THEN skipped + 1 ELSE 1)
            ELSE n = lines[i - 1][2] + 1
    /\ (phase = "head" /\ handle = file
        /\ pos > (IF content[file].session = 1 THEN skipped ELSE 0)) =>
         lines # <<>> /\ lines[Len(lines)] = <<content[file].session, pos>>

=============================================================================
