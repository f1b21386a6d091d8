----------------------------- MODULE PartsProofs -----------------------------
(***************************************************************************)
(* Theorems about the five parts of MCParts, for every set of PCs, holders,*)
(* mates, goroutines and handlers and every number of rows, lines and      *)
(* minutes.  Each part has its inductive invariant, the lemma for each of  *)
(* its actions, and its theorems; at the end, that a behaviour of MCParts  *)
(* is one of each part.                                                    *)
(***************************************************************************)
EXTENDS MCParts, FiniteSetTheorems, SequenceTheorems, TLAPS

-----------------------------------------------------------------------------
(* Pairing.                                                                *)

UnderWay(r) == entry[r].at \in PairStatement

\* Of an account no two entries were at together: one is at a time, and from
\* its count on, until it has claimed a PC, there is none.
OneEntry ==
  \A a \in Holder \ raced :
    /\ \A q, r \in Code : UnderWay(q) /\ UnderWay(r) /\ entry[q].by = a /\ entry[r].by = a => q = r
    /\ \A r \in Code : entry[r].at \in {"code", "claim"} /\ entry[r].by = a => Linked(a) = {}
    /\ \A d, e \in Linked(a) : d = e

\* No poll has read a token of the row, and none waits for one.
Untouched(d) ==
  /\ parked[d] = Nobody /\ reading[d] = Nobody /\ adrift[d] = Nobody
  /\ collected[d] = 0

\* The token of a row, wherever it is on its way to the agent, is that of the
\* claim.  Until two polls have read it together, it waits, is in the hands of
\* one poll, or has been collected.
TokenTrue(d) ==
  /\ parked[d] \in {mark[d], Nobody}
  /\ reading[d] \in {mark[d], Nobody} /\ adrift[d] \in {mark[d], Nobody}
  /\ ~IsClaimed(d) => collected[d] = 0
  /\ agent[d] = "paired" => token[d] = mark[d] /\ IsClaimed(d)
  /\ d \notin overlapped =>
       /\ reading[d] = Nobody \/ adrift[d] = Nobody
       /\ parked[d] # Nobody \/ reading[d] # Nobody \/ adrift[d] # Nobody => collected[d] = 0
       /\ collected[d] <= 1

\* One entry is at the row at a time, it claims a row that is not claimed, and
\* parks the token of that claim, the only one there is.
RowTrue(d) ==
  /\ \A q, r \in Code : UnderWay(q) /\ UnderWay(r) /\ entry[q].for = d /\ entry[r].for = d => q = r
  /\ \A r \in Code : entry[r].at = "claim" /\ entry[r].for = d => ~IsClaimed(d)
  /\ \A r \in Code : entry[r].at = "park" /\ entry[r].for = d => mark[d] = r /\ Untouched(d)
  /\ TokenTrue(d)

\* Of the rows no two entries were at together.
OneToken == \A d \in Device \ raced : RowTrue(d)

PInv == PairTypeOK /\ OneEntry /\ OneToken

\* The invariant in groups: types that few steps touch.
AgentOK ==
  /\ agent \in [Device -> {"off", "polling", "paired", "failed"}]
  /\ token \in [Device -> Code \cup {Nobody}] /\ collected \in [Device -> Nat]
  /\ reading \in [Device -> Code \cup {Nobody}] /\ adrift \in [Device -> Code \cup {Nobody}]
  /\ overlapped \subseteq Device

RowOK ==
  /\ owner \in [Device -> Holder \cup {Nobody}] /\ mark \in [Device -> Code \cup {Nobody}]
  /\ revoked \subseteq Device /\ expired \subseteq Device

ParkedOK == parked \in [Device -> Code \cup {Nobody}]

EntryOK ==
  entry \in [Code -> [at : PairStatement \cup {"new", "over"}, by : Holder, for : Device]]

RacedOK == raced \subseteq Holder \cup Device

LEMMA PairTypes == PairTypeOK <=> AgentOK /\ RowOK /\ ParkedOK /\ EntryOK /\ RacedOK
  BY DEF PairTypeOK, AgentOK, RowOK, ParkedOK, EntryOK, RacedOK

LEMMA PairTypesNext ==
  ASSUME AgentOK', RowOK', ParkedOK', EntryOK', RacedOK'
  PROVE  PairTypeOK'
  BY DEF PairTypeOK, AgentOK, RowOK, ParkedOK, EntryOK, RacedOK

LEMMA PairFrames ==
  ASSUME PairTypeOK
  PROVE  /\ UNCHANGED agents => AgentOK'
         /\ UNCHANGED <<device, expired>> => RowOK'
         /\ UNCHANGED parked => ParkedOK'
         /\ UNCHANGED entry => EntryOK'
         /\ UNCHANGED raced => RacedOK'
  BY DEF PairTypeOK, AgentOK, RowOK, ParkedOK, EntryOK, RacedOK, agents, polls, device

LEMMA MovesIs ==
  ASSUME EntryOK, NEW r \in Code, NEW to \in PairStatement \cup {"new", "over"}, Moves(r, to)
  PROVE  /\ EntryOK' /\ entry'[r].at = to
         /\ \A q \in Code : q # r => entry'[q] = entry[q]
         /\ \A q \in Code : entry'[q].by = entry[q].by /\ entry'[q].for = entry[q].for
  BY DEF EntryOK, Moves

-----------------------------------------------------------------------------
(* What a step leaves alone.                                               *)

\* Nobody takes up the count, or reaches the code or the claim, and no account
\* gets a PC.
EntriesRest ==
  /\ \A q \in Code : entry'[q].by = entry[q].by /\ (UnderWay(q)' => UnderWay(q))
  /\ \A q \in Code : entry'[q].at \in {"code", "claim"} => entry[q].at \in {"code", "claim"}
  /\ \A a \in Holder : Linked(a)' \subseteq Linked(a)
  /\ raced \subseteq raced'

LEMMA OneEntryFrame == ASSUME PInv, EntriesRest PROVE OneEntry'
<1> SUFFICES ASSUME NEW a \in Holder, a \notin raced'
             PROVE  /\ \A q, r \in Code : UnderWay(q)' /\ UnderWay(r)'
                         /\ entry'[q].by = a /\ entry'[r].by = a => q = r
                    /\ \A r \in Code : entry'[r].at \in {"code", "claim"} /\ entry'[r].by = a =>
                         Linked(a)' = {}
                    /\ \A d, e \in Linked(a)' : d = e
  BY Zenon DEF OneEntry
<1>1. a \in Holder \ raced
  BY DEF EntriesRest
<1>2. /\ \A q, r \in Code : UnderWay(q) /\ UnderWay(r) /\ entry[q].by = a /\ entry[r].by = a => q = r
      /\ \A r \in Code : entry[r].at \in {"code", "claim"} /\ entry[r].by = a => Linked(a) = {}
      /\ \A d, e \in Linked(a) : d = e
  BY <1>1 DEF PInv, OneEntry
<1> QED BY <1>2 DEF EntriesRest

LEMMA OneTokenRowsNext ==
  ASSUME \A d \in Device : d \notin raced' => RowTrue(d)'
  PROVE  OneToken'
  BY Zenon DEF OneToken

\* The row's own columns and agent stay, and nobody comes to claim or to park.
RowRests(d) ==
  /\ mark'[d] = mark[d] /\ parked'[d] = parked[d] /\ collected'[d] = collected[d]
  /\ reading'[d] = reading[d] /\ adrift'[d] = adrift[d] /\ (d \in overlapped' <=> d \in overlapped)
  /\ agent'[d] = "paired" => agent[d] = "paired" /\ token'[d] = token[d]
  /\ \A q \in Code : /\ entry'[q].for = entry[q].for
                     /\ entry[q].for = d =>
                          /\ UnderWay(q)' => UnderWay(q)
                          /\ entry'[q].at \in {"claim", "park"} => entry'[q].at = entry[q].at

LEMMA RowFrame == ASSUME NEW d \in Device, RowTrue(d), RowRests(d) PROVE RowTrue(d)'
<1> USE DEF RowRests
<1>1. \A q, r \in Code : UnderWay(q)' /\ UnderWay(r)' /\ entry'[q].for = d /\ entry'[r].for = d => q = r
  BY DEF RowTrue
<1>2. \A r \in Code : entry'[r].at = "claim" /\ entry'[r].for = d => ~IsClaimed(d)'
  BY DEF RowTrue, IsClaimed
<1>3. \A r \in Code : entry'[r].at = "park" /\ entry'[r].for = d => mark'[d] = r /\ Untouched(d)'
  BY DEF RowTrue, Untouched
<1>4. TokenTrue(d)'
  BY DEF RowTrue, TokenTrue, IsClaimed
<1> QED BY Zenon, <1>1, <1>2, <1>3, <1>4 DEF RowTrue

\* A step that is not about entries that claim or park, nor about tokens.
LEMMA PairRestsInv ==
  ASSUME PInv, PairTypeOK', EntriesRest, \A d \in Device \ raced : RowRests(d)
  PROVE  PInv'
<1>1. \A d \in Device : d \notin raced' => RowTrue(d)'
  BY RowFrame DEF OneToken, PInv, EntriesRest
<1> QED BY <1>1, OneEntryFrame, OneTokenRowsNext DEF PInv

-----------------------------------------------------------------------------
LEMMA StartPairingInv == ASSUME PInv, NEW d \in Device, StartPairing(d) PROVE PInv'
<1> USE DEF StartPairing, PInv, device, polls
<1>1. AgentOK /\ AgentOK' /\ PairTypeOK'
  <2>1. AgentOK /\ AgentOK'
    BY PairTypes DEF AgentOK
  <2> QED BY <2>1, PairFrames, PairTypesNext
<1>2. EntriesRest
  BY DEF EntriesRest, UnderWay, Linked
<1>3. \A e \in Device : RowRests(e)
  BY <1>1 DEF RowRests, UnderWay, AgentOK
<1> QED BY <1>1, <1>2, <1>3, PairRestsInv

LEMMA CodeExpiresInv == ASSUME PInv, NEW d \in Device, CodeExpires(d) PROVE PInv'
<1> USE DEF CodeExpires, PInv, device, agents, polls
<1>1. PairTypeOK'
  <2>1. RowOK'
    BY PairTypes DEF RowOK
  <2> QED BY <2>1, PairFrames, PairTypesNext
<1>2. EntriesRest
  BY DEF EntriesRest, UnderWay, Linked
<1>3. \A e \in Device : RowRests(e)
  BY DEF RowRests, UnderWay
<1> QED BY <1>1, <1>2, <1>3, PairRestsInv

LEMMA UnlinkInv == ASSUME PInv, NEW d \in Device, Unlink(d) PROVE PInv'
<1> USE DEF Unlink, PInv, agents, polls
<1>1. PairTypeOK'
  <2>1. RowOK'
    BY PairTypes DEF RowOK
  <2> QED BY <2>1, PairFrames, PairTypesNext
<1>2. EntriesRest
  BY DEF EntriesRest, UnderWay, Linked
<1>3. \A e \in Device : RowRests(e)
  BY DEF RowRests, UnderWay
<1> QED BY <1>1, <1>2, <1>3, PairRestsInv

\* Nothing changes but the token of this row, on its way to the agent.
Delivers(d) ==
  /\ UNCHANGED <<device, expired, entry, raced>>
  /\ \A e \in Device \ {d} :
       /\ agent'[e] = agent[e] /\ token'[e] = token[e] /\ collected'[e] = collected[e]
       /\ parked'[e] = parked[e] /\ reading'[e] = reading[e] /\ adrift'[e] = adrift[e]
       /\ e \in overlapped' <=> e \in overlapped

LEMMA DeliversInv ==
  ASSUME PInv, NEW d \in Device, Delivers(d), AgentOK', ParkedOK',
         Untouched(d) => Untouched(d)', TokenTrue(d) => TokenTrue(d)'
  PROVE  PInv'
<1> USE DEF PInv, device, Delivers
<1>1. PairTypeOK'
  BY PairFrames, PairTypesNext
<1>2. EntriesRest
  BY DEF EntriesRest, UnderWay, Linked
<1>3. ASSUME NEW e \in Device, e # d, RowTrue(e) PROVE RowTrue(e)'
  <2>1. RowRests(e)
    BY <1>3 DEF RowRests, UnderWay
  <2> QED BY <1>3, <2>1, RowFrame
<1>4. ASSUME RowTrue(d) PROVE RowTrue(d)'
  <2>1. /\ \A q, r \in Code : UnderWay(q)' /\ UnderWay(r)'
             /\ entry'[q].for = d /\ entry'[r].for = d => q = r
        /\ \A r \in Code : entry'[r].at = "claim" /\ entry'[r].for = d => ~IsClaimed(d)'
    BY <1>4 DEF RowTrue, UnderWay, IsClaimed
  <2>2. \A r \in Code : entry'[r].at = "park" /\ entry'[r].for = d => mark'[d] = r /\ Untouched(d)'
    BY <1>4 DEF RowTrue
  <2>3. TokenTrue(d)'
    BY <1>4 DEF RowTrue
  <2> QED BY Zenon, <2>1, <2>2, <2>3 DEF RowTrue
<1>5. \A e \in Device : e \notin raced' => RowTrue(e)'
  BY <1>3, <1>4 DEF OneToken
<1> QED BY <1>1, <1>2, <1>5, OneEntryFrame, OneTokenRowsNext

LEMMA PollInv == ASSUME PInv, NEW d \in Device, Poll(d) PROVE PInv'
<1> USE DEF Poll, PInv, device
<1>1. AgentOK /\ ParkedOK
  BY PairTypes
<1>2. AgentOK' /\ ParkedOK' /\ Delivers(d)
  BY <1>1 DEF AgentOK, ParkedOK, Delivers
<1>3. Untouched(d) => Untouched(d)'
  BY <1>1 DEF Untouched, AgentOK
<1>4. TokenTrue(d) => TokenTrue(d)'
  BY <1>1 DEF TokenTrue, AgentOK, IsClaimed
<1> QED BY <1>2, <1>3, <1>4, DeliversInv

LEMMA CollectInv == ASSUME PInv, NEW d \in Device, Collect(d) PROVE PInv'
<1> USE DEF Collect, Deletes, PInv, device
<1>1. AgentOK /\ ParkedOK
  BY PairTypes
<1>2. AgentOK' /\ ParkedOK' /\ Delivers(d)
  BY <1>1 DEF AgentOK, ParkedOK, Delivers
<1>3. Untouched(d) => Untouched(d)'
  BY DEF Untouched
<1>4. TokenTrue(d) => TokenTrue(d)'
  BY <1>1 DEF TokenTrue, AgentOK, ParkedOK, IsClaimed
<1> QED BY <1>2, <1>3, <1>4, DeliversInv

LEMMA PollBreaksInv == ASSUME PInv, NEW d \in Device, PollBreaks(d) PROVE PInv'
<1> USE DEF PollBreaks, PInv, device
<1>1. AgentOK /\ ParkedOK
  BY PairTypes
<1>2. AgentOK' /\ ParkedOK' /\ Delivers(d)
  BY <1>1 DEF AgentOK, ParkedOK, Delivers
<1>3. Untouched(d) => Untouched(d)'
  BY <1>1 DEF Untouched, AgentOK
<1>4. TokenTrue(d) => TokenTrue(d)'
  BY <1>1 DEF TokenTrue, AgentOK, IsClaimed
<1> QED BY <1>2, <1>3, <1>4, DeliversInv

LEMMA LoseInv == ASSUME PInv, NEW d \in Device, Lose(d) PROVE PInv'
<1> USE DEF Lose, PInv, device
<1>1. AgentOK /\ ParkedOK
  BY PairTypes
<1>2. AgentOK' /\ ParkedOK' /\ Delivers(d)
  BY <1>1 DEF AgentOK, ParkedOK, Delivers
<1>3. Untouched(d) => Untouched(d)'
  BY DEF Untouched
<1>4. TokenTrue(d) => TokenTrue(d)'
  BY <1>1 DEF TokenTrue, AgentOK, IsClaimed
<1> QED BY <1>2, <1>3, <1>4, DeliversInv

LEMMA CollectLostInv == ASSUME PInv, NEW d \in Device, CollectLost(d) PROVE PInv'
<1> USE DEF CollectLost, Deletes, PInv, device
<1>1. AgentOK /\ ParkedOK
  BY PairTypes
<1>2. AgentOK' /\ ParkedOK' /\ Delivers(d)
  BY <1>1 DEF AgentOK, ParkedOK, Delivers
<1>3. Untouched(d) => Untouched(d)'
  BY DEF Untouched
<1>4. TokenTrue(d) => TokenTrue(d)'
  BY <1>1 DEF TokenTrue, AgentOK, ParkedOK, IsClaimed
<1> QED BY <1>2, <1>3, <1>4, DeliversInv

\* Two that are at one account or one row together are noticed as the second
\* one begins.
LEMMA TypeInv == ASSUME PInv, NEW r \in Code, Type(r) PROVE PInv'
<1> USE DEF Type, PInv, device, agents, polls
<1>1. EntryOK /\ RacedOK
  BY PairTypes
<1>2. PICK a \in Holder, d \in Device : a = entry[r].by /\ d = entry[r].for
  BY <1>1 DEF EntryOK
<1>3. "count" \in PairStatement
  BY DEF PairStatement
<1>4. /\ EntryOK' /\ entry'[r].at = "count" /\ entry[r].at = "new"
      /\ \A q \in Code : q # r => entry'[q] = entry[q]
      /\ \A q \in Code : entry'[q].by = entry[q].by /\ entry'[q].for = entry[q].for
  BY <1>1, <1>3, MovesIs
<1>5. raced' = raced \cup {a : q \in {p \in Others(r) : entry[p].by = a}}
                     \cup {d : q \in {p \in Others(r) : entry[p].for = d}}
  BY <1>2
<1>6. RacedOK' /\ raced \subseteq raced'
  BY <1>1, <1>5 DEF RacedOK
<1>7. PairTypeOK'
  BY <1>4, <1>6, PairFrames, PairTypesNext
<1>8. /\ a \notin raced' => \A q \in Code : UnderWay(q) => entry[q].by # a
      /\ d \notin raced' => \A q \in Code : UnderWay(q) => entry[q].for # d
  <2>1. \A q \in Code : UnderWay(q) => q \in Others(r)
    BY <1>4 DEF UnderWay, Others, PairStatement
  <2> QED BY <1>5, <2>1
<1>9. \A q \in Code : UnderWay(q)' => UnderWay(q) \/ q = r
  BY <1>4 DEF UnderWay
<1>10. OneEntry'
  <2> SUFFICES ASSUME NEW b \in Holder, b \notin raced'
               PROVE  /\ \A q, p \in Code : UnderWay(q)' /\ UnderWay(p)'
                           /\ entry'[q].by = b /\ entry'[p].by = b => q = p
                      /\ \A p \in Code : entry'[p].at \in {"code", "claim"} /\ entry'[p].by = b =>
                           Linked(b)' = {}
                      /\ \A e, f \in Linked(b)' : e = f
    BY Zenon DEF OneEntry
  <2>1. b \notin raced /\ Linked(b)' = Linked(b)
    BY <1>6 DEF Linked
  <2>2. \A q, p \in Code : UnderWay(q)' /\ UnderWay(p)'
          /\ entry'[q].by = b /\ entry'[p].by = b => q = p
    BY <1>2, <1>4, <1>8, <1>9, <2>1 DEF OneEntry
  <2>3. \A p \in Code : entry'[p].at \in {"code", "claim"} /\ entry'[p].by = b => Linked(b)' = {}
    BY <1>4, <2>1 DEF OneEntry
  <2> QED BY <2>1, <2>2, <2>3 DEF OneEntry
<1>11. ASSUME NEW e \in Device, e \notin raced' PROVE RowTrue(e)'
  <2>1. RowTrue(e)
    BY <1>6, <1>11 DEF OneToken
  <2>2. CASE e # d
    <3>1. RowRests(e)
      BY <1>2, <1>4, <1>9, <2>2 DEF RowRests
    <3> QED BY <2>1, <3>1, RowFrame
  <2>3. CASE e = d
    <3>1. \A q, p \in Code : UnderWay(q)' /\ UnderWay(p)'
            /\ entry'[q].for = e /\ entry'[p].for = e => q = p
      BY <1>4, <1>8, <1>9, <1>11, <2>3
    <3>2. \A q \in Code : entry'[q].at \in {"claim", "park"} => entry'[q] = entry[q]
      BY <1>4
    <3>3. \A q \in Code : entry'[q].at = "claim" /\ entry'[q].for = e => ~IsClaimed(e)'
      BY <2>1, <3>2 DEF RowTrue, IsClaimed
    <3>4. \A q \in Code : entry'[q].at = "park" /\ entry'[q].for = e => mark'[e] = q /\ Untouched(e)'
      BY <2>1, <3>2 DEF RowTrue, Untouched
    <3>5. TokenTrue(e)'
      BY <2>1 DEF RowTrue, TokenTrue, IsClaimed
    <3> QED BY Zenon, <3>1, <3>3, <3>4, <3>5 DEF RowTrue
  <2> QED BY <2>2, <2>3
<1> QED BY <1>7, <1>10, <1>11, OneTokenRowsNext

LEMMA CountPCsInv == ASSUME PInv, NEW r \in Code, CountPCs(r) PROVE PInv'
<1> USE DEF CountPCs, PInv, device, agents, polls
<1>1. EntryOK
  BY PairTypes
<1>2. PICK to \in {"code", "over"} :
        Moves(r, to) /\ (to = "code" => Linked(entry[r].by) = {})
  BY <1>1
<1>3. to \in PairStatement \cup {"new", "over"} /\ "count" \in PairStatement
  BY <1>2 DEF PairStatement
<1>4. /\ EntryOK' /\ entry'[r].at = to
      /\ \A q \in Code : q # r => entry'[q] = entry[q]
      /\ \A q \in Code : entry'[q].by = entry[q].by /\ entry'[q].for = entry[q].for
  BY <1>1, <1>2, <1>3, MovesIs
<1>5. PairTypeOK'
  BY <1>4, PairFrames, PairTypesNext
<1>6. \A q \in Code : UnderWay(q)' => UnderWay(q)
  BY <1>3, <1>4 DEF UnderWay
<1>7. OneEntry'
  <2> SUFFICES ASSUME NEW b \in Holder, b \notin raced'
               PROVE  /\ \A q, p \in Code : UnderWay(q)' /\ UnderWay(p)'
                           /\ entry'[q].by = b /\ entry'[p].by = b => q = p
                      /\ \A p \in Code : entry'[p].at \in {"code", "claim"} /\ entry'[p].by = b =>
                           Linked(b)' = {}
                      /\ \A e, f \in Linked(b)' : e = f
    BY Zenon DEF OneEntry
  <2>1. b \in Holder \ raced /\ Linked(b)' = Linked(b)
    BY DEF Linked
  <2>2. \A q, p \in Code : UnderWay(q)' /\ UnderWay(p)'
          /\ entry'[q].by = b /\ entry'[p].by = b => q = p
    BY <1>4, <1>6, <2>1 DEF OneEntry
  <2>3. \A p \in Code : entry'[p].at \in {"code", "claim"} /\ entry'[p].by = b => Linked(b)' = {}
    BY <1>2, <1>4, <2>1 DEF OneEntry
  <2> QED BY <2>1, <2>2, <2>3 DEF OneEntry
<1>8. ASSUME NEW e \in Device \ raced PROVE RowTrue(e)'
  <2>1. RowRests(e)
    BY <1>2, <1>4, <1>6 DEF RowRests
  <2> QED BY <2>1, RowFrame DEF OneToken
<1> QED BY <1>5, <1>7, <1>8, OneTokenRowsNext

LEMMA ReadCodeInv == ASSUME PInv, NEW r \in Code, ReadCode(r) PROVE PInv'
<1> USE DEF ReadCode, PInv, device, agents, polls
<1>1. EntryOK
  BY PairTypes
<1>2. PICK to \in {"claim", "over"} :
        Moves(r, to) /\ (to = "claim" => ~IsClaimed(entry[r].for))
  BY <1>1
<1>3. to \in PairStatement \cup {"new", "over"} /\ "code" \in PairStatement
  BY <1>2 DEF PairStatement
<1>4. /\ EntryOK' /\ entry'[r].at = to
      /\ \A q \in Code : q # r => entry'[q] = entry[q]
      /\ \A q \in Code : entry'[q].by = entry[q].by /\ entry'[q].for = entry[q].for
  BY <1>1, <1>2, <1>3, MovesIs
<1>5. PairTypeOK'
  BY <1>4, PairFrames, PairTypesNext
<1>6. \A q \in Code : UnderWay(q)' => UnderWay(q)
  BY <1>3, <1>4 DEF UnderWay
<1>7. EntriesRest
  BY <1>2, <1>4, <1>6 DEF EntriesRest, Linked
<1>8. ASSUME NEW e \in Device \ raced PROVE RowTrue(e)'
  <2>1. RowTrue(e)
    BY DEF OneToken
  <2>2. \A q, p \in Code : UnderWay(q)' /\ UnderWay(p)'
          /\ entry'[q].for = e /\ entry'[p].for = e => q = p
    BY <1>4, <1>6, <2>1 DEF RowTrue
  <2>3. \A q \in Code : entry'[q].at = "claim" /\ entry'[q].for = e => ~IsClaimed(e)'
    BY <1>2, <1>4, <2>1 DEF RowTrue, IsClaimed
  <2>4. \A q \in Code : entry'[q].at = "park" => entry'[q] = entry[q]
    BY <1>2, <1>4
  <2>5. \A q \in Code : entry'[q].at = "park" /\ entry'[q].for = e => mark'[e] = q /\ Untouched(e)'
    BY <2>1, <2>4 DEF RowTrue, Untouched
  <2>6. TokenTrue(e)'
    BY <2>1 DEF RowTrue, TokenTrue, IsClaimed
  <2> QED BY Zenon, <2>2, <2>3, <2>5, <2>6 DEF RowTrue
<1> QED BY <1>5, <1>7, <1>8, OneEntryFrame, OneTokenRowsNext

\* The claim of a row nobody else was at makes the token the row knows.
LEMMA ClaimCodeInv == ASSUME PInv, NEW r \in Code, ClaimCode(r) PROVE PInv'
<1> USE DEF ClaimCode, PInv, device, agents, polls
<1>1. EntryOK /\ RowOK
  BY PairTypes
<1>2. PICK a \in Holder, d \in Device : a = entry[r].by /\ d = entry[r].for
  BY <1>1 DEF EntryOK
<1>3. "park" \in PairStatement /\ "claim" \in PairStatement /\ entry[r].at = "claim"
  BY DEF PairStatement
<1>4. /\ EntryOK' /\ entry'[r].at = "park"
      /\ \A q \in Code : q # r => entry'[q] = entry[q]
      /\ \A q \in Code : entry'[q].by = entry[q].by /\ entry'[q].for = entry[q].for
  BY <1>1, <1>3, MovesIs
<1>5. \/ UNCHANGED <<owner, mark>> /\ IsClaimed(d)
      \/ /\ owner' = [owner EXCEPT ![d] = a] /\ mark' = [mark EXCEPT ![d] = r]
         /\ ~IsClaimed(d)
  BY <1>2
<1>6. /\ RowOK' /\ \A e \in Device : e # d => owner'[e] = owner[e] /\ mark'[e] = mark[e]
      /\ owner'[d] \in {owner[d], a}
  BY <1>1, <1>5 DEF RowOK
<1>7. PairTypeOK'
  BY <1>4, <1>6, PairFrames, PairTypesNext
<1>8. \A q \in Code : UnderWay(q)' => UnderWay(q)
  BY <1>3, <1>4 DEF UnderWay
<1>9. OneEntry'
  <2> SUFFICES ASSUME NEW b \in Holder, b \notin raced'
               PROVE  /\ \A q, p \in Code : UnderWay(q)' /\ UnderWay(p)'
                           /\ entry'[q].by = b /\ entry'[p].by = b => q = p
                      /\ \A p \in Code : entry'[p].at \in {"code", "claim"} /\ entry'[p].by = b =>
                           Linked(b)' = {}
                      /\ \A e, f \in Linked(b)' : e = f
    BY Zenon DEF OneEntry
  <2>1. b \in Holder \ raced
    OBVIOUS
  <2>2. \A q, p \in Code : UnderWay(q)' /\ UnderWay(p)'
          /\ entry'[q].by = b /\ entry'[p].by = b => q = p
    BY <1>4, <1>8, <2>1 DEF OneEntry
  <2>3. CASE b # a
    <3>1. Linked(b)' \subseteq Linked(b)
      BY <1>6, <2>3 DEF Linked
    <3>2. \A p \in Code : entry'[p].at \in {"code", "claim"} /\ entry'[p].by = b => Linked(b)' = {}
      BY <1>4, <2>1, <3>1 DEF OneEntry
    <3> QED BY <2>1, <2>2, <3>1, <3>2 DEF OneEntry
  <2>4. CASE b = a
    <3>1. Linked(a) = {}
      BY <1>2, <1>3, <2>1, <2>4 DEF OneEntry
    <3>2. Linked(a)' \subseteq {d}
      BY <1>6, <3>1 DEF Linked
    <3>3. \A p \in Code : entry'[p].by = a => entry'[p].at \notin {"code", "claim"}
      <4> SUFFICES ASSUME NEW p \in Code, entry'[p].by = a, entry'[p].at \in {"code", "claim"}
                   PROVE  FALSE
        OBVIOUS
      <4>1. p # r /\ entry[p].at \in {"code", "claim"}
        BY <1>4
      <4>2. UnderWay(p) /\ UnderWay(r)
        BY <1>3, <4>1 DEF UnderWay, PairStatement
      <4> QED BY <1>2, <1>4, <2>1, <2>4, <4>1, <4>2 DEF OneEntry
    <3> QED BY <2>2, <2>4, <3>2, <3>3
  <2> QED BY <2>3, <2>4
<1>10. ASSUME NEW e \in Device \ raced PROVE RowTrue(e)'
  <2>1. RowTrue(e)
    BY DEF OneToken
  <2>2. CASE e # d
    <3>1. RowRests(e)
      BY <1>2, <1>4, <1>6, <1>8, <2>2 DEF RowRests
    <3> QED BY <2>1, <3>1, RowFrame
  <2>3. CASE e = d
    <3>1. mark[d] = Nobody /\ mark'[d] = r /\ r # Nobody
      BY <1>1, <1>2, <1>3, <1>5, <2>1, <2>3, PairingAssumption DEF RowTrue, RowOK, IsClaimed
    <3>2. Untouched(d) /\ agent[d] # "paired"
      BY <2>1, <2>3, <3>1 DEF RowTrue, TokenTrue, Untouched, IsClaimed
    <3>3. \A q \in Code : UnderWay(q)' /\ entry'[q].for = d => q = r
      <4>1. UnderWay(r)
        BY <1>3 DEF UnderWay
      <4> QED BY <1>2, <1>4, <1>8, <2>1, <2>3, <4>1 DEF RowTrue
    <3>4. \A q \in Code : entry'[q].at \in {"claim", "park"} => UnderWay(q)'
      BY DEF UnderWay, PairStatement
    <3>5. /\ \A q, p \in Code : UnderWay(q)' /\ UnderWay(p)'
               /\ entry'[q].for = e /\ entry'[p].for = e => q = p
          /\ \A q \in Code : entry'[q].at = "claim" /\ entry'[q].for = e => ~IsClaimed(e)'
          /\ \A q \in Code : entry'[q].at = "park" /\ entry'[q].for = e => mark'[e] = q /\ Untouched(e)'
      BY <1>4, <2>3, <3>1, <3>2, <3>3, <3>4 DEF Untouched
    <3>6. TokenTrue(e)'
      BY <2>3, <3>2 DEF TokenTrue, Untouched
    <3> QED BY Zenon, <3>5, <3>6 DEF RowTrue
  <2> QED BY <2>2, <2>3
<1> QED BY <1>7, <1>9, <1>10, OneTokenRowsNext

LEMMA ParkInv == ASSUME PInv, NEW r \in Code, Park(r) PROVE PInv'
<1> USE DEF Park, PInv, device, agents, polls
<1>1. EntryOK /\ ParkedOK
  BY PairTypes
<1>2. PICK d \in Device : d = entry[r].for
  BY <1>1 DEF EntryOK
<1>3. "over" \notin PairStatement
  BY DEF PairStatement
<1>4. /\ EntryOK' /\ entry'[r].at = "over"
      /\ \A q \in Code : q # r => entry'[q] = entry[q]
      /\ \A q \in Code : entry'[q].by = entry[q].by /\ entry'[q].for = entry[q].for
  BY <1>1, MovesIs
<1>5. ParkedOK' /\ parked'[d] = r /\ \A e \in Device : e # d => parked'[e] = parked[e]
  BY <1>1, <1>2 DEF ParkedOK
<1>6. PairTypeOK'
  BY <1>4, <1>5, PairFrames, PairTypesNext
<1>7. \A q \in Code : UnderWay(q)' => UnderWay(q)
  BY <1>3, <1>4 DEF UnderWay
<1>8. EntriesRest
  BY <1>4, <1>7 DEF EntriesRest, Linked
<1>9. ASSUME NEW e \in Device \ raced PROVE RowTrue(e)'
  <2>1. RowTrue(e)
    BY DEF OneToken
  <2>2. CASE e # d
    <3>1. RowRests(e)
      BY <1>2, <1>4, <1>5, <1>7, <2>2 DEF RowRests
    <3> QED BY <2>1, <3>1, RowFrame
  <2>3. CASE e = d
    <3>1. mark[d] = r /\ Untouched(d)
      BY <1>2, <2>1, <2>3 DEF RowTrue
    <3>2. \A q \in Code : entry'[q].at \in {"claim", "park"} => q # r /\ entry'[q] = entry[q]
      BY <1>4
    <3>3. \A q \in Code : entry[q].for = d /\ q # r => ~UnderWay(q)
      <4>1. UnderWay(r)
        BY DEF UnderWay, PairStatement
      <4> QED BY <1>2, <2>1, <2>3, <4>1 DEF RowTrue
    <3>4. \A q \in Code : entry'[q].for = d => entry'[q].at \notin {"claim", "park"}
      BY <1>4, <3>2, <3>3 DEF UnderWay, PairStatement
    <3>5. /\ \A q, p \in Code : UnderWay(q)' /\ UnderWay(p)'
               /\ entry'[q].for = e /\ entry'[p].for = e => q = p
          /\ \A q \in Code : entry'[q].at = "claim" /\ entry'[q].for = e => ~IsClaimed(e)'
          /\ \A q \in Code : entry'[q].at = "park" /\ entry'[q].for = e => mark'[e] = q /\ Untouched(e)'
      BY <1>4, <1>7, <2>1, <2>3, <3>4 DEF RowTrue
    <3>6. TokenTrue(e)'
      BY <1>5, <2>1, <2>3, <3>1 DEF RowTrue, TokenTrue, Untouched, IsClaimed
    <3> QED BY Zenon, <3>5, <3>6 DEF RowTrue
  <2> QED BY <2>2, <2>3
<1> QED BY <1>6, <1>8, <1>9, OneEntryFrame, OneTokenRowsNext

LEMMA BreaksInv == ASSUME PInv, NEW r \in Code, Breaks(r) PROVE PInv'
<1> USE DEF Breaks, PInv, device, agents, polls
<1>1. EntryOK
  BY PairTypes
<1>2. "over" \notin PairStatement
  BY DEF PairStatement
<1>3. /\ EntryOK' /\ entry'[r].at = "over"
      /\ \A q \in Code : q # r => entry'[q] = entry[q]
      /\ \A q \in Code : entry'[q].by = entry[q].by /\ entry'[q].for = entry[q].for
  BY <1>1, MovesIs
<1>4. PairTypeOK'
  BY <1>3, PairFrames, PairTypesNext
<1>5. \A q \in Code : UnderWay(q)' => UnderWay(q)
  BY <1>2, <1>3 DEF UnderWay
<1>6. EntriesRest
  BY <1>3, <1>5 DEF EntriesRest, Linked
<1>7. \A e \in Device : RowRests(e)
  BY <1>3, <1>5 DEF RowRests
<1> QED BY <1>4, <1>6, <1>7, PairRestsInv

LEMMA PairStutter == ASSUME PInv, UNCHANGED pairVars PROVE PInv'
<1> USE DEF pairVars, agents, polls, device, PInv
<1>1. PairTypeOK'
  BY PairFrames, PairTypesNext
<1>2. EntriesRest
  BY DEF EntriesRest, UnderWay, Linked
<1>3. \A e \in Device : RowRests(e)
  BY DEF RowRests, UnderWay
<1> QED BY <1>1, <1>2, <1>3, PairRestsInv

LEMMA PairInitInv == PairInit => PInv
<1> SUFFICES ASSUME PairInit PROVE PInv
  OBVIOUS
<1>1. PairTypeOK
  BY DEF PairInit, PairTypeOK
<1>2. \A r \in Code : entry[r].at = "new"
  BY DEF PairInit
<1>3. \A a \in Holder : Linked(a) = {}
  BY PairingAssumption DEF PairInit, Linked
<1>4. OneEntry
  BY <1>2, <1>3 DEF OneEntry, UnderWay, PairStatement
<1>5. \A d \in Device : RowTrue(d)
  BY <1>2 DEF PairInit, RowTrue, TokenTrue, UnderWay, PairStatement, IsClaimed
<1> QED BY <1>1, <1>4, <1>5 DEF OneToken, PInv

LEMMA PairNextInv == PInv /\ [PairNext]_pairVars => PInv'
<1> SUFFICES ASSUME PInv, [PairNext]_pairVars PROVE PInv'
  OBVIOUS
<1>1. ASSUME NEW d \in Device,
             \/ StartPairing(d) \/ CodeExpires(d) \/ Unlink(d)
             \/ Poll(d) \/ Collect(d) \/ PollBreaks(d) \/ Lose(d) \/ CollectLost(d)
      PROVE  PInv'
  BY Zenon, <1>1, StartPairingInv, CodeExpiresInv, UnlinkInv, PollInv, CollectInv,
     PollBreaksInv, LoseInv, CollectLostInv
<1>2. ASSUME NEW r \in Code,
             Type(r) \/ CountPCs(r) \/ ReadCode(r) \/ ClaimCode(r) \/ Park(r) \/ Breaks(r)
      PROVE  PInv'
  BY Zenon, <1>2, TypeInv, CountPCsInv, ReadCodeInv, ClaimCodeInv, ParkInv, BreaksInv
<1>3. CASE UNCHANGED pairVars
  BY <1>3, PairStutter
<1> QED BY Zenon, <1>1, <1>2, <1>3 DEF PairNext

\* The invariant of pairing.
THEOREM PairInvariance == PairSpec => []PInv
<1>1. PInv /\ [PairNext]_pairVars => PInv'
  BY PairNextInv
<1> QED BY <1>1, PairInitInv, PTL DEF PairSpec

LEMMA AtMostOne ==
  ASSUME NEW S, \A d, e \in S : d = e
  PROVE  Cardinality(S) <= 1
<1>1. CASE S = {}
  BY <1>1, FS_EmptySet
<1>2. CASE S # {}
  <2>1. PICK d \in S : TRUE
    BY <1>2
  <2>2. S = {d} /\ Cardinality({d}) = 1
    BY <2>1, FS_Singleton
  <2> QED BY <2>2
<1> QED BY <1>1, <1>2

\* One PC per account, however many codes are typed in, unless two were typed
\* into it at the same time.
THEOREM OnePCPerAccount == PairSpec => []OnePC
<1>1. PInv => OnePC
  <2> SUFFICES ASSUME PInv, NEW a \in Holder \ raced PROVE Cardinality(Linked(a)) <= 1
    BY DEF OnePC
  <2>1. \A d, e \in Linked(a) : d = e
    BY DEF PInv, OneEntry
  <2> QED BY <2>1, AtMostOne
<1> QED BY <1>1, PairInvariance, PTL

\* The token an agent has saved is the one its row knows, unless its code was
\* being typed in twice; and it was collected once at most, unless two polls had
\* read it together.
THEOREM TokensOpen == PairSpec => []TokenOpens
<1>1. PInv => TokenOpens
  BY DEF PInv, OneToken, RowTrue, TokenTrue, TokenOpens, IsClaimed
<1> QED BY <1>1, PairInvariance, PTL

-----------------------------------------------------------------------------
(* Referral: the bank of months, and months put over one another.          *)

\* Handlers that have taken a month off the bank and not told Stripe yet.
Applying == {w \in Worker : step[w] = "apply"}

\* The inductive invariant.  A month on its way to Stripe is in no variable, so
\* given <= spent is kept only together with the handlers that carry one.
RInv ==
  /\ RefTypeOK
  /\ given + Cardinality(Applying) <= spent
  /\ credits + spent = earned
  /\ earned <= MaxRewards
  /\ earned <= Cardinality(rewarded)

LEMMA FiniteRewarded == RefTypeOK => IsFiniteSet(rewarded) /\ Cardinality(rewarded) \in Nat
  BY ReferralAssumption, FS_Subset, FS_CardinalityType DEF RefTypeOK

LEMMA FiniteApplying == IsFiniteSet(Applying) /\ Cardinality(Applying) \in Nat
<1>1. Applying \subseteq Worker
  BY DEF Applying
<1> QED BY <1>1, ReferralAssumption, FS_Subset, FS_CardinalityType

LEMMA InvEarned == RInv => MonthsAreEarned
<1> SUFFICES ASSUME RInv PROVE MonthsAreEarned
  OBVIOUS
<1>1. given \in Nat /\ spent \in Nat /\ given + Cardinality(Applying) <= spent
  BY DEF RInv, RefTypeOK
<1>2. given <= spent
  BY <1>1, FiniteApplying
<1> QED BY <1>2 DEF RInv, MonthsAreEarned

LEMMA RefInitInv == RefInit => RInv
<1> SUFFICES ASSUME RefInit PROVE RInv
  OBVIOUS
<1>1. RefTypeOK
  BY DEF RefInit, RefTypeOK
<1>2. Applying = {}
  BY DEF RefInit, Applying
<1>3. Cardinality(Applying) = 0 /\ Cardinality(rewarded) = 0
  BY <1>2, FS_EmptySet DEF RefInit
<1> QED BY <1>1, <1>3, ReferralAssumption DEF RefInit, RInv

-----------------------------------------------------------------------------
(* What a step may do to the handlers and to the bank.                     *)

\* A handler that goes to any statement but the last one does not add to those
\* that carry a month.
LEMMA TurnsElsewhere ==
  ASSUME RefTypeOK, NEW w \in Worker, NEW to,
         to \in {"idle", "award", "bank", "ask", "spend"}, Turns(w, to)
  PROVE  /\ step' \in [Worker -> {"idle", "award", "bank", "ask", "spend", "apply"}]
         /\ Applying' = Applying \ {w}
         /\ Cardinality(Applying') <= Cardinality(Applying)
         /\ step[w] = "apply" => Cardinality(Applying') = Cardinality(Applying) - 1
<1>1. step' \in [Worker -> {"idle", "award", "bank", "ask", "spend", "apply"}]
  BY DEF Turns, RefTypeOK
<1>2. Applying' = Applying \ {w}
  BY DEF Turns, RefTypeOK, Applying
<1>3. Cardinality(Applying \ {w}) =
        IF w \in Applying THEN Cardinality(Applying) - 1 ELSE Cardinality(Applying)
  BY FiniteApplying, FS_RemoveElement
<1>4. step[w] = "apply" => w \in Applying
  BY DEF Applying
<1> QED BY <1>1, <1>2, <1>3, <1>4, FiniteApplying

\* One that has just taken a month does.
LEMMA TurnsToApply ==
  ASSUME RefTypeOK, NEW w \in Worker, Turns(w, "apply"), step[w] # "apply"
  PROVE  /\ step' \in [Worker -> {"idle", "award", "bank", "ask", "spend", "apply"}]
         /\ Cardinality(Applying') = Cardinality(Applying) + 1
<1>1. step' \in [Worker -> {"idle", "award", "bank", "ask", "spend", "apply"}]
  BY DEF Turns, RefTypeOK
<1>2. Applying' = Applying \cup {w} /\ w \notin Applying
  BY DEF Turns, RefTypeOK, Applying
<1>3. Cardinality(Applying \cup {w}) = Cardinality(Applying) + 1
  BY <1>2, FiniteApplying, FS_AddElement
<1> QED BY <1>1, <1>2, <1>3

\* A step of a handler that leaves the bank alone keeps what is promised of it.
LEMMA BankAlone ==
  ASSUME RInv, NEW w \in Worker, NEW to,
         to \in {"idle", "award", "bank", "ask", "spend"}, Turns(w, to),
         UNCHANGED <<bank, given>>,
         ready' \subseteq Mate, mate' \in [Worker -> Mate],
         lost' \in Nat, discount' \in BOOLEAN, together' \in BOOLEAN
  PROVE  RInv'
<1>1. RefTypeOK
  BY DEF RInv
<1>2. /\ step' \in [Worker -> {"idle", "award", "bank", "ask", "spend", "apply"}]
      /\ Cardinality(Applying') <= Cardinality(Applying) /\ Cardinality(Applying') \in Nat
  BY <1>1, TurnsElsewhere, FiniteApplying, FS_Subset, FS_CardinalityType
<1>3. /\ rewarded' = rewarded /\ credits' = credits /\ earned' = earned
      /\ spent' = spent /\ given' = given
  BY DEF bank
<1>4. RefTypeOK'
  BY <1>1, <1>2, <1>3 DEF RefTypeOK
<1>5. given' + Cardinality(Applying') <= spent'
  <2>1. given \in Nat /\ spent \in Nat /\ given + Cardinality(Applying) <= spent
    BY DEF RInv, RefTypeOK
  <2> QED BY <1>2, <1>3, <2>1, FiniteApplying
<1> QED BY <1>3, <1>4, <1>5 DEF RInv

LEMMA GivesUpInv == ASSUME RInv, NEW w \in Worker, GivesUp(w) PROVE RInv'
  BY BankAlone DEF GivesUp, stripe, RInv, RefTypeOK

LEMMA NoticeInv == ASSUME RInv, NEW w \in Worker, NEW m \in Mate, Notice(w, m) PROVE RInv'
<1>1. mate' \in [Worker -> Mate]
  BY DEF Notice, RInv, RefTypeOK
<1> QED BY <1>1, BankAlone DEF Notice, stripe, RInv, RefTypeOK

LEMMA RenewalInv == ASSUME RInv, NEW w \in Worker, Renewal(w) PROVE RInv'
  BY BankAlone DEF Renewal, stripe, RInv, RefTypeOK

LEMMA LookInBankInv == ASSUME RInv, NEW w \in Worker, LookInBank(w) PROVE RInv'
<1>1. PICK to \in {"idle", "ask"} : Turns(w, to)
  BY DEF LookInBank
<1> QED BY <1>1, BankAlone DEF LookInBank, stripe, RInv, RefTypeOK

LEMMA AskStripeInv == ASSUME RInv, NEW w \in Worker, AskStripe(w) PROVE RInv'
<1>1. PICK to \in {"idle", "spend"} : Turns(w, to)
  BY DEF AskStripe
<1>2. together' \in BOOLEAN
  BY Zenon DEF AskStripe, RInv, RefTypeOK
<1> QED BY <1>1, <1>2, BankAlone DEF AskStripe, RInv, RefTypeOK

\* The months a transaction puts into the bank are for a mate it marks.
LEMMA AwardInv == ASSUME RInv, NEW w \in Worker, Award(w) PROVE RInv'
<1>t. RefTypeOK
  BY DEF RInv
<1>m. mate[w] \in Mate /\ rewarded' = rewarded \cup {mate[w]}
  BY <1>t DEF Award, RefTypeOK
<1>u. /\ ready' = ready /\ spent' = spent /\ given' = given /\ lost' = lost
      /\ discount' = discount /\ together' = together /\ mate' = mate
  BY DEF Award, stripe
<1>1. PICK to \in {"idle", "bank"} : Turns(w, to)
  BY DEF Award
<1>2. /\ step' \in [Worker -> {"idle", "award", "bank", "ask", "spend", "apply"}]
      /\ Cardinality(Applying') <= Cardinality(Applying) /\ Cardinality(Applying') \in Nat
  BY <1>1, <1>t, TurnsElsewhere, FiniteApplying, FS_Subset, FS_CardinalityType
<1>3. given' + Cardinality(Applying') <= spent'
  <2>1. given \in Nat /\ spent \in Nat /\ given + Cardinality(Applying) <= spent
    BY DEF RInv, RefTypeOK
  <2> QED BY <1>2, <1>u, <2>1, FiniteApplying
<1>4. Cardinality(rewarded') =
        IF mate[w] \in rewarded THEN Cardinality(rewarded) ELSE Cardinality(rewarded) + 1
  BY <1>t, <1>m, FiniteRewarded, FS_AddElement
<1>n. /\ credits \in Nat /\ earned \in Nat /\ spent \in Nat /\ Cardinality(rewarded) \in Nat
      /\ credits + spent = earned /\ earned <= MaxRewards /\ earned <= Cardinality(rewarded)
      /\ MaxRewards \in Nat
  BY <1>t, FiniteRewarded, ReferralAssumption DEF RInv, RefTypeOK
<1>5. CASE credits' = credits /\ earned' = earned
  <2>1. RefTypeOK'
    BY <1>t, <1>m, <1>u, <1>2, <1>5 DEF RefTypeOK
  <2>2. earned' <= Cardinality(rewarded')
    BY <1>4, <1>5, <1>n
  <2> QED BY <1>3, <1>5, <1>n, <1>u, <2>1, <2>2 DEF RInv
<1>6. CASE mate[w] \notin rewarded /\ ~(earned >= MaxRewards)
           /\ credits' = credits + 1 /\ earned' = earned + 1
  <2>1. RefTypeOK'
    BY <1>t, <1>m, <1>u, <1>2, <1>6, <1>n DEF RefTypeOK
  <2>2. earned' <= Cardinality(rewarded') /\ earned' <= MaxRewards
        /\ credits' + spent' = earned'
    BY <1>4, <1>6, <1>n, <1>u
  <2> QED BY <1>3, <2>1, <2>2 DEF RInv
<1> QED BY <1>5, <1>6 DEF Award

\* The month is off the bank before anybody is told.
LEMMA SpendInv == ASSUME RInv, NEW w \in Worker, Spend(w) PROVE RInv'
<1>t. RefTypeOK
  BY DEF RInv
<1>u. /\ ready' = ready /\ rewarded' = rewarded /\ earned' = earned /\ given' = given
      /\ lost' = lost /\ discount' = discount /\ together' = together /\ mate' = mate
  BY DEF Spend, stripe
<1>n. /\ credits \in Nat /\ earned \in Nat /\ spent \in Nat /\ given \in Nat
      /\ credits + spent = earned /\ given + Cardinality(Applying) <= spent
      /\ Cardinality(Applying) \in Nat
  BY <1>t, FiniteApplying DEF RInv, RefTypeOK
<1>1. CASE credits > 0 /\ Turns(w, "apply") /\ credits' = credits - 1 /\ spent' = spent + 1
  <2>1. /\ step' \in [Worker -> {"idle", "award", "bank", "ask", "spend", "apply"}]
        /\ Cardinality(Applying') = Cardinality(Applying) + 1
    BY <1>t, <1>1, TurnsToApply DEF Spend
  <2>2. credits' \in Nat /\ spent' \in Nat /\ credits' + spent' = earned'
        /\ given' + Cardinality(Applying') <= spent'
    BY <1>1, <1>n, <1>u, <2>1
  <2>3. RefTypeOK'
    BY <1>t, <1>u, <2>1, <2>2 DEF RefTypeOK
  <2> QED BY <1>u, <2>2, <2>3 DEF RInv
<1>2. CASE Turns(w, "idle") /\ UNCHANGED <<credits, spent>>
  <2>1. UNCHANGED <<bank, given>>
    BY <1>2, <1>u DEF bank
  <2> QED BY <1>2, <1>t, <1>u, <2>1, BankAlone DEF RefTypeOK
<1> QED BY <1>1, <1>2 DEF Spend

LEMMA ApplyCouponInv == ASSUME RInv, NEW w \in Worker, ApplyCoupon(w) PROVE RInv'
<1>t. RefTypeOK
  BY DEF RInv
<1>u. /\ ready' = ready /\ rewarded' = rewarded /\ earned' = earned /\ credits' = credits
      /\ spent' = spent /\ discount' = TRUE /\ together' = together /\ mate' = mate
  BY DEF ApplyCoupon, bank
<1>n. /\ spent \in Nat /\ given \in Nat /\ given' = given + 1
      /\ given + Cardinality(Applying) <= spent /\ Cardinality(Applying) \in Nat
  BY <1>t, FiniteApplying DEF RInv, RefTypeOK, ApplyCoupon
<1>1. /\ step' \in [Worker -> {"idle", "award", "bank", "ask", "spend", "apply"}]
      /\ Cardinality(Applying') = Cardinality(Applying) - 1
  BY <1>t, TurnsElsewhere DEF ApplyCoupon
<1>2. given' \in Nat /\ given' + Cardinality(Applying') <= spent'
  BY <1>n, <1>u, <1>1
<1>3. lost' \in Nat
  BY <1>t DEF ApplyCoupon, RefTypeOK
<1>4. RefTypeOK'
  BY <1>t, <1>u, <1>1, <1>2, <1>3 DEF RefTypeOK
<1> QED BY <1>u, <1>2, <1>4 DEF RInv

-----------------------------------------------------------------------------
LEMMA OthersInv ==
  ASSUME RInv, ready' \subseteq Mate, discount' \in BOOLEAN,
         UNCHANGED <<bank, work, given, lost, together>>
  PROVE  RInv'
<1>1. /\ rewarded' = rewarded /\ credits' = credits /\ earned' = earned /\ spent' = spent
      /\ step' = step /\ mate' = mate /\ given' = given /\ lost' = lost /\ together' = together
  BY DEF bank, work
<1>2. RefTypeOK'
  BY <1>1 DEF RInv, RefTypeOK
<1>3. Applying' = Applying
  BY <1>1 DEF Applying
<1> QED BY <1>1, <1>2, <1>3 DEF RInv

LEMMA RefInv == RefSpec => []RInv
<1>1. RInv /\ [RefNext]_refVars => RInv'
  <2> SUFFICES ASSUME RInv, [RefNext]_refVars PROVE RInv'
    OBVIOUS
  <2>t. ready \subseteq Mate /\ discount \in BOOLEAN
    BY DEF RInv, RefTypeOK
  <2>1. ASSUME NEW m \in Mate, MateChanges(m) PROVE RInv'
    BY <2>t, <2>1, OthersInv DEF MateChanges, stripe
  <2>2. CASE Invoice
    BY <2>t, <2>2, OthersInv DEF Invoice
  <2>3. ASSUME NEW w \in Worker, RefStep(w) PROVE RInv'
    BY <2>3, NoticeInv, AwardInv, RenewalInv, LookInBankInv, AskStripeInv, SpendInv,
       ApplyCouponInv, GivesUpInv DEF RefStep
  <2>4. CASE UNCHANGED refVars
    BY <2>t, <2>4, OthersInv DEF refVars, stripe
  <2> QED BY <2>1, <2>2, <2>3, <2>4 DEF RefNext
<1> QED BY RefInitInv, <1>1, PTL DEF RefSpec

\* However many handlers are at it and wherever they fail, no month reaches
\* Stripe that was not earned by a mate, none is counted twice, and the cap
\* holds (AwardReferral, SpendReferralCredit, applyReferralCredits).
THEOREM NoMonthFromNothing == RefSpec => []MonthsAreEarned
  BY RefInv, InvEarned, PTL

-----------------------------------------------------------------------------
(* Months put over one another.                                            *)

Handing(w) == step[w] \in {"spend", "apply"}

\* As long as no two have been at it together, one is at most, and nothing
\* waits on the subscription then.
Alone ==
  ~together => /\ \A v, w \in Worker : Handing(v) /\ Handing(w) => v = w
               /\ \A w \in Worker : Handing(w) => ~discount

LEMMA TurnsIs ==
  ASSUME RefTypeOK, NEW w \in Worker, NEW to, Turns(w, to)
  PROVE  step'[w] = to /\ \A v \in Worker : v # w => step'[v] = step[v]
  BY DEF Turns, RefTypeOK

\* A handler that is not looking at Stripe, and comes from no further on than it
\* goes, leaves things as they are.
LEMMA TurnsAlone ==
  ASSUME RefTypeOK, Alone, MonthIsNotWasted, NEW w \in Worker, NEW to, Turns(w, to),
         to \in {"spend", "apply"} => Handing(w),
         UNCHANGED <<discount, lost, together>>
  PROVE  Alone' /\ MonthIsNotWasted'
<1>1. \A v \in Worker : Handing(v)' => Handing(v)
  BY TurnsIs DEF Handing
<1> QED BY <1>1 DEF Alone, MonthIsNotWasted

LEMMA AskStripeAlone ==
  ASSUME RefTypeOK, Alone, MonthIsNotWasted, NEW w \in Worker, AskStripe(w)
  PROVE  Alone' /\ MonthIsNotWasted'
<1> USE DEF AskStripe
<1>1. MonthIsNotWasted'
  BY DEF MonthIsNotWasted
<1>2. CASE discount
  BY <1>1, <1>2, TurnsIs DEF Alone, Handing
<1>3. CASE ~discount /\ \E v \in Worker : Handing(v)
  BY <1>1, <1>3 DEF Alone, Handing
<1>4. CASE ~discount /\ ~\E v \in Worker : Handing(v)
  <2>1. \A v \in Worker : Handing(v)' => v = w
    BY <1>4, TurnsIs DEF Handing
  <2> QED BY <1>1, <1>4, <2>1 DEF Alone
<1> QED BY <1>2, <1>3, <1>4

LEMMA ApplyCouponAlone ==
  ASSUME RefTypeOK, Alone, MonthIsNotWasted, NEW w \in Worker, ApplyCoupon(w)
  PROVE  Alone' /\ MonthIsNotWasted'
<1> USE DEF ApplyCoupon
<1>1. Handing(w)
  BY DEF Handing
<1>2. ~together => lost' = lost /\ \A v \in Worker : ~Handing(v)'
  BY <1>1, TurnsIs DEF Alone, Handing
<1> QED BY <1>2 DEF Alone, MonthIsNotWasted

LEMMA AloneNext ==
  ASSUME RefTypeOK, Alone, MonthIsNotWasted, [RefNext]_refVars
  PROVE  Alone' /\ MonthIsNotWasted'
<1>1. CASE UNCHANGED <<step, lost, together>> /\ (discount' => discount)
  BY <1>1 DEF Alone, MonthIsNotWasted, Handing
<1>2. ASSUME NEW w \in Worker, RefStep(w) PROVE Alone' /\ MonthIsNotWasted'
  <2>1. CASE AskStripe(w)
    BY <2>1, AskStripeAlone
  <2>2. CASE ApplyCoupon(w)
    BY <2>2, ApplyCouponAlone
  <2>3. CASE \/ \E m \in Mate : Notice(w, m)
             \/ Award(w) \/ Renewal(w) \/ LookInBank(w) \/ Spend(w) \/ GivesUp(w)
    <3>1. \E to \in {"award", "bank", "ask", "idle", "apply"} :
            Turns(w, to) /\ (to = "apply" => Handing(w))
      BY <2>3 DEF Notice, Award, Renewal, LookInBank, Spend, GivesUp, Handing
    <3>2. UNCHANGED <<discount, lost, together>>
      BY <2>3 DEF Notice, Award, Renewal, LookInBank, Spend, GivesUp, stripe
    <3> QED BY <3>1, <3>2, TurnsAlone
  <2> QED BY <1>2, <2>1, <2>2, <2>3 DEF RefStep
<1>3. CASE \E m \in Mate : MateChanges(m)
  BY <1>1, <1>3 DEF MateChanges, stripe, work
<1>4. CASE Invoice
  BY <1>1, <1>4 DEF Invoice, work
<1>5. CASE UNCHANGED refVars
  BY <1>1, <1>5 DEF refVars, stripe, work
<1> QED BY <1>2, <1>3, <1>4, <1>5 DEF RefNext

\* Unless two handlers were handing out a month at the same time, none has put
\* one over another: the look at Stripe is enough for one alone, and an invoice
\* between the look and the coupon does no harm.
THEOREM NoMonthIsWasted == RefSpec => []MonthIsNotWasted
<1>1. RefInit => Alone /\ MonthIsNotWasted
  BY DEF RefInit, Alone, MonthIsNotWasted, Handing
<1>2. RInv /\ Alone /\ MonthIsNotWasted /\ [RefNext]_refVars => Alone' /\ MonthIsNotWasted'
  BY AloneNext DEF RInv
<1> QED BY <1>1, <1>2, RefInv, PTL DEF RefSpec

-----------------------------------------------------------------------------
(* Timeline.                                                               *)

\* What a goroutine is about to publish is of a row that is there, and only a
\* note goes without its number.
WriterTrue(w) ==
  /\ writing[w].at \in {"read", "publish"} => writing[w].row \in 1 .. Len(rows)
  /\ writing[w].at = "read" => w \notin Noter
  /\ writing[w].at = "publish" =>
       IF w \in Noter THEN rows[writing[w].row] = w ELSE writing[w].last \in 1 .. Len(rows)

\* So is what the channel holds.
Carried(e) ==
  /\ e.row \in 1 .. Len(rows)
  /\ e.id = e.row \/ (e.id = 0 /\ rows[e.row] \in Noter)

Rowed ==
  /\ \A w \in Writer : WriterTrue(w)
  /\ \A k \in 1 .. Len(feed) : Carried(feed[k])
  /\ since <= Len(rows) /\ seen \subseteq 0 .. Len(rows)

\* A row is shown with its number once, and without at most one note is.
RowShown(i) ==
  /\ i > Len(rows) => shown[i] = 0
  /\ i <= Len(rows) /\ Numbered(i) => shown[i] = (IF i \in seen THEN 1 ELSE 0)
  /\ shown[i] <= (IF i \in seen THEN 1 ELSE 0) + (IF 0 \in seen THEN 1 ELSE 0)

ShownOnce == \A i \in 1 .. MaxRows : RowShown(i)

\* A row with a number that was not passed over has been seen, waits in the
\* channel, or is in the hands of a goroutine.
InHand(w, i) ==
  \/ writing[w].at = "read" /\ writing[w].row = i
  \/ writing[w].at = "publish" /\ writing[w].last = i

OnItsWay(i) ==
  \/ i \in seen
  \/ \E k \in 1 .. Len(feed) : feed[k].id = i
  \/ \E w \in Writer \ Noter : InHand(w, i)

NoneLeft ==
  browser = "live" =>
    /\ \A i \in 1 .. since : i \in seen
    /\ \A i \in 1 .. Len(rows) : Numbered(i) /\ i \notin passed => OnItsWay(i)

\* After a row too many the job is over, and the watcher has not got it any more.
Silent ==
  stale <= 1 /\ (stale = 1 => job = "ended" /\ writing[Watcher].at \notin {"ask", "row"})

TInv == TimelineTypeOK /\ Rowed /\ ShownOnce /\ NoneLeft /\ Silent

\* The types in groups.
Message == [row : 1 .. MaxRows, id : 0 .. MaxRows]
Place == [at : {"rest", "ask", "row", "read", "publish"}, row : 0 .. MaxRows, last : 0 .. MaxRows]

JobOK == job \in JobState /\ found \in JobState /\ known \in {"never", "up", "down"}
RowsOK == rows \in Seq(Writer) /\ Len(rows) <= MaxRows
WritingOK == writing \in [Writer -> Place]
FeedOK == feed \in Seq(Message) /\ Len(feed) <= MaxFeed
PageOK ==
  /\ browser \in {"away", "subscribed", "live"} /\ since \in 0 .. MaxRows
  /\ seen \subseteq 0 .. MaxRows /\ shown \in [1 .. MaxRows -> Nat]
HistoryOK == passed \subseteq 1 .. MaxRows /\ stale \in Nat

LEMMA TimelineTypes ==
  TimelineTypeOK <=> JobOK /\ RowsOK /\ WritingOK /\ FeedOK /\ PageOK /\ HistoryOK
  BY DEF TimelineTypeOK, JobOK, RowsOK, WritingOK, FeedOK, PageOK, HistoryOK, Message, Place

LEMMA TimelineTypesNext ==
  ASSUME JobOK', RowsOK', WritingOK', FeedOK', PageOK', HistoryOK'
  PROVE  TimelineTypeOK'
  BY DEF TimelineTypeOK, JobOK, RowsOK, WritingOK, FeedOK, PageOK, HistoryOK, Message, Place

LEMMA TimelineFrames ==
  ASSUME TimelineTypeOK
  PROVE  /\ UNCHANGED <<job, found, known>> => JobOK'
         /\ UNCHANGED rows => RowsOK'
         /\ UNCHANGED writing => WritingOK'
         /\ UNCHANGED feed => FeedOK'
         /\ UNCHANGED <<browser, since, seen, shown>> => PageOK'
         /\ UNCHANGED <<passed, stale>> => HistoryOK'
  BY TimelineTypes DEF JobOK, RowsOK, WritingOK, FeedOK, PageOK, HistoryOK

LEMMA NowIs ==
  ASSUME WritingOK, NEW w \in Writer, NEW place \in Place,
         writing' = [writing EXCEPT ![w] = place]
  PROVE  /\ WritingOK' /\ writing'[w] = place
         /\ \A v \in Writer : v # w => writing'[v] = writing[v]
  BY DEF WritingOK

LEMMA NowAt ==
  ASSUME WritingOK, NEW w \in Writer, NEW at \in {"rest", "ask", "row", "read", "publish"},
         Now(w, at)
  PROVE  /\ WritingOK' /\ writing'[w].at = at /\ writing'[w].row = writing[w].row
         /\ \A v \in Writer : v # w => writing'[v] = writing[v]
<1> DEFINE place == [writing[w] EXCEPT !.at = at]
<1>1. writing[w] \in Place
  BY DEF WritingOK
<1>2. place \in Place /\ place.at = at /\ place.row = writing[w].row
  BY <1>1 DEF Place
<1>3. writing' = [writing EXCEPT ![w] = place]
  BY DEF Now
<1> HIDE DEF place
<1> QED BY <1>2, <1>3, NowIs

LEMMA RestIsPlace == AtRest \in Place
  BY TimelineAssumption DEF AtRest, Place

\* The rows there were stay.
Grown == Len(rows) <= Len(rows)' /\ \A i \in 1 .. Len(rows) : rows'[i] = rows[i]

LEMMA SameRows == ASSUME RowsOK, rows' = rows PROVE Grown /\ Len(rows) \in Nat
  BY LenProperties DEF Grown, RowsOK

LEMMA AppendEventIs ==
  ASSUME TimelineTypeOK, NEW w \in Writer, NEW next \in {"read", "publish"}, AppendEvent(w, next)
  PROVE  /\ RowsOK' /\ WritingOK' /\ Grown
         /\ Len(rows) \in Nat /\ Len(rows)' = Len(rows) + 1 /\ Len(rows) + 1 <= MaxRows
         /\ rows'[Len(rows) + 1] = w
         /\ writing'[w] = [at |-> next, row |-> Len(rows) + 1, last |-> 0]
         /\ \A v \in Writer : v # w => writing'[v] = writing[v]
<1>1. RowsOK /\ WritingOK /\ MaxRows \in Nat
  BY TimelineTypes, TimelineAssumption
<1>2. /\ rows' = Append(rows, w) /\ Len(rows) < MaxRows
      /\ writing' = [writing EXCEPT ![w] = [at |-> next, row |-> Len(rows) + 1, last |-> 0]]
  BY DEF AppendEvent
<1>3. Len(rows) \in Nat
  BY <1>1, LenProperties DEF RowsOK
<1>4. /\ rows' \in Seq(Writer) /\ Len(rows') = Len(rows) + 1
      /\ \A i \in 1 .. Len(rows) : rows'[i] = rows[i]
      /\ rows'[Len(rows) + 1] = w
  BY <1>1, <1>2, AppendProperties DEF RowsOK
<1>5. [at |-> next, row |-> Len(rows) + 1, last |-> 0] \in Place
  BY <1>1, <1>2, <1>3 DEF Place
<1>6. WritingOK' /\ writing'[w] = [at |-> next, row |-> Len(rows) + 1, last |-> 0]
      /\ \A v \in Writer : v # w => writing'[v] = writing[v]
  BY <1>1, <1>2, <1>5, NowIs
<1> QED BY <1>1, <1>2, <1>3, <1>4, <1>6 DEF RowsOK, Grown

-----------------------------------------------------------------------------
(* What a step leaves alone.                                               *)

LEMMA WriterFrame ==
  ASSUME NEW w \in Writer, WriterTrue(w), Grown, writing'[w] = writing[w], Len(rows) \in Nat,
         Len(rows)' \in Nat
  PROVE  WriterTrue(w)'
  BY DEF WriterTrue, Grown

LEMMA FeedFrame ==
  ASSUME \A k \in 1 .. Len(feed) : Carried(feed[k]), Grown, Len(rows) \in Nat, Len(rows)' \in Nat,
         feed' = feed
  PROVE  \A k \in 1 .. Len(feed)' : Carried(feed[k])'
  BY DEF Carried, Grown

LEMMA SeenFrame ==
  ASSUME Rowed, PageOK, Grown, Len(rows) \in Nat, Len(rows)' \in Nat, UNCHANGED <<since, seen>>
  PROVE  since' <= Len(rows)' /\ seen' \subseteq 0 .. Len(rows)'
  BY DEF Rowed, Grown, PageOK

LEMMA ShownFrame ==
  ASSUME ShownOnce, RowsOK, PageOK, Grown, Len(rows)' \in Nat, UNCHANGED <<seen, shown>>,
         seen \subseteq 0 .. Len(rows)
  PROVE  ShownOnce'
<1>1. Len(rows) \in Nat
  BY LenProperties DEF RowsOK
<1> SUFFICES ASSUME NEW i \in 1 .. MaxRows
             PROVE  /\ i > Len(rows)' => shown'[i] = 0
                    /\ i <= Len(rows)' /\ rows'[i] \notin Noter =>
                         shown'[i] = (IF i \in seen' THEN 1 ELSE 0)
                    /\ shown'[i] <= (IF i \in seen' THEN 1 ELSE 0) + (IF 0 \in seen' THEN 1 ELSE 0)
  BY Zenon DEF ShownOnce, RowShown, Numbered
<1>2. RowShown(i) /\ i \in Nat \ {0}
  BY TimelineAssumption DEF ShownOnce
<1> QED BY <1>1, <1>2 DEF RowShown, Numbered, Grown

\* A goroutine that is not about to read back or to publish has nothing in hand.
LEMMA NoneLeftFrame ==
  ASSUME NoneLeft, RowsOK, WritingOK, NEW w \in Writer, writing[w].at \notin {"read", "publish"},
         \A v \in Writer : v # w => writing'[v] = writing[v],
         UNCHANGED <<browser, since, seen, feed, passed>>,
         \/ rows' = rows
         \/ /\ Grown /\ Len(rows)' = Len(rows) + 1
            /\ rows'[Len(rows) + 1] \notin Noter =>
                 w \notin Noter /\ writing'[w].at = "read" /\ writing'[w].row = Len(rows) + 1
  PROVE  NoneLeft'
<1>1. Len(rows) \in Nat
  BY LenProperties DEF RowsOK
<1>2. \A i : OnItsWay(i) => OnItsWay(i)'
  <2> SUFFICES ASSUME NEW i, OnItsWay(i) PROVE OnItsWay(i)'
    OBVIOUS
  <2>1. \A v \in Writer \ Noter : InHand(v, i) => InHand(v, i)'
    BY DEF InHand
  <2> QED BY <2>1, Zenon DEF OnItsWay
<1> SUFFICES ASSUME browser = "live"
             PROVE  /\ \A i \in 1 .. since : i \in seen
                    /\ \A i \in 1 .. Len(rows)' : rows'[i] \notin Noter /\ i \notin passed => OnItsWay(i)'
  BY Zenon DEF NoneLeft, Numbered
<1>3. \A i \in 1 .. since : i \in seen
  BY DEF NoneLeft
<1>4. \A i \in 1 .. Len(rows) : rows[i] \notin Noter /\ i \notin passed => OnItsWay(i)'
  BY <1>2 DEF NoneLeft, Numbered
<1>5. CASE rows' = rows
  BY <1>3, <1>4, <1>5
<1>6. CASE /\ Grown /\ Len(rows)' = Len(rows) + 1
           /\ rows'[Len(rows) + 1] \notin Noter =>
                 w \notin Noter /\ writing'[w].at = "read" /\ writing'[w].row = Len(rows) + 1
  <2> SUFFICES ASSUME NEW i \in 1 .. Len(rows)', rows'[i] \notin Noter, i \notin passed
               PROVE  OnItsWay(i)'
    BY <1>3
  <2>1. CASE i \in 1 .. Len(rows)
    BY <1>4, <1>6, <2>1 DEF Grown
  <2>2. CASE i = Len(rows) + 1
    <3>1. w \in Writer \ Noter /\ InHand(w, i)'
      BY <1>6, <2>2 DEF InHand
    <3> QED BY <3>1, Zenon DEF OnItsWay
  <2> QED BY <1>1, <1>6, <2>1, <2>2
<1> QED BY <1>5, <1>6

\* A row is written by a goroutine that was at nothing it would publish.
LEMMA AppendEventInv ==
  ASSUME TInv, NEW w \in Writer, NEW next \in {"read", "publish"}, AppendEvent(w, next),
         writing[w].at \notin {"read", "publish"}, next = "publish" <=> w \in Noter,
         UNCHANGED <<page, passed>>, JobOK', stale' \in Nat, Silent'
  PROVE  TInv'
<1> USE DEF TInv, page
<1>1. RowsOK /\ WritingOK /\ FeedOK /\ PageOK /\ HistoryOK
  BY TimelineTypes
<1>2. /\ RowsOK' /\ WritingOK' /\ Grown
      /\ Len(rows) \in Nat /\ Len(rows)' = Len(rows) + 1
      /\ rows'[Len(rows) + 1] = w
      /\ writing'[w] = [at |-> next, row |-> Len(rows) + 1, last |-> 0]
      /\ \A v \in Writer : v # w => writing'[v] = writing[v]
  BY AppendEventIs
<1>3. TimelineTypeOK'
  BY <1>1, <1>2, TimelineFrames, TimelineTypesNext DEF HistoryOK
<1>4. Rowed'
  <2>1. WriterTrue(w)'
    BY <1>2 DEF WriterTrue
  <2>2. \A v \in Writer : WriterTrue(v)'
    BY <1>2, <2>1, WriterFrame DEF Rowed
  <2>3. \A k \in 1 .. Len(feed)' : Carried(feed[k])'
    BY <1>2, FeedFrame DEF Rowed
  <2>4. since' <= Len(rows)' /\ seen' \subseteq 0 .. Len(rows)'
    BY <1>1, <1>2, SeenFrame
  <2> QED BY <2>2, <2>3, <2>4, Zenon DEF Rowed
<1>5. ShownOnce'
  BY <1>1, <1>2, ShownFrame DEF Rowed
<1>6. NoneLeft'
  <2>1. next = "read" => w \notin Noter /\ writing'[w].at = "read" /\ writing'[w].row = Len(rows) + 1
    BY <1>2
  <2> QED BY <1>1, <1>2, <2>1, NoneLeftFrame
<1> QED BY <1>3, <1>4, <1>5, <1>6

\* A step of one goroutine that writes no row.
LEMMA RowedFrame ==
  ASSUME Rowed, RowsOK, PageOK, rows' = rows, NEW w \in Writer, WriterTrue(w)',
         \A v \in Writer : v # w => writing'[v] = writing[v],
         UNCHANGED <<feed, since, seen>>
  PROVE  Rowed'
<1>1. Grown /\ Len(rows) \in Nat /\ Len(rows)' \in Nat
  BY SameRows
<1>2. \A v \in Writer : WriterTrue(v)'
  BY <1>1, WriterFrame DEF Rowed
<1>3. \A k \in 1 .. Len(feed)' : Carried(feed[k])'
  BY <1>1, FeedFrame DEF Rowed
<1>4. since' <= Len(rows)' /\ seen' \subseteq 0 .. Len(rows)'
  BY <1>1, SeenFrame
<1> QED BY <1>2, <1>3, <1>4, Zenon DEF Rowed

LEMMA RowedStays ==
  ASSUME Rowed, RowsOK, UNCHANGED <<rows, writing>>,
         \A k \in 1 .. Len(feed)' : Carried(feed'[k]),
         since' <= Len(rows), seen' \subseteq 0 .. Len(rows)
  PROVE  Rowed'
<1>1. \A v \in Writer : WriterTrue(v)'
  BY DEF Rowed, WriterTrue
<1>2. \A k \in 1 .. Len(feed)' : Carried(feed[k])'
  BY DEF Carried
<1>3. since' <= Len(rows)' /\ seen' \subseteq 0 .. Len(rows)'
  OBVIOUS
<1> QED BY <1>1, <1>2, <1>3, Zenon DEF Rowed

LEMMA ShownStays ==
  ASSUME ShownOnce, UNCHANGED <<rows, seen, shown>>
  PROVE  ShownOnce'
  BY DEF ShownOnce, RowShown, Numbered

\* A step that leaves the page, the rows and the channel alone.
LEMMA GoroutineInv ==
  ASSUME TInv, NEW w \in Writer, writing[w].at \notin {"read", "publish"},
         WritingOK', \A v \in Writer : v # w => writing'[v] = writing[v],
         WriterTrue(w)', JobOK', Silent', UNCHANGED <<rows, page, passed, stale>>
  PROVE  TInv'
<1> USE DEF TInv, page
<1>1. RowsOK /\ WritingOK /\ FeedOK /\ PageOK /\ HistoryOK
  BY TimelineTypes
<1>2. TimelineTypeOK'
  BY TimelineFrames, TimelineTypesNext
<1>3. Rowed'
  BY <1>1, RowedFrame
<1>4. ShownOnce'
  BY ShownStays
<1>5. NoneLeft'
  BY <1>1, NoneLeftFrame
<1> QED BY <1>2, <1>3, <1>4, <1>5

-----------------------------------------------------------------------------
(* The steps of those who write.                                           *)

LEMMA ReportsInv == ASSUME TInv, NEW w \in Reporter, Reports(w) PROVE TInv'
<1>1. w \in Writer /\ w \notin Noter
  BY TimelineAssumption DEF Writer
<1>2. JobOK /\ HistoryOK
  BY TimelineTypes DEF TInv
<1>3. /\ writing[w].at = "rest" /\ job # "ended" /\ job' \in JobState
      /\ AppendEvent(w, "read") /\ UNCHANGED <<found, known, page, passed, stale>>
  BY DEF Reports
<1>4. JobOK'
  BY <1>2, <1>3 DEF JobOK
<1>5. stale = 0
  BY <1>2, <1>3 DEF TInv, Silent, HistoryOK
<1>6. stale' \in Nat /\ Silent'
  BY <1>3, <1>5 DEF Silent
<1> QED BY <1>1, <1>3, <1>4, <1>6, AppendEventInv

LEMMA NotesInv == ASSUME TInv, NEW w \in Noter, Notes(w) PROVE TInv'
<1>1. w \in Writer /\ w # Watcher /\ Watcher \in Writer
  BY TimelineAssumption DEF Writer
<1>2. JobOK /\ HistoryOK
  BY TimelineTypes DEF TInv
<1>3. /\ writing[w].at = "rest" /\ AppendEvent(w, "publish")
      /\ UNCHANGED <<job, found, known, page, passed, stale>>
  BY DEF Notes
<1>4. JobOK'
  BY <1>2, <1>3 DEF JobOK
<1>5. writing'[Watcher] = writing[Watcher]
  BY <1>1, <1>3, AppendEventIs DEF TInv
<1>6. stale' \in Nat /\ Silent'
  BY <1>2, <1>3, <1>5 DEF Silent, TInv, HistoryOK
<1> QED BY <1>1, <1>3, <1>4, <1>6, AppendEventInv

LEMMA WatcherNotesInv == ASSUME TInv, WatcherNotes PROVE TInv'
<1>1. Watcher \in Writer /\ Watcher \notin Noter
  BY TimelineAssumption DEF Writer
<1>2. JobOK /\ HistoryOK
  BY TimelineTypes DEF TInv
<1>3. /\ writing[Watcher].at = "row" /\ AppendEvent(Watcher, "read")
      /\ stale' = (IF job = "ended" THEN stale + 1 ELSE stale)
      /\ UNCHANGED <<job, found, known, page, passed>>
  BY DEF WatcherNotes
<1>4. JobOK'
  BY <1>2, <1>3 DEF JobOK
<1>5. stale = 0
  BY <1>2, <1>3 DEF TInv, Silent, HistoryOK
<1>6. writing'[Watcher].at = "read"
  BY <1>1, <1>3, AppendEventIs DEF TInv
<1>7. stale' \in Nat /\ Silent'
  BY <1>3, <1>5, <1>6 DEF Silent
<1> QED BY <1>1, <1>3, <1>4, <1>7, AppendEventInv

LEMMA ListsJobsInv == ASSUME TInv, ListsJobs PROVE TInv'
<1>1. Watcher \in Writer /\ Watcher \notin Noter
  BY TimelineAssumption DEF Writer
<1>2. JobOK /\ HistoryOK /\ WritingOK
  BY TimelineTypes DEF TInv
<1>3. /\ writing[Watcher].at = "rest" /\ UNCHANGED <<job, rows, page, passed, stale>>
      /\ IF job = "ended" THEN known' = "never" /\ UNCHANGED <<writing, found>>
         ELSE Now(Watcher, "ask") /\ found' = job /\ UNCHANGED known
  BY DEF ListsJobs
<1>4. JobOK'
  BY <1>2, <1>3 DEF JobOK
<1>5. CASE job = "ended"
  <2>1. WritingOK' /\ WriterTrue(Watcher)'
    BY <1>1, <1>2, <1>3, <1>5 DEF WritingOK, WriterTrue
  <2>2. Silent'
    BY <1>3, <1>5 DEF TInv, Silent
  <2> QED BY <1>1, <1>3, <1>4, <1>5, <2>1, <2>2, GoroutineInv
<1>6. CASE job # "ended"
  <2>1. /\ WritingOK' /\ writing'[Watcher].at = "ask"
        /\ \A v \in Writer : v # Watcher => writing'[v] = writing[v]
    BY <1>1, <1>2, <1>3, <1>6, NowAt
  <2>2. WriterTrue(Watcher)'
    BY <2>1 DEF WriterTrue
  <2>3. Silent'
    BY <1>2, <1>3, <1>6 DEF TInv, Silent, HistoryOK
  <2> QED BY <1>1, <1>3, <1>4, <2>1, <2>2, <2>3, GoroutineInv
<1> QED BY <1>5, <1>6

LEMMA AppliesStatusInv ==
  ASSUME TInv, NEW answer \in {"up", "down"}, AppliesStatus(answer) PROVE TInv'
<1>1. Watcher \in Writer /\ Watcher \notin Noter
  BY TimelineAssumption DEF Writer
<1>2. JobOK /\ HistoryOK /\ WritingOK
  BY TimelineTypes DEF TInv
<1>3. /\ writing[Watcher].at = "ask" /\ known' = answer
      /\ Now(Watcher, "row") \/ Finishes(Watcher)
      /\ UNCHANGED <<job, rows, found, page, passed, stale>>
  BY DEF AppliesStatus
<1>4. JobOK'
  BY <1>2, <1>3 DEF JobOK
<1>5. /\ WritingOK' /\ writing'[Watcher].at \in {"row", "rest"}
      /\ \A v \in Writer : v # Watcher => writing'[v] = writing[v]
  <2>1. CASE Now(Watcher, "row")
    BY <1>1, <1>2, <2>1, NowAt
  <2>2. CASE Finishes(Watcher)
    <3>1. writing' = [writing EXCEPT ![Watcher] = AtRest]
      BY <2>2 DEF Finishes
    <3>2. /\ WritingOK' /\ writing'[Watcher] = AtRest
          /\ \A v \in Writer : v # Watcher => writing'[v] = writing[v]
      BY <1>1, <1>2, <3>1, RestIsPlace, NowIs
    <3> QED BY <3>2 DEF AtRest
  <2> QED BY <1>3, <2>1, <2>2
<1>6. WriterTrue(Watcher)'
  BY <1>5 DEF WriterTrue
<1>7. Silent'
  BY <1>2, <1>3 DEF TInv, Silent, HistoryOK
<1> QED BY <1>1, <1>3, <1>4, <1>5, <1>6, <1>7, GoroutineInv

\* The watcher is not near a row after the last when another goroutine moves.
LEMMA SilentFrame ==
  ASSUME Silent, WritingOK, NEW w \in Writer, UNCHANGED <<job, stale>>,
         \A v \in Writer : v # w => writing'[v] = writing[v],
         writing'[w].at \notin {"ask", "row"}
  PROVE  Silent'
<1>1. Watcher \in Writer
  BY DEF Writer
<1> QED BY <1>1 DEF Silent

LEMMA ReadsBackInv == ASSUME TInv, NEW w \in Writer, ReadsBack(w) PROVE TInv'
<1> USE DEF TInv
<1>1. RowsOK /\ WritingOK /\ FeedOK /\ PageOK /\ HistoryOK /\ MaxRows \in Nat
  BY TimelineTypes, TimelineAssumption
<1>2. /\ writing[w].at = "read" /\ UNCHANGED <<job, rows, found, known, page, stale>>
      /\ \/ /\ writing' = [writing EXCEPT ![w].at = "publish", ![w].last = Len(rows)]
            /\ passed' = IF writing[w].row = Len(rows) THEN passed ELSE passed \cup {writing[w].row}
         \/ Finishes(w) /\ passed' = passed \cup {writing[w].row}
  BY DEF ReadsBack
<1>3. Len(rows) \in Nat /\ Len(rows) <= MaxRows
  BY <1>1, LenProperties DEF RowsOK
<1>4. w \notin Noter /\ writing[w].row \in 1 .. Len(rows) /\ writing[w] \in Place
  BY <1>1, <1>2 DEF Rowed, WriterTrue, WritingOK
<1>5. /\ WritingOK' /\ writing'[w].at \in {"publish", "rest"}
      /\ \A v \in Writer : v # w => writing'[v] = writing[v]
      /\ writing'[w].at = "publish" => writing'[w].row = writing[w].row /\ writing'[w].last = Len(rows)
      /\ passed' \in {passed, passed \cup {writing[w].row}}
      /\ passed' = passed => writing[w].row \in passed
                             \/ (writing[w].row = Len(rows) /\ writing'[w].at = "publish")
  <2>1. CASE /\ writing' = [writing EXCEPT ![w].at = "publish", ![w].last = Len(rows)]
             /\ passed' = IF writing[w].row = Len(rows) THEN passed ELSE passed \cup {writing[w].row}
    <3> DEFINE place == [[writing[w] EXCEPT !.at = "publish"] EXCEPT !.last = Len(rows)]
    <3>1. place \in Place /\ place.at = "publish" /\ place.row = writing[w].row
          /\ place.last = Len(rows)
      <4>1. PICK n \in 0 .. MaxRows : n = Len(rows)
        BY <1>1, <1>3
      <4>2. [writing[w] EXCEPT !.at = "publish"] \in Place
        BY <1>4 DEF Place
      <4> QED BY <4>1, <4>2, <1>4 DEF Place
    <3>2. writing' = [writing EXCEPT ![w] = place]
      BY <2>1, <1>1 DEF WritingOK
    <3> HIDE DEF place
    <3>3. /\ WritingOK' /\ writing'[w] = place
          /\ \A v \in Writer : v # w => writing'[v] = writing[v]
      BY <1>1, <3>1, <3>2, NowIs
    <3> QED BY <2>1, <3>1, <3>3
  <2>2. CASE Finishes(w) /\ passed' = passed \cup {writing[w].row}
    <3>1. writing' = [writing EXCEPT ![w] = AtRest]
      BY <2>2 DEF Finishes
    <3>2. /\ WritingOK' /\ writing'[w] = AtRest
          /\ \A v \in Writer : v # w => writing'[v] = writing[v]
      BY <1>1, <3>1, RestIsPlace, NowIs
    <3>3. writing'[w].at = "rest"
      BY <3>2 DEF AtRest
    <3> QED BY <2>2, <3>2, <3>3
  <2> QED BY <1>2, <2>1, <2>2
<1>6. TimelineTypeOK'
  <2>1. HistoryOK'
    BY <1>1, <1>2, <1>3, <1>4, <1>5 DEF HistoryOK
  <2> QED BY <1>2, <1>5, <2>1, TimelineFrames, TimelineTypesNext DEF page
<1>7. Rowed'
  <2>1. WriterTrue(w)'
    BY <1>2, <1>3, <1>4, <1>5 DEF WriterTrue
  <2> QED BY <1>1, <1>2, <1>5, <2>1, RowedFrame DEF page
<1>8. ShownOnce'
  BY <1>2, ShownStays DEF page
<1>9. NoneLeft'
  <2> SUFFICES ASSUME browser = "live"
               PROVE  /\ \A i \in 1 .. since : i \in seen
                      /\ \A i \in 1 .. Len(rows) : rows[i] \notin Noter /\ i \notin passed' => OnItsWay(i)'
    BY <1>2, Zenon DEF NoneLeft, Numbered, page
  <2>1. ASSUME NEW i \in 1 .. Len(rows), rows[i] \notin Noter, i \notin passed'
        PROVE  OnItsWay(i)'
    <3>1. OnItsWay(i) /\ i \notin passed
      BY <1>5, <2>1 DEF NoneLeft, Numbered
    <3>2. CASE i \in seen \/ \E k \in 1 .. Len(feed) : feed[k].id = i
      BY <1>2, <3>2 DEF OnItsWay, page
    <3>3. ASSUME NEW v \in Writer \ Noter, InHand(v, i)
          PROVE  OnItsWay(i)'
      <4>1. CASE v # w
        <5>1. InHand(v, i)'
          BY <1>5, <3>3, <4>1 DEF InHand
        <5> QED BY <5>1, Zenon DEF OnItsWay
      <4>2. CASE v = w
        <5>1. writing[w].row = i
          BY <1>2, <3>3, <4>2 DEF InHand
        <5>2. passed' = passed /\ i = Len(rows) /\ writing'[w].at = "publish"
          BY <1>5, <2>1, <3>1, <5>1
        <5>3. InHand(w, i)'
          BY <1>5, <5>2 DEF InHand
        <5> QED BY <5>3, <3>3, <4>2, Zenon DEF OnItsWay
      <4> QED BY <4>1, <4>2
    <3> QED BY <3>1, <3>2, <3>3, Zenon DEF OnItsWay
  <2> QED BY <2>1 DEF NoneLeft
<1>10. Silent'
  BY <1>1, <1>2, <1>5, SilentFrame
<1> QED BY <1>6, <1>7, <1>8, <1>9, <1>10

LEMMA PublishInv == ASSUME TInv, NEW w \in Writer, Publish(w) PROVE TInv'
<1> USE DEF TInv
<1> DEFINE what == IF w \in Noter THEN [row |-> writing[w].row, id |-> 0]
                   ELSE [row |-> writing[w].last, id |-> writing[w].last]
<1>1. RowsOK /\ WritingOK /\ FeedOK /\ PageOK /\ HistoryOK /\ MaxRows \in Nat /\ MaxFeed \in Nat
  BY TimelineTypes, TimelineAssumption
<1>2. /\ writing[w].at = "publish" /\ Finishes(w)
      /\ IF browser = "away" THEN UNCHANGED <<feed, passed>>
         ELSE IF Len(feed) < MaxFeed THEN feed' = Append(feed, what) /\ UNCHANGED passed
         ELSE passed' = passed \cup {what.row} /\ UNCHANGED feed
      /\ UNCHANGED <<job, rows, found, known, browser, since, seen, shown, stale>>
  BY DEF Publish
<1>3. Len(rows) \in Nat /\ Len(rows) <= MaxRows /\ Len(feed) \in Nat
  BY <1>1, LenProperties DEF RowsOK, FeedOK
<1>4. /\ WritingOK' /\ writing'[w].at = "rest"
      /\ \A v \in Writer : v # w => writing'[v] = writing[v]
  <2>1. writing' = [writing EXCEPT ![w] = AtRest]
    BY <1>2 DEF Finishes
  <2>2. /\ WritingOK' /\ writing'[w] = AtRest
        /\ \A v \in Writer : v # w => writing'[v] = writing[v]
    BY <1>1, <2>1, RestIsPlace, NowIs
  <2> QED BY <2>2 DEF AtRest
<1>5. what \in Message /\ Carried(what)
  <2>1. WriterTrue(w)
    BY DEF Rowed
  <2>2. CASE w \in Noter
    <3>1. PICK n \in 1 .. Len(rows) : n = writing[w].row /\ rows[n] \in Noter
      BY <1>2, <2>1, <2>2 DEF WriterTrue
    <3>2. what = [row |-> n, id |-> 0]
      BY <2>2, <3>1
    <3> QED BY <1>1, <1>3, <3>1, <3>2 DEF Carried, Message
  <2>3. CASE w \notin Noter
    <3>1. PICK n \in 1 .. Len(rows) : n = writing[w].last
      BY <1>2, <2>1, <2>3 DEF WriterTrue
    <3>2. what = [row |-> n, id |-> n]
      BY <2>3, <3>1
    <3> QED BY <1>1, <1>3, <3>1, <3>2 DEF Carried, Message
  <2> QED BY <2>2, <2>3
<1>6. w \notin Noter => writing[w].last = what.id /\ what.row = what.id
  OBVIOUS
<1> HIDE DEF what
<1>7. /\ FeedOK' /\ passed' \in {passed, passed \cup {what.row}}
      /\ \A k \in 1 .. Len(feed)' : Carried(feed'[k])
      /\ \A k \in 1 .. Len(feed) : k \in 1 .. Len(feed)' /\ feed'[k] = feed[k]
      /\ browser = "away" \/ passed' = passed \cup {what.row}
         \/ (Len(feed) + 1 \in 1 .. Len(feed)' /\ feed'[Len(feed) + 1] = what)
  <2>1. CASE UNCHANGED feed
    BY <1>1, <1>2, <1>5, <2>1 DEF Rowed, FeedOK
  <2>2. CASE feed' = Append(feed, what) /\ Len(feed) < MaxFeed /\ UNCHANGED passed
    <3>1. /\ feed' \in Seq(Message) /\ Len(feed') = Len(feed) + 1
          /\ \A k \in 1 .. Len(feed) : feed'[k] = feed[k]
          /\ feed'[Len(feed) + 1] = what
      BY <1>1, <1>5, <2>2, AppendProperties DEF FeedOK
    <3> QED BY <1>1, <1>3, <1>5, <2>2, <3>1 DEF Rowed, FeedOK
  <2> QED BY <1>2, <2>1, <2>2
<1>8. TimelineTypeOK'
  <2>1. HistoryOK'
    BY <1>1, <1>2, <1>5, <1>7 DEF HistoryOK, Message
  <2> QED BY <1>2, <1>4, <1>7, <2>1, TimelineFrames, TimelineTypesNext
<1>9. Rowed'
  <2>1. WriterTrue(w)'
    BY <1>4 DEF WriterTrue
  <2>2. Grown /\ Len(rows)' \in Nat
    BY <1>1, <1>2, SameRows
  <2>3. \A v \in Writer : WriterTrue(v)'
    BY <1>3, <1>4, <2>1, <2>2, WriterFrame DEF Rowed
  <2>4. \A k \in 1 .. Len(feed)' : Carried(feed[k])'
    BY <1>2, <1>7 DEF Carried
  <2>5. since' <= Len(rows)' /\ seen' \subseteq 0 .. Len(rows)'
    BY <1>2 DEF Rowed
  <2> QED BY <2>3, <2>4, <2>5, Zenon DEF Rowed
<1>10. ShownOnce'
  BY <1>2, ShownStays
<1>11. NoneLeft'
  <2> SUFFICES ASSUME browser = "live"
               PROVE  /\ \A i \in 1 .. since : i \in seen
                      /\ \A i \in 1 .. Len(rows) : rows[i] \notin Noter /\ i \notin passed' => OnItsWay(i)'
    BY <1>2, Zenon DEF NoneLeft, Numbered
  <2>1. ASSUME NEW i \in 1 .. Len(rows), rows[i] \notin Noter, i \notin passed'
        PROVE  OnItsWay(i)'
    <3>1. OnItsWay(i)
      BY <1>7, <2>1 DEF NoneLeft, Numbered
    <3>2. CASE i \in seen
      BY <1>2, <3>2 DEF OnItsWay
    <3>3. CASE \E k \in 1 .. Len(feed) : feed[k].id = i
      BY <1>7, <3>3 DEF OnItsWay
    <3>4. ASSUME NEW v \in Writer \ Noter, InHand(v, i)
          PROVE  OnItsWay(i)'
      <4>1. CASE v # w
        <5>1. InHand(v, i)'
          BY <1>4, <3>4, <4>1 DEF InHand
        <5> QED BY <5>1, Zenon DEF OnItsWay
      <4>2. CASE v = w
        <5>1. what.id = i /\ what.row = i
          BY <1>2, <1>6, <3>4, <4>2 DEF InHand
        <5>2. Len(feed) + 1 \in 1 .. Len(feed)' /\ feed'[Len(feed) + 1].id = i
          BY <1>7, <2>1, <5>1
        <5> QED BY <5>2 DEF OnItsWay
      <4> QED BY <4>1, <4>2
    <3> QED BY <3>1, <3>2, <3>3, <3>4, Zenon DEF OnItsWay
  <2> QED BY <2>1 DEF NoneLeft
<1>12. Silent'
  BY <1>1, <1>2, <1>4, SilentFrame
<1> QED BY <1>8, <1>9, <1>10, <1>11, <1>12

-----------------------------------------------------------------------------
(* The steps of the one who watches.                                       *)

LEMMA SubscribesInv == ASSUME TInv, Subscribes PROVE TInv'
<1> USE DEF TInv
<1>1. RowsOK /\ WritingOK /\ FeedOK /\ PageOK /\ HistoryOK /\ MaxRows \in Nat /\ MaxFeed \in Nat
  BY TimelineTypes, TimelineAssumption
<1>2. /\ browser' = "subscribed" /\ feed' = <<>> /\ since' = 0 /\ passed' = {}
      /\ UNCHANGED <<job, rows, writing, found, known, seen, shown, stale>>
  BY DEF Subscribes
<1>3. Len(rows) \in Nat /\ <<>> \in Seq(Message) /\ Len(<<>>) = 0
  BY <1>1, LenProperties, EmptySeq DEF RowsOK
<1>4. FeedOK' /\ PageOK' /\ HistoryOK'
  BY <1>1, <1>2, <1>3 DEF FeedOK, PageOK, HistoryOK
<1>5. TimelineTypeOK'
  BY <1>2, <1>4, TimelineFrames, TimelineTypesNext
<1>6. Rowed'
  <2>1. (\A k \in 1 .. Len(feed)' : Carried(feed'[k])) /\ since' <= Len(rows)
    BY <1>2, <1>3
  <2>2. seen' \subseteq 0 .. Len(rows)
    BY <1>2 DEF Rowed
  <2> QED BY <1>1, <1>2, <2>1, <2>2, RowedStays
<1>7. ShownOnce'
  BY <1>2, ShownStays
<1>8. NoneLeft' /\ Silent'
  BY <1>2 DEF NoneLeft, Silent
<1> QED BY <1>5, <1>6, <1>7, <1>8

LEMMA BreaksOffInv == ASSUME TInv, BreaksOff PROVE TInv'
<1> USE DEF TInv
<1>1. RowsOK /\ WritingOK /\ FeedOK /\ PageOK /\ HistoryOK /\ MaxRows \in Nat /\ MaxFeed \in Nat
  BY TimelineTypes, TimelineAssumption
<1>2. /\ browser' = "away" /\ feed' = <<>>
      /\ UNCHANGED <<job, rows, writing, found, known, since, seen, shown, passed, stale>>
  BY DEF BreaksOff
<1>3. Len(rows) \in Nat /\ <<>> \in Seq(Message) /\ Len(<<>>) = 0
  BY <1>1, LenProperties, EmptySeq DEF RowsOK
<1>4. FeedOK' /\ PageOK'
  BY <1>1, <1>2, <1>3 DEF FeedOK, PageOK
<1>5. TimelineTypeOK'
  BY <1>2, <1>4, TimelineFrames, TimelineTypesNext
<1>6. Rowed'
  <2>1. \A k \in 1 .. Len(feed)' : Carried(feed'[k])
    BY <1>2, <1>3
  <2>2. since' <= Len(rows) /\ seen' \subseteq 0 .. Len(rows)
    BY <1>2 DEF Rowed
  <2> QED BY <1>1, <1>2, <2>1, <2>2, RowedStays
<1>7. ShownOnce'
  BY <1>2, ShownStays
<1>8. NoneLeft' /\ Silent'
  BY <1>2 DEF NoneLeft, Silent
<1> QED BY <1>5, <1>6, <1>7, <1>8

LEMMA SendsHistoryInv == ASSUME TInv, SendsHistory PROVE TInv'
<1> USE DEF TInv
<1>1. RowsOK /\ WritingOK /\ FeedOK /\ PageOK /\ HistoryOK /\ MaxRows \in Nat
  BY TimelineTypes, TimelineAssumption
<1>2. Len(rows) \in Nat /\ Len(rows) <= MaxRows
  BY <1>1, LenProperties DEF RowsOK
<1> DEFINE sent == {[row |-> i, id |-> i] : i \in 1 .. Len(rows)}
           new == {e \in sent : e.id \notin seen}
<1>3. /\ browser' = "live" /\ since' = Len(rows)
      /\ seen' = seen \cup {e.id : e \in new}
      /\ shown' = [i \in 1 .. MaxRows |->
                     IF \E e \in new : e.row = i THEN shown[i] + 1 ELSE shown[i]]
      /\ UNCHANGED <<job, rows, writing, found, known, feed, passed, stale>>
  BY DEF SendsHistory, Shows
<1>4. \A i : (\E e \in new : e.row = i) <=> i \in 1 .. Len(rows) /\ i \notin seen
  <2>1. ASSUME NEW i, i \in 1 .. Len(rows), i \notin seen
        PROVE  \E e \in new : e.row = i
    <3> DEFINE e == [row |-> i, id |-> i]
    <3>1. e \in new /\ e.row = i
      BY <2>1
    <3> QED BY <3>1
  <2>2. ASSUME NEW e \in new
        PROVE  e.row \in 1 .. Len(rows) /\ e.row \notin seen
    OBVIOUS
  <2> QED BY <2>1, <2>2
<1>5. seen' = seen \cup 1 .. Len(rows)
  <2>1. \A e \in new : e.id = e.row
    OBVIOUS
  <2> HIDE DEF new
  <2>2. {e.id : e \in new} = {i \in 1 .. Len(rows) : i \notin seen}
    BY <1>4, <2>1
  <2> QED BY <1>3, <2>2
<1>6. shown' = [i \in 1 .. MaxRows |->
                  IF i \in 1 .. Len(rows) /\ i \notin seen THEN shown[i] + 1 ELSE shown[i]]
  BY <1>3, <1>4, Zenon
<1> HIDE DEF new
<1>7. PageOK'
  <2>1. 1 .. Len(rows) \subseteq 0 .. MaxRows /\ Len(rows) \in 0 .. MaxRows
    BY <1>1, <1>2
  <2>2. seen' \subseteq 0 .. MaxRows
    BY <1>1, <1>5, <2>1, Zenon DEF PageOK
  <2>3. shown' \in [1 .. MaxRows -> Nat]
    BY <1>1, <1>6 DEF PageOK
  <2> QED BY <1>3, <2>1, <2>2, <2>3 DEF PageOK
<1>8. TimelineTypeOK'
  BY <1>3, <1>7, TimelineFrames, TimelineTypesNext
<1>9. Rowed'
  <2>1. 1 .. Len(rows) \subseteq 0 .. Len(rows) /\ seen \subseteq 0 .. Len(rows)
    BY <1>2 DEF Rowed
  <2>2. seen' \subseteq 0 .. Len(rows)
    BY <1>5, <2>1, Zenon
  <2>3. (\A k \in 1 .. Len(feed)' : Carried(feed'[k])) /\ since' <= Len(rows)
    BY <1>2, <1>3 DEF Rowed
  <2> QED BY <1>1, <1>3, <2>2, <2>3, RowedStays
<1>10. ShownOnce'
  <2> SUFFICES ASSUME NEW i \in 1 .. MaxRows
               PROVE  /\ i > Len(rows) => shown'[i] = 0
                      /\ i <= Len(rows) /\ rows[i] \notin Noter =>
                           shown'[i] = (IF i \in seen' THEN 1 ELSE 0)
                      /\ shown'[i] <= (IF i \in seen' THEN 1 ELSE 0) + (IF 0 \in seen' THEN 1 ELSE 0)
    BY <1>3, Zenon DEF ShownOnce, RowShown, Numbered
  <2>1. RowShown(i) /\ i \in Nat \ {0}
    BY <1>1 DEF ShownOnce
  <2>2. shown'[i] = IF i \in 1 .. Len(rows) /\ i \notin seen THEN shown[i] + 1 ELSE shown[i]
    BY <1>6
  <2>3. shown[i] \in Nat
    BY <1>1 DEF PageOK
  <2>4. (i \in seen' <=> i \in seen \/ i <= Len(rows)) /\ (0 \in seen' <=> 0 \in seen)
    BY <1>2, <1>5, <2>1
  <2>5. /\ i > Len(rows) => shown[i] = 0
        /\ i <= Len(rows) /\ rows[i] \notin Noter => shown[i] = (IF i \in seen THEN 1 ELSE 0)
        /\ shown[i] <= (IF i \in seen THEN 1 ELSE 0) + (IF 0 \in seen THEN 1 ELSE 0)
    BY <2>1, Zenon DEF RowShown, Numbered
  <2> QED BY <1>2, <2>1, <2>2, <2>3, <2>4, <2>5
<1>11. NoneLeft'
  BY <1>3, <1>5, Zenon DEF NoneLeft, OnItsWay
<1>12. Silent'
  BY <1>3 DEF Silent
<1> QED BY <1>8, <1>9, <1>10, <1>11, <1>12

LEMMA SendsLiveInv == ASSUME TInv, SendsLive PROVE TInv'
<1> USE DEF TInv
<1>1. RowsOK /\ WritingOK /\ FeedOK /\ PageOK /\ HistoryOK /\ MaxRows \in Nat /\ MaxFeed \in Nat
  BY TimelineTypes, TimelineAssumption
<1>2. /\ browser = "live" /\ feed # <<>> /\ feed' = Tail(feed)
      /\ IF Head(feed).id # 0 /\ Head(feed).id <= since THEN UNCHANGED <<seen, shown>>
         ELSE Shows({Head(feed)})
      /\ UNCHANGED <<job, rows, writing, found, known, browser, since, passed, stale>>
  BY DEF SendsLive
<1>3. Len(rows) \in Nat /\ Len(rows) <= MaxRows /\ Len(feed) \in Nat \ {0}
  BY <1>1, <1>2, LenProperties, EmptySeq DEF RowsOK, FeedOK
<1>4. /\ Head(feed) \in Message /\ feed' \in Seq(Message) /\ Len(feed)' = Len(feed) - 1
      /\ \A k \in 1 .. Len(feed)' : feed'[k] = feed[k + 1]
  BY <1>1, <1>2, HeadTailProperties DEF FeedOK
<1>5. Head(feed) = feed[1]
  BY <1>1 DEF FeedOK
<1>6. PICK e \in Message : e = feed[1] /\ e = Head(feed) /\ Carried(e)
  BY <1>3, <1>4, <1>5 DEF Rowed
<1>7. e.row \in 1 .. MaxRows /\ e.id \in 0 .. MaxRows
  BY DEF Message
<1>8. /\ seen' = IF e.id # 0 /\ e.id <= since THEN seen ELSE seen \cup {e.id}
      /\ shown' \in [1 .. MaxRows -> Nat]
      /\ \A i \in 1 .. MaxRows :
           shown'[i] = IF i = e.row /\ ~(e.id # 0 /\ e.id <= since) /\ e.id \notin seen
                       THEN shown[i] + 1 ELSE shown[i]
  <2>1. CASE e.id # 0 /\ e.id <= since
    BY <1>1, <1>2, <1>6, <2>1 DEF PageOK
  <2>2. CASE ~(e.id # 0 /\ e.id <= since)
    <3> DEFINE new == {f \in {e} : f.id \notin seen}
    <3>1. /\ seen' = seen \cup {f.id : f \in new}
          /\ shown' = [i \in 1 .. MaxRows |->
                         IF \E f \in new : f.row = i THEN shown[i] + 1 ELSE shown[i]]
      BY <1>2, <1>6, <2>2 DEF Shows
    <3>2. seen' = seen \cup {e.id}
      BY <3>1
    <3>3. \A i : (\E f \in new : f.row = i) <=> (i = e.row /\ e.id \notin seen)
      OBVIOUS
    <3> HIDE DEF new
    <3>4. shown' = [i \in 1 .. MaxRows |->
                      IF i = e.row /\ e.id \notin seen THEN shown[i] + 1 ELSE shown[i]]
      BY <3>1, <3>3, Zenon
    <3> QED BY <1>1, <2>2, <3>2, <3>4 DEF PageOK
  <2> QED BY <2>1, <2>2
<1>9. FeedOK' /\ PageOK'
  <2>1. FeedOK'
    BY <1>1, <1>3, <1>4 DEF FeedOK
  <2>2. seen' \subseteq 0 .. MaxRows
    BY <1>1, <1>7, <1>8 DEF PageOK
  <2> QED BY <1>1, <1>2, <1>8, <2>1, <2>2 DEF PageOK
<1>10. TimelineTypeOK'
  BY <1>2, <1>9, TimelineFrames, TimelineTypesNext
<1>11. e.row \in 1 .. Len(rows) /\ (e.id = e.row \/ (e.id = 0 /\ rows[e.row] \in Noter))
  BY <1>6 DEF Carried
<1>12. Rowed'
  <2>1. \A k \in 1 .. Len(feed)' : Carried(feed'[k])
    BY <1>3, <1>4 DEF Rowed
  <2>2. since' <= Len(rows)
    BY <1>2 DEF Rowed
  <2>3. e.id \in 0 .. Len(rows)
    BY <1>3, <1>11
  <2>4. seen' \subseteq 0 .. Len(rows)
    BY <1>8, <2>3, Zenon DEF Rowed
  <2> QED BY <1>1, <1>2, <2>1, <2>2, <2>4, RowedStays
<1>13. ShownOnce'
  <2> SUFFICES ASSUME NEW i \in 1 .. MaxRows
               PROVE  /\ i > Len(rows) => shown'[i] = 0
                      /\ i <= Len(rows) /\ rows[i] \notin Noter =>
                           shown'[i] = (IF i \in seen' THEN 1 ELSE 0)
                      /\ shown'[i] <= (IF i \in seen' THEN 1 ELSE 0) + (IF 0 \in seen' THEN 1 ELSE 0)
    BY <1>2, Zenon DEF ShownOnce, RowShown, Numbered
  <2>1. RowShown(i) /\ i \in Nat \ {0} /\ shown[i] \in Nat
    BY <1>1 DEF ShownOnce, PageOK
  <2>2. /\ i > Len(rows) => shown[i] = 0
        /\ i <= Len(rows) /\ rows[i] \notin Noter => shown[i] = (IF i \in seen THEN 1 ELSE 0)
        /\ shown[i] <= (IF i \in seen THEN 1 ELSE 0) + (IF 0 \in seen THEN 1 ELSE 0)
    BY <2>1, Zenon DEF RowShown, Numbered
  <2>3. CASE e.id # 0 /\ e.id <= since
    <3>1. seen' = seen /\ shown'[i] = shown[i]
      BY <1>8, <2>3
    <3> QED BY <2>2, <3>1
  <2>4. CASE ~(e.id # 0 /\ e.id <= since) /\ e.id \in seen
    <3>1. seen' = seen /\ shown'[i] = shown[i]
      BY <1>8, <2>4
    <3> QED BY <2>2, <3>1
  <2>5. CASE ~(e.id # 0 /\ e.id <= since) /\ e.id \notin seen
    <3>1. seen' = seen \cup {e.id} /\ shown'[i] = IF i = e.row THEN shown[i] + 1 ELSE shown[i]
      BY <1>8, <2>5
    <3>2. CASE i = e.row /\ e.id = e.row
      <4>1. i \in seen' /\ i \notin seen /\ (0 \in seen' <=> 0 \in seen)
        BY <2>1, <2>5, <3>1, <3>2
      <4> QED BY <1>3, <1>11, <2>1, <2>2, <3>1, <3>2, <4>1
    <3>3. CASE i = e.row /\ e.id = 0
      <4>1. 0 \in seen' /\ 0 \notin seen /\ (i \in seen' <=> i \in seen) /\ rows[i] \in Noter
        BY <1>11, <2>1, <2>5, <3>1, <3>3
      <4> QED BY <1>3, <1>11, <2>1, <2>2, <3>1, <3>3, <4>1
    <3>4. CASE i # e.row
      <4>1. (i \in seen' <=> i \in seen) /\ (0 \in seen => 0 \in seen') /\ shown'[i] = shown[i]
        BY <1>11, <2>1, <3>1, <3>4
      <4> QED BY <1>3, <2>1, <2>2, <4>1
    <3> QED BY <1>11, <3>2, <3>3, <3>4
  <2> QED BY <2>3, <2>4, <2>5
<1>14. NoneLeft'
  <2> SUFFICES /\ \A i \in 1 .. since : i \in seen'
               /\ \A i \in 1 .. Len(rows) : rows[i] \notin Noter /\ i \notin passed => OnItsWay(i)'
    BY <1>2, Zenon DEF NoneLeft, Numbered
  <2>1. \A i \in 1 .. since : i \in seen /\ i \in seen'
    BY <1>2, <1>8 DEF NoneLeft
  <2>2. ASSUME NEW i \in 1 .. Len(rows), rows[i] \notin Noter, i \notin passed
        PROVE  OnItsWay(i)'
    <3>1. OnItsWay(i)
      BY <1>2, <2>2 DEF NoneLeft, Numbered
    <3>2. CASE i \in seen
      <4>1. i \in seen'
        BY <1>8, <3>2
      <4> QED BY <4>1 DEF OnItsWay
    <3>3. ASSUME NEW k \in 1 .. Len(feed), feed[k].id = i
          PROVE  OnItsWay(i)'
      <4>1. CASE k = 1
        <5>1. e.id = i /\ i # 0
          BY <1>3, <1>6, <3>3, <4>1
        <5>2. i \in seen'
          BY <1>1, <1>8, <2>1, <5>1 DEF PageOK
        <5> QED BY <5>2 DEF OnItsWay
      <4>2. CASE k # 1
        <5>1. PICK j \in 1 .. Len(feed)' : j + 1 = k
          <6>1. k - 1 \in 1 .. Len(feed)' /\ (k - 1) + 1 = k
            BY <1>3, <1>4, <4>2
          <6> QED BY <6>1
        <5>2. feed'[j].id = i
          BY <1>4, <3>3, <5>1
        <5> QED BY <5>2 DEF OnItsWay
      <4> QED BY <4>1, <4>2
    <3>4. ASSUME NEW v \in Writer \ Noter, InHand(v, i)
          PROVE  OnItsWay(i)'
      <4>1. InHand(v, i)'
        BY <1>2, <3>4 DEF InHand
      <4> QED BY <4>1, Zenon DEF OnItsWay
    <3> QED BY <3>1, <3>2, <3>3, <3>4, Zenon DEF OnItsWay
  <2> QED BY <2>1, <2>2
<1>15. Silent'
  BY <1>2 DEF Silent
<1> QED BY <1>10, <1>12, <1>13, <1>14, <1>15

-----------------------------------------------------------------------------

LEMMA TimelineInitInv == TimelineInit => TInv
<1> SUFFICES ASSUME TimelineInit PROVE TInv
  OBVIOUS
<1>1. rows = <<>> /\ feed = <<>> /\ <<>> \in Seq(Writer) /\ <<>> \in Seq(Message) /\ Len(<<>>) = 0
  BY EmptySeq DEF TimelineInit
<1>2. TimelineTypeOK
  <2>1. JobOK /\ PageOK /\ HistoryOK
    BY TimelineAssumption DEF TimelineInit, JobOK, PageOK, HistoryOK, JobState
  <2>2. WritingOK
    BY RestIsPlace DEF TimelineInit, WritingOK
  <2>3. RowsOK /\ FeedOK
    BY <1>1, TimelineAssumption DEF RowsOK, FeedOK
  <2> QED BY <2>1, <2>2, <2>3, TimelineTypes
<1>3. Rowed
  BY <1>1 DEF TimelineInit, Rowed, WriterTrue, AtRest
<1>4. ShownOnce
  BY <1>1, TimelineAssumption DEF TimelineInit, ShownOnce, RowShown
<1>5. NoneLeft /\ Silent
  BY DEF TimelineInit, NoneLeft, Silent
<1> QED BY <1>2, <1>3, <1>4, <1>5 DEF TInv

LEMMA TimelineStutterInv == ASSUME TInv, UNCHANGED timelineVars PROVE TInv'
<1> USE DEF TInv, timelineVars, page
<1>1. TimelineTypeOK'
  BY TimelineFrames, TimelineTypesNext
<1>2. Rowed'
  BY DEF Rowed, WriterTrue, Carried
<1>3. ShownOnce'
  BY ShownStays
<1>4. NoneLeft'
  BY DEF NoneLeft, OnItsWay, InHand, Numbered
<1>5. Silent'
  BY DEF Silent
<1> QED BY <1>1, <1>2, <1>3, <1>4, <1>5

LEMMA TimelineNextInv == TInv /\ [TimelineNext]_timelineVars => TInv'
<1> SUFFICES ASSUME TInv, [TimelineNext]_timelineVars PROVE TInv'
  OBVIOUS
<1>1. CASE \E w \in Reporter : Reports(w)
  BY <1>1, ReportsInv
<1>2. CASE \E w \in Noter : Notes(w)
  BY <1>2, NotesInv
<1>3. CASE \E w \in Writer : ReadsBack(w) \/ Publish(w)
  BY <1>3, ReadsBackInv, PublishInv
<1>4. CASE ListsJobs \/ WatcherNotes
  BY <1>4, ListsJobsInv, WatcherNotesInv
<1>5. CASE \E answer \in {"up", "down"} : AppliesStatus(answer)
  BY <1>5, AppliesStatusInv
<1>6. CASE Subscribes \/ SendsHistory \/ SendsLive \/ BreaksOff
  BY <1>6, SubscribesInv, SendsHistoryInv, SendsLiveInv, BreaksOffInv
<1>7. CASE UNCHANGED timelineVars
  BY <1>7, TimelineStutterInv
<1> QED BY <1>1, <1>2, <1>3, <1>4, <1>5, <1>6, <1>7, Zenon DEF TimelineNext

\* Whoever writes a row of job_events and in whatever order they publish, every
\* row is shown, waits in the channel or is in a goroutine's hands (NoneLeft).
THEOREM TimelineInvariance == TimelineSpec => []TInv
  BY TimelineInitInv, TimelineNextInv, PTL DEF TimelineSpec

\* A page that has caught up shows every numbered row once, and none more than
\* twice (live.tsx, handleJobEvents): whatever the number of goroutines, of rows
\* and of places in the channel.
THEOREM NothingInBetweenIsMissed == TimelineSpec => []PageIsWhole
<1>1. TInv => PageIsWhole
  <2> SUFFICES ASSUME TInv, NEW i \in 1 .. Len(rows)
               PROVE  /\ shown[i] <= (IF Numbered(i) THEN 1 ELSE 2)
                      /\ (Settled /\ Numbered(i) /\ i \notin passed) => shown[i] = 1
    BY Zenon DEF PageIsWhole
  <2>1. RowsOK /\ PageOK /\ FeedOK
    BY TimelineTypes DEF TInv
  <2>2. i \in 1 .. MaxRows /\ i <= Len(rows)
    BY <2>1, LenProperties, TimelineAssumption DEF RowsOK
  <2>3. RowShown(i) /\ shown[i] \in Nat
    BY <2>1, <2>2 DEF TInv, ShownOnce, PageOK
  <2>4. shown[i] <= (IF Numbered(i) THEN 1 ELSE 2)
    BY <2>2, <2>3 DEF RowShown
  <2>5. ASSUME Settled, Numbered(i), i \notin passed
        PROVE  shown[i] = 1
    <3>1. OnItsWay(i)
      BY <2>5 DEF TInv, NoneLeft, Settled
    <3>2. feed = <<>> /\ \A w \in Writer : writing[w].at \notin {"read", "publish"}
      BY <2>5 DEF Settled
    <3>3. Len(feed) = 0
      BY <3>2, EmptySeq
    <3>4. ~ \E w \in Writer \ Noter : InHand(w, i)
      BY <3>2 DEF InHand
    <3>5. ~ \E k \in 1 .. Len(feed) : feed[k].id = i
      BY <3>3
    <3>6. i \in seen
      BY <3>1, <3>4, <3>5, Zenon DEF OnItsWay
    <3> QED BY <2>2, <2>3, <2>5, <3>6 DEF RowShown
  <2> QED BY <2>4, <2>5
<1> QED BY <1>1, TimelineInvariance, PTL

\* The watcher writes one row at most of a job that is over (sweep,
\* waitingForRestart), however the end and its sweep come together.
THEOREM WatcherEndsToo == TimelineSpec => []WatcherFallsSilent
<1>1. TInv => WatcherFallsSilent
  BY DEF TInv, Silent, WatcherFallsSilent
<1> QED BY <1>1, TimelineInvariance, PTL

-----------------------------------------------------------------------------
(* LogTail.                                                                *)

Start(s) == IF s = 1 THEN skipped ELSE 0

\* Each line follows the one before, or is the first of a later session.
InOrder ==
  \A i \in 1 .. Len(lines) :
    IF i = 1 \/ lines[i - 1][1] # lines[i][1]
    THEN /\ \A j \in 1 .. i - 1 : lines[j][1] < lines[i][1]
         /\ lines[i][2] = Start(lines[i][1]) + 1
    ELSE lines[i][2] = lines[i - 1][2] + 1

\* All of a session up to pos has been read, and of no later one anything.
ReadTo(s) ==
  /\ \A i \in 1 .. Len(lines) : lines[i][1] <= s
  /\ pos >= Start(s)
  /\ pos = Start(s) => \A i \in 1 .. Len(lines) : lines[i][1] # s
  /\ pos > Start(s) => Len(lines) > 0 /\ lines[Len(lines)] = <<s, pos>>

\* What is there has not been opened yet.
Unread ==
  /\ pos = 0 /\ head = 0
  /\ \A i \in 1 .. Len(lines) : lines[i][1] <= Latest
  /\ there => /\ \A i \in 1 .. Len(lines) : lines[i][1] < Latest
              /\ Latest = 1 => ~opened /\ file = before

\* The file that is open holds the session that is being read, or a later one
\* the beginning of which is not the one that is remembered.
Held == content[handle].session
Reading ==
  /\ ReadTo(Held) /\ pos <= Length
  /\ head \in {0, Held} /\ (head # 0 => Length > 0)
Replaced ==
  /\ head \notin {0, Held} /\ \A i \in 1 .. Len(lines) : lines[i][1] < Held

Opened ==
  /\ opened /\ handle <= file /\ head <= Held
  /\ handle < file => Held < Latest
  /\ IF phase = "look" THEN (head # 0 <=> pos > 0) /\ (Reading \/ Replaced)
     ELSE Reading /\ (phase = "head" /\ head # 0 => pos > 0)

Tailing ==
  /\ InOrder
  /\ before \in {0, 1}
  /\ ~opened => lines = <<>> /\ skipped = 0 /\ handle = 0 /\ (file = before => Latest = 1)
  /\ IF handle = 0 THEN Unread ELSE Opened

Holds == phase # "look" => handle # 0

GInv == LogTailTypeOK /\ Holds /\ (~broken => Tailing)

Line == Session \X (1 .. MaxLines)

FileOK == there \in BOOLEAN /\ file \in Session /\ content \in [Session -> Content]
WhereOK ==
  /\ phase \in {"look", "read", "head"} /\ handle \in Session \cup {0} /\ pos \in 0 .. MaxLines
  /\ head \in Session \cup {0}
BeganOK ==
  /\ before \in Session \cup {0} /\ skipped \in 0 .. MaxLines
  /\ opened \in BOOLEAN /\ broken \in BOOLEAN
LinesOK == lines \in Seq(Line)

LEMMA LogTailTypes == LogTailTypeOK <=> FileOK /\ WhereOK /\ BeganOK /\ LinesOK
  BY Zenon DEF LogTailTypeOK, FileOK, WhereOK, BeganOK, LinesOK, Line

LEMMA LogTailTypesNext == ASSUME FileOK', WhereOK', BeganOK', LinesOK' PROVE LogTailTypeOK'
  BY Zenon DEF LogTailTypeOK, FileOK, WhereOK, BeganOK, LinesOK, Line

LEMMA LogTailFrames ==
  ASSUME LogTailTypeOK
  PROVE  /\ UNCHANGED <<there, file, content>> => FileOK'
         /\ UNCHANGED <<phase, handle, pos, head>> => WhereOK'
         /\ UNCHANGED <<before, skipped, opened, broken>> => BeganOK'
         /\ UNCHANGED lines => LinesOK'
  BY LogTailTypes DEF FileOK, WhereOK, BeganOK, LinesOK

LEMMA SessionIs ==
  ASSUME FileOK, NEW f \in Session
  PROVE  /\ f \in Nat \ {0} /\ content[f].session \in Session /\ content[f].session \in Nat \ {0}
         /\ content[f].length \in 0 .. MaxLines /\ content[f].length \in Nat
<1>1. content[f] \in Content
  BY DEF FileOK
<1>2. content[f].session \in Session /\ content[f].length \in 0 .. MaxLines
  BY <1>1 DEF Content
<1> QED BY <1>2, LogTailAssumption DEF Session

LEMMA LinesAre ==
  ASSUME LinesOK
  PROVE  /\ Len(lines) \in Nat
         /\ \A i \in 1 .. Len(lines) : /\ lines[i] \in Line
                                       /\ lines[i][1] \in Nat \ {0} /\ lines[i][2] \in Nat \ {0}
  BY LenProperties, LogTailAssumption DEF LinesOK, Line, Session

\* What a step says that leaves the lines alone.
LEMMA InOrderFrame == ASSUME InOrder, UNCHANGED <<lines, skipped>> PROVE InOrder'
  BY DEF InOrder, Start

LEMMA WritesInv == ASSUME GInv, Writes PROVE GInv'
<1>1. FileOK /\ WhereOK /\ BeganOK /\ LinesOK
  BY LogTailTypes DEF GInv
<1>2. /\ there /\ content[file].length < MaxLines
      /\ content' = [content EXCEPT ![file].length = @ + 1]
      /\ UNCHANGED <<there, file, phase, before, skipped, handle, pos, head, opened, lines, broken>>
  BY DEF Writes, tail
<1>3. /\ file \in Session /\ content[file].length \in Nat
      /\ content[file] \in Content
  BY <1>1, SessionIs DEF FileOK
<1>4. PICK n \in 0 .. MaxLines : n = content[file].length + 1
  BY <1>2, <1>3, LogTailAssumption
<1>5. [content[file] EXCEPT !.length = n] \in Content
  BY <1>3 DEF Content
<1>6. /\ content' = [content EXCEPT ![file] = [content[file] EXCEPT !.length = n]]
  BY <1>1, <1>2, <1>4 DEF FileOK
<1>7. FileOK'
  BY <1>1, <1>2, <1>5, <1>6 DEF FileOK
<1>8. LogTailTypeOK'
  BY <1>2, <1>7, LogTailFrames, LogTailTypesNext DEF GInv
<1>9. \A f \in Session : /\ content'[f].session = content[f].session
                         /\ content'[f].length >= content[f].length
                         /\ content[f].length \in Nat /\ content'[f].length \in Nat
  <2> SUFFICES ASSUME NEW f \in Session
               PROVE  /\ content'[f].session = content[f].session
                      /\ content'[f].length >= content[f].length
                      /\ content[f].length \in Nat /\ content'[f].length \in Nat
    OBVIOUS
  <2>1. content[f] \in Content /\ content[f].length \in Nat
    BY <1>1, SessionIs DEF FileOK
  <2>2. CASE f = file
    <3>1. content'[f] = [content[file] EXCEPT !.length = n]
      BY <1>1, <1>6, <2>2 DEF FileOK
    <3> QED BY <1>3, <1>4, <2>1, <2>2, <3>1 DEF Content
  <2>3. CASE f # file
    BY <1>1, <1>6, <2>1, <2>3 DEF FileOK
  <2> QED BY <2>2, <2>3
<1>10. Latest' = Latest
  BY <1>2, <1>3, <1>9 DEF Latest
<1>11. ASSUME Tailing PROVE Tailing'
  <2>1. InOrder'
    BY <1>2, <1>11, InOrderFrame DEF Tailing
  <2>2. CASE handle = 0
    BY <1>2, <1>10, <1>11, <2>1, <2>2 DEF Tailing, Unread
  <2>3. CASE handle # 0
    <3>1. /\ Held' = Held /\ Length' >= Length /\ Length \in Nat /\ Length' \in Nat
          /\ pos \in Nat
      BY <1>1, <1>2, <1>9, <2>3 DEF Held, Length, WhereOK
    <3>2. Reading => Reading'
      BY <1>2, <3>1 DEF Reading, ReadTo, Start
    <3>3. Replaced => Replaced'
      BY <1>2, <3>1 DEF Replaced
    <3>4. Opened'
      BY <1>2, <1>10, <1>11, <2>3, <3>1, <3>2, <3>3 DEF Tailing, Opened
    <3> QED BY <1>2, <1>10, <1>11, <2>1, <2>3, <3>4 DEF Tailing
  <2> QED BY <2>2, <2>3
<1> QED BY <1>2, <1>8, <1>11 DEF GInv, Holds

LEMMA GoesInv == ASSUME GInv, Goes PROVE GInv'
<1>1. /\ there' = FALSE
      /\ UNCHANGED <<file, content, phase, before, skipped, handle, pos, head, opened, lines, broken>>
  BY DEF Goes, tail
<1>2. FileOK'
  BY <1>1, LogTailTypes DEF GInv, FileOK
<1>3. LogTailTypeOK'
  BY <1>1, <1>2, LogTailFrames, LogTailTypesNext DEF GInv
<1>4. ASSUME Tailing PROVE Tailing'
  <2>1. InOrder'
    BY <1>1, <1>4, InOrderFrame DEF Tailing
  <2>2. (Unread => Unread') /\ (Opened => Opened')
    BY <1>1 DEF Unread, Opened, Reading, Replaced, ReadTo, Start, Held, Length, Latest
  <2> QED BY <1>1, <1>4, <2>1, <2>2 DEF Tailing, Latest
<1> QED BY <1>1, <1>3, <1>4 DEF GInv, Holds

\* A file in which a session begins holds the next one, and nothing of it yet.
LEMMA BeginsInv == ASSUME GInv, Begins PROVE GInv'
<1>1. FileOK /\ WhereOK /\ BeganOK /\ LinesOK
  BY LogTailTypes DEF GInv
<1> DEFINE new == [session |-> Latest + 1, length |-> 0]
<1>2. /\ Latest < MaxSession /\ there' = TRUE
      /\ UNCHANGED <<phase, before, skipped, handle, pos, head, opened, lines>>
      /\ \/ /\ there /\ content' = [content EXCEPT ![file] = new]
            /\ broken' = (broken \/ phase # "look" \/ (~opened /\ file = before))
            /\ UNCHANGED file
         \/ /\ file < MaxSession /\ file' = file + 1
            /\ content' = [content EXCEPT ![file + 1] = new]
            /\ UNCHANGED broken
  BY DEF Begins, tail
<1>3. file \in Session /\ file \in Nat \ {0} /\ Latest \in Nat \ {0} /\ MaxSession \in Nat
  BY <1>1, SessionIs, LogTailAssumption DEF FileOK, Latest
<1>4. new \in Content /\ new.session = Latest + 1 /\ new.length = 0
  BY <1>2, <1>3, LogTailAssumption DEF Content, Session
<1> HIDE DEF new
<1>5. /\ file' \in Session /\ file' \in {file, file + 1} /\ content' = [content EXCEPT ![file'] = new]
      /\ file' = file => broken' = (broken \/ phase # "look" \/ (~opened /\ file = before)) /\ there
      /\ file' # file => broken' = broken
  BY <1>2, <1>3 DEF Session
<1>6. /\ content'[file'] = new
      /\ \A f \in Session : f # file' => content'[f] = content[f]
      /\ content' \in [Session -> Content]
  BY <1>1, <1>4, <1>5 DEF FileOK
<1>7. FileOK' /\ BeganOK'
  <2>1. broken' \in BOOLEAN
    BY <1>1, <1>5 DEF BeganOK
  <2> QED BY <1>1, <1>2, <1>5, <1>6, <2>1 DEF FileOK, BeganOK
<1>8. LogTailTypeOK'
  BY <1>2, <1>7, LogTailFrames, LogTailTypesNext DEF GInv
<1>9. Latest' = Latest + 1
  BY <1>4, <1>6 DEF Latest
<1>10. ASSUME ~broken' PROVE ~broken
  BY <1>1, <1>5, <1>10 DEF BeganOK
<1>11. \A i \in 1 .. Len(lines) : lines[i][1] \in Nat
  BY <1>1, LinesAre
<1>12. ASSUME Tailing, ~broken' PROVE Tailing'
  <2>1. InOrder'
    BY <1>2, <1>12, InOrderFrame DEF Tailing
  <2>2. ~opened => lines = <<>> /\ skipped = 0 /\ handle = 0 /\ (file' = before => Latest' = 1)
    <3>1. CASE file' = file
      BY <1>5, <1>12, <3>1 DEF Tailing
    <3>2. CASE file' = file + 1
      BY <1>3, <1>12, <3>2 DEF Tailing
    <3> QED BY <1>5, <3>1, <3>2
  <2>3. CASE handle = 0
    <3>1. Unread'
      BY <1>2, <1>3, <1>9, <1>11, <1>12, <2>3 DEF Tailing, Unread
    <3> QED BY <1>2, <1>12, <2>1, <2>2, <2>3, <3>1 DEF Tailing
  <2>4. CASE handle # 0
    <3>1. /\ handle \in Session /\ handle \in Nat \ {0} /\ pos \in Nat /\ head \in Nat
          /\ Held \in Nat \ {0} /\ Length \in Nat
      BY <1>1, <2>4, SessionIs, LogTailAssumption DEF WhereOK, Held, Length, Session
    <3>2. Opened /\ handle <= file
      BY <1>12, <2>4 DEF Tailing, Opened
    <3>3. CASE handle # file'
      <4>1. Held' = Held /\ Length' = Length
        BY <1>2, <1>6, <3>1, <3>3 DEF Held, Length
      <4>2. (Reading => Reading') /\ (Replaced => Replaced')
        BY <1>2, <4>1 DEF Reading, Replaced, ReadTo, Start
      <4>3. handle <= file' /\ Held < Latest'
        <5>1. handle = file => Held = Latest
          BY DEF Held, Latest
        <5> QED BY <1>3, <1>5, <1>9, <3>1, <3>2, <5>1 DEF Opened
      <4>4. Opened'
        BY <1>2, <3>2, <4>1, <4>2, <4>3 DEF Opened
      <4> QED BY <1>2, <1>12, <2>1, <2>2, <2>4, <4>4 DEF Tailing
    <3>4. CASE handle = file'
      <4>1. file' = file /\ phase = "look" /\ Held = Latest
        <5>1. file' = file /\ handle = file
          BY <1>3, <1>5, <3>1, <3>2, <3>4
        <5>2. broken' = (broken \/ phase # "look" \/ (~opened /\ file = before))
          BY <1>5, <5>1
        <5>3. phase = "look"
          BY <1>12, <5>2, Zenon
        <5> QED BY <5>1, <5>3 DEF Held, Latest
      <4>2. Held' = Held + 1 /\ Length' = 0
        BY <1>2, <1>4, <1>6, <1>9, <3>4, <4>1 DEF Held, Length
      <4>3. /\ (head # 0 <=> pos > 0) /\ (Reading \/ Replaced) /\ opened /\ head <= Held
        BY <3>2, <4>1 DEF Opened
      <4>4. \A i \in 1 .. Len(lines) : lines[i][1] <= Held
        BY <1>11, <3>1, <4>3 DEF Reading, Replaced, ReadTo
      <4>5. CASE head = 0
        <5>1. pos = 0
          BY <3>1, <4>3, <4>5
        <5>2. Reading'
          BY <1>2, <1>11, <3>1, <4>2, <4>4, <4>5, <5>1 DEF Reading, ReadTo, Start
        <5> QED BY <1>2, <1>12, <2>1, <2>2, <2>4, <3>1, <3>2, <3>4, <4>1, <4>2, <4>3, <5>2
                DEF Tailing, Opened
      <4>6. CASE head # 0
        <5>1. Replaced'
          BY <1>2, <1>11, <3>1, <4>2, <4>3, <4>4, <4>6 DEF Replaced
        <5> QED BY <1>2, <1>12, <2>1, <2>2, <2>4, <3>1, <3>2, <3>4, <4>1, <4>2, <4>3, <5>1
                DEF Tailing, Opened
      <4> QED BY <4>5, <4>6
    <3> QED BY <3>3, <3>4
  <2> QED BY <2>3, <2>4
<1>13. Holds'
  BY <1>2 DEF GInv, Holds
<1> QED BY <1>8, <1>10, <1>12, <1>13, Zenon DEF GInv

\* What Reads adds to the lines.
LEMMA LinesGrow ==
  ASSUME LinesOK, NEW s \in Session, NEW from \in Nat, NEW n \in Nat, from + n <= MaxLines,
         lines' = lines \o [i \in 1 .. n |-> <<s, from + i>>]
  PROVE  /\ LinesOK' /\ Len(lines)' = Len(lines) + n
         /\ \A i \in 1 .. Len(lines) : lines'[i] = lines[i]
         /\ \A k \in 1 .. n : lines'[Len(lines) + k] = <<s, from + k>>
<1> DEFINE more == [i \in 1 .. n |-> <<s, from + i>>]
<1>1. more \in [1 .. n -> Line]
  BY LogTailAssumption DEF Line
<1>2. more \in Seq(Line) /\ Len(more) = n /\ \A k \in 1 .. n : more[k] = <<s, from + k>>
  <2>1. more \in Seq(Line)
    BY <1>1, SeqDef
  <2>2. Len(more) = n
    BY <2>1, LenProperties
  <2> QED BY <2>1, <2>2
<1>3. lines' = lines \o more
  OBVIOUS
<1> HIDE DEF more
<1>4. /\ lines' \in Seq(Line) /\ Len(lines') = Len(lines) + n
      /\ \A i \in 1 .. Len(lines) + n :
           lines'[i] = IF i <= Len(lines) THEN lines[i] ELSE more[i - Len(lines)]
  <2>1. lines \in Seq(Line)
    BY DEF LinesOK
  <2>2. /\ lines' \in Seq(Line) /\ Len(lines') = Len(lines) + Len(more)
        /\ \A i \in 1 .. Len(lines) + Len(more) :
             lines'[i] = IF i <= Len(lines) THEN lines[i] ELSE more[i - Len(lines)]
    <3>1. more \in Seq(Line)
      BY <1>2
    <3>2. /\ lines \o more \in Seq(Line) /\ Len(lines \o more) = Len(lines) + Len(more)
          /\ \A i \in 1 .. Len(lines) + Len(more) :
               (lines \o more)[i] = IF i <= Len(lines) THEN lines[i] ELSE more[i - Len(lines)]
      BY <2>1, <3>1, ConcatProperties
    <3> QED BY <1>3, <3>2
  <2> QED BY <1>2, <2>2, Zenon
<1>5. Len(lines) \in Nat
  BY LinesAre
<1>6. ASSUME NEW k \in 1 .. n PROVE lines'[Len(lines) + k] = <<s, from + k>>
  <2>1. Len(lines) + k \in 1 .. Len(lines) + n /\ Len(lines) + k > Len(lines)
        /\ (Len(lines) + k) - Len(lines) = k
    BY <1>5
  <2> QED BY <1>2, <1>4, <1>5, <2>1
<1>7. \A i \in 1 .. Len(lines) : lines'[i] = lines[i]
  BY <1>4, <1>5
<1>8. LinesOK'
  BY <1>4 DEF LinesOK
<1> QED BY <1>4, <1>6, <1>7, <1>8

\* The lines that are read follow those that were, and the last is the last there is.
LEMMA ReadsInv == ASSUME GInv, Reads PROVE GInv'
<1>1. FileOK /\ WhereOK /\ BeganOK /\ LinesOK
  BY LogTailTypes DEF GInv
<1>2. /\ phase = "read" /\ phase' = "head"
      /\ lines' = lines \o [i \in 1 .. (IF Length > pos THEN Length - pos ELSE 0) |->
                              <<content[handle].session, pos + i>>]
      /\ pos' = (IF Length > pos THEN Length ELSE pos)
      /\ UNCHANGED <<there, file, content, before, skipped, handle, head, opened, broken>>
  BY DEF Reads
<1>3. /\ handle \in Session /\ Held \in Session /\ Held \in Nat \ {0} /\ Length \in 0 .. MaxLines
      /\ pos \in 0 .. MaxLines /\ pos \in Nat /\ MaxLines \in Nat /\ handle # 0
  BY <1>1, <1>2, SessionIs, LogTailAssumption DEF WhereOK, Held, Length, GInv, Holds, Session
<1>4. PICK n \in Nat : n = (IF Length > pos THEN Length - pos ELSE 0) /\ pos + n <= MaxLines
                     /\ pos' = pos + n
  <2> DEFINE n == IF Length > pos THEN Length - pos ELSE 0
  <2>1. n \in Nat /\ pos + n <= MaxLines /\ pos' = pos + n
    BY <1>2, <1>3
  <2> QED BY <2>1
<1>5. lines' = lines \o [i \in 1 .. n |-> <<Held, pos + i>>]
  BY <1>2, <1>4, Zenon DEF Held
<1>6. /\ LinesOK' /\ Len(lines)' = Len(lines) + n
      /\ \A i \in 1 .. Len(lines) : lines'[i] = lines[i]
      /\ \A k \in 1 .. n : lines'[Len(lines) + k] = <<Held, pos + k>>
  BY <1>1, <1>3, <1>4, <1>5, LinesGrow
<1>7. WhereOK'
  BY <1>1, <1>2, <1>3, <1>4 DEF WhereOK
<1>8. LogTailTypeOK'
  BY <1>2, <1>6, <1>7, LogTailFrames, LogTailTypesNext DEF GInv
<1>9. ASSUME Tailing PROVE Tailing'
  <2>1. /\ InOrder /\ Reading /\ opened /\ handle <= file /\ head <= Held
        /\ handle < file => Held < Latest
    BY <1>2, <1>3, <1>9 DEF Tailing, Opened
  <2>2. /\ Held' = Held /\ Length' = Length /\ Start(Held)' = Start(Held) /\ Start(Held) \in Nat
        /\ Latest' = Latest
    BY <1>1, <1>2 DEF Held, Length, Start, Latest, BeganOK
  <2>3. /\ Len(lines) \in Nat
        /\ \A i \in 1 .. Len(lines) : lines[i][1] \in Nat /\ lines[i][2] \in Nat
    BY <1>1, LinesAre
  <2>4. \A i \in 1 .. Len(lines)' : i \in 1 .. Len(lines) \/ \E k \in 1 .. n : i = Len(lines) + k
    <3> SUFFICES ASSUME NEW i \in 1 .. Len(lines)', i \notin 1 .. Len(lines)
                 PROVE  \E k \in 1 .. n : i = Len(lines) + k
      OBVIOUS
    <3>1. i - Len(lines) \in 1 .. n /\ i = Len(lines) + (i - Len(lines))
      BY <1>6, <2>3
    <3> QED BY <3>1
  <2>5. InOrder'
    <3> SUFFICES ASSUME NEW i \in 1 .. Len(lines)'
                 PROVE  IF i = 1 \/ lines'[i - 1][1] # lines'[i][1]
                        THEN /\ \A j \in 1 .. i - 1 : lines'[j][1] < lines'[i][1]
                             /\ lines'[i][2] = Start(lines'[i][1]) + 1
                        ELSE lines'[i][2] = lines'[i - 1][2] + 1
      BY <1>2 DEF InOrder, Start
    <3>1. CASE i \in 1 .. Len(lines)
      <4>1. lines'[i] = lines[i] /\ \A j \in 1 .. i - 1 : lines'[j] = lines[j]
        BY <1>6, <2>3, <3>1
      <4>2. i # 1 => lines'[i - 1] = lines[i - 1]
        BY <2>3, <3>1, <4>1
      <4> QED BY <2>1, <2>3, <3>1, <4>1, <4>2 DEF InOrder
    <3>2. ASSUME NEW k \in 1 .. n, i = Len(lines) + k, k = 1
          PROVE  IF i = 1 \/ lines'[i - 1][1] # lines'[i][1]
                 THEN /\ \A j \in 1 .. i - 1 : lines'[j][1] < lines'[i][1]
                      /\ lines'[i][2] = Start(lines'[i][1]) + 1
                 ELSE lines'[i][2] = lines'[i - 1][2] + 1
      <4>1. lines'[i] = <<Held, pos + 1>> /\ i - 1 = Len(lines)
        BY <1>6, <2>3, <3>2
      <4>2. i # 1 => lines'[i - 1] = lines[Len(lines)]
        BY <1>6, <2>3, <3>2, <4>1
      <4>3. CASE pos = Start(Held)
        <5>1. \A j \in 1 .. Len(lines) : lines[j][1] < Held
          BY <1>3, <2>1, <2>3, <4>3 DEF Reading, ReadTo
        <5>2. \A j \in 1 .. i - 1 : lines'[j][1] < Held
          BY <1>6, <4>1, <5>1
        <5>3. i # 1 => lines'[i - 1][1] # Held
          BY <1>3, <2>3, <3>2, <4>1, <4>2, <5>1
        <5> QED BY <4>1, <4>3, <5>2, <5>3
      <4>4. CASE pos # Start(Held)
        <5>1. Len(lines) > 0 /\ lines[Len(lines)] = <<Held, pos>>
          BY <1>3, <2>1, <2>2, <4>4 DEF Reading, ReadTo
        <5>2. i # 1
          BY <2>3, <4>1, <5>1, <3>2
        <5> QED BY <4>1, <4>2, <5>1, <5>2
      <4> QED BY <4>3, <4>4
    <3>3. ASSUME NEW k \in 1 .. n, i = Len(lines) + k, k # 1
          PROVE  lines'[i - 1][1] = lines'[i][1] /\ lines'[i][2] = lines'[i - 1][2] + 1 /\ i # 1
      <4>1. PICK m \in 1 .. n : k = m + 1
        <5>1. k - 1 \in 1 .. n /\ k = (k - 1) + 1
          BY <3>3, <1>4
        <5> QED BY <5>1
      <4>2. i - 1 = Len(lines) + m /\ i # 1
        BY <2>3, <3>3, <4>1
      <4>3. lines'[i] = <<Held, pos + k>> /\ lines'[i - 1] = <<Held, pos + m>>
        BY <1>6, <3>3, <4>2
      <4> QED BY <1>3, <4>1, <4>2, <4>3
    <3> QED BY <2>4, <3>1, <3>2, <3>3
  <2>6. Reading'
    <3>1. \A i \in 1 .. Len(lines)' : lines'[i][1] <= Held
      <4>1. \A i \in 1 .. Len(lines) : lines'[i][1] <= Held
        BY <1>6, <2>1 DEF Reading, ReadTo
      <4>2. \A k \in 1 .. n : lines'[Len(lines) + k][1] <= Held
        <5> SUFFICES ASSUME NEW k \in 1 .. n PROVE lines'[Len(lines) + k][1] <= Held
          OBVIOUS
        <5>1. lines'[Len(lines) + k][1] = Held
          <6>1. lines'[Len(lines) + k] = <<Held, pos + k>>
            BY <1>6
          <6> QED BY <6>1
        <5> QED BY <1>3, <5>1
      <4> QED BY <2>4, <4>1, <4>2
    <3>2. pos' >= Start(Held) /\ pos' <= Length
      BY <1>2, <1>3, <1>4, <2>1, <2>2 DEF Reading, ReadTo
    <3>3. CASE n = 0
      <4>1. pos' = pos /\ Len(lines)' = Len(lines) /\ \A i \in 1 .. Len(lines)' : lines'[i] = lines[i]
        BY <1>3, <1>4, <1>6, <2>3, <3>3
      <4>2. pos > Start(Held) => Len(lines)' > 0 /\ lines'[Len(lines)'] = <<Held, pos>>
        BY <2>1, <2>3, <4>1 DEF Reading, ReadTo
      <4>3. pos = Start(Held) => \A i \in 1 .. Len(lines)' : lines'[i][1] # Held
        BY <2>1, <4>1 DEF Reading, ReadTo
      <4>4. ReadTo(Held)'
        BY <2>2, <3>1, <3>2, <4>1, <4>2, <4>3 DEF ReadTo
      <4> QED BY <1>2, <2>1, <2>2, <3>2, <4>4 DEF Reading
    <3>4. CASE n # 0
      <4>1. Len(lines)' > 0 /\ lines'[Len(lines)'] = <<Held, pos'>>
        BY <1>4, <1>6, <2>3, <3>4
      <4>2. pos' > Start(Held)
        BY <1>3, <1>4, <2>1, <2>2, <3>4 DEF Reading, ReadTo
      <4>3. ReadTo(Held)'
        BY <2>2, <3>1, <3>2, <4>1, <4>2 DEF ReadTo
      <4> QED BY <1>2, <2>1, <2>2, <3>2, <4>3 DEF Reading
    <3> QED BY <3>3, <3>4
  <2>7. head # 0 => pos' > 0
    BY <1>2, <1>3, <2>1 DEF Reading
  <2>8. Opened'
    BY <1>2, <2>1, <2>2, <2>6, <2>7 DEF Opened
  <2> QED BY <1>2, <1>3, <1>9, <2>1, <2>5, <2>8 DEF Tailing
<1> QED BY <1>2, <1>3, <1>8, <1>9 DEF GInv, Holds

LEMMA KeepsHeadInv == ASSUME GInv, KeepsHead PROVE GInv'
<1>1. FileOK /\ WhereOK /\ BeganOK /\ LinesOK
  BY LogTailTypes DEF GInv
<1>2. /\ phase = "head" /\ phase' = "look"
      /\ head' = (IF head = 0 /\ pos > 0 THEN HeadOf(handle) ELSE head)
      /\ UNCHANGED <<there, file, content, before, skipped, handle, pos, opened, lines, broken>>
  BY DEF KeepsHead
<1>3. /\ handle \in Session /\ handle # 0 /\ Held \in Session /\ Held \in Nat \ {0}
      /\ Length \in Nat /\ pos \in Nat
  BY <1>1, <1>2, SessionIs, LogTailAssumption DEF WhereOK, Held, Length, GInv, Holds, Session
<1>4. HeadOf(handle) = IF Length > 0 THEN Held ELSE 0
  BY DEF HeadOf, Held, Length
<1>5. head' \in Session \cup {0}
  BY <1>1, <1>2, <1>3, <1>4 DEF WhereOK
<1>6. WhereOK'
  BY <1>1, <1>2, <1>5 DEF WhereOK
<1>7. LogTailTypeOK'
  BY <1>2, <1>6, LogTailFrames, LogTailTypesNext DEF GInv
<1>8. ASSUME Tailing PROVE Tailing'
  <2>1. /\ Reading /\ opened /\ handle <= file /\ head <= Held /\ (head # 0 => pos > 0)
        /\ handle < file => Held < Latest
    BY <1>2, <1>3, <1>8 DEF Tailing, Opened
  <2>2. Held' = Held /\ Length' = Length /\ Latest' = Latest
    BY <1>2 DEF Held, Length, Latest
  <2>3. /\ head' \in {0, Held} /\ (head' # 0 => Length > 0) /\ (head' # 0 <=> pos > 0)
    BY <1>2, <1>3, <1>4, <2>1 DEF Reading
  <2>4. Reading'
    BY <1>2, <2>1, <2>2, <2>3 DEF Reading, ReadTo, Start
  <2>5. head' <= Held
    BY <1>3, <2>3
  <2>6. Opened'
    BY <1>2, <2>1, <2>2, <2>3, <2>4, <2>5 DEF Opened
  <2>7. InOrder'
    BY <1>2, <1>8, InOrderFrame DEF Tailing
  <2> QED BY <1>2, <1>3, <1>8, <2>1, <2>6, <2>7 DEF Tailing
<1>9. Holds'
  BY <1>2 DEF Holds
<1> QED BY <1>2, <1>7, <1>8, <1>9 DEF GInv

\* A file that is let go of will be read from its top, whichever it is.
LEMMA ClosesInv ==
  ASSUME GInv, phase = "look", Closes, ~there \/ handle \notin {0, file},
         UNCHANGED <<there, file, content, phase, before, skipped, opened, lines, broken>>
  PROVE  GInv'
<1>1. FileOK /\ WhereOK /\ BeganOK /\ LinesOK
  BY LogTailTypes DEF GInv
<1>2. handle' = 0 /\ pos' = 0 /\ head' = 0
  BY DEF Closes
<1>3. WhereOK'
  BY <1>1, <1>2, LogTailAssumption DEF WhereOK
<1>4. LogTailTypeOK'
  BY <1>3, LogTailFrames, LogTailTypesNext DEF GInv
<1>5. /\ Latest \in Nat \ {0} /\ Latest' = Latest /\ file \in Nat
      /\ \A i \in 1 .. Len(lines) : lines[i][1] \in Nat
  BY <1>1, SessionIs, LinesAre DEF FileOK, Latest
<1>6. ASSUME Tailing PROVE Tailing'
  <2>1. CASE handle = 0
    <3>1. Unread'
      BY <1>2, <1>5, <1>6, <2>1 DEF Tailing, Unread
    <3>2. InOrder'
      BY <1>6, InOrderFrame DEF Tailing
    <3> QED BY <1>2, <1>5, <1>6, <3>1, <3>2 DEF Tailing
  <2>2. CASE handle # 0
    <3>1. handle \in Session /\ handle \in Nat /\ Held \in Nat \ {0}
      BY <1>1, <2>2, SessionIs DEF WhereOK, Held
    <3>2. Opened /\ opened /\ handle <= file /\ (handle < file => Held < Latest)
      BY <1>6, <2>2 DEF Tailing, Opened
    <3>3. handle = file => Held = Latest
      BY DEF Held, Latest
    <3>4. \A i \in 1 .. Len(lines) : lines[i][1] <= Held
      BY <1>5, <3>1, <3>2 DEF Opened, Reading, Replaced, ReadTo
    <3>5. there => Held < Latest
      BY <1>5, <2>2, <3>1, <3>2
    <3>6. Unread'
      BY <1>2, <1>5, <3>1, <3>2, <3>3, <3>4, <3>5 DEF Unread
    <3>7. InOrder'
      BY <1>6, InOrderFrame DEF Tailing
    <3> QED BY <1>2, <1>5, <1>6, <3>2, <3>6, <3>7 DEF Tailing
  <2> QED BY <2>1, <2>2
<1>7. Holds'
  BY DEF Holds
<1> QED BY <1>4, <1>6, <1>7 DEF GInv

\* What was there when the agent began is of the first session; everything else
\* is read from its top.
LEMMA OpensInv ==
  ASSUME GInv, phase = "look", there, handle = 0, Opens,
         UNCHANGED <<there, file, content, before, lines, broken>>
  PROVE  GInv'
<1>1. FileOK /\ WhereOK /\ BeganOK /\ LinesOK
  BY LogTailTypes DEF GInv
<1> DEFINE old == ~opened /\ file = before
           skip == IF old THEN content[file].length ELSE 0
<1>2. /\ handle' = file /\ pos' = skip /\ head' = HeadOf(file) /\ opened' = TRUE
      /\ skipped' = (IF opened THEN skipped ELSE skip)
      /\ phase' = "read"
  BY DEF Opens
<1>3. /\ file \in Session /\ file \in Nat \ {0} /\ Latest \in Session /\ Latest \in Nat \ {0}
      /\ content[file].length \in 0 .. MaxLines /\ MaxLines \in Nat
      /\ \A i \in 1 .. Len(lines) : lines[i][1] \in Nat
  BY <1>1, SessionIs, LinesAre, LogTailAssumption DEF FileOK, Latest
<1>4. skip \in 0 .. MaxLines /\ HeadOf(file) = IF content[file].length > 0 THEN Latest ELSE 0
  BY <1>3 DEF HeadOf, Latest
<1>5. WhereOK' /\ BeganOK'
  <2>1. skipped' \in 0 .. MaxLines /\ pos' \in 0 .. MaxLines
    BY <1>1, <1>2, <1>4 DEF BeganOK
  <2>2. head' \in Session \cup {0}
    BY <1>2, <1>3, <1>4
  <2> QED BY <1>1, <1>2, <1>3, <2>1, <2>2 DEF WhereOK, BeganOK
<1>6. LogTailTypeOK'
  BY <1>5, LogTailFrames, LogTailTypesNext DEF GInv
<1>7. Held' = Latest /\ Latest' = Latest /\ Length' = content[file].length
  BY <1>2 DEF Held, Latest, Length
<1>8. ASSUME Tailing PROVE Tailing'
  <2>1. Unread /\ InOrder /\ \A i \in 1 .. Len(lines) : lines[i][1] < Latest
    BY <1>8 DEF Tailing, Unread
  <2>2. IF Latest = 1 THEN old /\ pos' = skip /\ skipped' = skip ELSE pos' = 0
    <3>1. Latest = 1 => old
      BY <2>1 DEF Unread
    <3>2. Latest # 1 => ~old
      BY <1>8 DEF Tailing
    <3> QED BY <1>2, <3>1, <3>2
  <2>3. Reading'
    <3>1. /\ pos' = (IF Latest = 1 THEN skipped' ELSE 0) /\ pos' <= content[file].length
          /\ pos' \in Nat
      BY <1>3, <1>4, <2>2
    <3>2. \A i \in 1 .. Len(lines) : lines[i][1] <= Latest /\ lines[i][1] # Latest
      BY <1>3, <2>1
    <3>3. ReadTo(Held)'
      <4>1. Start(Held)' = pos'
        BY <1>7, <3>1 DEF Start
      <4> QED BY <1>7, <3>1, <3>2, <4>1 DEF ReadTo
    <3>4. head' \in {0, Held'} /\ (head' # 0 => Length' > 0)
      BY <1>2, <1>3, <1>4, <1>7
    <3> QED BY <1>7, <3>1, <3>3, <3>4, Zenon DEF Reading
  <2>4. Opened'
    BY <1>2, <1>3, <1>4, <1>7, <2>3 DEF Opened
  <2>5. InOrder'
    <3>1. CASE opened
      BY <1>2, <2>1, <3>1, InOrderFrame
    <3>2. CASE ~opened
      <4>1. lines = <<>> /\ Len(<<>>) = 0
        BY <1>8, <3>2, EmptySeq DEF Tailing
      <4> QED BY <4>1 DEF InOrder
    <3> QED BY <3>1, <3>2
  <2> QED BY <1>2, <1>3, <1>8, <2>4, <2>5 DEF Tailing
<1>9. Holds'
  BY <1>2, <1>3 DEF Holds
<1> QED BY <1>6, <1>8, <1>9 DEF GInv

\* The remembered bytes tell a later session from the one that was read.
LEMMA ResumesInv ==
  ASSUME GInv, phase = "look", there, handle = file, phase' = "read",
         IF IsNewSession THEN pos' = 0 /\ head' = HeadOf(file) ELSE UNCHANGED <<pos, head>>,
         UNCHANGED <<handle, opened, skipped, there, file, content, before, lines, broken>>
  PROVE  GInv'
<1>1. FileOK /\ WhereOK /\ BeganOK /\ LinesOK
  BY LogTailTypes DEF GInv
<1>2. /\ file \in Session /\ file \in Nat \ {0} /\ handle # 0 /\ Held \in Session
      /\ Held \in Nat \ {0} /\ Held = Latest
      /\ Length \in 0 .. MaxLines /\ Length \in Nat /\ MaxLines \in Nat
      /\ pos \in Nat /\ head \in Nat /\ pos \in 0 .. MaxLines
      /\ \A i \in 1 .. Len(lines) : lines[i][1] \in Nat
  BY <1>1, SessionIs, LinesAre, LogTailAssumption
     DEF FileOK, Latest, Held, Length, WhereOK, Session
<1>3. HeadOf(file) = (IF Length > 0 THEN Held ELSE 0) /\ HeadOf(handle) = HeadOf(file)
  BY DEF HeadOf, Held, Length
<1>4. WhereOK'
  <2>1. pos' \in 0 .. MaxLines /\ head' \in Session \cup {0}
    BY <1>1, <1>2, <1>3 DEF WhereOK
  <2> QED BY <1>1, <2>1 DEF WhereOK
<1>5. LogTailTypeOK'
  BY <1>4, LogTailFrames, LogTailTypesNext DEF GInv
<1>6. Held' = Held /\ Length' = Length /\ Latest' = Latest
  BY DEF Held, Length, Latest
<1>7. ASSUME Tailing PROVE Tailing'
  <2>1. Opened /\ opened /\ head <= Held /\ (Reading \/ Replaced)
    BY <1>2, <1>7 DEF Tailing, Opened
  <2>2. Reading' /\ head' <= Held
    <3>1. CASE Reading
      <4>1. ~IsNewSession
        BY <1>2, <1>3, <3>1 DEF IsNewSession, Reading
      <4> QED BY <1>6, <2>1, <3>1, <4>1 DEF Reading, ReadTo, Start
    <3>2. CASE Replaced
      <4>1. /\ head # 0 /\ head # Held /\ Held > 1
            /\ \A i \in 1 .. Len(lines) : lines[i][1] < Held
        BY <1>2, <2>1, <3>2 DEF Replaced
      <4>2. pos' = 0 /\ head' = HeadOf(file)
        BY <1>2, <1>3, <4>1 DEF IsNewSession
      <4>3. ReadTo(Held)'
        BY <1>2, <1>6, <4>1, <4>2 DEF ReadTo, Start
      <4>4. head' \in {0, Held} /\ (head' # 0 => Length > 0) /\ pos' <= Length /\ head' <= Held
        BY <1>2, <1>3, <4>2
      <4> QED BY <1>6, <4>3, <4>4, Zenon DEF Reading
    <3> QED BY <2>1, <3>1, <3>2
  <2>3. Opened'
    BY <1>2, <1>6, <2>1, <2>2 DEF Opened
  <2>4. InOrder'
    BY <1>7, InOrderFrame DEF Tailing
  <2> QED BY <1>2, <1>6, <1>7, <2>1, <2>3, <2>4 DEF Tailing
<1>8. Holds'
  BY <1>2 DEF Holds
<1> QED BY <1>5, <1>7, <1>8 DEF GInv

LEMMA LogTailStutterInv == ASSUME GInv, UNCHANGED logVars PROVE GInv'
<1> USE DEF logVars, tail
<1>1. LogTailTypeOK' /\ Holds'
  BY LogTailFrames, LogTailTypesNext DEF GInv, Holds
<1>2. ASSUME Tailing PROVE Tailing'
  <2>1. InOrder'
    BY <1>2, InOrderFrame DEF Tailing
  <2>2. (Unread => Unread') /\ (Opened => Opened')
    BY DEF Unread, Opened, Reading, Replaced, ReadTo, Start, Held, Length, Latest
  <2> QED BY <1>2, <2>1, <2>2 DEF Tailing, Latest
<1> QED BY <1>1, <1>2 DEF GInv

LEMMA LooksInv == ASSUME GInv, Looks PROVE GInv'
<1>1. phase = "look" /\ UNCHANGED <<there, file, content, before, lines, broken>>
  BY DEF Looks
<1>2. CASE ~there /\ Closes /\ UNCHANGED <<phase, opened, skipped>>
  BY <1>1, <1>2, ClosesInv
<1>3. CASE there /\ handle = 0 /\ Opens
  BY <1>1, <1>3, OpensInv
<1>4. CASE there /\ handle = 0 /\ UNCHANGED <<phase, handle, pos, head, opened, skipped>>
  BY <1>1, <1>4, LogTailStutterInv DEF logVars, tail
<1>5. CASE there /\ handle \notin {0, file} /\ Closes /\ UNCHANGED <<phase, opened, skipped>>
  BY <1>1, <1>5, ClosesInv
<1>6. CASE /\ there /\ handle = file /\ phase' = "read"
           /\ IF IsNewSession THEN pos' = 0 /\ head' = HeadOf(file) ELSE UNCHANGED <<pos, head>>
           /\ UNCHANGED <<handle, opened, skipped>>
  BY <1>1, <1>6, ResumesInv
<1> QED BY <1>2, <1>3, <1>4, <1>5, <1>6, Zenon DEF Looks

-----------------------------------------------------------------------------

LEMMA LogTailInitInv == LogTailInit => GInv
<1> SUFFICES ASSUME LogTailInit PROVE GInv
  OBVIOUS
<1>1. lines = <<>> /\ <<>> \in Seq(Line) /\ Len(<<>>) = 0
  BY EmptySeq DEF LogTailInit
<1>2. 1 \in Session
  BY LogTailAssumption DEF Session
<1>3. PICK n \in 0 .. MaxLines : content = [f \in Session |-> [session |-> 1, length |-> n]]
  BY DEF LogTailInit
<1>4. [session |-> 1, length |-> n] \in Content
  BY <1>2 DEF Content
<1>5. FileOK /\ WhereOK /\ BeganOK /\ LinesOK
  <2>1. FileOK
    BY <1>2, <1>3, <1>4 DEF LogTailInit, FileOK
  <2>2. WhereOK /\ LinesOK
    BY <1>1, LogTailAssumption DEF LogTailInit, WhereOK, LinesOK
  <2>3. BeganOK
    <3>1. before \in {0, 1} /\ skipped = 0 /\ opened = FALSE /\ broken = FALSE
      BY DEF LogTailInit
    <3>2. before \in Session \cup {0} /\ skipped \in 0 .. MaxLines
      BY <1>2, <3>1, LogTailAssumption
    <3>3. opened \in BOOLEAN /\ broken \in BOOLEAN
      BY <3>1, Zenon
    <3> QED BY <3>2, <3>3 DEF BeganOK
  <2> QED BY <2>1, <2>2, <2>3
<1>6. Latest = 1
  BY <1>2, <1>3 DEF LogTailInit, Latest
<1>7. Tailing
  <2>1. before \in {0, 1} /\ (there => file = before)
    BY DEF LogTailInit
  <2> QED BY <1>1, <1>6, <2>1 DEF LogTailInit, Tailing, InOrder, Unread
<1> QED BY <1>5, <1>7, LogTailTypes DEF GInv, Holds, LogTailInit

LEMMA LogTailNextInv == GInv /\ [LogTailNext]_logVars => GInv'
  BY WritesInv, BeginsInv, GoesInv, LooksInv, ReadsInv, KeepsHeadInv, LogTailStutterInv, Zenon
     DEF LogTailNext

\* The remembered beginning always tells the session that is being read from any
\* later one in its file (Opened): the argument of Follow's doc comment.
THEOREM LogTailInvariance == LogTailSpec => []GInv
  BY LogTailInitInv, LogTailNextInv, PTL DEF LogTailSpec

\* What the agent is given is each session's lines in order, none twice and none
\* left out, from the top of every session that begins while it runs
\* (internal/logtail/tail.go), for any number of sessions and of lines.
THEOREM ReadFromTheTop == LogTailSpec => []TailIsTrue
<1>1. GInv => TailIsTrue
  <2> SUFFICES ASSUME GInv, ~broken
               PROVE  /\ \A i \in 1 .. Len(lines) :
                           IF i = 1 \/ lines[i - 1][1] # lines[i][1]
                           THEN /\ \A j \in 1 .. i - 1 : lines[j][1] < lines[i][1]
                                /\ lines[i][2] = (IF lines[i][1] = 1 THEN skipped + 1 ELSE 1)
                           ELSE lines[i][2] = lines[i - 1][2] + 1
                      /\ (phase = "head" /\ handle = file
                          /\ pos > (IF content[file].session = 1 THEN skipped ELSE 0)) =>
                           lines # <<>> /\ lines[Len(lines)] = <<content[file].session, pos>>
    BY Zenon DEF TailIsTrue
  <2>1. Tailing /\ InOrder
    BY DEF GInv, Tailing
  <2>2. \A i \in 1 .. Len(lines) : Start(lines[i][1]) + 1 = (IF lines[i][1] = 1 THEN skipped + 1 ELSE 1)
    BY LogTailTypes DEF Start, GInv
  <2>3. ASSUME phase = "head", handle = file,
               pos > (IF content[file].session = 1 THEN skipped ELSE 0)
        PROVE  lines # <<>> /\ lines[Len(lines)] = <<content[file].session, pos>>
    <3>1. handle # 0
      BY <2>3 DEF GInv, Holds
    <3>2. ReadTo(Held)
      BY <2>1, <2>3, <3>1 DEF Tailing, Opened, Reading
    <3>3. Len(lines) > 0 /\ lines[Len(lines)] = <<content[file].session, pos>>
      BY <2>3, <3>2 DEF ReadTo, Held, Start
    <3> QED BY <3>3, EmptySeq
  <2> QED BY <2>1, <2>2, <2>3 DEF InOrder
<1> QED BY <1>1, LogTailInvariance, PTL

-----------------------------------------------------------------------------
(* LaunchWait.                                                             *)

Waiting == watching = "waiting"
Stalling == Waiting /\ manifest = "updating"

\* What has been waited and what is left of the deadline make up a grace.
GraceIsKept == Waiting => left + idle >= Grace

\* Nothing but an update moves the deadline.
NoPatience == (Waiting /\ manifest # "updating") => calm + left <= Grace

\* An update is watched from its second minute on, and until the stall is
\* complete every minute moves the deadline.
Patience ==
  /\ (Stalling /\ ~stall) => calm = 0
  /\ (Stalling /\ still < StallReport) => (left = Grace /\ calm <= still + 1)

\* Once it is complete a nudge is spent every minute, and then nothing moves
\* the deadline any more.
PatienceEnds ==
  (Stalling /\ still = StallReport) =>
    /\ nudges < MaxNudges => calm <= StallReport + nudges
    /\ nudges = MaxNudges => calm + left <= StallReport + Grace + MaxNudges

\* The inductive invariant.  How long it has waited does not say how long it
\* will go on: that takes the deadline, the stall clock and the nudges left.
LIInv ==
  /\ LaunchTypeOK
  /\ (watching \in {"gave up", "blames Steam"}) => idle = Grace
  /\ GraceIsKept /\ NoPatience /\ Patience /\ PatienceEnds

\* Abbreviations, meant wherever they stand.
USE DEF Waiting, Stalling

LEMMA InvJust == LIInv => WaitIsJust
<1> SUFFICES ASSUME LIInv, Waiting PROVE calm <= StallReport + Grace + MaxNudges
  BY DEF LIInv, WaitIsJust, Waiting
<1> USE LaunchWaitAssumption DEF LIInv, LaunchTypeOK, Manifest, Enough
<1>1. CASE manifest # "updating"
  BY <1>1 DEF NoPatience
<1>2. CASE manifest = "updating" /\ still < StallReport
  BY <1>2 DEF Patience, Stalling
<1>3. CASE manifest = "updating" /\ still = StallReport
  <2>1. nudges < MaxNudges \/ nudges = MaxNudges
    OBVIOUS
  <2> QED BY <1>3, <2>1 DEF PatienceEnds, Stalling
<1> QED BY <1>1, <1>2, <1>3

\* What is not waiting has no promise to keep.
LEMMA NotWaiting ==
  ASSUME LaunchTypeOK, watching # "waiting",
         watching \in {"gave up", "blames Steam"} => idle = Grace
  PROVE  LIInv
  BY DEF LIInv, GraceIsKept, NoPatience, Patience, PatienceEnds

LEMMA LaunchInitInv == LaunchInit => LIInv
<1> SUFFICES ASSUME LaunchInit PROVE LIInv
  OBVIOUS
<1>1. LaunchFlags
  BY Zenon DEF LaunchInit, LaunchFlags
<1>2. /\ manifest \in Manifest /\ watching = "over" /\ left = 0 /\ nudges = 0
      /\ still = 0 /\ idle = 0 /\ calm = 0
  BY Zenon DEF LaunchInit
<1>3. LaunchTypeOK
  BY <1>1, <1>2, LaunchWaitAssumption DEF LaunchTypeOK, Enough
<1> QED BY <1>2, <1>3, NotWaiting

\* A wait starts with a whole grace and all nudges, whatever the stall clock says.
LEMMA LaunchesInv == ASSUME LIInv, Launches PROVE LIInv'
<1>1. LaunchFlags'
  BY Zenon DEF Launches, LIInv, LaunchTypeOK, Manifest, LaunchFlags
<1>2. /\ manifest' = manifest /\ watching' = "waiting" /\ left' = Grace /\ nudges' = 0
      /\ still' = still /\ idle' = 0 /\ calm' = 0
  BY Zenon DEF Launches
<1>3. LaunchTypeOK'
  <2>1. manifest \in Manifest /\ still \in 0 .. StallReport
    BY DEF LIInv, LaunchTypeOK
  <2>2. Grace \in 0 .. Grace /\ 0 \in 0 .. Grace /\ 0 \in 0 .. MaxNudges /\ 0 \in 0 .. Enough
    BY LaunchWaitAssumption DEF Enough
  <2>3. Enough' = Enough /\ Manifest' = Manifest
    BY DEF Enough, Manifest
  <2> QED BY Zenon, <1>1, <1>2, <2>1, <2>2, <2>3 DEF LaunchTypeOK
<1>4. GraceIsKept' /\ NoPatience' /\ PatienceEnds'
  BY <1>2, LaunchWaitAssumption DEF GraceIsKept, NoPatience, PatienceEnds
<1>5. Patience'
  BY <1>2, <1>3, LaunchWaitAssumption DEF Patience, LaunchTypeOK
<1> QED BY <1>2, <1>3, <1>4, <1>5 DEF LIInv

LEMMA AppearsInv == ASSUME LIInv, Appears PROVE LIInv'
<1>1. LaunchFlags'
  BY Zenon DEF Appears, LIInv, LaunchTypeOK, Manifest, LaunchFlags
<1>2. /\ manifest' = manifest /\ watching' = "playing" /\ left' = left /\ nudges' = nudges
      /\ still' = still /\ idle' = idle /\ calm' = calm
  BY Zenon DEF Appears, launchPast
<1>3. LaunchTypeOK'
  BY <1>1, <1>2 DEF LIInv, LaunchTypeOK, Manifest, Enough
<1> QED BY <1>2, <1>3 DEF LIInv, GraceIsKept, NoPatience, Patience, PatienceEnds

LEMMA ElsewhereInv == ASSUME LIInv, NEW m \in Manifest, Elsewhere(m) PROVE LIInv'
<1>1. LaunchFlags'
  BY Zenon DEF Elsewhere, Minute, LIInv, LaunchTypeOK, Manifest, LaunchFlags
<1>2. /\ watching # "waiting" /\ manifest' = m /\ left' = left /\ nudges' = nudges
      /\ still' = IF stall THEN AtMost(still + 1, StallReport) ELSE still
      /\ watching' \in (IF watching = "playing" THEN {"playing", "over"} ELSE {watching})
      /\ idle' = idle /\ calm' = calm
  BY Zenon DEF Elsewhere, Minute, launchPast
<1>3. LaunchTypeOK'
  <2>1. LaunchTypeOK
    BY DEF LIInv
  <2>2. still' \in 0 .. StallReport
    <3>1. still \in 0 .. StallReport
      BY <2>1 DEF LaunchTypeOK
    <3>2. still' = still \/ still' = AtMost(still + 1, StallReport)
      BY <1>2
    <3> QED BY <3>1, <3>2, LaunchWaitAssumption DEF AtMost
  <2> QED BY <1>1, <1>2, <2>1, <2>2 DEF LaunchTypeOK, Manifest, Enough
<1> QED BY <1>2, <1>3 DEF LIInv, GraceIsKept, NoPatience, Patience, PatienceEnds

LEMMA LaunchStutter == ASSUME LIInv, UNCHANGED launchVars PROVE LIInv'
<1>1. LaunchFlags'
  BY Zenon DEF launchVars, wait, LIInv, LaunchTypeOK, Manifest, LaunchFlags
<1>2. /\ manifest' = manifest /\ watching' = watching /\ left' = left /\ nudges' = nudges
      /\ still' = still /\ idle' = idle /\ calm' = calm /\ stall' = stall
  BY Zenon DEF launchVars, wait, launchPast
<1>3. LaunchTypeOK'
  BY <1>1, <1>2 DEF LIInv, LaunchTypeOK, Manifest, Enough
<1> QED BY <1>2, <1>3 DEF LIInv, GraceIsKept, NoPatience, Patience, PatienceEnds

-----------------------------------------------------------------------------
(* A look.  What it makes of its readings is named once.                   *)

Comes == steam' /\ ~steamSeen
Nudge(m, moved) == ShouldNudgeLaunch(m, StalledFor(m, moved))
Moved(m, moved, opens) ==
  IF Comes \/ (Nudge(m, moved) /\ opens) THEN Grace ELSE left - (IF left > 0 THEN 1 ELSE 0)
Verdict(m, moved, opens) ==
  JudgeLaunchWait(m, StalledFor(m, moved), Moved(m, moved, opens) = 0)
News(m, moved) == (moved /\ m = "updating") \/ Comes

\* What a look leaves behind.
Looked(m, moved, opens) ==
  /\ watching = "waiting" /\ manifest' = m /\ still' = StalledFor(m, moved)
  /\ stall' <=> Updating(m)
  /\ nudges' = IF Nudge(m, moved) THEN nudges + 1 ELSE nudges
  /\ left' = IF Verdict(m, moved, opens) = "extend" THEN Grace ELSE Moved(m, moved, opens)
  /\ watching' = IF Verdict(m, moved, opens) = "extend" THEN "waiting"
                 ELSE Verdict(m, moved, opens)
  /\ idle' = IF News(m, moved) THEN 0 ELSE AtMost(idle + 1, Grace)
  /\ calm' = IF News(m, moved) \/ m # manifest THEN 0 ELSE AtMost(calm + 1, Enough)

LEMMA Look ==
  ASSUME LIInv, NEW m \in Manifest, NEW moved, NEW opens,
         LooksForRust(m, moved, opens)
  PROVE  Looked(m, moved, opens)
  BY Zenon DEF LooksForRust, Looked, Minute, Counts, Nudge, Moved, Verdict, News, Comes

LEMMA LookType ==
  ASSUME LIInv, NEW m \in Manifest, NEW moved, NEW opens,
         LooksForRust(m, moved, opens)
  PROVE  /\ LaunchTypeOK'
         /\ StalledFor(m, moved) \in 0 .. StallReport
         /\ Moved(m, moved, opens) \in 0 .. Grace
<1> USE LaunchWaitAssumption
<1>l. Looked(m, moved, opens)
  BY Look
<1>0. /\ left \in 0 .. Grace /\ nudges \in 0 .. MaxNudges /\ still \in 0 .. StallReport
      /\ idle \in 0 .. Grace /\ calm \in 0 .. Enough
  BY DEF LIInv, LaunchTypeOK
<1>1. StalledFor(m, moved) \in 0 .. StallReport
  BY <1>0 DEF StalledFor, AtMost
<1>2. Moved(m, moved, opens) \in 0 .. Grace
  BY <1>0 DEF Moved
<1>3. nudges' \in 0 .. MaxNudges
  BY <1>0, <1>l DEF Looked, Nudge, ShouldNudgeLaunch
<1>4. watching' \in {"waiting", "playing", "over", "gave up", "blames Steam"}
  BY <1>l DEF Looked, Verdict, JudgeLaunchWait
<1>5. idle' \in 0 .. Grace
  BY <1>0, <1>l DEF Looked, AtMost
<1>6. calm' \in 0 .. Enough
  BY <1>0, <1>l DEF Looked, AtMost, Enough
<1>7. left' \in 0 .. Grace
  BY <1>l, <1>2 DEF Looked
<1>8. LaunchFlags'
  <2>1. LaunchFlags
    BY DEF LIInv, LaunchTypeOK
  <2>2. steam' \in BOOLEAN /\ stall' = Updating(m) /\ steamSeen' = (steamSeen \/ steam')
    BY Zenon DEF LooksForRust, Minute
  <2>3. Updating(m) \in BOOLEAN
    BY DEF Updating
  <2>4. (steamSeen \/ steam') \in BOOLEAN
    OBVIOUS
  <2> QED BY Zenon, <2>2, <2>3, <2>4 DEF LaunchFlags
<1>9. manifest' \in Manifest /\ still' \in 0 .. StallReport
  BY <1>l, <1>1 DEF Looked
<1>10. Enough' = Enough /\ Manifest' = Manifest
  BY DEF Enough, Manifest
<1> QED
  BY Zenon, <1>1, <1>2, <1>3, <1>4, <1>5, <1>6, <1>7, <1>8, <1>9, <1>10 DEF LaunchTypeOK

\* Bytes that come keep the wait going, and so does Steam coming back.
LEMMA LookKeepsGrace ==
  ASSUME LIInv, NEW m \in Manifest, NEW moved, NEW opens,
         LooksForRust(m, moved, opens)
  PROVE  /\ GraceIsKept'
         /\ (watching' \in {"gave up", "blames Steam"}) => idle' = Grace
<1> USE LaunchWaitAssumption
<1>l. Looked(m, moved, opens)
  BY Look
<1>t. LaunchTypeOK' /\ StalledFor(m, moved) \in 0 .. StallReport /\ Moved(m, moved, opens) \in 0 .. Grace
  BY LookType
<1> USE <1>l DEF Looked
<1>0. left \in 0 .. Grace /\ idle \in 0 .. Grace /\ left + idle >= Grace
  BY DEF LIInv, LaunchTypeOK, Manifest, GraceIsKept, Waiting
<1>1. CASE Comes
  <2>1. Moved(m, moved, opens) = Grace
    BY <1>1 DEF Moved
  <2>2. Verdict(m, moved, opens) \in {"extend", "waiting"} /\ left' = Grace
    BY <2>1 DEF Verdict, JudgeLaunchWait
  <2>3. watching' = "waiting" /\ idle' = 0
    BY Zenon, <1>1, <2>2 DEF News, Looked
  <2>4. left' + idle' >= Grace
    BY <2>2, <2>3
  <2> QED BY Zenon, <2>3, <2>4 DEF GraceIsKept
<1>2. CASE moved /\ m = "updating"
  <2>1. StalledFor(m, moved) = 0
    BY <1>2 DEF StalledFor
  <2>2. Verdict(m, moved, opens) = "extend"
    <3>1. ~(0 >= StallReport)
      OBVIOUS
    <3>2. Updating(m) /\ ~NeedsPlayer(m, StalledFor(m, moved))
      BY <1>2, <2>1, <3>1 DEF Updating, NeedsPlayer
    <3> QED BY <3>2 DEF Verdict, JudgeLaunchWait
  <2>3. watching' = "waiting" /\ left' = Grace /\ idle' = 0
    BY Zenon, <1>2, <2>2 DEF News, Looked
  <2>4. left' + idle' >= Grace
    BY <2>3
  <2> QED BY Zenon, <2>3, <2>4 DEF GraceIsKept
<1>3. CASE ~News(m, moved)
  <2>1. idle' = AtMost(idle + 1, Grace)
    BY <1>3
  <2>2. left' = Grace \/ left' = left - (IF left > 0 THEN 1 ELSE 0)
    BY DEF Moved
  <2>3. GraceIsKept'
    BY <2>1, <2>2, <1>0, <1>t DEF GraceIsKept, AtMost, Waiting, Verdict, JudgeLaunchWait
  <2>4. ASSUME watching' \in {"gave up", "blames Steam"} PROVE idle' = Grace
    <3>1. Moved(m, moved, opens) = 0
      BY <2>4 DEF Verdict, JudgeLaunchWait
    <3>2. left <= 1
      BY <3>1, <1>0 DEF Moved
    <3> QED BY <3>2, <2>1, <1>0 DEF AtMost
  <2> QED BY <2>3, <2>4
<1> QED BY <1>1, <1>2, <1>3 DEF News

\* No nudge and no update in it: the deadline comes nearer.
LEMMA LookWithoutPatience ==
  ASSUME LIInv, NEW m \in Manifest, NEW moved, NEW opens,
         LooksForRust(m, moved, opens)
  PROVE  NoPatience'
<1> USE LaunchWaitAssumption
<1>l. Looked(m, moved, opens)
  BY Look
<1>t. LaunchTypeOK' /\ StalledFor(m, moved) \in 0 .. StallReport /\ Moved(m, moved, opens) \in 0 .. Grace
  BY LookType
<1> USE <1>l DEF Looked
<1> SUFFICES ASSUME Waiting', m # "updating" PROVE calm' + left' <= Grace
  BY DEF NoPatience
<1>1. Verdict(m, moved, opens) = "waiting" /\ Moved(m, moved, opens) # 0
  BY DEF Waiting, Verdict, JudgeLaunchWait, Updating, NeedsPlayer, Manifest
<1>2. left' = Moved(m, moved, opens) /\ left' \in 0 .. Grace
  BY <1>1, <1>t DEF LaunchTypeOK
<1>3. CASE News(m, moved) \/ m # manifest
  BY <1>2, <1>3
<1>4. CASE ~News(m, moved) /\ m = manifest
  <2>1. left' = left - 1 /\ left > 0 /\ left \in 0 .. Grace
    BY <1>1, <1>2, <1>4 DEF Moved, News, Nudge, ShouldNudgeLaunch, LIInv, LaunchTypeOK, Manifest
  <2>2. calm + left <= Grace /\ calm \in 0 .. Enough
    BY <1>4 DEF LIInv, NoPatience, Waiting, LaunchTypeOK
  <2>3. calm' <= calm + 1
    BY <1>4, <2>2 DEF AtMost, Enough
  <2>4. calm' \in 0 .. Enough
    BY <1>t DEF LaunchTypeOK
  <2> QED BY <2>1, <2>2, <2>3, <2>4 DEF Enough
<1> QED BY <1>3, <1>4

\* The stall clock counts the same minutes.
LEMMA LookWithPatience ==
  ASSUME LIInv, NEW m \in Manifest, NEW moved, NEW opens,
         LooksForRust(m, moved, opens)
  PROVE  Patience'
<1> USE LaunchWaitAssumption
<1>l. Looked(m, moved, opens)
  BY Look
<1>t. LaunchTypeOK' /\ StalledFor(m, moved) \in 0 .. StallReport /\ Moved(m, moved, opens) \in 0 .. Grace
  BY LookType
<1> USE <1>l DEF Looked
<1> SUFFICES ASSUME Stalling', still' < StallReport
             PROVE  left' = Grace /\ calm' <= still' + 1
  BY DEF Patience, Stalling, Updating
<1>0. m = "updating"
  BY DEF Stalling
<1>1. Verdict(m, moved, opens) = "extend"
  BY <1>0, <1>t DEF Verdict, JudgeLaunchWait, Updating, NeedsPlayer
<1>2. still' \in 0 .. StallReport
  BY <1>t DEF LaunchTypeOK
<1>3. CASE News(m, moved) \/ m # manifest
  BY <1>1, <1>2, <1>3
<1>4. CASE ~News(m, moved) /\ m = manifest
  <2>1. calm' <= calm + 1 /\ calm \in 0 .. Enough /\ calm' \in 0 .. Enough
    <3>1. calm \in 0 .. Enough /\ calm' \in 0 .. Enough
      BY <1>t DEF LIInv, LaunchTypeOK, Enough
    <3> QED BY <1>4, <3>1 DEF AtMost, Enough
  <2>2. ~moved
    BY <1>0, <1>4 DEF News
  <2>3. CASE ~stall
    <3>1. calm = 0
      BY <1>0, <1>4, <2>3 DEF LIInv, Patience, Stalling, Waiting
    <3> QED BY <1>1, <1>2, <2>1, <3>1 DEF Enough
  <2>4. CASE stall
    <3>1. still' = still + 1 /\ still < StallReport /\ still \in 0 .. StallReport
      BY <1>0, <2>2, <2>4 DEF StalledFor, Updating, AtMost, LIInv, LaunchTypeOK, Manifest
    <3>2. calm <= still + 1
      BY <1>0, <1>4, <3>1 DEF LIInv, Patience, Stalling, Waiting
    <3> QED BY <1>1, <2>1, <3>1, <3>2 DEF Enough
  <2> QED BY <2>3, <2>4
<1> QED BY <1>3, <1>4

\* A complete stall takes a nudge, or a minute off the deadline.
LEMMA LookEndsPatience ==
  ASSUME LIInv, NEW m \in Manifest, NEW moved, NEW opens,
         LooksForRust(m, moved, opens)
  PROVE  PatienceEnds'
<1> USE LaunchWaitAssumption
<1>l. Looked(m, moved, opens)
  BY Look
<1>t. LaunchTypeOK' /\ StalledFor(m, moved) \in 0 .. StallReport /\ Moved(m, moved, opens) \in 0 .. Grace
  BY LookType
<1> USE <1>l DEF Looked
<1> SUFFICES ASSUME Stalling', still' = StallReport
             PROVE  /\ nudges' < MaxNudges => calm' <= StallReport + nudges'
                    /\ nudges' = MaxNudges => calm' + left' <= StallReport + Grace + MaxNudges
  BY DEF PatienceEnds
<1>0. m = "updating"
  BY DEF Stalling
<1>1. Verdict(m, moved, opens) = "waiting" /\ Moved(m, moved, opens) # 0
      /\ left' = Moved(m, moved, opens)
  BY <1>0 DEF Stalling, Waiting, Verdict, JudgeLaunchWait, Updating, NeedsPlayer
<1>2. /\ nudges \in 0 .. MaxNudges /\ nudges' \in 0 .. MaxNudges
      /\ left \in 0 .. Grace /\ left' \in 0 .. Grace
      /\ calm \in 0 .. Enough /\ calm' \in 0 .. Enough
      /\ still \in 0 .. StallReport
  BY <1>t DEF LIInv, LaunchTypeOK, Manifest
<1>3. Nudge(m, moved) <=> nudges < MaxNudges
  BY <1>0, <1>2 DEF Nudge, ShouldNudgeLaunch
<1>4. CASE News(m, moved) \/ m # manifest
  BY <1>2, <1>4 DEF Enough
<1>5. CASE ~News(m, moved) /\ m = manifest
  <2>1. calm' <= calm + 1
    BY <1>2, <1>5 DEF AtMost, Enough
  <2>2. stall /\ ~moved
    BY <1>0, <1>2, <1>5 DEF StalledFor, News
  <2>3. still >= StallReport - 1
    BY <1>0, <1>2, <2>2 DEF StalledFor, Updating, AtMost
  <2>4. CASE still < StallReport
    <3>1. calm <= StallReport
      BY <1>0, <1>2, <1>5, <2>4 DEF LIInv, Patience, Stalling, Waiting
    <3>2. left = Grace
      BY <1>0, <1>5, <2>4 DEF LIInv, Patience, Stalling, Waiting
    <3>3. CASE nudges < MaxNudges
      BY <1>2, <1>3, <2>1, <3>1, <3>3 DEF Enough
    <3>4. CASE nudges = MaxNudges
      <4>1. left' = Grace - 1
        BY <1>1, <1>2, <1>3, <1>5, <3>2, <3>4 DEF Moved, News
      <4> QED BY <1>2, <1>3, <2>1, <3>1, <3>4, <4>1 DEF Enough
    <3> QED BY <1>2, <3>3, <3>4
  <2>5. CASE still = StallReport
    <3>3. CASE nudges < MaxNudges
      <4>1. calm <= StallReport + nudges
        BY <1>0, <1>5, <2>5, <3>3 DEF LIInv, PatienceEnds, Stalling, Waiting
      <4> QED BY <1>2, <1>3, <2>1, <3>3, <4>1 DEF Enough
    <3>4. CASE nudges = MaxNudges
      <4>1. calm + left <= StallReport + Grace + MaxNudges
        BY <1>0, <1>5, <2>5, <3>4 DEF LIInv, PatienceEnds, Stalling, Waiting
      <4>2. left' = left - 1
        BY <1>1, <1>2, <1>3, <1>5, <3>4 DEF Moved, News
      <4> QED BY <1>2, <1>3, <2>1, <3>4, <4>1, <4>2 DEF Enough
    <3> QED BY <1>2, <3>3, <3>4
  <2> QED BY <1>2, <2>4, <2>5
<1> QED BY <1>4, <1>5

LEMMA LookInv ==
  ASSUME LIInv, NEW m \in Manifest, NEW moved, NEW opens,
         LooksForRust(m, moved, opens)
  PROVE  LIInv'
  BY LookType, LookKeepsGrace, LookWithoutPatience, LookWithPatience, LookEndsPatience DEF LIInv

-----------------------------------------------------------------------------
LEMMA LaunchInv == LaunchSpec => []LIInv
<1>1. LIInv /\ [LaunchNext]_launchVars => LIInv'
  <2> SUFFICES ASSUME LIInv, [LaunchNext]_launchVars PROVE LIInv'
    OBVIOUS
  <2>1. CASE Launches
    BY <2>1, LaunchesInv
  <2>2. CASE Appears
    BY <2>2, AppearsInv
  <2>3. ASSUME NEW m \in Manifest, Elsewhere(m) PROVE LIInv'
    BY <2>3, ElsewhereInv
  <2>4. ASSUME NEW m \in Manifest, NEW moved, NEW opens,
               LooksForRust(m, moved, opens)
        PROVE  LIInv'
    BY <2>4, LookInv
  <2>5. CASE UNCHANGED launchVars
    BY <2>5, LaunchStutter
  <2> QED BY <2>1, <2>2, <2>3, <2>4, <2>5 DEF LaunchNext
<1> QED BY LaunchInitInv, <1>1, PTL DEF LaunchSpec

\* The wait's variables keep their types: no more nudges than there are, no more
\* left of the deadline than a grace (watchProcess).
THEOREM LaunchTypeCorrect == LaunchSpec => []LaunchTypeOK
<1>1. LIInv => LaunchTypeOK
  BY DEF LIInv
<1> QED BY LaunchInv, <1>1, PTL

\* No wait for Rust is given up within a grace of bytes or of Steam, and none
\* goes on for ever while nothing moves, whatever the numbers are and wherever
\* the stall clock stands (judgeLaunchWait, watchProcess).
THEOREM WaitsAreJust == LaunchSpec => []WaitIsJust
  BY LaunchInv, InvJust, PTL

-----------------------------------------------------------------------------
(* The composition.                                                        *)

\* Whichever part a behaviour of MCParts follows, each part only does what its
\* own specification says, so the theorems above hold of the composition too.
THEOREM PartsStayApart ==
  MCSpec => PairSpec /\ RefSpec /\ TimelineSpec /\ LogTailSpec /\ LaunchSpec
<1>1. MCInit => PairInit /\ RefInit /\ TimelineInit /\ LogTailInit /\ LaunchInit
  BY Zenon DEF MCInit, PairRests, RefRests, TailRests, LaunchRests
<1>2. [MCNext]_<<part, pairVars, refVars, timelineVars, logVars, launchVars>> =>
        /\ [PairNext]_pairVars /\ [RefNext]_refVars /\ [TimelineNext]_timelineVars
        /\ [LogTailNext]_logVars /\ [LaunchNext]_launchVars
  BY Zenon DEF MCNext
<1> QED BY <1>1, <1>2, PTL DEF MCSpec, PairSpec, RefSpec, TimelineSpec, LogTailSpec, LaunchSpec

=============================================================================
