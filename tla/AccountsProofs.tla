---------------------------- MODULE AccountsProofs ----------------------------
(***************************************************************************)
(* Theorems about Mail and Account, for every set of people, every daily   *)
(* limit and batch, and every set of requests.                             *)
(***************************************************************************)
EXTENDS MCAccounts, FiniteSetTheorems, TLAPS

(* Mail.                                                                   *)

AtLoop == {"rest", "due", "list", "send", "count", "finish"}

\* A loop has one email in hand, to somebody it has taken off its list, from
\* its claim to its being sent, and none at any other time.
LoopShape ==
  /\ loop \in [Loop -> [at : AtLoop, kind : Kind, list : SUBSET Person, hand : SUBSET Person]]
  /\ \A l \in Loop :
       /\ loop[l].kind \in Kinds[l]
       /\ loop[l].at = "send" => \E p \in Person \ loop[l].list : loop[l].hand = {p}
       /\ loop[l].at # "send" => loop[l].hand = {}

\* What has been sent was claimed, and what is in hand is claimed and unsent.
\* (The reminder to set up a PC is claimed without a look at the claim: there
\* the list stands in for it, which nobody else claims from.)
Once ==
  /\ \A e \in Person \X Kind : sent[e] <= 1 /\ (sent[e] = 1 => e \in booked)
  /\ \A l \in Loop : \A p \in loop[l].hand :
       <<p, loop[l].kind>> \in booked /\ sent[<<p, loop[l].kind>>] = 0
  /\ \A p \in loop.pc.list : <<p, "pc">> \notin booked

\* Who has heard is within the cap, who is about to hear is within it and has
\* not heard, and who is listed is not within it.
Capped ==
  /\ \A p \in Person : heard[p] <= 1 /\ (heard[p] = 1 => p \in recent)
  /\ \A p \in loop.marketing.hand : p \in recent /\ heard[p] = 0
  /\ \A p \in loop.marketing.list : p \notin recent

\* Who heard after they said stop is on no list of that loop any more.
Stopped ==
  \A p \in Person, l \in Loop :
    /\ late[<<p, l>>] <= 1
    /\ late[<<p, l>>] = 1 =>
         /\ p \in optedOut /\ l \in {"marketing", "winback"}
         /\ p \notin loop[l].list /\ p \notin loop[l].hand

\* What is left of a campaign's batch fits what is left of both limits, and
\* none has gone too late before the batch is read.
Batched ==
  /\ stray > 0 => campaign = "cancelled"
  /\ stray <= Batch
  /\ loop.marketing.at = "due" => stray = 0
  /\ loop.marketing.kind = "campaign" =>
       /\ stray + Cardinality(loop.marketing.list) + Cardinality(loop.marketing.hand) <= Batch
       /\ today + Cardinality(loop.marketing.list) <= DailyLimit

\* A count that found nobody left holds from then on, for who has not changed.
Reached ==
  /\ loop.marketing.at \in {"due", "count", "finish"} => campaign # "done"
  /\ campaign = "done" \/ loop.marketing.at = "finish" =>
       \A p \in Person \ (optedOut \cup leaving \cup paying \cup moved) :
         <<p, "campaign">> \in booked

\* The inductive invariant of Mail.
MInv == MailTypeOK /\ LoopShape /\ Once /\ Capped /\ Stopped /\ Batched /\ Reached

LEMMA LoopNames ==
  /\ Loop = {"marketing", "winback", "reminders", "pc"}
  /\ Kinds.marketing = {"joins_out", "first_join", "wipe_week", "campaign"}
  /\ Kinds.winback = {"first", "second"}
  /\ Kinds.reminders = {"renewal", "trial"}
  /\ Kinds.pc = {"pc"}
  BY DEF Loop, Kinds

LEMMA KindsOfLoops ==
  ASSUME NEW l \in Loop, NEW k \in Kinds[l]
  PROVE  k \in Kind /\ (\A m \in Loop : k \in Kinds[m] => m = l)
<1>1. k \in Kind
  BY DEF Kind
<1>2. ASSUME NEW m \in Loop, k \in Kinds[m] PROVE m = l
  BY <1>2, LoopNames
<1> QED BY <1>1, <1>2

\* The types but for the loops, whose shape says more.
PeopleOK ==
  /\ switched \in Switches
  /\ paying \subseteq Person /\ optedOut \subseteq Person /\ leaving \subseteq Person
  /\ pcs \subseteq Person /\ age \in [Person -> 0 .. 3]

BookOK ==
  /\ recent \subseteq Person /\ booked \subseteq Person \X Kind
  /\ campaign \in {"draft", "scheduled", "done", "cancelled"} /\ today \in 0 .. DailyLimit

PastOK ==
  /\ sent \in [Person \X Kind -> Nat] /\ heard \in [Person -> Nat]
  /\ late \in [Person \X Loop -> Nat] /\ stray \in Nat /\ moved \subseteq Person

LEMMA MailTypes == MailTypeOK => PeopleOK /\ BookOK /\ PastOK
  BY DEF MailTypeOK, PeopleOK, BookOK, PastOK

LEMMA MailTypesNext ==
  ASSUME PeopleOK', BookOK', PastOK', LoopShape'
  PROVE  MailTypeOK'
<1>1. \A l \in Loop :
        loop'[l] \in [at : AtLoop, kind : Kinds[l], list : SUBSET Person, hand : SUBSET Person]
  BY DEF LoopShape
<1> QED BY <1>1 DEF MailTypeOK, PeopleOK, BookOK, PastOK, AtLoop

LEMMA PutsIs ==
  ASSUME LoopShape, NEW l \in Loop, NEW new, Puts(l, new)
  PROVE  loop'[l] = new /\ (\A m \in Loop : m # l => loop'[m] = loop[m])
  BY DEF LoopShape, Puts

LEMMA PutsKeepsShape ==
  ASSUME LoopShape, NEW l \in Loop, NEW new, Puts(l, new),
         new \in [at : AtLoop, kind : Kinds[l], list : SUBSET Person, hand : SUBSET Person],
         new.at = "send" => \E p \in Person \ new.list : new.hand = {p},
         new.at # "send" => new.hand = {}
  PROVE  LoopShape'
<1>1. new \in [at : AtLoop, kind : Kind, list : SUBSET Person, hand : SUBSET Person]
  BY KindsOfLoops
<1>2. loop' \in [Loop -> [at : AtLoop, kind : Kind, list : SUBSET Person, hand : SUBSET Person]]
  BY <1>1 DEF LoopShape, Puts
<1>3. ASSUME NEW m \in Loop
      PROVE  /\ loop'[m].kind \in Kinds[m]
             /\ loop'[m].at = "send" => \E p \in Person \ loop'[m].list : loop'[m].hand = {p}
             /\ loop'[m].at # "send" => loop'[m].hand = {}
  <2>1. CASE m = l
    <3>1. loop'[m] = new
      BY <2>1, PutsIs
    <3> QED BY <2>1, <3>1
  <2>2. CASE m # l
    <3>1. loop'[m] = loop[m]
      BY <2>2, PutsIs
    <3> QED BY <3>1 DEF LoopShape
  <2> QED BY <2>1, <2>2
<1> QED BY <1>2, <1>3 DEF LoopShape

-----------------------------------------------------------------------------
(* A loop reads a list, passes somebody over, or rests: whoever it lists    *)
(* may be listed, and nothing is in hand.                                   *)

MayList(l, k, list) ==
  /\ l = "marketing" => list \cap recent = {}
  /\ l = "pc" => \A p \in list : <<p, "pc">> \notin booked
  /\ \A p \in list : late[<<p, l>>] # 1
  /\ l = "marketing" /\ k = "campaign" =>
       stray + Cardinality(list) <= Batch /\ today + Cardinality(list) <= DailyLimit

RelistVars == <<people, recent, booked, today, sent, heard, late, stray>>

LEMMA RelistKeeps ==
  ASSUME MInv, NEW l \in Loop, NEW a \in AtLoop \ {"send"}, NEW k \in Kinds[l],
         NEW list \in SUBSET Person, MayList(l, k, list),
         Puts(l, [at |-> a, kind |-> k, list |-> list, hand |-> {}]),
         UNCHANGED RelistVars
  PROVE  LoopShape' /\ Once' /\ Capped' /\ Stopped'
<1> DEFINE new == [at |-> a, kind |-> k, list |-> list, hand |-> {}]
<1> USE DEF MInv
<1>1. LoopShape'
  <2>1. new \in [at : AtLoop, kind : Kinds[l], list : SUBSET Person, hand : SUBSET Person]
    OBVIOUS
  <2> HIDE DEF new
  <2>2. new.at # "send" /\ new.hand = {}
    BY DEF new
  <2> QED BY <2>1, <2>2, PutsKeepsShape DEF new
<1>2. loop'[l] = new /\ (\A m \in Loop : m # l => loop'[m] = loop[m])
  BY PutsIs
<1>3. /\ l \in Loop /\ "marketing" \in Loop /\ "pc" \in Loop
      /\ UNCHANGED <<recent, booked, sent, heard, late, optedOut>>
  BY LoopNames DEF RelistVars, people
<1>4. \A m \in Loop : m # l => /\ loop'[m].hand = loop[m].hand /\ loop'[m].list = loop[m].list
                              /\ loop'[m].kind = loop[m].kind
  BY <1>2
<1>5. loop'[l].hand = {} /\ loop'[l].list = list
  BY <1>2
<1>6. Once'
  <2>1. \A m \in Loop : \A p \in loop'[m].hand :
          <<p, loop'[m].kind>> \in booked' /\ sent'[<<p, loop'[m].kind>>] = 0
    BY <1>3, <1>4, <1>5 DEF Once
  <2>2. \A p \in loop'.pc.list : <<p, "pc">> \notin booked'
    BY <1>3, <1>4, <1>5 DEF Once, MayList
  <2> QED BY <1>3, <2>1, <2>2 DEF Once
<1>7. Capped'
  BY <1>3, <1>4, <1>5 DEF Capped, MayList
<1>8. Stopped'
  BY <1>3, <1>4, <1>5 DEF Stopped, MayList
<1> QED BY <1>1, <1>6, <1>7, <1>8
LEMMA RelistBatched ==
  ASSUME MInv, NEW l \in Loop, NEW a \in AtLoop \ {"send"}, NEW k \in Kinds[l],
         NEW list \in SUBSET Person, MayList(l, k, list),
         Puts(l, [at |-> a, kind |-> k, list |-> list, hand |-> {}]),
         a = "due" => stray = 0,
         UNCHANGED RelistVars, campaign = "cancelled" => campaign' = "cancelled"
  PROVE  Batched'
<1> USE DEF MInv, RelistVars
<1>1. loop'[l] = [at |-> a, kind |-> k, list |-> list, hand |-> {}]
      /\ (\A m \in Loop : m # l => loop'[m] = loop[m])
  BY PutsIs
<1>2. stray \in Nat /\ today \in Nat /\ stray' = stray /\ today' = today
  BY MailTypes, MailAssumption DEF PastOK, BookOK
<1>3. CASE l # "marketing"
  <2>1. loop'.marketing = loop.marketing
    BY <1>1, <1>3, LoopNames
  <2> QED BY <1>2, <2>1 DEF Batched
<1>4. CASE l = "marketing"
  <2>1. /\ loop'.marketing.kind = k /\ loop'.marketing.list = list
        /\ loop'.marketing.hand = {} /\ loop'.marketing.at = a
    BY <1>1, <1>4
  <2>2. Cardinality(list) \in Nat /\ Cardinality({}) = 0
    BY FS_Subset, FS_CardinalityType, FS_EmptySet, MailAssumption
  <2> QED BY <1>2, <1>4, <2>1, <2>2 DEF Batched, MayList
<1> QED BY <1>3, <1>4

LEMMA RelistTypes ==
  ASSUME MInv, UNCHANGED RelistVars,
         campaign' \in {"draft", "scheduled", "done", "cancelled"}, moved' \subseteq Person
  PROVE  PeopleOK' /\ BookOK' /\ PastOK'
  BY MailTypes DEF MInv, RelistVars, people, PeopleOK, BookOK, PastOK

LEMMA RelistInv ==
  ASSUME MInv, NEW l \in Loop, NEW a \in {"rest", "due", "list", "count"}, NEW k \in Kinds[l],
         NEW list \in SUBSET Person, MayList(l, k, list),
         Puts(l, [at |-> a, kind |-> k, list |-> list, hand |-> {}]),
         UNCHANGED <<people, book, mailPast>>,
         a \in {"due", "count"} => campaign # "done", a = "due" => stray = 0
  PROVE  MInv'
<1> USE DEF MInv
<1>1. UNCHANGED RelistVars /\ campaign' = campaign /\ moved' = moved
  BY DEF RelistVars, book, mailPast
<1>2. a \in AtLoop \ {"send"}
  BY DEF AtLoop
<1>3. LoopShape' /\ Once' /\ Capped' /\ Stopped'
  BY <1>1, <1>2, RelistKeeps
<1>4. Batched'
  BY <1>1, <1>2, RelistBatched
<1>5. Reached'
  <2>1. loop'.marketing.at = loop.marketing.at \/ loop'.marketing.at = a
    BY LoopNames, PutsIs
  <2>2. optedOut' = optedOut /\ leaving' = leaving /\ paying' = paying /\ booked' = booked
    BY DEF people, book
  <2> QED BY <1>1, <2>1, <2>2 DEF Reached
<1>6. PeopleOK' /\ BookOK' /\ PastOK'
  BY <1>1, RelistTypes, MailTypes DEF BookOK, PastOK
<1> QED BY <1>3, <1>4, <1>5, <1>6, MailTypesNext

LEMMA EmptyList == ASSUME MInv, NEW l, NEW k PROVE MayList(l, k, {})
<1>1. Cardinality({}) = 0
  BY FS_EmptySet
<1>2. stray \in Nat /\ stray <= Batch /\ today \in 0 .. DailyLimit
  BY MailTypes DEF MInv, PastOK, BookOK, Batched
<1> QED BY <1>1, <1>2, MailAssumption DEF MayList

LEMMA KindOfRest ==
  ASSUME NEW l \in Loop
  PROVE  (CHOOSE k \in Kinds[l] : TRUE) \in Kinds[l]
<1>1. Kinds[l] # {}
  BY LoopNames
<1> QED BY <1>1

\* Who has opted out is on no new list of what an opt-out stops, and nobody
\* else has had such an email after it.
LEMMA NotLate ==
  ASSUME MInv, NEW l \in Loop, NEW p \in Person,
         l \in {"marketing", "winback"} => p \notin optedOut
  PROVE  late[<<p, l>>] # 1
  BY DEF MInv, Stopped

LEMMA ListsInv ==
  ASSUME MInv, NEW l \in Loop, NEW k, NEW due \in SUBSET Person, k # "campaign",
         Lists(l, k, due),
         l = "marketing" => due \cap recent = {},
         l = "pc" => \A p \in due : <<p, "pc">> \notin booked,
         l \in {"marketing", "winback"} => due \cap optedOut = {}
  PROVE  MInv'
<1>1. k \in Kinds[l]
  BY DEF Lists, Of
<1>2. MayList(l, k, due)
  BY NotLate DEF MayList
<1> QED BY <1>1, <1>2, RelistInv DEF Lists

LEMMA SendFlowsInv == ASSUME MInv, SendFlows PROVE MInv'
<1> USE LoopNames DEF SendFlows, Marketable
<1>1. CASE Lists("marketing", "joins_out", {p \in Person : FreeJoinsDue(p)})
  BY <1>1, ListsInv DEF FreeJoinsDue
<1>2. CASE Lists("marketing", "first_join", {p \in Person : FirstJoinDue(p)})
  BY <1>2, ListsInv DEF FirstJoinDue
<1>3. CASE Lists("marketing", "wipe_week", {p \in Person : EveryoneDue(p)})
  BY <1>3, ListsInv DEF EveryoneDue
<1> QED BY <1>1, <1>2, <1>3

LEMMA SendWinbackInv == ASSUME MInv, SendWinback PROVE MInv'
<1>1. PICK k \in Kinds.winback : Lists("winback", k, {p \in Person : DueWinback(p, k)})
  BY DEF SendWinback
<1>2. k # "campaign" /\ "winback" \in Loop
  BY LoopNames
<1>3. {p \in Person : DueWinback(p, k)} \cap optedOut = {}
  BY DEF DueWinback
<1> QED BY <1>1, <1>2, <1>3, ListsInv

LEMMA RemindersInv ==
  ASSUME MInv, SendRenewalReminders \/ SendTrialReminders \/ SendPCReminders
  PROVE  MInv'
<1>1. CASE SendRenewalReminders
  BY <1>1, ListsInv, LoopNames DEF SendRenewalReminders
<1>2. CASE SendTrialReminders
  BY <1>2, ListsInv, LoopNames DEF SendTrialReminders
<1>3. CASE SendPCReminders
  <2>1. \A p \in {q \in Person : AwaitingPC(q)} : <<p, "pc">> \notin booked
    BY DEF AwaitingPC, Had
  <2> QED BY <1>3, <2>1, ListsInv, LoopNames DEF SendPCReminders
<1> QED BY <1>1, <1>2, <1>3

LEMMA DueCampaignsInv == ASSUME MInv, DueCampaigns PROVE MInv'
<1>1. stray \in Nat /\ stray = 0 /\ campaign # "done"
  BY MailTypes DEF DueCampaigns, MInv, Batched, PastOK
<1>2. /\ "marketing" \in Loop /\ "campaign" \in Kinds["marketing"] /\ {} \in SUBSET Person
      /\ MayList("marketing", "campaign", {})
  BY LoopNames, EmptyList
<1> QED BY <1>1, <1>2, RelistInv DEF DueCampaigns

LEMMA SkipsCampaignInv == ASSUME MInv, SkipsCampaign PROVE MInv'
  BY LoopNames, EmptyList, KindOfRest, RelistInv DEF SkipsCampaign, Rest

\* A campaign's batch is cut to what is left of the day.
LEMMA SendCampaignsInv == ASSUME MInv, SendCampaigns PROVE MInv'
<1> DEFINE due == {p \in Person : CampaignRecipient(p)}
<1>1. PICK counted \in today .. DailyLimit, list \in SUBSET due :
        /\ Room(counted) > 0 /\ Cardinality(list) = Smaller(Cardinality(due), Room(counted))
        /\ Puts("marketing", [at |-> IF due = {} THEN "count" ELSE "list",
                              kind |-> "campaign", list |-> list, hand |-> {}])
  BY DEF SendCampaigns
<1>2. loop.marketing.at = "due" /\ campaign # "done" /\ UNCHANGED <<people, book, mailPast>>
  BY DEF SendCampaigns, MInv, Reached
<1>3. "marketing" \in Loop /\ "campaign" \in Kinds["marketing"] /\ list \in SUBSET Person
  BY LoopNames
<1>4. stray = 0 /\ today \in 0 .. DailyLimit /\ stray \in Nat
  BY <1>2, MailTypes DEF MInv, Batched, PastOK, BookOK
<1>5. Cardinality(due) \in Nat
  BY FS_Subset, FS_CardinalityType, MailAssumption
<1>6. Cardinality(list) \in Nat /\ stray + Cardinality(list) <= Batch
      /\ today + Cardinality(list) <= DailyLimit
  BY <1>1, <1>4, <1>5, MailAssumption DEF Room, Smaller
<1>7. \A p \in list : p \notin recent /\ late[<<p, "marketing">>] # 1
  BY <1>3, NotLate DEF CampaignRecipient, Marketable
<1> HIDE DEF due
<1>8. MayList("marketing", "campaign", list)
  BY <1>6, <1>7 DEF MayList
<1> QED BY <1>1, <1>2, <1>3, <1>8, RelistInv

LEMMA ListEndsInv == ASSUME MInv, NEW l \in Loop, ListEnds(l) PROVE MInv'
  BY EmptyList, KindOfRest, RelistInv DEF ListEnds, Rest

\* What is listed may be listed, and so may any part of it.
LEMMA KeepsListed ==
  ASSUME MInv, NEW l \in Loop, NEW list \in SUBSET loop[l].list
  PROVE  MayList(l, loop[l].kind, list)
<1>1. loop[l] \in [at : AtLoop, kind : Kind, list : SUBSET Person, hand : SUBSET Person]
  BY DEF MInv, LoopShape
<1>2. /\ Cardinality(list) <= Cardinality(loop[l].list) /\ Cardinality(list) \in Nat
      /\ Cardinality(loop[l].list) \in Nat /\ Cardinality(loop[l].hand) \in Nat
  <2>1. IsFiniteSet(loop[l].list) /\ IsFiniteSet(loop[l].hand)
    BY <1>1, FS_Subset, MailAssumption
  <2> QED BY <2>1, FS_Subset, FS_CardinalityType
<1>3. l = "marketing" /\ loop[l].kind = "campaign" =>
        stray + Cardinality(list) <= Batch /\ today + Cardinality(list) <= DailyLimit
  <2>1. stray \in Nat /\ today \in Nat
    BY MailTypes, MailAssumption DEF MInv, PastOK, BookOK
  <2>2. l = "marketing" /\ loop[l].kind = "campaign" =>
          /\ stray + Cardinality(loop[l].list) + Cardinality(loop[l].hand) <= Batch
          /\ today + Cardinality(loop[l].list) <= DailyLimit
    BY DEF MInv, Batched
  <2> QED BY <1>2, <2>1, <2>2, MailAssumption
<1>4. \A q \in list : late[<<q, l>>] # 1
  BY <1>1 DEF MInv, Stopped
<1> QED BY <1>3, <1>4 DEF MInv, MayList, Capped, Once

LEMMA PassesInv == ASSUME MInv, NEW l \in Loop, NEW p \in Person, Passes(l, p) PROVE MInv'
<1> DEFINE list == loop[l].list \ {p}
<1>1. loop[l] \in [at : AtLoop, kind : Kinds[l], list : SUBSET Person, hand : SUBSET Person]
  BY DEF MInv, LoopShape
<1>2. loop[l].at = "list" /\ loop[l].hand = {} /\ UNCHANGED <<people, book, mailPast>>
  BY DEF Passes, MInv, LoopShape
<1>3. Puts(l, [at |-> "list", kind |-> loop[l].kind, list |-> list, hand |-> {}])
  BY <1>1, <1>2 DEF Passes
<1>4. MayList(l, loop[l].kind, list)
  BY KeepsListed
<1>5. list \in SUBSET Person
  BY <1>1
<1> HIDE DEF list
<1> QED BY <1>1, <1>2, <1>3, <1>4, <1>5, RelistInv

-----------------------------------------------------------------------------
(* The end of a campaign.                                                  *)

\* Nobody is left: from here on only who changes can be missed.
LEMMA CountsInv == ASSUME MInv, Counts PROVE MInv'
<1> DEFINE m == loop.marketing
<1>1. /\ m \in [at : AtLoop, kind : Kinds["marketing"],
                list : SUBSET Person, hand : SUBSET Person]
      /\ m.at = "count" /\ m.hand = {} /\ "marketing" \in Loop
  BY LoopNames DEF Counts, MInv, LoopShape
<1>2. /\ moved' = {} /\ campaign' = campaign
      /\ UNCHANGED <<people, book, sent, heard, late, stray>> /\ UNCHANGED RelistVars
  BY DEF Counts, RelistVars, book
<1>3. PeopleOK' /\ BookOK' /\ PastOK'
  BY <1>2, RelistTypes, MailTypes DEF MInv, BookOK
<1>4. campaign # "done"
  BY <1>1 DEF MInv, Reached
<1>5. CASE Remaining = {}
  <2>1. Puts("marketing", [at |-> "finish", kind |-> m.kind, list |-> m.list, hand |-> {}])
    BY <1>1, <1>5 DEF Counts
  <2>2. MayList("marketing", m.kind, m.list)
    BY <1>1, KeepsListed
  <2>3. "finish" \in AtLoop \ {"send"} /\ m.kind \in Kinds["marketing"] /\ m.list \in SUBSET Person
    BY <1>1 DEF AtLoop
  <2> HIDE DEF m
  <2>4. LoopShape' /\ Once' /\ Capped' /\ Stopped' /\ Batched'
    BY <1>1, <1>2, <2>1, <2>2, <2>3, RelistKeeps, RelistBatched
  <2>5. Reached'
    <3>1. \A p \in Person \ (optedOut \cup leaving \cup paying) : <<p, "campaign">> \in booked
      BY <1>5 DEF Remaining, OnFree, Subscribed, Had
    <3> QED BY <1>2, <1>4, <3>1 DEF Reached, people, book
  <2> QED BY <1>3, <2>4, <2>5, MailTypesNext DEF MInv
<1>6. CASE Remaining # {}
  <2>1. /\ Puts("marketing", Rest("marketing"))
        /\ Rest("marketing").at = "rest"
    BY <1>6 DEF Counts, Rest
  <2>2. "rest" \in AtLoop \ {"send"} /\ {} \in SUBSET Person
    BY DEF AtLoop
  <2>3. LoopShape' /\ Once' /\ Capped' /\ Stopped' /\ Batched'
    BY <1>1, <1>2, <2>1, <2>2, EmptyList, KindOfRest, RelistKeeps, RelistBatched DEF Rest
  <2>4. loop'.marketing.at = "rest"
    BY <1>1, <2>1, PutsIs DEF MInv
  <2>5. Reached'
    BY <1>2, <1>4, <2>4 DEF Reached
  <2> QED BY <1>3, <2>3, <2>5, MailTypesNext DEF MInv
<1> QED BY <1>5, <1>6

LEMMA FinishCampaignInv == ASSUME MInv, FinishCampaign PROVE MInv'
<1>1. /\ loop.marketing.at = "finish" /\ "marketing" \in Loop
      /\ Puts("marketing", Rest("marketing")) /\ Rest("marketing").at = "rest"
      /\ campaign' = (IF campaign = "scheduled" THEN "done" ELSE campaign)
      /\ UNCHANGED <<people, recent, booked, today, mailPast>> /\ UNCHANGED RelistVars
      /\ moved' = moved
  BY LoopNames DEF FinishCampaign, RelistVars, mailPast, Rest
<1>2. campaign' \in {"draft", "scheduled", "done", "cancelled"} /\ moved' \subseteq Person
  BY <1>1, MailTypes DEF MInv, BookOK, PastOK
<1>3. PeopleOK' /\ BookOK' /\ PastOK'
  BY <1>1, <1>2, RelistTypes
<1>4. "rest" \in AtLoop \ {"send"} /\ {} \in SUBSET Person
  BY DEF AtLoop
<1>5. LoopShape' /\ Once' /\ Capped' /\ Stopped' /\ Batched'
  BY <1>1, <1>4, EmptyList, KindOfRest, RelistKeeps, RelistBatched DEF Rest
<1>6. loop'.marketing.at = "rest"
  BY <1>1, PutsIs DEF MInv
<1>7. Reached'
  BY <1>1, <1>6 DEF MInv, Reached, people
<1> QED BY <1>3, <1>5, <1>7, MailTypesNext DEF MInv

-----------------------------------------------------------------------------
(* An email is claimed.                                                    *)

Claims(l, p, k) ==
  /\ Hands(l, p, k) /\ booked' = booked \cup {<<p, k>>} /\ <<p, k>> \notin booked
  /\ recent' = IF k \in Marketing THEN recent \cup {p} ELSE recent
  /\ today' = IF k = "campaign" THEN today + 1 ELSE today

LEMMA HandedOver ==
  ASSUME NEW K, NEW p \in Person,
         NEW r \in [at : AtLoop, kind : K, list : SUBSET Person, hand : SUBSET Person]
  PROVE  [r EXCEPT !.at = "send", !.list = @ \ {p}, !.hand = {p}] =
         [at |-> "send", kind |-> r.kind, list |-> r.list \ {p}, hand |-> {p}]
<1> DEFINE q == [r EXCEPT !.at = "send", !.list = @ \ {p}, !.hand = {p}]
<1>1. q \in [at : AtLoop, kind : K, list : SUBSET Person, hand : SUBSET Person]
  BY DEF AtLoop
<1>2. q.at = "send" /\ q.kind = r.kind /\ q.list = r.list \ {p} /\ q.hand = {p}
  OBVIOUS
<1> HIDE DEF q
<1> QED BY <1>1, <1>2

LEMMA ClaimInv ==
  ASSUME MInv, NEW l \in Loop, NEW p \in Person, NEW k \in Kinds[l], Claims(l, p, k)
  PROVE  MInv'
<1> DEFINE list == loop[l].list \ {p}
           new == [at |-> "send", kind |-> k, list |-> list, hand |-> {p}]
<1> USE DEF MInv
<1>1. /\ loop[l] \in [at : AtLoop, kind : Kinds[l], list : SUBSET Person, hand : SUBSET Person]
      /\ loop[l].at = "list" /\ loop[l].hand = {} /\ loop[l].kind = k /\ p \in loop[l].list
  BY DEF Claims, Hands, LoopShape
<1>2. Puts(l, new)
  <2>1. [loop[l] EXCEPT !.at = "send", !.list = @ \ {p}, !.hand = {p}] = new
    BY <1>1, HandedOver
  <2> QED BY <2>1 DEF Claims, Hands
<1>3. loop'[l] = new /\ (\A m \in Loop : m # l => loop'[m] = loop[m])
  BY <1>2, PutsIs
<1>4. /\ loop'[l].at = "send" /\ loop'[l].kind = k /\ loop'[l].list = list
      /\ loop'[l].hand = {p}
  BY <1>3
<1>5. /\ booked' = booked \cup {<<p, k>>} /\ <<p, k>> \notin booked
      /\ recent' = IF k \in Marketing THEN recent \cup {p} ELSE recent
      /\ today' = IF k = "campaign" THEN today + 1 ELSE today
      /\ campaign' = campaign /\ UNCHANGED <<people, mailPast>>
  BY DEF Claims, Hands
<1>6. /\ k \in Kind /\ (\A m \in Loop : k \in Kinds[m] => m = l)
      /\ k \in Marketing <=> l = "marketing"
      /\ "marketing" \in Loop /\ "pc" \in Loop
  BY KindsOfLoops, LoopNames DEF Marketing
<1>7. sent' = sent /\ heard' = heard /\ late' = late /\ stray' = stray /\ moved' = moved
      /\ optedOut' = optedOut /\ leaving' = leaving /\ paying' = paying
  BY <1>5 DEF people, mailPast
<1>8. LoopShape'
  <2>1. new \in [at : AtLoop, kind : Kinds[l], list : SUBSET Person, hand : SUBSET Person]
    BY <1>1 DEF AtLoop
  <2>2. new.at = "send" /\ p \in Person \ new.list /\ new.hand = {p}
    OBVIOUS
  <2> HIDE DEF new
  <2> QED BY <1>2, <2>1, <2>2, PutsKeepsShape
<1>9. Once'
  <2>1. \A e \in Person \X Kind : sent'[e] <= 1 /\ (sent'[e] = 1 => e \in booked')
    BY <1>5, <1>7 DEF Once
  <2>2. ASSUME NEW m \in Loop, NEW q \in loop'[m].hand
        PROVE  <<q, loop'[m].kind>> \in booked' /\ sent'[<<q, loop'[m].kind>>] = 0
    <3>1. CASE m = l
      <4>1. sent[<<p, k>>] \in Nat /\ sent[<<p, k>>] <= 1 /\ sent[<<p, k>>] # 1
        BY <1>5, <1>6, MailTypes DEF Once, PastOK
      <4>2. q = p /\ loop'[m].kind = k
        BY <1>4, <3>1, <2>2
      <4> QED BY <1>5, <1>7, <4>1, <4>2
    <3>2. CASE m # l
      BY <1>3, <1>5, <1>7, <2>2, <3>2 DEF Once
    <3> QED BY <3>1, <3>2
  <2>3. ASSUME NEW q \in loop'.pc.list PROVE <<q, "pc">> \notin booked'
    <3>1. CASE l = "pc"
      BY <1>1, <1>4, <1>5, <2>3, <3>1 DEF Once
    <3>2. CASE l # "pc"
      <4>1. k # "pc" /\ loop'.pc = loop.pc
        BY <1>3, <1>6, <3>2, LoopNames
      <4> QED BY <1>5, <2>3, <4>1 DEF Once
    <3> QED BY <3>1, <3>2
  <2> QED BY <2>1, <2>2, <2>3 DEF Once
<1>10. Capped'
  <2>1. CASE l = "marketing"
    <3>1. p \notin recent /\ recent' = recent \cup {p}
      <4>1. p \in loop.marketing.list
        BY <1>1, <2>1
      <4>2. k \in Marketing
        BY <1>6, <2>1
      <4>3. recent' = recent \cup {p}
        BY <1>5, <4>2
      <4>4. p \notin recent
        BY <4>1 DEF Capped
      <4> QED BY <4>3, <4>4
    <3>2. heard[p] = 0
      <4>1. heard[p] \in Nat
        BY MailTypes DEF PastOK
      <4>2. heard[p] <= 1 /\ heard[p] # 1
        BY <3>1 DEF Capped
      <4> QED BY <4>1, <4>2
    <3>3. loop'.marketing.list = list /\ loop'.marketing.hand = {p}
      BY <1>4, <2>1
    <3>4. p \in loop.marketing.list /\ loop[l] = loop.marketing
      BY <1>1, <2>1
    <3>5. \A q \in Person : heard'[q] <= 1 /\ (heard'[q] = 1 => q \in recent')
      BY <1>7, <3>1 DEF Capped
    <3>6. \A q \in loop'.marketing.list : q \notin recent'
      BY <3>1, <3>3, <3>4 DEF Capped
    <3> QED BY <1>7, <3>1, <3>2, <3>3, <3>5, <3>6 DEF Capped
  <2>2. CASE l # "marketing"
    <3>1. recent' = recent /\ loop'.marketing = loop.marketing
      BY <1>3, <1>5, <1>6, <2>2
    <3> QED BY <1>7, <3>1 DEF Capped
  <2> QED BY <2>1, <2>2
<1>11. Stopped'
  <2>1. \A q \in Person, m \in Loop :
          /\ q \in loop'[m].list => q \in loop[m].list
          /\ q \in loop'[m].hand => q \in loop[m].hand \/ q \in loop[m].list
    BY <1>1, <1>3, <1>4
  <2> QED BY <1>7, <2>1 DEF Stopped
<1>12. Batched'
  <2>1. stray \in Nat /\ today \in Nat
    BY MailTypes, MailAssumption DEF PastOK, BookOK
  <2>2. CASE l = "marketing"
    <3>1. IsFiniteSet(loop[l].list)
      BY <1>1, FS_Subset, MailAssumption
    <3>2. /\ Cardinality(list) = Cardinality(loop[l].list) - 1
          /\ Cardinality(loop[l].list) \in Nat /\ Cardinality({}) = 0 /\ Cardinality({p}) = 1
      BY <1>1, <3>1, FS_RemoveElement, FS_CardinalityType, FS_EmptySet, FS_Singleton
    <3>3. /\ loop'.marketing.list = list /\ loop'.marketing.hand = {p}
          /\ loop'.marketing.kind = k /\ loop'.marketing.at = "send"
      BY <1>4, <2>2
    <3>4. k = "campaign" =>
            /\ stray + Cardinality(loop[l].list) + Cardinality({}) <= Batch
            /\ today + Cardinality(loop[l].list) <= DailyLimit
      BY <1>1, <2>2 DEF Batched
    <3> HIDE DEF list
    <3>5. k = "campaign" =>
            /\ stray + Cardinality(list) + Cardinality({p}) <= Batch
            /\ today' + Cardinality(list) <= DailyLimit
      BY <1>5, <2>1, <3>2, <3>4, MailAssumption
    <3> QED BY <1>5, <1>7, <3>3, <3>5 DEF Batched
  <2>3. CASE l # "marketing"
    <3>1. today' = today /\ loop'.marketing = loop.marketing
      BY <1>3, <1>5, <1>6, <2>3, LoopNames
    <3> QED BY <1>5, <1>7, <3>1 DEF Batched
  <2> QED BY <2>2, <2>3
<1>13. Reached'
  <2>1. loop'.marketing.at = loop.marketing.at \/ loop'.marketing.at = "send"
    BY <1>3, <1>4, <1>6
  <2> QED BY <1>5, <1>7, <2>1 DEF Reached
<1>14. PeopleOK' /\ PastOK'
  BY <1>5, MailTypes DEF people, mailPast, PeopleOK, PastOK
<1>15. BookOK'
  <2>1. recent' \subseteq Person /\ booked' \subseteq Person \X Kind
    BY <1>5, <1>6, MailTypes DEF BookOK
  <2>2. today' \in 0 .. DailyLimit
    <3>1. today \in 0 .. DailyLimit
      BY MailTypes DEF BookOK
    <3>2. k = "campaign" => today + 1 <= DailyLimit
      <4>1. IsFiniteSet(loop[l].list)
        BY <1>1, FS_Subset, MailAssumption
      <4>2. Cardinality(loop[l].list) \in Nat /\ Cardinality(loop[l].list) # 0
        BY <1>1, <4>1, FS_CardinalityType, FS_EmptySet
      <4>3. k = "campaign" => today + Cardinality(loop[l].list) <= DailyLimit
        BY <1>1, <1>6, LoopNames DEF Batched
      <4> QED BY <3>1, <4>2, <4>3, MailAssumption
    <3> QED BY <1>5, <3>1, <3>2, MailAssumption
  <2> QED BY <1>5, <2>1, <2>2, MailTypes DEF BookOK
<1> QED BY <1>8, <1>9, <1>10, <1>11, <1>12, <1>13, <1>14, <1>15, MailTypesNext

LEMMA ClaimsEmailInv == ASSUME MInv, NEW p \in Person, ClaimsEmail(p) PROVE MInv'
<1> USE LoopNames DEF Marketing
<1>1. ASSUME NEW k \in Marketing, SendFlow(p, k) PROVE MInv'
  <2>1. Claims("marketing", p, k)
    BY <1>1 DEF SendFlow, ClaimMarketingSend, Claims, Had, Books
  <2> QED BY <1>1, <2>1, ClaimInv
<1>2. ASSUME NEW k \in Kinds.winback, SendOneWinback(p, k) PROVE MInv'
  <2>1. <<p, k>> \notin booked
    BY <1>2 DEF SendOneWinback, MarkWinbackSent, Passed, Had
  <2>2. k \notin Marketing /\ k # "campaign"
    OBVIOUS
  <2>3. Claims("winback", p, k)
    BY <1>2, <2>1, <2>2 DEF SendOneWinback, MarkWinbackSent, Claims, Books
  <2> QED BY <1>2, <2>3, ClaimInv
<1>3. CASE Hands("reminders", p, "renewal") /\ MarkRenewalReminded(p)
  <2>1. Claims("reminders", p, "renewal")
    BY <1>3 DEF MarkRenewalReminded, Claims, Had, Books
  <2> QED BY <2>1, ClaimInv
<1>4. CASE Hands("reminders", p, "trial") /\ MarkTrialReminded(p)
  <2>1. Claims("reminders", p, "trial")
    BY <1>4 DEF MarkTrialReminded, Claims, Had, Books
  <2> QED BY <2>1, ClaimInv
<1>5. CASE Hands("pc", p, "pc") /\ MarkPCReminded(p)
  <2>1. <<p, "pc">> \notin booked
    BY <1>5 DEF Hands, MInv, Once
  <2>2. Claims("pc", p, "pc")
    BY <1>5, <2>1 DEF MarkPCReminded, Claims, Books
  <2> QED BY <2>2, ClaimInv
<1> QED BY Zenon, <1>1, <1>2, <1>3, <1>4, <1>5 DEF ClaimsEmail

-----------------------------------------------------------------------------
(* The email in hand is sent, or the answer says that it was not.          *)

LEMMA Handed ==
  ASSUME NEW K, NEW r \in [at : AtLoop, kind : K, list : SUBSET Person, hand : SUBSET Person]
  PROVE  [r EXCEPT !.at = "list", !.hand = {}] =
         [at |-> "list", kind |-> r.kind, list |-> r.list, hand |-> {}]
<1> DEFINE q == [r EXCEPT !.at = "list", !.hand = {}]
<1>1. q \in [at : AtLoop, kind : K, list : SUBSET Person, hand : SUBSET Person]
  BY DEF AtLoop
<1>2. q.at = "list" /\ q.kind = r.kind /\ q.list = r.list /\ q.hand = {}
  OBVIOUS
<1> HIDE DEF q
<1> QED BY <1>1, <1>2

\* What one email adds to the history.
Sent(l, p) ==
  LET k == loop[l].kind
  IN /\ sent' = [e \in Person \X Kind |-> IF e = <<p, k>> THEN sent[e] + 1 ELSE sent[e]]
     /\ heard' = [q \in Person |-> IF k \in Marketing /\ q = p THEN heard[q] + 1 ELSE heard[q]]
     /\ late' = [e \in Person \X Loop |->
                   IF k \in Wanted /\ p \in optedOut /\ e = <<p, l>> THEN late[e] + 1
                   ELSE late[e]]
     /\ stray' = IF k = "campaign" /\ campaign = "cancelled" THEN stray + 1 ELSE stray

LEMMA SendsIs ==
  ASSUME MInv, NEW l \in Loop, Sends(l)
  PROVE  \E p \in Person \ loop[l].list :
           /\ loop[l].at = "send" /\ loop[l].hand = {p}
           /\ Puts(l, [at |-> "list", kind |-> loop[l].kind, list |-> loop[l].list, hand |-> {}])
           /\ Sent(l, p) \/ UNCHANGED <<sent, heard, late, stray>>
           /\ UNCHANGED <<people, book, moved>>
<1> DEFINE k == loop[l].kind
           One(S, f) == [e \in DOMAIN f |-> IF e \in S THEN f[e] + 1 ELSE f[e]]
<1>1. /\ loop[l].at = "send" /\ Puts(l, [loop[l] EXCEPT !.at = "list", !.hand = {}])
      /\ UNCHANGED <<people, book, moved>>
  BY DEF Sends
<1>2. PICK p \in Person \ loop[l].list : loop[l].hand = {p}
  BY <1>1 DEF MInv, LoopShape
<1>3. Puts(l, [at |-> "list", kind |-> k, list |-> loop[l].list, hand |-> {}])
  BY <1>1, Handed DEF MInv, LoopShape
<1>4. \/ /\ sent' = One({p} \X {k}, sent)
         /\ heard' = One(IF k \in Marketing THEN {p} ELSE {}, heard)
         /\ late' = One(IF k \in Wanted THEN ({p} \cap optedOut) \X {l} ELSE {}, late)
         /\ stray' = IF k = "campaign" /\ campaign = "cancelled" THEN stray + 1 ELSE stray
      \/ UNCHANGED <<sent, heard, late, stray>>
  BY <1>2 DEF Sends
<1>5. sent \in [Person \X Kind -> Nat] /\ heard \in [Person -> Nat] /\ late \in [Person \X Loop -> Nat]
  BY MailTypes DEF MInv, PastOK
<1>6. One({p} \X {k}, sent) =
        [e \in Person \X Kind |-> IF e = <<p, k>> THEN sent[e] + 1 ELSE sent[e]]
  BY <1>5
<1>7. One(IF k \in Marketing THEN {p} ELSE {}, heard) =
        [q \in Person |-> IF k \in Marketing /\ q = p THEN heard[q] + 1 ELSE heard[q]]
  BY <1>5
<1>8. One(IF k \in Wanted THEN ({p} \cap optedOut) \X {l} ELSE {}, late) =
        [e \in Person \X Loop |-> IF k \in Wanted /\ p \in optedOut /\ e = <<p, l>>
                                  THEN late[e] + 1 ELSE late[e]]
  BY <1>5
<1>9. Sent(l, p) \/ UNCHANGED <<sent, heard, late, stray>>
  BY <1>4, <1>6, <1>7, <1>8 DEF Sent
<1> QED BY <1>1, <1>2, <1>3, <1>9

LEMMA SentInv ==
  ASSUME MInv, NEW l \in Loop, NEW p \in Person \ loop[l].list,
         loop[l].hand = {p},
         Puts(l, [at |-> "list", kind |-> loop[l].kind, list |-> loop[l].list, hand |-> {}]),
         Sent(l, p), UNCHANGED <<people, book, moved>>
  PROVE  MInv'
<1> DEFINE k == loop[l].kind
           list == loop[l].list
           new == [at |-> "list", kind |-> k, list |-> list, hand |-> {}]
<1> USE DEF MInv
<1>1. /\ k \in Kinds[l] /\ list \in SUBSET Person /\ loop[l].hand = {p}
  BY DEF LoopShape
<1>2. loop'[l] = new /\ (\A m \in Loop : m # l => loop'[m] = loop[m])
  BY PutsIs
<1>3. loop'[l].at = "list" /\ loop'[l].kind = k /\ loop'[l].list = list /\ loop'[l].hand = {}
  BY <1>2
<1>4. /\ k \in Kind /\ (\A m \in Loop : k \in Kinds[m] => m = l)
      /\ k \in Marketing <=> l = "marketing"
      /\ k \in Wanted <=> l \in {"marketing", "winback"}
      /\ "marketing" \in Loop /\ "pc" \in Loop
  BY <1>1, KindsOfLoops, LoopNames DEF Marketing, Wanted
<1>5. /\ recent' = recent /\ booked' = booked /\ campaign' = campaign /\ today' = today
      /\ optedOut' = optedOut /\ leaving' = leaving /\ paying' = paying /\ moved' = moved
      /\ UNCHANGED people
  BY DEF people, book
<1>6. /\ sent \in [Person \X Kind -> Nat] /\ heard \in [Person -> Nat]
      /\ late \in [Person \X Loop -> Nat] /\ stray \in Nat
  BY MailTypes DEF PastOK
<1>7. LoopShape'
  <2>1. new \in [at : AtLoop, kind : Kinds[l], list : SUBSET Person, hand : SUBSET Person]
    BY <1>1 DEF AtLoop
  <2>2. new.at # "send" /\ new.hand = {}
    OBVIOUS
  <2> HIDE DEF new
  <2>3. Puts(l, new)
    BY DEF new
  <2> QED BY <2>1, <2>2, <2>3, PutsKeepsShape
<1>8. Once'
  <2>1. <<p, k>> \in booked /\ sent[<<p, k>>] = 0
    BY <1>1 DEF Once
  <2>2. \A e \in Person \X Kind :
          sent'[e] = IF e = <<p, k>> THEN sent[e] + 1 ELSE sent[e]
    BY DEF Sent
  <2>3. \A e \in Person \X Kind : sent'[e] <= 1 /\ (sent'[e] = 1 => e \in booked)
    BY <1>6, <2>1, <2>2 DEF Once
  <2>4. ASSUME NEW m \in Loop, NEW q \in loop'[m].hand
        PROVE  <<q, loop'[m].kind>> \in booked /\ sent'[<<q, loop'[m].kind>>] = 0
    <3>1. m # l
      BY <1>3, <2>4
    <3>2. loop'[m] = loop[m] /\ loop[m].kind \in Kinds[m] /\ loop[m].hand \in SUBSET Person
      BY <1>2, <3>1 DEF LoopShape
    <3>3. loop[m].kind # k /\ loop[m].kind \in Kind /\ q \in Person
      BY <1>4, <2>4, <3>1, <3>2, KindsOfLoops
    <3>4. sent'[<<q, loop[m].kind>>] = sent[<<q, loop[m].kind>>]
      BY <2>2, <3>3
    <3> QED BY <2>4, <3>2, <3>4 DEF Once
  <2>5. \A q \in loop'.pc.list : <<q, "pc">> \notin booked
    BY <1>2, <1>3, <1>4 DEF Once
  <2> QED BY <1>5, <2>3, <2>4, <2>5 DEF Once
<1>9. Capped'
  <2>1. \A q \in Person :
          heard'[q] = IF k \in Marketing /\ q = p THEN heard[q] + 1 ELSE heard[q]
    BY DEF Sent
  <2>2. loop'.marketing.list = loop.marketing.list
    BY <1>2, <1>3, <1>4
  <2>3. CASE l = "marketing"
    <3>1. p \in recent /\ heard[p] = 0
      BY <2>3 DEF Capped
    <3>2. \A q \in Person : heard'[q] <= 1 /\ (heard'[q] = 1 => q \in recent)
      BY <1>6, <2>1, <3>1 DEF Capped
    <3>3. loop'.marketing.hand = {}
      BY <1>3, <2>3
    <3> QED BY <1>5, <2>2, <3>2, <3>3 DEF Capped
  <2>4. CASE l # "marketing"
    <3>1. loop'.marketing = loop.marketing /\ loop.marketing.hand \in SUBSET Person
      BY <1>2, <1>4, <2>4 DEF LoopShape
    <3>2. \A q \in Person : heard'[q] = heard[q]
      BY <1>4, <2>1, <2>4
    <3> QED BY <1>5, <3>1, <3>2 DEF Capped
  <2> QED BY <2>3, <2>4
<1>10. Stopped'
  <2>1. \A q \in Person, m \in Loop :
          late'[<<q, m>>] = IF k \in Wanted /\ p \in optedOut /\ q = p /\ m = l
                            THEN late[<<q, m>>] + 1 ELSE late[<<q, m>>]
    BY DEF Sent
  <2>2. ASSUME NEW q \in Person, NEW m \in Loop
        PROVE  /\ late'[<<q, m>>] <= 1
               /\ late'[<<q, m>>] = 1 =>
                    /\ q \in optedOut /\ m \in {"marketing", "winback"}
                    /\ q \notin loop'[m].list /\ q \notin loop'[m].hand
    <3>1. late[<<q, m>>] \in Nat /\ late[<<q, m>>] <= 1
      BY <1>6 DEF Stopped
    <3>2. CASE k \in Wanted /\ p \in optedOut /\ q = p /\ m = l
      <4>1. late[<<q, m>>] # 1
        BY <3>2 DEF Stopped
      <4>2. late'[<<q, m>>] = 1
        BY <2>1, <3>1, <3>2, <4>1
      <4> QED BY <1>3, <1>4, <3>2, <4>2
    <3>3. CASE ~(k \in Wanted /\ p \in optedOut /\ q = p /\ m = l)
      <4>1. late'[<<q, m>>] = late[<<q, m>>]
        BY <2>1, <3>3
      <4>2. loop'[m].list = loop[m].list /\ (q \in loop'[m].hand => q \in loop[m].hand)
        BY <1>2, <1>3
      <4> QED BY <4>1, <4>2 DEF Stopped
    <3> QED BY <3>2, <3>3
  <2> QED BY <1>5, <2>2 DEF Stopped
<1>11. Batched'
  <2>1. stray' = IF k = "campaign" /\ campaign = "cancelled" THEN stray + 1 ELSE stray
    BY DEF Sent
  <2>2. CASE l = "marketing"
    <3>1. Cardinality(list) \in Nat /\ Cardinality({p}) = 1 /\ Cardinality({}) = 0
      BY <1>1, FS_Subset, FS_CardinalityType, FS_Singleton, FS_EmptySet, MailAssumption
    <3>2. /\ loop'.marketing.kind = k /\ loop'.marketing.list = list /\ loop'.marketing.hand = {}
          /\ loop'.marketing.at = "list"
          /\ loop.marketing.kind = k /\ loop.marketing.list = list /\ loop.marketing.hand = {p}
      BY <1>1, <1>3, <2>2
    <3>3. k = "campaign" =>
            stray + Cardinality(list) + Cardinality({p}) <= Batch
            /\ today + Cardinality(list) <= DailyLimit
      BY <3>2 DEF Batched
    <3> HIDE DEF k, list
    <3>4. k = "campaign" => stray' + Cardinality(list) + Cardinality({}) <= Batch
      BY <1>6, <2>1, <3>1, <3>3, MailAssumption
    <3>5. stray' <= Batch
      BY <1>6, <2>1, <3>1, <3>3, MailAssumption DEF Batched
    <3>6. stray' > 0 => campaign = "cancelled"
      BY <1>6, <2>1 DEF Batched
    <3> QED BY <1>5, <3>2, <3>3, <3>4, <3>5, <3>6 DEF Batched
  <2>3. CASE l # "marketing"
    <3>1. k # "campaign" /\ loop'.marketing = loop.marketing
      BY <1>1, <1>2, <1>4, <2>3, LoopNames
    <3> QED BY <1>5, <2>1, <3>1 DEF Batched
  <2> QED BY <2>2, <2>3
<1>12. Reached'
  <2>1. loop'.marketing.at = loop.marketing.at \/ loop'.marketing.at = "list"
    BY <1>2, <1>3, <1>4
  <2> QED BY <1>5, <2>1 DEF Reached
<1>13. PeopleOK' /\ BookOK'
  BY <1>5, MailTypes DEF people, PeopleOK, BookOK
<1>14. PastOK'
  <2>1. sent' \in [Person \X Kind -> Nat] /\ heard' \in [Person -> Nat]
    BY <1>6 DEF Sent
  <2>2. late' \in [Person \X Loop -> Nat] /\ stray' \in Nat
    BY <1>6 DEF Sent
  <2> QED BY <1>5, <2>1, <2>2, MailTypes DEF PastOK
<1> QED BY <1>7, <1>8, <1>9, <1>10, <1>11, <1>12, <1>13, <1>14, MailTypesNext

LEMMA SendsInv == ASSUME MInv, NEW l \in Loop, Sends(l) PROVE MInv'
<1>1. PICK p \in Person \ loop[l].list :
        /\ loop[l].at = "send" /\ loop[l].hand = {p}
        /\ Puts(l, [at |-> "list", kind |-> loop[l].kind, list |-> loop[l].list, hand |-> {}])
        /\ Sent(l, p) \/ UNCHANGED <<sent, heard, late, stray>>
        /\ UNCHANGED <<people, book, moved>>
  BY SendsIs
<1>2. CASE Sent(l, p)
  BY <1>1, <1>2, SentInv
<1>3. CASE UNCHANGED <<sent, heard, late, stray>>
  <2>1. UNCHANGED <<people, book, mailPast>>
    BY <1>1, <1>3 DEF mailPast
  <2>2. loop[l].kind \in Kinds[l] /\ loop[l].list \in SUBSET Person
    BY DEF MInv, LoopShape
  <2>3. MayList(l, loop[l].kind, loop[l].list)
    BY KeepsListed
  <2> QED BY <1>1, <2>1, <2>2, <2>3, RelistInv
<1> QED BY <1>1, <1>2, <1>3

-----------------------------------------------------------------------------
(* The relay stops; the people, the clock and the owner.                   *)

LEMMA RestOfLoop ==
  ASSUME NEW l \in Loop
  PROVE  /\ Rest(l).at = "rest" /\ Rest(l).kind \in Kinds[l]
         /\ Rest(l).list = {} /\ Rest(l).hand = {}
         /\ Rest(l) \in [at : AtLoop, kind : Kind, list : SUBSET Person, hand : SUBSET Person]
<1>1. (CHOOSE k \in Kinds[l] : TRUE) \in Kinds[l]
  BY KindOfRest
<1>2. (CHOOSE k \in Kinds[l] : TRUE) \in Kind
  BY <1>1, KindsOfLoops
<1> QED BY <1>1, <1>2 DEF Rest, AtLoop

\* A relay that stops forgets its lists and the email it had claimed.
LEMMA RestingShape ==
  ASSUME \A l \in Loop : loop'[l] = Rest(l),
         loop' \in [Loop -> [at : AtLoop, kind : Kind, list : SUBSET Person, hand : SUBSET Person]]
  PROVE  LoopShape'
  BY RestOfLoop DEF LoopShape

LEMMA RelayStopsInv == ASSUME MInv, RelayStops PROVE MInv'
<1> USE DEF MInv
<1>1. \A l \in Loop : loop'[l] = Rest(l)
  BY DEF RelayStops
<1>2. \A l \in Loop : loop'[l].at = "rest" /\ loop'[l].list = {} /\ loop'[l].hand = {}
  BY <1>1, RestOfLoop
<1>3. /\ UNCHANGED <<people, book, mailPast>>
      /\ recent' = recent /\ booked' = booked /\ campaign' = campaign /\ today' = today
      /\ optedOut' = optedOut /\ leaving' = leaving /\ paying' = paying /\ moved' = moved
      /\ sent' = sent /\ heard' = heard /\ late' = late /\ stray' = stray
  BY DEF RelayStops, people, book, mailPast
<1>4. LoopShape'
  <2>1. loop' \in [Loop -> [at : AtLoop, kind : Kind, list : SUBSET Person, hand : SUBSET Person]]
    BY RestOfLoop DEF RelayStops
  <2> QED BY <1>1, <2>1, RestingShape
<1>5. "marketing" \in Loop /\ "pc" \in Loop
  BY LoopNames
<1>6. Once' /\ Capped' /\ Stopped'
  BY <1>2, <1>3, <1>5 DEF Once, Capped, Stopped
<1>7. Batched'
  <2>1. stray \in Nat /\ today \in 0 .. DailyLimit
    BY MailTypes DEF PastOK, BookOK
  <2>2. loop'.marketing.list = {} /\ loop'.marketing.hand = {} /\ loop'.marketing.at = "rest"
    BY <1>2, <1>5
  <2> QED BY <1>3, <2>1, <2>2, FS_EmptySet, MailAssumption DEF Batched
<1>8. Reached'
  <2>1. loop'.marketing.at = "rest"
    BY <1>2, <1>5
  <2> QED BY <1>3, <2>1 DEF Reached
<1>9. PeopleOK' /\ BookOK' /\ PastOK'
  BY <1>3, MailTypes DEF people, PeopleOK, BookOK, PastOK
<1> QED BY <1>4, <1>6, <1>7, <1>8, <1>9, MailTypesNext

LEMMA LoopsStay == ASSUME MInv, UNCHANGED loop PROVE LoopShape'
  BY DEF MInv, LoopShape

\* Whoever changes after the last count is noted as having moved.
LEMMA PersonChangesInv == ASSUME MInv, NEW p \in Person, PersonChanges(p) PROVE MInv'
<1> USE DEF MInv
<1>1. /\ \A q \in Person \ {p} :
           (q \in paying <=> q \in paying') /\ (q \in leaving <=> q \in leaving')
           /\ (q \in optedOut <=> q \in optedOut')
      /\ optedOut \subseteq optedOut'
  BY DEF PersonChanges
<1>2. PeopleOK'
  <2>1. paying' \subseteq Person /\ optedOut' \subseteq Person /\ leaving' \subseteq Person
        /\ pcs' \subseteq Person
    BY MailTypes DEF PeopleOK, PersonChanges
  <2>2. age' \in [Person -> 0 .. 3]
    <3>1. age \in [Person -> 0 .. 3]
      BY MailTypes DEF PeopleOK
    <3>2. age' = age \/ (age[p] < 3 /\ age' = [age EXCEPT ![p] = @ + 1])
      BY DEF PersonChanges
    <3> QED BY <3>1, <3>2
  <2>3. switched' \in Switches
    BY MailTypes DEF PeopleOK, PersonChanges
  <2> QED BY <2>1, <2>2, <2>3 DEF PeopleOK
<1>3. /\ moved' = IF Counted THEN moved \cup {p} ELSE moved
      /\ loop' = loop /\ UNCHANGED book
      /\ recent' = recent /\ booked' = booked /\ campaign' = campaign /\ today' = today
      /\ sent' = sent /\ heard' = heard /\ late' = late /\ stray' = stray
  BY DEF PersonChanges, book
<1>4. BookOK' /\ PastOK'
  BY <1>3, MailTypes DEF BookOK, PastOK
<1>5. Once' /\ Capped' /\ Batched'
  BY <1>3 DEF Once, Capped, Batched
<1>6. Stopped'
  BY <1>1, <1>3 DEF Stopped
<1>7. Reached'
  <2>1. CASE Counted
    <3>1. Person \ (optedOut' \cup leaving' \cup paying' \cup moved')
            \subseteq Person \ (optedOut \cup leaving \cup paying \cup moved)
      BY <1>1, <1>3, <2>1
    <3> QED BY <1>3, <3>1 DEF Reached
  <2>2. CASE ~Counted
    <3>1. campaign # "done" /\ loop.marketing.at # "finish"
      BY <2>2, LoopNames DEF Counted
    <3> QED BY <1>3, <3>1 DEF Reached
  <2> QED BY <2>1, <2>2
<1> QED BY <1>2, <1>3, <1>4, <1>5, <1>6, <1>7, LoopsStay, MailTypesNext

LEMMA CapPassesInv == ASSUME MInv, NEW p \in Person, CapPasses(p) PROVE MInv'
<1> USE DEF MInv, CapPasses
<1>1. /\ recent' = recent \ {p} /\ heard' = [heard EXCEPT ![p] = 0]
      /\ p \notin loop.marketing.hand
      /\ loop' = loop /\ booked' = booked /\ campaign' = campaign /\ today' = today
      /\ optedOut' = optedOut /\ leaving' = leaving /\ paying' = paying /\ moved' = moved
      /\ sent' = sent /\ late' = late /\ stray' = stray /\ UNCHANGED people
  BY LoopNames DEF people
<1>2. PeopleOK' /\ BookOK' /\ PastOK'
  BY <1>1, MailTypes DEF people, PeopleOK, BookOK, PastOK
<1>3. Once' /\ Stopped' /\ Batched' /\ Reached'
  BY <1>1 DEF Once, Stopped, Batched, Reached
<1>4. Capped'
  <2>1. heard \in [Person -> Nat] /\ loop.marketing.hand \subseteq Person
    BY MailTypes, LoopNames DEF PastOK, LoopShape
  <2>2. \A q \in Person : heard'[q] = IF q = p THEN 0 ELSE heard[q]
    BY <1>1, <2>1
  <2> QED BY <1>1, <2>1, <2>2 DEF Capped
<1> QED BY <1>1, <1>2, <1>3, <1>4, LoopsStay, MailTypesNext

LEMMA MidnightInv == ASSUME MInv, Midnight PROVE MInv'
<1> USE DEF MInv, Midnight
<1>1. /\ today > 0 /\ today' = 0 /\ loop' = loop /\ recent' = recent /\ booked' = booked
      /\ campaign' = campaign /\ optedOut' = optedOut /\ leaving' = leaving
      /\ paying' = paying /\ moved' = moved /\ sent' = sent /\ heard' = heard
      /\ late' = late /\ stray' = stray /\ UNCHANGED <<people, mailPast>>
  BY DEF people, mailPast
<1>2. PeopleOK' /\ BookOK' /\ PastOK'
  BY <1>1, MailTypes, MailAssumption DEF people, PeopleOK, BookOK, PastOK
<1>3. Once' /\ Capped' /\ Stopped' /\ Reached'
  BY <1>1 DEF Once, Capped, Stopped, Reached
<1>4. Batched'
  <2>1. loop.marketing.list \in SUBSET Person /\ today \in 0 .. DailyLimit
    BY MailTypes, LoopNames DEF LoopShape, BookOK
  <2>2. Cardinality(loop.marketing.list) \in Nat
    BY <2>1, FS_Subset, FS_CardinalityType, MailAssumption
  <2> QED BY <1>1, <2>1, <2>2, MailAssumption DEF Batched
<1> QED BY <1>1, <1>2, <1>3, <1>4, LoopsStay, MailTypesNext

LEMMA CampaignMovesInv == ASSUME MInv, CampaignMoves PROVE MInv'
<1> USE DEF MInv, CampaignMoves
<1>1. /\ loop' = loop /\ recent' = recent /\ booked' = booked /\ today' = today
      /\ optedOut' = optedOut /\ leaving' = leaving /\ paying' = paying /\ moved' = moved
      /\ sent' = sent /\ heard' = heard /\ late' = late /\ stray' = stray
      /\ UNCHANGED <<people, mailPast>>
  BY DEF people, mailPast
<1>2. /\ campaign' \in {"scheduled", "cancelled"}
      /\ campaign = "cancelled" => campaign' = "cancelled"
      /\ campaign \in {"draft", "scheduled"}
  OBVIOUS
<1>3. PeopleOK' /\ BookOK' /\ PastOK'
  BY <1>1, <1>2, MailTypes DEF people, PeopleOK, BookOK, PastOK
<1>4. Once' /\ Capped' /\ Stopped'
  BY <1>1 DEF Once, Capped, Stopped
<1>5. Batched' /\ Reached'
  BY <1>1, <1>2 DEF Batched, Reached
<1> QED BY <1>1, <1>3, <1>4, <1>5, LoopsStay, MailTypesNext

LEMMA MailStutter == ASSUME MInv, UNCHANGED mailVars PROVE MInv'
<1> USE DEF MInv
<1>1. /\ loop' = loop /\ recent' = recent /\ booked' = booked /\ today' = today
      /\ campaign' = campaign
      /\ optedOut' = optedOut /\ leaving' = leaving /\ paying' = paying /\ moved' = moved
      /\ sent' = sent /\ heard' = heard /\ late' = late /\ stray' = stray
      /\ UNCHANGED people
  BY DEF mailVars, people, book, mailPast
<1>2. PeopleOK' /\ BookOK' /\ PastOK'
  BY <1>1, MailTypes DEF people, PeopleOK, BookOK, PastOK
<1>3. Once' /\ Capped' /\ Stopped' /\ Batched' /\ Reached'
  BY <1>1 DEF Once, Capped, Stopped, Batched, Reached
<1> QED BY <1>1, <1>2, <1>3, LoopsStay, MailTypesNext

LEMMA MailInitInv == MailInit => MInv
<1> SUFFICES ASSUME MailInit PROVE MInv
  OBVIOUS
<1>1. PeopleOK /\ BookOK
  BY MailAssumption DEF MailInit, PeopleOK, BookOK
<1>2. PastOK
  BY DEF MailInit, PastOK
<1>3. \A l \in Loop : loop[l] = Rest(l)
  BY DEF MailInit
<1>4. LoopShape
  <2>1. loop \in [Loop -> [at : AtLoop, kind : Kind, list : SUBSET Person, hand : SUBSET Person]]
    BY RestOfLoop DEF MailInit
  <2> QED BY <1>3, <2>1, RestOfLoop DEF LoopShape
<1>5. /\ "marketing" \in Loop /\ "pc" \in Loop
      /\ \A l \in Loop : loop[l].at = "rest" /\ loop[l].list = {} /\ loop[l].hand = {}
  BY <1>3, RestOfLoop, LoopNames
<1>6. Once /\ Capped /\ Stopped
  BY <1>5 DEF MailInit, Once, Capped, Stopped
<1>7. Batched /\ Reached
  <2>1. stray = 0 /\ today = 0 /\ campaign = "draft" /\ loop.marketing.at = "rest"
        /\ loop.marketing.list = {} /\ loop.marketing.hand = {}
    BY <1>5 DEF MailInit
  <2> QED BY <2>1, FS_EmptySet, MailAssumption DEF Batched, Reached
<1>8. MailTypeOK
  <2>1. \A l \in Loop :
          loop[l] \in [at : AtLoop, kind : Kinds[l], list : SUBSET Person, hand : SUBSET Person]
    BY <1>4 DEF LoopShape
  <2> QED BY <1>1, <1>2, <2>1 DEF MailTypeOK, PeopleOK, BookOK, PastOK, AtLoop
<1> QED BY <1>4, <1>6, <1>7, <1>8 DEF MInv

LEMMA MailNextInv == MInv /\ [MailNext]_mailVars => MInv'
<1> SUFFICES ASSUME MInv, [MailNext]_mailVars PROVE MInv'
  OBVIOUS
<1>1. CASE SendFlows \/ SendWinback \/ SendRenewalReminders \/ SendTrialReminders \/ SendPCReminders
  BY Zenon, <1>1, SendFlowsInv, SendWinbackInv, RemindersInv
<1>2. CASE DueCampaigns \/ SendCampaigns \/ SkipsCampaign \/ Counts \/ FinishCampaign
  BY Zenon, <1>2, DueCampaignsInv, SendCampaignsInv, SkipsCampaignInv, CountsInv, FinishCampaignInv
<1>3. ASSUME NEW p \in Person, ClaimsEmail(p) \/ PersonChanges(p) \/ CapPasses(p) PROVE MInv'
  BY Zenon, <1>3, ClaimsEmailInv, PersonChangesInv, CapPassesInv
<1>4. ASSUME NEW l \in Loop, LoopStep(l) PROVE MInv'
  BY Zenon, <1>4, SendsInv, ListEndsInv, PassesInv DEF LoopStep
<1>5. CASE RelayStops \/ Midnight \/ CampaignMoves
  BY Zenon, <1>5, RelayStopsInv, MidnightInv, CampaignMovesInv
<1>6. CASE UNCHANGED mailVars
  BY <1>6, MailStutter
<1> QED BY Zenon, <1>1, <1>2, <1>3, <1>4, <1>5, <1>6 DEF MailNext

\* The invariant of the four loops that send email.
THEOREM MailInvariance == MailSpec => []MInv
<1>1. MInv /\ [MailNext]_mailVars => MInv'
  BY MailNextInv
<1> QED BY <1>1, MailInitInv, PTL DEF MailSpec

\* Nobody is sent the same email twice, or two marketing emails in a day,
\* whoever the people and whatever the limits are: through lost answers,
\* people who qualify for several flows, and a relay that stops anywhere.
THEOREM NobodyIsPestered == MailSpec => []MailIsSparing
<1>1. MInv => MailIsSparing
  BY DEF MInv, Once, Capped, MailIsSparing
<1> QED BY <1>1, MailInvariance, PTL

\* After an opt-out each loop sends at most the one email of a list it had read
\* by then, and after a campaign is cancelled at most one batch, read before or
\* after the cancel.
THEOREM StopIsHeard == MailSpec => []StopEndsIt
<1>1. MInv => StopEndsIt
  <2> SUFFICES ASSUME MInv PROVE StopEndsIt
    OBVIOUS
  <2>1. \A e \in Person \X Loop : \E p \in Person, l \in Loop : e = <<p, l>>
    OBVIOUS
  <2>2. \A e \in Person \X Loop : late[e] <= 1
    BY <2>1 DEF MInv, Stopped
  <2> QED BY <2>2 DEF MInv, Batched, StopEndsIt
<1> QED BY <1>1, MailInvariance, PTL

\* A campaign that is marked done was claimed for everybody of its segment who
\* still wanted email at the last count and has not changed since.
THEOREM DoneMeansDone == MailSpec => []DoneReachedAll
<1>1. MInv => DoneReachedAll
  BY DEF MInv, Reached, DoneReachedAll
<1> QED BY <1>1, MailInvariance, PTL

-----------------------------------------------------------------------------
(* Account.                                                                *)

\* A request that has shown who it is, and may end in a session.
Proven == {"again", "insert", "link", "ways", "subscription", "session", "mark", "wipe"}

Resetting(q) == Reset(q) /\ request[q].at \in Statement

\* A link was made by a request that is over, and so is never made again.
Minted ==
  /\ \A l \in Request : links[l] # "none" \/ uses[l] # 0 => At(l, "over")
  /\ \A q \in Request : Resetting(q) => At(request[q].link, "over")
  /\ \A q \in Request : At(q, "mark") => Reset(q)

\* Of a link nothing odd has happened to: one request at a time is resetting
\* with it, none is about to once it has been used, and as long as it could be
\* used again that request is about to mark it.
UsedOnce ==
  \A l \in Request \ odd :
    /\ uses[l] <= 1
    /\ \A q, r \in Request : Resetting(q) /\ Resetting(r)
                             /\ request[q].link = l /\ request[r].link = l => q = r
    /\ uses[l] = 1 => \A q \in Request : Resetting(q) /\ At(q, "write") => request[q].link # l
    /\ uses[l] = 1 /\ links[l] = "good" =>
         \E q \in Request : At(q, "mark") /\ request[q].link = l

\* Between dropping the links and making the new one there is none.
OneGood ==
  "links" \notin odd =>
    /\ \A q, r \in Request : At(q, "mint") /\ At(r, "mint") => q = r
    /\ \A q, l \in Request : At(q, "mint") => links[l] # "good"
    /\ \A l, m \in Request : links[l] = "good" /\ links[m] = "good" => l = m

\* Who showed who they are did so after the last change, or were at it then.
Fresh(s) == proof[s] = epoch \/ s \in straddled
ProofsHold == \A r \in Request : request[r].at \in Proven => Fresh(r)

\* A session that is not fresh is about to be deleted, or that failed.
StaleEnds ==
  \/ \E r \in Request : At(r, "mark") \/ At(r, "wipe")
  \/ "broken" \in odd
  \/ \A s \in sessions : Fresh(s)

\* The account of who was told it is staying is not about to go, nor gone but
\* by an administrator's hand.
KeptStays ==
  "kept" \in odd /\ "late" \notin odd => erasure = "no" /\ ~listed /\ (account # "gone" \/ "admin" \in odd)

\* Nor is one whose card is charged, as far as could be read.
PaidStays ==
  paid = "website" /\ "since" \notin odd /\ "unread" \notin odd =>
    /\ erasure = "no" /\ ~listed /\ (account # "gone" \/ "admin" \in odd)
    /\ \A r \in Request : ~At(r, "confirm") /\ ~At(r, "erase")

\* The inductive invariant of Account.
AInv ==
  /\ AcctTypeOK
  /\ Minted /\ UsedOnce /\ OneGood /\ ProofsHold /\ StaleEnds /\ KeptStays /\ PaidStays

-----------------------------------------------------------------------------
(* The types of Account, one group of variables at a time.                  *)

Where == Statement \cup {"new", "over"}

WaysOK ==
  /\ account \in {"none", "there", "gone"} /\ paid \in {"no", "website", "otherwise"}
  /\ erasure \in {"no", "week", "due"}

FlagsOK == hasPassword \in BOOLEAN /\ linked \in BOOLEAN /\ listed \in BOOLEAN

SessionsOK == sessions \subseteq Request \cup {Earlier} /\ (account # "there" => sessions = {})

LinksOK == links \in [Request -> {"none", "good", "used"}]

RequestOK == request \in [Request -> [kind : Cause, at : Where, link : Request]]

EpochOK == epoch \in Nat /\ proof \in [Request \cup {Earlier} -> 0 .. epoch]

UsesOK == straddled \subseteq Request /\ uses \in [Request -> Nat]

OddOK == odd \subseteq Request \cup {"broken", "links", "kept", "late", "since", "unread", "admin"}

LEMMA AcctTypes ==
  ASSUME AcctTypeOK
  PROVE  WaysOK /\ FlagsOK /\ SessionsOK /\ LinksOK /\ RequestOK /\ EpochOK /\ UsesOK /\ OddOK
  BY Zenon DEF AcctTypeOK, WaysOK, FlagsOK, SessionsOK, LinksOK, RequestOK, EpochOK, UsesOK,
     OddOK, Where

LEMMA AcctTypesNext ==
  ASSUME WaysOK', FlagsOK', SessionsOK', LinksOK', RequestOK', EpochOK', UsesOK', OddOK'
  PROVE  AcctTypeOK'
  BY Zenon DEF AcctTypeOK, WaysOK, FlagsOK, SessionsOK, LinksOK, RequestOK, EpochOK, UsesOK,
     OddOK, Where

\* What is left alone keeps its type.
LEMMA AcctFrames ==
  ASSUME AcctTypeOK
  PROVE  /\ UNCHANGED <<account, paid, erasure>> => WaysOK'
         /\ UNCHANGED <<hasPassword, linked, listed>> => FlagsOK'
         /\ UNCHANGED <<account, sessions>> => SessionsOK'
         /\ UNCHANGED links => LinksOK'
         /\ UNCHANGED request => RequestOK'
         /\ UNCHANGED <<epoch, proof>> => EpochOK'
         /\ UNCHANGED <<straddled, uses>> => UsesOK'
         /\ UNCHANGED odd => OddOK'
  BY AcctTypes, Zenon DEF WaysOK, FlagsOK, SessionsOK, LinksOK, RequestOK, EpochOK, UsesOK, OddOK

\* One request moves on, and is otherwise what it was.
LEMMA GoesIs ==
  ASSUME RequestOK, NEW r \in Request, NEW to \in Where, Goes(r, to)
  PROVE  /\ RequestOK'
         /\ request'[r].at = to
         /\ \A q \in Request : q # r => request'[q] = request[q]
         /\ \A q \in Request : /\ request'[q].kind = request[q].kind
                               /\ request'[q].link = request[q].link
  BY DEF RequestOK, Goes

\* The words odd holds are no requests.
LEMMA OddWords ==
  \A w \in {"broken", "links", "kept", "late", "since", "unread", "admin"} : w \notin Request
  BY AccountAssumption

-----------------------------------------------------------------------------
(* What a step has to leave alone for each part of the invariant to hold.   *)

\* No request takes up a reset, the write of a reset, or a mark; one that was
\* about to mark a link still is, or the link is no good any more.
ResetsRest ==
  \A q \in Request :
    /\ request'[q].kind = request[q].kind /\ request'[q].link = request[q].link
    /\ At(q, "over") => At(q, "over")'
    /\ At(q, "mark")' => At(q, "mark")
    /\ At(q, "mark") => At(q, "mark")' \/ request[q].link \in odd'
                        \/ links'[request[q].link] # "good"
    /\ Resetting(q)' => Resetting(q)
    /\ Resetting(q)' /\ At(q, "write")' => At(q, "write")

\* A link changes by going, or its request is over and has had no use made of it.
LinksRest ==
  /\ \A l \in Request :
       \/ links'[l] = links[l] \/ links'[l] = "none"
       \/ At(l, "over")' /\ (links'[l] = "good" => uses[l] = 0)
  /\ uses' = uses /\ \A l \in Request : l \in odd => l \in odd'

LEMMA LinkFrame ==
  ASSUME AInv, RequestOK', ResetsRest, LinksRest
  PROVE  Minted' /\ UsedOnce'
<1> USE DEF AInv, ResetsRest, LinksRest
<1>1. \A q \in Request : request[q].link \in Request /\ request'[q].link = request[q].link
  BY AcctTypes DEF RequestOK
<1>2. Minted'
  <2>1. ASSUME NEW l \in Request, links'[l] # "none" \/ uses'[l] # 0 PROVE At(l, "over")'
    BY <2>1 DEF Minted
  <2>2. ASSUME NEW q \in Request, Resetting(q)' PROVE At(request[q].link, "over")'
    BY <1>1, <2>2 DEF Minted
  <2>3. ASSUME NEW q \in Request, At(q, "mark")' PROVE Reset(q)'
    BY <2>3 DEF Minted, Reset
  <2> QED BY <1>1, <2>1, <2>2, <2>3 DEF Minted, At
<1>3. UsedOnce'
  <2> SUFFICES ASSUME NEW l \in Request, l \notin odd'
               PROVE  /\ uses'[l] <= 1
                      /\ \A q, r \in Request : Resetting(q)' /\ Resetting(r)'
                           /\ request'[q].link = l /\ request'[r].link = l => q = r
                      /\ uses'[l] = 1 => \A q \in Request :
                           Resetting(q)' /\ At(q, "write")' => request'[q].link # l
                      /\ uses'[l] = 1 /\ links'[l] = "good" =>
                           \E q \in Request : At(q, "mark")' /\ request'[q].link = l
    BY Zenon DEF UsedOnce, At, Resetting, Reset
  <2>1. l \in Request \ odd
    OBVIOUS
  <2>2. uses'[l] <= 1
    BY <2>1 DEF UsedOnce
  <2>3. ASSUME NEW q \in Request, NEW r \in Request, Resetting(q)', Resetting(r)',
               request'[q].link = l, request'[r].link = l
        PROVE  q = r
    BY <1>1, <2>1, <2>3 DEF UsedOnce
  <2>4. ASSUME uses'[l] = 1, NEW q \in Request, Resetting(q)', At(q, "write")'
        PROVE  request'[q].link # l
    BY <1>1, <2>1, <2>4 DEF UsedOnce
  <2>5. ASSUME uses'[l] = 1, links'[l] = "good"
        PROVE  \E q \in Request : At(q, "mark")' /\ request'[q].link = l
    <3>1. links[l] = "good" /\ uses[l] = 1
      BY <2>5
    <3>2. PICK q \in Request : At(q, "mark") /\ request[q].link = l
      BY <2>1, <3>1 DEF UsedOnce
    <3>3. request'[q].link = l /\ At(q, "mark")'
      BY <1>1, <2>5, <3>2
    <3> QED BY <3>3
  <2> QED BY <2>2, <2>3, <2>4, <2>5
<1> QED BY <1>2, <1>3

\* No request comes to make a link.
MintRests ==
  /\ \A q \in Request : At(q, "mint")' => At(q, "mint")
  /\ \A l \in Request : links'[l] = "good" => links[l] = "good"
  /\ "links" \in odd => "links" \in odd'

LEMMA MintFrame == ASSUME AInv, MintRests PROVE OneGood'
<1> SUFFICES ASSUME "links" \notin odd'
             PROVE  /\ \A q, r \in Request : At(q, "mint")' /\ At(r, "mint")' => q = r
                    /\ \A q, l \in Request : At(q, "mint")' => links'[l] # "good"
                    /\ \A l, m \in Request : links'[l] = "good" /\ links'[m] = "good" => l = m
  BY Zenon DEF OneGood, At
<1> QED BY DEF AInv, MintRests, OneGood

\* Nobody is shown to be who they are but by a look now.
ProofsRest ==
  /\ epoch' = epoch /\ straddled' = straddled
  /\ \A s \in Request \cup {Earlier} : proof'[s] = proof[s] \/ proof'[s] = epoch
  /\ \A q \in Request : request'[q].at \in Proven => request[q].at \in Proven \/ proof'[q] = epoch

LEMMA ProofsFrame ==
  ASSUME AInv, ProofsRest
  PROVE  ProofsHold' /\ (\A s \in Request \cup {Earlier} : Fresh(s) => Fresh(s)')
  BY DEF AInv, ProofsRest, ProofsHold, Fresh

StaleRests ==
  /\ sessions' \subseteq sessions \cup {r \in Request : At(r, "session")}
  /\ \A q \in Request : At(q, "mark") \/ At(q, "wipe") => At(q, "mark")' \/ At(q, "wipe")'
  /\ "broken" \in odd => "broken" \in odd'

LEMMA StaleFrame == ASSUME AInv, ProofsRest, StaleRests PROVE StaleEnds'
<1> USE DEF AInv, StaleRests
<1>1. CASE \E r \in Request : At(r, "mark") \/ At(r, "wipe")
  BY <1>1 DEF StaleEnds
<1>2. CASE "broken" \in odd
  BY <1>2 DEF StaleEnds
<1>3. CASE \A s \in sessions : Fresh(s)
  <2>1. sessions \subseteq Request \cup {Earlier}
    BY AcctTypes DEF SessionsOK
  <2>2. \A r \in Request : At(r, "session") => Fresh(r)
    BY DEF ProofsHold, At, Proven
  <2>3. \A s \in sessions' : s \in Request \cup {Earlier} /\ Fresh(s)
    BY <1>3, <2>1, <2>2
  <2>4. \A s \in sessions' : Fresh(s)'
    BY <2>3, ProofsFrame
  <2> QED BY <2>4 DEF StaleEnds
<1> QED BY <1>1, <1>2, <1>3 DEF StaleEnds

\* Nobody is on the way out who was not.
LeavingRests ==
  /\ erasure' = erasure /\ listed' = listed /\ paid' = paid
  /\ account' = "gone" => account = "gone"
  /\ \A q \in Request : At(q, "confirm")' \/ At(q, "erase")' => At(q, "confirm") \/ At(q, "erase")
  /\ "kept" \in odd' => "kept" \in odd
  /\ "late" \in odd => "late" \in odd'
  /\ \A w \in {"since", "unread", "admin"} : w \in odd => w \in odd'

LEMMA LeavingFrame == ASSUME AInv, LeavingRests PROVE KeptStays' /\ PaidStays'
<1> USE DEF AInv, LeavingRests
<1>1. KeptStays'
  BY DEF KeptStays
<1>2. PaidStays'
  <2> SUFFICES ASSUME paid' = "website", "since" \notin odd', "unread" \notin odd'
               PROVE  /\ erasure' = "no" /\ ~listed' /\ (account' # "gone" \/ "admin" \in odd')
                      /\ \A r \in Request : ~At(r, "confirm")' /\ ~At(r, "erase")'
    BY Zenon DEF PaidStays, At
  <2> QED BY DEF PaidStays
<1> QED BY <1>1, <1>2

-----------------------------------------------------------------------------
(* A request that goes on to something that touches no link, no erasure and *)
(* no change that is under way.                                             *)

LEMMA StillRests == ASSUME request' = request PROVE ResetsRest
  BY DEF ResetsRest, Resetting, Reset, At

LEMMA MoveRests ==
  ASSUME RequestOK, NEW r \in Request, NEW to \in Where \ {"new", "mark"}, Goes(r, to),
         ~At(r, "over"), ~At(r, "mark"), At(r, "new") => ~Reset(r), to = "write" => ~Reset(r)
  PROVE  ResetsRest
<1>1. /\ request'[r].at = to
      /\ \A q \in Request : q # r => request'[q] = request[q]
      /\ \A q \in Request : /\ request'[q].kind = request[q].kind
                            /\ request'[q].link = request[q].link
  BY GoesIs
<1>2. request[r].at \in Where
  BY DEF RequestOK
<1> QED BY <1>1, <1>2 DEF ResetsRest, Resetting, Reset, At, Where

LEMMA RestsInv ==
  ASSUME AInv, AcctTypeOK', ResetsRest, LinksRest, MintRests, ProofsRest, StaleRests, LeavingRests
  PROVE  AInv'
<1>1. RequestOK'
  BY AcctTypes, Zenon DEF AcctTypeOK, RequestOK, Where
<1> QED BY Zenon, <1>1, LinkFrame, MintFrame, ProofsFrame, StaleFrame, LeavingFrame DEF AInv

MoveVars == <<paid, erasure, links, listed, epoch, straddled, uses>>

LEMMA MoveInv ==
  ASSUME AInv, NEW r \in Request,
         NEW to \in Where \ {"new", "mark", "mint", "confirm", "erase"}, Goes(r, to),
         ~At(r, "over"), ~At(r, "mark"), ~At(r, "wipe"),
         At(r, "new") => ~Reset(r), to = "write" => ~Reset(r),
         to \in Proven => request[r].at \in Proven \/ proof'[r] = epoch,
         UNCHANGED MoveVars, odd \subseteq odd', odd' \subseteq odd \cup {"broken", "links", "since"},
         account' = "gone" => account = "gone",
         \A s \in Request \cup {Earlier} : proof'[s] = proof[s] \/ proof'[s] = epoch,
         sessions' \subseteq sessions \cup {q \in Request : At(q, "session")},
         AcctTypeOK'
  PROVE  AInv'
<1> USE DEF MoveVars
<1>1. RequestOK
  BY AcctTypes DEF AInv
<1>2. /\ request'[r].at = to
      /\ \A q \in Request : q # r => request'[q] = request[q]
  BY <1>1, GoesIs
<1>3. ResetsRest
  BY <1>1, MoveRests
<1>4. LinksRest
  BY DEF LinksRest, At
<1>5. MintRests
  BY <1>2 DEF MintRests, At
<1>6. ProofsRest
  BY <1>2 DEF ProofsRest
<1>7. StaleRests
  BY <1>2 DEF StaleRests, At
<1>8. LeavingRests
  BY <1>2 DEF LeavingRests, At
<1> QED BY Zenon, <1>3, <1>4, <1>5, <1>6, <1>7, <1>8, RestsInv

\* A plain move changes no variable but the request's.
LEMMA PlainInv ==
  ASSUME AInv, NEW r \in Request,
         NEW to \in Where \ {"new", "mark", "mint", "confirm", "erase"}, Goes(r, to),
         ~At(r, "over"), ~At(r, "mark"), ~At(r, "wipe"),
         At(r, "new") => ~Reset(r), to = "write" => ~Reset(r),
         to \in Proven => request[r].at \in Proven,
         UNCHANGED <<columns, sessions, links, listed, acctPast>>
  PROVE  AInv'
<1> USE DEF columns, acctPast
<1>1. AcctTypeOK /\ RequestOK
  BY AcctTypes DEF AInv
<1>2. RequestOK'
  BY <1>1, GoesIs
<1>3. AcctTypeOK'
  BY Zenon, <1>1, <1>2, AcctFrames, AcctTypesNext
<1>4. UNCHANGED MoveVars /\ odd' = odd /\ account' = account /\ sessions' = sessions
      /\ proof' = proof
  BY DEF MoveVars
<1> QED BY <1>3, <1>4, MoveInv

LEMMA StatementsAre ==
  Where = {"again", "remove", "insert", "link", "ways", "subscription", "session", "drop", "mint",
           "first", "write", "mark", "wipe", "confirm", "erase", "new", "over"}
  BY DEF Where, Statement

LEMMA LookInv == ASSUME AInv, NEW r \in Request, Look(r) PROVE AInv'
<1> USE DEF Look, columns
<1>1. AcctTypeOK /\ RequestOK /\ EpochOK
  BY AcctTypes DEF AInv
<1>2. PICK to \in {"insert", "again", "over", "ways", "session", "link"} :
        Goes(r, to) /\ At(r, "new") /\ ~Reset(r)
  <2>1. Register(r) => Arrives(r, "register")
                       /\ \E to \in {"insert", "over"} : Goes(r, to)
    BY DEF Register
  <2>2. Start(r) => Arrives(r, "start")
                    /\ \E to \in {"again", "ways", "over"} : Goes(r, to)
    <3>1. account \in {"none", "there", "gone"}
      BY <1>1, AcctTypes DEF WaysOK
    <3>2. CASE account = "none"
      BY <3>2 DEF Start
    <3>3. CASE account = "there"
      BY <3>3 DEF Start
    <3>4. CASE account = "gone"
      BY <3>4 DEF Start
    <3> QED BY <3>1, <3>2, <3>3, <3>4
  <2>3. Continue(r) => Arrives(r, "start") /\ \E to \in {"ways", "over"} : Goes(r, to)
    BY DEF Continue
  <2>4. Login(r) => Arrives(r, "login") /\ \E to \in {"session", "over"} : Goes(r, to)
    BY DEF Login
  <2>5. OAuth(r) => Arrives(r, "oauth")
                    /\ \E to \in {"session", "link", "again", "over"} : Goes(r, to)
    <3>1. account \in {"none", "there", "gone"} /\ linked \in BOOLEAN
      BY <1>1, AcctTypes DEF WaysOK, FlagsOK
    <3>2. CASE account = "none"
      BY <3>2 DEF OAuth, AccountByIdentity
    <3>3. CASE account = "there" /\ linked
      BY <3>3 DEF OAuth, AccountByIdentity
    <3>4. CASE account = "there" /\ ~linked
      BY <3>4 DEF OAuth, AccountByIdentity
    <3>5. CASE account = "gone"
      BY <3>5 DEF OAuth, AccountByIdentity
    <3> QED BY <3>1, <3>2, <3>3, <3>4, <3>5
  <2> QED BY <2>1, <2>2, <2>3, <2>4, <2>5 DEF Arrives, Reset
<1>3. to \in Where \ {"new", "mark", "mint", "confirm", "erase"} /\ to # "write"
  BY <1>2, StatementsAre
<1>4. RequestOK'
  BY <1>1, <1>2, <1>3, GoesIs
<1>5. EpochOK' /\ proof'[r] = epoch
      /\ \A s \in Request \cup {Earlier} : proof'[s] = proof[s] \/ proof'[s] = epoch
  BY <1>1 DEF EpochOK
<1>6. AcctTypeOK'
  BY Zenon, <1>1, <1>4, <1>5, AcctFrames, AcctTypesNext
<1>7. UNCHANGED MoveVars /\ odd' = odd /\ account' = account /\ sessions' = sessions
  BY DEF MoveVars
<1>8. ~At(r, "over") /\ ~At(r, "mark") /\ ~At(r, "wipe")
  BY <1>2 DEF At
<1> QED BY <1>2, <1>3, <1>5, <1>6, <1>7, <1>8, MoveInv

LEMMA LooksAgainInv == ASSUME AInv, NEW r \in Request, LooksAgain(r) PROVE AInv'
<1>1. PICK to \in {"insert", "ways", "over"} : Goes(r, to)
  BY DEF LooksAgain
<1>2. to \in Where \ {"new", "mark", "mint", "confirm", "erase"} /\ to # "write"
  BY <1>1, StatementsAre
<1>3. ~At(r, "over") /\ ~At(r, "mark") /\ ~At(r, "wipe") /\ ~At(r, "new")
      /\ request[r].at \in Proven
  BY DEF LooksAgain, At, Proven
<1> QED BY <1>1, <1>2, <1>3, PlainInv DEF LooksAgain

LEMMA InsertInv == ASSUME AInv, NEW r \in Request, Insert(r) PROVE AInv'
<1> USE DEF Insert, acctPast
<1>1. AcctTypeOK /\ RequestOK /\ WaysOK /\ FlagsOK /\ SessionsOK
  BY AcctTypes DEF AInv
<1>2. PICK to \in {"session", "link", "over"} :
        /\ Goes(r, to)
        /\ \/ account = "none" /\ account' = "there" /\ hasPassword' \in BOOLEAN
           \/ account' = account /\ hasPassword' = hasPassword
  BY DEF WithPassword, StartAccount, Made
<1>3. to \in Where \ {"new", "mark", "mint", "confirm", "erase"} /\ to # "write"
  BY <1>2, StatementsAre
<1>4. RequestOK'
  BY <1>1, <1>2, <1>3, GoesIs
<1>5. WaysOK' /\ SessionsOK'
  BY <1>1, <1>2 DEF WaysOK, SessionsOK
<1>6. FlagsOK'
  BY <1>1, <1>2, Zenon DEF FlagsOK
<1>7. AcctTypeOK'
  BY Zenon, <1>1, <1>4, <1>5, <1>6, AcctFrames, AcctTypesNext
<1>8. UNCHANGED MoveVars /\ odd' = odd /\ (account' = "gone" => account = "gone")
      /\ sessions' = sessions /\ proof' = proof
  BY <1>2 DEF MoveVars
<1>9. ~At(r, "over") /\ ~At(r, "mark") /\ ~At(r, "wipe") /\ ~At(r, "new")
      /\ request[r].at \in Proven
  BY DEF At, Proven
<1> QED BY <1>2, <1>3, <1>7, <1>8, <1>9, MoveInv

LEMMA LinkIdentityInv == ASSUME AInv, NEW r \in Request, LinkIdentity(r) PROVE AInv'
<1> USE DEF LinkIdentity, acctPast
<1>1. AcctTypeOK /\ RequestOK /\ FlagsOK
  BY AcctTypes DEF AInv
<1>2. "session" \in Where \ {"new", "mark", "mint", "confirm", "erase"}
  BY StatementsAre
<1>3. RequestOK'
  BY <1>1, <1>2, GoesIs
<1>4. FlagsOK'
  BY <1>1, Zenon DEF FlagsOK
<1>5. AcctTypeOK'
  BY Zenon, <1>1, <1>3, <1>4, AcctFrames, AcctTypesNext
<1>6. UNCHANGED MoveVars /\ odd' = odd /\ account' = account /\ sessions' = sessions
      /\ proof' = proof
  BY DEF MoveVars
<1>7. ~At(r, "over") /\ ~At(r, "mark") /\ ~At(r, "wipe") /\ ~At(r, "new")
      /\ request[r].at \in Proven
  BY DEF At, Proven
<1> QED BY <1>2, <1>5, <1>6, <1>7, MoveInv

LEMMA StartExistingInv == ASSUME AInv, NEW r \in Request, StartExisting(r) PROVE AInv'
<1>1. PICK to \in {"over", "subscription", "session", "drop"} : Goes(r, to)
  BY DEF StartExisting
<1>2. to \in Where \ {"new", "mark", "mint", "confirm", "erase"} /\ to # "write"
  BY <1>1, StatementsAre
<1>3. ~At(r, "over") /\ ~At(r, "mark") /\ ~At(r, "wipe") /\ ~At(r, "new")
      /\ request[r].at \in Proven
  BY DEF StartExisting, At, Proven
<1> QED BY <1>1, <1>2, <1>3, PlainInv DEF StartExisting

LEMMA NewSessionInv == ASSUME AInv, NEW r \in Request, NewSession(r) PROVE AInv'
<1> USE DEF NewSession, acctPast, columns
<1>1. AcctTypeOK /\ RequestOK /\ SessionsOK
  BY AcctTypes DEF AInv
<1>2. "over" \in Where \ {"new", "mark", "mint", "confirm", "erase"} /\ "over" \notin Proven
  BY StatementsAre DEF Proven
<1>3. RequestOK'
  BY <1>1, <1>2, GoesIs
<1>4. SessionsOK'
  BY <1>1 DEF SessionsOK
<1>5. AcctTypeOK'
  BY Zenon, <1>1, <1>3, <1>4, AcctFrames, AcctTypesNext
<1>6. UNCHANGED MoveVars /\ odd' = odd /\ account' = account /\ proof' = proof
      /\ sessions' \subseteq sessions \cup {q \in Request : At(q, "session")}
  BY DEF MoveVars
<1>7. ~At(r, "over") /\ ~At(r, "mark") /\ ~At(r, "wipe") /\ ~At(r, "new")
  BY DEF At
<1> QED BY <1>2, <1>5, <1>6, <1>7, MoveInv

LEMMA FirstPasswordInv == ASSUME AInv, NEW r \in Request, FirstPassword(r) PROVE AInv'
<1>1. "first" \in Where \ {"new", "mark", "mint", "confirm", "erase"} /\ "first" \notin Proven
  BY StatementsAre DEF Proven
<1>2. ~At(r, "over") /\ ~At(r, "mark") /\ ~At(r, "wipe") /\ ~Reset(r)
  BY DEF FirstPassword, Arrives, At, Reset
<1> QED BY <1>1, <1>2, PlainInv DEF FirstPassword

LEMMA ForgotInv == ASSUME AInv, NEW r \in Request, Forgot(r) PROVE AInv'
<1>1. PICK to \in {"drop", "over"} : Goes(r, to)
  BY DEF Forgot
<1>2. to \in Where \ {"new", "mark", "mint", "confirm", "erase"} /\ to \notin Proven /\ to # "write"
  BY <1>1, StatementsAre DEF Proven
<1>3. ~At(r, "over") /\ ~At(r, "mark") /\ ~At(r, "wipe") /\ ~Reset(r)
  BY DEF Forgot, Arrives, At, Reset
<1> QED BY <1>1, <1>2, <1>3, PlainInv DEF Forgot

LEMMA SetFirstPasswordInv == ASSUME AInv, NEW r \in Request, SetFirstPassword(r) PROVE AInv'
<1> USE DEF SetFirstPassword, acctPast
<1>1. AcctTypeOK /\ RequestOK /\ FlagsOK
  BY AcctTypes DEF AInv
<1>2. "over" \in Where \ {"new", "mark", "mint", "confirm", "erase"} /\ "over" \notin Proven
  BY StatementsAre DEF Proven
<1>3. RequestOK'
  BY <1>1, <1>2, GoesIs
<1>4. FlagsOK'
  BY <1>1, Zenon DEF FlagsOK
<1>5. AcctTypeOK'
  BY Zenon, <1>1, <1>3, <1>4, AcctFrames, AcctTypesNext
<1>6. UNCHANGED MoveVars /\ odd' = odd /\ account' = account /\ sessions' = sessions
      /\ proof' = proof
  BY DEF MoveVars
<1>7. ~At(r, "over") /\ ~At(r, "mark") /\ ~At(r, "wipe") /\ ~At(r, "new")
  BY DEF At
<1> QED BY <1>2, <1>5, <1>6, <1>7, MoveInv

-----------------------------------------------------------------------------
(* Links.                                                                  *)

LEMMA DropLinksInv == ASSUME AInv, NEW r \in Request, DropLinks(r) PROVE AInv'
<1> USE DEF DropLinks, columns, AInv
<1>1. AcctTypeOK /\ RequestOK /\ LinksOK /\ OddOK
  BY AcctTypes
<1>2. "mint" \in Where \ {"new", "mark"} /\ "mint" \notin Proven
  BY StatementsAre DEF Proven
<1>3. /\ RequestOK' /\ request'[r].at = "mint"
      /\ \A q \in Request : q # r => request'[q] = request[q]
  BY <1>1, <1>2, GoesIs
<1>4. ResetsRest
  BY <1>1, <1>2, MoveRests DEF At
<1>5. LinksOK' /\ OddOK' /\ odd \subseteq odd' /\ odd' \subseteq odd \cup {"links"}
  BY <1>1 DEF LinksOK, OddOK
<1>6. AcctTypeOK'
  BY Zenon, <1>1, <1>3, <1>5, AcctFrames, AcctTypesNext
<1>7. \A l \in Request : links'[l] # "good" /\ (links'[l] = links[l] \/ links'[l] = "none")
  BY <1>1 DEF LinksOK
<1>8. LinksRest
  BY <1>5, <1>7 DEF LinksRest
<1>9. OneGood'
  <2>1. "links" \notin odd' => \A q \in Request : ~At(q, "mint")
    OBVIOUS
  <2>2. "links" \notin odd' => \A q \in Request : At(q, "mint")' => q = r
    BY <1>3, <2>1 DEF At
  <2>3. "links" \notin odd' =>
          /\ \A q, s \in Request : At(q, "mint")' /\ At(s, "mint")' => q = s
          /\ \A q, l \in Request : At(q, "mint")' => links'[l] # "good"
          /\ \A l, m \in Request : links'[l] = "good" /\ links'[m] = "good" => l = m
    BY <1>7, <2>2
  <2> QED BY <2>3, Zenon DEF OneGood, At
<1>10. ProofsRest
  BY <1>2, <1>3 DEF ProofsRest
<1>11. StaleRests /\ LeavingRests
  BY <1>3, <1>5 DEF StaleRests, LeavingRests, At
<1> QED BY Zenon, <1>3, <1>4, <1>6, <1>8, <1>9, <1>10, <1>11, LinkFrame, ProofsFrame, StaleFrame,
           LeavingFrame

LEMMA MintLinkInv == ASSUME AInv, NEW r \in Request, MintLink(r) PROVE AInv'
<1> USE DEF MintLink, columns, acctPast, AInv
<1>1. AcctTypeOK /\ RequestOK /\ LinksOK /\ UsesOK
  BY AcctTypes
<1>2. "over" \in Where \ {"new", "mark"} /\ "over" \notin Proven
  BY StatementsAre DEF Proven
<1>3. /\ RequestOK' /\ request'[r].at = "over"
      /\ \A q \in Request : q # r => request'[q] = request[q]
  BY <1>1, <1>2, GoesIs
<1>4. ResetsRest
  BY <1>1, <1>2, MoveRests DEF At
<1>5. LinksOK' /\ links'[r] = "good" /\ \A l \in Request : l # r => links'[l] = links[l]
  BY <1>1 DEF LinksOK
<1>6. AcctTypeOK'
  BY Zenon, <1>1, <1>3, <1>5, AcctFrames, AcctTypesNext
<1>7. LinksRest
  <2>1. uses[r] = 0 /\ At(r, "over")'
    BY <1>3 DEF Minted, At
  <2> QED BY <1>5, <2>1 DEF LinksRest, At
<1>8. OneGood'
  <2>1. "links" \notin odd =>
          \A q \in Request : (At(q, "mint") => q = r) /\ links[q] # "good"
    BY DEF OneGood
  <2>2. "links" \notin odd' =>
          /\ \A q \in Request : ~At(q, "mint")'
          /\ \A l \in Request : links'[l] = "good" => l = r
    BY <1>3, <1>5, <2>1 DEF At
  <2>3. "links" \notin odd' =>
          /\ \A q, s \in Request : At(q, "mint")' /\ At(s, "mint")' => q = s
          /\ \A q, l \in Request : At(q, "mint")' => links'[l] # "good"
          /\ \A l, m \in Request : links'[l] = "good" /\ links'[m] = "good" => l = m
    BY <2>2
  <2> QED BY <2>3, Zenon DEF OneGood, At
<1>9. ProofsRest
  BY <1>2, <1>3 DEF ProofsRest
<1>10. StaleRests /\ LeavingRests
  BY <1>3 DEF StaleRests, LeavingRests, At
<1> QED BY Zenon, <1>3, <1>4, <1>6, <1>7, <1>8, <1>9, <1>10, LinkFrame, ProofsFrame, StaleFrame,
           LeavingFrame

LEMMA LinkExpiresInv == ASSUME AInv, NEW l \in Request, LinkExpires(l) PROVE AInv'
<1> USE DEF LinkExpires, columns, acctPast, AInv
<1>1. AcctTypeOK /\ RequestOK /\ LinksOK
  BY AcctTypes
<1>2. LinksOK' /\ \A m \in Request : links'[m] = links[m] \/ links'[m] = "none"
  BY <1>1 DEF LinksOK
<1>3. AcctTypeOK'
  BY Zenon, <1>1, <1>2, AcctFrames, AcctTypesNext
<1>4. ResetsRest
  BY StillRests
<1>5. LinksRest
  BY <1>2 DEF LinksRest, At
<1>6. MintRests
  BY <1>2 DEF MintRests, At
<1>7. ProofsRest /\ StaleRests /\ LeavingRests
  BY DEF ProofsRest, StaleRests, LeavingRests, At
<1> QED BY Zenon, <1>3, <1>4, <1>5, <1>6, <1>7, RestsInv

LEMMA MarkUsedInv == ASSUME AInv, NEW r \in Request, MarkUsed(r) PROVE AInv'
<1> USE DEF MarkUsed, columns, acctPast, AInv
<1>1. AcctTypeOK /\ RequestOK /\ LinksOK
  BY AcctTypes
<1>11. PICK link \in Request : link = request[r].link
  BY <1>1 DEF RequestOK
<1>2. "wipe" \in Where /\ "wipe" \in Proven /\ "mark" \in Proven
  BY StatementsAre DEF Proven
<1>3. /\ RequestOK' /\ request'[r].at = "wipe"
      /\ \A q \in Request : q # r => request'[q] = request[q]
      /\ \A q \in Request : /\ request'[q].kind = request[q].kind
                            /\ request'[q].link = request[q].link
  BY <1>1, <1>2, GoesIs
<1>4. /\ LinksOK' /\ links'[link] # "good" /\ (links'[link] = links[link] \/ links[link] = "good")
      /\ \A l \in Request : l # link => links'[l] = links[l]
  BY <1>1, <1>11 DEF LinksOK
<1>5. AcctTypeOK'
  BY Zenon, <1>1, <1>3, <1>4, AcctFrames, AcctTypesNext
<1>6. ResetsRest
  <2>1. Reset(r) /\ Resetting(r)
    BY DEF Minted, Resetting, At, Statement
  <2> QED BY <1>3, <1>4, <1>11, <2>1 DEF ResetsRest, Resetting, Reset, At
<1>7. LinksRest
  <2>1. links[link] = "good" => At(link, "over")'
    BY <1>1, <1>6 DEF Minted, ResetsRest
  <2> QED BY <1>4, <2>1 DEF LinksRest, At
<1>8. MintRests
  BY <1>3, <1>4 DEF MintRests, At
<1>9. ProofsRest
  BY <1>2, <1>3 DEF ProofsRest, At
<1>10. StaleRests /\ LeavingRests
  BY <1>3 DEF StaleRests, LeavingRests, At
<1> QED BY Zenon, <1>5, <1>6, <1>7, <1>8, <1>9, <1>10, RestsInv

-----------------------------------------------------------------------------
(* Passwords.                                                              *)

\* A request with a link takes up the reset: if another is at it, or the link
\* was used and a mark has yet to come, the link is odd from here on.
LEMMA MayResetInv ==
  ASSUME AInv, NEW r \in Request, MayReset(r),
         UNCHANGED <<columns, sessions, links, listed, epoch, proof, straddled, uses>>
  PROVE  AInv'
<1> USE DEF columns, AInv
<1>1. AcctTypeOK /\ RequestOK /\ LinksOK /\ OddOK
  BY AcctTypes
<1>2. PICK l \in Request :
        /\ Arrives(r, "reset") /\ links[l] = "good"
        /\ request' = [request EXCEPT ![r].at = "write", ![r].link = l]
        /\ odd' = IF \E q \in UnderWay : request[q].kind = "reset" /\ request[q].link = l
                  THEN odd \cup {l} ELSE odd
  BY DEF MayReset
<1>3. "write" \in Where /\ "write" \notin Proven
  BY StatementsAre DEF Proven
<1>4. /\ RequestOK'
      /\ request'[r].at = "write" /\ request'[r].kind = "reset" /\ request'[r].link = l
      /\ \A q \in Request : q # r => request'[q] = request[q]
  <2> DEFINE new == [[request[r] EXCEPT !.at = "write"] EXCEPT !.link = l]
  <2>1. request[r] \in [kind : Cause, at : Where, link : Request] /\ request[r].kind = "reset"
    BY <1>1, <1>2 DEF RequestOK, Arrives
  <2>2. /\ new \in [kind : Cause, at : Where, link : Request]
        /\ new.at = "write" /\ new.kind = "reset" /\ new.link = l
    BY <1>3, <2>1
  <2>3. request' = [request EXCEPT ![r] = new]
    BY <1>1, <1>2 DEF RequestOK
  <2> HIDE DEF new
  <2> QED BY <1>1, <2>2, <2>3 DEF RequestOK
<1>5. /\ OddOK' /\ odd \subseteq odd' /\ odd' \subseteq odd \cup {l}
  BY <1>1, <1>2 DEF OddOK
<1>6. AcctTypeOK'
  BY Zenon, <1>1, <1>4, <1>5, AcctFrames, AcctTypesNext
<1>7. At(r, "new") /\ ~Resetting(r) /\ At(l, "over") /\ l # r
  BY <1>2 DEF Arrives, Minted, Resetting, At, Statement
<1>8. \A q \in Request : q # r => /\ Resetting(q)' <=> Resetting(q)
                                  /\ \A at \in Where : At(q, at)' <=> At(q, at)
                                  /\ request'[q].link = request[q].link
  BY <1>4 DEF Resetting, Reset, At
<1>9. Minted'
  <2>1. \A m \in Request : At(m, "over") => At(m, "over")'
    BY <1>4, <1>7 DEF At
  <2>2. ASSUME NEW q \in Request, Resetting(q)' PROVE At(request[q].link, "over")'
    <3>1. CASE q = r
      BY <1>4, <1>7, <3>1 DEF At
    <3>2. CASE q # r
      BY <1>1, <1>4, <1>7, <1>8, <2>2, <3>2 DEF Minted, RequestOK, At
    <3> QED BY <3>1, <3>2
  <2>3. \A q \in Request : At(q, "mark")' => Reset(q)'
    BY <1>4, <1>7 DEF Minted, Reset, At
  <2>4. \A m \in Request : links'[m] # "none" \/ uses'[m] # 0 => At(m, "over")'
    BY <2>1 DEF Minted
  <2> QED BY <2>2, <2>3, <2>4, Zenon DEF Minted
<1>10. UsedOnce'
  <2> SUFFICES ASSUME NEW m \in Request, m \notin odd'
               PROVE  /\ uses'[m] <= 1
                      /\ \A q, s \in Request : Resetting(q)' /\ Resetting(s)'
                           /\ request'[q].link = m /\ request'[s].link = m => q = s
                      /\ uses'[m] = 1 => \A q \in Request :
                           Resetting(q)' /\ At(q, "write")' => request'[q].link # m
                      /\ uses'[m] = 1 /\ links'[m] = "good" =>
                           \E q \in Request : At(q, "mark")' /\ request'[q].link = m
    BY Zenon DEF UsedOnce, At, Resetting, Reset
  <2>1. m \in Request \ odd /\ uses'[m] = uses[m] /\ links'[m] = links[m] /\ uses[m] <= 1
    BY <1>5 DEF UsedOnce
  <2>2. "mark" \in Where /\ "write" \in Where
    BY StatementsAre
  <2>3. uses'[m] = 1 /\ links'[m] = "good" =>
           \E q \in Request : At(q, "mark")' /\ request'[q].link = m
    <3>1. uses'[m] = 1 /\ links'[m] = "good" =>
            \E q \in Request : At(q, "mark") /\ request[q].link = m
      BY <2>1 DEF UsedOnce
    <3>2. ~At(r, "mark")
      BY <1>7 DEF At
    <3> QED BY <1>8, <2>2, <3>1, <3>2
  <2>4. CASE m # l
    <3>1. \A q \in Request : Resetting(q)' /\ request'[q].link = m =>
                               q # r /\ Resetting(q) /\ request[q].link = m
      BY <1>4, <1>8, <2>4
    <3>2. \A q, s \in Request : Resetting(q)' /\ Resetting(s)'
                           /\ request'[q].link = m /\ request'[s].link = m => q = s
      BY <2>1, <3>1 DEF UsedOnce
    <3>3. uses'[m] = 1 => \A q \in Request :
                           Resetting(q)' /\ At(q, "write")' => request'[q].link # m
      BY <1>8, <2>1, <2>2, <3>1 DEF UsedOnce
    <3> QED BY <2>1, <2>3, <3>2, <3>3
  <2>5. CASE m = l
    <3>1. \A q \in UnderWay : ~(request[q].kind = "reset" /\ request[q].link = l)
      BY <1>2, <2>5
    <3>2. \A q \in Request : Resetting(q) => request[q].link # l
      BY <3>1 DEF Resetting, Reset, UnderWay
    <3>3. \A q \in Request : Resetting(q)' /\ request'[q].link = l => q = r
      BY <1>8, <3>2
    <3>4. uses[l] # 1
      <4>1. \A q \in Request : At(q, "mark") => Resetting(q)
        BY DEF Minted, Resetting, At, Statement
      <4> QED BY <1>2, <2>1, <2>5, <3>2, <4>1 DEF UsedOnce
    <3> QED BY <2>1, <2>3, <2>5, <3>3, <3>4
  <2> QED BY <2>4, <2>5
<1>11. MintRests
  BY <1>4, <1>5, OddWords DEF MintRests, At
<1>12. ProofsRest
  BY <1>3, <1>4 DEF ProofsRest
<1>13. StaleRests /\ LeavingRests
  BY <1>4, <1>5, <1>7, OddWords DEF StaleRests, LeavingRests, At
<1> QED BY Zenon, <1>6, <1>9, <1>10, <1>11, <1>12, <1>13, MintFrame, ProofsFrame, StaleFrame,
           LeavingFrame

LEMMA MayReplaceInv == ASSUME AInv, NEW r \in Request, MayReplace(r) PROVE AInv'
<1>1. CASE MayReset(r)
  BY <1>1, MayResetInv DEF MayReplace
<1>2. CASE MayChange(r) \/ MayBeGiven(r)
  <2>1. "write" \in Where \ {"new", "mark", "mint", "confirm", "erase"} /\ "write" \notin Proven
    BY StatementsAre DEF Proven
  <2>2. ~At(r, "over") /\ ~At(r, "mark") /\ ~At(r, "wipe") /\ ~Reset(r) /\ Goes(r, "write")
    BY <1>2 DEF MayChange, MayBeGiven, Arrives, At, Reset
  <2>3. UNCHANGED <<columns, sessions, links, listed, acctPast>>
    BY <1>2 DEF MayReplace, MayChange, MayBeGiven, acctPast
  <2> QED BY <2>1, <2>2, <2>3, PlainInv
<1> QED BY <1>1, <1>2 DEF MayReplace

\* The UPDATE of a password that has come with a link: it is the link's only
\* use, and the request is about to mark it.
LEMMA FinishPasswordResetLinks ==
  ASSUME AInv, NEW r \in Request, At(r, "write"), FinishPasswordReset(r),
         uses' = [uses EXCEPT ![request[r].link] = @ + 1], UNCHANGED <<links, odd>>
  PROVE  Minted' /\ UsedOnce'
<1> USE DEF AInv, FinishPasswordReset
<1>1. RequestOK /\ UsesOK
  BY AcctTypes
<1>2. PICK link \in Request : link = request[r].link
  BY <1>1 DEF RequestOK
<1>3. "mark" \in Where
  BY StatementsAre
<1>4. /\ RequestOK' /\ request'[r].at = "mark"
      /\ \A q \in Request : q # r => request'[q] = request[q]
      /\ \A q \in Request : /\ request'[q].kind = request[q].kind
                            /\ request'[q].link = request[q].link
  BY <1>1, <1>3, GoesIs
<1>5. /\ uses'[link] = uses[link] + 1 /\ uses[link] \in Nat
      /\ \A l \in Request : l # link => uses'[l] = uses[l]
  BY <1>1, <1>2 DEF UsesOK
<1>6. Resetting(r) /\ \A q \in Request : Resetting(q)' <=> Resetting(q)
  BY <1>4 DEF Resetting, Reset, At, Statement
<1>7. Minted'
  <2>1. At(link, "over") /\ \A l \in Request : At(l, "over") => At(l, "over")'
    BY <1>2, <1>4, <1>6 DEF Minted, At
  <2>2. \A l \in Request : links'[l] # "none" \/ uses'[l] # 0 => At(l, "over")'
    BY <1>5, <2>1 DEF Minted
  <2>3. \A q \in Request : Resetting(q)' => At(request[q].link, "over")'
    BY <1>1, <1>4, <1>6, <2>1 DEF Minted, RequestOK, At
  <2>4. \A q \in Request : At(q, "mark")' => Reset(q)'
    BY <1>4 DEF Minted, Reset, At
  <2> QED BY <2>2, <2>3, <2>4, Zenon DEF Minted
<1>8. UsedOnce'
  <2> SUFFICES ASSUME NEW l \in Request, l \notin odd'
               PROVE  /\ uses'[l] <= 1
                      /\ \A q, s \in Request : Resetting(q)' /\ Resetting(s)'
                           /\ request'[q].link = l /\ request'[s].link = l => q = s
                      /\ uses'[l] = 1 => \A q \in Request :
                           Resetting(q)' /\ At(q, "write")' => request'[q].link # l
                      /\ uses'[l] = 1 /\ links'[l] = "good" =>
                           \E q \in Request : At(q, "mark")' /\ request'[q].link = l
    BY Zenon DEF UsedOnce, At, Resetting, Reset
  <2>1. l \in Request \ odd
    OBVIOUS
  <2>2. \A q, s \in Request : Resetting(q)' /\ Resetting(s)'
          /\ request'[q].link = l /\ request'[s].link = l => q = s
    BY <1>4, <1>6, <2>1 DEF UsedOnce
  <2>3. CASE l = link
    <3>1. uses[l] # 1 /\ uses[l] <= 1
      BY <1>2, <1>6, <2>1, <2>3 DEF UsedOnce
    <3>2. uses[l] = 0
      BY <1>5, <2>3, <3>1
    <3>3. uses'[l] <= 1
      BY <1>5, <2>3, <3>2
    <3>4. \A q \in Request : Resetting(q)' /\ request'[q].link = l => q = r
      BY <1>2, <1>4, <1>6, <2>2, <2>3
    <3>5. ~At(r, "write")' /\ At(r, "mark")' /\ request'[r].link = l
      BY <1>2, <1>4, <2>3 DEF At
    <3> QED BY <2>2, <3>3, <3>4, <3>5
  <2>4. CASE l # link
    <3>1. uses'[l] = uses[l] /\ uses'[l] <= 1
      BY <1>5, <2>1, <2>4 DEF UsedOnce
    <3>2. uses'[l] = 1 => \A q \in Request :
            Resetting(q)' /\ At(q, "write")' => request'[q].link # l
      BY <1>4, <1>6, <2>1, <3>1 DEF UsedOnce, At
    <3>3. uses'[l] = 1 /\ links'[l] = "good" =>
            \E q \in Request : At(q, "mark")' /\ request'[q].link = l
      <4>1. ASSUME uses[l] = 1, links[l] = "good"
            PROVE  \E q \in Request : At(q, "mark")' /\ request'[q].link = l
        <5>1. PICK q \in Request : At(q, "mark") /\ request[q].link = l
          BY <2>1, <4>1 DEF UsedOnce
        <5>2. At(q, "mark")' /\ request'[q].link = l
          BY <1>4, <5>1 DEF At
        <5> QED BY <5>2
      <4> QED BY <3>1, <4>1
    <3> QED BY <2>2, <3>1, <3>2, <3>3
  <2> QED BY <2>3, <2>4
<1> QED BY <1>7, <1>8

LEMMA ReplacePasswordInv == ASSUME AInv, NEW r \in Request, ReplacePassword(r) PROVE AInv'
<1> USE DEF ReplacePassword, AInv
<1>1. AcctTypeOK /\ RequestOK /\ FlagsOK /\ EpochOK /\ UsesOK
  BY AcctTypes
<1>2. PICK to \in {"wipe", "mark"} : Goes(r, to) /\ (to = "mark" <=> Reset(r))
  BY DEF ChangePassword, SetTemporaryPassword, FinishPasswordReset, Reset
<1>3. to \in Where /\ "wipe" \in Where \ {"new", "mark"} /\ to # "mint" /\ to # "over"
      /\ to # "confirm" /\ to # "erase"
  BY <1>2, StatementsAre
<1>4. /\ RequestOK' /\ request'[r].at = to
      /\ \A q \in Request : q # r => request'[q] = request[q]
  BY <1>1, <1>2, <1>3, GoesIs
<1>5. /\ epoch' = epoch + 1 /\ epoch' \in Nat
      /\ proof'[r] = epoch' /\ EpochOK'
  BY <1>1 DEF Replaced, EpochOK
<1>6. UsesOK'
  <2>1. straddled' \subseteq Request
    BY <1>1 DEF Replaced, UsesOK, UnderWay
  <2>2. uses' \in [Request -> Nat]
    <3>1. uses \in [Request -> Nat] /\ request[r].link \in Request
      BY <1>1 DEF UsesOK, RequestOK
    <3>2. [uses EXCEPT ![request[r].link] = @ + 1] \in [Request -> Nat]
      BY <3>1
    <3> QED BY <3>1, <3>2 DEF Replaced
  <2> QED BY <2>1, <2>2 DEF UsesOK
<1>7. FlagsOK'
  BY <1>1, Zenon DEF FlagsOK, Replaced
<1>8. AcctTypeOK'
  BY Zenon, <1>1, <1>4, <1>5, <1>6, <1>7, AcctFrames, AcctTypesNext
<1>9. Minted' /\ UsedOnce'
  <2>1. CASE Reset(r)
    BY <1>2, <2>1, FinishPasswordResetLinks DEF Replaced, ChangePassword, SetTemporaryPassword, Reset
  <2>2. CASE ~Reset(r)
    <3>1. to = "wipe" /\ uses' = uses
      BY <1>2, <2>2 DEF Replaced
    <3>2. ResetsRest
      BY <1>1, <1>2, <1>3, <2>2, <3>1, MoveRests DEF At
    <3>3. LinksRest
      BY <3>1 DEF LinksRest, At
    <3> QED BY <1>4, <3>2, <3>3, LinkFrame
  <2> QED BY <2>1, <2>2
<1>10. MintRests
  BY <1>3, <1>4 DEF MintRests, At
<1>11. ProofsHold'
  <2> SUFFICES ASSUME NEW q \in Request, request'[q].at \in Proven
               PROVE  proof'[q] = epoch' \/ q \in straddled'
    BY DEF ProofsHold, Fresh
  <2>1. CASE q = r
    BY <1>5, <2>1
  <2>2. CASE q # r
    <3>1. request[q].at \in Statement
      BY <1>4, <2>2 DEF Proven, Statement
    <3> QED BY <2>2, <3>1 DEF Replaced, UnderWay
  <2> QED BY <2>1, <2>2
<1>12. StaleEnds'
  BY <1>2, <1>4 DEF StaleEnds, At
<1>13. LeavingRests
  BY <1>3, <1>4 DEF LeavingRests, At
<1> QED BY Zenon, <1>8, <1>9, <1>10, <1>11, <1>12, <1>13, MintFrame, LeavingFrame

LEMMA WipeSessionsInv == ASSUME AInv, NEW r \in Request, WipeSessions(r) PROVE AInv'
<1> USE DEF WipeSessions, columns, AInv
<1>1. AcctTypeOK /\ RequestOK /\ OddOK
  BY AcctTypes
<1>2. PICK to \in {"session", "over"} : Goes(r, to)
  BY DEF AfterWipe
<1>3. to \in Where \ {"new", "mark", "mint", "confirm", "erase"} /\ to # "write" /\ "wipe" \in Proven
  BY <1>2, StatementsAre DEF Proven
<1>4. /\ RequestOK' /\ request'[r].at = to
      /\ \A q \in Request : q # r => request'[q] = request[q]
  BY <1>1, <1>2, <1>3, GoesIs
<1>5. SessionsOK' /\ OddOK'
  BY <1>1 DEF SessionsOK, OddOK
<1>6. AcctTypeOK'
  BY Zenon, <1>1, <1>4, <1>5, AcctFrames, AcctTypesNext
<1>7. ResetsRest
  BY <1>1, <1>2, <1>3, MoveRests DEF At
<1>8. LinksRest
  BY OddWords DEF LinksRest, At
<1>9. MintRests
  BY <1>3, <1>4 DEF MintRests, At
<1>10. ProofsRest
  BY <1>3, <1>4 DEF ProofsRest, At
<1>11. StaleEnds'
  BY DEF StaleEnds
<1>12. LeavingRests
  BY <1>3, <1>4 DEF LeavingRests, At
<1> QED BY Zenon, <1>4, <1>6, <1>7, <1>8, <1>9, <1>10, <1>11, <1>12, LinkFrame, MintFrame,
           ProofsFrame, LeavingFrame

-----------------------------------------------------------------------------
(* Leaving.                                                                *)

LEMMA SignedInIsThere == ASSUME AcctTypeOK, SignedIn PROVE account = "there"
  BY AcctTypes DEF SessionsOK, SignedIn

LEMMA MayLeaveInv == ASSUME AInv, NEW r \in Request, MayLeave(r) PROVE AInv'
<1> USE DEF MayLeave, columns, AInv
<1>1. AcctTypeOK /\ RequestOK /\ OddOK
  BY AcctTypes
<1>2. PICK to \in {"over", "confirm"} :
        /\ Goes(r, to)
        /\ \/ odd' = odd /\ (paid = "website" => to = "over")
           \/ odd' = odd \cup (IF paid = "website" THEN {"unread"} ELSE {})
  BY DEF MayLeave
<1>3. to \in Where \ {"new", "mark", "mint"} /\ to # "write" /\ to \notin Proven
  BY <1>2, StatementsAre DEF Proven
<1>4. /\ RequestOK' /\ request'[r].at = to
      /\ \A q \in Request : q # r => request'[q] = request[q]
  BY <1>1, <1>2, <1>3, GoesIs
<1>5. OddOK' /\ odd \subseteq odd' /\ odd' \subseteq odd \cup {"unread"}
  BY <1>1, <1>2 DEF OddOK
<1>6. AcctTypeOK'
  BY Zenon, <1>1, <1>4, <1>5, AcctFrames, AcctTypesNext
<1>7. ResetsRest
  BY <1>1, <1>2, <1>3, MoveRests DEF Arrives, At, Reset
<1>8. LinksRest
  BY <1>5 DEF LinksRest, At
<1>9. MintRests /\ ProofsRest
  BY <1>3, <1>4, <1>5 DEF MintRests, ProofsRest, At
<1>10. StaleRests
  BY <1>4, <1>5 DEF StaleRests, Arrives, At
<1>11. KeptStays'
  BY <1>5 DEF KeptStays
<1>12. PaidStays'
  <2> SUFFICES ASSUME paid' = "website", "since" \notin odd', "unread" \notin odd'
               PROVE  /\ erasure' = "no" /\ ~listed' /\ (account' # "gone" \/ "admin" \in odd')
                      /\ \A q \in Request : ~At(q, "confirm")' /\ ~At(q, "erase")'
    BY Zenon DEF PaidStays, At
  <2> QED BY <1>2, <1>4, <1>5 DEF PaidStays, At
<1> QED BY Zenon, <1>4, <1>6, <1>7, <1>8, <1>9, <1>10, <1>11, <1>12, LinkFrame, MintFrame,
           ProofsFrame, StaleFrame

LEMMA RequestErasureInv == ASSUME AInv, NEW r \in Request, RequestErasure(r) PROVE AInv'
<1> USE DEF RequestErasure, AInv
<1>1. AcctTypeOK /\ RequestOK /\ WaysOK /\ OddOK
  BY AcctTypes
<1>2. PICK to \in {"erase", "over"} :
        /\ Goes(r, to)
        /\ to = "erase" => At(r, "confirm") /\ UNCHANGED <<erasure, odd>>
        /\ to = "over" => /\ At(r, "erase") /\ odd' = odd \ {"kept"}
                          /\ erasure' \in {erasure, "week"}
  BY DEF RequestErasure
<1>3. to \in Where \ {"new", "mark", "mint"} /\ to # "write" /\ to \notin Proven
  BY <1>2, StatementsAre DEF Proven
<1>4. /\ RequestOK' /\ request'[r].at = to
      /\ \A q \in Request : q # r => request'[q] = request[q]
  BY <1>1, <1>2, <1>3, GoesIs
<1>5. OddOK' /\ odd \ {"kept"} \subseteq odd' /\ odd' \subseteq odd
  BY <1>1, <1>2 DEF OddOK
<1>6. WaysOK'
  BY <1>1, <1>2 DEF WaysOK
<1>7. AcctTypeOK'
  BY Zenon, <1>1, <1>4, <1>5, <1>6, AcctFrames, AcctTypesNext
<1>8. ResetsRest
  BY <1>1, <1>2, <1>3, MoveRests DEF At
<1>9. LinksRest
  BY <1>5, OddWords DEF LinksRest, At
<1>10. MintRests /\ ProofsRest
  BY <1>3, <1>4, <1>5 DEF MintRests, ProofsRest, At
<1>11. StaleRests
  BY <1>2, <1>4, <1>5 DEF StaleRests, At
<1>12. KeptStays'
  BY <1>2, <1>5 DEF KeptStays
<1>13. PaidStays'
  <2> SUFFICES ASSUME paid' = "website", "since" \notin odd', "unread" \notin odd'
               PROVE  /\ erasure' = "no" /\ ~listed' /\ (account' # "gone" \/ "admin" \in odd')
                      /\ \A q \in Request : ~At(q, "confirm")' /\ ~At(q, "erase")'
    BY Zenon DEF PaidStays, At
  <2> QED BY <1>2, <1>5 DEF PaidStays
<1> QED BY Zenon, <1>4, <1>7, <1>8, <1>9, <1>10, <1>11, <1>12, <1>13, LinkFrame, MintFrame,
           ProofsFrame, StaleFrame

LEMMA KeepAccountInv == ASSUME AInv, NEW r \in Request, KeepAccount(r) PROVE AInv'
<1> USE DEF KeepAccount, CancelErasure, KeepTold, AInv
<1>1. AcctTypeOK /\ RequestOK /\ WaysOK /\ OddOK /\ account = "there"
  BY AcctTypes, SignedInIsThere
<1>2. "over" \in Where \ {"new", "mark", "mint"} /\ "over" \notin Proven
  BY StatementsAre DEF Proven
<1>3. /\ RequestOK' /\ request'[r].at = "over"
      /\ \A q \in Request : q # r => request'[q] = request[q]
  BY <1>1, <1>2, GoesIs
<1>4. OddOK' /\ odd \subseteq odd' /\ odd' \subseteq odd \cup {"kept", "late"}
      /\ (listed => "late" \in odd')
  BY <1>1 DEF OddOK
<1>5. WaysOK'
  BY <1>1 DEF WaysOK
<1>6. AcctTypeOK'
  BY Zenon, <1>1, <1>3, <1>4, <1>5, AcctFrames, AcctTypesNext
<1>7. ResetsRest
  BY <1>1, <1>2, MoveRests DEF Arrives, At, Reset
<1>8. LinksRest
  BY <1>4 DEF LinksRest, At
<1>9. MintRests /\ ProofsRest
  BY <1>2, <1>3, <1>4 DEF MintRests, ProofsRest, At
<1>10. StaleRests
  BY <1>3, <1>4 DEF StaleRests, Arrives, At
<1>11. KeptStays'
  BY <1>1, <1>4 DEF KeptStays
<1>12. PaidStays'
  <2> SUFFICES ASSUME paid' = "website", "since" \notin odd', "unread" \notin odd'
               PROVE  /\ erasure' = "no" /\ ~listed' /\ (account' # "gone" \/ "admin" \in odd')
                      /\ \A q \in Request : ~At(q, "confirm")' /\ ~At(q, "erase")'
    BY Zenon DEF PaidStays, At
  <2> QED BY <1>3, <1>4 DEF PaidStays, At
<1> QED BY Zenon, <1>3, <1>6, <1>7, <1>8, <1>9, <1>10, <1>11, <1>12, LinkFrame, MintFrame,
           ProofsFrame, StaleFrame

LEMMA AdminErasesInv == ASSUME AInv, NEW r \in Request, AdminErases(r) PROVE AInv'
<1> USE DEF AdminErases, AInv
<1>1. AcctTypeOK /\ RequestOK /\ WaysOK /\ SessionsOK /\ LinksOK /\ OddOK
  BY AcctTypes
<1>2. CASE Arrives(r, "admin")
  <2>1. PICK to \in {"remove", "over"} : Goes(r, to)
    BY <1>2 DEF Arrives, At
  <2>2. to \in Where \ {"new", "mark", "mint", "confirm", "erase"} /\ to # "write" /\ to \notin Proven
    BY <2>1, StatementsAre DEF Proven
  <2>3. ~At(r, "over") /\ ~At(r, "mark") /\ ~At(r, "wipe") /\ ~Reset(r)
    BY <1>2 DEF Arrives, At, Reset
  <2>4. UNCHANGED <<columns, sessions, links, listed, acctPast>>
    BY <1>2 DEF Arrives, At, columns, acctPast
  <2> QED BY <2>1, <2>2, <2>3, <2>4, PlainInv
<1>3. CASE At(r, "remove")
  <2>1. /\ Goes(r, "over")
        /\ \/ /\ account' = "gone" /\ sessions' = {} /\ links' = [l \in Request |-> "none"]
              /\ odd' = odd \cup {"admin"}
           \/ UNCHANGED <<account, sessions, links, odd>>
    BY <1>3 DEF Arrives, At, EraseAccount
  <2>2. "over" \in Where \ {"new", "mark", "mint"} /\ "over" \notin Proven
    BY StatementsAre DEF Proven
  <2>3. /\ RequestOK' /\ request'[r].at = "over"
        /\ \A q \in Request : q # r => request'[q] = request[q]
    BY <1>1, <2>1, <2>2, GoesIs
  <2>4. WaysOK' /\ SessionsOK' /\ LinksOK' /\ OddOK'
    BY <1>1, <2>1 DEF WaysOK, SessionsOK, LinksOK, OddOK
  <2>5. AcctTypeOK'
    BY Zenon, <1>1, <2>3, <2>4, AcctFrames, AcctTypesNext
  <2>6. /\ odd \subseteq odd' /\ odd' \subseteq odd \cup {"admin"} /\ sessions' \subseteq sessions
        /\ \A l \in Request : links'[l] = links[l] \/ links'[l] = "none"
    BY <2>1
  <2>7. ResetsRest
    BY <1>1, <1>3, <2>1, <2>2, MoveRests DEF At
  <2>8. LinksRest /\ MintRests /\ ProofsRest
    BY <2>2, <2>3, <2>6 DEF LinksRest, MintRests, ProofsRest, At
  <2>9. StaleRests
    BY <1>3, <2>3, <2>6 DEF StaleRests, At
  <2>10. KeptStays'
    BY <2>1, <2>6 DEF KeptStays
  <2>11. PaidStays'
    <3> SUFFICES ASSUME paid' = "website", "since" \notin odd', "unread" \notin odd'
                 PROVE  /\ erasure' = "no" /\ ~listed' /\ (account' # "gone" \/ "admin" \in odd')
                        /\ \A q \in Request : ~At(q, "confirm")' /\ ~At(q, "erase")'
      BY Zenon DEF PaidStays, At
    <3> QED BY <2>1, <2>3, <2>6 DEF PaidStays, At
  <2> QED BY Zenon, <2>3, <2>5, <2>7, <2>8, <2>9, <2>10, <2>11, LinkFrame, MintFrame,
             ProofsFrame, StaleFrame
<1> QED BY <1>2, <1>3

LEMMA AcctFailsInv == ASSUME AInv, NEW r \in Request, AcctFails(r) PROVE AInv'
<1> USE DEF AcctFails, columns, AInv
<1>1. AcctTypeOK /\ RequestOK /\ OddOK /\ ~At(r, "over") /\ ~At(r, "new")
  BY AcctTypes DEF UnderWay, At, Statement
<1>2. "over" \in Where \ {"new", "mark", "mint"} /\ "over" \notin Proven
  BY StatementsAre DEF Proven
<1>3. /\ RequestOK' /\ request'[r].at = "over"
      /\ \A q \in Request : q # r => request'[q] = request[q]
      /\ \A q \in Request : /\ request'[q].kind = request[q].kind
                            /\ request'[q].link = request[q].link
  BY <1>1, <1>2, GoesIs
<1>4. PICK link \in Request : link = request[r].link
  BY <1>1 DEF RequestOK
<1>5. /\ OddOK' /\ odd \subseteq odd' /\ odd' \subseteq odd \cup {"broken", link}
      /\ At(r, "mark") => link \in odd'
      /\ At(r, "mark") \/ At(r, "wipe") => "broken" \in odd'
  BY <1>1, <1>4 DEF OddOK
<1>6. AcctTypeOK'
  BY Zenon, <1>1, <1>3, <1>5, AcctFrames, AcctTypesNext
<1>7. ResetsRest
  <2>1. r \in UnderWay
    OBVIOUS
  <2> QED BY <1>1, <1>3, <1>4, <1>5, <2>1 DEF ResetsRest, Resetting, Reset, At, UnderWay
<1>8. LinksRest
  BY <1>5 DEF LinksRest, At
<1>9. MintRests /\ ProofsRest
  BY <1>2, <1>3, <1>5 DEF MintRests, ProofsRest, At
<1>10. StaleEnds'
  <2>1. CASE At(r, "mark") \/ At(r, "wipe")
    BY <1>5, <2>1 DEF StaleEnds
  <2>2. CASE ~(At(r, "mark") \/ At(r, "wipe"))
    <3>1. StaleRests
      BY <1>3, <1>5, <2>2 DEF StaleRests, At
    <3> QED BY <1>9, <3>1, StaleFrame
  <2> QED BY <2>1, <2>2
<1>11. LeavingRests
  BY <1>3, <1>4, <1>5, OddWords DEF LeavingRests, At
<1> QED BY Zenon, <1>3, <1>6, <1>7, <1>8, <1>9, <1>10, <1>11, LinkFrame, MintFrame, ProofsFrame,
           LeavingFrame

LEMMA SignOutInv == ASSUME AInv, NEW s \in Request \cup {Earlier}, SignOut(s) PROVE AInv'
<1> USE DEF SignOut, columns, acctPast, AInv
<1>1. AcctTypeOK /\ SessionsOK
  BY AcctTypes
<1>2. SessionsOK'
  BY <1>1 DEF SessionsOK
<1>3. AcctTypeOK'
  BY Zenon, <1>1, <1>2, AcctFrames, AcctTypesNext
<1>4. ResetsRest
  BY StillRests
<1>5. LinksRest /\ MintRests
  BY DEF LinksRest, MintRests, At
<1>6. ProofsRest /\ StaleRests /\ LeavingRests
  BY DEF ProofsRest, StaleRests, LeavingRests, At
<1> QED BY Zenon, <1>3, <1>4, <1>5, <1>6, RestsInv

\* What the rest of the relay does to an account that is paid for or leaving.
LEMMA ElsewhereInv ==
  ASSUME AInv, AcctTypeOK', UNCHANGED <<request, uses, epoch, proof, straddled>>,
         \A l \in Request : links'[l] = links[l] \/ links'[l] = "none",
         sessions' \subseteq sessions, odd \subseteq odd',
         KeptStays', PaidStays'
  PROVE  AInv'
<1>1. RequestOK'
  BY AcctTypes, AcctFrames DEF AInv
<1>2. ResetsRest
  BY StillRests
<1>3. LinksRest /\ MintRests
  BY DEF LinksRest, MintRests, At
<1>4. ProofsRest /\ StaleRests
  BY DEF ProofsRest, StaleRests, At
<1> QED BY Zenon, <1>1, <1>2, <1>3, <1>4, LinkFrame, MintFrame, ProofsFrame, StaleFrame DEF AInv

LEMMA PaysInv ==
  ASSUME AInv, NEW how \in {"no", "website", "otherwise"}, Pays(how)
  PROVE  AInv'
<1> USE DEF Pays, AInv
<1>1. AcctTypeOK /\ WaysOK /\ OddOK
  BY AcctTypes
<1>2. OddOK' /\ odd \subseteq odd' /\ odd' \subseteq odd \cup {"since"}
  BY <1>1 DEF OddOK
<1>3. WaysOK'
  BY <1>1 DEF WaysOK
<1>4. AcctTypeOK'
  BY Zenon, <1>1, <1>2, <1>3, AcctFrames, AcctTypesNext
<1>5. KeptStays'
  BY <1>2 DEF KeptStays
<1>6. PaidStays'
  <2> SUFFICES ASSUME how = "website", "since" \notin odd', "unread" \notin odd'
               PROVE  /\ erasure' = "no" /\ ~listed' /\ (account' # "gone" \/ "admin" \in odd')
                      /\ \A q \in Request : ~At(q, "confirm")' /\ ~At(q, "erase")'
    BY Zenon DEF PaidStays, At
  <2>1. ~(listed \/ erasure # "no" \/ \E r \in UnderWay : At(r, "confirm") \/ At(r, "erase"))
    OBVIOUS
  <2> QED BY <2>1 DEF UnderWay, At, Statement
<1> QED BY <1>2, <1>4, <1>5, <1>6, ElsewhereInv

LEMMA WeekPassesInv == ASSUME AInv, WeekPasses PROVE AInv'
<1> USE DEF WeekPasses, acctPast, AInv
<1>1. AcctTypeOK /\ WaysOK
  BY AcctTypes
<1>2. WaysOK'
  BY <1>1 DEF WaysOK
<1>3. AcctTypeOK'
  BY Zenon, <1>1, <1>2, AcctFrames, AcctTypesNext
<1>4. KeptStays' /\ PaidStays'
  BY DEF KeptStays, PaidStays
<1> QED BY <1>3, <1>4, ElsewhereInv

LEMMA SweepInv == ASSUME AInv, Sweep PROVE AInv'
<1> USE DEF Sweep, AccountsDueForErasure, EraseAccount, acctPast, AInv
<1>1. AcctTypeOK /\ WaysOK /\ FlagsOK /\ SessionsOK /\ LinksOK
  BY AcctTypes
<1>2. listed' \in BOOLEAN /\ FlagsOK'
  BY <1>1, Zenon DEF FlagsOK
<1>3. WaysOK' /\ SessionsOK' /\ LinksOK'
  BY <1>1 DEF WaysOK, SessionsOK, LinksOK
<1>4. AcctTypeOK'
  BY Zenon, <1>1, <1>2, <1>3, AcctFrames, AcctTypesNext
<1>5. sessions' \subseteq sessions
      /\ \A l \in Request : links'[l] = links[l] \/ links'[l] = "none"
  BY <1>1
<1>6. KeptStays' /\ PaidStays'
  BY DEF KeptStays, PaidStays
<1> QED BY <1>4, <1>5, <1>6, ElsewhereInv

-----------------------------------------------------------------------------
LEMMA AcctStutter == ASSUME AInv, UNCHANGED acctVars PROVE AInv'
<1> USE DEF acctVars, columns, acctPast, AInv
<1>1. AcctTypeOK'
  BY Zenon, AcctFrames, AcctTypesNext
<1>2. KeptStays' /\ PaidStays'
  BY DEF KeptStays, PaidStays, At
<1> QED BY <1>1, <1>2, ElsewhereInv

LEMMA AcctInitInv == AcctInit => AInv
<1> SUFFICES ASSUME AcctInit PROVE AInv
  OBVIOUS
<1>1. \A r \in Request : request[r].at = "new" /\ request[r].link = r
  BY DEF AcctInit
<1>2. request \in [Request -> [kind : Cause, at : Where, link : Request]]
  <2>1. PICK kind \in [Request -> Cause] :
          request = [r \in Request |-> [kind |-> kind[r], at |-> "new", link |-> r]]
    BY DEF AcctInit
  <2>2. "new" \in Where
    BY StatementsAre
  <2> QED BY <2>1, <2>2
<1>3. AcctTypeOK
  <2>1. WaysOK /\ SessionsOK /\ LinksOK
    BY DEF AcctInit, WaysOK, SessionsOK, LinksOK
  <2>2. FlagsOK
    BY Zenon DEF AcctInit, FlagsOK
  <2>3. EpochOK /\ UsesOK /\ OddOK
    BY DEF AcctInit, EpochOK, UsesOK, OddOK
  <2> QED BY Zenon, <1>2, <2>1, <2>2, <2>3 DEF AcctTypeOK, WaysOK, SessionsOK, LinksOK, FlagsOK,
             EpochOK, UsesOK, OddOK, Where
<1>4. Minted /\ UsedOnce /\ OneGood
  BY <1>1 DEF AcctInit, Minted, UsedOnce, OneGood, Resetting, At, Statement
<1>5. ProofsHold /\ StaleEnds
  BY <1>1 DEF AcctInit, ProofsHold, StaleEnds, Proven, Fresh
<1>6. KeptStays /\ PaidStays
  BY <1>1 DEF AcctInit, KeptStays, PaidStays, At
<1> QED BY <1>3, <1>4, <1>5, <1>6 DEF AInv

LEMMA AcctNextInv == AInv /\ [AcctNext]_acctVars => AInv'
<1> SUFFICES ASSUME AInv, [AcctNext]_acctVars PROVE AInv'
  OBVIOUS
<1>1. ASSUME NEW r \in Request, AcctStep(r) PROVE AInv'
  <2>1. CASE \/ Look(r) \/ LooksAgain(r) \/ Insert(r) \/ LinkIdentity(r)
             \/ StartExisting(r) \/ NewSession(r)
    BY Zenon, <2>1, LookInv, LooksAgainInv, InsertInv, LinkIdentityInv, StartExistingInv, NewSessionInv
  <2>2. CASE FirstPassword(r) \/ SetFirstPassword(r) \/ Forgot(r)
    BY Zenon, <2>2, FirstPasswordInv, SetFirstPasswordInv, ForgotInv
  <2>3. CASE DropLinks(r) \/ MintLink(r) \/ LinkExpires(r)
    BY Zenon, <2>3, DropLinksInv, MintLinkInv, LinkExpiresInv
  <2>4. CASE MayReplace(r) \/ ReplacePassword(r) \/ MarkUsed(r) \/ WipeSessions(r)
    BY Zenon, <2>4, MayReplaceInv, ReplacePasswordInv, MarkUsedInv, WipeSessionsInv
  <2>5. CASE MayLeave(r) \/ RequestErasure(r) \/ KeepAccount(r) \/ AdminErases(r) \/ AcctFails(r)
    BY Zenon, <2>5, MayLeaveInv, RequestErasureInv, KeepAccountInv, AdminErasesInv, AcctFailsInv
  <2> QED BY Zenon, <1>1, <2>1, <2>2, <2>3, <2>4, <2>5 DEF AcctStep
<1>2. CASE \E s \in Request \cup {Earlier} : SignOut(s)
  BY Zenon, <1>2, SignOutInv
<1>3. CASE \E how \in {"no", "website", "otherwise"} : Pays(how)
  BY Zenon, <1>3, PaysInv
<1>4. CASE WeekPasses \/ Sweep
  BY Zenon, <1>4, WeekPassesInv, SweepInv
<1>5. CASE UNCHANGED acctVars
  BY <1>5, AcctStutter
<1> QED BY Zenon, <1>1, <1>2, <1>3, <1>4, <1>5 DEF AcctNext

\* The invariant of an account and the requests about it.
THEOREM AcctInvariance == AcctSpec => []AInv
<1>1. AInv /\ [AcctNext]_acctVars => AInv'
  BY AcctNextInv
<1> QED BY <1>1, AcctInitInv, PTL DEF AcctSpec

\* A change of password that is over has thrown out every session from before
\* it, however many requests there are and however their statements interleave,
\* but for the sessions of requests that were under way as it was written.
THEOREM ThrownOut == AcctSpec => []ChangeThrowsOut
<1>1. AInv => ChangeThrowsOut
  BY DEF AInv, StaleEnds, Fresh, ChangeThrowsOut
<1> QED BY <1>1, AcctInvariance, PTL

\* A link sets one password at most, and the newest is the only one that works,
\* unless two requests came with it, or asked for one, at the same time.
THEOREM OnceAndTheNewest == AcctSpec => []LinkWorksOnce
<1>1. AInv => LinkWorksOnce
  <2> SUFFICES ASSUME AInv PROVE LinkWorksOnce
    OBVIOUS
  <2>1. \A l \in Request \ odd : uses[l] <= 1
    BY DEF AInv, UsedOnce
  <2> DEFINE good == {l \in Request : links[l] = "good"}
  <2>2. ASSUME "links" \notin odd PROVE Cardinality(good) <= 1
    <3>1. \A l, m \in good : l = m
      BY <2>2 DEF AInv, OneGood
    <3>2. CASE good = {}
      BY <3>2, FS_EmptySet
    <3>3. CASE good # {}
      <4>1. PICK l \in good : TRUE
        BY <3>3
      <4>2. good = {l}
        BY <3>1, <4>1
      <4>3. Cardinality({l}) = 1
        BY FS_Singleton
      <4> QED BY <4>2, <4>3
    <3> QED BY <3>2, <3>3
  <2> QED BY <2>1, <2>2 DEF LinkWorksOnce
<1> QED BY <1>1, AcctInvariance, PTL

\* The sweep erases nobody who was told the account is staying before they were
\* on its list, and nobody whose card was being charged at the look at it, if
\* the look told; an administrator erases at once, and is asked for neither.
THEOREM NobodyIsErasedWrongly == AcctSpec => []ErasedRightly
<1>1. AInv => ErasedRightly
  BY DEF AInv, KeptStays, PaidStays, ErasedRightly
<1> QED BY <1>1, AcctInvariance, PTL

-----------------------------------------------------------------------------
(* Both.                                                                   *)

\* The two parts of MCAccounts take their own steps and leave the other's
\* variables alone, so each keeps the types of its own.
THEOREM AccountsTypeCorrect == MCSpec => []AccountsTypeOK
<1>1. MCSpec => AcctSpec
  <2>1. MCInit => AcctInit
    BY DEF MCInit, AcctRests
  <2>2. [MCNext]_<<part, acctVars, mailVars>> => [AcctNext]_acctVars
    BY DEF MCNext
  <2> QED BY <2>1, <2>2, PTL DEF MCSpec, AcctSpec
<1>2. MCSpec => MailSpec
  <2>1. MCInit => MailInit
    BY DEF MCInit, MailRests
  <2>2. [MCNext]_<<part, acctVars, mailVars>> => [MailNext]_mailVars
    BY DEF MCNext
  <2> QED BY <2>1, <2>2, PTL DEF MCSpec, MailSpec
<1>3. AInv /\ MInv => AccountsTypeOK
  BY DEF AInv, MInv, AccountsTypeOK
<1> QED BY <1>1, <1>2, <1>3, AcctInvariance, MailInvariance, PTL

=============================================================================
