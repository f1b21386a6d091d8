--------------------------------- MODULE Mail ---------------------------------
(***************************************************************************)
(* The emails the relay sends of its own accord.                           *)
(*                                                                         *)
(* Four loops run side by side (RunMarketing, RunWinback,                  *)
(* RunRenewalReminders, RunPCReminders).  Each finds who is due one kind   *)
(* of email and goes through the list, seconds apart: it claims the email  *)
(* for a person in the database and sends it.  Meanwhile people pay, stop  *)
(* emails, ask to be deleted; a campaign is scheduled and cancelled; the   *)
(* relay is stopped.  Queries: internal/store/marketing.go, winback.go,    *)
(* onboarding.go.                                                          *)
(***************************************************************************)
EXTENDS Naturals, FiniteSets

CONSTANTS
  Person,
  Switches,    \* the kinds of email a relay may have switched on
  DailyLimit,  \* the campaign's
  Batch        \* campaignBatch

ASSUME MailAssumption ==
  /\ IsFiniteSet(Person)
  /\ DailyLimit \in Nat \ {0} /\ Batch \in Nat \ {0}

VARIABLES
  switched,    \* the kinds that are, as MarketingEnabled and BillingEnabled do
  paying, optedOut, leaving, pcs,  \* sets of people
  age,         \* where in the win-back sequence the time since signup is
  recent,      \* people a marketing email was claimed for in the last day
  booked,      \* pairs of a person and a kind of email
  campaign,    \* its status
  today,       \* what it has claimed since midnight
  loop,        \* per loop: the kind it is at, its list, and the email in hand
  sent,        \* history: emails handed to the mail provider, per person and kind
  heard,       \* history: marketing emails sent to a person in the last day
  late,        \* history: per person and loop, those sent after they said stop
  stray,       \* history: those sent for a campaign after it was cancelled
  moved        \* history: people who changed after the last count of a campaign

people == <<switched, paying, optedOut, leaving, pcs, age>>
book == <<recent, booked, campaign, today>>
mailPast == <<sent, heard, late, stray, moved>>
mailVars == <<people, book, loop, mailPast>>

\* The win-back sequence is cut to two of its three stages.
Kinds ==
  [marketing |-> {"joins_out", "first_join", "wipe_week", "campaign"},
   winback   |-> {"first", "second"},
   reminders |-> {"renewal", "trial"},
   pc        |-> {"pc"}]

Loop == DOMAIN Kinds
Kind == UNION {Kinds[l] : l \in Loop}
Of(l) == Kinds[l] \cap switched

Marketing == Kinds.marketing
Wanted == Marketing \cup Kinds.winback   \* those an opt-out stops

MailTypeOK ==
  /\ switched \in Switches
  /\ paying \subseteq Person /\ optedOut \subseteq Person /\ leaving \subseteq Person
  /\ pcs \subseteq Person /\ age \in [Person -> 0 .. 3] /\ recent \subseteq Person
  /\ booked \subseteq Person \X Kind
  /\ campaign \in {"draft", "scheduled", "done", "cancelled"} /\ today \in 0 .. DailyLimit
  /\ \A l \in Loop :
       loop[l] \in [at : {"rest", "due", "list", "send", "count", "finish"}, kind : Kinds[l],
                    list : SUBSET Person, hand : SUBSET Person]
  /\ sent \in [Person \X Kind -> Nat] /\ heard \in [Person -> Nat]
  /\ late \in [Person \X Loop -> Nat] /\ stray \in Nat /\ moved \subseteq Person

Rest(l) == [at |-> "rest", kind |-> CHOOSE k \in Kinds[l] : TRUE,
            list |-> {}, hand |-> {}]

MailInit ==
  /\ switched \in Switches
  /\ paying \in SUBSET Person /\ optedOut = {} /\ leaving = {} /\ pcs = {}
  /\ age = [p \in Person |-> 0] /\ recent = {} /\ booked = {}
  /\ campaign = "draft" /\ today = 0
  /\ loop = [l \in Loop |-> Rest(l)]
  /\ sent = [e \in Person \X Kind |-> 0] /\ heard = [p \in Person |-> 0]
  /\ late = [e \in Person \X Loop |-> 0] /\ stray = 0 /\ moved = {}

-----------------------------------------------------------------------------
(* Who is due.                                                             *)

Subscribed(p) == p \in paying
OnFree(p) == ~Subscribed(p)

Had(p, k) == <<p, k>> \in booked
Marketable(p) == p \notin optedOut \cup leaving \cup recent

\* Using up joins and finishing the first one are not followed: a list may
\* leave out anybody (Passes).
FreeJoinsDue(p) == Marketable(p) /\ OnFree(p) /\ ~Had(p, "joins_out")
FirstJoinDue(p) == Marketable(p) /\ ~Had(p, "first_join")
EveryoneDue(p) == Marketable(p) /\ ~Had(p, "wipe_week")

\* A campaign's segment is the free accounts here.
CampaignRecipient(p) == Marketable(p) /\ OnFree(p) /\ ~Had(p, "campaign")

\* winback_stage only ever moves forward: a claim is for its stage and every
\* one before it.
Passed(p, k) == Had(p, "second") \/ (k = "first" /\ Had(p, "first"))
InWindow(p, k) == age[p] = IF k = "first" THEN 1 ELSE 2

\* Mutant: an opt-out is for the marketing flows alone.
DueDespiteStop(p, k) == OnFree(p) /\ InWindow(p, k) /\ ~Passed(p, k) /\ p \notin leaving

DueWinback(p, k) ==
  OnFree(p) /\ InWindow(p, k) /\ ~Passed(p, k) /\ p \notin leaving \cup optedOut

DueTrialReminder(p) == Subscribed(p) /\ ~Had(p, "trial") /\ p \notin leaving
DueRenewalReminder(p) == Subscribed(p) /\ ~Had(p, "renewal") /\ p \notin leaving
AwaitingPC(p) == ~Had(p, "pc") /\ p \notin pcs

-----------------------------------------------------------------------------
(* A loop.                                                                 *)

Puts(l, new) == loop' = [loop EXCEPT ![l] = new]

\* The list of one kind is read, and stays as it was read.
Lists(l, k, due) ==
  /\ loop[l].at = "rest" /\ k \in Of(l)
  /\ Puts(l, [at |-> "list", kind |-> k, list |-> due, hand |-> {}])
  /\ UNCHANGED <<people, book, mailPast>>

SendFlows ==
  \/ Lists("marketing", "joins_out", {p \in Person : FreeJoinsDue(p)})
  \/ Lists("marketing", "first_join", {p \in Person : FirstJoinDue(p)})
  \/ Lists("marketing", "wipe_week", {p \in Person : EveryoneDue(p)})

SendWinback == \E k \in Kinds.winback : Lists("winback", k, {p \in Person : DueWinback(p, k)})

SendRenewalReminders == Lists("reminders", "renewal", {p \in Person : DueRenewalReminder(p)})
SendTrialReminders == Lists("reminders", "trial", {p \in Person : DueTrialReminder(p)})
SendPCReminders == Lists("pc", "pc", {p \in Person : AwaitingPC(p)})

\* Which campaigns are to be sent is read once in a round.
DueCampaigns ==
  /\ loop.marketing.at = "rest" /\ "campaign" \in switched /\ campaign = "scheduled"
  /\ Puts("marketing", [at |-> "due", kind |-> "campaign", list |-> {}, hand |-> {}])
  /\ UNCHANGED <<people, book, mailPast>>

Smaller(m, n) == IF m < n THEN m ELSE n
Room(counted) == Smaller(DailyLimit - counted, Batch)

\* sendCampaigns, for one that was scheduled when the round looked, and may be
\* cancelled by now: what is left of the day's allowance, counted from the
\* midnight before the round began, a batch at most; when nobody is due, it is
\* asked who is left.
SendCampaigns ==
  LET due == {p \in Person : CampaignRecipient(p)}
  IN /\ loop.marketing.at = "due"
     /\ \E counted \in today .. DailyLimit : \E list \in SUBSET due :
          /\ Room(counted) > 0 /\ Cardinality(list) = Smaller(Cardinality(due), Room(counted))
          /\ Puts("marketing", [at |-> IF due = {} THEN "count" ELSE "list",
                                kind |-> "campaign", list |-> list, hand |-> {}])
     /\ UNCHANGED <<people, book, mailPast>>

\* Nothing is left of the day's allowance, or a read failed.
SkipsCampaign ==
  /\ loop.marketing.at = "due" /\ Puts("marketing", Rest("marketing"))
  /\ UNCHANGED <<people, book, mailPast>>

\* Mutant: nobody due is nobody left.
RemainingDue == {p \in Person : CampaignRecipient(p)}

\* CampaignRemaining leaves the cap aside.
Remaining == {p \in Person \ (optedOut \cup leaving) : OnFree(p) /\ ~Had(p, "campaign")}

Counts ==
  /\ loop.marketing.at = "count"
  /\ Puts("marketing", IF Remaining = {} THEN [loop.marketing EXCEPT !.at = "finish"]
                       ELSE Rest("marketing"))
  /\ moved' = {} /\ UNCHANGED <<people, book, sent, heard, late, stray>>

FinishCampaign ==
  /\ loop.marketing.at = "finish" /\ Puts("marketing", Rest("marketing"))
  /\ campaign' = IF campaign = "scheduled" THEN "done" ELSE campaign
  /\ UNCHANGED <<people, recent, booked, today, mailPast>>

\* The next of the list is passed over: no access yet (sendPCReminders), an
\* error, or the email is already claimed.
Passes(l, p) ==
  /\ loop[l].at = "list" /\ p \in loop[l].list
  /\ Puts(l, [loop[l] EXCEPT !.list = @ \ {p}])
  /\ UNCHANGED <<people, book, mailPast>>

Books(p, k) == booked' = booked \cup {<<p, k>>}

\* Mutant: the email is sent first, and noted when it has gone.
ClaimNoSend(p, k) == ~Had(p, k) /\ UNCHANGED <<booked, recent, today>>

ClaimMarketingSend(p, k) ==
  /\ ~Had(p, k) /\ Books(p, k) /\ recent' = recent \cup {p}
  /\ today' = IF k = "campaign" THEN today + 1 ELSE today

MarkWinbackSent(p, k) == ~Passed(p, k) /\ Books(p, k) /\ UNCHANGED <<recent, today>>

MarkRenewalReminded(p) == ~Had(p, "renewal") /\ Books(p, "renewal") /\ UNCHANGED <<recent, today>>
MarkTrialReminded(p) == ~Had(p, "trial") /\ Books(p, "trial") /\ UNCHANGED <<recent, today>>
MarkPCReminded(p) == Books(p, "pc") /\ UNCHANGED <<recent, today>>

\* The next of the list is claimed, and then it is sent: sendFlow,
\* sendOneWinback and the bodies of the other three.
Hands(l, p, k) ==
  /\ loop[l].at = "list" /\ p \in loop[l].list /\ loop[l].kind = k
  /\ Puts(l, [loop[l] EXCEPT !.at = "send", !.list = @ \ {p}, !.hand = {p}])
  /\ UNCHANGED <<people, campaign, mailPast>>

SendFlow(p, k) == Hands("marketing", p, k) /\ ClaimMarketingSend(p, k)
SendOneWinback(p, k) == Hands("winback", p, k) /\ MarkWinbackSent(p, k)
SubscribedNow(p) == Subscribed(p)

ClaimsEmail(p) ==
  \/ \E k \in Marketing : SendFlow(p, k)
  \/ \E k \in Kinds.winback : SendOneWinback(p, k)
  \/ Hands("reminders", p, "renewal") /\ MarkRenewalReminded(p)
  \/ Hands("reminders", p, "trial") /\ MarkTrialReminded(p)
  \/ Hands("pc", p, "pc") /\ SubscribedNow(p) /\ MarkPCReminded(p)

\* It may have gone even if the provider's answer says or tells nothing.
Sends(l) ==
  LET k == loop[l].kind
      to == loop[l].hand
      One(S, f) == [e \in DOMAIN f |-> IF e \in S THEN f[e] + 1 ELSE f[e]]
  IN /\ loop[l].at = "send" /\ Puts(l, [loop[l] EXCEPT !.at = "list", !.hand = {}])
     /\ \/ /\ sent' = One(to \X {k}, sent)
           /\ heard' = One(IF k \in Marketing THEN to ELSE {}, heard)
           /\ late' = One(IF k \in Wanted THEN (to \cap optedOut) \X {l} ELSE {}, late)
           /\ stray' = IF k = "campaign" /\ campaign = "cancelled" THEN stray + 1 ELSE stray
        \/ UNCHANGED <<sent, heard, late, stray>>
     /\ UNCHANGED <<people, book, moved>>

ListEnds(l) ==
  /\ loop[l].at = "list" /\ loop[l].list = {} /\ Puts(l, Rest(l))
  /\ UNCHANGED <<people, book, mailPast>>

RelayStops ==
  /\ loop' = [l \in Loop |-> Rest(l)]
  /\ UNCHANGED <<people, book, mailPast>>

-----------------------------------------------------------------------------
(* The people, the clock and the owner.                                    *)

Counted == campaign = "done" \/ \E l \in Loop : loop[l].at = "finish"

\* Those facts about a person that something switched on looks at.
PersonChanges(p) ==
  /\ \/ /\ paying' = (paying \cup {p}) \ (paying \cap {p})
        /\ UNCHANGED <<optedOut, leaving, pcs, age>>
     \/ /\ leaving' = (leaving \cup {p}) \ (leaving \cap {p})
        /\ UNCHANGED <<paying, optedOut, pcs, age>>
     \/ /\ optedOut' = optedOut \cup {p}                         \* OptOutOfEmail
        /\ UNCHANGED <<paying, leaving, pcs, age>>
     \/ /\ "pc" \in switched /\ pcs' = pcs \cup {p}
        /\ UNCHANGED <<paying, optedOut, leaving, age>>
     \/ /\ "first" \in switched /\ age[p] < 3 /\ age' = [age EXCEPT ![p] = @ + 1]
        /\ UNCHANGED <<paying, optedOut, leaving, pcs>>
  /\ moved' = IF Counted THEN moved \cup {p} ELSE moved
  /\ UNCHANGED <<switched, book, loop, sent, heard, late, stray>>

\* A day after the last marketing email; the claim and its email are seconds
\* apart.
CapPasses(p) ==
  /\ p \in recent /\ \A l \in Loop : p \notin loop[l].hand
  /\ recent' = recent \ {p} /\ heard' = [heard EXCEPT ![p] = 0]
  /\ UNCHANGED <<people, booked, campaign, today, loop, sent, late, stray, moved>>

Midnight ==
  /\ today > 0 /\ today' = 0
  /\ UNCHANGED <<people, recent, booked, campaign, loop, mailPast>>

\* ScheduleCampaign and CancelCampaign, conditional UPDATEs.
CampaignMoves ==
  /\ "campaign" \in switched
  /\ \/ campaign = "draft" /\ campaign' \in {"scheduled", "cancelled"}
     \/ campaign = "scheduled" /\ campaign' = "cancelled"
  /\ UNCHANGED <<people, recent, booked, today, loop, mailPast>>

LoopStep(l) ==
  Sends(l) \/ ListEnds(l) \/ \E p \in Person : Passes(l, p)

MailNext ==
  \/ SendFlows \/ SendWinback \/ SendRenewalReminders \/ SendTrialReminders
  \/ SendPCReminders
  \/ DueCampaigns \/ SendCampaigns \/ SkipsCampaign \/ Counts \/ FinishCampaign
  \/ \E p \in Person : ClaimsEmail(p)
  \/ \E l \in Loop : LoopStep(l)
  \/ RelayStops \/ Midnight \/ CampaignMoves
  \/ \E p \in Person : PersonChanges(p) \/ CapPasses(p)

MailSpec == MailInit /\ [][MailNext]_mailVars

-----------------------------------------------------------------------------
(* What a person can count on.                                             *)

\* "Nothing twice, and nobody hears from QueueUp more than once a day however
\* many flows they qualify for" (internal/relay/marketing.go), the win-back
\* emails aside, whose claims are kept elsewhere; through lost answers and
\* stops of the relay at any statement.
MailIsSparing ==
  /\ \A e \in Person \X Kind : sent[e] <= 1
  /\ \A p \in Person : heard[p] <= 1

\* Stop is heard when a list is read and not again for each email, so a list
\* read before may bring one more, one from each loop.  A cancelled campaign is
\* not looked at again either, and sends no more than one batch, which it may
\* even read after the cancel.
StopEndsIt ==
  /\ \A e \in Person \X Loop : late[e] <= 1
  /\ stray <= Batch

\* Documented: "Each email asks, at the moment of sending, whether this person
\* still wants email", and "nothing more will" (CancelCampaign).
StopIsAsked == \A e \in Person \X Loop : late[e] = 0
NothingMoreGoes == stray = 0

\* A campaign is done when it has been claimed for everybody of its segment
\* who still wants email, those waiting for the cap included; except who
\* changed after the count.
DoneReachedAll ==
  campaign = "done" =>
    \A p \in Person \ (optedOut \cup leaving \cup paying \cup moved) :
      <<p, "campaign">> \in booked

=============================================================================
