------------------------------- MODULE Billing -------------------------------
(***************************************************************************)
(* What one account has paid for, and what the relay believes it has.      *)
(*                                                                         *)
(* A subscription is bought on Stripe's page or in the phone's store; the  *)
(* truth stays there.  The relay keeps a copy on the account               *)
(* (internal/store/billing.go), and both tills tell it by webhook that     *)
(* something about a purchase changed, late, twice or out of order, until  *)
(* it answers 200.  A handler believes none of what a webhook says: it     *)
(* asks what is true now and copies that (internal/relay/billing.go,       *)
(* storebilling.go).  Asking, reading the row and every write are steps of *)
(* their own, and any of them may fail.  The owner can open and close an   *)
(* account by hand (internal/relay/feedback.go).                           *)
(***************************************************************************)
EXTENDS Naturals, FiniteSets

CONSTANTS
  Sub,         \* the Stripe subscriptions the account may come to have
  InApp,       \* the subscription sold by the phone's store
  Handler,     \* webhooks handled at once
  MaxChanges,  \* bound: how often a purchase changes
  None

ASSUME BillingAssumption ==
  InApp \notin Sub /\ None \notin Sub \cup {InApp} /\ MaxChanges \in Nat

VARIABLES
  at,       \* the purchases, at Stripe and the store
  leaving,  \* those cancelled, their month still running
  page,     \* the checkout page each Stripe subscription is bought on
  changes,  \* how often a purchase has changed
  news,     \* webhooks on their way: the purchase, and what they are about
  row,      \* the account's columns
  work,     \* per handler: how far it is and what it has read
  hand,     \* what the owner is about to write
  odd       \* history: what else has happened, see the properties

tills == <<at, leaving, page, changes>>
vars == <<tills, news, row, work, hand, odd>>

Purchase == Sub \cup {InApp}
Webhook == (Purchase \X {"change"}) \cup (Sub \X {"checkout"})

Row == [status : {"none", "active", "comped"}, sub : Purchase \cup {None},
        ends : BOOLEAN, intro : BOOLEAN]

Work == [pc : {"idle", "ask", "read", "link", "set", "note", "close"},
         of : Webhook, open : BOOLEAN, leaves : BOOLEAN, fresh : BOOLEAN]

Blank == [status |-> "none", sub |-> None, ends |-> FALSE, intro |-> FALSE]

\* The types; and an account that is open on a purchase names it
\* (SetSubscription writes the two together).
BillingTypeOK ==
  /\ at \in [Purchase -> {"unborn", "open", "over"}]
  /\ leaving \subseteq {p \in Purchase : at[p] = "open"}
  /\ page \in [Sub -> {"none", "trial", "plain"}]
  /\ changes \in 0 .. MaxChanges
  /\ news \subseteq Webhook
  /\ row \in Row /\ (row.status = "active" => row.sub # None)
  /\ work \in [Handler -> Work]
  /\ hand \in {"nothing", "give", "take", "clear"}
  /\ odd \subseteq {"overlap", "twice", "late", "hand", "tabs"}

Resting == [pc |-> "idle", of |-> <<InApp, "change">>, open |-> FALSE,
            leaves |-> FALSE, fresh |-> FALSE]

Init ==
  /\ at = [p \in Purchase |-> "unborn"] /\ leaving = {}
  /\ page = [s \in Sub |-> "none"] /\ changes = 0
  /\ news = {} /\ row = Blank
  /\ work = [h \in Handler |-> Resting]
  /\ hand = "nothing" /\ odd = {}

Active(r) == r.status \in {"active", "comped"}
Open == {p \in Purchase : at[p] = "open"}

\* Nothing is on its way and nothing is being handled.
Quiet == news = {} /\ \A h \in Handler : work[h].pc = "idle"

-----------------------------------------------------------------------------
(* The customer and the tills.                                             *)

\* A page is being shown, or is paid and the relay has not been told.
PageAbout ==
  \E s \in Sub : page[s] # "none" /\ (at[s] = "unborn" \/ <<s, "checkout">> \in news)

\* handleCheckout: not for an account that is open; the trial is for one that
\* has not had it.  The answer is a page, good until it is paid.
OpenCheckout(s) ==
  /\ page[s] = "none" /\ ~Active(row)
  /\ page' = [page EXCEPT ![s] = IF row.intro THEN "plain" ELSE "trial"]
  /\ odd' = IF PageAbout THEN odd \cup {"tabs"} ELSE odd
  /\ UNCHANGED <<at, leaving, changes, news, row, work, hand>>

Bought(p, told) ==
  /\ changes < MaxChanges /\ changes' = changes + 1
  /\ at' = [at EXCEPT ![p] = "open"]
  /\ news' = news \cup told
  /\ odd' = IF Quiet /\ Open = {} /\ ~Active(row) THEN odd ELSE odd \cup {"twice"}
  /\ UNCHANGED <<leaving, page, row, work, hand>>

Pay(s) ==
  /\ at[s] = "unborn" /\ page[s] # "none"
  /\ Bought(s, {<<s, "checkout">>, <<s, "change">>})

BuyInApp == at[InApp] # "open" /\ Bought(InApp, {<<InApp, "change">>})

\* A renewal that fails is not the end: GrantsAccess keeps "past_due" open.
Changes(p) ==
  /\ at[p] = "open" /\ changes < MaxChanges /\ changes' = changes + 1
  /\ \/ /\ leaving' = (leaving \cup {p}) \ (leaving \cap {p})
        /\ UNCHANGED at
     \/ at' = [at EXCEPT ![p] = "over"] /\ leaving' = leaving \ {p}
  /\ news' = news \cup {<<p, "change">>}
  /\ UNCHANGED <<page, row, work, hand, odd>>

\* A webhook once sent may come again.
Repeat(w) ==
  /\ at[w[1]] # "unborn" /\ news' = news \cup {w}
  /\ UNCHANGED <<tills, row, work, hand, odd>>

-----------------------------------------------------------------------------
(* A webhook.                                                              *)

Goes(h, pc) == work' = [work EXCEPT ![h].pc = pc]
Rests(h) == work' = [work EXCEPT ![h] = Resting]

\* Mutant: a checkout names the subscription and leaves the offer unused.
LinkAlone(p) == row' = [row EXCEPT !.sub = p]

LinkStripe(p) == row' = [row EXCEPT !.sub = p, !.intro = TRUE]

TakesUp(h, w) ==
  /\ work[h].pc = "idle" /\ w \in news
  /\ news' = news \ {w}
  /\ work' = [work EXCEPT ![h].pc = "ask", ![h].of = w]
  /\ odd' = odd
       \cup (IF \E g \in Handler : work[g].pc # "idle" THEN {"overlap"} ELSE {})
       \cup (IF w[2] = "checkout" /\ at[w[1]] = "over" THEN {"late"} ELSE {})
  /\ UNCHANGED <<tills, hand>>

\* handleStripeWebhook: a checkout that finished names the account's
\* subscription before Stripe is asked anything.
StripeWebhook(h, w) ==
  /\ TakesUp(h, w) /\ w[1] \in Sub
  /\ IF w[2] = "checkout" THEN LinkStripe(w[1]) ELSE UNCHANGED row

\* handleRevenueCatWebhook, and handleStoreSync, when the app says it has bought.
StoreWebhook(h, w) == TakesUp(h, w) /\ w[1] = InApp /\ UNCHANGED row

\* A 500 at any step, or the relay stopping: the webhook comes again.
Fails(h) ==
  /\ work[h].pc # "idle" /\ Rests(h)
  /\ news' = news \cup {work[h].of}
  /\ UNCHANGED <<tills, row, hand, odd>>

\* The answer: does it give access, and will it stop?
Asks(h, p) ==
  /\ work[h].pc = "ask" /\ work[h].of[1] = p
  /\ work' = [work EXCEPT ![h].pc = "read", ![h].open = p \in Open, ![h].leaves = p \in leaving]
  /\ UNCHANGED <<tills, news, row, hand, odd>>

AskStripe(h) == \E s \in Sub : Asks(h, s)
AskStore(h) == Asks(h, InApp)

\* Mutant: a subscription is new if it is not the one on the account.
FreshByName(p) == row.sub # p

Fresh(p) == ~Active(row) \/ row.sub # p

\* What syncSubscription does next, and syncStore.
NextForStripe(p, open) ==
  IF open THEN "link" ELSE IF row.sub \in {None, p} THEN "close" ELSE "idle"

NextForStore(open) ==
  IF ~open THEN (IF row.sub = InApp THEN "close" ELSE "idle")
  ELSE IF Active(row) /\ row.sub # InApp THEN "idle"
  ELSE IF Fresh(InApp) THEN "set" ELSE "note"

Read(h) ==
  LET p == work[h].of[1]
      open == work[h].open
      next == IF p = InApp THEN NextForStore(open) ELSE NextForStripe(p, open)
  IN /\ work[h].pc = "read"
     /\ IF next = "idle" THEN Rests(h)
        ELSE work' = [work EXCEPT ![h].pc = next, ![h].fresh = Fresh(p)]
     /\ UNCHANGED <<tills, news, row, hand, odd>>

\* The customer, and when a trial turns into a charge, are written with it.
Link(h) ==
  LET p == work[h].of[1]
  IN /\ work[h].pc = "link"
     /\ LinkStripe(p)
     /\ Goes(h, IF work[h].fresh THEN "set" ELSE "note")
     /\ UNCHANGED <<tills, news, hand, odd>>

\* Mutant: the status is set and naming the subscription is left to the link.
SetStatusAlone(status, p) == row' = [row EXCEPT !.status = status, !.ends = FALSE]

\* Setting the status clears the leaving date.
SetSubscription(status, p) ==
  row' = [row EXCEPT !.status = status, !.sub = p, !.ends = FALSE]

SetActive(h) ==
  /\ work[h].pc = "set" /\ Goes(h, "note")
  /\ SetSubscription("active", work[h].of[1])
  /\ UNCHANGED <<tills, news, hand, odd>>

\* Mutant: only a fresh subscription has its leaving date written.
NoteEndingWhenFresh(h) ==
  /\ work[h].pc = "note" /\ Rests(h)
  /\ row' = [row EXCEPT !.ends =
       IF work[h].fresh THEN work[h].leaves ELSE @]
  /\ UNCHANGED <<tills, news, hand, odd>>

\* The last write; the referral months that follow it are in Referral.
NoteEnding(h) ==
  /\ work[h].pc = "note" /\ Rests(h)
  /\ row' = [row EXCEPT !.ends = work[h].leaves]
  /\ UNCHANGED <<tills, news, hand, odd>>

Close(h) ==
  /\ work[h].pc = "close" /\ Rests(h)
  /\ SetSubscription("none", work[h].of[1])
  /\ UNCHANGED <<tills, news, hand, odd>>

-----------------------------------------------------------------------------
(* By hand.                                                                *)

Looks(what) == hand = "nothing" /\ hand' = what /\ UNCHANGED <<tills, news, row, work, odd>>

\* handleAdminComp: not for a paying customer, nor to be taken from one.
Comps == (Looks("give") /\ row.status # "active") \/ (Looks("take") /\ row.status = "comped")

\* handleAdminClearSubscription asks Stripe about whatever id the row holds, and
\* Stripe knows no other's.
ClearsSubscription == Looks("clear") /\ row.sub \notin Open \cap Sub

HandWrites ==
  /\ hand # "nothing" /\ hand' = "nothing"
  /\ SetSubscription(IF hand = "give" THEN "comped" ELSE "none", None)
  /\ odd' = odd \cup {"hand"}
  /\ UNCHANGED <<tills, news, work>>

Next ==
  \/ \E s \in Sub : OpenCheckout(s) \/ Pay(s)
  \/ BuyInApp
  \/ \E p \in Purchase : Changes(p)
  \/ \E w \in Webhook :
       Repeat(w) \/ \E h \in Handler : StripeWebhook(h, w) \/ StoreWebhook(h, w)
  \/ \E h \in Handler :
       \/ AskStripe(h) \/ AskStore(h) \/ Read(h) \/ Link(h) \/ SetActive(h) \/ NoteEnding(h)
       \/ Close(h) \/ Fails(h)
  \/ Comps \/ ClearsSubscription \/ HandWrites

Spec == Init /\ [][Next]_vars

-----------------------------------------------------------------------------
(* What the copy on the account is worth once it is quiet.                 *)

\* An account is not left open on a purchase that has ended, nor shown as
\* staying when it is leaving, through lost, late and repeated webhooks and
\* failures at every step, as long as its webhooks are handled one at a time
\* (syncSubscription, syncStore).
NoFreeRide ==
  (Quiet /\ "overlap" \notin odd /\ row.status = "active") =>
    row.sub \in Open /\ (row.ends <=> row.sub \in leaving)

\* Somebody who pays is let in, if besides nothing was bought before the relay
\* was through with the purchase before, nothing was done by hand, and no
\* checkout was heard of after its purchase was over: "an old subscription ending must not switch off a newer one"
\* (syncSubscription), nor one till switch off the other (storebilling.go).
PaidIsOpen == (Quiet /\ odd = {} /\ Open # {}) => row.status = "active"

\* The free trial is "once per account, ever" (handleCheckout), unless a
\* second page was opened before the relay heard of the first one's payment.
TrialOnce ==
  "tabs" \notin odd =>
    Cardinality({s \in Sub : page[s] = "trial" /\ at[s] # "unborn"}) <= 1

\* internal/relay/feedback.go:245-249: an account given free access has no
\* subscription, and "a stray Stripe event has no business switching it off":
\* a webhook that finds such an account does not go on to close it.
GivenIsKept ==
  [][\A h \in Handler :
       (row.status = "comped" /\ work[h].pc = "read") => work'[h].pc # "close"]_vars

=============================================================================
