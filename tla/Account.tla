------------------------------- MODULE Account -------------------------------
(***************************************************************************)
(* One address, its account, and the ways in and out of it.                *)
(*                                                                         *)
(* Requests run at once and hold nothing over their statements: an account *)
(* is looked for and then inserted, a password compared and then replaced, *)
(* every session deleted after that, one at a time                         *)
(* (internal/store/auth.go, reset.go, identities.go, and the handlers in   *)
(* internal/relay/auth.go, start.go, oauth.go, reset.go, account.go).  Any *)
(* statement can be the last.  Deleting the account waits a week, in which *)
(* it works as before, and is done by a sweep that lists and then erases.  *)
(***************************************************************************)
EXTENDS Naturals, FiniteSets

CONSTANTS
  Request,  \* requests made, each once; a session or link has the name of its request
  Earlier   \* a session from before

ASSUME AccountAssumption ==
  /\ IsFiniteSet(Request)
  /\ Earlier \notin Request
  /\ Request \cap {"broken", "links", "kept", "late", "since", "unread", "admin"} = {}
       \* see odd

VARIABLES
  account,    \* "none", "there", "gone"
  hasPassword, linked, paid, erasure,  \* its columns and identities
  sessions, links,
  request,    \* kind, next statement, and the link it came with
  listed,     \* the sweep has the account on its list
  epoch,      \* history: passwords replaced
  proof,      \* history: what epoch was when a request showed who it is
  straddled,  \* history: requests under way when a password was replaced
  uses,       \* history: passwords set with a link
  odd         \* history: what else has happened, see the properties

columns == <<account, hasPassword, linked, paid, erasure>>
acctPast == <<epoch, proof, straddled, uses, odd>>
acctVars == <<columns, sessions, links, request, listed, acctPast>>

Cause == {"register", "start", "login", "oauth", "first", "change", "forgot",
         "reset", "temporary", "erase", "keep", "admin"}

Statement == {"again", "insert", "link", "ways", "subscription", "session", "drop", "mint",
              "first", "write", "mark", "wipe", "confirm", "erase", "remove"}

AcctTypeOK ==
  /\ account \in {"none", "there", "gone"}
  /\ hasPassword \in BOOLEAN /\ linked \in BOOLEAN
  /\ paid \in {"no", "website", "otherwise"} /\ erasure \in {"no", "week", "due"}
  /\ sessions \subseteq Request \cup {Earlier}
  /\ links \in [Request -> {"none", "good", "used"}]
  /\ request \in [Request -> [kind : Cause, at : Statement \cup {"new", "over"},
                              link : Request]]
  /\ listed \in BOOLEAN
  /\ epoch \in Nat /\ proof \in [Request \cup {Earlier} -> 0 .. epoch]
  /\ straddled \subseteq Request /\ uses \in [Request -> Nat]
  /\ odd \subseteq Request \cup {"broken", "links", "kept", "late", "since", "unread", "admin"}
  /\ account # "there" => sessions = {}

AcctInit ==
  /\ account \in {"none", "there"} /\ hasPassword \in BOOLEAN /\ linked \in BOOLEAN
  /\ paid \in {"no", "website", "otherwise"} /\ erasure = "no"
  /\ sessions \in {{}, {Earlier}}
  /\ account = "none" => ~hasPassword /\ ~linked /\ paid = "no" /\ sessions = {}
  /\ links = [r \in Request |-> "none"] /\ listed = FALSE
  /\ \E kind \in [Request -> Cause] :
       request = [r \in Request |-> [kind |-> kind[r], at |-> "new", link |-> r]]
  /\ epoch = 0 /\ proof = [s \in Request \cup {Earlier} |-> 0]
  /\ straddled = {} /\ uses = [r \in Request |-> 0] /\ odd = {}

SignedIn == sessions # {}
UnderWay == {r \in Request : request[r].at \in Statement}

At(r, statement) == request[r].at = statement
Arrives(r, kind) == At(r, "new") /\ request[r].kind = kind
Goes(r, to) == request' = [request EXCEPT ![r].at = to]

-----------------------------------------------------------------------------
(* Making an account, and coming back to it.                               *)

\* handleRegister: the address is new, or there is an error.
Register(r) == Arrives(r, "register") /\ Goes(r, IF account = "none" THEN "insert" ELSE "over")

\* handleStart: the address is new, or startExisting.  An address whose account
\* is gone may begin again, with another account.
Start(r) ==
  Arrives(r, "start") /\ Goes(r, CASE account = "none" -> "again"
                                   [] account = "there" -> "ways"
                                   [] account = "gone" -> "over")

\* handleContinue, whose link only stands for typing the address.
Continue(r) ==
  Arrives(r, "start") /\ Goes(r, IF account = "there" THEN "ways" ELSE "over")

SignIn == account = "there" /\ hasPassword
Login(r) == Arrives(r, "login") /\ Goes(r, IF SignIn THEN "session" ELSE "over")

AccountByIdentity == account = "there" /\ linked

\* handleOAuth: the identity, or else the address it vouches for.
OAuth(r) ==
  Arrives(r, "oauth") /\ Goes(r, CASE AccountByIdentity -> "session"
                                   [] account = "there" /\ ~linked -> "link"
                                   [] account = "none" -> "again"
                                   [] account = "gone" -> "over")

\* The first statement of each.
Look(r) ==
  /\ Register(r) \/ Start(r) \/ Continue(r) \/ Login(r) \/ OAuth(r)
  /\ proof' = [proof EXCEPT ![r] = epoch]
  /\ UNCHANGED <<columns, sessions, links, listed, epoch, straddled, uses, odd>>

\* StartAccount looks again.  An address that has an account by now is
\* startExisting for who typed it, and nothing for who did not prove it theirs.
LooksAgain(r) ==
  /\ At(r, "again")
  /\ Goes(r, CASE account = "none" -> "insert"
               [] account = "there" /\ request[r].kind = "start" -> "ways"
               [] OTHER -> "over")
  /\ UNCHANGED <<columns, sessions, links, listed, acctPast>>

\* Addresses are UNIQUE: of two that found none, the second fails here.
Made(r, password, to) ==
  IF account = "none" THEN account' = "there" /\ hasPassword' = password /\ Goes(r, to)
  ELSE Goes(r, "over") /\ UNCHANGED <<account, hasPassword>>

WithPassword(r) == request[r].kind = "register" /\ Made(r, TRUE, "session")

StartAccount(r) ==
  \/ request[r].kind = "start" /\ Made(r, FALSE, "session")
  \/ request[r].kind = "oauth" /\ Made(r, FALSE, "link")

Insert(r) ==
  /\ At(r, "insert") /\ (WithPassword(r) \/ StartAccount(r))
  /\ UNCHANGED <<linked, paid, erasure, sessions, links, listed, acctPast>>

LinkIdentity(r) ==
  /\ At(r, "link") /\ account = "there" /\ linked' = TRUE /\ Goes(r, "session")
  /\ UNCHANGED <<account, hasPassword, paid, erasure, sessions, links, listed, acctPast>>

\* startExisting: an account with a way in, or with something paid, is not
\* opened by typing its address.
CanSignIn == hasPassword \/ linked

StartExisting(r) ==
  /\ \/ At(r, "ways") /\ Goes(r, IF CanSignIn THEN "over" ELSE "subscription")
     \/ At(r, "subscription") /\ Goes(r, IF paid = "no" THEN "session" ELSE "drop")
  /\ UNCHANGED <<columns, sessions, links, listed, acctPast>>

NewSession(r) ==
  /\ At(r, "session") /\ account = "there" /\ Goes(r, "over")
  /\ sessions' = sessions \cup {r}
  /\ UNCHANGED <<columns, links, listed, acctPast>>

\* Signed out, or AccountBySession finds it has expired.
SignOut(s) ==
  /\ s \in sessions /\ sessions' = sessions \ {s}
  /\ UNCHANGED <<columns, links, request, listed, acctPast>>

-----------------------------------------------------------------------------
(* Passwords.                                                              *)

\* handleFirstPassword.
FirstPassword(r) ==
  /\ Arrives(r, "first") /\ SignedIn /\ Goes(r, "first")
  /\ UNCHANGED <<columns, sessions, links, listed, acctPast>>

\* One UPDATE, of an account that has none.
SetFirstPassword(r) ==
  /\ At(r, "first") /\ Goes(r, "over") /\ hasPassword' = (hasPassword \/ account = "there")
  /\ UNCHANGED <<account, linked, paid, erasure, sessions, links, listed, acctPast>>

\* handleForgotPassword.
Forgot(r) ==
  /\ Arrives(r, "forgot") /\ Goes(r, IF account = "there" THEN "drop" ELSE "over")
  /\ UNCHANGED <<columns, sessions, links, listed, acctPast>>

\* StartPasswordReset: earlier links go, and then there is a new one.
DropLinks(r) ==
  /\ At(r, "drop")
  /\ Goes(r, "mint")
  /\ links' = [l \in Request |-> IF links[l] = "good" THEN "none" ELSE links[l]]
  /\ odd' = IF \E q \in Request : At(q, "mint") THEN odd \cup {"links"} ELSE odd
  /\ UNCHANGED <<columns, sessions, listed, epoch, proof, straddled, uses>>

MintLink(r) ==
  /\ At(r, "mint") /\ account = "there" /\ Goes(r, "over")
  /\ links' = [links EXCEPT ![r] = "good"]
  /\ UNCHANGED <<columns, sessions, listed, acctPast>>

LinkExpires(l) ==
  /\ links[l] = "good" /\ links' = [links EXCEPT ![l] = "none"]
  /\ UNCHANGED <<columns, sessions, request, listed, acctPast>>

\* ChangePassword: the current one is right.
MayChange(r) ==
  Arrives(r, "change") /\ SignedIn /\ hasPassword /\ Goes(r, "write") /\ UNCHANGED odd

\* handleAdminTempPassword, SetTemporaryPassword.
MayBeGiven(r) ==
  Arrives(r, "temporary") /\ account = "there" /\ Goes(r, "write") /\ UNCHANGED odd

\* FinishPasswordReset: the link is neither used nor too old.
MayReset(r) ==
  \E l \in Request :
    /\ Arrives(r, "reset") /\ links[l] = "good"
    /\ request' = [request EXCEPT ![r].at = "write", ![r].link = l]
    /\ odd' = IF \E q \in UnderWay : request[q].kind = "reset" /\ request[q].link = l
              THEN odd \cup {l} ELSE odd

MayReplace(r) ==
  /\ MayChange(r) \/ MayBeGiven(r) \/ MayReset(r)
  /\ UNCHANGED <<columns, sessions, links, listed, epoch, proof, straddled, uses>>

Reset(r) == request[r].kind = "reset"

Replaced(r) ==
  /\ hasPassword' = (hasPassword \/ account = "there") /\ epoch' = epoch + 1
  /\ straddled' = straddled \cup (UnderWay \ {r})
  /\ proof' = [proof EXCEPT ![r] = epoch + 1]
  /\ uses' = IF Reset(r) THEN [uses EXCEPT ![request[r].link] = @ + 1] ELSE uses

ChangePassword(r) == request[r].kind = "change" /\ Goes(r, "wipe")
SetTemporaryPassword(r) == request[r].kind = "temporary" /\ Goes(r, "wipe")
FinishPasswordReset(r) == Reset(r) /\ Goes(r, "mark")

ReplacePassword(r) ==
  /\ At(r, "write") /\ Replaced(r)
  /\ ChangePassword(r) \/ SetTemporaryPassword(r) \/ FinishPasswordReset(r)
  /\ UNCHANGED <<account, linked, paid, erasure, sessions, links, listed, odd>>

\* Mutant: the link is good for its hour.
MarkNothing(r) ==
  /\ At(r, "mark") /\ Goes(r, "wipe")
  /\ UNCHANGED <<columns, sessions, links, listed, acctPast>>

MarkUsed(r) ==
  /\ At(r, "mark") /\ Goes(r, "wipe")
  /\ links' = [links EXCEPT ![request[r].link] = IF @ = "good" THEN "used" ELSE @]
  /\ UNCHANGED <<columns, sessions, listed, acctPast>>

\* Whoever changed the password is signed in again.
AfterWipe(r) == Goes(r, IF request[r].kind = "change" THEN "session" ELSE "over")

\* Mutant: the browser the change came from keeps its session.
WipeOthers(r) ==
  /\ At(r, "wipe") /\ AfterWipe(r)
  /\ sessions' \in {sessions \cap {s} : s \in Request \cup {Earlier}} /\ odd' = odd \ {"broken"}
  /\ UNCHANGED <<columns, links, listed, epoch, proof, straddled, uses>>

WipeSessions(r) ==
  /\ At(r, "wipe") /\ AfterWipe(r)
  /\ sessions' = {} /\ odd' = odd \ {"broken"}
  /\ UNCHANGED <<columns, links, listed, epoch, proof, straddled, uses>>

-----------------------------------------------------------------------------
(* Leaving.                                                                *)

\* handleEraseOwnAccount: money first.  A subscription that could not be read
\* does not stop it.
MayLeave(r) ==
  /\ Arrives(r, "erase") /\ SignedIn
  /\ \/ /\ Goes(r, IF paid = "website" THEN "over" ELSE "confirm")
        /\ UNCHANGED odd
     \/ /\ Goes(r, "confirm")
        /\ odd' = odd \cup (IF paid = "website" THEN {"unread"} ELSE {})
  /\ UNCHANGED <<columns, sessions, links, listed, epoch, proof, straddled, uses>>

RequestErasure(r) ==
  /\ \/ At(r, "confirm") /\ Goes(r, "erase") /\ UNCHANGED <<erasure, odd>>
     \/ /\ At(r, "erase") /\ Goes(r, "over")
        /\ erasure' = IF account = "there" THEN "week" ELSE erasure
        /\ odd' = odd \ {"kept"}
  /\ UNCHANGED <<account, hasPassword, linked, paid, sessions, links, listed,
                 epoch, proof, straddled, uses>>

KeepTold == odd \cup {"kept"} \cup (IF listed THEN {"late"} ELSE {})

\* Mutant: once the week is up there is nothing left to cancel, and the answer
\* is still "Your account is staying".
KeepInTheWeek(r) ==
  /\ Arrives(r, "keep") /\ SignedIn /\ Goes(r, "over")
  /\ erasure' = IF erasure = "week" THEN "no" ELSE erasure
  /\ odd' = KeepTold
  /\ UNCHANGED <<account, hasPassword, linked, paid, sessions, links, listed,
                 epoch, proof, straddled, uses>>

CancelErasure == erasure' = "no"

\* handleKeepAccount.
KeepAccount(r) ==
  /\ Arrives(r, "keep") /\ SignedIn /\ Goes(r, "over")
  /\ CancelErasure /\ odd' = KeepTold
  /\ UNCHANGED <<account, hasPassword, linked, paid, sessions, links, listed,
                 epoch, proof, straddled, uses>>

WeekPasses ==
  /\ erasure = "week" /\ erasure' = "due"
  /\ UNCHANGED <<account, hasPassword, linked, paid, sessions, links, request, listed, acctPast>>

\* Mutant: the sessions are left to expire.
EraseAllButSessions ==
  account' = "gone" /\ links' = [l \in Request |-> "none"] /\ UNCHANGED sessions

\* EraseAccount is one transaction, and takes along what belongs to the account.
EraseAccount ==
  account' = "gone" /\ sessions' = {} /\ links' = [l \in Request |-> "none"]

\* handleAdminEraseAccount: at once, whatever is paid, and kept or not.
AdminErases(r) ==
  /\ \/ /\ Arrives(r, "admin") /\ Goes(r, IF account = "there" THEN "remove" ELSE "over")
        /\ UNCHANGED <<account, sessions, links, odd>>
     \/ /\ At(r, "remove") /\ Goes(r, "over")
        /\ IF account = "there" THEN EraseAccount /\ odd' = odd \cup {"admin"}
           ELSE UNCHANGED <<account, sessions, links, odd>>
  /\ UNCHANGED <<hasPassword, linked, paid, erasure, listed, epoch, proof, straddled, uses>>

AccountsDueForErasure == account = "there" /\ erasure = "due"

\* eraseSweep: the list, and then every account on it.
Sweep ==
  /\ \/ ~listed /\ AccountsDueForErasure /\ listed' = TRUE
        /\ UNCHANGED <<account, sessions, links>>
     \/ listed /\ listed' = FALSE /\ (EraseAccount \/ UNCHANGED <<account, sessions, links>>)
  /\ UNCHANGED <<hasPassword, linked, paid, erasure, request, acctPast>>

\* What the copy of the subscription says (Billing).  A purchase does not ask
\* whether the account is leaving.
Pays(how) ==
  /\ account = "there" /\ paid' = how
  /\ odd' = IF how = "website"
               /\ (listed \/ erasure # "no" \/ \E r \in UnderWay : At(r, "confirm") \/ At(r, "erase"))
            THEN odd \cup {"since"} ELSE odd
  /\ UNCHANGED <<account, hasPassword, linked, erasure, sessions, links, request,
                 listed, epoch, proof, straddled, uses>>

-----------------------------------------------------------------------------
\* A statement fails: the handler answers and leaves what it has done.
AcctFails(r) ==
  /\ r \in UnderWay /\ Goes(r, "over")
  /\ odd' = odd \cup (IF At(r, "mark") \/ At(r, "wipe") THEN {"broken"} ELSE {})
                \cup (IF At(r, "mark") THEN {request[r].link} ELSE {})
  /\ UNCHANGED <<columns, sessions, links, listed, epoch, proof, straddled, uses>>

AcctStep(r) ==
  \/ Look(r) \/ LooksAgain(r) \/ Insert(r) \/ LinkIdentity(r) \/ StartExisting(r) \/ NewSession(r)
  \/ FirstPassword(r) \/ SetFirstPassword(r)
  \/ Forgot(r) \/ DropLinks(r) \/ MintLink(r) \/ LinkExpires(r)
  \/ MayReplace(r) \/ ReplacePassword(r) \/ MarkUsed(r) \/ WipeSessions(r)
  \/ MayLeave(r) \/ RequestErasure(r) \/ KeepAccount(r) \/ AdminErases(r)
  \/ AcctFails(r)

AcctNext ==
  \/ \E r \in Request : AcctStep(r)
  \/ \E s \in Request \cup {Earlier} : SignOut(s)
  \/ \E how \in {"no", "website", "otherwise"} : Pays(how)
  \/ WeekPasses \/ Sweep

AcctSpec == AcctInit /\ [][AcctNext]_acctVars

-----------------------------------------------------------------------------
(* What changing a password, a link and a week of grace are worth.         *)

\* "Changing a password is how somebody throws out a device they no longer
\* trust" (ChangePassword, FinishPasswordReset): once the change is over, a
\* session from before it is alive only if its request was under way all
\* through the change, or the change failed half way.
ChangeThrowsOut ==
  (\A r \in Request : ~At(r, "mark") /\ ~At(r, "wipe")) /\ "broken" \notin odd =>
    \A s \in sessions : proof[s] = epoch \/ s \in straddled

\* "It works for one hour, once", and "the newest email is the only one that
\* works" (emailPasswordLink, StartPasswordReset), unless two requests came
\* with the link, or asked for one, at the same time, or the mark failed.
LinkWorksOnce ==
  /\ \A l \in Request \ odd : uses[l] <= 1
  /\ "links" \notin odd => Cardinality({l \in Request : links[l] = "good"}) <= 1

\* The sweep erases nobody who was told the account is staying, unless it had
\* the account on its list by then ("works right up until the sweep",
\* CancelErasure).  And it erases nobody whose card is being charged, but for a
\* purchase made after the look at the subscription, and for a look that failed
\* and let the request pass.  What an administrator erases at once is not held
\* to either.
ErasedRightly ==
  account = "gone" /\ "admin" \notin odd =>
    /\ "kept" \in odd => "late" \in odd
    /\ paid = "website" => "since" \in odd \/ "unread" \in odd

\* Documented ("Money first ... They cancel, then they leave"): of those who paid
\* before they left, one whose subscription could not be read, and one erased by
\* an administrator, are gone with the card still charged.
MoneyFirst == account = "gone" /\ paid = "website" => "since" \in odd

=============================================================================
