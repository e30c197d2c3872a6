---------------------------- MODULE AccountStore ----------------------------
(* Accounts of the hosted edition: invitations, mail challenges, accounts,   *)
(* and the web requests that work on them step by step.  Each step is one    *)
(* transaction; in between a request hashes a password or talks to the mail  *)
(* server.  Requests refused by the rate limit or by the storage change      *)
(* nothing that is modelled; sessions are left out, and who has one is an    *)
(* input, like the administrator.  An address names its account.             *)
(* Challenges are numbered in the order of their creation; two of a purpose  *)
(* are at least a minute apart.                                              *)
EXTENDS Naturals, FiniteSets

CONSTANTS Emails, Invites, Requests, None,
          MaxCodes,     \* bound on the challenges
          MaxTries      \* wrong codes a challenge survives, 5 in the code

VARIABLES
    users,      \* [state: none, on or off, verified]
    invites,    \* none, open, revoked, or the account that used it
    mail,       \* mail_challenges
    req,        \* the web requests under way
    spent       \* history: the challenge an account was registered with

vars == << users, invites, mail, req, spent >>

Codes == 1 .. MaxCodes
Purposes == { "register", "verify", "reset" }
NoUser == [ state |-> "none", verified |-> FALSE ]
NoMail == [ state |-> "none", email |-> None, purpose |-> None, tries |-> 0 ]
Idle == [ pc |-> "idle", email |-> None, invite |-> None, code |-> None ]

Enabled(e) == users[e].state = "on"

\* Accounts from before the mail check are not verified.
Init ==
    /\ users \in [Emails -> { NoUser, [ state |-> "on", verified |-> FALSE ] }]
    /\ invites = [i \in Invites |-> "none"]
    /\ mail = [c \in Codes |-> NoMail]
    /\ req = [r \in Requests |-> Idle]
    /\ spent = [e \in Emails |-> None]

Done(r) == req' = [req EXCEPT ![r] = Idle]
To(r, pc) == req' = [req EXCEPT ![r].pc = pc]

-----------------------------------------------------------------------------
(* Mail challenges: sendChallenge.                                           *)

OfPurpose(e, p) == { c \in Codes : mail[c].state # "none" /\ mail[c].email = e /\ mail[c].purpose = p }

\* Who may ask for a mail of which purpose.
MayAsk(e, p, i) ==
    CASE p = "register" -> i # None /\ invites[i] = "open"
      [] p = "verify"   -> Enabled(e) /\ ~users[e].verified
      [] p = "reset"    -> Enabled(e) /\ users[e].verified

BeginChallenge(r, e, p, i) ==
    /\ req[r] = Idle /\ MayAsk(e, p, i)
    /\ \E c \in Codes :
         /\ mail[c].state = "none" /\ \A d \in 1 .. c - 1 : mail[d].state # "none"
         /\ mail' = [mail EXCEPT ![c] = [NoMail EXCEPT !.state = "pending", !.email = e, !.purpose = p]]
         /\ req' = [req EXCEPT ![r] = [Idle EXCEPT !.pc = "mail", !.code = c]]
    /\ UNCHANGED << users, invites, spent >>

\* The mail server accepts the message after any time, or does not; then
\* FailChallenge is tried once.
MailSent(r) ==
    /\ req[r].pc = "mail" /\ To(r, "activate")
    /\ UNCHANGED << users, invites, mail, spent >>

MailRefused(r) ==
    /\ req[r].pc = "mail" /\ Done(r)
    /\ \/ UNCHANGED mail
       \/ /\ mail[req[r].code].state = "pending"
          /\ mail' = [mail EXCEPT ![req[r].code].state = "failed"]
    /\ UNCHANGED << users, invites, spent >>

\* Faulty variant: the mail that was accepted last wins.
OvertakenNever(c) == FALSE

\* A newer challenge was activated while this mail was on its way.
Overtaken(c) ==
    \E d \in OfPurpose(mail[c].email, mail[c].purpose) :
      d > c /\ mail[d].state \in { "ready", "consumed", "superseded" }

\* What is ready is superseded.
ActivateChallenge(r) ==
    LET c == req[r].code
        same == OfPurpose(mail[c].email, mail[c].purpose)
    IN  /\ req[r].pc = "activate" /\ Done(r)
        /\ \/ /\ mail[c].state = "pending" /\ ~Overtaken(c)
              /\ mail' = [d \in Codes |->
                   IF d = c THEN [mail[d] EXCEPT !.state = "ready"]
                   ELSE IF d \in same /\ mail[d].state = "ready" THEN [mail[d] EXCEPT !.state = "superseded", !.tries = 0]
                   ELSE mail[d]]
           \/ UNCHANGED mail
        /\ UNCHANGED << users, invites, spent >>

\* consumeProof: a code for the right address and purpose that is ready,
\* fresh and not guessed at too often.
Usable(c, e, p) == c \in OfPurpose(e, p) /\ mail[c].state = "ready" /\ mail[c].tries < MaxTries

AsConsumed(c) == [mail[c] EXCEPT !.state = "consumed", !.tries = 0]
Consumed(c) == [mail EXCEPT ![c] = AsConsumed(c)]

\* A wrong code is committed by finishProofError, whatever else is undone.
WrongCode(c) == mail' = [mail EXCEPT ![c].tries = mail[c].tries + 1]

-----------------------------------------------------------------------------
(* Accounts.                                                                 *)

\* Register looks at the invitation, hashes, and commits everything at once.
RegisterCheck(r, e, i, c) ==
    /\ req[r] = Idle /\ invites[i] = "open" /\ c \in OfPurpose(e, "register")
    /\ req' = [req EXCEPT ![r] = [ pc |-> "register", email |-> e, invite |-> i, code |-> c ]]
    /\ UNCHANGED << users, invites, mail, spent >>

\* Faulty variant: the invitation was checked before.
StillOpenBefore(i) == TRUE

StillOpen(i) == invites[i] = "open"

Register(r) ==
    LET e == req[r].email  i == req[r].invite  c == req[r].code
    IN  /\ req[r].pc = "register"
        /\ \/ /\ users[e].state = "none" /\ Usable(c, e, "register") /\ StillOpen(i)
              /\ mail' = Consumed(c)
              /\ users' = [users EXCEPT ![e] = [ state |-> "on", verified |-> TRUE ]]
              /\ invites' = [invites EXCEPT ![i] = e]
              /\ spent' = [spent EXCEPT ![e] = c]
              /\ Done(r)
           \/ /\ users[e].state = "none" /\ Usable(c, e, "register") /\ WrongCode(c)
              /\ Done(r) /\ UNCHANGED << users, invites, spent >>
           \/ /\ users[e].state # "none" \/ ~Usable(c, e, "register") \/ ~StillOpen(i)
              /\ Done(r) /\ UNCHANGED << users, invites, mail, spent >>

\* The confirmation, by a session of the account.
VerifyEmail(e, c) ==
    /\ Enabled(e) /\ ~users[e].verified
    /\ Usable(c, e, "verify")
    /\ \/ /\ mail' = Consumed(c)
          /\ users' = [users EXCEPT ![e].verified = TRUE]
       \/ WrongCode(c) /\ UNCHANGED users
    /\ UNCHANGED << invites, req, spent >>

\* replacePassword: every reset challenge of the account ends, and its
\* sessions and device keys (HostedRelay).
replacePassword(e) ==
    mail' = [c \in Codes |-> IF c \in OfPurpose(e, "reset") THEN AsConsumed(c) ELSE mail[c]]

ResetCheck(r, c) ==
    /\ req[r] = Idle
    /\ mail[c].state = "ready" /\ mail[c].purpose = "reset"
    /\ req' = [req EXCEPT ![r] = [Idle EXCEPT !.pc = "reset", !.email = mail[c].email, !.code = c]]
    /\ UNCHANGED << users, invites, mail, spent >>

ResetWithProof(r) ==
    LET e == req[r].email  c == req[r].code
        may == Enabled(e) /\ users[e].verified /\ Usable(c, e, "reset")
    IN  /\ req[r].pc = "reset" /\ Done(r)
        /\ \/ may /\ replacePassword(e)
           \/ may /\ WrongCode(c)
           \/ ~may /\ UNCHANGED mail
        /\ UNCHANGED << users, invites, spent >>

-----------------------------------------------------------------------------
(* Administration, from the web by a verified administrator or by an         *)
(* operator's command.                                                       *)

setEnabledTx(e, on) ==
    /\ users' = [users EXCEPT ![e].state = IF on THEN "on" ELSE "off"]
    /\ mail' = IF on THEN mail
               ELSE [c \in Codes |-> IF mail[c].state # "none" /\ mail[c].email = e
                                       THEN AsConsumed(c) ELSE mail[c]]

SetEnabled(e, on) ==
    /\ users[e].state # "none"
    /\ setEnabledTx(e, on)
    /\ UNCHANGED << invites, req, spent >>

ResetPassword(e) ==
    /\ users[e].state # "none" /\ replacePassword(e)
    /\ UNCHANGED << users, invites, req, spent >>

BootstrapAdmin(e) ==
    /\ users[e].state = "none"
    /\ users' = [users EXCEPT ![e] = [ state |-> "on", verified |-> TRUE ]]
    /\ UNCHANGED << invites, mail, req, spent >>

\* By an administrator or an operator.
NewInvitation(i) ==
    /\ invites[i] = "none"
    /\ invites' = [invites EXCEPT ![i] = "open"]
    /\ UNCHANGED << users, mail, req, spent >>

\* An invitation that expired can not be used either.
RevokeInvitation(i) ==
    /\ invites[i] = "open"
    /\ invites' = [invites EXCEPT ![i] = "revoked"]
    /\ UNCHANGED << users, mail, req, spent >>

\* After 10 minutes, or 30 for a reset: a pending challenge is as good as a
\* failed one, a ready one as good as a superseded one.
Expire(c) ==
    /\ \/ mail[c].state = "pending" /\ mail' = [mail EXCEPT ![c].state = "failed"]
       \/ mail[c].state = "ready" /\ mail' = [mail EXCEPT ![c].state = "superseded", ![c].tries = 0]
    /\ UNCHANGED << users, invites, req, spent >>

\* A request whose client is gone, or a restart of the controller.
Abandon(r) ==
    /\ req[r] # Idle /\ Done(r)
    /\ UNCHANGED << users, invites, mail, spent >>

Next ==
    \/ \E r \in Requests, e \in Emails, p \in Purposes, i \in Invites \union { None } : BeginChallenge(r, e, p, i)
    \/ \E r \in Requests, e \in Emails, i \in Invites, c \in Codes : RegisterCheck(r, e, i, c)
    \/ \E e \in Emails, c \in Codes : VerifyEmail(e, c)
    \/ \E r \in Requests, c \in Codes : ResetCheck(r, c)
    \/ \E r \in Requests :
         \/ MailSent(r) \/ MailRefused(r) \/ ActivateChallenge(r)
         \/ Register(r) \/ ResetWithProof(r) \/ Abandon(r)
    \/ \E e \in Emails, on \in BOOLEAN : SetEnabled(e, on)
    \/ \E e \in Emails : ResetPassword(e) \/ BootstrapAdmin(e)
    \/ \E i \in Invites : NewInvitation(i) \/ RevokeInvitation(i)
    \/ \E c \in Codes : Expire(c)

Spec == Init /\ [][Next]_vars

-----------------------------------------------------------------------------
\* Of the codes mailed to an address for a purpose only the newest one that
\* was activated works, although mails are accepted late and out of order.
LatestCodeWins ==
    \A c, d \in Codes :
      /\ mail[c].state = "ready" /\ mail[d].state \in { "ready", "consumed", "superseded" }
      /\ mail[c].email = mail[d].email /\ mail[c].purpose = mail[d].purpose
      => d <= c

\* An invitation and a code buy one account: registrations that race for
\* either, for the address or with a revocation spend all three or nothing.
InvitationBuysOneAccount ==
    /\ \A i \in Invites : invites[i] \in Emails =>
         users[invites[i]].state # "none" /\ spent[invites[i]] # None
    /\ \A e \in Emails : spent[e] # None =>
         /\ Cardinality({ i \in Invites : invites[i] = e }) = 1
         /\ mail[spent[e]].state = "consumed"
         /\ \A f \in Emails : spent[f] = spent[e] => f = e
=============================================================================
