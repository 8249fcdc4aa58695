----------------------------- MODULE NexusSession -----------------------------
(***************************************************************************)
(* The Nexus Mods account of the panel: services/nexus_oauth.py and        *)
(* services/nexus_session.py over services/secure_store.py.                *)
(*                                                                         *)
(* Every request that needs the account refreshes its tokens first: it     *)
(* reads the record, awaits the answer of Nexus and then saves or deletes  *)
(* the record, whatever has become of it meanwhile.  Nexus gives a new     *)
(* refresh token with each refresh and honours it once; its answer may be  *)
(* lost on the way.  Between two awaits a handler is one step.             *)
(***************************************************************************)
EXTENDS Integers, NexusPromises

CONSTANTS
  SignIns,    \* authorizations that the user starts: request identifiers
  MaxIssued,  \* bound: tokens that Nexus issues
  MaxLost     \* bound: answers that are lost

ASSUME NexusSessionAssumption == MaxIssued \in Nat /\ MaxLost \in Nat

VARIABLES
  pending,    \* _pending: the status of each sign-in
  issued,     \* Nexus: tokens issued so far
  spentCodes, \* Nexus: sign-ins whose authorization code was exchanged
  lost

vars == <<record, pending, req, handed, issued, honoured, claims, spentCodes, lost, signedIn,
          disturbed>>

Tokens == 1..MaxIssued

\* A record names the access token, the refresh token if there is one, and what
\* the account was when it was saved.  Those of earlier versions are of no use.
Record(access, refresh, premium) ==
  [via |-> "oauth_pkce", access |-> access, refresh |-> refresh, premium |-> premium,
   expired |-> FALSE]
NoRecord ==
  [via |-> "none", access |-> NoToken, refresh |-> NoToken, premium |-> FALSE, expired |-> FALSE]
LegacyRecord == [NoRecord EXCEPT !.via = "sso"]

Idle == [kind |-> "idle", auth |-> {}, read |-> NoRecord, reply |-> "none", got |-> NoRecord]

-----------------------------------------------------------------------------
(* Refreshing the account                                                   *)

\* get_record throws a record of an earlier version away.
DropsLegacy(r) ==
  /\ req[r] = Idle
  /\ record.via = "sso"
  /\ record' = NoRecord
  /\ UNCHANGED <<pending, req, handed, issued, honoured, claims, spentCodes, lost, signedIn,
                 disturbed>>

\* GET /nexus/account, or the start of a download.
RefreshBegins(r, kind) ==
  /\ req[r] = Idle
  /\ Connected
  /\ record.refresh # NoToken
  /\ req' = [req EXCEPT ![r] = [Idle EXCEPT !.kind = kind, !.read = record]]
  /\ disturbed' = (disturbed \/ SomeRefresh)
  /\ UNCHANGED <<record, pending, handed, issued, honoured, claims, spentCodes, lost, signedIn>>

\* Without a refresh token the account is read from the access token again; a
\* download with an expired one ends the session.
WithoutRefresh(r, kind) ==
  /\ req[r] = Idle
  /\ Connected
  /\ record.refresh = NoToken
  /\ IF kind = "premium" /\ record.expired
     THEN /\ record' = NoRecord
          /\ signedIn' = FALSE
          /\ UNCHANGED handed
     ELSE /\ handed' = handed \cup (IF kind = "premium" /\ record.premium THEN {record.access}
                                    ELSE {})
          /\ UNCHANGED <<record, signedIn>>
  /\ UNCHANGED <<pending, req, issued, honoured, claims, spentCodes, lost, disturbed>>

\* Nexus accepts the token: it spends it and issues another, or leaves it be.
Refreshes(r, premium) ==
  LET old == req[r].read.refresh
      new == issued + 1
  IN /\ old \in honoured
     /\ new \in Tokens
     /\ issued' = new
     /\ claims' = [claims EXCEPT ![new] = premium]
     /\ \E rotated \in BOOLEAN :
          LET next == IF rotated THEN new ELSE old
          IN /\ honoured' = (honoured \ {old}) \cup {next}
             /\ req' = [req EXCEPT ![r].reply = "ok", ![r].got = Record(new, next, premium)]

\* An error, whose reason nobody looks at: the token is not honoured any more;
\* or it is, but Nexus is busy or down, or answers without an access token.
Refuses(r) ==
  LET old == req[r].read.refresh
  IN /\ req' = [req EXCEPT ![r].reply = IF old \in honoured THEN "unavailable" ELSE "refused"]
     /\ UNCHANGED <<issued, honoured, claims>>

NexusAnswers(r) ==
  /\ Refreshing(r)
  /\ req[r].reply = "none"
  /\ Refuses(r) \/ \E premium \in BOOLEAN : Refreshes(r, premium)
  /\ UNCHANGED <<record, pending, handed, spentCodes, lost, signedIn, disturbed>>

\* Timeout, or an answer that cannot be read: the handler fails with the record
\* as it was, and Nexus may have spent the token.
AnswerLost(r) ==
  /\ Refreshing(r)
  /\ lost < MaxLost
  /\ lost' = lost + 1
  /\ disturbed' = TRUE
  /\ req' = [req EXCEPT ![r] = Idle]
  /\ UNCHANGED <<record, pending, handed, issued, honoured, claims, spentCodes, signedIn>>

\* Any error ends the session: with one for a token that was good, Nexus has
\* signed the user out.
Refused(r) ==
  /\ Refreshing(r)
  /\ req[r].reply \in {"refused", "unavailable"}
  /\ record' = NoRecord
  /\ signedIn' = (signedIn /\ req[r].reply = "refused")
  /\ req' = [req EXCEPT ![r] = Idle]
  /\ UNCHANGED <<pending, handed, issued, honoured, claims, spentCodes, lost, disturbed>>

\* Mutants: the membership is not updated; the refresh token is kept.
SavedStale(r) == [req[r].got EXCEPT !.premium = req[r].read.premium]
SavedOld(r) == [req[r].got EXCEPT !.refresh = req[r].read.refresh]
Saved(r) == req[r].got

\* The record is saved; a download gets the token if the account is premium.
RefreshEnds(r) ==
  /\ Refreshing(r)
  /\ req[r].reply = "ok"
  /\ record' = Saved(r)
  /\ handed' = handed \cup (IF req[r].kind = "premium" /\ Saved(r).premium
                            THEN {Saved(r).access} ELSE {})
  /\ req' = [req EXCEPT ![r] = Idle]
  /\ UNCHANGED <<pending, issued, honoured, claims, spentCodes, lost, signedIn, disturbed>>

TokenExpires ==
  /\ Connected /\ ~record.expired
  /\ record' = [record EXCEPT !.expired = TRUE]
  /\ UNCHANGED <<pending, req, handed, issued, honoured, claims, spentCodes, lost, signedIn,
                 disturbed>>

-----------------------------------------------------------------------------
(* Signing in and out                                                       *)

SignInStarts(i) ==
  /\ pending[i] = "none"
  /\ i \notin spentCodes
  /\ pending' = [pending EXCEPT ![i] = "pending"]
  /\ UNCHANGED <<record, req, handed, issued, honoured, claims, spentCodes, lost, signedIn,
                 disturbed>>

\* The browser comes back with a code, once or again.
CallbackBegins(r, i) ==
  /\ req[r] = Idle
  /\ pending[i] # "none"
  /\ req' = [req EXCEPT ![r] = [Idle EXCEPT !.kind = "callback", !.auth = {i}]]
  /\ UNCHANGED <<record, pending, handed, issued, honoured, claims, spentCodes, lost, signedIn,
                 disturbed>>

\* The browser comes back with an error.
CallbackDenied(i) ==
  /\ pending[i] # "none"
  /\ pending' = [pending EXCEPT ![i] = "error"]
  /\ UNCHANGED <<record, req, handed, issued, honoured, claims, spentCodes, lost, signedIn,
                 disturbed>>

\* The status is set on the session that the callback found, which nobody sees
\* any more once it is out of _pending.
Status(i, status) == [pending EXCEPT ![i] = IF @ = "none" THEN "none" ELSE status]

\* The code is good once.  The session may come without a refresh token.
CallbackConnects(r, i, premium, renewable) ==
  LET new == issued + 1
  IN /\ req[r].auth = {i}
     /\ i \notin spentCodes
     /\ new \in Tokens
     /\ issued' = new
     /\ claims' = [claims EXCEPT ![new] = premium]
     /\ honoured' = IF renewable THEN honoured \cup {new} ELSE honoured
     /\ spentCodes' = spentCodes \cup {i}
     /\ record' = Record(new, IF renewable THEN new ELSE NoToken, premium)
     /\ pending' = Status(i, "connected")
     /\ req' = [req EXCEPT ![r] = Idle]
     /\ signedIn' = TRUE
     /\ disturbed' = SomeRefresh
     /\ UNCHANGED <<handed, lost>>

CallbackFails(r, i) ==
  /\ req[r].auth = {i}
  /\ pending' = Status(i, "error")
  /\ req' = [req EXCEPT ![r] = Idle]
  /\ UNCHANGED <<record, handed, issued, honoured, claims, spentCodes, lost, signedIn, disturbed>>

\* The page asks until there is an outcome, which it is told once; after five
\* minutes there is none.
StatusAsked(i) ==
  /\ pending[i] # "none"
  /\ pending' = [pending EXCEPT ![i] = "none"]
  /\ UNCHANGED <<record, req, handed, issued, honoured, claims, spentCodes, lost, signedIn,
                 disturbed>>

Disconnect ==
  /\ record' = NoRecord
  /\ signedIn' = FALSE
  /\ disturbed' = SomeRefresh
  /\ UNCHANGED <<pending, req, handed, issued, honoured, claims, spentCodes, lost>>

-----------------------------------------------------------------------------
Init ==
  /\ record \in {NoRecord, LegacyRecord}
  /\ pending = [i \in SignIns |-> "none"]
  /\ req = [r \in Requests |-> Idle]
  /\ handed = {} /\ issued = 0 /\ honoured = {} /\ spentCodes = {} /\ lost = 0
  /\ claims = [t \in Tokens |-> FALSE]
  /\ signedIn = FALSE /\ disturbed = FALSE

Handler(r) ==
  \/ DropsLegacy(r)
  \/ \E kind \in {"account", "premium"} : RefreshBegins(r, kind) \/ WithoutRefresh(r, kind)
  \/ NexusAnswers(r) \/ AnswerLost(r) \/ Refused(r) \/ RefreshEnds(r)
  \/ \E i \in SignIns :
       \/ CallbackBegins(r, i)
       \/ \E premium, renewable \in BOOLEAN : CallbackConnects(r, i, premium, renewable)
       \/ CallbackFails(r, i)

Next ==
  \/ \E r \in Requests : Handler(r)
  \/ \E i \in SignIns : SignInStarts(i) \/ CallbackDenied(i) \/ StatusAsked(i)
  \/ TokenExpires \/ Disconnect

Spec == Init /\ [][Next]_vars

-----------------------------------------------------------------------------
(* Types                                                                    *)

RecordType ==
  [via: {"none", "sso", "oauth_pkce"}, access: Tokens \cup {NoToken},
   refresh: Tokens \cup {NoToken}, premium: BOOLEAN, expired: BOOLEAN]

TypeOK ==
  /\ record \in RecordType
  /\ pending \in [SignIns -> {"none", "pending", "connected", "error"}]
  /\ req \in [Requests -> [kind: {"idle", "account", "premium", "callback"}, auth: SUBSET SignIns,
                           read: RecordType, got: RecordType,
                           reply: {"none", "ok", "refused", "unavailable"}]]
  /\ handed \subseteq Tokens /\ honoured \subseteq Tokens /\ spentCodes \subseteq SignIns
  /\ issued \in 0..MaxIssued /\ lost \in 0..MaxLost
  /\ claims \in [Tokens -> BOOLEAN]
  /\ signedIn \in BOOLEAN /\ disturbed \in BOOLEAN
===============================================================================
