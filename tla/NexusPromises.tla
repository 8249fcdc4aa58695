---------------------------- MODULE NexusPromises -----------------------------
(***************************************************************************)
(* What the panel promises of its account at Nexus Mods, in terms of the   *)
(* record that it stores, of the handlers that renew it and of what Nexus  *)
(* knows (services/nexus_session.py).  NexusSession says how they change.  *)
(***************************************************************************)

CONSTANT Requests   \* handlers, each serving one request at a time

VARIABLES
  record,     \* nexus_oauth.dat
  req,        \* what each handler awaits, and what it has read before
  handed,     \* the access tokens given out for automatic downloads
  honoured,   \* Nexus: refresh tokens that it will accept
  claims,     \* Nexus: whether a token was issued to a premium member
  signedIn,   \* history: the user has signed in and not disconnected since, nor has
              \* Nexus answered a token that was good with an error
  disturbed   \* history: an answer was lost, or the record changed hands
              \* while a refresh was under way

NoToken == 0
Connected == record.via = "oauth_pkce"
Refreshing(r) == req[r].kind \in {"account", "premium"}
SomeRefresh == \E r \in Requests : Refreshing(r)

\* An automatic download starts only with a token that Nexus issued to a premium
\* member, however refreshes, sign-ins and disconnects interleave
\* (nexus_session.py: require_premium_access_token).
PremiumIsTrue == \A t \in handed : claims[t]

\* While refreshes do not overlap with one another, with a sign-in or with a
\* disconnect, and no answer is lost, there is a record exactly from the sign-in
\* to the disconnect or to an error that Nexus answers (any error: _refresh ends
\* the session whatever the status), and Nexus honours its refresh token. So EGM
\* never ends a session by itself, by sending a token that is spent, nor brings one
\* back (nexus_session.py: _refresh, disconnect).
QuietSession ==
  ~disturbed =>
    /\ signedIn <=> Connected
    /\ Connected /\ record.refresh # NoToken /\ ~SomeRefresh => record.refresh \in honoured

\* Once the user has disconnected there is no record until the next sign-in
\* (TERMS_OF_SERVICE.md: "Disconnecting Nexus Mods deletes EGM's locally stored
\* Nexus OAuth record").  A refresh that was under way brings it back.
DisconnectHolds == ~signedIn => ~Connected
===============================================================================
