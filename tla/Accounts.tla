------------------------------- MODULE Accounts -------------------------------
(***************************************************************************)
(* The users of the panel: services/auth.py, services/session_store.py,    *)
(* services/login_throttle.py and the routes over them.  No handler here   *)
(* awaits anything, so each is one step; whether a request may come to its *)
(* handler is looked at before, in a thread.  What is kept in files        *)
(* (accounts, invite codes) survives a restart, what is kept in memory     *)
(* (sessions, failed logins) does not, and a file that cannot be read is   *)
(* put aside and starts empty.                                             *)
(***************************************************************************)
EXTENDS Integers, FiniteSets, Sequences

CONSTANTS
  Names,        \* user names, stripped and in lower case
  Browsers,     \* clients, each with an address of its own
  MaxAge,       \* of a session: _MAX_AGE_SECONDS
  Second,       \* steps of the clock in a second
  Window,       \* of the throttle: _WINDOW_SECONDS
  MaxAttempts,  \* failed logins within a window: _MAX_ATTEMPTS
  MaxFresh,     \* bound: random identifiers, codes and tokens
  MaxTime,      \* bound: the clock
  MaxFaults     \* bound: interrupted requests and unreadable files

ASSUME AccountsAssumption ==
  /\ {MaxAge, MaxFresh, MaxTime, MaxFaults} \subseteq Nat
  /\ {Second, Window, MaxAttempts} \subseteq Nat \ {0}

VARIABLES
  users,     \* users.json
  invites,   \* invites.json
  sessions,  \* _sessions
  cookie,    \* the session token each browser holds
  failures,  \* _failures: the times of failed logins of each address
  admitted,  \* the browsers with a request that has passed require_super_admin
  now, fresh, faults,
  joined     \* history: the accounts made with each code

vars == <<users, invites, sessions, cookie, failures, admitted, now, fresh, faults, joined>>

\* Identifiers, codes and tokens are never compared with one another: an account
\* and its first session may bear the same number.
Random == 1..MaxFresh
None == 0
User == [id: Random, name: Names, role: {"super_admin", "admin"}]
Invite == [code: Random, usedBy: Random \cup {None}]
Session == [token: Random, user: Random, at: 0..MaxTime]

-----------------------------------------------------------------------------
Super == {u \in users : u.role = "super_admin"}

\* get_current_user: the user of the session, if it is young enough and the
\* user is still there.
Expired(s) == now - s.at > MaxAge
Holds(b) == {s \in sessions : s.token = cookie[b]}
CurrentUser(b) == {u \in users : \E s \in Holds(b) : ~Expired(s) /\ s.user = u.id}
IsSuper(b) == CurrentUser(b) \cap Super # {}

\* The failed logins that still count, oldest first: the list comprehension of
\* check, item by item.
Counted(list, time) ==
  LET kept[k \in 0..Len(list)] ==
        IF k = 0 THEN <<>>
        ELSE IF time - list[k] < Window THEN Append(kept[k - 1], list[k])
        ELSE kept[k - 1]
  IN kept[Len(list)]
CountedAt(b, time) == Counted(failures[b], time)
Throttled(b, time) == Len(CountedAt(b, time)) >= MaxAttempts

\* What the refusal tells the user: the rest of the window, in whole seconds.
Rest(b) == Window - (now - Head(CountedAt(b, now)))
\* Mutant: the rest of the second is forgotten.
RetryAfterShort(b) == Second * (Rest(b) \div Second)
RetryAfter(b) == Second * (Rest(b) \div Second + 1)

\* A new session, with its token in the cookie of the browser.
OpensSession(b, user, token) ==
  /\ sessions' = sessions \cup {[token |-> token, user |-> user, at |-> now]}
  /\ cookie' = [cookie EXCEPT ![b] = token]

NameIsFree(n) == \A u \in users : u.name # n
Valid(i) == i.usedBy = None

\* Mutant: the code is not marked.
SpentLate(i, id) == invites
Spent(i, id) == (invites \ {i}) \cup {[i EXCEPT !.usedBy = id]}

\* Mutant: the sessions of a removed user stay.
RemainingAll(id) == sessions
Remaining(id) == {s \in sessions : s.user # id}

\* Mutant: any account may be removed.
RemovableAny(u) == TRUE
Removable(u) == u.role # "super_admin"

-----------------------------------------------------------------------------
Init ==
  /\ users = {} /\ invites = {} /\ sessions = {}
  /\ cookie = [b \in Browsers |-> None]
  /\ failures = [b \in Browsers |-> <<>>]
  /\ admitted = {} /\ now = 0 /\ fresh = 1 /\ faults = 0
  /\ joined = [c \in Random |-> 0]

Setup(b, n) ==
  /\ users = {}
  /\ fresh <= MaxFresh
  /\ users' = {[id |-> fresh, name |-> n, role |-> "super_admin"]}
  /\ OpensSession(b, fresh, fresh)
  /\ fresh' = fresh + 1
  /\ UNCHANGED <<admitted, invites, failures, now, faults, joined>>

\* The account is saved before the code is marked as used.
Joins(n, i) ==
  /\ users # {}
  /\ Valid(i)
  /\ NameIsFree(n)
  /\ users' = users \cup {[id |-> fresh, name |-> n, role |-> "admin"]}
  /\ joined' = [joined EXCEPT ![i.code] = @ + 1]

Register(b, n, i) ==
  /\ fresh <= MaxFresh
  /\ Joins(n, i)
  /\ invites' = Spent(i, fresh)
  /\ OpensSession(b, fresh, fresh)
  /\ fresh' = fresh + 1
  /\ UNCHANGED <<admitted, failures, now, faults>>

\* The second save fails, or the program ends before it.
RegisterInterrupted(n, i) ==
  /\ fresh <= MaxFresh
  /\ faults < MaxFaults
  /\ Joins(n, i)
  /\ fresh' = fresh + 1
  /\ faults' = faults + 1
  /\ UNCHANGED <<admitted, invites, sessions, cookie, failures, now>>

Login(b, u) ==
  /\ fresh <= MaxFresh
  /\ ~Throttled(b, now)
  /\ failures' = [failures EXCEPT ![b] = <<>>]
  /\ OpensSession(b, u.id, fresh)
  /\ fresh' = fresh + 1
  /\ UNCHANGED <<admitted, users, invites, now, faults, joined>>

LoginFails(b) ==
  /\ ~Throttled(b, now)
  /\ failures' = [failures EXCEPT ![b] = Append(CountedAt(b, now), now)]
  /\ UNCHANGED <<admitted, users, invites, sessions, cookie, now, fresh, faults, joined>>

LoginRefused(b) ==
  /\ Throttled(b, now)
  /\ failures' = [failures EXCEPT ![b] = CountedAt(b, now)]
  /\ UNCHANGED <<admitted, users, invites, sessions, cookie, now, fresh, faults, joined>>

Logout(b) ==
  /\ sessions' = sessions \ Holds(b)
  /\ cookie' = [cookie EXCEPT ![b] = None]
  /\ UNCHANGED <<admitted, users, invites, failures, now, fresh, faults, joined>>

\* The check of a request drops a session that is too old.
Asks(b) ==
  /\ sessions' = {s \in sessions : ~(s \in Holds(b) /\ Expired(s))}
  /\ UNCHANGED <<admitted, users, invites, cookie, failures, now, fresh, faults, joined>>

\* A request of a super admin: what it asks for comes later, whoever signs out or
\* in meanwhile.
Admits(b) ==
  /\ IsSuper(b)
  /\ admitted' = admitted \cup {b}
  /\ UNCHANGED <<users, invites, sessions, cookie, failures, now, fresh, faults, joined>>

Comes(b) == b \in admitted /\ admitted' = admitted \ {b}

CreateInvite(b) ==
  /\ Comes(b)
  /\ fresh <= MaxFresh
  /\ invites' = invites \cup {[code |-> fresh, usedBy |-> None]}
  /\ fresh' = fresh + 1
  /\ UNCHANGED <<users, sessions, cookie, failures, now, faults, joined>>

RevokeInvite(b, i) ==
  /\ Comes(b)
  /\ invites' = invites \ {i}
  /\ UNCHANGED <<users, sessions, cookie, failures, now, fresh, faults, joined>>

\* If the check of another request drops its session while those of the removed
\* user are collected, the iteration fails and the user's sessions stay.
RemoveUser(b, u) ==
  /\ Comes(b)
  /\ Removable(u)
  /\ users' = users \ {u}
  /\ \/ sessions' = Remaining(u.id) /\ faults' = faults
     \/ /\ faults < MaxFaults /\ faults' = faults + 1
        /\ \E s \in sessions : Expired(s) /\ sessions' = sessions \ {s}
  /\ UNCHANGED <<invites, cookie, failures, now, fresh, joined>>

\* storage.load finds a file unreadable, puts it aside and saves an empty one.
FileLost ==
  /\ faults < MaxFaults
  /\ faults' = faults + 1
  /\ \/ users' = {} /\ UNCHANGED invites
     \/ invites' = {} /\ UNCHANGED users
  /\ UNCHANGED <<admitted, sessions, cookie, failures, now, fresh, joined>>

Restart ==
  /\ sessions' = {}
  /\ failures' = [b \in Browsers |-> <<>>]
  /\ admitted' = {}
  /\ UNCHANGED <<users, invites, cookie, now, fresh, faults, joined>>

Tick ==
  /\ now < MaxTime
  /\ now' = now + 1
  /\ UNCHANGED <<admitted, users, invites, sessions, cookie, failures, fresh, faults, joined>>

Request(b) ==
  \/ \E n \in Names : Setup(b, n) \/ \E i \in invites : Register(b, n, i)
  \/ \E u \in users : Login(b, u) \/ RemoveUser(b, u)
  \/ LoginFails(b) \/ LoginRefused(b) \/ Logout(b) \/ Asks(b)
  \/ Admits(b) \/ CreateInvite(b)
  \/ \E i \in invites : RevokeInvite(b, i)

Next ==
  \/ \E b \in Browsers : Request(b)
  \/ \E n \in Names, i \in invites : RegisterInterrupted(n, i)
  \/ FileLost \/ Restart \/ Tick

Spec == Init /\ [][Next]_vars

-----------------------------------------------------------------------------
(* Properties                                                               *)

TypeOK ==
  /\ users \subseteq User /\ invites \subseteq Invite /\ sessions \subseteq Session
  /\ cookie \in [Browsers -> Random \cup {None}] /\ admitted \subseteq Browsers
  /\ failures \in [Browsers -> Seq(0..MaxTime)]
  /\ now \in 0..MaxTime /\ fresh \in 1..(MaxFresh + 1) /\ faults \in 0..MaxFaults
  /\ joined \in [Random -> Nat]

\* There is nobody, or there is one super admin; a name and an identifier
\* belong to one account (auth.py: create_first_super_admin, remove_user),
\* whatever was removed, lost or set up again.
OneSuperAdmin ==
  /\ users # {} => \E u \in Super : Super = {u}
  /\ \A u, v \in users : u.id = v.id \/ u.name = v.name => u = v

\* A code makes one account.  Each interrupted registration leaves one account
\* more, since the code is marked only after the account is saved
\* (auth.py: register_with_invite).
CodeMakesOneAccount == \A c \in Random : joined[c] <= 1 + faults

\* While users.json was never lost and no removal has failed half-way, there is no
\* session of anybody who is not registered: removal ends them all, whatever else the
\* super admins and the removed user do meanwhile (users.py: remove_user).
SessionsHaveUsers ==
  faults = 0 => \A s \in sessions : \E u \in users : u.id = s.user

\* A refused login can be repeated when the refusal said it can
\* (login_throttle.py: check).
RetryAfterIsTrue ==
  \A b \in Browsers : Throttled(b, now) => ~Throttled(b, now + RetryAfter(b))
=============================================================================
