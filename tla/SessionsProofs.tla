---------------------------- MODULE SessionsProofs -----------------------------
(***************************************************************************)
(* Proofs about who is signed in.  Of Accounts, for any number of names,   *)
(* clients, codes and faults: one super admin, one account for each code   *)
(* and name, no sessions of removed users, and a throttle whose refusals   *)
(* end when they say.  Of NexusSession, for any number of handlers,        *)
(* sign-ins, tokens and lost answers: what is handed out for a download is *)
(* a premium member's, and EGM neither loses nor revives a session that    *)
(* nobody disturbs.                                                        *)
(***************************************************************************)
EXTENDS Accounts, NexusPromises, WellFoundedInduction, TLAPS

\* The account of the panel at Nexus: module NexusSession, with what it assumes of
\* its constants.
CONSTANTS SignIns, MaxIssued, MaxLost
VARIABLES pending, issued, spentCodes, lost
Nexus == INSTANCE NexusSession

-----------------------------------------------------------------------------
(* The users of the panel                                                   *)

\* Accounts, codes and sessions were numbered in the order they were made.
Numbered ==
  /\ \A u \in users : u.id < fresh
  /\ \A i \in invites : i.code < fresh
  /\ \A c \in Random : c >= fresh => joined[c] = 0

\* A code stands on one invite, and while that is open nothing but an
\* interrupted registration has used it.
OpenCodes ==
  /\ \A i, j \in invites : i.code = j.code => i = j
  /\ \A i \in invites : Valid(i) => joined[i.code] <= faults

IInv ==
  /\ users \subseteq User /\ invites \subseteq Invite
  /\ fresh \in 1..(MaxFresh + 1) /\ faults \in 0..MaxFaults
  /\ joined \in [Random -> Nat]
  /\ Numbered /\ OpenCodes
  /\ OneSuperAdmin /\ CodeMakesOneAccount /\ SessionsHaveUsers

\* Steps that change none of the accounts, codes and faults keep everything
\* about them.
LEMMA OthersUnchanged ==
  ASSUME IInv, UNCHANGED <<users, invites, fresh, faults, joined>>, SessionsHaveUsers'
  PROVE  IInv'
BY DEF IInv, Numbered, OpenCodes, OneSuperAdmin, CodeMakesOneAccount, Super, Valid

\* An account made by an invite: nobody else has its number or its name, and
\* the super admin stays the only one.
LEMMA JoinKeepsUsers ==
  ASSUME IInv, NEW n \in Names, NEW i \in invites, Joins(n, i), fresh <= MaxFresh
  PROVE  /\ OneSuperAdmin'
         /\ users' \subseteq User
         /\ \A u \in users' : u.id < fresh + 1
<1> DEFINE new == [id |-> fresh, name |-> n, role |-> "admin"]
<1>1. new \in User /\ new.id = fresh /\ new.name = n /\ new.role = "admin"
  BY DEF IInv, User, Random
<1>2. users' = users \cup {new}
  BY DEF Joins
<1>3. \A u \in users : u.id # fresh /\ u.name # n /\ u.id \in Nat
  BY DEF IInv, Numbered, User, Random, Joins, NameIsFree
<1> HIDE DEF new
<1>4. Super' = Super
  BY <1>1, <1>2 DEF Super
<1>5. \E u \in Super : Super = {u}
  BY DEF IInv, OneSuperAdmin, Joins
<1>6. \A u, v \in users' : u.id = v.id \/ u.name = v.name => u = v
  BY <1>1, <1>2, <1>3 DEF IInv, OneSuperAdmin
<1>7. OneSuperAdmin'
  BY <1>4, <1>5, <1>6 DEF OneSuperAdmin
<1>8. \A u \in users' : u.id < fresh + 1
  BY <1>1, <1>2, <1>3 DEF IInv, Numbered
<1> QED BY <1>1, <1>2, <1>7, <1>8 DEF IInv

\* What a registration counts for its code.
LEMMA JoinCounts ==
  ASSUME IInv, NEW n \in Names, NEW i \in invites, Joins(n, i)
  PROVE  /\ i.code \in Random /\ i.code < fresh
         /\ joined' \in [Random -> Nat]
         /\ joined[i.code] <= faults
         /\ joined'[i.code] = joined[i.code] + 1
         /\ \A c \in Random \ {i.code} : joined'[c] = joined[c]
<1>1. i.code \in Random /\ i.code < fresh /\ joined[i.code] <= faults
  BY DEF IInv, Numbered, OpenCodes, Invite, Joins
<1>2. joined' = [joined EXCEPT ![i.code] = joined[i.code] + 1]
  BY DEF Joins
<1> QED BY <1>1, <1>2 DEF IInv

-----------------------------------------------------------------------------
LEMMA SetupStep ==
  ASSUME IInv, NEW b \in Browsers, NEW n \in Names, Setup(b, n) PROVE IInv'
<1> DEFINE new == [id |-> fresh, name |-> n, role |-> "super_admin"]
           session == [token |-> fresh, user |-> fresh, at |-> now]
<1>1. new \in User /\ new.id = fresh /\ new.role = "super_admin"
  BY DEF IInv, Setup, User, Random
<1>2. users' = {new} /\ sessions' = sessions \cup {session}
  BY DEF Setup, OpensSession
<1>3. UNCHANGED <<invites, faults, joined>> /\ fresh' = fresh + 1 /\ fresh' \in 1..(MaxFresh + 1)
  BY AccountsAssumption DEF Setup, IInv
<1>4. session.user = fresh
  OBVIOUS
<1>5. faults = 0 => sessions = {}
  BY DEF IInv, SessionsHaveUsers, Setup
<1> HIDE DEF new, session
<1>6. OneSuperAdmin'
  <2>1. Super' = {new}
    BY <1>1, <1>2 DEF Super
  <2> QED BY <2>1, <1>2 DEF OneSuperAdmin
<1>7. SessionsHaveUsers'
  BY <1>1, <1>2, <1>3, <1>4, <1>5 DEF SessionsHaveUsers
<1>8. Numbered'
  BY <1>1, <1>2, <1>3 DEF IInv, Numbered, Invite, Random
<1>9. OpenCodes' /\ CodeMakesOneAccount'
  BY <1>3 DEF IInv, OpenCodes, CodeMakesOneAccount, Valid
<1> QED BY <1>1, <1>2, <1>3, <1>6, <1>7, <1>8, <1>9 DEF IInv

LEMMA RegisterStep ==
  ASSUME IInv, NEW b \in Browsers, NEW n \in Names, NEW i \in invites, Register(b, n, i)
  PROVE  IInv'
<1> DEFINE spent == [i EXCEPT !.usedBy = fresh]
           session == [token |-> fresh, user |-> fresh, at |-> now]
           new == [id |-> fresh, name |-> n, role |-> "admin"]
<1>1. Joins(n, i) /\ fresh <= MaxFresh
  BY DEF Register
<1>2. OneSuperAdmin' /\ users' \subseteq User /\ \A u \in users' : u.id < fresh + 1
  BY <1>1, JoinKeepsUsers
<1>3. /\ i.code \in Random /\ i.code < fresh /\ joined' \in [Random -> Nat]
      /\ joined[i.code] <= faults /\ joined'[i.code] = joined[i.code] + 1
      /\ \A c \in Random \ {i.code} : joined'[c] = joined[c]
  BY <1>1, JoinCounts
<1>4. fresh' = fresh + 1 /\ fresh' \in 1..(MaxFresh + 1) /\ faults' = faults
  BY AccountsAssumption DEF Register, IInv
<1>5. /\ invites' = (invites \ {i}) \cup {spent}
      /\ sessions' = sessions \cup {session}
      /\ users' = users \cup {new}
  BY DEF Register, Spent, OpensSession, Joins
<1>6. spent \in Invite /\ spent.code = i.code /\ ~Valid(spent)
  BY <1>1 DEF IInv, Invite, Valid, Random, None
<1>7. session.user = fresh /\ new.id = fresh
  OBVIOUS
<1> HIDE DEF spent, session, new
<1>8. SessionsHaveUsers'
  BY <1>4, <1>5, <1>7 DEF IInv, SessionsHaveUsers
<1>9. Numbered'
  BY <1>2, <1>3, <1>4, <1>5, <1>6 DEF IInv, Numbered, Invite, Random
<1>10. OpenCodes'
  <2>1. \A j, k \in invites' : j.code = k.code => j = k
    BY <1>5, <1>6 DEF IInv, OpenCodes
  <2>2. ASSUME NEW j \in invites', Valid(j) PROVE joined'[j.code] <= faults'
    BY <2>2, <1>3, <1>4, <1>5, <1>6 DEF IInv, OpenCodes, Invite
  <2> QED BY <2>1, <2>2 DEF OpenCodes, Valid
<1>11. CodeMakesOneAccount'
  BY <1>3, <1>4 DEF IInv, CodeMakesOneAccount
<1>12. invites' \subseteq Invite
  BY <1>5, <1>6 DEF IInv
<1> QED BY <1>2, <1>3, <1>4, <1>8, <1>9, <1>10, <1>11, <1>12 DEF IInv

LEMMA InterruptedStep ==
  ASSUME IInv, NEW n \in Names, NEW i \in invites, RegisterInterrupted(n, i)
  PROVE  IInv'
<1>1. Joins(n, i) /\ fresh <= MaxFresh
  BY DEF RegisterInterrupted
<1>2. OneSuperAdmin' /\ users' \subseteq User /\ \A u \in users' : u.id < fresh + 1
  BY <1>1, JoinKeepsUsers
<1>3. /\ i.code \in Random /\ i.code < fresh /\ joined' \in [Random -> Nat]
      /\ joined[i.code] <= faults /\ joined'[i.code] = joined[i.code] + 1
      /\ \A c \in Random \ {i.code} : joined'[c] = joined[c]
  BY <1>1, JoinCounts
<1>4. /\ fresh' = fresh + 1 /\ fresh' \in 1..(MaxFresh + 1)
      /\ faults' = faults + 1 /\ faults' \in 0..MaxFaults
      /\ UNCHANGED <<invites, sessions>>
  BY AccountsAssumption DEF RegisterInterrupted, IInv
<1>5. SessionsHaveUsers'
  BY <1>4 DEF IInv, SessionsHaveUsers
<1>6. Numbered'
  BY <1>2, <1>3, <1>4 DEF IInv, Numbered, Invite, Random
<1>7. OpenCodes'
  <2>1. ASSUME NEW j \in invites, Valid(j) PROVE joined'[j.code] <= faults'
    BY <2>1, <1>3, <1>4 DEF IInv, OpenCodes, Invite
  <2> QED BY <2>1, <1>4 DEF IInv, OpenCodes, Valid
<1>8. CodeMakesOneAccount'
  BY <1>3, <1>4 DEF IInv, CodeMakesOneAccount
<1> QED BY <1>2, <1>3, <1>4, <1>5, <1>6, <1>7, <1>8 DEF IInv

LEMMA LoginStep ==
  ASSUME IInv, NEW b \in Browsers, NEW u \in users, Login(b, u) PROVE IInv'
<1>1. fresh' = fresh + 1 /\ fresh' \in 1..(MaxFresh + 1) /\ UNCHANGED <<users, invites, faults, joined>>
  BY AccountsAssumption DEF Login, IInv
<1>2. SessionsHaveUsers'
  BY <1>1 DEF IInv, SessionsHaveUsers, Login, OpensSession
<1>3. Numbered'
  BY <1>1 DEF IInv, Numbered, User, Invite, Random
<1>4. OneSuperAdmin' /\ OpenCodes' /\ CodeMakesOneAccount'
  BY <1>1 DEF IInv, OneSuperAdmin, OpenCodes, CodeMakesOneAccount, Super, Valid
<1> QED BY <1>1, <1>2, <1>3, <1>4 DEF IInv

LEMMA CreateInviteStep ==
  ASSUME IInv, NEW b \in Browsers, CreateInvite(b) PROVE IInv'
<1> DEFINE new == [code |-> fresh, usedBy |-> None]
<1>1. new \in Invite /\ new.code = fresh
  BY DEF CreateInvite, IInv, Invite, Random
<1>2. /\ invites' = invites \cup {new} /\ fresh' = fresh + 1 /\ fresh' \in 1..(MaxFresh + 1)
      /\ UNCHANGED <<users, sessions, faults, joined>>
  BY AccountsAssumption DEF CreateInvite, IInv
<1>3. fresh \in Random /\ joined[fresh] = 0
  BY DEF CreateInvite, IInv, Numbered, Random
<1> HIDE DEF new
<1>4. Numbered'
  BY <1>1, <1>2 DEF IInv, Numbered, User, Invite, Random
<1>5. OpenCodes'
  <2>1. \A i, j \in invites' : i.code = j.code => i = j
    BY <1>1, <1>2 DEF IInv, OpenCodes, Numbered, Invite, Random
  <2>2. \A i \in invites' : Valid(i) => joined[i.code] <= faults
    BY <1>1, <1>2, <1>3 DEF IInv, OpenCodes
  <2> QED BY <2>1, <2>2, <1>2 DEF OpenCodes, Valid
<1>6. OneSuperAdmin' /\ CodeMakesOneAccount' /\ SessionsHaveUsers'
  BY <1>2 DEF IInv, OneSuperAdmin, CodeMakesOneAccount, SessionsHaveUsers, Super
<1> QED BY <1>1, <1>2, <1>4, <1>5, <1>6 DEF IInv

LEMMA RevokeStep ==
  ASSUME IInv, NEW b \in Browsers, NEW i \in invites, RevokeInvite(b, i) PROVE IInv'
<1>1. invites' = invites \ {i} /\ UNCHANGED <<users, sessions, fresh, faults, joined>>
  BY DEF RevokeInvite
<1>2. Numbered' /\ OpenCodes'
  BY <1>1 DEF IInv, Numbered, OpenCodes, Valid
<1>3. OneSuperAdmin' /\ CodeMakesOneAccount' /\ SessionsHaveUsers'
  BY <1>1 DEF IInv, OneSuperAdmin, CodeMakesOneAccount, SessionsHaveUsers, Super
<1> QED BY <1>1, <1>2, <1>3 DEF IInv

LEMMA RemoveStep ==
  ASSUME IInv, NEW b \in Browsers, NEW u \in users, RemoveUser(b, u) PROVE IInv'
<1>1. users' = users \ {u} /\ u.role # "super_admin" /\ UNCHANGED <<invites, fresh, joined>>
  BY DEF RemoveUser, Removable
<1>2. faults' \in faults..MaxFaults
  BY AccountsAssumption DEF RemoveUser, IInv
<1>3. OneSuperAdmin'
  <2>1. Super' = Super
    BY <1>1 DEF Super
  <2> QED BY <2>1, <1>1 DEF IInv, OneSuperAdmin
<1>4. SessionsHaveUsers'
  <2>1. CASE sessions' = Remaining(u.id) /\ faults' = faults
    BY <1>1, <2>1 DEF IInv, SessionsHaveUsers, Remaining
  <2>2. CASE faults' = faults + 1
    BY <2>2 DEF IInv, SessionsHaveUsers
  <2> QED BY <2>1, <2>2 DEF RemoveUser
<1>5. Numbered'
  BY <1>1 DEF IInv, Numbered
<1>6. OpenCodes' /\ CodeMakesOneAccount'
  BY <1>1, <1>2 DEF IInv, OpenCodes, CodeMakesOneAccount, Valid, Invite
<1>7. faults' \in 0..MaxFaults
  BY <1>2 DEF IInv
<1> QED BY <1>1, <1>3, <1>4, <1>5, <1>6, <1>7 DEF IInv

LEMMA LostStep == ASSUME IInv, FileLost PROVE IInv'
<1>1. /\ faults' = faults + 1 /\ faults' \in 0..MaxFaults /\ UNCHANGED <<sessions, fresh, joined>>
      /\ \/ users' = {} /\ invites' = invites
         \/ invites' = {} /\ users' = users
  BY AccountsAssumption DEF FileLost, IInv
<1>2. SessionsHaveUsers'
  BY <1>1 DEF IInv, SessionsHaveUsers
<1>3. OneSuperAdmin'
  BY <1>1 DEF IInv, OneSuperAdmin, Super
<1>4. Numbered'
  BY <1>1 DEF IInv, Numbered
<1>5. OpenCodes' /\ CodeMakesOneAccount'
  BY <1>1 DEF IInv, OpenCodes, CodeMakesOneAccount, Valid, Invite
<1> QED BY <1>1, <1>2, <1>3, <1>4, <1>5 DEF IInv

\* What changes sessions, cookies, failures or the time only.
LEMMA QuietStep ==
  ASSUME IInv,
         \/ \E b \in Browsers : LoginFails(b) \/ LoginRefused(b) \/ Logout(b) \/ Asks(b) \/ Admits(b)
         \/ Restart \/ Tick \/ UNCHANGED vars
  PROVE  IInv'
<1>1. UNCHANGED <<users, invites, fresh, faults, joined>> /\ sessions' \subseteq sessions
  BY DEF LoginFails, LoginRefused, Logout, Asks, Admits, Restart, Tick, vars
<1>2. SessionsHaveUsers'
  BY <1>1 DEF IInv, SessionsHaveUsers
<1> QED BY <1>1, <1>2, OthersUnchanged

-----------------------------------------------------------------------------
LEMMA Initially == Init => IInv
<1> SUFFICES ASSUME Init PROVE IInv
  OBVIOUS
<1>1. fresh \in 1..(MaxFresh + 1) /\ faults \in 0..MaxFaults
  BY AccountsAssumption DEF Init
<1>2. joined \in [Random -> Nat]
  BY DEF Init
<1>3. Numbered /\ OpenCodes /\ OneSuperAdmin /\ SessionsHaveUsers
  BY DEF Init, Numbered, OpenCodes, OneSuperAdmin, SessionsHaveUsers
<1>4. CodeMakesOneAccount
  BY DEF Init, CodeMakesOneAccount
<1> QED BY <1>1, <1>2, <1>3, <1>4 DEF IInv, Init

LEMMA Step == IInv /\ [Next]_vars => IInv'
<1> SUFFICES ASSUME IInv, [Next]_vars PROVE IInv'
  OBVIOUS
<1>1. ASSUME NEW b \in Browsers, Request(b) PROVE IInv'
  <2>1. CASE \E n \in Names : Setup(b, n)
    BY <2>1, SetupStep
  <2>2. CASE \E n \in Names, i \in invites : Register(b, n, i)
    BY <2>2, RegisterStep
  <2>3. CASE \E u \in users : Login(b, u)
    BY <2>3, LoginStep
  <2>4. CASE \E u \in users : RemoveUser(b, u)
    BY <2>4, RemoveStep
  <2>5. CASE CreateInvite(b)
    BY <2>5, CreateInviteStep
  <2>6. CASE \E i \in invites : RevokeInvite(b, i)
    BY <2>6, RevokeStep
  <2>7. CASE LoginFails(b) \/ LoginRefused(b) \/ Logout(b) \/ Asks(b) \/ Admits(b)
    BY <2>7, QuietStep
  <2> QED BY <1>1, <2>1, <2>2, <2>3, <2>4, <2>5, <2>6, <2>7 DEF Request
<1>2. CASE \E n \in Names, i \in invites : RegisterInterrupted(n, i)
  BY <1>2, InterruptedStep
<1>3. CASE FileLost
  BY <1>3, LostStep
<1>4. CASE Restart \/ Tick \/ UNCHANGED vars
  BY <1>4, QuietStep
<1> QED BY <1>1, <1>2, <1>3, <1>4 DEF Next

LEMMA Always == Spec => []IInv
<1> QED BY Initially, Step, PTL DEF Spec

\* There is nobody or one super admin, and a name belongs to one account,
\* through set-up, invites, removals and lost files (services/auth.py).
THEOREM SuperAdminIsOne == Spec => []OneSuperAdmin
<1>1. IInv => OneSuperAdmin
  BY DEF IInv
<1> QED BY <1>1, Always, PTL

\* A code makes one account, and one more for each interrupted registration
\* (auth.py: register_with_invite).
THEOREM CodesMakeOneAccount == Spec => []CodeMakesOneAccount
<1>1. IInv => CodeMakesOneAccount
  BY DEF IInv
<1> QED BY <1>1, Always, PTL

\* Removal ends the sessions of an account: while no file is lost and no removal
\* fails half-way, there are none of anybody unknown (routes/users.py: remove_user).
THEOREM NoSessionOutlivesItsUser == Spec => []SessionsHaveUsers
<1>1. IInv => SessionsHaveUsers
  BY DEF IInv
<1> QED BY <1>1, Always, PTL
-----------------------------------------------------------------------------
(* The throttle of logins (services/login_throttle.py).                     *)

Less == {p \in Nat \X Nat : p[1] < p[2]}

LEMMA LessWellFounded == IsWellFoundedOn(Less, Nat)
BY NatLessThanWellFounded DEF OpToRel, Less

\* A set of numbers that is not empty has a least one.
LEMMA Least ==
  ASSUME NEW T, T \subseteq Nat, T # {}
  PROVE  \E m \in T : \A n \in T : m <= n
<1>1. \E x \in T : \A y \in T : ~(<<y, x>> \in Less)
  BY LessWellFounded, WFMin
<1>2. ASSUME NEW x \in Nat, NEW y \in Nat, ~(<<y, x>> \in Less) PROVE x <= y
  BY <1>2 DEF Less
<1> QED BY <1>1, <1>2

\* Induction, for a set of numbers: the least number outside of it cannot be.
LEMMA Upwards ==
  ASSUME NEW S, 0 \in S, \A n \in Nat : n \in S => n + 1 \in S
  PROVE  Nat \subseteq S
<1> SUFFICES ASSUME ~(Nat \subseteq S) PROVE FALSE
  OBVIOUS
<1> DEFINE T == Nat \ S
<1>1. PICK m \in T : \A n \in T : m <= n
  BY Least
<1>2. m # 0 /\ m - 1 \in Nat
  OBVIOUS
<1>3. m - 1 \in S
  BY <1>1, <1>2
<1> QED BY <1>2, <1>3

Times == 0..MaxTime

\* One turn of the list comprehension of check: what is kept of the first k
\* failures, from what is kept of one less.
Turn(g, list, time, k) ==
  IF k = 0 THEN <<>>
  ELSE IF time - list[k] < Window THEN Append(g[k - 1], list[k]) ELSE g[k - 1]

\* g keeps, of every beginning of the list, what the comprehension keeps.
Filters(g, list, time, n) == \A k \in 0..n : g[k] = Turn(g, list, time, k)

LEMMA TurnType ==
  ASSUME NEW list \in Seq(Times), NEW time \in Nat, NEW g, NEW k \in 1..Len(list),
         g[k - 1] \in Seq(Times)
  PROVE  Turn(g, list, time, k) \in Seq(Times)
BY DEF Turn

LEMMA TurnBase ==
  ASSUME NEW list, NEW time, NEW g PROVE Turn(g, list, time, 0) = <<>>
BY DEF Turn

LEMMA TurnAgrees ==
  ASSUME NEW list, NEW time, NEW g, NEW h, NEW k, k = 0 \/ g[k - 1] = h[k - 1]
  PROVE  Turn(g, list, time, k) = Turn(h, list, time, k)
BY DEF Turn

\* The recursive function of Counted exists and is such a g: induction on the
\* length of the list, once to have one and once for its type.
LEMMA Unfolds ==
  ASSUME NEW list \in Seq(Times), NEW time \in Nat
  PROVE  \E g \in [0..Len(list) -> Seq(Times)] :
           Filters(g, list, time, Len(list)) /\ Counted(list, time) = g[Len(list)]
<1> DEFINE N == Len(list)
           S == {n \in Nat : n <= N => \E g \in [0..n -> Seq(Times)] : Filters(g, list, time, n)}
<1>1. 0 \in S
  <2> DEFINE g == [k \in 0..0 |-> <<>>]
  <2>1. g \in [0..0 -> Seq(Times)] /\ Filters(g, list, time, 0)
    BY DEF Filters, Turn
  <2> QED BY <2>1
<1>2. ASSUME NEW n \in Nat, n \in S PROVE n + 1 \in S
  <2> SUFFICES ASSUME n + 1 <= N
               PROVE  \E g \in [0..(n + 1) -> Seq(Times)] : Filters(g, list, time, n + 1)
    OBVIOUS
  <2>1. PICK g \in [0..n -> Seq(Times)] : Filters(g, list, time, n)
    BY <1>2
  <2> DEFINE h == [k \in 0..(n + 1) |-> IF k <= n THEN g[k] ELSE Turn(g, list, time, n + 1)]
  <2>2. Turn(g, list, time, n + 1) \in Seq(Times)
    BY TurnType
  <2>3. h \in [0..(n + 1) -> Seq(Times)]
    BY <2>2
  <2>4. \A k \in 0..n : h[k] = g[k]
    OBVIOUS
  <2>5. ASSUME NEW k \in 0..(n + 1) PROVE h[k] = Turn(h, list, time, k)
    <3>1. CASE k <= n
      <4>1. k = 0 \/ g[k - 1] = h[k - 1]
        BY <3>1, <2>4
      <4>2. h[k] = Turn(g, list, time, k)
        BY <3>1, <2>1, <2>4 DEF Filters
      <4> HIDE DEF h
      <4> QED BY <4>1, <4>2, TurnAgrees
    <3>2. CASE k = n + 1
      <4>1. h[k] = Turn(g, list, time, k) /\ g[k - 1] = h[k - 1]
        BY <3>2, <2>4
      <4> HIDE DEF h
      <4> QED BY <4>1, TurnAgrees
    <3> QED BY <3>1, <3>2
  <2> QED BY <2>3, <2>5 DEF Filters
<1>3. N \in S
  <2>1. Nat \subseteq S
    BY <1>1, <1>2, Upwards
  <2> QED BY <2>1
<1>4. PICK g \in [0..N -> Seq(Times)] : Filters(g, list, time, N)
  BY <1>3
<1> DEFINE Is(h) == h = [k \in 0..N |-> Turn(h, list, time, k)]
<1>5. Is(g)
  BY <1>4 DEF Filters
<1>6. PICK f : Is(f) /\ Counted(list, time) = f[N]
  <2>1. Is(CHOOSE h : Is(h))
    <3> HIDE DEF Is
    <3> QED BY <1>5
  <2>2. Counted(list, time) = (CHOOSE h : Is(h))[N]
    BY DEF Counted, Turn
  <2> HIDE DEF Is
  <2> QED BY <2>1, <2>2
<1>7. N \in Nat
  OBVIOUS
<1> HIDE DEF N
<1>8. DOMAIN f = 0..N /\ Filters(f, list, time, N)
  BY <1>6 DEF Filters
<1> DEFINE V == {n \in Nat : n <= N => f[n] \in Seq(Times)}
<1>9. 0 \in V
  <2>1. f[0] = <<>>
    BY <1>7, <1>8, TurnBase DEF Filters
  <2>2. <<>> \in Seq(Times)
    OBVIOUS
  <2>3. f[0] \in Seq(Times)
    BY <2>1, <2>2
  <2> QED BY <2>3
<1>10. ASSUME NEW n \in Nat, n \in V PROVE n + 1 \in V
  <2> SUFFICES ASSUME n + 1 <= N PROVE f[n + 1] \in Seq(Times)
    OBVIOUS
  <2>1. f[n + 1] = Turn(f, list, time, n + 1)
    BY <1>7, <1>8 DEF Filters
  <2>2. f[(n + 1) - 1] \in Seq(Times) /\ n + 1 \in 1..Len(list)
    BY <1>7, <1>10 DEF N
  <2> QED BY <2>1, <2>2, TurnType
<1>11. \A n \in 0..N : f[n] \in Seq(Times)
  <2>1. Nat \subseteq V
    BY <1>9, <1>10, Upwards
  <2> QED BY <1>7, <2>1
<1>12. f \in [0..N -> Seq(Times)]
  BY <1>6, <1>8, <1>11
<1> QED BY <1>6, <1>8, <1>12 DEF N

\* What is kept is a list of times, no longer than what was there, and the first
\* of it still counts.
LEMMA KeptType ==
  ASSUME NEW list \in Seq(Times), NEW time \in Nat
  PROVE  /\ Counted(list, time) \in Seq(Times)
         /\ Len(Counted(list, time)) <= Len(list)
         /\ Counted(list, time) # <<>> => time - Head(Counted(list, time)) < Window
<1> DEFINE N == Len(list)
<1>1. PICK g \in [0..N -> Seq(Times)] : Filters(g, list, time, N) /\ Counted(list, time) = g[N]
  BY Unfolds
<1>2. N \in Nat
  OBVIOUS
<1> HIDE DEF N
<1> DEFINE S == {n \in Nat : n <= N => /\ Len(g[n]) <= n
                                       /\ g[n] # <<>> => time - Head(g[n]) < Window}
<1>3. 0 \in S
  <2>1. g[0] = <<>>
    BY <1>1, <1>2, TurnBase DEF Filters
  <2> QED BY <2>1
<1>4. ASSUME NEW n \in Nat, n \in S PROVE n + 1 \in S
  <2> DEFINE item == list[n + 1]
  <2> SUFFICES ASSUME n + 1 <= N
               PROVE  /\ Len(g[n + 1]) <= n + 1
                      /\ g[n + 1] # <<>> => time - Head(g[n + 1]) < Window
    OBVIOUS
  <2>1. g[n + 1] = IF time - item < Window THEN Append(g[n], item) ELSE g[n]
    <3>1. n + 1 \in 0..N /\ (n + 1) - 1 = n /\ n + 1 # 0
      BY <1>2
    <3>2. g[n + 1] = Turn(g, list, time, n + 1)
      BY <1>1, <3>1 DEF Filters
    <3> QED BY <3>1, <3>2 DEF Turn
  <2>2. g[n] \in Seq(Times) /\ Len(g[n]) <= n /\ (g[n] # <<>> => time - Head(g[n]) < Window)
    BY <1>1, <1>2, <1>4
  <2>3. item \in Times
    BY <1>2 DEF N
  <2> HIDE DEF item
  <2>4. CASE time - item < Window
    <3>1. /\ Len(Append(g[n], item)) = Len(g[n]) + 1
          /\ Head(Append(g[n], item)) = IF g[n] = <<>> THEN item ELSE Head(g[n])
      BY <2>2, <2>3
    <3> QED BY <2>1, <2>2, <2>4, <3>1
  <2>5. CASE ~(time - item < Window)
    BY <2>1, <2>2, <2>5
  <2> QED BY <2>4, <2>5
<1>5. N \in S
  <2>1. Nat \subseteq S
    BY <1>3, <1>4, Upwards
  <2> QED BY <1>2, <2>1
<1> QED BY <1>1, <1>2, <1>5 DEF N

\* What is kept later is no longer, and shorter when the first of what was kept
\* no longer counts.
LEMMA KeptLoses ==
  ASSUME NEW list \in Seq(Times), NEW time \in Nat, NEW later \in Nat, time <= later,
         Counted(list, time) # <<>>,
         ~(later - Head(Counted(list, time)) < Window)
  PROVE  Len(Counted(list, later)) < Len(Counted(list, time))
<1> DEFINE N == Len(list)
<1>1. PICK g \in [0..N -> Seq(Times)] : Filters(g, list, time, N) /\ Counted(list, time) = g[N]
  BY Unfolds
<1>2. PICK h \in [0..N -> Seq(Times)] : Filters(h, list, later, N) /\ Counted(list, later) = h[N]
  BY Unfolds
<1>3. N \in Nat /\ \A k \in 1..N : list[k] \in Times
  OBVIOUS
<1> HIDE DEF N
<1> DEFINE S == {n \in Nat : n <= N =>
                   /\ Len(h[n]) <= Len(g[n])
                   /\ g[n] # <<>> /\ ~(later - Head(g[n]) < Window) => Len(h[n]) < Len(g[n])}
<1>4. 0 \in S
  <2>1. g[0] = <<>> /\ h[0] = <<>>
    BY <1>1, <1>2, <1>3, TurnBase DEF Filters
  <2> QED BY <2>1
<1>5. ASSUME NEW n \in Nat, n \in S PROVE n + 1 \in S
  <2> DEFINE item == list[n + 1]
  <2> SUFFICES ASSUME n + 1 <= N
               PROVE  /\ Len(h[n + 1]) <= Len(g[n + 1])
                      /\ g[n + 1] # <<>> /\ ~(later - Head(g[n + 1]) < Window)
                           => Len(h[n + 1]) < Len(g[n + 1])
    OBVIOUS
  <2>0. n + 1 \in 0..N /\ n + 1 \in 1..N /\ n \in 0..N /\ (n + 1) - 1 = n /\ n + 1 # 0
    BY <1>3
  <2>1. /\ g[n + 1] = IF time - item < Window THEN Append(g[n], item) ELSE g[n]
        /\ h[n + 1] = IF later - item < Window THEN Append(h[n], item) ELSE h[n]
    <3>1. g[n + 1] = Turn(g, list, time, n + 1) /\ h[n + 1] = Turn(h, list, later, n + 1)
      BY <1>1, <1>2, <2>0 DEF Filters
    <3> QED BY <2>0, <3>1 DEF Turn
  <2>2. item \in Nat /\ g[n] \in Seq(Times) /\ h[n] \in Seq(Times)
    <3>1. item \in Times
      BY <1>3, <2>0
    <3> HIDE DEF item
    <3>2. Times \subseteq Nat
      BY AccountsAssumption DEF Times
    <3> QED BY <1>1, <1>2, <2>0, <3>1, <3>2
  <2>3. /\ Len(h[n]) <= Len(g[n])
        /\ g[n] # <<>> /\ ~(later - Head(g[n]) < Window) => Len(h[n]) < Len(g[n])
    BY <1>3, <1>5
  <2>4. later - item < Window => time - item < Window
    BY <2>2, AccountsAssumption
  <2> HIDE DEF item
  <2>5. CASE g[n] = <<>>
    <3>1. Len(h[n]) = 0
      BY <2>2, <2>3, <2>5
    <3>2. Head(Append(g[n], item)) = item /\ Len(Append(g[n], item)) = 1
      BY <2>2, <2>5
    <3> QED BY <2>1, <2>2, <2>4, <2>5, <3>1, <3>2
  <2>6. CASE g[n] # <<>>
    <3>1. Head(Append(g[n], item)) = Head(g[n]) /\ Len(Append(g[n], item)) = Len(g[n]) + 1
      BY <2>2, <2>6
    <3>2. Len(Append(h[n], item)) = Len(h[n]) + 1 /\ Len(h[n]) \in Nat /\ Len(g[n]) \in Nat
      BY <2>2
    <3> QED BY <2>1, <2>3, <2>4, <2>6, <3>1, <3>2
  <2> QED BY <2>5, <2>6
<1>6. N \in S
  <2>1. Nat \subseteq S
    BY <1>4, <1>5, Upwards
  <2> QED BY <1>3, <2>1
<1> QED BY <1>1, <1>2, <1>3, <1>6 DEF N

\* The failures of an address are never more than the attempts it has: a login
\* that is refused adds none, one that fails first drops the old ones.
Attempts ==
  /\ now \in Times
  /\ failures \in [Browsers -> Seq(Times)]
  /\ \A b \in Browsers : Len(failures[b]) <= MaxAttempts

LEMMA AttemptsInitially == Init => Attempts
<1> SUFFICES ASSUME Init PROVE Attempts
  OBVIOUS
<1>1. <<>> \in Seq(Times) /\ Len(<<>>) = 0
  OBVIOUS
<1> QED BY <1>1, AccountsAssumption DEF Init, Attempts, Times

\* The failures of one address change.
LEMMA AttemptsOfOne ==
  ASSUME Attempts, NEW b \in Browsers, NEW list \in Seq(Times), Len(list) <= MaxAttempts,
         failures' = [failures EXCEPT ![b] = list], UNCHANGED now
  PROVE  Attempts'
BY DEF Attempts

LEMMA AttemptsStep == Attempts /\ [Next]_vars => Attempts'
<1> SUFFICES ASSUME Attempts, [Next]_vars PROVE Attempts'
  OBVIOUS
<1>0. now \in Times /\ now \in Nat /\ MaxAttempts \in Nat /\ Times \subseteq Nat
  BY AccountsAssumption DEF Attempts, Times
<1>1. ASSUME NEW b \in Browsers
      PROVE  /\ CountedAt(b, now) \in Seq(Times)
             /\ Len(CountedAt(b, now)) <= MaxAttempts
  <2>1. failures[b] \in Seq(Times) /\ Len(failures[b]) <= MaxAttempts
    BY DEF Attempts
  <2>2. /\ Counted(failures[b], now) \in Seq(Times)
        /\ Len(Counted(failures[b], now)) <= Len(failures[b])
    BY <1>0, <2>1, KeptType
  <2> QED BY <1>0, <2>1, <2>2 DEF CountedAt
<1>2. ASSUME NEW b \in Browsers, NEW u \in users, Login(b, u) PROVE Attempts'
  <2>1. <<>> \in Seq(Times) /\ Len(<<>>) <= MaxAttempts
    BY <1>0
  <2> QED BY <1>2, <2>1, AttemptsOfOne DEF Login
<1>3. ASSUME NEW b \in Browsers, LoginFails(b) PROVE Attempts'
  <2> DEFINE list == Append(CountedAt(b, now), now)
  <2>1. list \in Seq(Times) /\ Len(list) = Len(CountedAt(b, now)) + 1
    BY <1>0, <1>1
  <2>2. Len(CountedAt(b, now)) < MaxAttempts
    BY <1>0, <1>1, <1>3 DEF LoginFails, Throttled
  <2>3. Len(list) <= MaxAttempts
    BY <1>0, <1>1, <2>1, <2>2
  <2>4. failures' = [failures EXCEPT ![b] = list] /\ UNCHANGED now
    BY <1>3 DEF LoginFails
  <2> HIDE DEF list
  <2> QED BY <2>1, <2>3, <2>4, AttemptsOfOne
<1>4. ASSUME NEW b \in Browsers, LoginRefused(b) PROVE Attempts'
  BY <1>1, <1>4, AttemptsOfOne DEF LoginRefused
<1>5. CASE Restart
  <2>1. <<>> \in Seq(Times) /\ Len(<<>>) <= MaxAttempts
    BY <1>0
  <2> QED BY <1>5, <2>1 DEF Restart, Attempts
<1>6. CASE Tick
  BY <1>6, AccountsAssumption DEF Tick, Attempts, Times
<1>7. ASSUME UNCHANGED <<now, failures>> PROVE Attempts'
  BY <1>7 DEF Attempts
<1>8. ASSUME NEW b \in Browsers, Request(b) PROVE Attempts'
  BY <1>8, <1>2, <1>3, <1>4, <1>7
     DEF Request, Setup, Register, RemoveUser, Logout, Asks, Admits, CreateInvite, RevokeInvite
<1> QED BY <1>5, <1>6, <1>7, <1>8 DEF Next, RegisterInterrupted, FileLost, vars

\* What is waited for is more than what is left of the window.
LEMMA WaitsOutTheWindow ==
  ASSUME NEW rest \in Nat
  PROVE  /\ Second * (rest \div Second + 1) \in Nat
         /\ Second * (rest \div Second + 1) > rest
BY AccountsAssumption

LEMMA RetryAfterHolds == Attempts => RetryAfterIsTrue
<1> SUFFICES ASSUME Attempts, NEW b \in Browsers, Throttled(b, now)
             PROVE  ~Throttled(b, now + RetryAfter(b))
  BY DEF RetryAfterIsTrue
<1> DEFINE list == failures[b]
           kept == Counted(list, now)
           later == now + RetryAfter(b)
<1>1. /\ now \in Nat /\ Window \in Nat /\ MaxAttempts \in Nat /\ MaxAttempts > 0
      /\ Times \subseteq Nat
      /\ list \in Seq(Times) /\ Len(list) <= MaxAttempts
  BY AccountsAssumption DEF Attempts, Times
<1>2. /\ kept \in Seq(Times) /\ Len(kept) <= MaxAttempts
      /\ kept # <<>> => now - Head(kept) < Window
  <2>1. /\ kept \in Seq(Times) /\ Len(kept) <= Len(list)
        /\ kept # <<>> => now - Head(kept) < Window
    BY <1>1, KeptType
  <2> HIDE DEF kept, list
  <2> QED BY <1>1, <2>1
<1>3. CountedAt(b, now) = kept /\ Len(kept) >= MaxAttempts
  BY DEF CountedAt, Throttled
<1>4. Rest(b) = Window - (now - Head(kept)) /\ RetryAfter(b) = Second * (Rest(b) \div Second + 1)
  BY <1>3 DEF Rest, RetryAfter
<1>5. CountedAt(b, later) = Counted(list, later)
  BY DEF CountedAt
<1> HIDE DEF kept, list
<1>6. kept # <<>> /\ Head(kept) \in Nat
  <2>1. Len(<<>>) = 0 /\ ~(0 >= MaxAttempts)
    BY <1>1
  <2>2. kept # <<>>
    BY <1>3, <2>1
  <2>3. Head(kept) \in Times
    BY <1>2, <2>2
  <2> QED BY <1>1, <2>2, <2>3
<1>7. Rest(b) \in Nat
  BY <1>1, <1>2, <1>4, <1>6
<1>8. RetryAfter(b) \in Nat /\ RetryAfter(b) > Rest(b)
  BY <1>4, <1>7, WaitsOutTheWindow
<1>9. later \in Nat /\ now <= later /\ ~(later - Head(kept) < Window)
  BY <1>1, <1>4, <1>6, <1>7, <1>8
<1> HIDE DEF later
<1>10. Len(Counted(list, later)) < Len(kept)
  BY <1>1, <1>6, <1>9, KeptLoses DEF kept
<1>11. Counted(list, later) \in Seq(Times)
  BY <1>1, <1>9, KeptType
<1>12. ~(Len(Counted(list, later)) >= MaxAttempts)
  BY <1>1, <1>2, <1>10, <1>11
<1> QED BY <1>5, <1>12 DEF Throttled, later

\* A refused login can be repeated when the refusal said it can, however many
\* attempts, whatever window and wherever the clock stands between two seconds
\* (services/login_throttle.py: check).
THEOREM RefusalsEnd == Spec => []RetryAfterIsTrue
<1>1. Spec => []Attempts
  BY AttemptsInitially, AttemptsStep, PTL DEF Spec
<1> QED BY <1>1, RetryAfterHolds, PTL

-----------------------------------------------------------------------------
(* The account at Nexus                                                     *)

\* What a record says of the membership, Nexus has said of its token.
Vouched(rec) == rec.premium => rec.access \in 1..issued /\ claims[rec.access]

AllVouched ==
  /\ handed \subseteq 1..issued
  /\ Nexus!PremiumIsTrue
  /\ Vouched(record)
  /\ \A r \in Requests : Vouched(req[r].got)

\* A refresh that nothing disturbs is the only one.  It works on the record that
\* is in place, and what it was answered is honoured.
Undisturbed(r) ==
  /\ Nexus!Connected /\ record.refresh # Nexus!NoToken
  /\ req[r].reply # "refused"
  /\ req[r].reply = "none" => req[r].read.refresh = record.refresh /\ record.refresh \in honoured
  /\ req[r].reply = "ok" => req[r].got.via = "oauth_pkce" /\ req[r].got.refresh \in honoured
  /\ \A q \in Requests : Nexus!Refreshing(q) => q = r

QuietRefresh == ~disturbed => \A r \in Requests : Nexus!Refreshing(r) => Undisturbed(r)

\* A handler that refreshes serves no sign-in.
OneThing == \A r \in Requests : Nexus!Refreshing(r) => req[r].auth = {}

NexusInv == Nexus!TypeOK /\ AllVouched /\ OneThing /\ QuietRefresh /\ Nexus!QuietSession

NexusRequest ==
  [kind: {"idle", "account", "premium", "callback"}, auth: SUBSET SignIns,
   read: Nexus!RecordType, got: Nexus!RecordType,
   reply: {"none", "ok", "refused", "unavailable"}]

LEMMA Records ==
  /\ Nexus!NoRecord \in Nexus!RecordType
  /\ Nexus!LegacyRecord \in Nexus!RecordType
  /\ Nexus!LegacyRecord.via = "sso" /\ Nexus!LegacyRecord.premium = FALSE
  /\ Nexus!Idle \in NexusRequest
  /\ Vouched(Nexus!NoRecord)
<1>1. Nexus!NoRecord \in Nexus!RecordType /\ Nexus!NoRecord.premium = FALSE
  BY DEF Nexus!NoRecord, Nexus!RecordType
<1>2. Nexus!LegacyRecord \in Nexus!RecordType /\ Nexus!LegacyRecord.via = "sso" /\ Nexus!LegacyRecord.premium = FALSE
  BY <1>1 DEF Nexus!LegacyRecord, Nexus!RecordType
<1>3. Nexus!Idle \in NexusRequest
  BY <1>1 DEF Nexus!Idle, NexusRequest
<1> QED BY <1>1, <1>2, <1>3 DEF Vouched

\* What is vouched for stays so when Nexus issues another token.
LEMMA AnotherToken ==
  ASSUME Nexus!NexusSessionAssumption, Nexus!TypeOK, NEW premium \in BOOLEAN,
         issued + 1 \in Nexus!Tokens,
         issued' = issued + 1, claims' = [claims EXCEPT ![issued + 1] = premium]
  PROVE  /\ issued' \in 0..MaxIssued
         /\ claims' \in [Nexus!Tokens -> BOOLEAN]
         /\ claims'[issued + 1] = premium
         /\ \A t \in 1..issued : t \in 1..issued' /\ claims'[t] = claims[t]
BY Nexus!NexusSessionAssumption DEF Nexus!TypeOK, Nexus!Tokens

LEMMA IssuedAreTokens ==
  ASSUME Nexus!NexusSessionAssumption, Nexus!TypeOK PROVE 1..issued \subseteq Nexus!Tokens
BY Nexus!NexusSessionAssumption DEF Nexus!TypeOK, Nexus!Tokens

\* The record that is made of an answer of Nexus.
LEMMA NewRecord ==
  ASSUME NEW premium \in BOOLEAN, NEW access \in Nexus!Tokens,
         NEW refresh \in Nexus!Tokens \cup {Nexus!NoToken}
  PROVE  LET new == Nexus!Record(access, refresh, premium) IN
         /\ new \in Nexus!RecordType
         /\ new.via = "oauth_pkce" /\ new.access = access /\ new.refresh = refresh
         /\ new.premium = premium
BY DEF Nexus!Record, Nexus!RecordType

\* Steps in which no handler, token or record takes part.
LEMMA NexusUnchanged ==
  ASSUME Nexus!NexusSessionAssumption, NexusInv,
         Nexus!TypeOK',
         UNCHANGED <<record, req, handed, issued, honoured, claims, signedIn, disturbed>>
  PROVE  NexusInv'
BY DEF NexusInv, AllVouched, Nexus!PremiumIsTrue, Vouched, OneThing, QuietRefresh, Undisturbed,
       Nexus!QuietSession, Nexus!SomeRefresh, Nexus!Connected, Nexus!Refreshing

\* Handlers that were idle and are idle again.
LEMMA Idleness ==
  \A r \in Requests : req[r] = Nexus!Idle => ~Nexus!Refreshing(r) /\ req[r].auth = {}
BY DEF Nexus!Idle, Nexus!Refreshing

-----------------------------------------------------------------------------
LEMMA DropsLegacyStep ==
  ASSUME Nexus!NexusSessionAssumption, NexusInv,
         NEW r \in Requests, Nexus!DropsLegacy(r) PROVE NexusInv'
<1>1. Nexus!NoRecord \in Nexus!RecordType /\ Vouched(Nexus!NoRecord) /\ Nexus!NoRecord.via = "none"
  BY Records DEF Nexus!NoRecord
<1>2. Nexus!TypeOK'
  BY <1>1 DEF NexusInv, Nexus!TypeOK, Nexus!DropsLegacy
<1>3. AllVouched' /\ OneThing'
  BY <1>1 DEF NexusInv, AllVouched, Nexus!PremiumIsTrue, Vouched, OneThing, Nexus!Refreshing,
              Nexus!DropsLegacy
<1>4. ~Nexus!Connected /\ ~Nexus!Connected'
  BY <1>1 DEF Nexus!Connected, Nexus!DropsLegacy
<1>5. QuietRefresh' /\ Nexus!QuietSession'
  BY <1>4 DEF NexusInv, QuietRefresh, Undisturbed, Nexus!QuietSession, Nexus!SomeRefresh,
              Nexus!Refreshing, Nexus!DropsLegacy
<1> QED BY <1>2, <1>3, <1>5 DEF NexusInv

LEMMA RefreshBeginsStep ==
  ASSUME Nexus!NexusSessionAssumption, NexusInv,
         NEW r \in Requests, NEW kind \in {"account", "premium"}, Nexus!RefreshBegins(r, kind)
  PROVE  NexusInv'
<1> DEFINE new == [[Nexus!Idle EXCEPT !.kind = kind] EXCEPT !.read = record]
<1>1. /\ new \in NexusRequest
      /\ new.kind = kind /\ new.auth = {} /\ new.read = record /\ new.reply = "none"
      /\ new.got = Nexus!NoRecord
  BY Records DEF Nexus!Idle, NexusRequest, NexusInv, Nexus!TypeOK
<1>2. req' = [req EXCEPT ![r] = new]
  BY DEF Nexus!RefreshBegins
<1> HIDE DEF new
<1>3. req \in [Requests -> NexusRequest]
  BY DEF NexusInv, Nexus!TypeOK, NexusRequest
<1>4. req' \in [Requests -> NexusRequest] /\ req'[r] = new /\ \A q \in Requests \ {r} : req'[q] = req[q]
  BY <1>1, <1>2, <1>3
<1>5. Nexus!TypeOK'
  BY <1>4 DEF NexusInv, Nexus!TypeOK, Nexus!RefreshBegins, NexusRequest, Nexus!SomeRefresh,
              Nexus!Refreshing
<1>6. AllVouched'
  BY <1>1, <1>4, Records DEF NexusInv, AllVouched, Nexus!PremiumIsTrue, Vouched, Nexus!RefreshBegins
<1>7. Nexus!Refreshing(r)' /\ \A q \in Requests \ {r} : Nexus!Refreshing(q)' <=> Nexus!Refreshing(q)
  BY <1>1, <1>4 DEF Nexus!Refreshing
<1>8. OneThing'
  BY <1>1, <1>4, <1>7 DEF NexusInv, OneThing
<1>9. ASSUME ~disturbed' PROVE ~disturbed /\ ~Nexus!SomeRefresh
  BY <1>9 DEF Nexus!RefreshBegins, NexusInv, Nexus!TypeOK
<1>10. ~disturbed' => record.refresh \in honoured
  BY <1>9 DEF NexusInv, Nexus!QuietSession, Nexus!RefreshBegins
<1>11. QuietRefresh'
  <2>1. ASSUME ~disturbed' PROVE Undisturbed(r)'
    BY <2>1, <1>1, <1>4, <1>7, <1>9, <1>10
       DEF Undisturbed, Nexus!RefreshBegins, Nexus!Connected, Nexus!SomeRefresh
  <2> QED BY <2>1, <1>7, <1>9 DEF QuietRefresh, Nexus!SomeRefresh
<1>12. Nexus!QuietSession'
  <2>1. Nexus!SomeRefresh'
    BY <1>7 DEF Nexus!SomeRefresh
  <2> QED BY <2>1, <1>9 DEF NexusInv, Nexus!QuietSession, Nexus!RefreshBegins, Nexus!Connected
<1> QED BY <1>5, <1>6, <1>8, <1>11, <1>12 DEF NexusInv

LEMMA WithoutRefreshStep ==
  ASSUME Nexus!NexusSessionAssumption, NexusInv,
         NEW r \in Requests, NEW kind \in {"account", "premium"}, Nexus!WithoutRefresh(r, kind)
  PROVE  NexusInv'
<1>1. Nexus!NoRecord \in Nexus!RecordType /\ Vouched(Nexus!NoRecord) /\ Nexus!NoRecord.via = "none"
  BY Records DEF Nexus!NoRecord
<1>2. Nexus!Connected /\ record.refresh = Nexus!NoToken
  BY DEF Nexus!WithoutRefresh
<1>3. UNCHANGED <<pending, req, issued, honoured, claims, spentCodes, lost, disturbed>>
  BY DEF Nexus!WithoutRefresh
<1>4. ~disturbed => ~Nexus!SomeRefresh
  BY <1>2 DEF NexusInv, QuietRefresh, Undisturbed, Nexus!SomeRefresh
<1>5. OneThing' /\ QuietRefresh'
  BY <1>3, <1>4 DEF NexusInv, OneThing, QuietRefresh, Nexus!SomeRefresh, Nexus!Refreshing
<1>6. CASE kind = "premium" /\ record.expired
  <2>1. record' = Nexus!NoRecord /\ signedIn' = FALSE /\ handed' = handed
    BY <1>6 DEF Nexus!WithoutRefresh
  <2>2. Nexus!TypeOK' /\ AllVouched'
    BY <2>1, <1>1, <1>3 DEF NexusInv, Nexus!TypeOK, AllVouched, Nexus!PremiumIsTrue, Vouched
  <2>3. Nexus!QuietSession'
    BY <2>1, <1>1 DEF Nexus!QuietSession, Nexus!Connected
  <2> QED BY <2>2, <2>3, <1>5 DEF NexusInv
<1>7. CASE ~(kind = "premium" /\ record.expired)
  <2>1. /\ UNCHANGED <<record, signedIn>>
        /\ handed' \subseteq handed \cup (IF record.premium THEN {record.access} ELSE {})
    BY <1>7 DEF Nexus!WithoutRefresh
  <2>2. \A t \in handed' : t \in 1..issued /\ claims[t]
    BY <2>1 DEF NexusInv, AllVouched, Nexus!PremiumIsTrue, Vouched
  <2>3. handed' \subseteq Nexus!Tokens
    BY <2>2, IssuedAreTokens DEF NexusInv
  <2>4. Nexus!TypeOK'
    BY <2>1, <2>3, <1>3 DEF NexusInv, Nexus!TypeOK
  <2>5. AllVouched'
    BY <2>1, <2>2, <1>3 DEF NexusInv, AllVouched, Nexus!PremiumIsTrue, Vouched
  <2>6. Nexus!QuietSession'
    BY <2>1, <1>3 DEF NexusInv, Nexus!QuietSession, Nexus!Connected, Nexus!SomeRefresh,
                      Nexus!Refreshing
  <2> QED BY <2>4, <2>5, <2>6, <1>5 DEF NexusInv
<1> QED BY <1>6, <1>7

-----------------------------------------------------------------------------
(* Answers of Nexus                                                         *)

LEMMA RefreshesStep ==
  ASSUME Nexus!NexusSessionAssumption, NexusInv,
         NEW r \in Requests, NEW premium \in BOOLEAN,
         Nexus!Refreshing(r), req[r].reply = "none", Nexus!Refreshes(r, premium),
         UNCHANGED <<record, pending, handed, spentCodes, lost, signedIn, disturbed>>
  PROVE  NexusInv'
<1> DEFINE old == req[r].read.refresh
           new == issued + 1
<1>1. old \in honoured /\ new \in Nexus!Tokens /\ issued' = new /\ claims' = [claims EXCEPT ![new] = premium]
  BY DEF Nexus!Refreshes
<1>2. PICK rotated \in BOOLEAN :
        /\ honoured' = (honoured \ {old}) \cup {IF rotated THEN new ELSE old}
        /\ req' = [req EXCEPT ![r].reply = "ok",
                              ![r].got = Nexus!Record(new, IF rotated THEN new ELSE old, premium)]
  BY DEF Nexus!Refreshes
<1> DEFINE next == IF rotated THEN new ELSE old
           answer == Nexus!Record(new, next, premium)
<1>3. honoured \subseteq Nexus!Tokens /\ old \in Nexus!Tokens /\ next \in Nexus!Tokens
  BY <1>1 DEF NexusInv, Nexus!TypeOK
<1>4. /\ answer \in Nexus!RecordType
      /\ answer.via = "oauth_pkce" /\ answer.access = new /\ answer.refresh = next
      /\ answer.premium = premium
  BY <1>1, <1>3, NewRecord
<1>5. /\ issued' \in 0..MaxIssued /\ claims' \in [Nexus!Tokens -> BOOLEAN]
      /\ claims'[new] = premium
      /\ \A t \in 1..issued : t \in 1..issued' /\ claims'[t] = claims[t]
  BY <1>1, AnotherToken DEF NexusInv
<1>6. new \in 1..issued' /\ honoured' = (honoured \ {old}) \cup {next}
  BY <1>1, <1>2 DEF NexusInv, Nexus!TypeOK
<1>7. PICK got : got = answer
  OBVIOUS
<1>8. req \in [Requests -> NexusRequest] /\ req' = [req EXCEPT ![r].reply = "ok", ![r].got = got]
  BY <1>2, <1>7 DEF NexusInv, Nexus!TypeOK, NexusRequest
<1>9. /\ got \in Nexus!RecordType /\ got.via = "oauth_pkce" /\ got.refresh \in honoured'
      /\ got.premium => got.access \in 1..issued' /\ claims'[got.access]
  BY <1>4, <1>5, <1>6, <1>7
<1> HIDE DEF old, new, next, answer
<1>10. /\ req'[r] = [req[r] EXCEPT !.reply = "ok", !.got = got]
       /\ \A q \in Requests \ {r} : req'[q] = req[q]
  BY <1>8
<1>11. /\ req'[r] \in NexusRequest
       /\ req'[r].kind = req[r].kind /\ req'[r].auth = req[r].auth
       /\ req'[r].reply = "ok" /\ req'[r].got = got
  <2>1. req[r] \in NexusRequest
    BY <1>8
  <2> QED BY <2>1, <1>9, <1>10 DEF NexusRequest
<1>12. req' \in [Requests -> NexusRequest]
  BY <1>8, <1>10, <1>11
<1>13. Nexus!TypeOK'
  BY <1>3, <1>5, <1>6, <1>12 DEF NexusInv, Nexus!TypeOK, NexusRequest
<1>14. AllVouched'
  <2>1. Vouched(record)'
    BY <1>5 DEF NexusInv, AllVouched, Vouched
  <2>2. ASSUME NEW q \in Requests \ {r} PROVE Vouched(req[q].got)'
    BY <1>5, <1>10 DEF NexusInv, AllVouched, Vouched
  <2>3. Vouched(req[r].got)'
    BY <1>9, <1>11 DEF Vouched
  <2>4. \A t \in handed' : t \in 1..issued' /\ claims'[t]
    BY <1>5 DEF NexusInv, AllVouched, Nexus!PremiumIsTrue
  <2> QED BY <2>1, <2>2, <2>3, <2>4 DEF AllVouched, Nexus!PremiumIsTrue
<1>15. \A q \in Requests : Nexus!Refreshing(q)' <=> Nexus!Refreshing(q)
  BY <1>10, <1>11 DEF Nexus!Refreshing
<1>16. OneThing'
  BY <1>10, <1>11, <1>15 DEF NexusInv, OneThing
<1>17. QuietRefresh'
  <2>1. ASSUME ~disturbed PROVE Undisturbed(r)'
    BY <2>1, <1>9, <1>11, <1>15 DEF NexusInv, QuietRefresh, Undisturbed, Nexus!Connected
  <2>2. ASSUME ~disturbed, NEW q \in Requests, Nexus!Refreshing(q) PROVE q = r
    BY <2>2 DEF NexusInv, QuietRefresh, Undisturbed
  <2> QED BY <2>1, <2>2, <1>15 DEF QuietRefresh
<1>18. Nexus!QuietSession'
  BY <1>15 DEF NexusInv, Nexus!QuietSession, Nexus!SomeRefresh, Nexus!Connected
<1> QED BY <1>13, <1>14, <1>16, <1>17, <1>18 DEF NexusInv

LEMMA RefusesStep ==
  ASSUME Nexus!NexusSessionAssumption, NexusInv,
         NEW r \in Requests, Nexus!Refreshing(r), req[r].reply = "none", Nexus!Refuses(r),
         UNCHANGED <<record, pending, handed, spentCodes, lost, signedIn, disturbed>>
  PROVE  NexusInv'
<1> DEFINE old == req[r].read.refresh
           answer == IF old \in honoured THEN "unavailable" ELSE "refused"
<1>0. /\ req' = [req EXCEPT ![r].reply = answer] /\ UNCHANGED <<issued, honoured, claims>>
      /\ answer \in {"unavailable", "refused"}
  BY DEF Nexus!Refuses
<1>1. ASSUME ~disturbed PROVE Undisturbed(r) /\ answer = "unavailable"
  BY <1>1 DEF NexusInv, QuietRefresh, Undisturbed
<1> HIDE DEF answer
<1>2. req \in [Requests -> NexusRequest]
  BY DEF NexusInv, Nexus!TypeOK, NexusRequest
<1>3. /\ req'[r] = [req[r] EXCEPT !.reply = answer]
      /\ \A q \in Requests \ {r} : req'[q] = req[q]
  BY <1>0, <1>2
<1>4. /\ req'[r] \in NexusRequest /\ req'[r].reply = answer
      /\ req'[r].kind = req[r].kind /\ req'[r].auth = req[r].auth /\ req'[r].got = req[r].got
  <2>1. req[r] \in NexusRequest
    BY <1>2
  <2> QED BY <1>0, <2>1, <1>3 DEF NexusRequest
<1>5. req' \in [Requests -> NexusRequest]
  BY <1>0, <1>2, <1>3, <1>4
<1>6. Nexus!TypeOK'
  BY <1>0, <1>5 DEF NexusInv, Nexus!TypeOK, NexusRequest
<1>7. AllVouched' /\ OneThing'
  BY <1>0, <1>3, <1>4 DEF NexusInv, AllVouched, Nexus!PremiumIsTrue, Vouched, OneThing,
       Nexus!Refreshing
<1>8. ASSUME NEW q \in Requests PROVE Nexus!Refreshing(q)' <=> Nexus!Refreshing(q)
  BY <1>3, <1>4 DEF Nexus!Refreshing
<1>9. QuietRefresh'
  <2> SUFFICES ASSUME ~disturbed, NEW q \in Requests, Nexus!Refreshing(q)
               PROVE  Undisturbed(q)'
    BY <1>8 DEF QuietRefresh
  <2>1. q = r
    BY <1>1 DEF Undisturbed
  <2> QED BY <1>0, <1>1, <1>4, <1>8, <2>1 DEF Undisturbed, Nexus!Connected
<1>10. Nexus!QuietSession'
  BY <1>8 DEF NexusInv, Nexus!QuietSession, Nexus!SomeRefresh, Nexus!Connected
<1> QED BY <1>6, <1>7, <1>9, <1>10 DEF NexusInv

LEMMA NexusAnswersStep ==
  ASSUME Nexus!NexusSessionAssumption, NexusInv,
         NEW r \in Requests, Nexus!NexusAnswers(r) PROVE NexusInv'
<1>1. CASE \E premium \in BOOLEAN : Nexus!Refreshes(r, premium)
  BY <1>1, RefreshesStep DEF Nexus!NexusAnswers
<1>2. CASE Nexus!Refuses(r)
  BY <1>2, RefusesStep DEF Nexus!NexusAnswers
<1> QED BY <1>1, <1>2 DEF Nexus!NexusAnswers

-----------------------------------------------------------------------------
(* A handler is done                                                        *)

LEMMA Done ==
  ASSUME Nexus!NexusSessionAssumption, NexusInv,
         NEW r \in Requests, req' = [req EXCEPT ![r] = Nexus!Idle]
  PROVE  /\ req' \in [Requests -> NexusRequest]
         /\ req'[r].got = Nexus!NoRecord
         /\ ~Nexus!Refreshing(r)'
         /\ \A q \in Requests \ {r} : req'[q] = req[q]
         /\ OneThing'
<1>1. req \in [Requests -> NexusRequest]
  BY DEF NexusInv, Nexus!TypeOK, NexusRequest
<1>2. req'[r] = Nexus!Idle /\ \A q \in Requests \ {r} : req'[q] = req[q]
  BY <1>1
<1>3. Nexus!Idle.got = Nexus!NoRecord /\ Nexus!Idle.kind = "idle" /\ Nexus!Idle \in NexusRequest
  BY Records DEF Nexus!Idle
<1> QED BY <1>1, <1>2, <1>3 DEF NexusInv, OneThing, Nexus!Refreshing

LEMMA AnswerLostStep ==
  ASSUME Nexus!NexusSessionAssumption, NexusInv,
         NEW r \in Requests, Nexus!AnswerLost(r) PROVE NexusInv'
<1>1. /\ req' \in [Requests -> NexusRequest] /\ req'[r].got = Nexus!NoRecord
      /\ \A q \in Requests \ {r} : req'[q] = req[q] /\ OneThing'
      /\ OneThing'
  BY Done DEF Nexus!AnswerLost
<1>2. Nexus!TypeOK'
  BY <1>1, Nexus!NexusSessionAssumption DEF NexusInv, Nexus!TypeOK, Nexus!AnswerLost, NexusRequest
<1>3. AllVouched'
  BY <1>1, Records DEF NexusInv, AllVouched, Nexus!PremiumIsTrue, Vouched, Nexus!AnswerLost
<1>4. QuietRefresh' /\ Nexus!QuietSession'
  BY DEF QuietRefresh, Nexus!QuietSession, Nexus!AnswerLost
<1> QED BY <1>1, <1>2, <1>3, <1>4 DEF NexusInv

LEMMA RefusedStep ==
  ASSUME Nexus!NexusSessionAssumption, NexusInv,
         NEW r \in Requests, Nexus!Refused(r) PROVE NexusInv'
<1>1. /\ req' \in [Requests -> NexusRequest] /\ req'[r].got = Nexus!NoRecord
      /\ ~Nexus!Refreshing(r)'
      /\ \A q \in Requests \ {r} : req'[q] = req[q]
      /\ OneThing'
  BY Done DEF Nexus!Refused
<1>2. Nexus!TypeOK'
  BY <1>1, Records DEF NexusInv, Nexus!TypeOK, Nexus!Refused, NexusRequest
<1>3. AllVouched'
  BY <1>1, Records DEF NexusInv, AllVouched, Nexus!PremiumIsTrue, Vouched, Nexus!Refused
<1>4. ASSUME ~disturbed'
      PROVE  signedIn' = FALSE /\ record' = Nexus!NoRecord /\ ~Nexus!SomeRefresh'
  <2>1. ~disturbed /\ Undisturbed(r)
    BY <1>4 DEF NexusInv, QuietRefresh, Nexus!Refused
  <2>2. req[r].reply = "unavailable"
    BY <2>1 DEF Undisturbed, Nexus!Refused
  <2>3. ASSUME NEW q \in Requests, q # r PROVE ~Nexus!Refreshing(q)'
    <3>1. req'[q] = req[q]
      BY <1>1, <2>3
    <3> QED BY <2>1, <2>3, <3>1 DEF Undisturbed, Nexus!Refreshing
  <2> QED BY <1>1, <2>2, <2>3 DEF Nexus!Refused, Nexus!SomeRefresh
<1>5. QuietRefresh' /\ Nexus!QuietSession'
  <2>1. Nexus!NoRecord.via = "none"
    BY DEF Nexus!NoRecord
  <2> QED BY <1>4, <2>1 DEF QuietRefresh, Nexus!QuietSession, Nexus!SomeRefresh, Nexus!Connected
<1> QED BY <1>1, <1>2, <1>3, <1>5 DEF NexusInv

LEMMA RefreshEndsStep ==
  ASSUME Nexus!NexusSessionAssumption, NexusInv,
         NEW r \in Requests, Nexus!RefreshEnds(r) PROVE NexusInv'
<1>1. /\ req' \in [Requests -> NexusRequest] /\ req'[r].got = Nexus!NoRecord /\ ~Nexus!Refreshing(r)'
      /\ \A q \in Requests \ {r} : req'[q] = req[q]
      /\ OneThing'
  BY Done DEF Nexus!RefreshEnds
<1>2. record' = req[r].got /\ req[r].got \in Nexus!RecordType /\ Vouched(req[r].got)
  BY DEF Nexus!RefreshEnds, Nexus!Saved, NexusInv, Nexus!TypeOK, AllVouched
<1>3. handed' \subseteq handed \cup (IF req[r].got.premium THEN {req[r].got.access} ELSE {})
  BY DEF Nexus!RefreshEnds, Nexus!Saved
<1>4. \A t \in handed' : t \in 1..issued /\ claims[t]
  BY <1>2, <1>3 DEF NexusInv, AllVouched, Nexus!PremiumIsTrue, Vouched
<1>5. Nexus!TypeOK'
  <2>1. handed' \subseteq Nexus!Tokens
    BY <1>4, IssuedAreTokens DEF NexusInv
  <2> QED BY <2>1, <1>1, <1>2 DEF NexusInv, Nexus!TypeOK, Nexus!RefreshEnds, NexusRequest
<1>6. AllVouched'
  BY <1>1, <1>2, <1>4, Records DEF NexusInv, AllVouched, Nexus!PremiumIsTrue, Vouched,
                                   Nexus!RefreshEnds
<1>7. ASSUME ~disturbed PROVE ~Nexus!SomeRefresh' /\ Nexus!Connected' /\ signedIn /\ record'.refresh \in honoured
  <2>1. Undisturbed(r)
    BY <1>7 DEF NexusInv, QuietRefresh, Nexus!RefreshEnds
  <2>2. \A q \in Requests : ~Nexus!Refreshing(q)'
    BY <2>1, <1>1 DEF Undisturbed, Nexus!Refreshing
  <2>3. Nexus!Connected' /\ record'.refresh \in honoured
    BY <2>1, <1>2 DEF Undisturbed, Nexus!Connected, Nexus!RefreshEnds
  <2>4. signedIn
    BY <1>7, <2>1 DEF NexusInv, Nexus!QuietSession, Undisturbed
  <2> QED BY <2>2, <2>3, <2>4 DEF Nexus!SomeRefresh
<1>8. QuietRefresh' /\ Nexus!QuietSession'
  BY <1>7 DEF QuietRefresh, Nexus!QuietSession, Nexus!SomeRefresh, Nexus!RefreshEnds
<1> QED BY <1>1, <1>5, <1>6, <1>8 DEF NexusInv

LEMMA TokenExpiresStep ==
  ASSUME Nexus!NexusSessionAssumption, NexusInv,
         Nexus!TokenExpires PROVE NexusInv'
<1>1. record \in Nexus!RecordType
  BY DEF NexusInv, Nexus!TypeOK
<1>2. /\ record' \in Nexus!RecordType
      /\ record'.via = record.via /\ record'.access = record.access
      /\ record'.refresh = record.refresh /\ record'.premium = record.premium
  BY <1>1 DEF Nexus!TokenExpires, Nexus!RecordType
<1>3. Nexus!TypeOK'
  BY <1>2 DEF NexusInv, Nexus!TypeOK, Nexus!TokenExpires
<1>4. AllVouched' /\ OneThing'
  BY <1>2 DEF NexusInv, AllVouched, Nexus!PremiumIsTrue, Vouched, OneThing, Nexus!Refreshing,
              Nexus!TokenExpires
<1>5. QuietRefresh' /\ Nexus!QuietSession'
  BY <1>2 DEF NexusInv, QuietRefresh, Undisturbed, Nexus!QuietSession, Nexus!SomeRefresh,
              Nexus!Connected, Nexus!Refreshing,
              Nexus!TokenExpires
<1> QED BY <1>3, <1>4, <1>5 DEF NexusInv

-----------------------------------------------------------------------------
(* Signing in and out                                                       *)

LEMMA CallbackBeginsStep ==
  ASSUME Nexus!NexusSessionAssumption, NexusInv,
         NEW r \in Requests, NEW i \in SignIns, Nexus!CallbackBegins(r, i) PROVE NexusInv'
<1> DEFINE new == [[Nexus!Idle EXCEPT !.kind = "callback"] EXCEPT !.auth = {i}]
<1>1. new \in NexusRequest /\ new.kind = "callback" /\ new.got = Nexus!NoRecord
  BY Records DEF Nexus!Idle, NexusRequest
<1>2. req' = [req EXCEPT ![r] = new]
  BY DEF Nexus!CallbackBegins
<1> HIDE DEF new
<1>3. req \in [Requests -> NexusRequest]
  BY DEF NexusInv, Nexus!TypeOK, NexusRequest
<1>4. req' \in [Requests -> NexusRequest] /\ req'[r] = new /\ \A q \in Requests \ {r} : req'[q] = req[q]
  BY <1>1, <1>2, <1>3
<1>5. \A q \in Requests : Nexus!Refreshing(q)' <=> Nexus!Refreshing(q)
  BY <1>1, <1>4, Idleness DEF Nexus!Refreshing, Nexus!CallbackBegins
<1>6. \A q \in Requests : Nexus!Refreshing(q) => req'[q] = req[q]
  BY <1>4, Idleness DEF Nexus!CallbackBegins
<1>7. Nexus!TypeOK'
  BY <1>4 DEF NexusInv, Nexus!TypeOK, Nexus!CallbackBegins, NexusRequest
<1>8. AllVouched'
  BY <1>1, <1>4, Records DEF NexusInv, AllVouched, Nexus!PremiumIsTrue, Vouched,
                             Nexus!CallbackBegins
<1>9. OneThing'
  BY <1>5, <1>6 DEF NexusInv, OneThing
<1>10. QuietRefresh' /\ Nexus!QuietSession'
  BY <1>5, <1>6 DEF NexusInv, QuietRefresh, Undisturbed, Nexus!QuietSession, Nexus!SomeRefresh,
                    Nexus!Connected,
                    Nexus!CallbackBegins
<1> QED BY <1>7, <1>8, <1>9, <1>10 DEF NexusInv

LEMMA CallbackConnectsStep ==
  ASSUME Nexus!NexusSessionAssumption, NexusInv,
         NEW r \in Requests, NEW i \in SignIns, NEW premium \in BOOLEAN,
         NEW renewable \in BOOLEAN, Nexus!CallbackConnects(r, i, premium, renewable)
  PROVE  NexusInv'
<1> DEFINE new == issued + 1
           token == IF renewable THEN new ELSE Nexus!NoToken
           session == Nexus!Record(new, token, premium)
<1>1. /\ new \in Nexus!Tokens /\ issued' = new /\ claims' = [claims EXCEPT ![new] = premium]
      /\ honoured' = (IF renewable THEN honoured \cup {new} ELSE honoured)
      /\ spentCodes' = spentCodes \cup {i} /\ pending' = Nexus!Status(i, "connected")
      /\ record' = session /\ req' = [req EXCEPT ![r] = Nexus!Idle]
      /\ signedIn' = TRUE /\ disturbed' = Nexus!SomeRefresh
      /\ UNCHANGED <<handed, lost>>
  BY DEF Nexus!CallbackConnects
<1>2. /\ session \in Nexus!RecordType
      /\ session.via = "oauth_pkce" /\ session.access = new /\ session.refresh = token
      /\ session.premium = premium
  BY <1>1, NewRecord
<1>3. /\ issued' \in 0..MaxIssued /\ claims' \in [Nexus!Tokens -> BOOLEAN]
      /\ claims'[new] = premium
      /\ \A t \in 1..issued : t \in 1..issued' /\ claims'[t] = claims[t]
  BY <1>1, AnotherToken DEF NexusInv
<1>4. new \in 1..issued'
  BY <1>1 DEF NexusInv, Nexus!TypeOK
<1>5. token # Nexus!NoToken => token \in honoured'
  BY <1>1
<1> HIDE DEF new, token, session
<1>6. /\ req' \in [Requests -> NexusRequest] /\ req'[r].got = Nexus!NoRecord /\ ~Nexus!Refreshing(r)'
      /\ \A q \in Requests \ {r} : req'[q] = req[q]
      /\ OneThing'
  BY <1>1, Done
<1>7. pending' \in [SignIns -> {"none", "pending", "connected", "error"}]
  BY <1>1 DEF NexusInv, Nexus!TypeOK, Nexus!Status
<1>8. Nexus!SomeRefresh \in BOOLEAN
  BY DEF Nexus!SomeRefresh
<1>9. Nexus!TypeOK'
  BY <1>1, <1>2, <1>3, <1>6, <1>7, <1>8 DEF NexusInv, Nexus!TypeOK, NexusRequest
<1>10. AllVouched'
  <2>1. Vouched(record)'
    BY <1>1, <1>2, <1>3, <1>4 DEF Vouched
  <2>2. \A q \in Requests : Vouched(req[q].got)'
    BY <1>3, <1>6, Records DEF NexusInv, AllVouched, Vouched
  <2>3. \A t \in handed' : t \in 1..issued' /\ claims'[t]
    BY <1>1, <1>3 DEF NexusInv, AllVouched, Nexus!PremiumIsTrue
  <2> QED BY <2>1, <2>2, <2>3 DEF AllVouched, Nexus!PremiumIsTrue
<1>11. ~disturbed' => ~Nexus!SomeRefresh'
  BY <1>1, <1>6 DEF Nexus!SomeRefresh, Nexus!Refreshing
<1>12. QuietRefresh'
  BY <1>11 DEF QuietRefresh, Nexus!SomeRefresh
<1>13. Nexus!QuietSession'
  BY <1>1, <1>2, <1>5 DEF Nexus!QuietSession, Nexus!Connected
<1> QED BY <1>6, <1>9, <1>10, <1>12, <1>13 DEF NexusInv

LEMMA CallbackFailsStep ==
  ASSUME Nexus!NexusSessionAssumption, NexusInv,
         NEW r \in Requests, NEW i \in SignIns, Nexus!CallbackFails(r, i) PROVE NexusInv'
<1>1. /\ req' \in [Requests -> NexusRequest] /\ req'[r].got = Nexus!NoRecord /\ ~Nexus!Refreshing(r)'
      /\ \A q \in Requests \ {r} : req'[q] = req[q]
      /\ OneThing'
  BY Done DEF Nexus!CallbackFails
<1>2. ~Nexus!Refreshing(r)
  BY DEF NexusInv, OneThing, Nexus!CallbackFails
<1>3. \A q \in Requests : (Nexus!Refreshing(q)' <=> Nexus!Refreshing(q)) /\ (Nexus!Refreshing(q) => req'[q] = req[q])
  BY <1>1, <1>2 DEF Nexus!Refreshing
<1>4. pending' \in [SignIns -> {"none", "pending", "connected", "error"}]
  BY DEF NexusInv, Nexus!TypeOK, Nexus!Status, Nexus!CallbackFails
<1>5. Nexus!TypeOK'
  BY <1>1, <1>4 DEF NexusInv, Nexus!TypeOK, Nexus!CallbackFails, NexusRequest
<1>6. AllVouched'
  BY <1>1, Records DEF NexusInv, AllVouched, Nexus!PremiumIsTrue, Vouched, Nexus!CallbackFails
<1>7. QuietRefresh' /\ Nexus!QuietSession'
  BY <1>3 DEF NexusInv, QuietRefresh, Undisturbed, Nexus!QuietSession, Nexus!SomeRefresh,
              Nexus!Connected, Nexus!CallbackFails
<1> QED BY <1>1, <1>5, <1>6, <1>7 DEF NexusInv

LEMMA DisconnectStep ==
  ASSUME Nexus!NexusSessionAssumption, NexusInv,
         Nexus!Disconnect PROVE NexusInv'
<1>1. Nexus!NoRecord \in Nexus!RecordType /\ Vouched(Nexus!NoRecord) /\ Nexus!NoRecord.via = "none"
  BY Records DEF Nexus!NoRecord
<1>2. Nexus!SomeRefresh \in BOOLEAN
  BY DEF Nexus!SomeRefresh
<1>3. Nexus!TypeOK'
  BY <1>1, <1>2 DEF NexusInv, Nexus!TypeOK, Nexus!Disconnect
<1>4. AllVouched' /\ OneThing'
  BY <1>1 DEF NexusInv, AllVouched, Nexus!PremiumIsTrue, Vouched, OneThing, Nexus!Refreshing,
              Nexus!Disconnect
<1>5. QuietRefresh'
  BY DEF QuietRefresh, Nexus!SomeRefresh, Nexus!Refreshing, Nexus!Disconnect
<1>6. Nexus!QuietSession'
  BY <1>1 DEF Nexus!QuietSession, Nexus!Connected, Nexus!Disconnect
<1> QED BY <1>3, <1>4, <1>5, <1>6 DEF NexusInv

LEMMA PendingStep ==
  ASSUME Nexus!NexusSessionAssumption, NexusInv,
         NEW i \in SignIns, Nexus!SignInStarts(i) \/ Nexus!CallbackDenied(i) \/ Nexus!StatusAsked(i)
  PROVE  NexusInv'
<1>1. UNCHANGED <<record, req, handed, issued, honoured, claims, spentCodes, lost, signedIn,
                  disturbed>>
  BY DEF Nexus!SignInStarts, Nexus!CallbackDenied, Nexus!StatusAsked
<1>2. pending' \in [SignIns -> {"none", "pending", "connected", "error"}]
  BY DEF NexusInv, Nexus!TypeOK, Nexus!SignInStarts, Nexus!CallbackDenied, Nexus!StatusAsked
<1>3. Nexus!TypeOK'
  BY <1>1, <1>2 DEF NexusInv, Nexus!TypeOK
<1> QED BY <1>1, <1>3, NexusUnchanged

-----------------------------------------------------------------------------
LEMMA NexusInit == Nexus!NexusSessionAssumption /\ Nexus!Init => NexusInv
<1> SUFFICES ASSUME Nexus!NexusSessionAssumption, Nexus!Init PROVE NexusInv
  OBVIOUS
<1>1. record \in Nexus!RecordType /\ record.via # "oauth_pkce" /\ record.premium = FALSE
  <2>1. Nexus!NoRecord.via = "none" /\ Nexus!NoRecord.premium = FALSE
    BY DEF Nexus!NoRecord
  <2> QED BY <2>1, Records DEF Nexus!Init
<1>2. req \in [Requests -> NexusRequest] /\ \A r \in Requests : req[r] = Nexus!Idle
  BY Records DEF Nexus!Init
<1>3. \A r \in Requests : req[r].got = Nexus!NoRecord /\ ~Nexus!Refreshing(r)
  <2>1. Nexus!Idle.got = Nexus!NoRecord
    BY DEF Nexus!Idle
  <2> QED BY <2>1, <1>2, Idleness
<1>4. Nexus!TypeOK
  <2>1. /\ pending \in [SignIns -> {"none", "pending", "connected", "error"}]
        /\ claims \in [Nexus!Tokens -> BOOLEAN]
    BY DEF Nexus!Init
  <2>2. /\ handed \subseteq Nexus!Tokens /\ honoured \subseteq Nexus!Tokens /\ spentCodes \subseteq SignIns
        /\ signedIn \in BOOLEAN /\ disturbed \in BOOLEAN
    BY DEF Nexus!Init
  <2>3. issued \in 0..MaxIssued /\ lost \in 0..MaxLost
    <3>1. issued = 0 /\ lost = 0
      BY DEF Nexus!Init
    <3> QED BY <3>1, Nexus!NexusSessionAssumption
  <2> QED BY <2>1, <2>2, <2>3, <1>1, <1>2 DEF Nexus!TypeOK, NexusRequest
<1>5. AllVouched
  BY <1>1, <1>3, Records DEF Nexus!Init, AllVouched, Nexus!PremiumIsTrue, Vouched
<1>6. OneThing /\ QuietRefresh /\ Nexus!QuietSession
  BY <1>1, <1>3 DEF Nexus!Init, OneThing, QuietRefresh, Nexus!QuietSession, Nexus!Connected
<1> QED BY <1>4, <1>5, <1>6 DEF NexusInv

LEMMA NexusStep == Nexus!NexusSessionAssumption /\ NexusInv /\ [Nexus!Next]_(Nexus!vars) => NexusInv'
<1> SUFFICES ASSUME Nexus!NexusSessionAssumption, NexusInv, [Nexus!Next]_(Nexus!vars)
      PROVE NexusInv'
  OBVIOUS
<1>1. ASSUME NEW r \in Requests, Nexus!Handler(r) PROVE NexusInv'
  <2>1. CASE Nexus!DropsLegacy(r)
    BY <2>1, DropsLegacyStep
  <2>2. ASSUME NEW kind \in {"account", "premium"},
               Nexus!RefreshBegins(r, kind) \/ Nexus!WithoutRefresh(r, kind)
        PROVE NexusInv'
    BY <2>2, RefreshBeginsStep, WithoutRefreshStep
  <2>3. CASE Nexus!NexusAnswers(r)
    BY <2>3, NexusAnswersStep
  <2>4. CASE Nexus!AnswerLost(r)
    BY <2>4, AnswerLostStep
  <2>5. CASE Nexus!Refused(r)
    BY <2>5, RefusedStep
  <2>6. CASE Nexus!RefreshEnds(r)
    BY <2>6, RefreshEndsStep
  <2>7. ASSUME NEW i \in SignIns, Nexus!CallbackBegins(r, i) \/ Nexus!CallbackFails(r, i)
        PROVE NexusInv'
    BY <2>7, CallbackBeginsStep, CallbackFailsStep
  <2>8. ASSUME NEW i \in SignIns, NEW premium \in BOOLEAN, NEW renewable \in BOOLEAN,
               Nexus!CallbackConnects(r, i, premium, renewable)
        PROVE NexusInv'
    BY <2>8, CallbackConnectsStep
  <2> QED BY <1>1, <2>1, <2>2, <2>3, <2>4, <2>5, <2>6, <2>7, <2>8 DEF Nexus!Handler
<1>2. ASSUME NEW i \in SignIns,
             Nexus!SignInStarts(i) \/ Nexus!CallbackDenied(i) \/ Nexus!StatusAsked(i)
                   PROVE NexusInv'
  BY <1>2, PendingStep
<1>3. CASE Nexus!TokenExpires
  BY <1>3, TokenExpiresStep
<1>4. CASE Nexus!Disconnect
  BY <1>4, DisconnectStep
<1>5. CASE UNCHANGED Nexus!vars
  <2>1. Nexus!TypeOK'
    BY <1>5 DEF NexusInv, Nexus!TypeOK, Nexus!vars
  <2> QED BY <1>5, <2>1, NexusUnchanged DEF Nexus!vars
<1> QED BY <1>1, <1>2, <1>3, <1>4, <1>5 DEF Nexus!Next

LEMMA NexusAlways == ASSUME Nexus!NexusSessionAssumption PROVE Nexus!Spec => []NexusInv
<1>1. Nexus!Init => NexusInv
  BY NexusInit
<1>2. NexusInv /\ [Nexus!Next]_(Nexus!vars) => NexusInv'
  BY NexusStep
<1> QED BY <1>1, <1>2, PTL DEF Nexus!Spec

\* An automatic download starts only with a token that Nexus issued to a premium
\* member (nexus_session.py: require_premium_access_token).
THEOREM PremiumTokensOnly ==
  ASSUME Nexus!NexusSessionAssumption PROVE Nexus!Spec => []PremiumIsTrue
<1>1. NexusInv => PremiumIsTrue
  BY DEF NexusInv, AllVouched, Nexus!PremiumIsTrue, PremiumIsTrue
<1> QED BY <1>1, NexusAlways, PTL

\* A session that nothing disturbs lasts until it is ended by the user or by an error
\* that Nexus answers, and is not brought back (nexus_session.py: _refresh, disconnect).
THEOREM QuietSessionsLast ==
  ASSUME Nexus!NexusSessionAssumption PROVE Nexus!Spec => []QuietSession
<1>1. NexusInv => QuietSession
  BY DEF NexusInv, Nexus!QuietSession, QuietSession, Nexus!Connected, Connected,
         Nexus!SomeRefresh, SomeRefresh, Nexus!Refreshing, Refreshing, Nexus!NoToken, NoToken
<1> QED BY <1>1, NexusAlways, PTL
=============================================================================
