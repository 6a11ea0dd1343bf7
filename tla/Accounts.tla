------------------------------ MODULE Accounts ------------------------------
(***************************************************************************)
(* Users, their sessions, push subscriptions and notifications             *)
(* (backend/auth.py, backend/push.py), and the ownership of devices and    *)
(* dashboards that keeps an account from being deleted.                    *)
(*                                                                         *)
(* A request is authenticated first and changes the document later, in one *)
(* transaction: in between others run, and the account it was accepted for *)
(* may be gone.  A notification is written to the document before it is    *)
(* pushed.  The key pair of the push service is two files, published one   *)
(* after the other on first use; the process may crash between them.       *)
(***************************************************************************)
EXTENDS Naturals, FiniteSets, Optional

CONSTANTS
  Names, Endpoints,
  MaxSessions, MaxSubs, MaxNotes,   \* MAX_SESSIONS and the two limits per user
  MaxIds, MaxKeys, MaxEvents,       \* bounds: ids for new users, key pairs made, requests
  MaxInFlight, MaxCrashes

\* Two accounts have different names.
ASSUME AccountsAssumption ==
  /\ {MaxSessions, MaxSubs, MaxNotes} \subseteq Nat \ {0} /\ \E m, n \in Names : m # n
  /\ {MaxIds, MaxKeys, MaxEvents, MaxInFlight, MaxCrashes} \subseteq Nat

VARIABLES
  doc,       \* the document: users, sessions, subs, notes, owners; ids are in the order of creation
  reqs,      \* the requests between two of their steps
  browser,   \* the key an endpoint's browser was given
  vapid,     \* the two files, and the request that publishes them
  clock, ids, events, crashes

accountsVars == <<doc, reqs, browser, vapid, clock, ids, events, crashes>>

Users(d) == DOMAIN d.users
Admins(d) == {u \in Users(d) : d.users[u].role = "admin"}

DefaultDoc == [users |-> << >>, sessions |-> {}, subs |-> {}, notes |-> {}, owners |-> {}]

\* An instance that has been set up and used: an administrator and another user, each
\* with a session.
First == CHOOSE n \in Names : TRUE
Second == CHOOSE n \in Names : n # First
Used(role) ==
  [DefaultDoc EXCEPT !.users = [u \in 1..2 |-> IF u = 1 THEN [name |-> First, role |-> "admin", pass |-> 0]
                                               ELSE [name |-> Second, role |-> role, pass |-> 0]],
                     !.sessions = {[id |-> u, user |-> u, expired |-> FALSE] : u \in 1..2}]

AccountsInit ==
  /\ doc \in {DefaultDoc} \cup {Used(role) : role \in {"admin", "member"}} /\ ids = Cardinality(Users(doc))
  /\ reqs = {} /\ browser = [e \in Endpoints |-> None]
  /\ vapid = [priv |-> None, pub |-> None, keys |-> 0, by |-> None]
  /\ clock = 0 /\ events = 0 /\ crashes = 0

Keys == 1..MaxKeys \cup {None}
Roles == {"admin", "member"}
UserRecords == [name : Names, role : Roles, pass : {0, 1}]
Sessions == [id : Nat, user : Nat, expired : BOOLEAN]
Subscriptions == [id : Nat, endpoint : Endpoints, user : Nat, key : Keys]
Notes == [id : Nat, user : Nat, at : Nat, status : {"unread", "read", "dismissed"}]

\* The requests, by what is left of them.
UserRequests ==
  [op : {"session", "own", "disown", "read_all"}, user : Nat]
    \cup [op : {"set_password"}, user : Nat, session : Nat, current : {0, 1}]
    \cup [op : {"logout"}, user : Nat, session : Nat]
    \cup [op : {"subscribe", "unsubscribe", "key"}, user : Nat, endpoint : Endpoints]
    \cup [op : {"read", "dismiss"}, user : Nat, note : Nat]
    \cup [op : {"create_user"}, name : Names, role : Roles] \cup [op : {"delete_user"}, target : Nat]
NoticeRequests == [op : {"persist", "push"}, to : SUBSET Nat] \cup [op : {"prune"}, endpoints : SUBSET Endpoints]
HttpRequests == UserRequests \cup NoticeRequests

AccountsTypeOK ==
  /\ doc \in [users : {doc.users}, sessions : SUBSET Sessions, subs : SUBSET Subscriptions,
              notes : SUBSET Notes, owners : SUBSET Nat]
  /\ doc.users \in [Users(doc) -> UserRecords] /\ Users(doc) \subseteq Nat
  /\ reqs \subseteq HttpRequests /\ browser \in [Endpoints -> Keys]
  /\ vapid \in [priv : Keys, pub : Keys, keys : 0..MaxKeys, by : HttpRequests \cup {None}]
  /\ clock \in Nat /\ ids \in Nat /\ events \in 0..MaxEvents /\ crashes \in 0..MaxCrashes

----------------------------------------------------------------------------
\* The transactions on the document

\* create_user and create_initial_admin
Created(d, name, role) ==
  IF \E u \in Users(d) : d.users[u].name = name THEN d
  ELSE [d EXCEPT !.users = [u \in Users(d) \cup {ids + 1} |->
                              IF u = ids + 1 THEN [name |-> name, role |-> role, pass |-> 0] ELSE d.users[u]]]

\* Defect: the last administrator is not spared.
DeletedAnyway(d, uid) ==
  IF uid \notin Users(d) THEN d
  ELSE LET revoked == [d EXCEPT !.sessions = {s \in @ : s.user # uid}, !.subs = {s \in @ : s.user # uid}]
       IN IF uid \in d.owners THEN revoked
          ELSE [revoked EXCEPT !.users = [u \in Users(d) \ {uid} |-> d.users[u]]]

\* delete_user: what the account can do is revoked even when it stays, for what it owns.
Deleted(d, uid) ==
  IF uid \notin Users(d) \/ Admins(d) = {uid} THEN d
  ELSE LET revoked == [d EXCEPT !.sessions = {s \in @ : s.user # uid}, !.subs = {s \in @ : s.user # uid}]
       IN IF uid \in d.owners THEN revoked
          ELSE [revoked EXCEPT !.users = [u \in Users(d) \ {uid} |-> d.users[u]]]

\* set_password; current is the password the request gives
PasswordSet(d, uid, current, session) ==
  IF uid \notin Users(d) \/ d.users[uid].pass # current THEN d
  ELSE [d EXCEPT !.users[uid].pass = 1 - current,
                 !.sessions = {s \in @ : s.user # uid \/ s.id = session}]

\* The records that stay when the oldest make room.
Newest(records, limit) == {r \in records : Cardinality({q \in records : q.id > r.id}) < limit}

\* login: the session is added, expired ones are swept, and the oldest make room.
LoggedIn(d, uid, id) ==
  [d EXCEPT !.sessions = Newest({s \in @ : ~s.expired} \cup {[id |-> id, user |-> uid, expired |-> FALSE]},
                                MaxSessions)]

LoggedOut(d, session) == [d EXCEPT !.sessions = {s \in @ : s.id # session}]

\* subscribe: an endpoint moves to its new user, whose oldest endpoints make room.
Subscribed(d, uid, endpoint, key, id) ==
  LET others == {s \in d.subs : s.endpoint # endpoint}
      owned == {s \in others : s.user = uid}
  IN [d EXCEPT !.subs = (others \ owned) \cup Newest(owned, MaxSubs - 1)
                          \cup {[id |-> id, endpoint |-> endpoint, user |-> uid, key |-> key]}]

\* unsubscribe
Unsubscribed(d, uid, endpoint) == [d EXCEPT !.subs = {s \in @ : ~(s.endpoint = endpoint /\ s.user = uid)}]

\* _remove_endpoints
Removed(d, endpoints) == [d EXCEPT !.subs = {s \in @ : s.endpoint \notin endpoints}]

\* mark_notification_read, dismiss_notification and mark_all_notifications_read
Marked(d, chosen, status) ==
  [d EXCEPT !.notes = {IF n \in chosen THEN [n EXCEPT !.status = status] ELSE n : n \in @}]

\* _persist_notifications: a note for each recipient that is still a user, then the
\* limit; what is read or dismissed goes first, then the oldest, and within one second
\* any.
Recipients(d, to) == to \cap Users(d)
Older(m, n) ==
  \/ m.status # "unread" /\ n.status = "unread"
  \/ (m.status = "unread" <=> n.status = "unread") /\ m.at < n.at

\* Defect: the oldest go first, read or not.
OverflowByAge(notes, u) ==
  LET owned == {n \in notes : n.user = u}
  IN {gone \in SUBSET owned :
        /\ Cardinality(gone) = (IF Cardinality(owned) > MaxNotes THEN Cardinality(owned) - MaxNotes ELSE 0)
        /\ \A m \in gone, n \in owned \ gone : m.at <= n.at}

Overflow(notes, u) ==
  LET owned == {n \in notes : n.user = u}
  IN {gone \in SUBSET owned :
        /\ Cardinality(gone) = (IF Cardinality(owned) > MaxNotes THEN Cardinality(owned) - MaxNotes ELSE 0)
        /\ \A m \in gone, n \in owned \ gone : ~Older(n, m)}

----------------------------------------------------------------------------
\* Requests

Accept(r) ==
  /\ events < MaxEvents /\ events' = events + 1
  /\ Cardinality(reqs) < MaxInFlight /\ reqs' = reqs \cup {r}

\* A request's transaction, which ends it.
On(op, Mutated(_)) ==
  \E r \in reqs : r.op = op /\ doc' = Mutated(r) /\ reqs' = reqs \ {r} /\ UNCHANGED <<browser, vapid, clock, events, crashes>>

\* setup: create_initial_admin, then a login with the same password
Setup ==
  \E name \in Names :
    /\ Users(doc) = {} /\ ids < MaxIds
    /\ doc' = Created(doc, name, "admin") /\ ids' = ids + 1
    /\ Accept([op |-> "session", user |-> ids + 1])
    /\ UNCHANGED <<browser, vapid, clock, crashes>>

\* login: the password is checked against a document read before the transaction.
Login ==
  /\ \E u \in Users(doc) : Accept([op |-> "session", user |-> u])
  /\ UNCHANGED <<doc, browser, vapid, clock, ids, crashes>>

StoreSession == On("session", LAMBDA r : LoggedIn(doc, r.user, ids + 1)) /\ ids' = ids + 1

\* user_for_token: what a request may ask for, by its session ...
Asked(u, session) ==
  [op : {"set_password"}, user : {u}, session : {session}, current : {0, 1}]
    \cup [op : {"logout"}, user : {u}, session : {session}]
    \cup [op : {"own", "disown", "read_all"}, user : {u}]
    \cup [op : {"subscribe"}, user : {u}, endpoint : {e \in Endpoints : browser[e] # None}]
    \cup [op : {"unsubscribe", "key"}, user : {u}, endpoint : Endpoints]
    \cup [op : {"read", "dismiss"}, user : {u}, note : {n.id : n \in {m \in doc.notes : m.user = u}}]
    \cup [op : {"persist"}, to : {{u}}]
    \* ... and by the role of its user
    \cup (IF u \notin Admins(doc) THEN {}
          ELSE [op : {"create_user"}, name : Names, role : {"admin", "member"}]
                 \cup [op : {"delete_user"}, target : Users(doc) \ {u}])

Authenticate ==
  /\ \E s \in doc.sessions : ~s.expired /\ s.user \in Users(doc) /\ \E r \in Asked(s.user, s.id) : Accept(r)
  /\ UNCHANGED <<doc, browser, vapid, clock, ids, crashes>>

\* Time passes; a session that has expired is removed when it is presented, or by a login.
Expire ==
  /\ events < MaxEvents /\ events' = events + 1
  /\ \E s \in doc.sessions :
       ~s.expired /\ doc' = [doc EXCEPT !.sessions = (@ \ {s}) \cup {[s EXCEPT !.expired = TRUE]}]
  /\ UNCHANGED <<reqs, browser, vapid, clock, ids, crashes>>

PresentExpired ==
  /\ \E s \in doc.sessions : s.expired /\ doc' = LoggedOut(doc, s.id)
  /\ UNCHANGED <<reqs, browser, vapid, clock, ids, events, crashes>>

CreateUser == ids < MaxIds /\ On("create_user", LAMBDA r : Created(doc, r.name, r.role)) /\ ids' = ids + 1
DeleteUser == On("delete_user", LAMBDA r : Deleted(doc, r.target)) /\ UNCHANGED ids
SetPassword == On("set_password", LAMBDA r : PasswordSet(doc, r.user, r.current, r.session)) /\ UNCHANGED ids
Logout == On("logout", LAMBDA r : LoggedOut(doc, r.session)) /\ UNCHANGED ids

\* A device or a dashboard is created for the user that asked, or deleted.
Own == On("own", LAMBDA r : [doc EXCEPT !.owners = @ \cup {r.user}]) /\ UNCHANGED ids
Disown == On("disown", LAMBDA r : [doc EXCEPT !.owners = @ \ {r.user}]) /\ UNCHANGED ids

Unsubscribe == On("unsubscribe", LAMBDA r : Unsubscribed(doc, r.user, r.endpoint)) /\ UNCHANGED ids
Subscribe ==
  On("subscribe", LAMBDA r : Subscribed(doc, r.user, r.endpoint, browser[r.endpoint], ids + 1)) /\ ids' = ids + 1

Unread(u) == {n \in doc.notes : n.user = u /\ n.status = "unread"}
MarkRead == On("read", LAMBDA r : Marked(doc, {n \in Unread(r.user) : n.id = r.note}, "read")) /\ UNCHANGED ids
Dismiss == On("dismiss", LAMBDA r : Marked(doc, {n \in doc.notes : n.user = r.user /\ n.id = r.note}, "dismissed"))
             /\ UNCHANGED ids
MarkAllRead == On("read_all", LAMBDA r : Marked(doc, Unread(r.user), "read")) /\ UNCHANGED ids

----------------------------------------------------------------------------
\* Notifications

\* The poller has news of a device: its owner and the administrators are to know.
News ==
  /\ \E owner \in doc.owners : Accept([op |-> "persist", to |-> {owner} \cup Admins(doc)])
  /\ UNCHANGED <<doc, browser, vapid, clock, ids, crashes>>

NewNotes(to, now) == {[id |-> ids + u, user |-> u, at |-> now, status |-> "unread"] : u \in to}

\* What goes is gone[u], of each recipient u.
Noted(to, now, gone) ==
  LET notes == doc.notes \cup NewNotes(to, now)
  IN  /\ \A u \in to : gone[u] \in Overflow(notes, u)
      /\ doc' = [doc EXCEPT !.notes = notes \ UNION {gone[u] : u \in to}]

\* notify: the notes are written, and what is pushed is read again.
Persist ==
  \E r \in reqs, now \in {clock, clock + 1} :
    /\ r.op = "persist"
    /\ LET to == Recipients(doc, r.to)
       IN \E gone \in [to -> SUBSET (doc.notes \cup NewNotes(to, now))] : Noted(to, now, gone)
    /\ clock' = now
    /\ \E top \in Users(doc) \cup {0} : (\A u \in Users(doc) : u <= top) /\ ids' = ids + top
    /\ reqs' = (reqs \ {r}) \cup {[op |-> "push", to |-> r.to]}
    /\ UNCHANGED <<browser, vapid, events, crashes>>

\* _ensure_vapid, for a request that needs the pair: there is one, ...
Whole == vapid.priv # None /\ vapid.priv = vapid.pub
Needs == {r \in reqs : r.op = "key" \/ (r.op = "push" /\ \E s \in doc.subs : s.user \in r.to)}

\* Defect: a pair is made whether there is one or not.
PublishAlways ==
  /\ vapid.by = None /\ vapid.keys < MaxKeys
  /\ \E r \in Needs : vapid' = [priv |-> vapid.keys + 1, pub |-> vapid.pub, keys |-> vapid.keys + 1, by |-> r]
  /\ UNCHANGED <<doc, reqs, browser, clock, ids, events, crashes>>

\* ... or there is none, and the private key is linked under the lock, ...
PublishPrivate ==
  /\ vapid.by = None /\ vapid.priv = None /\ vapid.pub = None /\ vapid.keys < MaxKeys
  /\ \E r \in Needs : vapid' = [vapid EXCEPT !.priv = vapid.keys + 1, !.keys = @ + 1, !.by = r]
  /\ UNCHANGED <<doc, reqs, browser, clock, ids, events, crashes>>

\* ... then the public one; if that fails the first is taken back, and the request fails.
PublishPublic ==
  /\ vapid.by # None
  /\ \/ vapid' = [vapid EXCEPT !.pub = vapid.priv, !.by = None] /\ UNCHANGED reqs
     \/ vapid' = [vapid EXCEPT !.priv = None, !.by = None] /\ reqs' = reqs \ {vapid.by}
  /\ UNCHANGED <<doc, browser, clock, ids, events, crashes>>

\* A pair that is not whole is an error, until someone restores it.
Incomplete ==
  /\ vapid.by = None /\ (vapid.priv # None \/ vapid.pub # None) /\ ~Whole
  /\ \E r \in Needs : reqs' = reqs \ {r}
  /\ UNCHANGED <<doc, browser, vapid, clock, ids, events, crashes>>

\* public_key
GiveKey ==
  /\ vapid.by = None /\ Whole
  /\ \E r \in reqs : r.op = "key" /\ browser' = [browser EXCEPT ![r.endpoint] = vapid.pub] /\ reqs' = reqs \ {r}
  /\ UNCHANGED <<doc, vapid, clock, ids, events, crashes>>

\* The messages go out; the push service reports endpoints that are gone.
Push ==
  /\ \E r \in reqs :
       /\ r.op = "push" /\ (r \in Needs => vapid.by = None /\ Whole)
       /\ \E dead \in SUBSET {s.endpoint : s \in {q \in doc.subs : q.user \in r.to}} :
            reqs' = (reqs \ {r}) \cup IF dead = {} THEN {} ELSE {[op |-> "prune", endpoints |-> dead]}
  /\ UNCHANGED <<doc, browser, vapid, clock, ids, events, crashes>>

Prune == On("prune", LAMBDA r : Removed(doc, r.endpoints)) /\ UNCHANGED ids

\* The process stops; the document and the files stay.
ProcessStops ==
  /\ crashes < MaxCrashes /\ reqs # {}
  /\ crashes' = crashes + 1 /\ reqs' = {} /\ vapid' = [vapid EXCEPT !.by = None]
  /\ UNCHANGED <<doc, browser, clock, ids, events>>

AccountsNext ==
  \/ Setup \/ Login \/ StoreSession \/ Authenticate \/ Expire \/ PresentExpired
  \/ CreateUser \/ DeleteUser \/ SetPassword \/ Logout \/ Own \/ Disown
  \/ Subscribe \/ Unsubscribe \/ MarkRead \/ Dismiss \/ MarkAllRead
  \/ News \/ Persist \/ PublishPrivate \/ PublishPublic \/ Incomplete \/ GiveKey \/ Push \/ Prune \/ ProcessStops

AccountsSpec == AccountsInit /\ [][AccountsNext]_accountsVars

----------------------------------------------------------------------------
\* Properties

\* Once the instance is set up it has an administrator: two that delete each other at the
\* same time, or a deletion while another account is made, do not leave it without one.
AdminRemains == Users(doc) # {} => Admins(doc) # {}

\* Every subscription works: it was made with the public key of the pair that signs now,
\* whatever crashed while the pair was published and whoever else asked for it.
SubscriptionsWork == \A s \in doc.subs : s.key = vapid.priv

\* A note nobody has read disappears only when its user has as many unread ones that are
\* not older as the limit allows.
UnreadIsKept ==
  [][\A n \in doc.notes :
       (n.status = "unread" /\ n.id \notin {m.id : m \in doc'.notes}) =>
         Cardinality({m \in doc'.notes : m.user = n.user /\ m.status = "unread" /\ m.at >= n.at}) >= MaxNotes]_accountsVars

\* Not so: a request accepted before its user is deleted may subscribe or create a device
\* afterwards, for an account that is gone.
DeletedOwnsNothing ==
  /\ doc.owners \subseteq Users(doc)
  /\ \A s \in doc.subs : s.user \in Users(doc)

\* Not so after a crash between the two files, for good: the pair is incomplete and
\* nothing completes it.
PairIsWhole == vapid.by = None => (vapid.priv = None <=> vapid.pub = None)

----------------------------------------------------------------------------
\* The inductive invariant of the proofs

\* An id is given once, and only a user creates users.
AccountsGrow ==
  /\ IsFiniteSet(Users(doc)) /\ \A u \in Users(doc) : u <= ids
  /\ \A r \in reqs : r.op = "create_user" => Users(doc) # {}

\* The key that browsers were given and subscriptions were made with is the public one,
\* once it is published, and then it is not changed.
KeysGiven ==
  /\ vapid.pub # None => vapid.pub = vapid.priv
  /\ vapid.by # None => vapid.pub = None
  /\ \A e \in Endpoints : browser[e] # None => browser[e] = vapid.pub
  /\ \A s \in doc.subs : s.key = vapid.pub /\ s.key # None
  /\ \A r \in reqs : r.op = "subscribe" => browser[r.endpoint] # None

AccountsInv == AccountsTypeOK /\ IsFiniteSet(doc.notes) /\ AccountsGrow /\ AdminRemains /\ KeysGiven
=============================================================================
