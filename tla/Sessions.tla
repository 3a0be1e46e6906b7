------------------------------ MODULE Sessions ------------------------------
(***************************************************************************)
(* Setting the panel up, logging in and out, and the table of attempts     *)
(* that limits logins (auth.rs, db.rs, the handlers setup, login, logout   *)
(* of app.rs).  A request gives way at every call of the database and      *)
(* while it waits for one of the slots for password hashing; its           *)
(* connection may drop there.  reset-admin is another process on the same  *)
(* database.                                                               *)
(***************************************************************************)
EXTENDS Integers, FiniteSets, Sequences, SequencesExt

CONSTANTS
  Browsers,        \* each has at most one request under way and one session
  Addresses,       \* of clients (IPv4, or the /64 of an IPv6 address)
  Proxy,           \* a trusted proxy
  Junk,            \* an entry of X-Forwarded-For that is no address
  Names,           \* of accounts
  MaxAttempts,     \* MAX_ATTEMPTS
  MaxNames,        \* MAX_USERNAMES_PER_BUCKET
  MaxKeys,         \* MAX_TRACKED_LOGIN_KEYS
  MaxHops,         \* MAX_FORWARDED_HOPS
  PasswordSlots,   \* hashing slots
  MaxAccounts,     \* bound on accounts ever created
  MaxLogins        \* bound on requests and restarts

ASSUME SessionsAssumption ==
  /\ {MaxAttempts, MaxNames, MaxKeys, MaxHops, PasswordSlots} \subseteq Nat \ {0}
  /\ IsFiniteSet(Browsers) /\ MaxAccounts \in Nat /\ MaxLogins \in Nat
  /\ Proxy \notin Addresses /\ Junk \notin Addresses \union {Proxy}

VARIABLES
  users,       \* rows: an id (given out again once the row is gone), a name, and which account
  sessions,    \* rows, one per browser: the id of the user; none, live or expired
  attempts,    \* the entries of the limiter by age, with the checks made on their account
  perAddress,  \* how many of them an address holds
  overdue,     \* how many of the oldest are outside their window
  login,       \* the request of each browser
  accounts,    \* how many accounts there ever were
  logins,      \* how many requests and restarts
  crossed      \* history: requests under way when the accounts were reset

sessionVars == <<users, sessions, attempts, perAddress, overdue, login, accounts, logins,
                 crossed>>

Sources == Addresses \union {Proxy}
KeysOfLogins == Sources \X Names
NoUser == [id |-> 0, name |-> "none", account |-> 0]
NoLogin == [pc |-> "idle", kind |-> "none", key |-> <<Proxy, "none">>, password |-> 0,
            user |-> NoUser, counted |-> FALSE]
NoSession == [user |-> 0, account |-> 0, live |-> FALSE]

\* client_ip: the entries are walked from the right up to the first untrusted one.
ClientIp(peer, forwarded) ==
  LET hops == Reverse(forwarded)
      untrusted == {i \in DOMAIN hops : hops[i] # Proxy}
      first == CHOOSE i \in untrusted : \A j \in untrusted : i <= j
  IN  IF peer # Proxy \/ hops = <<>> THEN peer
      ELSE IF untrusted = {} THEN IF Len(hops) > MaxHops THEN peer ELSE Proxy
      ELSE IF first > MaxHops \/ hops[first] = Junk THEN peer
      ELSE hops[first]

Forwarded == {<<>>} \union {<<a, b>> : a \in Sources \union {Junk}, b \in Sources \union {Junk}}
Clients == {ClientIp(peer, forwarded) : peer \in Sources, forwarded \in Forwarded}

---------------------------------------------------------------------------
(* The table of attempts.                                                  *)

EntriesOf(table, key) == {i \in DOMAIN table : table[i].key = key}
Held(table, address) == Cardinality({i \in DOMAIN table : table[i].key[1] = address})

\* prune: entries outside their window go, and the counts are made again.
LivePruned == SubSeq(attempts, overdue + 1, Len(attempts))
Recounted(counts, table) == IF table = attempts THEN counts
                            ELSE [a \in Sources |-> Held(table, a)]

\* remove: a key has one entry at most.
Without(table, key) ==
  IF EntriesOf(table, key) = {} THEN table
  ELSE RemoveAt(table, CHOOSE i \in EntriesOf(table, key) : TRUE)
\* Mutant: also for a key without an entry.
CountedOutAlways(counts, table, key) == [counts EXCEPT ![key[1]] = @ - 1]
CountedOut(counts, table, key) ==
  IF EntriesOf(table, key) = {} THEN counts ELSE [counts EXCEPT ![key[1]] = @ - 1]

\* History: what requests reserved is forgotten with the entry.
Forgetting(requests, table) ==
  [b \in Browsers |-> [requests[b] EXCEPT !.counted = @ /\ EntriesOf(table, requests[b].key) # {}]]

\* check and reserve, after a prune.
Exhausted(table, key) == \E i \in EntriesOf(table, key) : table[i].failures >= MaxAttempts
Refused(table, counts, key) ==
  Exhausted(table, key) \/ (EntriesOf(table, key) = {} /\ counts[key[1]] >= MaxNames)

\* Mutant: a known key counts no more.
ReservedOnce(table, key) ==
  IF EntriesOf(table, key) # {} THEN table
  ELSE Append(IF Len(table) >= MaxKeys THEN Tail(table) ELSE table,
              [key |-> key, failures |-> 1, checks |-> 0])

\* reserve: a known key counts one more, a new one may push out the oldest.
Reserved(table, key) ==
  IF EntriesOf(table, key) # {}
  THEN [i \in DOMAIN table |-> IF table[i].key = key THEN [table[i] EXCEPT !.failures = @ + 1]
                                                     ELSE table[i]]
  ELSE Append(IF Len(table) >= MaxKeys THEN Tail(table) ELSE table,
              [key |-> key, failures |-> 1, checks |-> 0])
ReservedCounts(table, counts, key) ==
  IF EntriesOf(table, key) # {} THEN counts
  ELSE LET kept == IF Len(table) >= MaxKeys THEN [counts EXCEPT ![Head(table).key[1]] = @ - 1]
                                            ELSE counts
       IN  [kept EXCEPT ![key[1]] = @ + 1]

Clear(key) ==
  /\ attempts' = Without(attempts, key)
  /\ perAddress' = CountedOut(perAddress, attempts, key)
  /\ overdue' = Cardinality({i \in 1 .. overdue : attempts[i].key # key})

---------------------------------------------------------------------------
SessionsInit ==
  /\ users = {} /\ sessions = [b \in Browsers |-> NoSession]
  /\ attempts = <<>> /\ perAddress = [a \in Sources |-> 0] /\ overdue = 0
  /\ login = [b \in Browsers |-> NoLogin]
  /\ accounts = 0 /\ logins = 0 /\ crossed = {}

Arrives(b) ==
  login[b].pc = "idle" /\ ~sessions[b].live /\ logins < MaxLogins /\ logins' = logins + 1
Proceeds(b, pc) == login' = [login EXCEPT ![b].pc = pc]
Finishes(b) == login' = [login EXCEPT ![b] = NoLogin] /\ crossed' = crossed \ {b}

\* setup: the limiter is looked at, then whether there is a user.
BeginSetup(b) ==
  /\ Arrives(b)
  /\ \E address \in Clients, name \in Names :
       LET key == <<address, name>>
       IN  /\ attempts' = LivePruned /\ overdue' = 0
           /\ perAddress' = Recounted(perAddress, LivePruned)
           /\ ~Exhausted(LivePruned, key) /\ users = {}
           /\ login' = [Forgetting(login, LivePruned) EXCEPT ![b] =
                [NoLogin EXCEPT !.pc = "slot", !.kind = "setup", !.key = key]]
  /\ UNCHANGED <<users, sessions, accounts, crossed>>

\* login: one attempt is taken before anything is looked up.
BeginLogin(b) ==
  /\ Arrives(b)
  /\ \E address \in Clients, name \in Names, password \in 0 .. accounts :
       LET key == <<address, name>>
           table == LivePruned
           counts == Recounted(perAddress, table)
       IN  /\ overdue' = 0
           /\ IF Refused(table, counts, key)
              THEN attempts' = table /\ perAddress' = counts /\ login' = Forgetting(login, table)
              ELSE /\ attempts' = Reserved(table, key)
                   /\ perAddress' = ReservedCounts(table, counts, key)
                   /\ login' = [Forgetting(Forgetting(login, table), attempts') EXCEPT ![b] =
                        [NoLogin EXCEPT !.pc = "find", !.kind = "login", !.key = key,
                                        !.password = password, !.counted = TRUE]]
  /\ UNCHANGED <<users, sessions, accounts, crossed>>

\* find_user, for a name that could be one.
FindUser(b) ==
  /\ login[b].pc = "find"
  /\ LET found == {u \in users : u.name = login[b].key[2]}
     IN  login' = [login EXCEPT ![b].pc = "slot",
                     ![b].user = IF found = {} THEN NoUser ELSE CHOOSE u \in found : TRUE]
  /\ UNCHANGED <<users, sessions, attempts, perAddress, overdue, accounts, logins, crossed>>

\* A hashing slot is held to the end of the request.
Holding == {b \in Browsers : login[b].pc \in {"hash", "create", "audit", "session"}}
TakeSlot(b) ==
  /\ login[b].pc = "slot" /\ Cardinality(Holding) < PasswordSlots
  /\ Proceeds(b, IF login[b].kind = "setup" THEN "create" ELSE "hash")
  /\ UNCHANGED <<users, sessions, attempts, perAddress, overdue, accounts, logins, crossed>>

\* verify_password, against a dummy where there is no user: right or wrong takes as long.
VerifyPassword(b) ==
  /\ login[b].pc = "hash"
  /\ LET right == login[b].user # NoUser /\ login[b].password = login[b].user.account
         checked == [i \in DOMAIN attempts |->
                       IF login[b].counted /\ attempts[i].key = login[b].key
                       THEN [attempts[i] EXCEPT !.checks = @ + 1] ELSE attempts[i]]
     IN  IF right
         THEN /\ Clear(login[b].key)
              /\ login' = [Forgetting(login, attempts') EXCEPT ![b].pc = "audit"]
              /\ UNCHANGED crossed
         ELSE attempts' = checked /\ Finishes(b) /\ UNCHANGED <<perAddress, overdue>>
  /\ UNCHANGED <<users, sessions, accounts, logins>>

\* Mutant: whether there is a user is not looked at again.
CreateAnyUser(b) ==
  /\ login[b].pc = "create" /\ accounts < MaxAccounts
  /\ accounts' = accounts + 1
  /\ LET user == [id |-> Cardinality(users) + 1, name |-> login[b].key[2], account |-> accounts + 1]
     IN  /\ users' = users \union {user}
         /\ login' = [login EXCEPT ![b].pc = "audit", ![b].user = user]
  /\ UNCHANGED <<sessions, attempts, perAddress, overdue, logins, crossed>>

\* create_first_user: looked at again in the transaction that adds the row.
CreateFirstUser(b) ==
  /\ login[b].pc = "create" /\ accounts < MaxAccounts
  /\ IF users = {}
     THEN LET user == [id |-> 1, name |-> login[b].key[2], account |-> accounts + 1]
          IN  /\ users' = {user} /\ accounts' = accounts + 1
              /\ Clear(login[b].key)
              /\ login' = [Forgetting(login, attempts') EXCEPT ![b].pc = "audit",
                                                               ![b].user = user]
              /\ crossed' = crossed \ {b}
     ELSE Finishes(b) /\ UNCHANGED <<users, accounts, attempts, perAddress, overdue>>
  /\ UNCHANGED <<sessions, logins>>

\* The audit event; a database error ends the request.
Audit(b) ==
  /\ login[b].pc = "audit" /\ Proceeds(b, "session")
  /\ UNCHANGED <<users, sessions, attempts, perAddress, overdue, accounts, logins, crossed>>

\* Mutant: the foreign key is not enforced.
CreateSessionUnchecked(b) ==
  /\ login[b].pc = "session"
  /\ sessions' = [sessions EXCEPT ![b] = [user |-> login[b].user.id,
                                          account |-> login[b].user.account, live |-> TRUE]]
  /\ Finishes(b)
  /\ UNCHANGED <<users, attempts, perAddress, overdue, accounts, logins>>

\* issue_session: the session of the user found or set up.
Issued(b) == [user |-> login[b].user.id, live |-> TRUE,
              account |-> IF b \in crossed THEN 0 ELSE login[b].user.account]

\* create_session: expired rows go, and the row must have its user.
CreateSession(b) ==
  /\ login[b].pc = "session"
  /\ LET kept == [s \in Browsers |-> IF sessions[s].live THEN sessions[s] ELSE NoSession]
     IN  IF \E u \in users : u.id = login[b].user.id
         THEN sessions' = [kept EXCEPT ![b] = Issued(b)] ELSE sessions' = kept
  /\ Finishes(b)
  /\ UNCHANGED <<users, attempts, perAddress, overdue, accounts, logins>>

---------------------------------------------------------------------------
\* The connection drops, or a call of the database fails, at an await.
DropLogin(b) ==
  /\ login[b].pc # "idle" /\ Finishes(b)
  /\ UNCHANGED <<users, sessions, attempts, perAddress, overdue, accounts, logins>>

\* find_session joins the user, and leaves out what has expired.
Authenticated(b) == sessions[b].live /\ \E u \in users : u.id = sessions[b].user

\* logout, with the session's CSRF token.
Logout(b) ==
  /\ Authenticated(b)
  /\ sessions' = [sessions EXCEPT ![b] = NoSession]
  /\ UNCHANGED <<users, attempts, perAddress, overdue, login, accounts, logins, crossed>>

SessionExpires(b) ==
  /\ sessions[b].live /\ sessions' = [sessions EXCEPT ![b].live = FALSE]
  /\ UNCHANGED <<users, attempts, perAddress, overdue, login, accounts, logins, crossed>>

WindowEnds ==
  /\ overdue < Len(attempts) /\ overdue' = overdue + 1
  /\ UNCHANGED <<users, sessions, attempts, perAddress, login, accounts, logins, crossed>>

\* reset_admins.
ResetAdmins ==
  /\ users # {} /\ users' = {} /\ sessions' = [b \in Browsers |-> NoSession]
  /\ crossed' = {b \in Browsers : login[b].pc # "idle"}
  /\ UNCHANGED <<attempts, perAddress, overdue, login, accounts, logins>>

\* The panel ends and starts again: the table of attempts is in memory.
RestartSessions ==
  /\ logins < MaxLogins /\ logins' = logins + 1
  /\ login' = [b \in Browsers |-> NoLogin] /\ crossed' = {}
  /\ attempts' = <<>> /\ perAddress' = [a \in Sources |-> 0] /\ overdue' = 0
  /\ UNCHANGED <<users, sessions, accounts>>

SessionsNext ==
  \/ \E b \in Browsers :
       \/ BeginSetup(b) \/ BeginLogin(b) \/ FindUser(b) \/ TakeSlot(b) \/ VerifyPassword(b)
       \/ CreateFirstUser(b) \/ Audit(b) \/ CreateSession(b) \/ DropLogin(b) \/ Logout(b)
       \/ SessionExpires(b)
  \/ WindowEnds \/ ResetAdmins \/ RestartSessions

SessionsSpec == SessionsInit /\ [][SessionsNext]_sessionVars

---------------------------------------------------------------------------
UserRow == [id : Nat, name : Names, account : 1 .. MaxAccounts]

SessionsTypeOK ==
  /\ users \subseteq UserRow
  /\ \A b \in Browsers :
       /\ sessions[b].live \in BOOLEAN /\ sessions[b].account \in 0 .. MaxAccounts
       /\ login[b].user \in UserRow \union {NoUser}
       /\ login[b].pc \in {"idle", "find", "slot", "hash", "create", "audit", "session"}
  /\ \A i \in DOMAIN attempts : attempts[i].key \in KeysOfLogins
  /\ perAddress \in [Sources -> 0 .. MaxNames]
  /\ overdue \in 0 .. Len(attempts) /\ crossed \subseteq Browsers
  /\ accounts \in 0 .. MaxAccounts /\ logins \in 0 .. MaxLogins

\* However many logins arrive together and wait for a hashing slot, the passwords checked
\* and still to be checked for one address and name since its entry appeared stay within
\* the attempts allowed (auth.rs:229), and the table's own counts are right through every
\* eviction, expiry and success: no address ends up with more or fewer names than it holds.
AttemptsStayBounded ==
  /\ SessionsTypeOK
  /\ \A i \in DOMAIN attempts :
       attempts[i].checks
         + Cardinality({b \in Browsers : login[b].counted /\ login[b].key = attempts[i].key})
       <= MaxAttempts
  /\ \A a \in Sources : perAddress[a] = Held(attempts, a) /\ perAddress[a] <= MaxNames
  /\ Len(attempts) <= MaxKeys

\* Two setups at once and a reset between any two steps leave at most one account, and a
\* session belongs to the account whose password was checked or which was just set up.
\* Left out are requests under way during a reset: ids are given out again.
SessionsAreEarned ==
  /\ Cardinality(users) <= 1
  /\ \A b \in Browsers : sessions[b].user # 0 =>
       \E u \in users : u.id = sessions[b].user /\ sessions[b].account \in {0, u.account}
=============================================================================
