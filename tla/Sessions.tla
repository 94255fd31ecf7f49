---- MODULE Sessions ----
(***************************************************************************)
(* Users, tokens and API keys: AuthService, CurrentUserService and         *)
(* ApiKeyService of auth/application/services.py over the two tables of    *)
(* postgres_repos.py and the claims of jwt/manager.py, with the routes     *)
(* that chain their calls.  A request runs one step per await.             *)
(*                                                                         *)
(* A user's id and a key's id are the request that created them; a hash    *)
(* is the text it verifies, and the text of a key is the key's id.         *)
(***************************************************************************)
EXTENDS Integers, FiniteSets

CONSTANTS Requests,    \* requests to the auth routes and services
          Spellings,   \* what users type as their names
          Normal,      \* [Spellings -> names]: strip, lower
          Passwords,
          Short,       \* passwords under MIN_PASSWORD_LEN
          AskedRoles,  \* roles a registration asks for
          Labels,      \* labels of API keys
          PrefixOf,    \* [Labels -> prefixes]: lower, ' ' to '-', up to the first '_'
          NoCommand,
          MaxMishaps   \* bound: calls that fail, answers and processes that get lost,
                       \* users disabled, tokens whose time is up

Names == {Normal[s] : s \in Spellings}
Prefixes == {PrefixOf[l] : l \in Labels}
Roles == {"viewer", "analyst"}

VARIABLES users,     \* table users
          keys,      \* table api_keys
          tokens,    \* the tokens issued
          expired,   \* those whose time is up
          cmd,       \* what each request asks
          stage,     \* the await each request is at
          answer,    \* what each request was answered
          mishaps,   \* mishaps so far
          before     \* history: what stood in the tables when a request arrived

tables == <<users, keys>>
vars == <<tables, tokens, expired, cmd, stage, answer, mishaps, before>>

User == [id : Requests, name : Names, password : Passwords, role : Roles, disabled : BOOLEAN]
Key == [id : Requests, user : Requests, prefix : Prefixes, revoked : BOOLEAN]

\* Only an access token carries a role.
AccessToken == [type : {"access"}, user : Requests, by : Requests, role : Roles]
RefreshToken == [type : {"refresh"}, user : Requests, by : Requests]
Token == AccessToken \cup RefreshToken

Registration == [op : {"register"}, name : Spellings, password : Passwords, role : AskedRoles]
Credentials == [op : {"login"}, name : Spellings, password : Passwords]
Presentation == [op : {"resolve", "refresh"}, token : Token]
KeyRequest == [op : {"create"}, token : Token, label : Labels]
KeyUse == [op : {"lookup", "revoke"}, key : Requests]
Command == Registration \cup Credentials \cup Presentation \cup KeyRequest \cup KeyUse

ASSUME SessionAssumption == NoCommand \notin Command /\ MaxMishaps \in Nat

Waiting == {"find", "save", "login", "user", "owner", "store", "key", "revoke", "commit"}
Answers == {"pending", "ok", "err", "nothing", "raised", "lost"}

Init ==
  /\ users = {} /\ keys = {}
  /\ tokens = {} /\ expired = {}
  /\ cmd = [r \in Requests |-> NoCommand]
  /\ stage = [r \in Requests |-> "new"]
  /\ answer = [r \in Requests |-> "pending"]
  /\ mishaps = 0
  /\ before = [r \in Requests |-> [disabled |-> {}, users |-> {}, revoked |-> {}]]

GoTo(r, s) == stage' = [stage EXCEPT ![r] = s] /\ UNCHANGED answer

Ends(r, a) ==
  /\ stage' = [stage EXCEPT ![r] = "done"]
  /\ answer' = [answer EXCEPT ![r] = a]

----------------------------------------------------------------------------
\* Tokens.

\* Slip: the role asked for is the role given.
RoleAsAsked(asked) == asked

\* The route knows two roles; whoever asks for another is a viewer.
Role(asked) == IF asked \in Roles THEN asked ELSE "viewer"

\* JwtTokenManager.issue: a pair of tokens.
Issue(r, u) ==
  tokens' = tokens \cup {[type |-> "access", user |-> u.id, by |-> r, role |-> u.role],
                         [type |-> "refresh", user |-> u.id, by |-> r]}

\* JwtTokenManager._verify: its time, its type and its claims, the role among them.
Verifies(t, expected) ==
  /\ t \notin expired
  /\ t.type = expected
  /\ "role" \in DOMAIN t

----------------------------------------------------------------------------
\* The steps of a request.

\* A request arrives and runs up to its first await.  Tokens were issued
\* before they are presented, and the text of a key was answered to its owner.
Arrive(r, c) ==
  /\ stage[r] = "new"
  /\ cmd' = [cmd EXCEPT ![r] = c]
  /\ before' = [before EXCEPT ![r] =
       [disabled |-> {u.id : u \in {u \in users : u.disabled}},
        users |-> {u.id : u \in users},
        revoked |-> {k.id : k \in {k \in keys : k.revoked}}]]
  /\ UNCHANGED <<tables, tokens, expired, mishaps>>

Register(r) == \E c \in Registration :
  /\ Arrive(r, c)
  /\ IF c.password \in Short THEN Ends(r, "err") ELSE GoTo(r, "find")

Credential(r) == \E c \in Credentials : Arrive(r, c) /\ GoTo(r, "login")

\* resolve and refresh, and the route that creates a key, first verify the token.
Present(r) == \E t \in tokens :
  \/ \E c \in {[op |-> "resolve", token |-> t]} \cup {[op |-> "create", token |-> t, label |-> l] : l \in Labels} :
       Arrive(r, c) /\ IF Verifies(t, "access") THEN GoTo(r, "user") ELSE Ends(r, "err")
  \/ /\ Arrive(r, [op |-> "refresh", token |-> t])
     /\ IF Verifies(t, "refresh") THEN GoTo(r, "user") ELSE Ends(r, "err")

UseKey(r) == \E k \in keys :
  /\ answer[k.id] = "ok"
  /\ \/ Arrive(r, [op |-> "lookup", key |-> k.id]) /\ GoTo(r, "key")
     \/ Arrive(r, [op |-> "revoke", key |-> k.id]) /\ GoTo(r, "revoke")

Named(n) == {u \in users : u.name = n}
Identified(i) == {u \in users : u.id = i}

\* AuthService.register: the name is free ...
FindsName(r) ==
  /\ stage[r] = "find"
  /\ IF Named(Normal[cmd[r].name]) # {} THEN Ends(r, "err") ELSE GoTo(r, "save")
  /\ UNCHANGED <<tables, tokens, expired, cmd, mishaps, before>>

\* ... and the user is inserted, unless the unique index refuses the row.
NewUser(r) == [id |-> r, name |-> Normal[cmd[r].name], password |-> cmd[r].password,
               role |-> Role(cmd[r].role), disabled |-> FALSE]

\* Slip: nothing but the primary key is unique.
UserInsertableById(u) == Identified(u.id) = {}

\* UserRow.username is unique.
UserInsertable(u) == Named(u.name) = {}

SaveUser(r) ==
  /\ stage[r] = "save"
  /\ \/ /\ UserInsertable(NewUser(r))
        /\ users' = users \cup {NewUser(r)}
        /\ GoTo(r, "login")
     \/ /\ ~UserInsertable(NewUser(r))
        /\ Ends(r, "raised") /\ UNCHANGED users
  /\ UNCHANGED <<keys, tokens, expired, cmd, mishaps, before>>

\* UserRepository.get_by_username, and what AuthService.login makes of the row.
Admits(u, password) == u.password = password /\ ~u.disabled

LogIn(r) ==
  /\ stage[r] = "login"
  /\ LET found == Named(Normal[cmd[r].name])
     IN \/ found = {} /\ Ends(r, "err") /\ UNCHANGED tokens
        \/ \E u \in found : IF Admits(u, cmd[r].password)
                              THEN Issue(r, u) /\ Ends(r, "ok")
                              ELSE Ends(r, "err") /\ UNCHANGED tokens
  /\ UNCHANGED <<tables, expired, cmd, mishaps, before>>

\* Slip: whom a token names need only exist.
EnabledIfFound(found) == found # {}

Enabled(found) == \E u \in found : ~u.disabled

\* CurrentUserService.resolve and AuthService.refresh read the token's user.
ReadUser(r) ==
  /\ stage[r] = "user"
  /\ LET found == Identified(cmd[r].token.user)
     IN /\ IF ~Enabled(found) THEN Ends(r, "err")
           ELSE IF cmd[r].op = "create" THEN GoTo(r, "owner")
           ELSE Ends(r, "ok")
        /\ IF Enabled(found) /\ cmd[r].op = "refresh"
             THEN \E u \in found : Issue(r, u)
             ELSE UNCHANGED tokens
  /\ UNCHANGED <<tables, expired, cmd, mishaps, before>>

\* ApiKeyService.create reads the user once more and does not ask if disabled.
ReadOwner(r) ==
  /\ stage[r] = "owner"
  /\ IF Identified(cmd[r].token.user) = {} THEN Ends(r, "err") ELSE GoTo(r, "store")
  /\ UNCHANGED <<tables, tokens, expired, cmd, mishaps, before>>

NewKey(r) == [id |-> r, user |-> cmd[r].token.user, prefix |-> PrefixOf[cmd[r].label], revoked |-> FALSE]

\* Slip: keys may share a prefix.
KeyInsertableById(k) == \A j \in keys : j.id # k.id

\* ApiKeyRow.key_prefix is unique, among revoked keys too.
KeyInsertable(k) == \A j \in keys : j.prefix # k.prefix

StoreKey(r) ==
  /\ stage[r] = "store"
  /\ \/ KeyInsertable(NewKey(r)) /\ keys' = keys \cup {NewKey(r)} /\ Ends(r, "ok")
     \/ ~KeyInsertable(NewKey(r)) /\ Ends(r, "raised") /\ UNCHANGED keys
  /\ UNCHANGED <<users, tokens, expired, cmd, mishaps, before>>

\* ApiKeyService.lookup: the row with the prefix of the text, not revoked, and
\* its hash verifies the text.
Accepts(k, text) == ~k.revoked /\ k.id = text

FindKey(r) ==
  /\ stage[r] = "key"
  /\ LET text == cmd[r].key
         found == {k \in keys : k.prefix = PrefixOf[cmd[text].label]}
     IN \/ found = {} /\ Ends(r, "nothing")
        \/ \E k \in found : Ends(r, IF Accepts(k, text) THEN "ok" ELSE "nothing")
  /\ UNCHANGED <<tables, tokens, expired, cmd, mishaps, before>>

\* ApiKeyRepository.revoke: the row is loaded ...
LoadKey(r) ==
  /\ stage[r] = "revoke"
  /\ IF \E k \in keys : k.id = cmd[r].key THEN GoTo(r, "commit") ELSE Ends(r, "ok")
  /\ UNCHANGED <<tables, tokens, expired, cmd, mishaps, before>>

\* ... and its flag committed.
Revoked(i) == {IF k.id = i THEN [k EXCEPT !.revoked = TRUE] ELSE k : k \in keys}

CommitKey(r) ==
  /\ stage[r] = "commit"
  /\ keys' = Revoked(cmd[r].key)
  /\ Ends(r, "ok")
  /\ UNCHANGED <<users, tokens, expired, cmd, mishaps, before>>

Serve(r) ==
  \/ FindsName(r) \/ SaveUser(r) \/ LogIn(r)
  \/ ReadUser(r) \/ ReadOwner(r) \/ StoreKey(r)
  \/ FindKey(r) \/ LoadKey(r) \/ CommitKey(r)

----------------------------------------------------------------------------
\* Failures, and what others do.

\* The call of the store raises without effect ...
CallFails(r) ==
  /\ stage[r] \in Waiting /\ mishaps < MaxMishaps
  /\ mishaps' = mishaps + 1
  /\ Ends(r, "raised")
  /\ UNCHANGED <<tables, tokens, expired, cmd, before>>

\* ... or after it took effect.
AnswerLost(r) ==
  /\ mishaps < MaxMishaps
  /\ mishaps' = mishaps + 1
  /\ Ends(r, "raised")
  /\ \/ stage[r] = "save" /\ UserInsertable(NewUser(r)) /\ users' = users \cup {NewUser(r)} /\ UNCHANGED keys
     \/ stage[r] = "store" /\ KeyInsertable(NewKey(r)) /\ keys' = keys \cup {NewKey(r)} /\ UNCHANGED users
     \/ stage[r] = "commit" /\ keys' = Revoked(cmd[r].key) /\ UNCHANGED users
  /\ UNCHANGED <<tokens, expired, cmd, before>>

\* The process stops: the requests under way are never answered.
Crash ==
  /\ mishaps < MaxMishaps
  /\ mishaps' = mishaps + 1
  /\ \E r \in Requests : stage[r] \in Waiting
  /\ stage' = [r \in Requests |-> IF stage[r] \in Waiting THEN "done" ELSE stage[r]]
  /\ answer' = [r \in Requests |-> IF stage[r] \in Waiting THEN "lost" ELSE answer[r]]
  /\ UNCHANGED <<tables, tokens, expired, cmd, before>>

\* An operator sets users.disabled; no code of the repository does.
Disable(u) ==
  /\ ~u.disabled /\ mishaps < MaxMishaps
  /\ mishaps' = mishaps + 1
  /\ users' = (users \ {u}) \cup {[u EXCEPT !.disabled = TRUE]}
  /\ UNCHANGED <<keys, tokens, expired, cmd, stage, answer, before>>

\* An access token's time is up before that of its refresh token.
Expire(t) ==
  /\ t \notin expired /\ mishaps < MaxMishaps
  /\ mishaps' = mishaps + 1
  /\ t.type = "refresh" => \A a \in tokens : a.type = "access" /\ a.by = t.by => a \in expired
  /\ expired' = expired \cup {t}
  /\ UNCHANGED <<tables, tokens, cmd, stage, answer, before>>

Next ==
  \/ \E r \in Requests : \/ Register(r) \/ Credential(r) \/ Present(r) \/ UseKey(r)
                         \/ Serve(r) \/ CallFails(r) \/ AnswerLost(r)
  \/ Crash
  \/ \E u \in users : Disable(u)
  \/ \E t \in tokens : Expire(t)

Spec == Init /\ [][Next]_vars

----------------------------------------------------------------------------
\* Every variable has its type.
TypeOK ==
  /\ users \in SUBSET User /\ keys \in SUBSET Key
  /\ tokens \in SUBSET Token /\ expired \in SUBSET tokens
  /\ cmd \in [Requests -> Command \cup {NoCommand}]
  /\ stage \in [Requests -> Waiting \cup {"new", "done"}]
  /\ answer \in [Requests -> Answers]
  /\ mishaps \in 0 .. MaxMishaps
  /\ before \in [Requests -> [disabled : SUBSET Requests, users : SUBSET Requests, revoked : SUBSET Requests]]

\* Who has registered (register committed its row) is never told afterwards that the name and
\* the password are wrong, under any spelling of the name and however many
\* registrations of it collide, unless an operator has disabled the user.
RegistrantsCanLogIn ==
  \A r, q \in Requests :
    /\ cmd[r] # NoCommand /\ q \in before[r].users
    /\ cmd[r].op = "login" /\ answer[r] = "err"
    /\ Normal[cmd[q].name] = Normal[cmd[r].name] /\ cmd[q].password = cmd[r].password
    => \E u \in users : u.id = q /\ u.disabled

\* Whom a request speaks for: the user it logged in, or the user of its token.
Subjects(r) ==
  IF cmd[r] = NoCommand \/ cmd[r].op \in {"lookup", "revoke"} THEN {}
  ELSE IF cmd[r].op \in {"register", "login"} THEN {t.user : t \in {t \in tokens : t.by = r}}
  ELSE {cmd[r].token.user}

\* A user disabled before a request arrived gets nothing by it, neither a new
\* pair of tokens nor, by a token issued earlier, an identity or an API key.
DisabledAreRefused ==
  \A r \in Requests : answer[r] = "ok" => Subjects(r) \cap before[r].disabled = {}

\* An API key whose text was answered is found by that text, whatever keys are
\* created beside it, until it is revoked; and never once its revocation was
\* committed before the lookup began.
KeysWorkUntilRevoked ==
  \A r \in Requests :
    cmd[r] # NoCommand /\ cmd[r].op = "lookup" =>
      /\ answer[r] = "ok" => cmd[r].key \notin before[r].revoked
      /\ answer[r] = "nothing" => \E k \in keys : k.id = cmd[r].key /\ k.revoked
====
