---- MODULE Sessions_proofs ----
(***************************************************************************)
(* Users, tokens and keys for any number of requests and mishaps.  The     *)
(* frame lemmas say what a step may do to requests, rows and tokens; each  *)
(* part of the invariant follows from them.                                *)
(***************************************************************************)
EXTENDS Sessions, TLAPS

\* Where a request is goes with what it asks.
Placed(r) ==
  /\ stage[r] = "new" <=> cmd[r] = NoCommand
  /\ answer[r] = "pending" <=> stage[r] # "done"
  /\ stage[r] \in {"find", "save"} => cmd[r] \in Registration
  /\ stage[r] = "login" => cmd[r] \in Registration \cup Credentials
  /\ stage[r] = "user" => cmd[r] \in Presentation \cup KeyRequest
  /\ stage[r] \in {"owner", "store"} => cmd[r] \in KeyRequest
  /\ stage[r] \in {"key", "revoke", "commit"} => cmd[r] \in KeyUse
  /\ stage[r] = "key" => cmd[r].op = "lookup"
  /\ stage[r] \in {"revoke", "commit"} => cmd[r].op = "revoke"
  /\ cmd[r] # NoCommand /\ cmd[r].op = "refresh" => stage[r] = "done" /\ answer[r] = "err"

Progress == \A r \in Requests : Placed(r)

\* A row of users is what its registration asked for, and no other row has its id or name.
UserRows ==
  /\ \A u \in users : /\ stage[u.id] \notin {"new", "find", "save"}
                      /\ cmd[u.id] \in Registration
                      /\ u.name = Normal[cmd[u.id].name] /\ u.password = cmd[u.id].password
  /\ \A u, v \in users : u.id = v.id \/ u.name = v.name => u = v

\* The like of api_keys.
KeyRows ==
  /\ \A k \in keys : /\ stage[k.id] = "done" /\ cmd[k.id] \in KeyRequest
                     /\ k.prefix = PrefixOf[cmd[k.id].label]
  /\ \A j, k \in keys : j.id = k.id \/ j.prefix = k.prefix => j = k

\* What stood in the tables when a request arrived still stands.
Past ==
  \A r \in Requests :
    /\ \A i \in before[r].users : \E u \in users : u.id = i
    /\ \A i \in before[r].disabled : \E u \in users : u.id = i /\ u.disabled
    /\ \A i \in before[r].revoked : \E k \in keys : k.id = i /\ k.revoked
    /\ cmd[r] \in KeyUse => \E k \in keys : k.id = cmd[r].key

\* Whoever got past the check of the user was not disabled before the request arrived.
Checked ==
  /\ \A t \in tokens : stage[t.by] = "done" /\ t.user \notin before[t.by].disabled
  /\ \A r \in Requests :
       cmd[r] \in Presentation \cup KeyRequest /\ (stage[r] \in {"owner", "store"} \/ answer[r] = "ok")
         => cmd[r].token.user \notin before[r].disabled

IInv == TypeOK /\ Progress /\ UserRows /\ KeyRows /\ Past /\ Checked /\ RegistrantsCanLogIn /\ KeysWorkUntilRevoked

----------------------------------------------------------------------------
\* Frames.

\* A command is one thing.
LEMMA Commands ==
  /\ \A c \in Registration : c.op = "register" /\ c.name \in Spellings /\ c.password \in Passwords
  /\ \A c \in Credentials : c.op = "login" /\ c.name \in Spellings /\ c.password \in Passwords
  /\ \A c \in Presentation : c.op \in {"resolve", "refresh"} /\ c.token \in Token
  /\ \A c \in KeyRequest : c.op = "create" /\ c.token \in Token /\ c.label \in Labels
  /\ \A c \in KeyUse : c.op \in {"lookup", "revoke"} /\ c.key \in Requests
  /\ \A t \in Token : t.user \in Requests /\ t.by \in Requests
BY DEF Registration, Credentials, Presentation, KeyRequest, KeyUse, Token, AccessToken, RefreshToken

\* A step of a request moves that request alone, on from where it waits, and
\* to the place its command has next.
Step(r) ==
  /\ stage[r] \in Waiting
  /\ cmd' = cmd /\ before' = before
  /\ \E s \in (Waiting \ {"find"}) \cup {"done"}, a \in Answers :
       /\ stage' = [stage EXCEPT ![r] = s] /\ answer' = [answer EXCEPT ![r] = a]
       /\ a = "pending" <=> s # "done"
       /\ s # "save" \/ stage[r] = "find"
       /\ s = "login" => stage[r] = "save"
       /\ s = "owner" => stage[r] = "user" /\ cmd[r].op = "create"
       /\ s = "store" => stage[r] = "owner"
       /\ s = "commit" => stage[r] = "revoke"
       /\ s \notin {"user", "key", "revoke"}

\* Whatever a request under way does is a step of it.
LEMMA SomeStep ==
  ASSUME NEW r \in Requests, TypeOK, Progress
  PROVE  Serve(r) \/ CallFails(r) \/ AnswerLost(r) => Step(r)
<1> USE DEF TypeOK, Waiting, Answers
<1>0. ASSUME stage[r] \in Waiting, cmd' = cmd, before' = before,
             NEW s \in (Waiting \ {"find", "user", "key", "revoke"}), GoTo(r, s),
             s # "save" \/ stage[r] = "find",
             s = "login" => stage[r] = "save",
             s = "owner" => stage[r] = "user" /\ cmd[r].op = "create",
             s = "store" => stage[r] = "owner",
             s = "commit" => stage[r] = "revoke"
      PROVE  Step(r)
  <2>1. answer' = [answer EXCEPT ![r] = "pending"]
    BY <1>0 DEF GoTo, Progress, Placed
  <2> QED BY <1>0, <2>1 DEF GoTo, Step
<1>1. ASSUME stage[r] \in Waiting, cmd' = cmd, before' = before,
             NEW a \in Answers \ {"pending"}, Ends(r, a)
      PROVE  Step(r)
  <2> DEFINE s == "done"
  <2>1. s \in (Waiting \ {"find"}) \cup {"done"} /\ a \in Answers /\ a # "pending" /\ s \notin Waiting
    OBVIOUS
  <2>2. stage' = [stage EXCEPT ![r] = s] /\ answer' = [answer EXCEPT ![r] = a]
    BY <1>1 DEF Ends
  <2>3. s = "done"
    OBVIOUS
  <2> HIDE DEF s
  <2> QED BY <1>1, <2>1, <2>2, <2>3 DEF Step
<1>2. CASE FindsName(r)
  BY <1>0, <1>1, <1>2 DEF FindsName
<1>3. CASE SaveUser(r)
  <2>1. CASE GoTo(r, "login")
    BY <1>0, <1>3, <2>1 DEF SaveUser
  <2>2. CASE Ends(r, "raised")
    BY <1>1, <1>3, <2>2 DEF SaveUser
  <2> QED BY <1>3, <2>1, <2>2 DEF SaveUser
<1>4. CASE LogIn(r)
  BY <1>1, <1>4 DEF LogIn
<1>5. CASE ReadUser(r)
  BY <1>0, <1>1, <1>5 DEF ReadUser
<1>6. CASE ReadOwner(r)
  BY <1>0, <1>1, <1>6 DEF ReadOwner
<1>7. CASE StoreKey(r)
  BY <1>1, <1>7 DEF StoreKey
<1>8. CASE FindKey(r)
  BY <1>1, <1>8 DEF FindKey
<1>9. CASE LoadKey(r)
  BY <1>0, <1>1, <1>9 DEF LoadKey
<1>10. CASE CommitKey(r)
  BY <1>1, <1>10 DEF CommitKey
<1>11. CASE CallFails(r)
  BY <1>1, <1>11 DEF CallFails
<1>12. CASE AnswerLost(r)
  BY <1>1, <1>12 DEF AnswerLost
<1> QED BY <1>2, <1>3, <1>4, <1>5, <1>6, <1>7, <1>8, <1>9, <1>10, <1>11, <1>12 DEF Serve

\* A request arrives with a command of its kind, and finds the tables as they are.
Arrival(r) ==
  /\ stage[r] = "new" /\ UNCHANGED <<tables, tokens>>
  /\ \E c \in Command, s \in {"find", "login", "user", "key", "revoke", "done"}, a \in Answers :
       /\ cmd' = [cmd EXCEPT ![r] = c]
       /\ stage' = [stage EXCEPT ![r] = s] /\ answer' = [answer EXCEPT ![r] = a]
       /\ a \in {"pending", "err"} /\ (a = "pending" <=> s # "done")
       /\ s = "find" => c \in Registration
       /\ s = "login" => c \in Credentials
       /\ s = "user" => c \in Presentation \cup KeyRequest
       /\ s \in {"key", "revoke"} => c \in KeyUse
       /\ c \in KeyUse => \E k \in keys : k.id = c.key
       /\ s = "key" => c.op = "lookup"
       /\ s = "revoke" => c.op = "revoke"
       /\ c \in Registration => s # "login"
       /\ c \in Credentials => s = "login"
       /\ c \in KeyUse => s \in {"key", "revoke"}
       /\ c.op = "refresh" => s = "done"
  /\ before' = [before EXCEPT ![r] =
       [disabled |-> {u.id : u \in {u \in users : u.disabled}},
        users |-> {u.id : u \in users},
        revoked |-> {k.id : k \in {k \in keys : k.revoked}}]]

\* Whatever starts a request is an arrival of it.
LEMMA SomeArrival ==
  ASSUME NEW r \in Requests, TypeOK, Progress
  PROVE  Register(r) \/ Credential(r) \/ Present(r) \/ UseKey(r) => Arrival(r)
<1> USE DEF Answers
<1>0. ASSUME NEW c \in Command, Arrive(r, c), NEW s \in {"find", "login", "user", "key", "revoke"}, GoTo(r, s),
             s = "find" => c \in Registration,
             s = "login" => c \in Credentials,
             s = "user" => c \in Presentation \cup KeyRequest,
             s \in {"key", "revoke"} => c \in KeyUse,
             c \in KeyUse => s \in {"key", "revoke"} /\ \E k \in keys : k.id = c.key,
             s = "key" => c.op = "lookup",
             s = "revoke" => c.op = "revoke",
             c \in Registration => s # "login",
             c \in Credentials => s = "login",
             c.op # "refresh"
      PROVE  Arrival(r)
  <2>1. answer' = [answer EXCEPT ![r] = "pending"]
    BY <1>0 DEF GoTo, Arrive, Progress, Placed, TypeOK
  <2> QED BY <1>0, <2>1 DEF GoTo, Arrive, Arrival, tables
<1>1. ASSUME NEW c \in Registration \cup Presentation \cup KeyRequest, Arrive(r, c), Ends(r, "err")
      PROVE  Arrival(r)
  <2>1. c \in Command /\ c \notin Credentials /\ c \notin KeyUse
    BY Commands DEF Command
  <2> QED BY <1>1, <2>1 DEF Ends, Arrive, Arrival, tables
<1>2. CASE Register(r)
  <2> PICK c \in Registration : Arrive(r, c) /\ IF c.password \in Short THEN Ends(r, "err") ELSE GoTo(r, "find")
    BY <1>2 DEF Register
  <2>1. c \in Command /\ c \notin KeyUse /\ c \notin Credentials /\ c.op # "refresh"
    BY Commands DEF Command
  <2> QED BY <1>0, <1>1, <2>1
<1>3. CASE Credential(r)
  <2> PICK c \in Credentials : Arrive(r, c) /\ GoTo(r, "login")
    BY <1>3 DEF Credential
  <2>1. c \in Command /\ c \notin KeyUse /\ c \notin Registration /\ c.op # "refresh"
    BY Commands DEF Command
  <2> QED BY <1>0, <2>1
<1>4. CASE Present(r)
  <2>1. PICK t \in tokens, c \in Presentation \cup KeyRequest :
          Arrive(r, c) /\ ((GoTo(r, "user") /\ c.op # "refresh") \/ Ends(r, "err"))
    <3> PICK t \in tokens :
          \/ \E c \in {[op |-> "resolve", token |-> t]} \cup {[op |-> "create", token |-> t, label |-> l] : l \in Labels} :
               Arrive(r, c) /\ IF Verifies(t, "access") THEN GoTo(r, "user") ELSE Ends(r, "err")
          \/ /\ Arrive(r, [op |-> "refresh", token |-> t])
             /\ IF Verifies(t, "refresh") THEN GoTo(r, "user") ELSE Ends(r, "err")
      BY <1>4 DEF Present
    <3>1. t \in Token
      BY DEF TypeOK
    <3>2. /\ [op |-> "resolve", token |-> t] \in Presentation
          /\ [op |-> "refresh", token |-> t] \in Presentation
          /\ \A l \in Labels : [op |-> "create", token |-> t, label |-> l] \in KeyRequest
      BY <3>1 DEF Presentation, KeyRequest
    <3>3. ~Verifies(t, "refresh")
      BY <3>1 DEF Verifies, Token, AccessToken, RefreshToken
    <3>4. CASE Arrive(r, [op |-> "refresh", token |-> t]) /\ Ends(r, "err")
      BY <3>2, <3>4
    <3>5. ASSUME NEW c \in {[op |-> "resolve", token |-> t]} \cup {[op |-> "create", token |-> t, label |-> l] : l \in Labels},
                 Arrive(r, c), GoTo(r, "user") \/ Ends(r, "err")
          PROVE  \E d \in Presentation \cup KeyRequest :
                   Arrive(r, d) /\ ((GoTo(r, "user") /\ d.op # "refresh") \/ Ends(r, "err"))
      <4>1. c \in Presentation \cup KeyRequest /\ c.op # "refresh"
        BY <3>2
      <4> QED BY <3>5, <4>1
    <3> QED BY <3>3, <3>4, <3>5
  <2>2. c \in Command /\ c \notin KeyUse /\ c \notin Registration /\ c \notin Credentials
    BY Commands DEF Command
  <2>3. c \in Presentation \/ c \in KeyRequest
    OBVIOUS
  <2>4. CASE Ends(r, "err")
    BY <1>1, <2>1, <2>4
  <2>5. CASE GoTo(r, "user") /\ c.op # "refresh"
    BY <1>0, <2>1, <2>2, <2>3, <2>5
  <2> QED BY <2>1, <2>4, <2>5
<1>5. CASE UseKey(r)
  <2> PICK k \in keys :
        \/ Arrive(r, [op |-> "lookup", key |-> k.id]) /\ GoTo(r, "key")
        \/ Arrive(r, [op |-> "revoke", key |-> k.id]) /\ GoTo(r, "revoke")
    BY <1>5 DEF UseKey
  <2> DEFINE look == [op |-> "lookup", key |-> k.id]
             revoke == [op |-> "revoke", key |-> k.id]
  <2>1. k.id \in Requests
    BY DEF TypeOK, Key
  <2>2. look \in KeyUse /\ revoke \in KeyUse /\ look.op = "lookup" /\ revoke.op = "revoke"
        /\ look.key = k.id /\ revoke.key = k.id /\ look.op # "refresh" /\ revoke.op # "refresh"
    BY <2>1 DEF KeyUse
  <2>3. look \in Command /\ revoke \in Command /\ look \notin Registration /\ revoke \notin Registration
        /\ look \notin Credentials /\ revoke \notin Credentials
    BY <2>2, Commands DEF Command
  <2>4. \/ Arrive(r, look) /\ GoTo(r, "key")
        \/ Arrive(r, revoke) /\ GoTo(r, "revoke")
    OBVIOUS
  <2> HIDE DEF look, revoke
  <2>5. CASE Arrive(r, look) /\ GoTo(r, "key")
    BY <1>0, <2>2, <2>3, <2>5
  <2>6. CASE Arrive(r, revoke) /\ GoTo(r, "revoke")
    BY <1>0, <2>2, <2>3, <2>6
  <2> QED BY <2>4, <2>5, <2>6
<1> QED BY <1>2, <1>3, <1>4, <1>5

\* The environment: no request moves on but those of a process that stops.
Outside ==
  /\ cmd' = cmd /\ before' = before /\ keys' = keys /\ tokens' = tokens
  /\ \/ users' = users
     \/ \E u \in users : users' = (users \ {u}) \cup {[u EXCEPT !.disabled = TRUE]} /\ UNCHANGED stage
  /\ \/ /\ stage' = [r \in Requests |-> IF stage[r] \in Waiting THEN "done" ELSE stage[r]]
        /\ answer' = [r \in Requests |-> IF stage[r] \in Waiting THEN "lost" ELSE answer[r]]
     \/ UNCHANGED <<stage, answer>>

\* A step of the service is a step of one request, an arrival, or one that others take.
LEMMA Steps ==
  ASSUME TypeOK, Progress, [Next]_vars
  PROVE  \/ \E r \in Requests : Step(r) /\ (Serve(r) \/ CallFails(r) \/ AnswerLost(r))
         \/ \E r \in Requests : Arrival(r)
         \/ Outside
<1>1. CASE \E r \in Requests : Register(r) \/ Credential(r) \/ Present(r) \/ UseKey(r)
  BY <1>1, SomeArrival
<1>2. CASE \E r \in Requests : Serve(r) \/ CallFails(r) \/ AnswerLost(r)
  BY <1>2, SomeStep
<1>3. CASE Crash
  BY <1>3 DEF Crash, Outside, tables
<1>4. CASE (\E u \in users : Disable(u)) \/ (\E t \in tokens : Expire(t)) \/ UNCHANGED vars
  BY <1>4 DEF Disable, Expire, vars, tables, Outside
<1> QED BY <1>1, <1>2, <1>3, <1>4 DEF Next

\* A request that has arrived keeps what it asked, does not register twice, and ends once.
Goes(r) ==
  /\ stage[r] # "new" => cmd'[r] = cmd[r] /\ before'[r] = before[r] /\ stage'[r] # "new"
  /\ stage[r] \notin {"new", "find", "save"} => stage'[r] \notin {"new", "find", "save"}
  /\ stage[r] = "done" => stage'[r] = "done" /\ answer'[r] = answer[r]

\* A request only goes on: no step takes it back.
LEMMA Onward ==
  ASSUME TypeOK, Progress, [Next]_vars
  PROVE  \A r \in Requests : Goes(r)
<1> USE DEF TypeOK
<1> SUFFICES ASSUME NEW r \in Requests PROVE Goes(r)
  OBVIOUS
<1>1. ASSUME NEW q \in Requests, Step(q) PROVE Goes(r)
  BY <1>1 DEF Step, Waiting, Goes
<1>2. ASSUME NEW q \in Requests, Arrival(q) PROVE Goes(r)
  BY <1>2 DEF Arrival, Goes
<1>3. CASE Outside
  BY <1>3 DEF Outside, Waiting, Goes
<1> QED BY <1>1, <1>2, <1>3, Steps

\* Rows stay; a flag that is set stays set.
RowsStay ==
  /\ \A u \in users : \E v \in users' : /\ v.id = u.id /\ v.name = u.name /\ v.password = u.password
                                        /\ u.disabled => v.disabled
  /\ \A k \in keys : \E j \in keys' : j.id = k.id /\ (k.revoked => j.revoked)

\* Where rows come from: a registration under way, an operator's flag ...
UserChange ==
  \/ users' = users
  \/ \E r \in Requests : /\ stage[r] = "save" /\ stage'[r] \in {"login", "done"} /\ UserInsertable(NewUser(r))
                         /\ users' = users \cup {NewUser(r)}
  \/ \E u \in users : users' = (users \ {u}) \cup {[u EXCEPT !.disabled = TRUE]} /\ UNCHANGED <<stage, cmd>>

\* ... the creation of a key, a revocation ...
KeyChange ==
  \/ keys' = keys
  \/ \E r \in Requests : /\ stage[r] = "store" /\ stage'[r] = "done" /\ KeyInsertable(NewKey(r))
                         /\ keys' = keys \cup {NewKey(r)}
  \/ \E i \in Requests : keys' = Revoked(i)

\* ... and tokens from the check of a user.
TokenChange ==
  \/ tokens' = tokens
  \/ \E r \in Requests, u \in users :
       stage[r] \in Waiting /\ stage'[r] = "done" /\ ~u.disabled /\ Issue(r, u)

\* Rows and tokens come from the steps that insert, change or issue them.
LEMMA RowSources ==
  ASSUME TypeOK, Progress, UserRows, [Next]_vars
  PROVE  UserChange /\ KeyChange /\ TokenChange
<1> USE DEF TypeOK
<1>1. ASSUME NEW r \in Requests, Arrival(r) PROVE UserChange /\ KeyChange /\ TokenChange
  BY <1>1 DEF Arrival, tables, UserChange, KeyChange, TokenChange
<1>2. CASE Outside
  BY <1>2 DEF Outside, UserChange, KeyChange, TokenChange
<1>3. ASSUME NEW r \in Requests, Step(r), Serve(r) \/ CallFails(r) \/ AnswerLost(r)
      PROVE  UserChange /\ KeyChange /\ TokenChange
  <2>1. CASE SaveUser(r)
    BY <1>3, <2>1 DEF SaveUser, GoTo, Ends, UserChange, KeyChange, TokenChange
  <2>2. CASE LogIn(r)
    <3>1. UserChange /\ KeyChange
      BY <2>2 DEF LogIn, tables, UserChange, KeyChange
    <3>2. TokenChange
      BY <2>2 DEF LogIn, Named, Admits, Ends, TokenChange, Waiting
    <3> QED BY <3>1, <3>2
  <2>3. CASE ReadUser(r)
    <3>1. UserChange /\ KeyChange
      BY <2>3 DEF ReadUser, tables, UserChange, KeyChange
    <3>2. TokenChange
      <4> DEFINE found == Identified(cmd[r].token.user)
      <4>1. CASE Enabled(found) /\ cmd[r].op = "refresh"
        <5>1. PICK u \in found : Issue(r, u)
          BY <2>3, <4>1 DEF ReadUser
        <5>2. u \in users /\ ~u.disabled
          BY <4>1 DEF UserRows, Identified, Enabled
        <5>3. stage[r] \in Waiting /\ stage'[r] = "done"
          BY <2>3, <4>1 DEF ReadUser, Ends, Waiting
        <5> QED BY <5>1, <5>2, <5>3 DEF TokenChange
      <4>2. CASE ~(Enabled(found) /\ cmd[r].op = "refresh")
        BY <2>3, <4>2 DEF ReadUser, TokenChange
      <4> QED BY <4>1, <4>2
    <3> QED BY <3>1, <3>2
  <2>4. CASE StoreKey(r)
    BY <1>3, <2>4 DEF StoreKey, Ends, UserChange, KeyChange, TokenChange
  <2>5. CASE CommitKey(r)
    <3>1. cmd[r].key \in Requests
      BY <2>5, Commands DEF CommitKey, Progress, Placed
    <3> QED BY <2>5, <3>1 DEF CommitKey, UserChange, KeyChange, TokenChange
  <2>6. CASE AnswerLost(r)
    <3>1. stage[r] = "commit" => cmd[r].key \in Requests
      BY Commands DEF Progress, Placed
    <3> QED BY <2>6, <3>1 DEF AnswerLost, Ends, UserChange, KeyChange, TokenChange
  <2>7. CASE FindsName(r) \/ ReadOwner(r) \/ FindKey(r) \/ LoadKey(r) \/ CallFails(r)
    BY <2>7 DEF FindsName, ReadOwner, FindKey, LoadKey, CallFails, tables, UserChange, KeyChange, TokenChange
  <2> QED BY <1>3, <2>1, <2>2, <2>3, <2>4, <2>5, <2>6, <2>7 DEF Serve
<1> QED BY <1>1, <1>2, <1>3, Steps

\* Rows stay through every change.
LEMMA RowsStayed ==
  ASSUME TypeOK, UserRows, UserChange, KeyChange
  PROVE  RowsStay
<1> USE DEF TypeOK
<1>1. \A u \in users : \E v \in users' : /\ v.id = u.id /\ v.name = u.name /\ v.password = u.password
                                         /\ u.disabled => v.disabled
  <2>1. CASE users' = users
    BY <2>1
  <2>2. ASSUME NEW r \in Requests, users' = users \cup {NewUser(r)}
        PROVE  \A u \in users : u \in users'
    BY <2>2
  <2>3. ASSUME NEW w \in users, users' = (users \ {w}) \cup {[w EXCEPT !.disabled = TRUE]}
        PROVE  <1>1
    <3> DEFINE x == [w EXCEPT !.disabled = TRUE]
    <3>1. x.id = w.id /\ x.name = w.name /\ x.password = w.password /\ x.disabled
      BY DEF User
    <3> HIDE DEF x
    <3> QED BY <2>3, <3>1 DEF x
  <2> QED BY <2>1, <2>2, <2>3 DEF UserChange
<1>2. \A k \in keys : \E j \in keys' : j.id = k.id /\ (k.revoked => j.revoked)
  <2>1. ASSUME NEW i \in Requests, keys' = Revoked(i), NEW k \in keys
        PROVE  \E j \in keys' : j.id = k.id /\ (k.revoked => j.revoked)
    <3> DEFINE j == IF k.id = i THEN [k EXCEPT !.revoked = TRUE] ELSE k
    <3>1. j \in keys' /\ j.id = k.id /\ (k.revoked => j.revoked)
      BY <2>1 DEF Revoked, Key
    <3> HIDE DEF j
    <3> QED BY <3>1
  <2>2. CASE keys' = keys
    BY <2>2
  <2>3. CASE \E r \in Requests : keys' = keys \cup {NewKey(r)}
    BY <2>3
  <2> QED BY <2>1, <2>2, <2>3 DEF KeyChange
<1> QED BY <1>1, <1>2 DEF RowsStay

\* The new rows are rows.
LEMMA NewRows ==
  ASSUME TypeOK, Progress, NEW r \in Requests
  PROVE  /\ stage[r] = "save" => /\ NewUser(r) \in User /\ NewUser(r).id = r
                                 /\ NewUser(r).name = Normal[cmd[r].name]
                                 /\ NewUser(r).password = cmd[r].password
                                 /\ NewUser(r).disabled = FALSE /\ cmd[r] \in Registration
         /\ stage[r] = "store" => /\ NewKey(r) \in Key /\ NewKey(r).id = r
                                  /\ NewKey(r).prefix = PrefixOf[cmd[r].label]
                                  /\ NewKey(r).revoked = FALSE /\ cmd[r] \in KeyRequest
<1>1. ASSUME stage[r] = "save"
      PROVE  NewUser(r) \in User /\ cmd[r] \in Registration
  <2>1. cmd[r] \in Registration /\ cmd[r].name \in Spellings /\ cmd[r].password \in Passwords
    BY <1>1, Commands DEF Progress, Placed
  <2>2. Role(cmd[r].role) \in Roles
    BY DEF Role, Roles
  <2>3. Normal[cmd[r].name] \in Names
    BY <2>1 DEF Names
  <2> QED BY <2>1, <2>2, <2>3 DEF NewUser, User
<1>2. ASSUME stage[r] = "store"
      PROVE  NewKey(r) \in Key /\ cmd[r] \in KeyRequest
  <2>1. cmd[r] \in KeyRequest /\ cmd[r].token.user \in Requests /\ cmd[r].label \in Labels
    BY <1>2, Commands DEF Progress, Placed
  <2>2. PrefixOf[cmd[r].label] \in Prefixes
    BY <2>1 DEF Prefixes
  <2> QED BY <2>1, <2>2 DEF NewKey, Key
<1> QED BY <1>1, <1>2 DEF NewUser, NewKey

\* A user under registration has no row yet, nor has a key.
LEMMA Absent ==
  ASSUME UserRows, KeyRows, NEW r \in Requests
  PROVE  /\ stage[r] = "save" => \A u \in users : u.id # r
         /\ stage[r] = "store" => \A k \in keys : k.id # r
BY DEF UserRows, KeyRows

\* Every user is still the registration that made it, and no two share a name.
LEMMA UserRowsKept ==
  ASSUME TypeOK, Progress, UserRows, KeyRows, UserChange, \A r \in Requests : Goes(r)
  PROVE  UserRows'
<1>0. \A u \in users : u.id \in Requests
  BY DEF TypeOK, User
<1>1. \A u \in users : /\ stage'[u.id] \notin {"new", "find", "save"} /\ cmd'[u.id] \in Registration
                       /\ u.name = Normal[cmd'[u.id].name] /\ u.password = cmd'[u.id].password
  BY <1>0 DEF UserRows, Goes
<1>2. CASE users' = users
  BY <1>1, <1>2 DEF UserRows
<1>3. ASSUME NEW r \in Requests, stage[r] = "save", stage'[r] \in {"login", "done"},
             UserInsertable(NewUser(r)), users' = users \cup {NewUser(r)}
      PROVE  UserRows'
  <2> DEFINE n == NewUser(r)
  <2>1. n.id = r /\ n.name = Normal[cmd[r].name] /\ n.password = cmd[r].password /\ cmd[r] \in Registration
    BY <1>3, NewRows
  <2>2. cmd'[r] = cmd[r]
    BY <1>3 DEF Goes
  <2>3. \A u \in users : u.id # n.id /\ u.name # n.name
    BY <1>3, <2>1, Absent DEF UserInsertable, Named
  <2>4. users' = users \cup {n}
    BY <1>3
  <2> HIDE DEF n
  <2>5. \A u \in users' : /\ stage'[u.id] \notin {"new", "find", "save"} /\ cmd'[u.id] \in Registration
                          /\ u.name = Normal[cmd'[u.id].name] /\ u.password = cmd'[u.id].password
    BY <1>1, <1>3, <2>1, <2>2, <2>4
  <2>6. \A u, v \in users' : u.id = v.id \/ u.name = v.name => u = v
    BY <2>3, <2>4 DEF UserRows
  <2> QED BY <2>5, <2>6 DEF UserRows
<1>4. ASSUME NEW w \in users, users' = (users \ {w}) \cup {[w EXCEPT !.disabled = TRUE]}
      PROVE  UserRows'
  <2> DEFINE x == [w EXCEPT !.disabled = TRUE]
  <2>1. x.id = w.id /\ x.name = w.name /\ x.password = w.password
    BY DEF TypeOK, User
  <2>2. users' = (users \ {w}) \cup {x}
    BY <1>4
  <2> HIDE DEF x
  <2>3. \A u \in users' : /\ stage'[u.id] \notin {"new", "find", "save"} /\ cmd'[u.id] \in Registration
                          /\ u.name = Normal[cmd'[u.id].name] /\ u.password = cmd'[u.id].password
    BY <1>1, <2>1, <2>2
  <2>4. \A u, v \in users' : u.id = v.id \/ u.name = v.name => u = v
    BY <2>1, <2>2 DEF UserRows
  <2> QED BY <2>3, <2>4 DEF UserRows
<1> QED BY <1>2, <1>3, <1>4 DEF UserChange

\* Every key is still the one asked for, and no two share a prefix.
LEMMA KeyRowsKept ==
  ASSUME TypeOK, Progress, UserRows, KeyRows, KeyChange, \A r \in Requests : Goes(r)
  PROVE  KeyRows'
<1>0. \A k \in keys : k.id \in Requests
  BY DEF TypeOK, Key
<1>1. \A k \in keys : /\ stage'[k.id] = "done" /\ cmd'[k.id] \in KeyRequest
                      /\ k.prefix = PrefixOf[cmd'[k.id].label]
  BY <1>0 DEF KeyRows, Goes
<1>2. CASE keys' = keys
  BY <1>1, <1>2 DEF KeyRows
<1>3. ASSUME NEW r \in Requests, stage[r] = "store", stage'[r] = "done",
             KeyInsertable(NewKey(r)), keys' = keys \cup {NewKey(r)}
      PROVE  KeyRows'
  <2> DEFINE n == NewKey(r)
  <2>1. n.id = r /\ n.prefix = PrefixOf[cmd[r].label] /\ cmd[r] \in KeyRequest /\ cmd'[r] = cmd[r]
    BY <1>3, NewRows DEF Goes
  <2>2. \A k \in keys : k.id # n.id /\ k.prefix # n.prefix
    BY <1>3, <2>1, Absent DEF KeyInsertable
  <2>3. keys' = keys \cup {n}
    BY <1>3
  <2> HIDE DEF n
  <2>4. \A k \in keys' : /\ stage'[k.id] = "done" /\ cmd'[k.id] \in KeyRequest
                         /\ k.prefix = PrefixOf[cmd'[k.id].label]
    BY <1>1, <1>3, <2>1, <2>3
  <2>5. \A j, k \in keys' : j.id = k.id \/ j.prefix = k.prefix => j = k
    BY <2>2, <2>3 DEF KeyRows
  <2> QED BY <2>4, <2>5 DEF KeyRows
<1>4. ASSUME NEW i \in Requests, keys' = Revoked(i)
      PROVE  KeyRows'
  <2>1. \A k \in keys' : \E j \in keys : /\ k = (IF j.id = i THEN [j EXCEPT !.revoked = TRUE] ELSE j)
                                         /\ k.id = j.id /\ k.prefix = j.prefix
    BY <1>4 DEF Revoked, TypeOK, Key
  <2>2. \A k \in keys' : /\ stage'[k.id] = "done" /\ cmd'[k.id] \in KeyRequest
                         /\ k.prefix = PrefixOf[cmd'[k.id].label]
    BY <1>1, <2>1
  <2>3. ASSUME NEW j \in keys', NEW k \in keys', j.id = k.id \/ j.prefix = k.prefix
        PROVE  j = k
    <3>1. PICK a \in keys : /\ j = (IF a.id = i THEN [a EXCEPT !.revoked = TRUE] ELSE a)
                            /\ j.id = a.id /\ j.prefix = a.prefix
      BY <2>1
    <3>2. PICK b \in keys : /\ k = (IF b.id = i THEN [b EXCEPT !.revoked = TRUE] ELSE b)
                            /\ k.id = b.id /\ k.prefix = b.prefix
      BY <2>1
    <3>3. a = b
      BY <2>3, <3>1, <3>2 DEF KeyRows
    <3> QED BY <3>1, <3>2, <3>3
  <2> QED BY <2>2, <2>3 DEF KeyRows
<1> QED BY <1>2, <1>3, <1>4 DEF KeyChange

----------------------------------------------------------------------------
\* The parts of the invariant.

\* A request's command and what it found change at its arrival only.
LEMMA SameOrArrives ==
  ASSUME TypeOK, Progress, [Next]_vars
  PROVE  \A r \in Requests : (cmd'[r] = cmd[r] /\ before'[r] = before[r]) \/ Arrival(r)
<1> USE DEF TypeOK
<1>1. ASSUME NEW q \in Requests, Arrival(q), NEW r \in Requests
      PROVE  (cmd'[r] = cmd[r] /\ before'[r] = before[r]) \/ Arrival(r)
  <2>1. CASE q = r
    BY <1>1, <2>1
  <2>2. CASE q # r
    BY <1>1, <2>2 DEF Arrival
  <2> QED BY <2>1, <2>2
<1>2. CASE \E q \in Requests : Step(q)
  BY <1>2 DEF Step
<1>3. CASE Outside
  BY <1>3 DEF Outside
<1> QED BY <1>1, <1>2, <1>3, Steps

\* A request that arrives is refused at once or waits; the others are left alone.
LEMMA Arrived ==
  ASSUME TypeOK, NEW q \in Requests, Arrival(q)
  PROVE  /\ answer'[q] \in {"pending", "err"} /\ stage'[q] \notin {"owner", "store"}
         /\ cmd'[q] \in Command /\ (cmd'[q] \in Credentials => answer'[q] = "pending")
         /\ \A r \in Requests : r # q => answer'[r] = answer[r] /\ stage'[r] = stage[r]
<1>1. PICK c \in Command, s \in {"find", "login", "user", "key", "revoke", "done"}, a \in Answers :
        /\ cmd' = [cmd EXCEPT ![q] = c]
        /\ stage' = [stage EXCEPT ![q] = s] /\ answer' = [answer EXCEPT ![q] = a]
        /\ a \in {"pending", "err"} /\ (a = "pending" <=> s # "done")
        /\ s = "find" => c \in Registration
        /\ s = "login" => c \in Credentials
        /\ s = "user" => c \in Presentation \cup KeyRequest
        /\ s \in {"key", "revoke"} => c \in KeyUse
        /\ c \in KeyUse => \E k \in keys : k.id = c.key
        /\ s = "key" => c.op = "lookup"
        /\ s = "revoke" => c.op = "revoke"
        /\ c \in Registration => s # "login"
        /\ c \in Credentials => s = "login"
        /\ c \in KeyUse => s \in {"key", "revoke"}
        /\ c.op = "refresh" => s = "done"
  BY ZenonT(30) DEF Arrival
<1>2. cmd'[q] = c /\ stage'[q] = s /\ answer'[q] = a
  BY <1>1 DEF TypeOK
<1>3. \A r \in Requests : r # q => answer'[r] = answer[r] /\ stage'[r] = stage[r]
  BY <1>1 DEF TypeOK
<1> QED BY <1>1, <1>2, <1>3

\* The counter of mishaps stays within its bound, and only tokens expire.
LEMMA Counters ==
  ASSUME TypeOK, [Next]_vars
  PROVE  /\ mishaps' \in 0 .. MaxMishaps
         /\ expired' = expired \/ \E t \in tokens : expired' = expired \cup {t}
<1> USE SessionAssumption DEF TypeOK
<1>1. ASSUME NEW r \in Requests, Register(r) \/ Credential(r) \/ Present(r) \/ UseKey(r)
      PROVE  mishaps' = mishaps /\ expired' = expired
  BY <1>1 DEF Register, Credential, Present, UseKey, Arrive
<1>2. ASSUME NEW r \in Requests, Serve(r)
      PROVE  mishaps' = mishaps /\ expired' = expired
  BY <1>2 DEF Serve, FindsName, SaveUser, LogIn, ReadUser, ReadOwner, StoreKey, FindKey, LoadKey, CommitKey
<1>3. ASSUME NEW r \in Requests, CallFails(r) \/ AnswerLost(r)
      PROVE  mishaps < MaxMishaps /\ mishaps' = mishaps + 1 /\ expired' = expired
  BY <1>3 DEF CallFails, AnswerLost
<1>4. ASSUME Crash \/ \E u \in users : Disable(u)
      PROVE  mishaps < MaxMishaps /\ mishaps' = mishaps + 1 /\ expired' = expired
  BY <1>4 DEF Crash, Disable
<1>5. ASSUME NEW t \in tokens, Expire(t)
      PROVE  mishaps < MaxMishaps /\ mishaps' = mishaps + 1 /\ expired' = expired \cup {t}
  BY <1>5 DEF Expire
<1>6. CASE UNCHANGED vars
  BY <1>6 DEF vars
<1> QED BY <1>1, <1>2, <1>3, <1>4, <1>5, <1>6 DEF Next

\* Rows and tokens keep their types, and no token is lost.
LEMMA RowsTyped ==
  ASSUME TypeOK, Progress, UserChange, KeyChange, TokenChange
  PROVE  users' \in SUBSET User /\ keys' \in SUBSET Key /\ tokens' \in SUBSET Token /\ tokens \subseteq tokens'
<1> USE DEF TypeOK
<1>1. users' \in SUBSET User
  <2>1. ASSUME NEW r \in Requests, stage[r] = "save", users' = users \cup {NewUser(r)}
        PROVE  users' \in SUBSET User
    BY <2>1, NewRows
  <2>2. ASSUME NEW u \in users, users' = (users \ {u}) \cup {[u EXCEPT !.disabled = TRUE]}
        PROVE  users' \in SUBSET User
    <3>1. [u EXCEPT !.disabled = TRUE] \in User
      BY DEF User
    <3> QED BY <2>2, <3>1
  <2> QED BY <2>1, <2>2 DEF UserChange
<1>2. keys' \in SUBSET Key
  <2>1. ASSUME NEW r \in Requests, stage[r] = "store", keys' = keys \cup {NewKey(r)}
        PROVE  keys' \in SUBSET Key
    BY <2>1, NewRows
  <2>2. ASSUME NEW i \in Requests, keys' = Revoked(i)
        PROVE  keys' \in SUBSET Key
    <3>1. \A k \in Key : [k EXCEPT !.revoked = TRUE] \in Key
      BY DEF Key
    <3> QED BY <2>2, <3>1 DEF Revoked
  <2> QED BY <2>1, <2>2 DEF KeyChange
<1>3. tokens' \in SUBSET Token /\ tokens \subseteq tokens'
  <2>1. ASSUME NEW r \in Requests, NEW u \in users, Issue(r, u)
        PROVE  tokens' \in SUBSET Token /\ tokens \subseteq tokens'
    BY <2>1 DEF Issue, Token, AccessToken, RefreshToken, User
  <2> QED BY <2>1 DEF TokenChange
<1> QED BY <1>1, <1>2, <1>3

\* The step of the type invariant.
LEMMA TypeKept ==
  ASSUME TypeOK, Progress, UserRows, [Next]_vars
  PROVE  TypeOK'
<1>1. UserChange /\ KeyChange /\ TokenChange
  BY RowSources
<1>2. users' \in SUBSET User /\ keys' \in SUBSET Key /\ tokens' \in SUBSET Token /\ tokens \subseteq tokens'
  BY <1>1, RowsTyped
<1>3. mishaps' \in 0 .. MaxMishaps /\ expired' \in SUBSET tokens'
  BY <1>2, Counters DEF TypeOK
<1> DEFINE History == [disabled : SUBSET Requests, users : SUBSET Requests, revoked : SUBSET Requests]
<1>4. /\ cmd' \in [Requests -> Command \cup {NoCommand}]
      /\ stage' \in [Requests -> Waiting \cup {"new", "done"}]
      /\ answer' \in [Requests -> Answers]
      /\ before' \in [Requests -> History]
  <2> USE DEF TypeOK
  <2>1. ASSUME NEW r \in Requests, Step(r) PROVE <1>4
    BY <2>1 DEF Step
  <2>2. ASSUME NEW r \in Requests, Arrival(r) PROVE <1>4
    <3> DEFINE now == [disabled |-> {u.id : u \in {u \in users : u.disabled}},
                       users |-> {u.id : u \in users},
                       revoked |-> {k.id : k \in {k \in keys : k.revoked}}]
    <3>1. now \in History
      BY DEF User, Key
    <3>2. before' = [before EXCEPT ![r] = now]
      BY <2>2 DEF Arrival
    <3>3. before' \in [Requests -> History]
      <4> HIDE DEF now
      <4> QED BY <3>1, <3>2
    <3> QED BY <2>2, <3>3 DEF Arrival, Waiting
  <2>3. CASE Outside
    BY <2>3 DEF Outside, Answers
  <2> QED BY <2>1, <2>2, <2>3, Steps
<1> QED BY <1>2, <1>3, <1>4 DEF TypeOK

\* A request stays where its command can bring it.
LEMMA ProgressKept ==
  ASSUME TypeOK, Progress, [Next]_vars
  PROVE  Progress'
<1> USE DEF TypeOK
<1>1. ASSUME NEW q \in Requests, Step(q), NEW r \in Requests PROVE Placed(r)'
  <2>0. Placed(r) /\ Placed(q) /\ cmd'[r] = cmd[r]
    BY <1>1 DEF Progress, Step
  <2>1. CASE r # q
    BY <1>1, <2>0, <2>1 DEF Step, Placed
  <2>2. CASE r = q
    BY <1>1, <2>0, <2>2, Commands DEF Step, Placed, Waiting
  <2> QED BY <2>1, <2>2
<1>2. ASSUME NEW q \in Requests, Arrival(q), NEW r \in Requests PROVE Placed(r)'
  <2>0. Placed(r)
    BY DEF Progress
  <2>1. CASE r # q
    BY <1>2, <2>0, <2>1 DEF Arrival, Placed
  <2>2. CASE r = q
    BY <1>2, <2>0, <2>2, SessionAssumption DEF Arrival, Placed
  <2> QED BY <2>1, <2>2
<1>3. ASSUME Outside, NEW r \in Requests PROVE Placed(r)'
  BY <1>3 DEF Outside, Progress, Placed, Waiting
<1> QED BY <1>1, <1>2, <1>3, Steps DEF Progress

\* What a request found when it arrived still stands in the tables.
LEMMA PastKept ==
  ASSUME TypeOK, Past, RowsStay, \A r \in Requests : (cmd'[r] = cmd[r] /\ before'[r] = before[r]) \/ Arrival(r)
  PROVE  Past'
<1> SUFFICES ASSUME NEW r \in Requests
             PROVE  /\ \A i \in before'[r].users : \E u \in users' : u.id = i
                    /\ \A i \in before'[r].disabled : \E u \in users' : u.id = i /\ u.disabled
                    /\ \A i \in before'[r].revoked : \E k \in keys' : k.id = i /\ k.revoked
                    /\ cmd'[r] \in KeyUse => \E k \in keys' : k.id = cmd'[r].key
  BY DEF Past
<1>1. CASE cmd'[r] = cmd[r] /\ before'[r] = before[r]
  BY <1>1 DEF Past, RowsStay
<1>2. CASE Arrival(r)
  <2> DEFINE now == [disabled |-> {u.id : u \in {u \in users : u.disabled}},
                     users |-> {u.id : u \in users},
                     revoked |-> {k.id : k \in {k \in keys : k.revoked}}]
  <2>1. before'[r] = now /\ users' = users /\ keys' = keys
    BY <1>2 DEF Arrival, TypeOK, tables
  <2>2. cmd'[r] \in KeyUse => \E k \in keys : k.id = cmd'[r].key
    BY <1>2 DEF Arrival, TypeOK
  <2> QED BY <2>1, <2>2
<1> QED BY <1>1, <1>2

\* Who is not disabled now was not disabled before.
LEMMA NeverEnabled ==
  ASSUME UserRows, Past, NEW r \in Requests, NEW u \in users, ~u.disabled
  PROVE  u.id \notin before[r].disabled
BY DEF UserRows, Past

\* Who is let through was found enabled.
LEMMA LetThrough ==
  ASSUME TypeOK, Progress, NEW r \in Requests, Step(r), Serve(r) \/ CallFails(r) \/ AnswerLost(r),
         cmd[r] \in Presentation \cup KeyRequest, stage'[r] = "owner" \/ answer'[r] = "ok"
  PROVE  stage[r] = "store" \/ Enabled(Identified(cmd[r].token.user))
<1> USE DEF TypeOK
<1>1. stage[r] \in Waiting /\ answer[r] = "pending"
  BY DEF Step, Progress, Placed, Waiting
<1>2. cmd[r] \notin Registration /\ cmd[r] \notin Credentials /\ cmd[r] \notin KeyUse
  BY Commands
<1>3. CASE FindsName(r) \/ SaveUser(r) \/ LogIn(r) \/ FindKey(r) \/ LoadKey(r) \/ CommitKey(r)
  BY <1>2, <1>3 DEF FindsName, SaveUser, LogIn, FindKey, LoadKey, CommitKey, Progress, Placed
<1>4. CASE ReadUser(r)
  BY <1>1, <1>4 DEF ReadUser, Ends
<1>5. CASE ReadOwner(r)
  BY <1>1, <1>5 DEF ReadOwner, Ends, GoTo
<1>6. CASE StoreKey(r)
  BY <1>6 DEF StoreKey
<1>7. CASE CallFails(r) \/ AnswerLost(r)
  BY <1>7 DEF CallFails, AnswerLost, Ends
<1> QED BY <1>3, <1>4, <1>5, <1>6, <1>7 DEF Serve

\* Whoever was answered was found enabled by the request that answered.
LEMMA CheckedKept ==
  ASSUME TypeOK, Progress, UserRows, Past, Checked, [Next]_vars, TokenChange,
         \A r \in Requests : Goes(r),
         \A r \in Requests : (cmd'[r] = cmd[r] /\ before'[r] = before[r]) \/ Arrival(r)
  PROVE  Checked'
<1> USE DEF TypeOK
<1>1. \A t \in tokens' : stage'[t.by] = "done" /\ t.user \notin before'[t.by].disabled
  <2>1. ASSUME NEW t \in tokens
        PROVE  stage'[t.by] = "done" /\ t.user \notin before'[t.by].disabled
    <3>1. t.by \in Requests /\ stage[t.by] = "done" /\ t.user \notin before[t.by].disabled
      BY Commands DEF Checked
    <3> QED BY <3>1 DEF Goes
  <2>2. ASSUME NEW r \in Requests, NEW u \in users, stage[r] \in Waiting, stage'[r] = "done", ~u.disabled,
               Issue(r, u), NEW t \in tokens', t \notin tokens
        PROVE  stage'[t.by] = "done" /\ t.user \notin before'[t.by].disabled
    <3>1. t.by = r /\ t.user = u.id
      BY <2>2 DEF Issue
    <3>2. before'[r] = before[r]
      BY <2>2 DEF Goes, Waiting
    <3> QED BY <2>2, <3>1, <3>2, NeverEnabled
  <2> QED BY <2>1, <2>2 DEF TokenChange
<1>2. ASSUME NEW r \in Requests, cmd'[r] \in Presentation \cup KeyRequest,
             stage'[r] \in {"owner", "store"} \/ answer'[r] = "ok"
      PROVE  cmd'[r].token.user \notin before'[r].disabled
  <2>1. cmd'[r] = cmd[r] /\ before'[r] = before[r]
    BY <1>2 DEF Arrival
  <2>2. CASE stage[r] \in {"owner", "store"} \/ answer[r] = "ok"
    BY <1>2, <2>1, <2>2 DEF Checked
  <2>3. ASSUME stage[r] \notin {"owner", "store"}, answer[r] # "ok"
        PROVE  Step(r) /\ (Serve(r) \/ CallFails(r) \/ AnswerLost(r)) /\ (stage'[r] = "owner" \/ answer'[r] = "ok")
    <3>1. ~Outside
      BY <1>2, <2>3 DEF Outside, Waiting
    <3>2. ASSUME NEW q \in Requests, Arrival(q) PROVE FALSE
      BY <1>2, <2>1, <2>3, <3>2, Arrived
    <3>3. PICK q \in Requests : Step(q) /\ (Serve(q) \/ CallFails(q) \/ AnswerLost(q))
      BY <3>1, <3>2, Steps
    <3>4. q = r
      BY <1>2, <2>3, <3>3 DEF Step
    <3> QED BY <1>2, <2>3, <3>3, <3>4 DEF Step
  <2>4. CASE stage[r] \notin {"owner", "store"} /\ answer[r] # "ok"
    <3>1. Enabled(Identified(cmd[r].token.user))
      BY <1>2, <2>1, <2>3, <2>4, LetThrough
    <3>2. PICK u \in users : u.id = cmd[r].token.user /\ ~u.disabled
      BY <3>1 DEF Enabled, Identified
    <3>3. u.id \notin before[r].disabled
      BY <3>2, NeverEnabled
    <3> QED BY <2>1, <3>2, <3>3
  <2> QED BY <2>2, <2>4
<1> QED BY <1>1, <1>2 DEF Checked

\* Whose login is refused has no row that would admit the password, or a disabled one.
LEMMA RegistrantsKept ==
  ASSUME TypeOK, Progress, UserRows, Past, RegistrantsCanLogIn, [Next]_vars, RowsStay,
         \A r \in Requests : Goes(r),
         \A r \in Requests : (cmd'[r] = cmd[r] /\ before'[r] = before[r]) \/ Arrival(r)
  PROVE  RegistrantsCanLogIn'
<1> USE DEF TypeOK
<1> SUFFICES ASSUME NEW r \in Requests, NEW q \in Requests,
                    cmd'[r] # NoCommand, q \in before'[r].users, cmd'[r].op = "login", answer'[r] = "err",
                    Normal[cmd'[q].name] = Normal[cmd'[r].name], cmd'[q].password = cmd'[r].password
             PROVE  \E u \in users' : u.id = q /\ u.disabled
  BY DEF RegistrantsCanLogIn
<1>1. ~Arrival(r)
  <2>1. ASSUME Arrival(r) PROVE cmd'[r] \in Credentials
    BY <2>1, Arrived, Commands DEF Command
  <2> QED BY <2>1, Arrived
<1>2. cmd'[r] = cmd[r] /\ before'[r] = before[r] /\ cmd[r] \in Credentials
  <2>1. cmd'[r] = cmd[r] /\ before'[r] = before[r]
    BY <1>1
  <2> QED BY <2>1, Commands DEF Command
<1>3. PICK u \in users : u.id = q
  BY <1>2 DEF Past
<1>4. cmd'[q] = cmd[q] /\ u.name = Normal[cmd[q].name] /\ u.password = cmd[q].password
  BY <1>3 DEF UserRows, Goes
<1>5. u.disabled
  <2>1. CASE answer[r] = "err"
    BY <1>2, <1>3, <1>4, <2>1 DEF RegistrantsCanLogIn, UserRows
  <2>2. CASE answer[r] # "err"
    <3>1. Step(r) /\ (Serve(r) \/ CallFails(r) \/ AnswerLost(r))
      <4>1. ~Outside
        BY <2>2 DEF Outside
      <4>2. ASSUME NEW p \in Requests, Arrival(p) PROVE FALSE
        BY <1>1, <2>2, <4>2, Arrived
      <4>3. PICK p \in Requests : Step(p) /\ (Serve(p) \/ CallFails(p) \/ AnswerLost(p))
        BY <4>1, <4>2, Steps
      <4>4. p = r
        BY <2>2, <4>3 DEF Step
      <4> QED BY <4>3, <4>4
    <3>2. stage[r] = "login"
      BY <1>2, <3>1, Commands DEF Step, Progress, Placed, Waiting
    <3>3. LogIn(r)
      BY <3>1, <3>2 DEF Serve, FindsName, SaveUser, ReadUser, ReadOwner, StoreKey, FindKey, LoadKey, CommitKey,
                        CallFails, AnswerLost, Ends
    <3>4. u \in Named(Normal[cmd[r].name]) /\ \A v \in Named(Normal[cmd[r].name]) : v = u
      BY <1>2, <1>4 DEF Named, UserRows
    <3>5. ~Admits(u, cmd[r].password)
      BY <3>3, <3>4 DEF LogIn, Ends
    <3> QED BY <1>2, <1>4, <3>5 DEF Admits
  <2> QED BY <2>1, <2>2
<1> QED BY <1>3, <1>5 DEF RowsStay

\* The step of KeysWorkUntilRevoked.
LEMMA KeysKept ==
  ASSUME TypeOK, Progress, KeyRows, Past, KeysWorkUntilRevoked, [Next]_vars, RowsStay,
         \A r \in Requests : (cmd'[r] = cmd[r] /\ before'[r] = before[r]) \/ Arrival(r)
  PROVE  KeysWorkUntilRevoked'
<1> USE DEF TypeOK
<1> SUFFICES ASSUME NEW r \in Requests, cmd'[r] # NoCommand, cmd'[r].op = "lookup", answer'[r] \in {"ok", "nothing"}
             PROVE  /\ answer'[r] = "ok" => cmd'[r].key \notin before'[r].revoked
                    /\ answer'[r] = "nothing" => \E k \in keys' : k.id = cmd'[r].key /\ k.revoked
  BY DEF KeysWorkUntilRevoked
<1>1. cmd'[r] = cmd[r] /\ before'[r] = before[r] /\ cmd[r] \in KeyUse
  <2>1. cmd'[r] = cmd[r] /\ before'[r] = before[r]
    BY Arrived
  <2> QED BY <2>1, Commands DEF Command
<1>2. CASE answer'[r] = answer[r]
  BY <1>1, <1>2 DEF KeysWorkUntilRevoked, RowsStay
<1>3. CASE answer'[r] # answer[r]
  <2>1. Step(r) /\ (Serve(r) \/ CallFails(r) \/ AnswerLost(r))
    <3>1. ~Outside
      BY <1>3 DEF Outside
    <3>2. ASSUME NEW p \in Requests, Arrival(p) PROVE FALSE
      BY <1>3, <3>2, Arrived
    <3>3. PICK p \in Requests : Step(p) /\ (Serve(p) \/ CallFails(p) \/ AnswerLost(p))
      BY <3>1, <3>2, Steps
    <3>4. p = r
      BY <1>3, <3>3 DEF Step
    <3> QED BY <3>3, <3>4
  <2>2. stage[r] = "key"
    BY <1>1, <2>1, Commands DEF Step, Progress, Placed, Waiting
  <2>3. FindKey(r)
    BY <2>1, <2>2 DEF Serve, FindsName, SaveUser, LogIn, ReadUser, ReadOwner, StoreKey, LoadKey, CommitKey,
                      CallFails, AnswerLost, Ends
  <2> DEFINE text == cmd[r].key
             found == {k \in keys : k.prefix = PrefixOf[cmd[text].label]}
  <2>4. PICK k \in keys : k.id = text
    BY <1>1 DEF Past
  <2>5. k \in found /\ \A j \in found : j = k
    BY <2>4 DEF KeyRows
  <2>6. answer'[r] = (IF Accepts(k, text) THEN "ok" ELSE "nothing") /\ keys' = keys
    <3>1. \/ found = {} /\ Ends(r, "nothing")
          \/ \E j \in found : Ends(r, IF Accepts(j, text) THEN "ok" ELSE "nothing")
      BY <2>3 DEF FindKey
    <3>2. Ends(r, IF Accepts(k, text) THEN "ok" ELSE "nothing")
      BY <2>5, <3>1
    <3> QED BY <2>3, <3>2 DEF Ends, FindKey, tables
  <2>7. k.revoked <=> ~Accepts(k, text)
    BY <2>4 DEF Accepts, Key
  <2>8. text \in before[r].revoked => k.revoked
    BY <2>4 DEF Past, KeyRows
  <2> QED BY <1>1, <2>4, <2>6, <2>7, <2>8
<1> QED BY <1>2, <1>3

----------------------------------------------------------------------------
\* The invariant.

\* The service starts with the invariant.
LEMMA InitIInv ==
  ASSUME Init
  PROVE  IInv
BY SessionAssumption DEF Init, IInv, TypeOK, Progress, Placed, UserRows, KeyRows, Past, Checked,
   RegistrantsCanLogIn, KeysWorkUntilRevoked, Waiting, Answers, Registration, Credentials, Presentation,
   KeyRequest, KeyUse, Command

\* Every step keeps the invariant.
LEMMA StepIInv ==
  ASSUME IInv, [Next]_vars
  PROVE  IInv'
<1> USE DEF IInv
<1>1. UserChange /\ KeyChange /\ TokenChange
  BY RowSources
<1>2. RowsStay /\ \A r \in Requests : Goes(r)
  BY <1>1, RowsStayed, Onward
<1>3. \A r \in Requests : (cmd'[r] = cmd[r] /\ before'[r] = before[r]) \/ Arrival(r)
  BY SameOrArrives
<1>4. TypeOK' /\ Progress'
  BY TypeKept, ProgressKept
<1>5. UserRows' /\ KeyRows'
  BY <1>1, <1>2, UserRowsKept, KeyRowsKept
<1>6. Past' /\ Checked'
  BY <1>1, <1>2, <1>3, PastKept, CheckedKept
<1>7. RegistrantsCanLogIn' /\ KeysWorkUntilRevoked'
  BY <1>2, <1>3, RegistrantsKept, KeysKept
<1> QED BY <1>4, <1>5, <1>6, <1>7

\* The invariant holds of every behaviour of the service, for any number of requests.
THEOREM IInvHolds == Spec => []IInv
<1>1. IInv /\ [Next]_vars => IInv'
  BY StepIInv
<1> QED BY InitIInv, <1>1, PTL DEF Spec

\* Every variable keeps its type: the rows, tokens and commands are those the code builds.
THEOREM SessionTypes == Spec => []TypeOK
<1>1. IInv => TypeOK
  BY DEF IInv
<1> QED BY <1>1, IInvHolds, PTL

\* Whoever has registered logs in by that name and password unless disabled:
\* the row is the registration's and the unique name lets no other row answer for it.
THEOREM RegistrantsLogIn == Spec => []RegistrantsCanLogIn
<1>1. IInv => RegistrantsCanLogIn
  BY DEF IInv
<1> QED BY <1>1, IInvHolds, PTL

\* A user disabled before a request arrived gets nothing by it: every path to a
\* pair of tokens, an identity or a key reads the row and its flag.
THEOREM DisabledRefused == Spec => []DisabledAreRefused
<1>1. ASSUME IInv PROVE DisabledAreRefused
  <2> SUFFICES ASSUME NEW r \in Requests, answer[r] = "ok"
               PROVE  Subjects(r) \cap before[r].disabled = {}
    BY DEF DisabledAreRefused
  <2> USE <1>1 DEF IInv, TypeOK
  <2>1. CASE cmd[r] \in Presentation \cup KeyRequest
    <3>1. Subjects(r) = {cmd[r].token.user}
      BY <2>1, Commands, SessionAssumption DEF Subjects, Command
    <3> QED BY <2>1, <3>1 DEF Checked
  <2>2. CASE cmd[r] \notin Presentation \cup KeyRequest
    <3>1. Subjects(r) \subseteq {t.user : t \in {t \in tokens : t.by = r}}
      BY <2>2, Commands DEF Subjects, Command
    <3> QED BY <3>1 DEF Checked
  <2> QED BY <2>1, <2>2
<1>2. IInv => DisabledAreRefused
  BY <1>1
<1> QED BY <1>2, IInvHolds, PTL

\* A key that was answered is found by its text until it is revoked, and not
\* after: the unique prefix leads to its row and to no other.
THEOREM KeysWork == Spec => []KeysWorkUntilRevoked
<1>1. IInv => KeysWorkUntilRevoked
  BY DEF IInv
<1> QED BY <1>1, IInvHolds, PTL

\* Every refresh that is answered is refused.
RefreshFails ==
  \A r \in Requests : cmd[r] # NoCommand /\ cmd[r].op = "refresh" => answer[r] = "err"

\* No refresh is ever answered with a pair of tokens: the refresh tokens that
\* issue builds carry no role and the verifier requires one.
THEOREM RefreshAlwaysFails == Spec => []RefreshFails
<1>1. IInv => RefreshFails
  BY DEF IInv, Progress, Placed, RefreshFails
<1> QED BY <1>1, IInvHolds, PTL
====
