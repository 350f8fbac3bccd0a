------------------------------- MODULE AuthFlow -------------------------------
(***************************************************************************)
(* Interactive authentication.  A device that has no key asks to register  *)
(* and is sent to a URL; an SSH server asks whether a session needs a      *)
(* check and is told to hold.  Both leave an AuthRequest in the auth cache *)
(* (an LRU with a time limit), park a follow-up request on its channel and *)
(* are answered when someone finishes the request: an administrator over   *)
(* gRPC, a browser that signs in at the OpenID provider, or the cache that *)
(* throws the request out.                                                 *)
(*                                                                         *)
(* The handlers run concurrently; the model cuts them where they read      *)
(* something they use later: between reading and removing the OIDC state,  *)
(* between looking the request up and registering the node, around the     *)
(* wait for a verdict, and between installing a policy and clearing the    *)
(* SSH approvals.                                                          *)
(***************************************************************************)
EXTENDS Integers, Sequences, FiniteSets

CONSTANTS Machines,      \* devices, by machine key; each has one node key
          Users,         \* identities at the OpenID provider
          Claims,        \* [Users -> claims of the ID token]
          UserInfo,      \* [Users -> claims of the userinfo endpoint, or None]
          OIDCConfig,    \* the configured domains, groups and emails
          Browsers,
          Accounts,      \* [Browsers -> the identities it signs in as]
          Pairs,         \* <<source, destination>> of SSH connections
          Owner,         \* [sources -> Users \cup {NoUser}]; NoUser: tagged
          Slots,         \* follow-up requests that can be parked at once
          Handlers,      \* browser and gRPC requests served at once
          NoUser, NoNode, None,
          MaxEntries,    \* size of the auth cache
          MaxTime,       \* bound on the clock
          Period,        \* the policy's check period
          Scopes         \* who takes part, and the bounds on what they do

Node == Machines \X Users
Pending == [user : Users, token : Nat]
Request == [kind : {"reg", "ssh"}, subject : Machines \cup Pairs, pending : {None} \cup Pending,
            chan : {"open", "full", "empty"},
            verdict : [err : BOOLEAN, node : {NoNode} \cup Node], registered : BOOLEAN]
Wait == [who : Machines \cup Pairs, id : Nat, found : BOOLEAN]
Cookie == Browsers \X Nat \X Nat \X BOOLEAN
Task == [pc : {"state", "remove", "use", "get", "apply", "finish", "forget"}, login : Nat,
         user : Users, id : Nat, by : {None} \cup Cookie]

ASSUME AuthAssumption ==
  /\ None \notin Pending \cup Wait \cup Cookie \cup Task
  /\ Accounts \in [Browsers -> SUBSET Users]
  /\ MaxEntries \in Nat /\ MaxTime \in Nat /\ Period \in Nat
  /\ \A s \in Scopes :
       /\ s.machines \subseteq Machines /\ s.pairs \subseteq Pairs /\ s.users \subseteq Users
       /\ s.slots \subseteq Slots /\ s.handlers \subseteq Handlers /\ s.routes \subseteq BOOLEAN
       /\ s.sessions \in Nat

VARIABLES
  scope,     \* an element of Scopes: the machines and pairs that act, the users
             \* that exist, the slots and handlers at hand, the routes browsers
             \* visit, whether an administrator acts, and the bounds on auth
             \* requests, logins, faults (lost answers, cancellations, crashes)
             \* and policy changes
  reqs,      \* every AuthRequest created, by auth ID
  lru,       \* the auth cache: auth IDs, least recently used first
  stale,     \* entries past their time limit, not yet swept
  waits,     \* parked follow-up requests
  client,    \* per device: the URL it was given, the node it was told it is
  access,    \* per SSH connection: the auth ID it holds, the last answer
  nodes,     \* <<machine, user>> registered
  hosts,     \* the ends of SSH connections that exist
  users,     \* rows of the users table
  logins,    \* OIDC logins: auth request, route, browser
  pendingStates, \* OIDC states still in the provider's cache
  cookies,   \* OIDC states whose cookies the browser still holds
  confirm,   \* confirmation cookies: <<browser, id, token, page shown>>
  tasks,     \* browser and gRPC requests being served
  policy,    \* whether the policy has a check rule for the pairs
  clearing,  \* a policy is installed, the approvals not yet cleared
  lastAuth,  \* sshCheckAuth: when a pair last passed a check
  clock, faults, tokens,
  proof      \* history: who signed in where (or was named by an administrator,
             \* in no browser), and when checks passed

authVars == <<reqs, lru, stale>>
timeVars == <<clock, scope>>
sshVars == <<access, hosts, policy, clearing, lastAuth>>
oidcVars == <<logins, pendingStates, cookies, confirm, tokens>>
vars == <<scope, reqs, lru, stale, waits, client, access, nodes, hosts, users, logins,
          pendingStates, cookies, confirm, tasks, policy, clearing, lastAuth,
          clock, faults, tokens, proof>>

Ids == 1..Len(reqs)
Never == -1
NoVerdict == [err |-> FALSE, node |-> NoNode]
Rejected == [err |-> TRUE, node |-> NoNode]

(***************************************************************************)
(* The auth request and its cache.                                         *)
(***************************************************************************)
AuthRequest(kind, subject) ==
  [kind |-> kind, subject |-> subject, pending |-> None, chan |-> "open",
   verdict |-> NoVerdict, registered |-> FALSE]

\* The channel holds one verdict and is then closed: only the first call
\* counts, the first reader gets the verdict, later ones the zero value.
FinishAuth(rs, id, v) ==
  IF rs[id].chan = "open"
  THEN [rs EXCEPT ![id].chan = "full", ![id].verdict = v]
  ELSE rs

WaitForAuth(rs, id) ==
  [verdict |-> IF rs[id].chan = "full" THEN rs[id].verdict ELSE NoVerdict,
   reqs |-> [rs EXCEPT ![id].chan = "empty"]]

\* An auth ID is in the cache at most once.
Drop(l, id) ==
  LET at == CHOOSE k \in DOMAIN l : l[k] = id
  IN  IF \E k \in DOMAIN l : l[k] = id
      THEN [k \in 1..(Len(l) - 1) |-> l[IF k < at THEN k ELSE k + 1]]
      ELSE l

\* An entry the cache lets go of is finished as expired.
Evict_Silent(rs, id) == rs

Evict(rs, id) == FinishAuth(rs, id, Rejected)

InCache(id) == (\E k \in DOMAIN lru : lru[k] = id) /\ id \notin stale

Touch(id) == Append(Drop(lru, id), id)

cacheFull_OffByOne(l) == Len(l) > MaxEntries + 1

cacheFull(l) == Len(l) > MaxEntries

\* Adding to a full cache lets the least recently used entry go.
SetAuthCacheEntry(rs, r) ==
  LET id == Len(rs) + 1
      all == Append(rs, r)
      l  == Append(lru, id)
      full == cacheFull(l)
  IN  /\ reqs' = IF full THEN Evict(all, Head(l)) ELSE all
      /\ lru' = IF full THEN Tail(l) ELSE l
      /\ stale' = IF full THEN stale \ {Head(l)} ELSE stale

GetAuthCacheEntry(id) == lru' = Touch(id) /\ UNCHANGED stale

\* The entry's time is up; the cache's sweeper removes it some time later.
Age(id) ==
  /\ InCache(id)
  /\ stale' = stale \cup {id}
  /\ UNCHANGED <<reqs, lru, waits, client, nodes, users, tasks, timeVars, faults,
                 proof, sshVars, oidcVars>>

Sweep(id) ==
  /\ id \in stale
  /\ reqs' = Evict(reqs, id)
  /\ lru' = Drop(lru, id)
  /\ stale' = stale \ {id}
  /\ UNCHANGED <<waits, client, nodes, users, tasks, timeVars, faults, proof,
                 sshVars, oidcVars>>

Free(w) == waits[w] = None
Park(w, r) == w # None /\ Free(w) /\ waits' = [waits EXCEPT ![w] = r]
Unpark(w) == waits' = [waits EXCEPT ![w] = None]
Parked(who) == \E w \in Slots : waits[w] # None /\ waits[w].who = who

(***************************************************************************)
(* Registration over Noise.                                                *)
(***************************************************************************)
nodesOf(m) == {n \in nodes : n[1] = m}

\* An answer may be lost on its way to the client, a bounded number of times.
Answer(m, c) ==
  \/ client' = [client EXCEPT ![m] = c] /\ UNCHANGED faults
  \/ faults < scope.faults /\ faults' = faults + 1 /\ UNCHANGED client

\* A new session for the device, up to the bound on sessions.
reqToNewRegisterResponse(rs, m) ==
  \/ /\ Len(rs) < scope.sessions
     /\ SetAuthCacheEntry(rs, AuthRequest("reg", m))
     /\ Answer(m, [url |-> Len(rs) + 1, node |-> NoNode])
  \/ /\ Len(rs) = scope.sessions
     /\ reqs' = rs
     /\ UNCHANGED <<lru, stale, client, faults>>

handleRegisterInteractive(m) == reqToNewRegisterResponse(reqs, m)

machineKeyMismatch_None(n, m) == FALSE

machineKeyMismatch(n, m) == n[1] # m

\* What the follow-up answers once it has read the verdict.
followupVerdict(m, id) ==
  LET read == WaitForAuth(reqs, id)
      v == read.verdict
  IN  \/ /\ v.err \/ v.node = NoNode
         /\ reqToNewRegisterResponse(read.reqs, m)
      \/ /\ ~v.err /\ v.node # NoNode
         /\ machineKeyMismatch(v.node, m)
         /\ reqs' = read.reqs
         /\ UNCHANGED <<lru, stale, client, faults>>
      \/ /\ ~v.err /\ v.node # NoNode
         /\ ~machineKeyMismatch(v.node, m)
         /\ reqs' = read.reqs
         /\ Answer(m, [client[m] EXCEPT !.node = v.node])
         /\ UNCHANGED <<lru, stale>>

GetNodeByNodeKey_Unknown(m) == {}

GetNodeByNodeKey(m) == nodesOf(m)

\* A register request without a pre-auth key.  A node that is known is
\* answered at once; one that follows up a URL (its own, or one it was
\* handed) waits for the verdict, or takes the one already there.
handleRegister(m, followup, w) ==
  /\ client[m].node = NoNode /\ ~Parked(m)
  /\ UNCHANGED <<nodes, users, tasks, timeVars, proof, sshVars, oidcVars>>
  /\ \/ /\ GetNodeByNodeKey(m) # {}
        /\ \E n \in GetNodeByNodeKey(m) : Answer(m, [client[m] EXCEPT !.node = n])
        /\ UNCHANGED <<authVars, waits>>
     \/ /\ GetNodeByNodeKey(m) = {}
        /\ followup = 0
        /\ handleRegisterInteractive(m)
        /\ UNCHANGED waits
     \/ /\ GetNodeByNodeKey(m) = {}
        /\ followup # 0 /\ ~InCache(followup)
        /\ reqToNewRegisterResponse(reqs, m)
        /\ UNCHANGED waits
     \/ /\ GetNodeByNodeKey(m) = {}
        /\ followup # 0 /\ InCache(followup)
        /\ reqs[followup].chan = "open"
        /\ Park(w, [who |-> m, id |-> followup, found |-> FALSE])
        /\ GetAuthCacheEntry(followup)
        /\ UNCHANGED <<reqs, client, faults>>
     \/ /\ GetNodeByNodeKey(m) = {}
        /\ followup # 0 /\ InCache(followup)
        /\ reqs[followup].chan # "open"
        /\ followupVerdict(m, followup)
        /\ UNCHANGED waits

waitForFollowup(w) ==
  /\ ~Free(w)
  /\ waits[w].who \in Machines
  /\ reqs[waits[w].id].chan # "open"
  /\ followupVerdict(waits[w].who, waits[w].id)
  /\ Unpark(w)
  /\ UNCHANGED <<nodes, users, tasks, timeVars, proof, sshVars, oidcVars>>

\* The client goes away while its request is parked.
Cancel(w) ==
  /\ ~Free(w)
  /\ faults < scope.faults
  /\ faults' = faults + 1
  /\ Unpark(w)
  /\ UNCHANGED <<client, nodes, users, tasks, timeVars, proof, authVars, sshVars, oidcVars>>

(***************************************************************************)
(* Signing in at the OpenID provider.                                      *)
(***************************************************************************)
Idle(h) == tasks[h] = None
Run(h, t) == tasks' = [tasks EXCEPT ![h] = t]
Return(h) == Run(h, None)

\* /register/<id> or /auth/<id>: the browser gets the state and nonce cookies.
authHandler(b, id, registration) ==
  /\ Len(logins) < scope.logins
  /\ logins' = Append(logins, [id |-> id, registration |-> registration, browser |-> b])
  /\ pendingStates' = pendingStates \cup {Len(logins) + 1}
  /\ cookies' = cookies \cup {Len(logins) + 1}
  /\ UNCHANGED <<waits, client, nodes, users, tasks, timeVars, faults, proof, confirm,
                 tokens, authVars, sshVars>>

\* The userinfo endpoint completes the claims of the ID token when it is about
\* the same subject; a field it leaves out keeps the token's value.
withUserInfo(c, info) ==
  IF info = None \/ info.sub # c.sub THEN c
  ELSE [sub |-> c.sub,
        email |-> IF info.email = None THEN c.email ELSE info.email,
        verified |-> info.verified \/ c.verified,
        groups |-> IF info.groups = {} THEN c.groups ELSE info.groups]

validateOIDCAllowedDomains(c) == c.email # None /\ c.email.domain \in OIDCConfig.domains
validateOIDCAllowedGroups(c) == c.groups \cap OIDCConfig.groups # {}
validateOIDCAllowedUsers(c) == c.email \in OIDCConfig.emails

doOIDCAuthorization(c) ==
  LET trustEmail == ~OIDCConfig.verifiedRequired \/ c.verified
      hasEmailTests == OIDCConfig.domains # {} \/ OIDCConfig.emails # {}
  IN  /\ OIDCConfig.groups # {} => validateOIDCAllowedGroups(c)
      /\ hasEmailTests => trustEmail
      /\ OIDCConfig.domains # {} => validateOIDCAllowedDomains(c)
      /\ OIDCConfig.emails # {} => validateOIDCAllowedUsers(c)

\* A user row is found by the provider's identifier, or made.
createOrUpdateUserFromClaim(u) == users' = users \cup {u}

\* The provider sends the browser back, signed in as u.  The cookies are the
\* browser's until it has the response.
OIDCCallbackHandler(h, s, u) ==
  /\ Idle(h)
  /\ s \in cookies
  /\ IF doOIDCAuthorization(withUserInfo(Claims[u], UserInfo[u]))
     THEN /\ createOrUpdateUserFromClaim(u)
          /\ Run(h, [pc |-> "state", login |-> s, user |-> u, id |-> 0, by |-> None])
          /\ UNCHANGED cookies
     ELSE cookies' = cookies \ {s} /\ UNCHANGED <<users, tasks>>
  /\ UNCHANGED <<waits, client, nodes, timeVars, faults, proof, logins, pendingStates,
                 confirm, tokens, authVars, sshVars>>

\* getAuthInfoFromState reads the state ...
stateGet(h) ==
  /\ ~Idle(h) /\ tasks[h].pc = "state"
  /\ IF tasks[h].login \in pendingStates
     THEN Run(h, [tasks[h] EXCEPT !.pc = "remove"]) /\ UNCHANGED cookies
     ELSE Return(h) /\ cookies' = cookies \ {tasks[h].login}
  /\ UNCHANGED <<waits, client, nodes, users, timeVars, faults, proof, logins,
                 pendingStates, confirm, tokens, authVars, sshVars>>

\* ... and removes it.
stateRemove(h) ==
  /\ ~Idle(h) /\ tasks[h].pc = "remove"
  /\ pendingStates' = pendingStates \ {tasks[h].login}
  /\ Run(h, [tasks[h] EXCEPT !.pc = "use", !.id = logins[tasks[h].login].id])
  /\ UNCHANGED <<waits, client, nodes, users, timeVars, faults, proof, logins, cookies,
                 confirm, tokens, authVars, sshVars>>

\* The identity is parked on the request and the browser sent to a page that
\* asks it to confirm.
beginRegistrationConfirmation(h) ==
  LET t == tasks[h]
      b == logins[t.login].browser
      token == tokens + 1
  IN  IF InCache(t.id) /\ reqs[t.id].kind = "reg"
      THEN /\ tokens' = token
           /\ reqs' = [reqs EXCEPT ![t.id].pending = [user |-> t.user, token |-> token]]
           /\ confirm' = {c \in confirm : <<c[1], c[2]>> # <<b, t.id>>} \cup {<<b, t.id, token, FALSE>>}
           /\ proof' = [proof EXCEPT !.signed = @ \cup {<<b, t.user, t.id>>}]
      ELSE UNCHANGED <<tokens, reqs, confirm, proof>>

\* An SSH check is approved by the owner of the connection's source.
approvedByOwner(id, u) ==
  /\ InCache(id) /\ reqs[id].kind = "ssh"
  /\ reqs[id].subject[1] \in hosts
  /\ Owner[reqs[id].subject[1]] = u

callbackUse(h) ==
  /\ ~Idle(h) /\ tasks[h].pc = "use"
  /\ LET t == tasks[h]
     IN  /\ IF logins[t.login].registration
            THEN beginRegistrationConfirmation(h)
            ELSE /\ reqs' = IF approvedByOwner(t.id, t.user)
                            THEN FinishAuth(reqs, t.id, NoVerdict) ELSE reqs
                 /\ UNCHANGED <<tokens, confirm, proof>>
         /\ lru' = IF InCache(t.id) THEN Touch(t.id) ELSE lru
         /\ cookies' = cookies \ {t.login}
  /\ Return(h)
  /\ UNCHANGED <<waits, client, nodes, users, timeVars, faults, logins, pendingStates,
                 stale, sshVars>>

pendingFor_AnyToken(id, token) == InCache(id) /\ reqs[id].pending # None

pendingFor(id, token) ==
  InCache(id) /\ reqs[id].pending # None /\ reqs[id].pending.token = token

\* The page with the form; it can be loaded any number of times.
RegisterConfirmGetHandler(c) ==
  /\ pendingFor(c[2], c[3]) /\ reqs[c[2]].pending.user \in users
  /\ confirm' = (confirm \ {c}) \cup {<<c[1], c[2], c[3], TRUE>>}
  /\ GetAuthCacheEntry(c[2])
  /\ UNCHANGED <<reqs, waits, client, nodes, users, tasks, timeVars, faults, proof, logins,
                 pendingStates, cookies, tokens, sshVars>>

\* The browser posts the form's token with its cookie.
RegisterConfirmHandler(h, c) ==
  /\ Idle(h)
  /\ c[4]
  /\ LET id == c[2]
     IN  /\ IF pendingFor(id, c[3]) /\ reqs[id].pending.user \in users
            THEN Run(h, [pc |-> "get", login |-> 0, user |-> reqs[id].pending.user,
                         id |-> id, by |-> c])
            ELSE UNCHANGED tasks
         /\ lru' = IF InCache(id) THEN Touch(id) ELSE lru
  /\ UNCHANGED <<reqs, stale, waits, client, nodes, users, timeVars, faults, proof,
                 sshVars, oidcVars>>

(***************************************************************************)
(* Finishing a registration, from the confirmation or from the command     *)
(* line.                                                                   *)
(***************************************************************************)
\* RegisterNode and AuthRegister: an administrator names the request and a user.
RegisterNode(h, id, u) ==
  /\ Idle(h)
  /\ u \in users
  /\ Run(h, [pc |-> "get", login |-> 0, user |-> u, id |-> id, by |-> None])
  /\ proof' = [proof EXCEPT !.signed = @ \cup {<<None, u, id>>}]
  /\ UNCHANGED <<waits, client, nodes, users, timeVars, faults, authVars, sshVars, oidcVars>>

\* Everything in memory is lost; the database and the clients remain.
Lost ==
  /\ lru' = <<>> /\ stale' = {}
  /\ waits' = [w \in Slots |-> None]
  /\ tasks' = [h \in Handlers |-> None]
  /\ pendingStates' = {}
  /\ lastAuth' = [p \in Pairs |-> Never]
  /\ clearing' = FALSE
  /\ proof' = [proof EXCEPT !.gen = @ + 1]
  /\ UNCHANGED <<reqs, client, access, nodes, hosts, users, logins, cookies, confirm,
                 policy, timeVars, tokens>>

Crash == faults < scope.faults /\ faults' = faults + 1 /\ Lost

\* HandleNodeFromAuthPath looks the request up.  RegistrationData panics on
\* a request that is not a registration, and gRPC does not recover.
authPathGet(h) ==
  /\ ~Idle(h) /\ tasks[h].pc = "get"
  /\ LET t == tasks[h]
     IN  IF InCache(t.id) /\ t.user \in users /\ reqs[t.id].kind # "reg"
         THEN Lost /\ UNCHANGED faults
         ELSE /\ IF InCache(t.id) /\ t.user \in users
                 THEN Run(h, [t EXCEPT !.pc = "apply"]) ELSE Return(h)
              /\ lru' = IF InCache(t.id) THEN Touch(t.id) ELSE lru
              /\ UNCHANGED <<reqs, stale, waits, client, nodes, users, timeVars, faults,
                             proof, sshVars, oidcVars>>

locked(m) == \E h \in Handlers : ~Idle(h) /\ tasks[h].pc \in {"finish", "forget"}
                                 /\ reqs[tasks[h].id].subject = m

\* Under the device's registration lock the node is created or taken over.
authPathApply(h) ==
  /\ ~Idle(h) /\ tasks[h].pc = "apply"
  /\ LET t == tasks[h]
         m == reqs[t.id].subject
     IN  /\ ~locked(m)
         /\ IF t.user \in users
            THEN /\ nodes' = nodes \cup {<<m, t.user>>}
                 /\ reqs' = [reqs EXCEPT ![t.id].registered = TRUE]
                 /\ Run(h, [t EXCEPT !.pc = "finish"])
            ELSE Return(h) /\ UNCHANGED <<nodes, reqs>>
  /\ UNCHANGED <<lru, stale, waits, client, users, timeVars, faults, proof, sshVars, oidcVars>>

\* The waiting client is told ...
authPathFinish(h) ==
  /\ ~Idle(h) /\ tasks[h].pc = "finish"
  /\ LET t == tasks[h]
     IN  reqs' = FinishAuth(reqs, t.id, [err |-> FALSE, node |-> <<reqs[t.id].subject, t.user>>])
  /\ Run(h, [tasks[h] EXCEPT !.pc = "forget"])
  /\ UNCHANGED <<lru, stale, waits, client, nodes, users, timeVars, faults, proof, sshVars,
                 oidcVars>>

\* ... and the request leaves the cache.
Forget_Keeps(id) == UNCHANGED <<lru, stale>>

Forget(id) == lru' = Drop(lru, id) /\ stale' = stale \ {id}

authPathForget(h) ==
  /\ ~Idle(h) /\ tasks[h].pc = "forget"
  /\ Forget(tasks[h].id)
  /\ confirm' = confirm \ {tasks[h].by}
  /\ Return(h)
  /\ UNCHANGED <<reqs, waits, client, nodes, users, timeVars, faults, proof, logins,
                 pendingStates, cookies, tokens, sshVars>>

AuthApprove(id) ==
  /\ InCache(id)
  /\ reqs' = FinishAuth(reqs, id, NoVerdict)
  /\ GetAuthCacheEntry(id)
  /\ UNCHANGED <<waits, client, nodes, users, tasks, timeVars, faults, proof, sshVars, oidcVars>>

AuthReject(id) ==
  /\ InCache(id)
  /\ reqs' = FinishAuth(reqs, id, Rejected)
  /\ GetAuthCacheEntry(id)
  /\ UNCHANGED <<waits, client, nodes, users, tasks, timeVars, faults, proof, sshVars, oidcVars>>

\* A user without nodes can be removed at any time.
DestroyUser(u) ==
  /\ u \in users
  /\ \A n \in nodes : n[2] # u
  /\ users' = users \ {u}
  /\ UNCHANGED <<waits, client, nodes, tasks, timeVars, faults, proof, authVars, sshVars, oidcVars>>

(***************************************************************************)
(* SSH checks.                                                             *)
(***************************************************************************)
Reply(p, a) == access' = [access EXCEPT ![p] = a]

sshActionHoldAndDelegate(rs, p) ==
  /\ Len(rs) < scope.sessions
  /\ SetAuthCacheEntry(rs, AuthRequest("ssh", p))
  /\ Reply(p, [id |-> Len(rs) + 1, ans |-> "hold"])

\* The period is 0 when every connection is to be checked.
recentlyChecked(p) ==
  /\ policy.found /\ policy.period > 0
  /\ lastAuth[p] # Never /\ clock - lastAuth[p] < policy.period

\* The request comes over the Noise session of the destination.
SSHActionHandler(p) == p[2] \in hosts

sshAction(p) ==
  /\ SSHActionHandler(p)
  /\ UNCHANGED <<waits, client, nodes, users, tasks, timeVars, faults, proof, hosts, policy,
                 clearing, lastAuth, oidcVars>>
  /\ \/ recentlyChecked(p) /\ Reply(p, [id |-> 0, ans |-> "accept"]) /\ UNCHANGED authVars
     \/ ~recentlyChecked(p) /\ sshActionHoldAndDelegate(reqs, p)

\* The follow-up reads whether the policy has a check before it waits.
sshActionFollowUp(p, id, w) ==
  /\ SSHActionHandler(p)
  /\ UNCHANGED <<client, nodes, users, tasks, timeVars, faults, proof, hosts, policy,
                 clearing, lastAuth, oidcVars>>
  /\ \/ /\ ~InCache(id) /\ policy.found
        /\ sshActionHoldAndDelegate(reqs, p)
        /\ UNCHANGED waits
     \/ /\ InCache(id)
        /\ reqs[id].kind = "ssh" /\ reqs[id].subject = p
        /\ Park(w, [who |-> p, id |-> id, found |-> policy.found])
        /\ GetAuthCacheEntry(id)
        /\ UNCHANGED <<reqs, access>>

SetLastSSHAuth(p) == lastAuth' = [lastAuth EXCEPT ![p] = clock]

followUpVerdict(w) ==
  /\ ~Free(w)
  /\ waits[w].who \in Pairs
  /\ LET p == waits[w].who
         id == waits[w].id
         read == WaitForAuth(reqs, id)
     IN  /\ reqs[id].chan # "open"
         /\ reqs' = read.reqs
         /\ Unpark(w)
         /\ Reply(p, [id |-> id, ans |-> IF read.verdict.err THEN "reject" ELSE "accept"])
         /\ IF ~read.verdict.err /\ waits[w].found
            THEN /\ SetLastSSHAuth(p)
                 /\ proof' = [proof EXCEPT !.passed[p] = [at |-> clock, gen |-> proof.gen]]
            ELSE UNCHANGED <<lastAuth, proof>>
  /\ UNCHANGED <<lru, stale, client, nodes, users, tasks, timeVars, faults, hosts,
                 policy, clearing, oidcVars>>

\* ReloadPolicy and SetPolicy install the policy, then clear the approvals.
SetPolicy(p) ==
  /\ ~clearing
  /\ proof.gen < scope.policies
  /\ policy' = p
  /\ clearing' = TRUE
  /\ UNCHANGED <<waits, client, nodes, users, tasks, timeVars, faults, proof, access,
                 hosts, lastAuth, authVars, oidcVars>>

ClearSSHCheckAuth_None == UNCHANGED lastAuth

ClearSSHCheckAuth == lastAuth' = [p \in Pairs |-> Never]

policyInstalled ==
  /\ clearing
  /\ ClearSSHCheckAuth
  /\ clearing' = FALSE
  /\ proof' = [proof EXCEPT !.gen = @ + 1]
  /\ UNCHANGED <<waits, client, nodes, users, tasks, timeVars, faults, access, hosts,
                 policy, authVars, oidcVars>>

DeleteNode(n) ==
  /\ n \in hosts
  /\ hosts' = hosts \ {n}
  /\ UNCHANGED <<waits, client, nodes, users, tasks, timeVars, faults, proof, access, policy,
                 clearing, lastAuth, authVars, oidcVars>>

Tick ==
  /\ clock < MaxTime
  /\ clock' = clock + 1
  /\ UNCHANGED <<scope, waits, client, nodes, users, tasks, faults, proof, authVars, sshVars,
                 oidcVars>>

Init ==
  /\ scope \in Scopes
  /\ reqs = <<>> /\ lru = <<>> /\ stale = {}
  /\ waits = [w \in Slots |-> None]
  /\ client = [m \in Machines |-> [url |-> 0, node |-> NoNode]]
  /\ access = [p \in Pairs |-> [id |-> 0, ans |-> "none"]]
  /\ nodes = {}
  /\ hosts = UNION {{p[1], p[2]} : p \in scope.pairs}
  /\ users = scope.users
  /\ logins = <<>> /\ pendingStates = {} /\ cookies = {} /\ confirm = {} /\ tokens = 0
  /\ tasks = [h \in Handlers |-> None]
  /\ policy = [found |-> TRUE, period |-> Period]
  /\ clearing = FALSE
  /\ lastAuth = [p \in Pairs |-> Never]
  /\ clock = 0 /\ faults = 0
  /\ proof = [signed |-> {}, passed |-> [p \in Pairs |-> [at |-> 0, gen |-> Never]], gen |-> 0]

Policies == {[found |-> FALSE, period |-> 0], [found |-> TRUE, period |-> 0],
             [found |-> TRUE, period |-> Period]}

\* Handlers are alike: a request takes one of the idle ones.
idle == LET hs == {h \in scope.handlers : Idle(h)}
        IN  IF hs = {} THEN {} ELSE {CHOOSE h \in hs : TRUE}

Admin ==
  \/ \E id \in Ids : AuthApprove(id) \/ AuthReject(id)
  \/ \E h \in idle, id \in Ids, u \in Users : RegisterNode(h, id, u)
  \/ \E p \in Policies : SetPolicy(p)
  \/ \E u \in Users : DestroyUser(u)
  \/ \E n \in hosts : DeleteNode(n)

Next ==
  \/ \E m \in scope.machines, f \in {0} \cup Ids, w \in scope.slots \cup {None} :
       handleRegister(m, f, w)
  \/ \E p \in scope.pairs : sshAction(p)
  \/ \E p \in scope.pairs, id \in Ids, w \in scope.slots : sshActionFollowUp(p, id, w)
  \/ \E w \in scope.slots : waitForFollowup(w) \/ followUpVerdict(w) \/ Cancel(w)
  \/ \E id \in Ids : Age(id) \/ Sweep(id)
  \/ \E b \in Browsers, id \in Ids, r \in scope.routes : authHandler(b, id, r)
  \/ \E h \in idle, s \in DOMAIN logins : \E u \in Accounts[logins[s].browser] :
       OIDCCallbackHandler(h, s, u)
  \/ \E c \in confirm : RegisterConfirmGetHandler(c)
  \/ \E h \in idle, c \in confirm : RegisterConfirmHandler(h, c)
  \/ \E h \in scope.handlers : \/ stateGet(h) \/ stateRemove(h) \/ callbackUse(h)
                               \/ authPathGet(h) \/ authPathApply(h) \/ authPathFinish(h)
                               \/ authPathForget(h)
  \/ policyInstalled
  \/ scope.admin /\ Admin
  \/ scope.policies > 0 /\ Tick
  \/ Crash

Expiring == \E id \in Ids : Age(id) \/ Sweep(id)
Answering(w) == waitForFollowup(w) \/ followUpVerdict(w)
Polling(m) ==
  m \in scope.machines /\ \E w \in scope.slots \cup {None} : handleRegister(m, client[m].url, w)

\* A parked handler that can read its verdict runs; time passes, so entries
\* reach their limit and are swept; a device polls until it is told.
Fairness ==
  /\ WF_vars(Expiring)
  /\ \A w \in Slots : WF_vars(Answering(w))
  /\ \A m \in Machines : WF_vars(Polling(m))

Spec == Init /\ [][Next]_vars /\ Fairness

(***************************************************************************)
(* Properties.                                                             *)
(***************************************************************************)
\* The auth cache: one entry per request, within its size.
Cached == {lru[k] : k \in DOMAIN lru}

TypeOK ==
  /\ scope \in Scopes
  /\ reqs \in Seq(Request) /\ Len(reqs) <= scope.sessions
  /\ \A id \in Ids : reqs[id].subject \in IF reqs[id].kind = "reg" THEN Machines ELSE Pairs
  /\ lru \in Seq(Nat) /\ Len(lru) <= MaxEntries
  /\ \A i, j \in DOMAIN lru : lru[i] = lru[j] => i = j
  /\ Cached \subseteq Ids /\ stale \subseteq Cached
  /\ waits \in [Slots -> {None} \cup Wait]
  /\ \A w \in Slots : ~Free(w) => waits[w].id \in Ids
  /\ client \in [Machines -> [url : Nat, node : {NoNode} \cup Node]]
  /\ access \in [Pairs -> [id : Nat, ans : {"none", "hold", "accept", "reject"}]]
  /\ nodes \subseteq Node /\ users \subseteq Users
  /\ logins \in Seq([id : Nat, registration : BOOLEAN, browser : Browsers])
  /\ \A s \in DOMAIN logins : logins[s].id \in Ids
  /\ pendingStates \subseteq DOMAIN logins /\ cookies \subseteq DOMAIN logins
  /\ confirm \subseteq Cookie /\ \A c \in confirm : c[2] \in Ids /\ c[3] <= tokens
  /\ tasks \in [Handlers -> {None} \cup Task]
  /\ \A h \in Handlers : ~Idle(h) =>
       IF tasks[h].pc \in {"state", "remove"} THEN tasks[h].login \in DOMAIN logins
       ELSE tasks[h].id \in Ids /\ (tasks[h].pc = "use" => tasks[h].login \in DOMAIN logins)
  /\ policy \in Policies /\ clearing \in BOOLEAN
  /\ lastAuth \in [Pairs -> Never..MaxTime]
  /\ clock \in 0..MaxTime /\ faults \in Nat /\ tokens \in Nat
  /\ proof \in [signed : SUBSET ((Browsers \cup {None}) \X Users \X Nat),
                passed : [Pairs -> [at : Never..MaxTime, gen : Int]], gen : Nat]

\* A device is only ever told that it is a node that was registered for its
\* own machine key, whichever URL it followed up and whoever finished the
\* request meanwhile (machineKeyMismatch in waitForFollowup).
FollowupsAreOwn ==
  \A m \in Machines : client[m].node # NoNode => client[m].node \in nodesOf(m)

\* A confirmation registers the device for the identity that signed in, in
\* that same browser, for that same link, also when another browser signs in
\* on the link before the first one confirms (RegisterConfirmHandler).
ConfirmedByOwner ==
  \A h \in Handlers : ~Idle(h) /\ tasks[h].by # None =>
    <<tasks[h].by[1], tasks[h].user, tasks[h].id>> \in proof.signed

\* A request that produced a node is found by nobody any more, but for the
\* time a handler takes to finish it: the link is spent
\* (HandleNodeFromAuthPath removes it from the cache).
SpentLinksAreGone ==
  \A id \in Ids : InCache(id) /\ reqs[id].registered =>
    \E h \in Handlers : ~Idle(h) /\ tasks[h].id = id /\ tasks[h].pc \in {"finish", "forget"}

\* A connection is accepted without a check only when the same pair passed one
\* within the current policy's check period and since the approvals were last
\* cleared (sshAction, ClearSSHCheckAuth).
ApprovedInTime ==
  \A p \in Pairs :
    access'[p] # access[p] /\ access'[p] = [id |-> 0, ans |-> "accept"]
    => proof.passed[p].gen = proof.gen /\ clock - proof.passed[p].at < policy.period

\* Every step is such (sshAction, ClearSSHCheckAuth).
AutoApprovalIsCurrent == [][ApprovedInTime]_vars

\* Every parked follow-up is answered in the end: by a verdict, or because the
\* cache let the request go (the eviction callback of NewState).
WaitersAnswered ==
  \A w \in Slots : ~Free(w) ~> Free(w)

\* A device whose registration was completed learns of it, even if the answer
\* that carried the verdict was lost, its request was given up, or the server
\* restarted (handleRegister recognises the node by its key).
RegisteredClientsLearn ==
  \A m \in Machines : nodesOf(m) # {} ~> client[m].node # NoNode

\* Every node belongs to an identity that signed in, or that an administrator
\* named, on a link made for the node's own machine key: no interleaving of
\* sign-ins, confirmations and crashes gives a device to someone else's login
\* (beginRegistrationConfirmation, HandleNodeFromAuthPath).
NodesAreSignedFor ==
  \A n \in nodes : \E b \in Browsers \cup {None}, id \in Ids :
    reqs[id].subject = n[1] /\ <<b, n[2], id>> \in proof.signed

\* What a registration link is good for: a node for who signed in on it, in
\* the browser that confirms it, and nothing once it has been used.  Handlers
\* that look the link up before the first of them is done may still each
\* register the device, for their own identity: HandleNodeFromAuthPath does
\* not look again when it has the device's lock.
LinksBindIdentities == ConfirmedByOwner /\ NodesAreSignedFor /\ SpentLinksAreGone

\* Every parked follow-up is answered, and a registered device learns of it.
AnswersArrive == WaitersAnswered /\ RegisteredClientsLearn

\* The comment of AuthVerdict: "If Err is not nil, the authentication process
\* has failed and the node should not be authenticated."  No follow-up of an
\* SSH check that failed is accepted.
FailedChecksAreRefused ==
  \A p \in Pairs : access[p].ans = "accept" /\ access[p].id # 0 =>
    ~reqs[access[p].id].verdict.err
=============================================================================
