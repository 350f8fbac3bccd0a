---------------------------- MODULE AuthFlowProofs ----------------------------
(***************************************************************************)
(* What AuthFlow guarantees for any values of its constants.  The steps of *)
(* browsers and administrators keep the invariant of AuthFlowInvariant,    *)
(* and the theorems follow from it.                                        *)
(***************************************************************************)
EXTENDS AuthFlowInvariant

(* A leaf that names no prover is tried with SMT, with Zenon, and with SMT  *)
(* once more.                                                               *)
USE SMT, Zenon, SMTT(60)

(* Signing in.                                                              *)

\* The identifiers are numbers and name requests.
LEMMA IdFacts ==
  ASSUME CacheInv, NEW id \in Ids
  PROVE  id \in Nat /\ reqs[id] \in Request
<1>1. reqs \in Seq(Request) /\ Len(reqs) \in Nat /\ DOMAIN reqs = 1..Len(reqs)
  BY DEF CacheInv
<1>2. QED
  BY <1>1 DEF Ids

\* The entries of a sequence.
LEMMA EntryIn ==
  ASSUME NEW S, NEW q \in Seq(S), NEW k \in DOMAIN q
  PROVE  k \in Nat /\ q[k] \in S
OBVIOUS

\* What is recorded of a login.
LEMMA LoginFacts ==
  ASSUME LoginInv, NEW s \in DOMAIN logins
  PROVE  s \in Nat /\ logins[s].browser \in Browsers /\ logins[s].id \in Ids
<1> DEFINE Login == [id : Nat, registration : BOOLEAN, browser : Browsers]
<1>1. logins \in Seq(Login)
  BY DEF LoginInv
<1>2. s \in Nat /\ logins[s] \in Login
  <2> HIDE DEF Login
  <2>1. QED
    BY <1>1, EntryIn, Zenon
<1>3. QED
  BY <1>2 DEF LoginInv

\* The parts of the invariant that a step leaves alone when it touches neither
\* the requests nor the waits, the clients, the nodes and the checks.
LEMMA BrowserKeeps ==
  ASSUME AuthInv, CacheInv', Quiet, users' \subseteq Users,
         proof'.passed = proof.passed, proof'.gen = proof.gen,
         UNCHANGED <<waits, client, nodes, faults, access, policy, clearing, lastAuth, clock>>
  PROVE  WaitInv' /\ NodeInv' /\ ClientInv' /\ CheckInv'
<1>1. CacheInv /\ WaitInv /\ NodeInv /\ ClientInv /\ CheckInv /\ Calm /\ faults' \in Nat
  BY DEF AuthInv, Quiet, CheckInv
<1>2. QED
  BY <1>1, WaitKept, NodeKept, ClientKept, CheckKept, Zenon

\* A calm step with the same logins and sign-ins takes nothing away.
LEMMA CalmGrows ==
  ASSUME CacheInv, Calm, DOMAIN logins \subseteq DOMAIN logins',
         proof.signed \subseteq proof'.signed, nodes \subseteq nodes'
  PROVE  Grows
BY IdsGrow, Zenon DEF Grows, Calm

\* A browser opens a link.
LEMMA AuthHandler ==
  ASSUME AuthInv, NEW b \in Browsers, NEW id \in Ids, NEW r \in scope.routes, authHandler(b, id, r)
  PROVE  AuthInv'
<1> DEFINE s == Len(logins) + 1
           new == [id |-> id, registration |-> r, browser |-> b]
           Login == [id : Nat, registration : BOOLEAN, browser : Browsers]
<1>1. /\ UNCHANGED <<waits, client, nodes, users, tasks, clock, scope, faults, proof, confirm, tokens,
                     reqs, lru, stale, access, hosts, policy, clearing, lastAuth>>
      /\ logins' = Append(logins, new)
      /\ pendingStates' = pendingStates \cup {s} /\ cookies' = cookies \cup {s}
  BY DEF authHandler, timeVars, sshVars, authVars
<1>2. CacheInv /\ NodeInv /\ LoginInv /\ ConfirmInv /\ TaskInv /\ SpentInv
  BY DEF AuthInv
<1>3. CacheInv' /\ Quiet /\ Calm
  BY <1>1, <1>2, SameCache, Zenon DEF Quiet
<1>4. r \in BOOLEAN /\ id \in Nat
  BY <1>2, AuthAssumption DEF CacheInv, Ids
<1>5. new \in Login /\ new.id = id
  BY <1>4
<1> HIDE DEF new
<1>6. logins \in Seq(Login) /\ Len(logins) \in Nat /\ DOMAIN logins = 1..Len(logins)
  BY <1>2 DEF LoginInv
<1>7. /\ logins' \in Seq(Login) /\ DOMAIN logins' = 1..s /\ logins'[s] = new
      /\ \A k \in 1..Len(logins) : logins'[k] = logins[k]
  BY <1>1, <1>5, <1>6
<1>8. DOMAIN logins \subseteq DOMAIN logins' /\ s \in DOMAIN logins'
      /\ \A k \in DOMAIN logins' : k \in DOMAIN logins \/ k = s
  BY <1>6, <1>7
<1>9. LoginInv'
  <2>1. Ids' = Ids
    BY <1>1 DEF Ids
  <2>2. \A k \in DOMAIN logins' : logins'[k].id \in Ids
    BY <1>2, <1>5, <1>6, <1>7, <1>8, Zenon DEF LoginInv
  <2>3. QED
    BY <1>1, <1>2, <1>7, <1>8, <2>1, <2>2, Zenon DEF LoginInv
<1>10. WaitInv' /\ NodeInv' /\ ClientInv' /\ CheckInv'
  BY <1>1, <1>2, <1>3, BrowserKeeps, Zenon DEF NodeInv
<1>11. ProofType'
  BY <1>1, ProofTyped DEF ProofType
<1>12. ConfirmInv'
  BY <1>1, <1>2, <1>3, <1>11, ConfirmKept, Zenon
<1>13. TaskInv' /\ SpentInv'
  BY <1>1, <1>2, <1>3, <1>8, CalmGrows, TaskKept, SpentKept, Zenon
<1>14. QED
  BY <1>3, <1>9, <1>10, <1>12, <1>13 DEF AuthInv

\* A handler moves on and the requests, their cache and the cookies only lose.
LEMMA HandlerSteps ==
  ASSUME AuthInv, NEW h \in Handlers, NEW t \in {None} \cup Task,
         tasks' = [tasks EXCEPT ![h] = t],
         t # None => GoodTask(t, DOMAIN logins, Ids, proof.signed, reqs, nodes),
         Finishing(tasks[h]) => Finishing(t) /\ t.id = tasks[h].id,
         CacheInv', Quiet, users' \subseteq Users,
         pendingStates' \subseteq pendingStates, cookies' \subseteq cookies,
         UNCHANGED <<waits, client, nodes, faults, proof, logins, confirm, tokens, access, policy,
                     clearing, lastAuth, clock>>
  PROVE  AuthInv'
<1>1. CacheInv /\ NodeInv /\ LoginInv /\ ConfirmInv /\ TaskInv /\ SpentInv /\ Calm
  BY Zenon DEF AuthInv, Quiet
<1>2. WaitInv' /\ NodeInv' /\ ClientInv' /\ CheckInv'
  BY BrowserKeeps
<1>3. ProofType'
  BY ProofTyped DEF ProofType
<1>4. LoginInv' /\ ConfirmInv'
  BY <1>1, <1>3, LoginKept, ConfirmKept
<1>5. Grows
  BY <1>1, CalmGrows, Zenon
<1>6. t # None => GoodTask(t, DOMAIN logins', Ids', proof'.signed, reqs', nodes')
  <2> SUFFICES ASSUME t # None PROVE GoodTask(t, DOMAIN logins', Ids', proof'.signed, reqs', nodes')
    OBVIOUS
  <2>1. GoodTask(t, DOMAIN logins, Ids, proof.signed, reqs, nodes)
    OBVIOUS
  <2>2. QED
    BY <1>5, <2>1, GoodKept, Zenon DEF Grows
<1>7. TaskInv'
  BY <1>1, <1>5, <1>6, TaskRun, Zenon
<1>8. SpentInv'
  BY <1>1, SpentRun, Zenon
<1>9. QED
  BY <1>2, <1>4, <1>7, <1>8 DEF AuthInv

\* Only idle handlers of the scope are taken.
LEMMA IdleHandler ==
  ASSUME AuthInv, NEW h \in idle
  PROVE  h \in Handlers /\ tasks[h] = None
<1> DEFINE hs == {k \in scope.handlers : Idle(k)}
<1>1. hs # {} /\ h = CHOOSE k \in hs : TRUE
  BY DEF idle
<1>2. h \in hs
  BY <1>1
<1>3. scope.handlers \subseteq Handlers
  BY AuthAssumption DEF AuthInv, CacheInv
<1>4. QED
  BY <1>2, <1>3 DEF Idle

\* What is known of a handler at work.
LEMMA BusyHandler ==
  ASSUME AuthInv, NEW h \in scope.handlers, ~Idle(h)
  PROVE  /\ h \in Handlers /\ tasks[h] \in Task /\ tasks[h] # None
         /\ GoodTask(tasks[h], DOMAIN logins, Ids, proof.signed, reqs, nodes)
<1>1. h \in Handlers
  BY AuthAssumption, Zenon DEF AuthInv, CacheInv
<1>2. QED
  BY <1>1, Zenon DEF AuthInv, TaskInv, Idle

\* The provider sends the browser back.
LEMMA Callback ==
  ASSUME AuthInv, NEW h \in idle, NEW s \in DOMAIN logins, NEW u \in Accounts[logins[s].browser],
         OIDCCallbackHandler(h, s, u)
  PROVE  AuthInv'
<1>1. UNCHANGED <<waits, client, nodes, clock, scope, faults, proof, logins, pendingStates, confirm,
                  tokens, reqs, lru, stale, access, hosts, policy, clearing, lastAuth>>
  BY Zenon DEF OIDCCallbackHandler, timeVars, sshVars, authVars
<1>2. h \in Handlers /\ tasks[h] = None
  BY IdleHandler, Zenon
<1>3. CacheInv /\ NodeInv /\ LoginInv /\ TaskInv
  BY Zenon DEF AuthInv
<1>4. CacheInv' /\ Quiet
  BY <1>1, <1>3, SameCache
<1>5. logins[s].browser \in Browsers /\ s \in Nat
  BY <1>3, LoginFacts
<1>6. u \in Users
  BY <1>5, AuthAssumption
<1> DEFINE t == [pc |-> "state", login |-> s, user |-> u, id |-> 0, by |-> None]
<1>7. CASE /\ users' = users \cup {u} /\ tasks' = [tasks EXCEPT ![h] = t] /\ UNCHANGED cookies
  <2>1. t \in Task /\ GoodTask(t, DOMAIN logins, Ids, proof.signed, reqs, nodes)
    BY <1>5, <1>6, Zenon DEF Task, GoodTask
  <2>2. ~Finishing(tasks[h]) /\ users' \subseteq Users
    BY <1>2, <1>3, <1>6, <1>7, Zenon DEF Finishing, NodeInv
  <2> HIDE DEF t
  <2>3. QED
    BY <1>1, <1>2, <1>4, <1>7, <2>1, <2>2, HandlerSteps, Zenon
<1>8. CASE cookies' = cookies \ {s} /\ UNCHANGED <<users, tasks>>
  <2>1. ~Finishing(tasks[h]) /\ users' \subseteq Users
    BY <1>2, <1>3, <1>8, Zenon DEF Finishing, NodeInv
  <2>2. tasks' = [tasks EXCEPT ![h] = None]
    BY <1>2, <1>3, <1>8, Zenon DEF TaskInv
  <2>3. QED
    BY <1>1, <1>2, <1>4, <1>8, <2>1, <2>2, HandlerSteps, Zenon
<1>9. QED
  BY <1>7, <1>8, Zenon DEF OIDCCallbackHandler, createOrUpdateUserFromClaim, Run

\* The state is read and removed.
LEMMA StateSteps ==
  ASSUME AuthInv, NEW h \in scope.handlers, stateGet(h) \/ stateRemove(h)
  PROVE  AuthInv'
<1>1. UNCHANGED <<waits, client, nodes, users, clock, scope, faults, proof, logins, confirm,
                  tokens, reqs, lru, stale, access, hosts, policy, clearing, lastAuth>>
  BY DEF stateGet, stateRemove, timeVars, sshVars, authVars
<1>2. /\ h \in Handlers /\ tasks[h] \in Task /\ tasks[h] # None
      /\ GoodTask(tasks[h], DOMAIN logins, Ids, proof.signed, reqs, nodes)
      /\ tasks[h].pc \in {"state", "remove"}
  BY BusyHandler DEF stateGet, stateRemove
<1>3. CacheInv /\ NodeInv /\ LoginInv
  BY DEF AuthInv
<1>4. CacheInv' /\ Quiet
  BY <1>1, <1>3, SameCache, Zenon
<1>5. users' \subseteq Users /\ ~Finishing(tasks[h])
  BY <1>1, <1>2, <1>3, Zenon DEF NodeInv, Finishing
<1>6. tasks[h].login \in DOMAIN logins /\ tasks[h].by = None
  BY <1>2 DEF GoodTask
<1>7. logins[tasks[h].login].id \in Ids /\ logins[tasks[h].login].id \in Nat
  BY <1>3, <1>6 DEF LoginInv, Ids
<1>8. CASE stateGet(h)
  <2> DEFINE t == [tasks[h] EXCEPT !.pc = "remove"]
  <2>1. CASE tasks' = [tasks EXCEPT ![h] = t] /\ UNCHANGED <<cookies, pendingStates>>
    <3>1. t \in Task /\ t.pc = "remove" /\ t.login = tasks[h].login /\ t.by = None
      BY <1>2, <1>6 DEF Task
    <3>2. GoodTask(t, DOMAIN logins, Ids, proof.signed, reqs, nodes)
      BY <1>6, <3>1 DEF GoodTask
    <3> HIDE DEF t
    <3>3. QED
      BY <1>1, <1>2, <1>4, <1>5, <2>1, <3>1, <3>2, HandlerSteps, Zenon
  <2>2. CASE /\ tasks' = [tasks EXCEPT ![h] = None] /\ cookies' = cookies \ {tasks[h].login}
             /\ UNCHANGED pendingStates
    BY <1>1, <1>2, <1>4, <1>5, <2>2, HandlerSteps, Zenon
  <2>3. QED
    BY <1>8, <2>1, <2>2 DEF stateGet, Run, Return
<1>9. CASE stateRemove(h)
  <2> DEFINE t == [tasks[h] EXCEPT !.pc = "use", !.id = logins[tasks[h].login].id]
  <2>1. /\ tasks' = [tasks EXCEPT ![h] = t] /\ UNCHANGED cookies
        /\ pendingStates' = pendingStates \ {tasks[h].login}
    BY <1>9 DEF stateRemove, Run
  <2>2. /\ t \in Task /\ t.pc = "use" /\ t.login = tasks[h].login /\ t.by = None
        /\ t.id = logins[tasks[h].login].id
    BY <1>2, <1>6, <1>7, Zenon DEF Task
  <2> HIDE DEF t
  <2>3. GoodTask(t, DOMAIN logins, Ids, proof.signed, reqs, nodes)
    BY <1>6, <1>7, <2>2, Zenon DEF GoodTask
  <2>4. QED
    BY <1>1, <1>2, <1>4, <1>5, <2>1, <2>2, <2>3, HandlerSteps, Zenon
<1>10. QED
  BY <1>8, <1>9, Zenon

\* A field of one request changes.
LEMMA EditFacts ==
  ASSUME CacheInv, NEW id \in Ids, NEW new \in Request, new.kind = reqs[id].kind,
         new.subject = reqs[id].subject, reqs' = [reqs EXCEPT ![id] = new],
         scope' = scope, lru' \in Seq(Nat), Unique(lru'), Len(lru') <= Len(lru),
         Entries(lru') = Cached, stale' = stale
  PROVE  /\ CacheInv' /\ Ids' = Ids /\ Cached' = Cached
         /\ \A j \in Ids : reqs'[j] = IF j = id THEN new ELSE reqs[j]
<1>1. reqs \in Seq(Request) /\ DOMAIN reqs = 1..Len(reqs) /\ Ids = 1..Len(reqs) /\ Len(reqs) \in Nat
  BY DEF CacheInv, Ids
<1>2. reqs' = [j \in 1..Len(reqs) |-> IF j = id THEN new ELSE reqs[j]]
  BY <1>1, Zenon
<1>3. reqs' \in Seq(Request) /\ Len(reqs') = Len(reqs)
  BY <1>1, <1>2
<1>4. Ids' = Ids /\ Cached' = Cached
  BY <1>3, Zenon DEF Ids, Cached, Entries
<1>5. \A j \in Ids : reqs'[j] = IF j = id THEN new ELSE reqs[j]
  BY <1>1, <1>2
<1>6. \A j \in Ids : Fits(reqs'[j])
  BY <1>5 DEF CacheInv, Fits
<1>7. Len(lru') <= MaxEntries
  <2>1. Len(lru') \in Nat /\ Len(lru) \in Nat /\ Len(lru) <= MaxEntries /\ MaxEntries \in Nat
    BY AuthAssumption DEF CacheInv
  <2>2. QED
    BY <2>1
<1>8. CacheInv'
  BY <1>3, <1>4, <1>6, <1>7, Zenon DEF CacheInv
<1>9. QED
  BY <1>4, <1>5, <1>8

\* A sign-in is bound to the link under a fresh token: the cookies of earlier
\* sign-ins on the link no longer fit.
LEMMA BindIdentity ==
  ASSUME AuthInv, NEW h \in scope.handlers, callbackUse(h),
         logins[tasks[h].login].registration, InCache(tasks[h].id), reqs[tasks[h].id].kind = "reg"
  PROVE  AuthInv'
<1> DEFINE t == tasks[h]
           id == t.id
           b == logins[t.login].browser
           token == tokens + 1
           pend == [user |-> t.user, token |-> token]
           new == [reqs[id] EXCEPT !.pending = pend]
           cookie == <<b, id, token, FALSE>>
           sign == <<b, t.user, id>>
<1>1. UNCHANGED <<waits, client, nodes, users, clock, scope, faults, logins, pendingStates,
                  stale, access, hosts, policy, clearing, lastAuth>>
  BY Zenon DEF callbackUse, timeVars, sshVars
<1>2. /\ h \in Handlers /\ t \in Task /\ t # None /\ t.pc = "use"
      /\ GoodTask(t, DOMAIN logins, Ids, proof.signed, reqs, nodes)
  BY BusyHandler, Zenon DEF callbackUse
<1>3. /\ CacheInv /\ WaitInv /\ NodeInv /\ ClientInv /\ LoginInv /\ ConfirmInv /\ TaskInv /\ SpentInv
      /\ CheckInv
  BY Zenon DEF AuthInv
<1>4. /\ tasks' = [tasks EXCEPT ![h] = None]
      /\ tokens' = token /\ reqs' = [reqs EXCEPT ![id].pending = pend]
      /\ confirm' = {c \in confirm : <<c[1], c[2]>> # <<b, id>>} \cup {cookie}
      /\ proof' = [proof EXCEPT !.signed = @ \cup {sign}]
      /\ lru' = (IF InCache(id) THEN Touch(id) ELSE lru) /\ cookies' = cookies \ {t.login}
  BY Zenon DEF callbackUse, beginRegistrationConfirmation, Return, Run
<1>5. /\ id \in Ids /\ id \in Nat /\ t.user \in Users /\ b \in Browsers
      /\ tokens \in Nat /\ token \in Nat
  <2>1. t.login \in DOMAIN logins /\ id \in Ids
    BY <1>2 DEF GoodTask
  <2>2. id \in Nat /\ t.user \in Users /\ tokens \in Nat
    BY <1>2, <1>3, Zenon DEF Task, ConfirmInv
  <2>3. QED
    BY <1>3, <2>1, <2>2, LoginFacts
<1>6. /\ new \in Request /\ new.kind = reqs[id].kind /\ new.subject = reqs[id].subject
      /\ new.pending = pend /\ new.registered = reqs[id].registered
      /\ new.verdict = reqs[id].verdict /\ pend.user = t.user /\ pend.token = token
  <2>1. reqs[id] \in Request /\ pend \in Pending
    BY <1>3, <1>5 DEF CacheInv, Pending, Ids
  <2>2. QED
    BY <2>1, Zenon DEF Request
<1>7. reqs' = [reqs EXCEPT ![id] = new]
  BY <1>4
<1>8. cookie \in Cookie /\ sign \in (Browsers \cup {None}) \X Users \X Nat
  BY <1>5, Zenon DEF Cookie
<1>9. cookie[1] = b /\ cookie[2] = id /\ cookie[3] = token
  OBVIOUS
<1>10. proof' = [signed |-> proof.signed \cup {sign}, passed |-> proof.passed, gen |-> proof.gen]
  BY <1>4, ProofTyped, Zenon
<1> HIDE DEF t, b, token, pend, new, cookie, sign
<1>11. /\ proof'.signed = proof.signed \cup {sign} /\ proof'.passed = proof.passed
       /\ proof'.gen = proof.gen /\ ProofType'
  BY <1>8, <1>10, ProofTyped, Zenon DEF ProofType
<1>12. /\ lru' \in Seq(Nat) /\ Unique(lru') /\ Len(lru') <= Len(lru) /\ Entries(lru') = Cached
  BY <1>3, <1>4, <1>5, LookupFacts, Zenon
<1>13. /\ CacheInv' /\ Ids' = Ids /\ Cached' = Cached
       /\ \A j \in Ids : reqs'[j] = IF j = id THEN new ELSE reqs[j]
  BY <1>1, <1>3, <1>5, <1>6, <1>7, <1>12, EditFacts, Zenon
<1>14. NodeInv' /\ WaitInv' /\ ClientInv' /\ CheckInv'
  <2>1. NodeInv'
    BY <1>1, <1>3, <1>6, <1>13 DEF NodeInv
  <2>2. WaitInv'
    BY <1>1, <1>3, <1>13, Zenon DEF WaitInv
  <2>3. ClientInv'
    BY <1>1, <1>3, ClientKept, Zenon
  <2>4. CheckInv'
    BY <1>1, <1>3, <1>11, CheckKept, Zenon DEF CheckInv
  <2>5. QED
    BY <2>1, <2>2, <2>3, <2>4, Zenon
<1>15. LoginInv'
  BY <1>1, <1>3, <1>4, <1>13, Zenon DEF LoginInv
<1>16. ConfirmInv'
  <2>1. confirm' \subseteq Cookie
    BY <1>3, <1>4, <1>8 DEF ConfirmInv
  <2>2. ASSUME NEW c \in confirm'
        PROVE  /\ c[2] \in Ids' /\ c[3] <= tokens'
               /\ reqs'[c[2]].pending # None /\ reqs'[c[2]].pending.token = c[3]
                  => <<c[1], reqs'[c[2]].pending.user, c[2]>> \in proof'.signed
    <3>1. CASE c = cookie
      <4>1. c[2] \in Ids' /\ c[3] = tokens' /\ reqs'[c[2]] = new
        BY <1>4, <1>5, <1>9, <1>13, <3>1, Zenon
      <4>2. <<c[1], new.pending.user, c[2]>> = sign
        BY <1>6, <1>9, <3>1 DEF sign
      <4>3. QED
        <5>1. sign \in proof'.signed /\ c[3] <= tokens'
          BY <1>4, <1>5, <1>11, <4>1
        <5>2. QED
          BY <4>1, <4>2, <5>1, Zenon
    <3>2. CASE c \in confirm
      <4>1. /\ c[2] \in Ids /\ c[3] <= tokens /\ c[3] \in Nat
            /\ reqs[c[2]].pending # None /\ reqs[c[2]].pending.token = c[3]
               => <<c[1], reqs[c[2]].pending.user, c[2]>> \in proof.signed
        BY <1>3, <3>2, Zenon DEF ConfirmInv, Cookie
      <4>2. c[3] <= tokens' /\ c[3] # token
        BY <1>4, <1>5, <4>1 DEF token
      <4>3. CASE c[2] = id
        BY <1>6, <1>13, <4>1, <4>2, <4>3, Zenon
      <4>4. CASE c[2] # id
        BY <1>11, <1>13, <4>1, <4>2, <4>4, Zenon
      <4>5. QED
        BY <4>3, <4>4, Zenon
    <3>3. QED
      BY <1>4, <3>1, <3>2
  <2>3. QED
    BY <1>4, <1>5, <1>11, <2>1, <2>2, Zenon DEF ConfirmInv
<1>17. Grows
  BY <1>1, <1>6, <1>11, <1>13, Zenon DEF Grows
<1>18. TaskInv'
  BY <1>1, <1>2, <1>3, <1>4, <1>17, TaskRun, Zenon
<1>19. SpentInv'
  <2>1. \A k \in Handlers : Finishing(tasks[k]) => tasks'[k] = tasks[k]
    BY <1>2, <1>3, <1>4, Zenon DEF TaskInv, Finishing, t
  <2>2. \A j \in Cached : j \in Ids /\ reqs'[j].registered = reqs[j].registered
    BY <1>3, <1>6, <1>13, Zenon DEF CacheInv
  <2>3. QED
    BY <1>3, <1>13, <2>1, <2>2 DEF SpentInv, Finishing
<1>20. QED
  BY <1>13, <1>14, <1>15, <1>16, <1>18, <1>19, Zenon DEF AuthInv

\* The other callbacks: the link is gone, or an SSH check is approved.
LEMMA CallbackUse ==
  ASSUME AuthInv, NEW h \in scope.handlers, callbackUse(h)
  PROVE  AuthInv'
<1>1. CASE /\ logins[tasks[h].login].registration
           /\ InCache(tasks[h].id) /\ reqs[tasks[h].id].kind = "reg"
  BY <1>1, BindIdentity
<1>2. CASE ~(/\ logins[tasks[h].login].registration
             /\ InCache(tasks[h].id) /\ reqs[tasks[h].id].kind = "reg")
  <2>1. UNCHANGED <<waits, client, nodes, users, clock, scope, faults, logins, pendingStates,
                    stale, access, hosts, policy, clearing, lastAuth>>
    BY Zenon DEF callbackUse, timeVars, sshVars
  <2>2. /\ h \in Handlers /\ tasks[h] \in Task /\ tasks[h] # None /\ tasks[h].pc = "use"
        /\ GoodTask(tasks[h], DOMAIN logins, Ids, proof.signed, reqs, nodes)
    BY BusyHandler, Zenon DEF callbackUse
  <2>3. CacheInv /\ NodeInv
    BY Zenon DEF AuthInv
  <2>4. tasks[h].id \in Ids
    BY <2>2, Zenon DEF GoodTask
  <2>5. /\ tasks' = [tasks EXCEPT ![h] = None] /\ UNCHANGED <<tokens, confirm, proof>>
        /\ reqs' \in {reqs, FinishAuth(reqs, tasks[h].id, NoVerdict)}
        /\ lru' = IF InCache(tasks[h].id) THEN Touch(tasks[h].id) ELSE lru
        /\ cookies' = cookies \ {tasks[h].login}
    BY <1>2, Zenon DEF callbackUse, beginRegistrationConfirmation, Return, Run
  <2>6. Alike(reqs, reqs', NoVerdict)
    <3>1. /\ reqs \in Seq(Request) /\ tasks[h].id \in 1..Len(reqs)
          /\ NoVerdict \in Verdict
      BY <2>3, <2>4 DEF CacheInv, Ids, Verdict, NoVerdict
    <3>2. QED
      BY <2>3, <2>5, <3>1, AlikeSelf, FinishFacts, Zenon
  <2>7. CacheInv' /\ Quiet
    BY <2>1, <2>3, <2>4, <2>5, <2>6, LookupQuiet, Zenon
  <2>8. ~Finishing(tasks[h]) /\ users' \subseteq Users
    BY <2>1, <2>2, <2>3, Zenon DEF Finishing, NodeInv
  <2>9. QED
    BY <2>1, <2>2, <2>5, <2>7, <2>8, HandlerSteps, Zenon
<1>3. QED
  BY <1>1, <1>2, Zenon

\* The page with the form is shown.
LEMMA ConfirmGet ==
  ASSUME AuthInv, NEW c \in confirm, RegisterConfirmGetHandler(c)
  PROVE  AuthInv'
<1> DEFINE d == <<c[1], c[2], c[3], TRUE>>
<1>1. /\ UNCHANGED <<reqs, waits, client, nodes, users, tasks, clock, scope, faults, proof, logins,
                     pendingStates, cookies, tokens, access, hosts, policy, clearing, lastAuth>>
      /\ confirm' = (confirm \ {c}) \cup {d} /\ lru' = Touch(c[2]) /\ stale' = stale /\ InCache(c[2])
  BY DEF RegisterConfirmGetHandler, timeVars, sshVars, GetAuthCacheEntry, pendingFor
<1>2. CacheInv /\ NodeInv /\ LoginInv /\ ConfirmInv /\ TaskInv /\ SpentInv
  BY DEF AuthInv
<1>3. c \in Cookie /\ c[2] \in Ids
  BY <1>2, Zenon DEF ConfirmInv
<1>4. d \in Cookie /\ d[1] = c[1] /\ d[2] = c[2] /\ d[3] = c[3]
  BY <1>3, Zenon DEF Cookie
<1> HIDE DEF d
<1>5. CacheInv' /\ Quiet /\ Calm
  BY <1>1, <1>2, <1>3, AlikeSelf, LookupQuiet, Zenon DEF Quiet
<1>6. WaitInv' /\ NodeInv' /\ ClientInv' /\ CheckInv'
  BY <1>1, <1>2, <1>5, BrowserKeeps, Zenon DEF NodeInv
<1>7. LoginInv'
  BY <1>1, <1>2, <1>5, LoginKept, Zenon
<1>8. ConfirmInv'
  <2>1. ProofType' /\ Ids' = Ids
    BY <1>1, ProofTyped DEF ProofType, Ids
  <2>2. QED
    BY <1>1, <1>2, <1>4, <2>1, ZenonT(30) DEF ConfirmInv
<1>9. TaskInv' /\ SpentInv'
  BY <1>1, <1>2, <1>5, CalmGrows, TaskKept, SpentKept, Zenon
<1>10. QED
  BY <1>5, <1>6, <1>7, <1>8, <1>9, Zenon DEF AuthInv

\* The form is posted: the handler acts for who signed in.
LEMMA ConfirmPost ==
  ASSUME AuthInv, NEW h \in idle, NEW c \in confirm, RegisterConfirmHandler(h, c)
  PROVE  AuthInv'
<1> DEFINE id == c[2]
           t == [pc |-> "get", login |-> 0, user |-> reqs[id].pending.user, id |-> id, by |-> c]
<1>1. /\ UNCHANGED <<reqs, stale, waits, client, nodes, users, clock, scope, faults, proof, logins,
                     pendingStates, cookies, confirm, tokens, access, hosts, policy, clearing,
                     lastAuth>>
      /\ lru' = IF InCache(id) THEN Touch(id) ELSE lru
  BY Zenon DEF RegisterConfirmHandler, timeVars, sshVars, oidcVars
<1>2. h \in Handlers /\ tasks[h] = None
  BY IdleHandler
<1>3. CacheInv /\ NodeInv /\ ConfirmInv /\ TaskInv
  BY DEF AuthInv
<1>4. c \in Cookie /\ id \in Ids /\ id \in Nat
  BY <1>3, IdFacts, Zenon DEF ConfirmInv
<1>5. CacheInv' /\ Quiet
  BY <1>1, <1>3, <1>4, AlikeSelf, LookupQuiet
<1>6. users' \subseteq Users /\ ~Finishing(tasks[h])
  BY <1>1, <1>2, <1>3, Zenon DEF NodeInv, Finishing
<1>7. CASE pendingFor(id, c[3]) /\ tasks' = [tasks EXCEPT ![h] = t]
  <2>1. reqs[id].pending # None /\ reqs[id].pending.token = c[3]
    BY <1>7, Zenon DEF pendingFor
  <2>2. <<c[1], reqs[id].pending.user, id>> \in proof.signed
    BY <1>3, <2>1, Zenon DEF ConfirmInv
  <2>3. reqs[id].pending.user \in Users
    BY <1>3, <1>4, <2>1, IdFacts, Zenon DEF Request, Pending
  <2>4. /\ t \in Task /\ t.pc = "get" /\ t.id = id /\ t.by = c /\ t.user = reqs[id].pending.user
    BY <1>4, <2>3, Zenon DEF Task
  <2> HIDE DEF t, id
  <2>5. GoodTask(t, DOMAIN logins, Ids, proof.signed, reqs, nodes)
    <3>1. c[1] \in Browsers
      BY <1>4, Zenon DEF Cookie
    <3>2. Signed(t.user, t.id, proof.signed)
      BY <2>2, <2>4, <3>1, Zenon DEF Signed
    <3>3. QED
      BY <1>4, <2>2, <2>4, <3>2, Zenon DEF GoodTask
  <2>6. QED
    BY <1>1, <1>2, <1>5, <1>6, <1>7, <2>4, <2>5, HandlerSteps, Zenon
<1>8. CASE UNCHANGED tasks
  <2>1. tasks' = [tasks EXCEPT ![h] = None]
    BY <1>2, <1>3, <1>8 DEF TaskInv
  <2>2. QED
    BY <1>1, <1>2, <1>5, <1>6, <2>1, HandlerSteps, Zenon
<1>9. QED
  BY <1>7, <1>8, Zenon DEF RegisterConfirmHandler, Run

-----------------------------------------------------------------------------
(* Registering the device.                                                  *)

\* An administrator registers a device.
LEMMA RegisterByHand ==
  ASSUME AuthInv, NEW h \in idle, NEW id \in Ids, NEW u \in Users, RegisterNode(h, id, u)
  PROVE  AuthInv'
<1> DEFINE t == [pc |-> "get", login |-> 0, user |-> u, id |-> id, by |-> None]
           sign == <<None, u, id>>
<1>1. UNCHANGED <<waits, client, nodes, users, clock, scope, faults, logins, pendingStates,
                  cookies, confirm, tokens, reqs, lru, stale, access, hosts, policy, clearing,
                  lastAuth>>
  BY DEF RegisterNode, timeVars, sshVars, authVars, oidcVars
<1>2. h \in Handlers /\ tasks[h] = None
  BY IdleHandler
<1>3. /\ CacheInv /\ WaitInv /\ NodeInv /\ ClientInv /\ LoginInv /\ ConfirmInv /\ TaskInv /\ SpentInv
      /\ CheckInv
  BY DEF AuthInv
<1>4. CacheInv' /\ Quiet /\ Calm
  BY <1>1, <1>3, SameCache, Zenon DEF Quiet
<1>5. tasks' = [tasks EXCEPT ![h] = t] /\ proof' = [proof EXCEPT !.signed = @ \cup {sign}]
  BY DEF RegisterNode, Run
<1>6. t \in Task /\ t.pc = "get" /\ t.id = id /\ t.user = u /\ t.by = None /\ id \in Nat
  BY <1>3, IdFacts DEF Task
<1>7. sign \in (Browsers \cup {None}) \X Users \X Nat
  BY <1>6, Zenon
<1>8. proof' = [signed |-> proof.signed \cup {sign}, passed |-> proof.passed, gen |-> proof.gen]
  BY <1>5, ProofTyped, Zenon
<1>9. Signed(u, id, proof.signed \cup {sign})
  BY Zenon DEF Signed
<1> HIDE DEF t, sign
<1>10. /\ proof'.signed = proof.signed \cup {sign} /\ proof'.passed = proof.passed
       /\ proof'.gen = proof.gen /\ ProofType'
  BY <1>7, <1>8, ProofTyped, Zenon DEF ProofType
<1>11. Grows
  <2>1. proof.signed \subseteq proof'.signed
    BY <1>10, Zenon
  <2>2. QED
    BY <1>1, <1>3, <1>4, <2>1, CalmGrows, Zenon
<1>12. WaitInv' /\ NodeInv' /\ ClientInv' /\ CheckInv'
  <2>1. users' \subseteq Users
    BY <1>1, <1>3, Zenon DEF NodeInv
  <2>2. NodeInv'
    BY <1>1, <1>3, <1>4, <2>1, NodeKept, Zenon
  <2>3. WaitInv'
    BY <1>1, <1>3, <1>4, WaitKept, Zenon
  <2>4. ClientInv'
    BY <1>1, <1>3, ClientKept, Zenon
  <2>5. CheckInv'
    BY <1>1, <1>3, <1>10, CheckKept, Zenon DEF CheckInv
  <2>6. QED
    BY <2>2, <2>3, <2>4, <2>5, Zenon
<1>13. LoginInv' /\ ConfirmInv'
  <2>1. LoginInv'
    BY <1>1, <1>3, <1>4, LoginKept, Zenon
  <2>2. proof.signed \subseteq proof'.signed
    BY <1>10, Zenon
  <2>3. QED
    BY <1>1, <1>3, <1>4, <1>10, <2>1, <2>2, ConfirmKept, Zenon
<1>14. TaskInv'
  <2>1. id \in Ids'
    BY <1>11, Zenon DEF Grows
  <2>2. GoodTask(t, DOMAIN logins', Ids', proof'.signed, reqs', nodes')
    BY <1>6, <1>9, <1>10, <2>1, Zenon DEF GoodTask
  <2>3. QED
    BY <1>1, <1>2, <1>3, <1>5, <1>6, <1>11, <2>2, TaskRun, Zenon
<1>15. SpentInv'
  <2>1. ~Finishing(tasks[h])
    BY <1>2, Zenon DEF Finishing
  <2>2. QED
    BY <1>2, <1>3, <1>4, <1>5, <2>1, SpentRun, Zenon
<1>16. QED
  BY <1>4, <1>12, <1>13, <1>14, <1>15, Zenon DEF AuthInv

\* A user is removed.
LEMMA RemoveUser ==
  ASSUME AuthInv, NEW u \in Users, DestroyUser(u)
  PROVE  AuthInv'
<1>1. /\ UNCHANGED <<waits, client, nodes, tasks, clock, scope, faults, proof, logins, pendingStates,
                     cookies, confirm, tokens, reqs, lru, stale, access, hosts, policy, clearing,
                     lastAuth>>
      /\ users' = users \ {u}
  BY DEF DestroyUser, timeVars, sshVars, authVars, oidcVars
<1>2. CacheInv /\ NodeInv /\ LoginInv /\ ConfirmInv /\ TaskInv /\ SpentInv
  BY Zenon DEF AuthInv
<1>3. CacheInv' /\ Quiet /\ Calm
  BY <1>1, <1>2, SameCache, Zenon DEF Quiet
<1>4. WaitInv' /\ NodeInv' /\ ClientInv' /\ CheckInv'
  BY <1>1, <1>2, <1>3, BrowserKeeps, Zenon DEF NodeInv
<1>5. ProofType'
  BY <1>1, ProofTyped, Zenon DEF ProofType
<1>6. LoginInv' /\ ConfirmInv'
  BY <1>1, <1>2, <1>3, <1>5, LoginKept, ConfirmKept, Zenon
<1>7. TaskInv' /\ SpentInv'
  BY <1>1, <1>2, <1>3, CalmGrows, TaskKept, SpentKept, Zenon
<1>8. QED
  BY <1>3, <1>4, <1>6, <1>7, Zenon DEF AuthInv

\* The server restarts: what it held in memory is gone, what others rely on is
\* not.
LEMMA LostKeeps ==
  ASSUME AuthInv, Lost, faults' \in Nat
  PROVE  AuthInv'
<1>1. /\ lru' = <<>> /\ stale' = {} /\ waits' = [w \in Slots |-> None]
      /\ tasks' = [h \in Handlers |-> None] /\ pendingStates' = {}
      /\ lastAuth' = [p \in Pairs |-> Never] /\ clearing' = FALSE
      /\ proof' = [proof EXCEPT !.gen = @ + 1]
      /\ UNCHANGED <<reqs, client, access, nodes, users, logins, cookies, confirm, policy, clock,
                     scope, tokens>>
  BY DEF Lost, timeVars
<1>2. CacheInv /\ NodeInv /\ ClientInv /\ LoginInv /\ ConfirmInv /\ CheckInv
  BY DEF AuthInv
<1>3. Ids' = Ids /\ Cached' = {} /\ <<>> \in Seq(Nat) /\ Len(<<>>) = 0 /\ Unique(<<>>)
  BY <1>1 DEF Ids, Cached, Unique
<1>4. CacheInv'
  <2>1. Len(lru') <= MaxEntries /\ lru' \in Seq(Nat) /\ Unique(lru')
    BY <1>1, <1>3, AuthAssumption
  <2>2. QED
    BY <1>1, <1>2, <1>3, <2>1, Zenon DEF CacheInv
<1>5. WaitInv'
  BY <1>1 DEF WaitInv
<1>6. NodeInv' /\ ClientInv'
  BY <1>1, <1>2, <1>3, ClientKept, Zenon DEF NodeInv
<1>7. LoginInv'
  BY <1>1, <1>2, <1>3, Zenon DEF LoginInv
<1>8. proof' = [signed |-> proof.signed, passed |-> proof.passed, gen |-> proof.gen + 1]
  BY <1>1, ProofTyped, Zenon
<1>9. ProofType' /\ proof'.signed = proof.signed
  BY <1>8, ProofTyped DEF ProofType
<1>10. ConfirmInv'
  BY <1>1, <1>2, <1>3, <1>9, Zenon DEF ConfirmInv
<1>11. SpentInv' /\ TaskInv'
  <2>1. SpentInv'
    BY <1>3, Zenon DEF SpentInv
  <2>2. TaskInv /\ Grows
    BY <1>1, <1>3, <1>9, Zenon DEF AuthInv, Grows
  <2>3. \A n \in nodes' : SignedNode(n, Ids', proof'.signed, reqs')
    BY <1>1, <2>2, NodesKept, Zenon
  <2>4. tasks' \in [Handlers -> {None} \cup Task] /\ \A h \in Handlers : tasks'[h] = None
    BY <1>1
  <2>5. QED
    BY <2>1, <2>3, <2>4, Zenon DEF TaskInv
<1>12. CheckInv'
  <2>1. Never \in Never..MaxTime
    BY NeverIsReading, Zenon
  <2>2. lastAuth' \in [Pairs -> Never..MaxTime] /\ \A p \in Pairs : lastAuth'[p] = Never
    BY <1>1, <2>1
  <2>3. clearing' \in BOOLEAN
    BY <1>1, Zenon
  <2>4. QED
    BY <1>1, <1>2, <2>2, <2>3, Zenon DEF CheckInv
<1>13. QED
  BY <1>4, <1>5, <1>6, <1>7, <1>10, <1>11, <1>12, Zenon DEF AuthInv

\* HandleNodeFromAuthPath looks the request up.
LEMMA PathGet ==
  ASSUME AuthInv, NEW h \in scope.handlers, authPathGet(h)
  PROVE  AuthInv'
<1> DEFINE t == tasks[h]
           new == [t EXCEPT !.pc = "apply"]
<1>1. /\ h \in Handlers /\ t \in Task /\ t # None /\ t.pc = "get"
      /\ GoodTask(t, DOMAIN logins, Ids, proof.signed, reqs, nodes)
  BY BusyHandler, Zenon DEF authPathGet
<1>2. CacheInv /\ NodeInv /\ CheckInv
  BY Zenon DEF AuthInv
<1>3. CASE Lost /\ UNCHANGED faults
  BY <1>2, <1>3, LostKeeps, Zenon DEF CheckInv
<1>4. ASSUME ~(InCache(t.id) /\ t.user \in users /\ reqs[t.id].kind # "reg")
      PROVE  AuthInv'
  <2>1. /\ UNCHANGED <<reqs, stale, waits, client, nodes, users, clock, scope, faults, proof, logins,
                       pendingStates, cookies, confirm, tokens, access, hosts, policy, clearing,
                       lastAuth>>
        /\ lru' = IF InCache(t.id) THEN Touch(t.id) ELSE lru
        /\ IF InCache(t.id) /\ t.user \in users
           THEN tasks' = [tasks EXCEPT ![h] = new] ELSE tasks' = [tasks EXCEPT ![h] = None]
    BY <1>4 DEF authPathGet, timeVars, sshVars, oidcVars, Run, Return
  <2>2. t.id \in Ids
    BY <1>1, Zenon DEF GoodTask
  <2>3. CacheInv' /\ Quiet
    BY <1>2, <2>1, <2>2, AlikeSelf, LookupQuiet, Zenon
  <2>4. users' \subseteq Users /\ ~Finishing(tasks[h])
    BY <1>1, <1>2, <2>1 DEF NodeInv, Finishing
  <2>5. CASE InCache(t.id) /\ t.user \in users
    <3>1. reqs[t.id].subject \in Machines
      BY <1>2, <1>4, <2>2, <2>5, Zenon DEF CacheInv, Fits
    <3>2. /\ new \in Task /\ new.pc = "apply" /\ new.id = t.id /\ new.by = t.by
          /\ new.user = t.user
      BY <1>1 DEF Task
    <3> HIDE DEF new
    <3>3. GoodTask(new, DOMAIN logins, Ids, proof.signed, reqs, nodes)
      BY <1>1, <2>2, <3>1, <3>2, Zenon DEF GoodTask
    <3>4. QED
      BY <1>1, <2>1, <2>3, <2>4, <2>5, <3>2, <3>3, HandlerSteps, Zenon
  <2>6. CASE ~(InCache(t.id) /\ t.user \in users)
    BY <1>1, <2>1, <2>3, <2>4, <2>6, HandlerSteps, Zenon
  <2>7. QED
    BY <2>5, <2>6, Zenon
<1>5. QED
  BY <1>3, <1>4, Zenon DEF authPathGet

\* The node is created for the user the handler acts for.
LEMMA CreateNode ==
  ASSUME AuthInv, NEW h \in scope.handlers, authPathApply(h), tasks[h].user \in users
  PROVE  AuthInv'
<1> DEFINE t == tasks[h]
           id == t.id
           m == reqs[id].subject
           node == <<m, t.user>>
           new == [reqs[id] EXCEPT !.registered = TRUE]
           next == [t EXCEPT !.pc = "finish"]
<1>1. /\ UNCHANGED <<lru, stale, waits, client, users, clock, scope, faults, proof, logins,
                     pendingStates, cookies, confirm, tokens, access, hosts, policy, clearing,
                     lastAuth>>
      /\ nodes' = nodes \cup {node} /\ reqs' = [reqs EXCEPT ![id].registered = TRUE]
      /\ tasks' = [tasks EXCEPT ![h] = next]
  BY Zenon DEF authPathApply, timeVars, sshVars, oidcVars, Run
<1>2. /\ h \in Handlers /\ t \in Task /\ t # None /\ t.pc = "apply"
      /\ GoodTask(t, DOMAIN logins, Ids, proof.signed, reqs, nodes)
  BY BusyHandler DEF authPathApply
<1>3. /\ CacheInv /\ WaitInv /\ NodeInv /\ ClientInv /\ LoginInv /\ ConfirmInv /\ TaskInv /\ SpentInv
      /\ CheckInv
  BY DEF AuthInv
<1>4. id \in Ids /\ m \in Machines /\ t.user \in Users
  BY <1>2, Zenon DEF GoodTask, Task
<1>5. node \in Node
  BY <1>4, Zenon DEF Node
<1>6. /\ new \in Request /\ new.kind = reqs[id].kind /\ new.subject = m
      /\ new.pending = reqs[id].pending /\ new.registered = TRUE
      /\ new.verdict = reqs[id].verdict
  <2>1. reqs[id] \in Request
    BY <1>3, <1>4, IdFacts, Zenon
  <2>2. QED
    BY <2>1, Zenon DEF Request
<1>7. reqs' = [reqs EXCEPT ![id] = new]
  BY <1>1, Zenon
<1>8. /\ next \in Task /\ next.pc = "finish" /\ next.id = id /\ next.by = t.by
      /\ next.user = t.user
  BY <1>2, Zenon DEF Task
<1> HIDE DEF new, next
<1>9. /\ lru' \in Seq(Nat) /\ Unique(lru') /\ Len(lru') <= Len(lru) /\ Entries(lru') = Cached
  BY <1>1, <1>3 DEF CacheInv, Entries, Cached
<1>10. /\ CacheInv' /\ Ids' = Ids /\ Cached' = Cached
       /\ \A j \in Ids : reqs'[j] = IF j = id THEN new ELSE reqs[j]
  BY <1>1, <1>3, <1>4, <1>6, <1>7, <1>9, EditFacts, ZenonT(30)
<1>11. \A j \in Ids : /\ reqs'[j].subject = reqs[j].subject /\ reqs'[j].pending = reqs[j].pending
                      /\ reqs'[j].verdict = reqs[j].verdict
  BY <1>6, <1>10, Zenon
<1>12. WaitInv' /\ LoginInv'
  BY <1>1, <1>3, <1>10, Zenon DEF WaitInv, LoginInv
<1>13. NodeInv' /\ ClientInv'
  <2>1. nodes \subseteq nodes' /\ nodes' \subseteq Node
    BY <1>1, <1>3, <1>5, Zenon DEF NodeInv
  <2>2. NodeInv'
    BY <1>1, <1>3, <1>10, <1>11, <2>1, Zenon DEF NodeInv
  <2>3. QED
    BY <1>1, <1>3, <2>1, <2>2, ClientKept, Zenon
<1>14. ConfirmInv'
  <2>1. ProofType'
    BY <1>1, ProofTyped, Zenon DEF ProofType
  <2>2. QED
    BY <1>1, <1>3, <1>10, <1>11, <2>1, Zenon DEF ConfirmInv
<1>15. Grows
  BY <1>1, <1>10, <1>11, Zenon DEF Grows
<1>16. GoodTask(next, DOMAIN logins', Ids', proof'.signed, reqs', nodes')
  <2>1. reqs'[id].subject = m /\ <<m, next.user>> \in nodes'
    BY <1>1, <1>4, <1>8, <1>11, Zenon
  <2>2. next.by # None => <<next.by[1], next.user, id>> \in proof'.signed
    BY <1>1, <1>2, <1>8, Zenon DEF GoodTask
  <2>3. QED
    BY <1>4, <1>8, <1>10, <2>1, <2>2, Zenon DEF GoodTask
<1>17. TaskInv'
  <2>1. SignedNode(node, Ids', proof'.signed, reqs')
    <3>1. Signed(node[2], id, proof'.signed)
      BY <1>1, <1>2, Zenon DEF GoodTask
    <3>2. id \in Ids' /\ reqs'[id].subject = node[1]
      BY <1>4, <1>10, <1>11, Zenon
    <3>3. QED
      BY <3>1, <3>2, Zenon DEF SignedNode
  <2>2. \A n \in nodes' : n \in nodes \/ SignedNode(n, Ids', proof'.signed, reqs')
    BY <1>1, <2>1, Zenon
  <2>3. QED
    BY <1>2, <1>3, <1>1, <1>8, <1>15, <1>16, <2>2, TaskRun, Zenon
<1>18. SpentInv'
  <2> SUFFICES ASSUME NEW j \in Cached', reqs'[j].registered
               PROVE  \E k \in Handlers : Finishing(tasks'[k]) /\ tasks'[k].id = j
    BY DEF SpentInv, Finishing
  <2>1. \A k \in Handlers : tasks'[k] = IF k = h THEN next ELSE tasks[k]
    BY <1>1, <1>3, Zenon DEF TaskInv
  <2>2. CASE j = id
    <3>1. next # None
      BY <1>8, AuthAssumption
    <3>2. Finishing(tasks'[h]) /\ tasks'[h].id = j
      BY <1>2, <1>8, <2>1, <2>2, <3>1, Zenon DEF Finishing
    <3>3. QED
      BY <1>2, <3>2, Zenon
  <2>3. CASE j # id
    <3>1. j \in Cached /\ j \in Ids /\ reqs[j].registered
      BY <1>3, <1>10, <2>3 DEF CacheInv
    <3>2. PICK k \in Handlers : Finishing(tasks[k]) /\ tasks[k].id = j
      BY <1>3, <3>1, Zenon DEF SpentInv, Finishing
    <3>3. k # h
      BY <1>2, <3>2, Zenon DEF Finishing
    <3>4. QED
      BY <2>1, <3>2, <3>3, Zenon
  <2>4. QED
    BY <2>2, <2>3, Zenon
<1>19. CheckInv'
  BY <1>1, <1>3, CheckKept, Zenon DEF CheckInv
<1>20. QED
  BY <1>10, <1>12, <1>13, <1>14, <1>17, <1>18, <1>19, Zenon DEF AuthInv

\* Under the device's lock the node is created, unless the user went.
LEMMA PathApply ==
  ASSUME AuthInv, NEW h \in scope.handlers, authPathApply(h)
  PROVE  AuthInv'
<1>1. CASE tasks[h].user \in users
  BY <1>1, CreateNode
<1>2. CASE tasks[h].user \notin users
  <2>1. /\ UNCHANGED <<lru, stale, waits, client, users, clock, scope, faults, proof, logins,
                       pendingStates, cookies, confirm, tokens, access, hosts, policy, clearing,
                       lastAuth, nodes, reqs>>
        /\ tasks' = [tasks EXCEPT ![h] = None]
    BY <1>2, Zenon DEF authPathApply, timeVars, sshVars, oidcVars, Run, Return
  <2>2. h \in Handlers /\ tasks[h].pc = "apply"
    BY BusyHandler, Zenon DEF authPathApply
  <2>3. CacheInv /\ NodeInv
    BY DEF AuthInv
  <2>4. CacheInv' /\ Quiet
    BY <2>1, <2>3, SameCache, Zenon
  <2>5. ~Finishing(tasks[h]) /\ users' \subseteq Users
    BY <2>1, <2>2, <2>3, Zenon DEF Finishing, NodeInv
  <2>6. QED
    BY <2>1, <2>2, <2>4, <2>5, HandlerSteps, Zenon
<1>3. QED
  BY <1>1, <1>2, Zenon

\* The waiting client is told of the node.
LEMMA PathFinish ==
  ASSUME AuthInv, NEW h \in scope.handlers, authPathFinish(h)
  PROVE  AuthInv'
<1> DEFINE t == tasks[h]
           node == <<reqs[t.id].subject, t.user>>
           v == [err |-> FALSE, node |-> node]
           next == [t EXCEPT !.pc = "forget"]
<1>1. /\ UNCHANGED <<lru, stale, waits, client, nodes, users, clock, scope, faults, proof, logins,
                     pendingStates, cookies, confirm, tokens, access, hosts, policy, clearing,
                     lastAuth>>
      /\ reqs' = FinishAuth(reqs, t.id, v) /\ tasks' = [tasks EXCEPT ![h] = next]
  BY DEF authPathFinish, timeVars, sshVars, oidcVars, Run
<1>2. /\ h \in Handlers /\ t \in Task /\ t # None /\ t.pc = "finish"
      /\ GoodTask(t, DOMAIN logins, Ids, proof.signed, reqs, nodes)
  BY BusyHandler DEF authPathFinish
<1>3. /\ CacheInv /\ WaitInv /\ NodeInv /\ ClientInv /\ LoginInv /\ ConfirmInv /\ TaskInv /\ SpentInv
      /\ CheckInv
  BY DEF AuthInv
<1>4. t.id \in Ids /\ node \in nodes /\ node \in Node
  BY <1>2, <1>3, Zenon DEF GoodTask, NodeInv
<1>5. v \in Verdict /\ v.node = node
  BY <1>4, Zenon DEF Verdict
<1>6. /\ next \in Task /\ next.pc = "forget" /\ next.id = t.id /\ next.by = t.by
      /\ next.user = t.user /\ next # None
  BY <1>2, AuthAssumption, Zenon DEF Task
<1> HIDE DEF node, v, next
<1>7. reqs \in Seq(Request) /\ t.id \in 1..Len(reqs) /\ Len(reqs) \in Nat
  BY <1>3, <1>4 DEF CacheInv, Ids
<1>8. Alike(reqs, reqs', v)
  BY <1>1, <1>5, <1>7, FinishFacts, Zenon
<1>9. Ids' = Ids /\ Cached' = Cached /\ reqs' \in Seq(Request) /\ Len(reqs') = Len(reqs)
  BY <1>1, <1>8, Zenon DEF Alike, Ids, Cached
<1>10. \A j \in Ids : /\ reqs'[j].kind = reqs[j].kind /\ reqs'[j].subject = reqs[j].subject
                      /\ reqs'[j].pending = reqs[j].pending
                      /\ reqs'[j].registered = reqs[j].registered
                      /\ reqs'[j].verdict \in {reqs[j].verdict, v}
  BY <1>8 DEF Alike, Ids
<1>11. CacheInv'
  <2>1. \A j \in Ids : Fits(reqs'[j])
    BY <1>3, <1>10, Zenon DEF CacheInv, Fits
  <2>2. QED
    BY <1>1, <1>3, <1>9, <2>1, Zenon DEF CacheInv
<1>12. Calm
  BY <1>7, <1>9, <1>10 DEF Calm
<1>13. WaitInv' /\ LoginInv' /\ ClientInv' /\ CheckInv'
  BY <1>1, <1>3, <1>12, WaitKept, LoginKept, ClientKept, CheckKept, Zenon DEF CheckInv
<1>14. NodeInv'
  BY <1>1, <1>3, <1>4, <1>5, <1>9, <1>10, ZenonT(30) DEF NodeInv
<1>15. ConfirmInv'
  <2>1. ProofType'
    BY <1>1, ProofTyped DEF ProofType
  <2>2. QED
    BY <1>1, <1>3, <1>12, <2>1, ConfirmKept, Zenon
<1>16. Grows
  BY <1>1, <1>3, <1>12, CalmGrows, Zenon
<1>17. GoodTask(next, DOMAIN logins', Ids', proof'.signed, reqs', nodes')
  BY <1>1, <1>2, <1>4, <1>6, <1>9, Zenon DEF GoodTask
<1>18. TaskInv'
  BY <1>1, <1>2, <1>3, <1>6, <1>16, <1>17, TaskRun, Zenon
<1>19. SpentInv'
  <2>1. Finishing(next) /\ next.id = t.id
    BY <1>6 DEF Finishing
  <2>2. QED
    BY <1>1, <1>2, <1>3, <1>12, <2>1, SpentRun, Zenon
<1>20. QED
  BY <1>11, <1>13, <1>14, <1>15, <1>18, <1>19, Zenon DEF AuthInv

\* The request leaves the cache with its cookie.
LEMMA PathForget ==
  ASSUME AuthInv, NEW h \in scope.handlers, authPathForget(h)
  PROVE  AuthInv'
<1> DEFINE t == tasks[h]
           id == t.id
<1>1. /\ UNCHANGED <<reqs, waits, client, nodes, users, clock, scope, faults, proof, logins,
                     pendingStates, cookies, tokens, access, hosts, policy, clearing, lastAuth>>
      /\ confirm' \subseteq confirm /\ tasks' = [tasks EXCEPT ![h] = None]
      /\ lru' = Drop(lru, id) /\ stale' = stale \ {id}
  BY Zenon DEF authPathForget, timeVars, sshVars, Return, Run, Forget
<1>2. /\ h \in Handlers /\ t \in Task /\ t # None /\ t.pc = "forget"
      /\ GoodTask(t, DOMAIN logins, Ids, proof.signed, reqs, nodes)
  BY BusyHandler, Zenon DEF authPathForget
<1>3. CacheInv /\ NodeInv /\ LoginInv /\ ConfirmInv /\ TaskInv /\ SpentInv
  BY DEF AuthInv
<1>4. id \in Ids
  BY <1>2, Zenon DEF GoodTask
<1>5. CacheInv' /\ Quiet /\ Calm /\ Cached' = Cached \ {id}
  BY <1>1, <1>3, <1>4, AlikeSelf, DropQuiet, Zenon DEF Quiet
<1>6. WaitInv' /\ NodeInv' /\ ClientInv' /\ CheckInv'
  BY <1>1, <1>3, <1>5, BrowserKeeps, Zenon DEF NodeInv
<1>7. ProofType'
  BY <1>1, ProofTyped DEF ProofType
<1>8. LoginInv' /\ ConfirmInv'
  BY <1>1, <1>3, <1>5, <1>7, LoginKept, ConfirmKept, Zenon
<1>9. TaskInv'
  BY <1>1, <1>2, <1>3, <1>5, CalmGrows, TaskRun, Zenon
<1>10. SpentInv'
  <2> SUFFICES ASSUME NEW j \in Cached', reqs'[j].registered
               PROVE  \E k \in Handlers : Finishing(tasks'[k]) /\ tasks'[k].id = j
    BY DEF SpentInv, Finishing
  <2>1. j \in Cached /\ j # id /\ reqs[j].registered
    BY <1>1, <1>5, Zenon
  <2>2. PICK k \in Handlers : Finishing(tasks[k]) /\ tasks[k].id = j
    BY <1>3, <2>1, Zenon DEF SpentInv, Finishing
  <2>3. k # h
    BY <2>1, <2>2
  <2>4. tasks'[k] = tasks[k]
    BY <1>1, <1>3, <2>3, Zenon DEF TaskInv
  <2>5. QED
    BY <2>2, <2>4, Zenon
<1>11. QED
  BY <1>5, <1>6, <1>8, <1>9, <1>10, Zenon DEF AuthInv

-----------------------------------------------------------------------------
(* The invariant and what follows from it.                                  *)

\* It holds when the server starts.
LEMMA InitAuth ==
  ASSUME Init
  PROVE  AuthInv
<1>1. Ids = {} /\ Cached = {} /\ DOMAIN <<>> = {} /\ Len(<<>>) = 0 /\ Unique(<<>>)
  BY DEF Init, Ids, Cached, Unique
<1>2. CacheInv
  <2>1. reqs \in Seq(Request) /\ lru \in Seq(Nat) /\ Len(lru) <= MaxEntries
    BY <1>1, AuthAssumption DEF Init
  <2>2. Len(reqs) <= scope.sessions
    BY <1>1, AuthAssumption DEF Init
  <2>3. QED
    BY <1>1, <2>1, <2>2, Zenon DEF Init, CacheInv
<1>3. WaitInv /\ TaskInv
  BY Zenon DEF Init, WaitInv, TaskInv
<1>4. NodeInv
  BY <1>1, AuthAssumption, Zenon DEF Init, NodeInv
<1>5. ClientInv
  BY Zenon DEF Init, ClientInv, FollowupsAreOwn
<1>6. LoginInv
  BY <1>1 DEF Init, LoginInv
<1>7. ProofType
  <2>1. 0 \in Never..MaxTime /\ Never \in Int
    BY NeverIsReading
  <2>2. [p \in Pairs |-> [at |-> 0, gen |-> Never]] \in [Pairs -> [at : Never..MaxTime, gen : Int]]
    BY <2>1
  <2>3. QED
    BY <2>2, Zenon DEF Init, ProofType
<1>8. ConfirmInv
  BY <1>7, Zenon DEF Init, ConfirmInv
<1>9. SpentInv
  BY <1>1, Zenon DEF SpentInv
<1>10. CheckInv
  <2>1. Never \in Never..MaxTime /\ 0 \in 0..MaxTime
    BY NeverIsReading
  <2>2. lastAuth \in [Pairs -> Never..MaxTime] /\ \A p \in Pairs : lastAuth[p] = Never
    BY <2>1, Zenon DEF Init
  <2>3. access \in [Pairs -> [id : Nat, ans : {"none", "hold", "accept", "reject"}]]
    BY Zenon DEF Init
  <2>4. policy \in Policies /\ clearing \in BOOLEAN /\ clock \in 0..MaxTime /\ faults \in Nat
    BY <2>1, Zenon DEF Init, Policies
  <2>5. QED
    BY <2>2, <2>3, <2>4 DEF CheckInv
<1>11. QED
  BY <1>2, <1>3, <1>4, <1>5, <1>6, <1>8, <1>9, <1>10, Zenon DEF AuthInv

\* Every step keeps it.
LEMMA NextAuth ==
  ASSUME AuthInv, [Next]_vars
  PROVE  AuthInv'
<1>1. CASE UNCHANGED vars
  <2>1. UNCHANGED <<waits, client, nodes, users, tasks, clock, scope, faults, proof, logins,
                    pendingStates, cookies, confirm, tokens, reqs, lru, stale, access, hosts, policy,
                    clearing, lastAuth>>
    BY <1>1 DEF vars, timeVars, sshVars, authVars, oidcVars
  <2>2. CacheInv /\ WaitInv /\ ClientInv /\ CheckInv
    BY Zenon DEF AuthInv
  <2>3. CacheInv' /\ Quiet /\ Calm
    BY <2>1, <2>2, SameCache DEF Quiet
  <2>4. WaitInv' /\ ClientInv' /\ CheckInv'
    BY <2>1, <2>2, <2>3, WaitKept, ClientKept, CheckKept, Zenon DEF CheckInv
  <2>5. ProofType'
    BY <2>1, ProofTyped, Zenon DEF ProofType
  <2>6. QED
    BY <2>1, <2>3, <2>4, <2>5, QuietKeeps, Zenon
<1>2. CASE \E m \in scope.machines, f \in {0} \cup Ids, w \in scope.slots \cup {None} :
             handleRegister(m, f, w)
  BY <1>2, HandleRegister, Zenon
<1>3. CASE \E p \in scope.pairs : sshAction(p)
  BY <1>3, SSHAction, Zenon
<1>4. CASE \E p \in scope.pairs, id \in Ids, w \in scope.slots : sshActionFollowUp(p, id, w)
  BY <1>4, SSHFollowUp, Zenon
<1>5. CASE \E w \in scope.slots : waitForFollowup(w) \/ followUpVerdict(w) \/ Cancel(w)
  BY <1>5, WaitForFollowup, FollowUpVerdict
<1>6. CASE \E id \in Ids : Age(id) \/ Sweep(id)
  BY <1>6, CacheSteps, Zenon
<1>7. CASE \E b \in Browsers, id \in Ids, r \in scope.routes : authHandler(b, id, r)
  BY <1>7, AuthHandler, Zenon
<1>8. CASE \E h \in idle, s \in DOMAIN logins : \E u \in Accounts[logins[s].browser] :
             OIDCCallbackHandler(h, s, u)
  BY <1>8, Callback
<1>9. CASE \E c \in confirm : RegisterConfirmGetHandler(c)
  BY <1>9, ConfirmGet
<1>10. CASE \E h \in idle, c \in confirm : RegisterConfirmHandler(h, c)
  BY <1>10, ConfirmPost, Zenon
<1>11. CASE \E h \in scope.handlers : \/ stateGet(h) \/ stateRemove(h) \/ callbackUse(h)
                                      \/ authPathGet(h) \/ authPathApply(h) \/ authPathFinish(h)
                                      \/ authPathForget(h)
  BY <1>11, StateSteps, CallbackUse, PathGet, PathApply, PathFinish, PathForget, Zenon
<1>12. CASE policyInstalled \/ Tick
  BY <1>12, CheckSteps, Zenon
<1>13. CASE Admin
  <2>1. CASE \E id \in Ids : AuthApprove(id) \/ AuthReject(id)
    BY <2>1, CacheSteps
  <2>2. CASE \E h \in idle, id \in Ids, u \in Users : RegisterNode(h, id, u)
    BY <2>2, RegisterByHand
  <2>3. CASE (\E p \in Policies : SetPolicy(p)) \/ \E n \in hosts : DeleteNode(n)
    BY <2>3, CheckSteps
  <2>4. CASE \E u \in Users : DestroyUser(u)
    BY <2>4, RemoveUser
  <2>5. QED
    BY <1>13, <2>1, <2>2, <2>3, <2>4, Zenon DEF Admin
<1>14. CASE Crash
  <2>1. faults' \in Nat
    BY <1>14 DEF Crash, AuthInv, CheckInv
  <2>2. QED
    BY <1>14, <2>1, LostKeeps, Zenon DEF Crash
<1>15. QED
  BY <1>1, <1>2, <1>3, <1>4, <1>5, <1>6, <1>7, <1>8, <1>9, <1>10, <1>11, <1>12, <1>13, <1>14, Zenon DEF Next

\* The invariant of the authentication flows.
LEMMA AuthHolds == Spec => []AuthInv
<1>1. Init => AuthInv
  BY InitAuth
<1>2. AuthInv /\ [Next]_vars => AuthInv'
  BY NextAuth
<1>3. QED
  BY <1>1, <1>2, PTL DEF Spec

\* Every reachable state is well typed: the cache holds each request once and
\* within its size, and what logins, cookies, handlers and follow-ups refer to
\* exists.
THEOREM TypeCorrect == Spec => []TypeOK
<1>1. AuthInv => TypeOK
  <2> SUFFICES ASSUME AuthInv PROVE TypeOK
    BY Zenon
  <2>1. /\ scope \in Scopes
        /\ reqs \in Seq(Request) /\ Len(reqs) <= scope.sessions
        /\ \A id \in Ids : reqs[id].subject \in IF reqs[id].kind = "reg" THEN Machines ELSE Pairs
        /\ lru \in Seq(Nat) /\ Len(lru) <= MaxEntries
        /\ \A i, j \in DOMAIN lru : lru[i] = lru[j] => i = j
        /\ Cached \subseteq Ids /\ stale \subseteq Cached
    BY DEF AuthInv, CacheInv, Fits, Unique
  <2>2. /\ waits \in [Slots -> {None} \cup Wait]
        /\ \A w \in Slots : ~Free(w) => waits[w].id \in Ids
    BY DEF AuthInv, WaitInv, Free
  <2>3. /\ client \in [Machines -> [url : Nat, node : {NoNode} \cup Node]]
        /\ nodes \subseteq Node /\ users \subseteq Users
    BY DEF AuthInv, ClientInv, NodeInv
  <2>4. /\ logins \in Seq([id : Nat, registration : BOOLEAN, browser : Browsers])
        /\ \A s \in DOMAIN logins : logins[s].id \in Ids
        /\ pendingStates \subseteq DOMAIN logins /\ cookies \subseteq DOMAIN logins
    BY DEF AuthInv, LoginInv
  <2>5. /\ confirm \subseteq Cookie /\ \A c \in confirm : c[2] \in Ids /\ c[3] <= tokens
        /\ tokens \in Nat
    BY Zenon DEF AuthInv, ConfirmInv
  <2>6. /\ tasks \in [Handlers -> {None} \cup Task]
        /\ \A h \in Handlers : ~Idle(h) =>
             IF tasks[h].pc \in {"state", "remove"} THEN tasks[h].login \in DOMAIN logins
             ELSE tasks[h].id \in Ids /\ (tasks[h].pc = "use" => tasks[h].login \in DOMAIN logins)
    BY Zenon DEF AuthInv, TaskInv, GoodTask, Idle
  <2>7. /\ access \in [Pairs -> [id : Nat, ans : {"none", "hold", "accept", "reject"}]]
        /\ policy \in Policies /\ clearing \in BOOLEAN
        /\ lastAuth \in [Pairs -> Never..MaxTime]
        /\ clock \in 0..MaxTime /\ faults \in Nat
    BY Zenon DEF AuthInv, CheckInv
  <2>8. proof \in [signed : SUBSET ((Browsers \cup {None}) \X Users \X Nat),
                   passed : [Pairs -> [at : Never..MaxTime, gen : Int]], gen : Nat]
    BY ProofTyped, Zenon DEF ProofType
  <2>9. QED
    BY <2>1, <2>2, <2>3, <2>4, <2>5, <2>6, <2>7, <2>8, Zenon DEF TypeOK
<1>2. QED
  BY <1>1, AuthHolds, PTL

\* Whichever URL a device follows up, and whoever finishes the request, it is
\* only told of a node of its own machine key (waitForFollowup).
THEOREM FollowupsStayOwn == Spec => []FollowupsAreOwn
<1>1. AuthInv => FollowupsAreOwn
  BY DEF AuthInv, ClientInv
<1>2. QED
  BY <1>1, AuthHolds, PTL

\* Every node was made by a request of its own machine for a user proved for
\* that request: signed in on the link, or named by an administrator. A
\* confirmation acts for who signed in in the browser that confirms, and a
\* request that made a node is in the cache only while its handler still
\* finishes (RegisterConfirmHandler, HandleNodeFromAuthPath).
THEOREM LinksStayBound == Spec => []LinksBindIdentities
<1>1. AuthInv => LinksBindIdentities
  <2> SUFFICES ASSUME AuthInv PROVE LinksBindIdentities
    OBVIOUS
  <2>1. ConfirmedByOwner
    BY Zenon DEF AuthInv, TaskInv, GoodTask, ConfirmedByOwner, Idle
  <2>2. \A id \in Ids : InCache(id) => id \in Cached
    BY Zenon DEF InCache, Cached
  <2>3. SpentLinksAreGone
    BY <2>2, Zenon DEF AuthInv, SpentInv, SpentLinksAreGone, Idle
  <2>4. NodesAreSignedFor
    BY Zenon DEF AuthInv, TaskInv, SignedNode, Signed, NodesAreSignedFor
  <2>5. QED
    BY <2>1, <2>3, <2>4 DEF LinksBindIdentities
<1>2. QED
  BY <1>1, AuthHolds, PTL

\* The answers given to connections: one without a link is only given to a
\* pair that passed a check recently.
LEMMA Accepted ==
  ASSUME AuthInv, Next, NEW p \in Pairs, access'[p] # access[p],
         access'[p] = [id |-> 0, ans |-> "accept"]
  PROVE  recentlyChecked(p)
<1> DEFINE given == [id |-> 0, ans |-> "accept"]
<1>1. CacheInv /\ WaitInv /\ CheckInv
  BY Zenon DEF AuthInv
<1>2. \A q \in Pairs : \A a : Reply(q, a) => access'[p] = IF p = q THEN a ELSE access[p]
  BY <1>1, Zenon DEF Reply, CheckInv
<1>3. access' # access
  OBVIOUS
<1>4. \A q \in scope.pairs : q \in Pairs
  BY <1>1, AuthAssumption, Zenon DEF CacheInv
<1>5. given.id = 0 /\ given.ans = "accept"
  BY Zenon
<1>6. \A n : [id |-> n, ans |-> "hold"] # given
  <2> SUFFICES ASSUME NEW n PROVE [id |-> n, ans |-> "hold"] # given
    BY Zenon
  <2>1. [id |-> n, ans |-> "hold"].ans = "hold"
    OBVIOUS
  <2>2. QED
    BY <1>5, <2>1, Zenon
<1>7. ASSUME NEW q \in scope.pairs, sshAction(q) PROVE recentlyChecked(p)
  <2>1. CASE recentlyChecked(q) /\ Reply(q, given)
    BY <1>2, <1>4, <2>1, Zenon
  <2>2. CASE sshActionHoldAndDelegate(reqs, q)
    BY <1>2, <1>4, <1>6, <2>2 DEF sshActionHoldAndDelegate
  <2>3. QED
    BY <1>7, <2>1, <2>2, Zenon DEF sshAction
<1>8. ASSUME NEW q \in scope.pairs, NEW id \in Ids, NEW w \in scope.slots, sshActionFollowUp(q, id, w)
      PROVE  FALSE
  <2>1. sshActionHoldAndDelegate(reqs, q)
    BY <1>3, <1>8, Zenon DEF sshActionFollowUp
  <2>2. QED
    BY <1>2, <1>4, <1>6, <2>1 DEF sshActionHoldAndDelegate
<1>9. ASSUME NEW w \in scope.slots, followUpVerdict(w) PROVE FALSE
  <2> DEFINE a == [id |-> waits[w].id,
                   ans |-> IF WaitForAuth(reqs, waits[w].id).verdict.err THEN "reject" ELSE "accept"]
  <2>1. w \in Slots /\ waits[w] # None /\ waits[w].who \in Pairs /\ Reply(waits[w].who, a)
    BY <1>1, <1>9, AuthAssumption DEF CacheInv, followUpVerdict, Free
  <2>2. waits[w].id \in Ids
    BY <1>1, <2>1, Zenon DEF WaitInv
  <2>3. waits[w].id # 0
    BY <1>1, <2>2 DEF Ids, CacheInv
  <2>4. a.id = waits[w].id
    BY Zenon
  <2> HIDE DEF a
  <2>5. a # given
    BY <1>5, <2>3, <2>4, Zenon
  <2>6. QED
    BY <1>2, <2>1, <2>5, Zenon
<1>10. ASSUME \/ \E m \in scope.machines, f \in {0} \cup Ids, w \in scope.slots \cup {None} :
                   handleRegister(m, f, w)
              \/ \E w \in scope.slots : waitForFollowup(w) \/ Cancel(w)
              \/ \E id \in Ids : Age(id) \/ Sweep(id) \/ AuthApprove(id) \/ AuthReject(id)
              \/ \E b \in Browsers, id \in Ids, r \in scope.routes : authHandler(b, id, r)
              \/ \E h \in idle, s \in DOMAIN logins : \E u \in Accounts[logins[s].browser] :
                   OIDCCallbackHandler(h, s, u)
              \/ \E c \in confirm : RegisterConfirmGetHandler(c)
              \/ \E h \in idle, c \in confirm : RegisterConfirmHandler(h, c)
       PROVE  FALSE
  BY <1>3, <1>10, ZenonT(30) DEF handleRegister, waitForFollowup, Cancel, Age, Sweep, AuthApprove, AuthReject,
     authHandler, OIDCCallbackHandler, RegisterConfirmGetHandler, RegisterConfirmHandler, sshVars
<1>11. ASSUME NEW h \in scope.handlers,
              \/ stateGet(h) \/ stateRemove(h) \/ callbackUse(h) \/ authPathGet(h)
              \/ authPathApply(h) \/ authPathFinish(h) \/ authPathForget(h)
       PROVE  FALSE
  BY <1>3, <1>11, Zenon DEF stateGet, stateRemove, callbackUse, authPathGet, authPathApply, authPathFinish,
     authPathForget, Lost, sshVars
<1>12. ASSUME \/ policyInstalled \/ Tick \/ Crash
              \/ \E h \in idle, id \in Ids, u \in Users : RegisterNode(h, id, u)
              \/ \E q \in Policies : SetPolicy(q)
              \/ \E u \in Users : DestroyUser(u)
              \/ \E n \in hosts : DeleteNode(n)
       PROVE  FALSE
  BY <1>3, <1>12, Zenon DEF policyInstalled, Tick, Crash, Lost, RegisterNode, SetPolicy, DestroyUser,
     DeleteNode, sshVars
<1>13. CASE Admin
  BY <1>10, <1>12, <1>13, Zenon DEF Admin
<1>14. CASE ~Admin
  BY <1>7, <1>8, <1>9, <1>10, <1>11, <1>12, <1>14, Zenon DEF Next
<1>15. QED
  BY <1>13, <1>14, Zenon

\* An SSH connection is accepted without a check only when its pair passed one
\* within the period of the policy in force and since the approvals were last
\* cleared, whatever the order of approvals, policy changes and restarts
\* (sshAction, ClearSSHCheckAuth).
THEOREM ApprovalsStayCurrent == Spec => AutoApprovalIsCurrent
<1>1. AuthInv /\ [Next]_vars => [ApprovedInTime]_vars
  <2> SUFFICES ASSUME AuthInv, Next, NEW p \in Pairs, access'[p] # access[p],
                      access'[p] = [id |-> 0, ans |-> "accept"]
               PROVE  proof.passed[p].gen = proof.gen /\ clock - proof.passed[p].at < policy.period
    BY Zenon DEF ApprovedInTime
  <2>1. recentlyChecked(p)
    BY Accepted, Zenon
  <2>2. proof.passed[p].gen = proof.gen /\ proof.passed[p].at = lastAuth[p]
    BY <2>1 DEF recentlyChecked, AuthInv, CheckInv
  <2>3. QED
    BY <2>1, <2>2, Zenon DEF recentlyChecked
<1>2. QED
  BY <1>1, AuthHolds, PTL DEF Spec, AutoApprovalIsCurrent
===============================================================================
