--------------------------- MODULE MapSessionProofs ---------------------------
(***************************************************************************)
(* What MapSession guarantees for any number of sessions, any mix of       *)
(* operations and any number of restarts: presence is exact, an ephemeral  *)
(* node that left stays due for deletion, the batcher keeps no connection  *)
(* of a session that is over.                                              *)
(*                                                                         *)
(* None of the properties is inductive alone.  IInv joins them: the count  *)
(* is what the collector's argument needs when a release is not the last   *)
(* one, and the shape of pc and tell is what the count needs.              *)
(***************************************************************************)
EXTENDS MapSession, FiniteSetTheorems, TLAPS

(* A leaf that names no prover is tried with SMT, with Zenon, and with SMT  *)
(* once more.                                                               *)
USE SMT, Zenon, SMTT(60)

DoneSessions == {s \in Sessions : pc[s] = "done"}

\* The sessions that will still schedule a deletion, or leave it to another.
Pending == {s \in Sessions : Acquired(s) /\ pc[s] \in Holding \cup {"offline", "schedule"}}

\* Only Connect acquires, and only a session that acquired is released.
ShapeInv ==
  /\ \A s \in Sessions : pc[s] \in {"new", "updated"} => ~Acquired(s)
  /\ \A s \in Sessions : pc[s] \in {"grace", "release", "offline", "schedule"} => Acquired(s)

\* Also a count that BackfillNodeIPs reset never exceeds the holders.
CountInv ==
  /\ exists => active <= Cardinality(Holders)
  /\ SessionCount
  /\ OnlineIsLive
  /\ gen <= Cardinality(DoneSessions) + 1

\* A session that found no node cancels no timer that matters, an armed timer
\* has its watcher or is already queued, and somebody is in charge of the node.
CollectInv ==
  /\ row => exists
  /\ \A s \in Sessions : pc[s] = "connected" /\ ~Acquired(s) => ~row
  /\ timer # 0 => timer \in watchers \cup queued
  /\ row /\ (\E s \in Sessions : Acquired(s))
     => Pending # {} \/ timer # 0 \/ deleting # {} \/ failed

IInv == TypeOK /\ ShapeInv /\ CountInv /\ CollectInv /\ NoGhostConnection

-----------------------------------------------------------------------------
(* Counting.                                                                *)

\* Sessions are finitely many, so every set of them has a cardinality in Nat.
LEMMA SessionSets ==
  ASSUME NEW S \in SUBSET Sessions
  PROVE  /\ IsFiniteSet(S)
         /\ Cardinality(S) \in Nat
         /\ Cardinality(S) <= Cardinality(Sessions)
         /\ Cardinality(Sessions) \in Nat
BY MapSessionAssumption, FS_Subset, FS_CardinalityType

\* A session that joins a set of sessions adds one to its cardinality.
LEMMA OneMore ==
  ASSUME NEW S \in SUBSET Sessions, NEW s \in Sessions \ S
  PROVE  Cardinality(S \cup {s}) = Cardinality(S) + 1
BY SessionSets, FS_AddElement

\* A session that leaves a set of sessions takes one from its cardinality.
LEMMA OneLess ==
  ASSUME NEW S \in SUBSET Sessions, NEW s \in S
  PROVE  Cardinality(S \ {s}) = Cardinality(S) - 1 /\ Cardinality(S) > 0
<1>1. Cardinality(S \ {s}) = Cardinality(S) - 1
  BY SessionSets, FS_RemoveElement
<1>2. Cardinality(S \ {s}) \in Nat /\ Cardinality(S) \in Nat
  BY SessionSets
<1>3. QED
  BY <1>1, <1>2

\* The more sessions are done, the more generations may have been armed.
LEMMA DoneGrows ==
  ASSUME DoneSessions \subseteq DoneSessions'
  PROVE  /\ Cardinality(DoneSessions) \in Nat /\ Cardinality(DoneSessions') \in Nat
         /\ Cardinality(DoneSessions) <= Cardinality(DoneSessions')
<1>1. DoneSessions' \in SUBSET Sessions /\ DoneSessions \in SUBSET Sessions
  BY DEF DoneSessions
<1>2. QED
  BY <1>1, SessionSets, FS_Subset

-----------------------------------------------------------------------------
(* Steps that acquire and release nothing.                                  *)

\* A step of a session that stays acquired and Holding, or was never acquired,
\* and leaves the node and the collector alone.
LEMMA MoveInv ==
  ASSUME IInv, NEW s \in Sessions, NEW l \in PCs, Goto(s, l),
         UNCHANGED <<nodeVars, tell, gcVars, backfill>>,
         pc[s] # "done",
         Acquired(s) => pc[s] \in Holding /\ l \in Holding,
         ~Acquired(s) => l \notin {"connected", "grace", "release", "offline", "schedule"}
  PROVE  ShapeInv' /\ CountInv' /\ CollectInv'
<1> USE DEF nodeVars, gcVars
<1>1. /\ \A t \in Sessions : pc'[t] = IF t = s THEN l ELSE pc[t]
      /\ \A t \in Sessions : Acquired(t)' <=> Acquired(t)
  BY DEF Goto, IInv, TypeOK, Acquired
<1>2. Holders' = Holders /\ Pending' = Pending
  BY <1>1 DEF Holders, Pending
<1>3. DoneSessions \subseteq DoneSessions'
  BY <1>1 DEF DoneSessions
<1>4. ShapeInv'
  BY <1>1 DEF IInv, ShapeInv, Holding
<1>5. CountInv'
  <2>1. gen' <= Cardinality(DoneSessions') + 1
    BY <1>3, DoneGrows DEF IInv, CountInv, TypeOK, Gens
  <2>2. QED
    BY <1>2, <2>1 DEF IInv, CountInv, SessionCount, OnlineIsLive
<1>6. CollectInv'
  <2>1. \A t \in Sessions : pc'[t] = "connected" /\ ~Acquired(t)' => ~row'
    BY <1>1 DEF IInv, CollectInv
  <2>2. (\E t \in Sessions : Acquired(t)') => \E t \in Sessions : Acquired(t)
    BY <1>1
  <2>3. QED
    BY <1>2, <2>1, <2>2 DEF IInv, CollectInv
<1>7. QED
  BY <1>4, <1>5, <1>6

\* A step that moves no session and leaves the counts of the node alone.
LEMMA SameSessions ==
  ASSUME UNCHANGED sessionVars
  PROVE  /\ Holders' = Holders /\ Pending' = Pending /\ DoneSessions' = DoneSessions
         /\ \A s \in Sessions : Acquired(s)' <=> Acquired(s)
         /\ ShapeInv => ShapeInv'
BY DEF sessionVars, Holders, Pending, DoneSessions, Acquired, ShapeInv

-----------------------------------------------------------------------------
(* One lemma per kind of step.                                              *)

\* The steps of a session that MoveInv covers.
LEMMA PlainSteps ==
  ASSUME IInv, NEW s \in Sessions,
         \/ Begin(s) \/ UpdateFails(s) \/ Register(s) \/ Generate(s) \/ Deliver(s)
         \/ Publish(s) \/ AddFails(s) \/ Hangup(s) \/ Cleanup(s) \/ GraceEnds(s)
  PROVE  ShapeInv' /\ CountInv' /\ CollectInv'
<1> USE DEF otherVars
<1>1. UNCHANGED <<nodeVars, tell, gcVars, backfill>>
  BY Zenon DEF Begin, UpdateFails, Register, Generate, Deliver, Publish, AddFails, Hangup,
               Cleanup, GraceEnds
<1>2. Acquired(s) => pc[s] \notin {"new", "updated"}
  BY DEF IInv, ShapeInv
<1>3. ~Acquired(s) => pc[s] \notin {"grace", "release"}
  BY DEF IInv, ShapeInv
<1>4. CASE Begin(s)
  BY <1>1, <1>2, <1>4, MoveInv DEF Begin, PCs
<1>5. CASE UpdateFails(s)
  BY <1>1, <1>2, <1>5, MoveInv DEF UpdateFails, PCs, Holding
<1>6. CASE Register(s)
  BY <1>1, <1>6, MoveInv DEF Register, PCs, Holding
<1>7. CASE Generate(s)
  BY <1>1, <1>7, MoveInv DEF Generate, PCs, Holding
<1>8. CASE Deliver(s)
  BY <1>1, <1>8, MoveInv DEF Deliver, PCs, Holding
<1>9. CASE Publish(s)
  BY <1>1, <1>9, MoveInv DEF Publish, PCs, Holding
<1>10. CASE AddFails(s)
  BY <1>1, <1>10, MoveInv DEF AddFails, PCs, Holding
<1>11. CASE Hangup(s)
  BY <1>1, <1>11, MoveInv DEF Hangup, PCs, Holding
<1>12. CASE Cleanup(s)
  <2> DEFINE l == IF ~Acquired(s) THEN "done"
                  ELSE IF conns \ {s} = {} /\ exists /\ ~expired THEN "grace"
                  ELSE "release"
  <2>1. pc[s] = "ending" /\ Goto(s, l)
    BY <1>12 DEF Cleanup
  <2>2. l \in PCs /\ (Acquired(s) => l \in Holding) /\ (~Acquired(s) => l = "done")
    BY DEF PCs, Holding
  <2> HIDE DEF l
  <2>3. QED
    BY <1>1, <2>1, <2>2, MoveInv DEF Holding
<1>13. CASE GraceEnds(s)
  BY <1>1, <1>3, <1>13, MoveInv DEF GraceEnds, PCs, Holding
<1>14. QED
  BY <1>4, <1>5, <1>6, <1>7, <1>8, <1>9, <1>10, <1>11, <1>12, <1>13

\* Connect counts the session it lets in, and only if there is a node.
LEMMA ConnectInv ==
  ASSUME IInv, NEW s \in Sessions, Connect(s)
  PROVE  ShapeInv' /\ CountInv' /\ CollectInv' /\ active' \in 0..Cardinality(Sessions)
<1> USE DEF otherVars, gcVars
<1>1. pc[s] = "updated" /\ ~Acquired(s)
  BY DEF Connect, IInv, ShapeInv
<1>2. \A t \in Sessions : pc'[t] = IF t = s THEN "connected" ELSE pc[t]
  BY DEF Connect, Goto, IInv, TypeOK
<1>3. \A t \in Sessions \ {s} : Acquired(t)' <=> Acquired(t)
  BY DEF Connect, IInv, TypeOK, Acquired
<1>4. Acquired(s)' <=> exists
  BY DEF Connect, IInv, TypeOK, Acquired
<1>5. ShapeInv'
  BY <1>2, <1>3 DEF IInv, ShapeInv
<1>6. DoneSessions' = DoneSessions
  BY <1>1, <1>2 DEF DoneSessions
<1>7. CASE ~exists
  <2>1. UNCHANGED <<active, online, exists, row, expired, lapsed, gen, backfill>>
    BY <1>7 DEF Connect
  <2>2. CountInv' /\ active' \in 0..Cardinality(Sessions)
    BY <1>6, <1>7, <2>1 DEF IInv, TypeOK, CountInv, SessionCount, OnlineIsLive
  <2>3. ~row'
    BY <1>7, <2>1 DEF IInv, CollectInv
  <2>4. CollectInv'
    BY <2>3 DEF Connect, IInv, CollectInv
  <2>5. QED
    BY <1>5, <2>2, <2>4
<1>8. CASE exists
  <2>1. /\ exists' /\ active' = active + 1 /\ online' = ShouldBeOnline(active + 1, expired)
        /\ UNCHANGED <<row, expired, lapsed, gen, backfill, timer, watchers, queued>>
    BY <1>8 DEF Connect
  <2>2. Holders' = Holders \cup {s} /\ s \notin Holders
    BY <1>1, <1>2, <1>3, <1>4, <1>8, Zenon DEF Holders, Holding
  <2>3. Holders \in SUBSET Sessions /\ Holders' \in SUBSET Sessions
    BY DEF Holders
  <2>4. Cardinality(Holders') = Cardinality(Holders) + 1
    BY <2>2, <2>3, OneMore
  <2>5. Cardinality(Holders) \in Nat /\ Cardinality(Holders') <= Cardinality(Sessions)
    BY <2>3, SessionSets
  <2>6. active \in Nat /\ active <= Cardinality(Holders)
    BY <1>8 DEF IInv, TypeOK, CountInv
  <2>7. active' \in 0..Cardinality(Sessions)
    BY <2>1, <2>4, <2>5, <2>6, SessionSets
  <2>8. SessionCount'
    BY <1>8, <2>1, <2>4 DEF IInv, CountInv, SessionCount
  <2>9. OnlineIsLive'
    BY <2>1, <2>6, Zenon DEF OnlineIsLive, ShouldBeOnline
  <2>10. CountInv'
    BY <1>6, <2>1, <2>4, <2>5, <2>6, <2>8, <2>9 DEF IInv, CountInv
  <2>11. s \in Pending'
    BY <1>2, <1>4, <1>8 DEF Pending, Holding
  <2>12. \A t \in Sessions : pc'[t] = "connected" /\ ~Acquired(t)' => ~row'
    BY <1>2, <1>3, <1>4, <1>8, <2>1 DEF IInv, CollectInv
  <2>13. CollectInv'
    BY <2>1, <2>11, <2>12 DEF IInv, CollectInv
  <2>14. QED
    BY <1>5, <2>7, <2>10, <2>13
<1>9. QED
  BY <1>7, <1>8

\* Cancel disarms the timer while the session that cancels is in charge.
LEMMA CancelInv ==
  ASSUME IInv, NEW s \in Sessions, CancelGC(s)
  PROVE  ShapeInv' /\ CountInv' /\ CollectInv'
<1> USE DEF otherVars, nodeVars
<1>1. /\ pc[s] = "connected" /\ timer' = 0
      /\ UNCHANGED <<tell, row, exists, active, online, expired, lapsed, gen, backfill>>
  BY DEF CancelGC
<1>2. \A t \in Sessions : pc'[t] = IF t = s THEN "cancelled" ELSE pc[t]
  BY DEF CancelGC, Goto, IInv, TypeOK
<1>3. \A t \in Sessions : Acquired(t)' <=> Acquired(t)
  BY <1>1 DEF Acquired
<1>4. Holders' = Holders /\ DoneSessions' = DoneSessions
  BY <1>1, <1>2, <1>3 DEF Holders, Holding, DoneSessions
<1>5. ShapeInv'
  BY <1>2, <1>3 DEF IInv, ShapeInv
<1>6. CountInv'
  BY <1>1, <1>4, Zenon DEF IInv, CountInv, SessionCount, OnlineIsLive
<1>7. row' => s \in Pending'
  BY <1>1, <1>2, <1>3 DEF IInv, CollectInv, Pending, Holding
<1>8. CollectInv'
  BY <1>1, <1>2, <1>3, <1>7, Zenon DEF IInv, CollectInv
<1>9. QED
  BY <1>5, <1>6, <1>8

\* Disconnect takes one from the count; the release that is not the last
\* leaves another session in charge.
LEMMA DisconnectInv ==
  ASSUME IInv, NEW s \in Sessions, Disconnect(s)
  PROVE  ShapeInv' /\ CountInv' /\ CollectInv' /\ active' \in 0..Cardinality(Sessions)
<1> USE DEF otherVars, gcVars
<1> DEFINE l == IF exists /\ Released = 0 THEN "offline" ELSE "done"
<1>1. /\ pc[s] = "release" /\ Acquired(s)
      /\ UNCHANGED <<tell, row, exists, expired, lapsed, gen, backfill,
                     timer, watchers, queued, deleting, failed>>
  BY DEF Disconnect, IInv, ShapeInv
<1>2. \A t \in Sessions : pc'[t] = IF t = s THEN l ELSE pc[t]
  BY DEF Disconnect, Goto, IInv, TypeOK
<1>3. \A t \in Sessions : Acquired(t)' <=> Acquired(t)
  BY <1>1, Zenon DEF Acquired
<1>4. ShapeInv'
  BY <1>1, <1>2, <1>3, Zenon DEF IInv, ShapeInv
<1>5. s \in Holders /\ Holders' = Holders \ {s} /\ Holders \in SUBSET Sessions
  BY <1>1, <1>2, <1>3 DEF Holders, Holding
<1>6. Cardinality(Holders') = Cardinality(Holders) - 1 /\ Cardinality(Holders) > 0
  BY <1>5, OneLess
<1>7. Cardinality(Holders) \in Nat /\ Cardinality(Holders') \in Nat
  BY <1>5, SessionSets
<1>8. DoneSessions \subseteq DoneSessions'
  BY <1>1, <1>2 DEF DoneSessions
<1>9. gen' <= Cardinality(DoneSessions') + 1
  BY <1>1, <1>8, DoneGrows DEF IInv, CountInv, TypeOK, Gens
<1>10. CASE ~exists
  <2>1. UNCHANGED <<active, online>>
    BY <1>10, Zenon DEF Disconnect
  <2>2. CountInv' /\ active' \in 0..Cardinality(Sessions)
    BY <1>1, <1>9, <1>10, <2>1, Zenon DEF IInv, TypeOK, CountInv, SessionCount, OnlineIsLive
  <2>3. CollectInv'
    BY <1>1, <1>10 DEF IInv, CollectInv
  <2>4. QED
    BY <1>4, <2>2, <2>3
<1>11. CASE exists
  <2>1. /\ active' = Released
        /\ online' = IF Released = 0 THEN ShouldBeOnline(0, expired) ELSE online
    BY <1>11 DEF Disconnect
  <2>2. active \in 0..Cardinality(Sessions) /\ active <= Cardinality(Holders)
    BY <1>11 DEF IInv, TypeOK, CountInv
  <2>3. Released \in 0..Cardinality(Sessions) /\ Released <= Cardinality(Holders')
    BY <1>6, <1>7, <2>2, SessionSets DEF Released
  <2>4. SessionCount'
    BY <1>1, <1>6, <1>7, <1>11, <2>1 DEF IInv, CountInv, SessionCount, Released
  <2>5. OnlineIsLive'
    <3>1. CASE Released = 0
      <4>1. ~ShouldBeOnline(0, expired)
        BY DEF ShouldBeOnline
      <4>2. ~online'
        BY <2>1, <3>1, <4>1, Zenon
      <4>3. QED
        BY <4>2, Zenon DEF OnlineIsLive
    <3>2. CASE Released # 0
      BY <1>1, <1>11, <2>1, <2>3, <3>2 DEF IInv, CountInv, OnlineIsLive
    <3>3. QED
      BY <3>1, <3>2
  <2>6. CountInv'
    BY <1>9, <2>1, <2>3, <2>4, <2>5 DEF CountInv
  <2>7. Pending' # {}
    <3>1. CASE Released = 0
      <4>1. s \in Pending'
        BY <1>1, <1>2, <1>3, <1>11, <3>1, Zenon DEF Pending
      <4>2. QED
        BY <4>1
    <3>2. CASE Released # 0
      <4>1. Cardinality(Holders') # 0
        BY <1>7, <2>3, <3>2
      <4>2. Holders' # {}
        BY <4>1, FS_EmptySet
      <4>3. Holders' \subseteq Pending'
        BY Zenon DEF Holders, Pending
      <4>4. QED
        BY <4>2, <4>3
    <3>3. QED
      BY <3>1, <3>2
  <2>8. \A t \in Sessions : pc'[t] = "connected" /\ ~Acquired(t)' => ~row'
    BY <1>1, <1>2, <1>3, Zenon DEF IInv, CollectInv
  <2>9. CollectInv'
    BY <1>1, <2>7, <2>8 DEF IInv, CollectInv
  <2>10. QED
    BY <1>4, <2>1, <2>3, <2>6, <2>9, Zenon
<1>12. QED
  BY <1>10, <1>11

\* The last release goes on to announce and to schedule the deletion.
LEMMA LeaveInv ==
  ASSUME IInv, NEW s \in Sessions, PublishOffline(s) \/ Schedule(s)
  PROVE  ShapeInv' /\ CountInv' /\ CollectInv' /\ gen' \in {0} \cup Gens
<1> USE DEF otherVars, nodeVars, gcVars
<1>1. /\ pc[s] \in {"offline", "schedule"} /\ Acquired(s)
      /\ UNCHANGED <<tell, row, exists, active, online, expired, lapsed, backfill,
                     queued, deleting, failed>>
  BY DEF PublishOffline, Schedule, IInv, ShapeInv
<1>2. \A t \in Sessions : Acquired(t)' <=> Acquired(t)
  BY <1>1, Zenon DEF Acquired
<1>3. \A t \in Sessions \ {s} : pc'[t] = pc[t]
  BY Zenon DEF PublishOffline, Schedule, Goto, IInv, TypeOK
<1>4. pc'[s] \in {"schedule", "done"}
  BY Zenon DEF PublishOffline, Schedule, Goto, IInv, TypeOK
<1>5. ShapeInv'
  BY <1>1, <1>2, <1>3, <1>4, Zenon DEF IInv, ShapeInv
<1>6. Holders' = Holders
  BY <1>1, <1>2, <1>3, <1>4, Zenon DEF Holders, Holding
<1>7. \A t \in Sessions : pc'[t] = "connected" /\ ~Acquired(t)' => ~row'
  BY <1>1, <1>2, <1>3, <1>4 DEF IInv, CollectInv
<1>8. CASE PublishOffline(s)
  <2>1. pc'[s] = "schedule" /\ UNCHANGED <<gen, timer, watchers>>
    BY <1>8, Zenon DEF PublishOffline, Goto, IInv, TypeOK
  <2>2. DoneSessions' = DoneSessions /\ Pending' = Pending
    BY <1>1, <1>2, <1>3, <2>1, Zenon DEF DoneSessions, Pending, Holding
  <2>3. CountInv'
    BY <1>1, <1>6, <2>1, <2>2, Zenon DEF IInv, CountInv, SessionCount, OnlineIsLive
  <2>4. CollectInv'
    BY <1>1, <1>2, <1>7, <2>1, <2>2, Zenon DEF IInv, CollectInv
  <2>5. QED
    BY <1>5, <2>1, <2>3, <2>4, Zenon DEF IInv, TypeOK
<1>9. CASE Schedule(s)
  <2>1. /\ pc[s] = "schedule" /\ pc'[s] = "done"
        /\ gen' = gen + 1 /\ timer' = gen + 1 /\ watchers' = watchers \cup {gen + 1}
    BY <1>9, Zenon DEF Schedule, Goto, IInv, TypeOK
  <2>2. /\ DoneSessions' = DoneSessions \cup {s} /\ s \notin DoneSessions
        /\ DoneSessions \in SUBSET Sessions /\ DoneSessions' \in SUBSET Sessions
    BY <1>3, <2>1 DEF DoneSessions
  <2>3. Cardinality(DoneSessions') = Cardinality(DoneSessions) + 1
    BY <2>2, OneMore, Zenon
  <2>4. /\ Cardinality(DoneSessions) \in Nat /\ Cardinality(Sessions) \in Nat
        /\ Cardinality(DoneSessions') <= Cardinality(Sessions)
    BY <2>2, SessionSets, Zenon
  <2>5. gen \in Nat /\ gen <= Cardinality(DoneSessions) + 1
    BY DEF IInv, TypeOK, CountInv, Gens
  <2>6. gen' <= Cardinality(DoneSessions') + 1 /\ gen' \in Gens
    BY <2>1, <2>3, <2>4, <2>5 DEF Gens
  <2>7. CountInv'
    BY <1>1, <1>6, <2>6, Zenon DEF IInv, CountInv, SessionCount, OnlineIsLive
  <2>8. CollectInv'
    BY <1>1, <1>7, <2>1, <2>5 DEF IInv, CollectInv
  <2>9. QED
    BY <1>5, <2>6, <2>7, <2>8, Zenon
<1>10. QED
  BY <1>8, <1>9, Zenon

\* The collector's goroutines: a timer is let go only for the deletion it armed.
LEMMA CollectorInv ==
  ASSUME IInv, NEW g \in Gens,
         TimerFires(g) \/ Reap(g) \/ Collect(g) \/ DeleteFunc(g)
  PROVE  ShapeInv' /\ CountInv' /\ CollectInv'
<1> USE DEF otherVars, nodeVars
<1>1. UNCHANGED <<sessionVars, active, online, expired, lapsed, gen, backfill>>
  BY Zenon DEF TimerFires, Reap, Collect, DeleteFunc
<1>2. exists' => exists
  BY Zenon DEF TimerFires, Reap, Collect, DeleteFunc
<1>3. ShapeInv'
  BY <1>1, SameSessions DEF IInv
<1>4. CountInv'
  BY <1>1, <1>2, SameSessions DEF IInv, CountInv, SessionCount, OnlineIsLive
<1>5. \A s \in Sessions : pc'[s] = "connected" /\ ~Acquired(s)' => pc[s] = "connected" /\ ~Acquired(s)
  BY <1>1, SameSessions DEF sessionVars
<1>6. row' => row
  BY Zenon DEF TimerFires, Reap, Collect, DeleteFunc
<1>7. row' => exists'
  BY Zenon DEF TimerFires, Reap, Collect, DeleteFunc, IInv, CollectInv
<1>8. timer' # 0 => timer' \in watchers' \cup queued'
  BY DEF TimerFires, Reap, Collect, DeleteFunc, IInv, CollectInv
<1>9. row' /\ (timer # 0 \/ deleting # {} \/ failed)
      => timer' # 0 \/ deleting' # {} \/ failed'
  <2>1. CASE TimerFires(g) \/ Reap(g)
    BY <2>1, Zenon DEF TimerFires, Reap
  <2>2. CASE Collect(g)
    BY <2>2, Zenon DEF Collect
  <2>3. CASE DeleteFunc(g)
    BY <2>3, Zenon DEF DeleteFunc, IInv, CollectInv
  <2>4. QED
    BY <2>1, <2>2, <2>3, Zenon
<1>10. row' /\ (\E s \in Sessions : Acquired(s)')
       => Pending' # {} \/ timer' # 0 \/ deleting' # {} \/ failed'
  BY <1>1, <1>6, <1>9, SameSessions DEF IInv, CollectInv
<1>11. CollectInv'
  BY <1>5, <1>6, <1>7, <1>8, <1>10, Zenon DEF IInv, CollectInv
<1>12. QED
  BY <1>3, <1>4, <1>11, Zenon

\* Deletion, expiry, re-authentication, backfill and the batcher's own work
\* move no session and no timer.
LEMMA NodeInv ==
  ASSUME IInv,
         \/ \E s \in Sessions : Stale(s)
         \/ CleanupOffline \/ DeleteNode \/ PublishRemoval \/ PublishRefresh
         \/ \E exp \in BOOLEAN : SetNodeExpiry(exp)
         \/ Lapse \/ ExpireExpiredNodes \/ Reauth
         \/ BackfillLists \/ BackfillReads \/ BackfillPuts
  PROVE  ShapeInv' /\ CountInv' /\ CollectInv'
<1> USE DEF otherVars, nodeVars
<1>1. UNCHANGED <<sessionVars, gcVars>>
  BY Zenon DEF Stale, CleanupOffline, DeleteNode, PublishRemoval, PublishRefresh,
     SetNodeExpiry, Lapse, ExpireExpiredNodes, Reauth, BackfillLists, BackfillReads,
     BackfillPuts
<1>2. row' => row /\ exists'
  BY Zenon DEF Stale, CleanupOffline, DeleteNode, PublishRemoval, PublishRefresh,
     SetNodeExpiry, Lapse, ExpireExpiredNodes, Reauth, BackfillLists, BackfillReads,
     BackfillPuts, IInv, CollectInv
<1>3. CollectInv'
  BY <1>1, <1>2, SameSessions, Zenon DEF IInv, CollectInv, gcVars, sessionVars
<1>4. /\ Cardinality(Holders) \in Nat /\ Holders' = Holders
      /\ DoneSessions' = DoneSessions /\ gen' = gen
  BY <1>1, SameSessions, SessionSets, Zenon DEF Holders, gcVars
<1>5. CASE BackfillPuts
  <2>1. backfill' = "done" /\ active' = 0
    BY <1>5 DEF BackfillPuts
  <2>2. CountInv'
    BY <1>4, <2>1 DEF IInv, CountInv, SessionCount, OnlineIsLive
  <2>3. QED
    BY <1>1, <1>3, <2>2, SameSessions, Zenon DEF IInv
<1>6. CASE ~BackfillPuts
  <2>1. active' = active /\ (exists' => exists) /\ (backfill' # "done" => backfill # "done")
    BY <1>6 DEF Stale, CleanupOffline, DeleteNode, PublishRemoval, PublishRefresh,
       SetNodeExpiry, Lapse, ExpireExpiredNodes, Reauth, BackfillLists, BackfillReads
  <2>2. SessionCount' /\ (exists' => active' <= Cardinality(Holders'))
    BY <1>4, <2>1 DEF IInv, CountInv, SessionCount
  <2>3. OnlineIsLive'
    <3>1. CASE \/ \E exp \in BOOLEAN : SetNodeExpiry(exp)
               \/ ExpireExpiredNodes
      BY <2>1, <3>1, Zenon DEF SetNodeExpiry, ExpireExpiredNodes, OnlineIsLive, ShouldBeOnline
    <3>2. CASE Lapse \/ Reauth
      BY <2>1, <3>2, Zenon DEF Lapse, Reauth, IInv, CountInv, OnlineIsLive
    <3>3. CASE UNCHANGED <<online, expired, lapsed>>
      BY <2>1, <3>3 DEF IInv, CountInv, OnlineIsLive
    <3>4. QED
      BY <1>6, <3>1, <3>2, <3>3, Zenon
      DEF Stale, CleanupOffline, DeleteNode, PublishRemoval, PublishRefresh,
          BackfillLists, BackfillReads
  <2>4. CountInv'
    BY <1>4, <2>2, <2>3 DEF IInv, CountInv
  <2>5. QED
    BY <1>1, <1>3, <2>4, SameSessions DEF IInv
<1>7. QED
  BY <1>5, <1>6

\* A restart ends every session, and the start-up loop arms a fresh timer.
LEMMA RestartInv ==
  ASSUME IInv, Restart
  PROVE  ShapeInv' /\ CountInv' /\ CollectInv'
<1>1. /\ \A s \in Sessions : pc'[s] = IF pc[s] = "new" THEN "new" ELSE "done"
      /\ active' = 0 /\ online' = FALSE /\ row' = row /\ exists' = row
      /\ gen' = (IF row THEN 1 ELSE 0) /\ timer' = gen' /\ watchers' = {gen'} \ {0}
      /\ tell' = tell
  BY DEF Restart
<1>2. \A s \in Sessions : Acquired(s)' <=> Acquired(s)
  BY <1>1, Zenon DEF Acquired
<1>3. ShapeInv'
  BY <1>1, <1>2, Zenon DEF IInv, ShapeInv
<1>4. Holders' = {}
  BY <1>1, <1>2 DEF Holders, Holding
<1>5. Cardinality(Holders') = 0
  BY <1>4, FS_EmptySet
<1>6. Cardinality(DoneSessions') \in Nat
  BY SessionSets DEF DoneSessions
<1>7. CountInv'
  BY <1>1, <1>5, <1>6 DEF CountInv, SessionCount, OnlineIsLive
<1>8. \A s \in Sessions : pc'[s] # "connected"
  BY <1>1, Zenon
<1>9. CollectInv'
  BY <1>1, <1>8 DEF CollectInv
<1>10. QED
  BY <1>3, <1>7, <1>9, Zenon

-----------------------------------------------------------------------------
(* Types and connections.                                                   *)

\* The Boolean part of TypeOK, and the rest of it.
Flags ==
  /\ row \in BOOLEAN /\ exists \in BOOLEAN
  /\ online \in BOOLEAN /\ expired \in BOOLEAN /\ lapsed \in BOOLEAN
  /\ failed \in BOOLEAN /\ removal \in BOOLEAN
  /\ refresh \in BOOLEAN /\ peerSees \in BOOLEAN

Rest ==
  /\ active \in 0..Cardinality(Sessions)
  /\ pc \in [Sessions -> PCs]
  /\ tell \in [Sessions -> {"nothing", "online", "current"}]
  /\ stop \in [Sessions -> BOOLEAN]
  /\ entry \in {"absent", "up", "down"}
  /\ conns \in SUBSET Sessions
  /\ entry = "absent" => conns = {}
  /\ gen \in {0} \cup Gens
  /\ timer \in 0..gen
  /\ watchers \in SUBSET Gens /\ queued \in SUBSET Gens /\ deleting \in SUBSET Gens
  /\ backfill \in Backfills
  /\ moves \in 0..MaxExpiry
  /\ restarts \in 0..MaxRestarts
  /\ scope \in Scopes

\* The two halves make TypeOK, now and after a step.
LEMMA Halves == (TypeOK <=> Flags /\ Rest) /\ (TypeOK' <=> Flags' /\ Rest')
BY Zenon DEF TypeOK, Flags, Rest

\* Every step keeps the variables in their types.
LEMMA NextType ==
  ASSUME IInv, Next
  PROVE  TypeOK'
<1> USE DEF otherVars, nodeVars, gcVars, batcherVars, newsVars, sessionVars
<1>1. TypeOK /\ Flags /\ Rest
  BY Halves DEF IInv
<1>2. Cardinality(Sessions) \in Nat
  BY SessionSets, Zenon
<1>3. ASSUME NEW s \in Sessions, Begin(s) \/ Step(s) \/ Hangup(s) \/ Stale(s)
      PROVE  TypeOK'
  <2>1. CASE Begin(s) \/ UpdateFails(s) \/ Generate(s) \/ Hangup(s) \/ GraceEnds(s)
    <3>1. CASE Begin(s)
      BY <1>1, <3>1 DEF Begin, TypeOK, Goto, PCs, Holding
    <3>2. CASE UpdateFails(s)
      BY <1>1, <3>2 DEF UpdateFails, TypeOK, Goto, PCs, Holding
    <3>3. CASE Generate(s)
      BY <1>1, <3>3 DEF Generate, TypeOK, Goto, PCs, Holding
    <3>4. CASE Hangup(s)
      BY <1>1, <3>4 DEF Hangup, TypeOK, Goto, PCs, Holding
    <3>5. CASE GraceEnds(s)
      BY <1>1, <3>5 DEF GraceEnds, TypeOK, Goto, PCs, Holding
    <3>6. QED
      BY <2>1, <3>1, <3>2, <3>3, <3>4, <3>5, Zenon
  <2>2. CASE Connect(s)
    <3>1. Flags'
      BY <1>1, <2>2, Zenon DEF Connect, Goto, PCs, Holding, ShouldBeOnline, Flags
    <3>2. Rest'
      BY <1>1, <2>2, ConnectInv, Zenon DEF Connect, Goto, PCs, Holding, ShouldBeOnline, Rest
    <3>3. QED
      BY <3>1, <3>2, Halves
  <2>3. CASE CancelGC(s)
    BY <1>1, <2>3 DEF CancelGC, TypeOK, Goto, PCs, Holding, Gens
  <2>4. CASE Register(s) \/ Deliver(s)
    BY <1>1, <2>4 DEF Register, Deliver, TypeOK, Goto, PCs, Holding
  <2>5. CASE Publish(s) \/ PublishOffline(s)
    <3>1. CASE Publish(s)
      <4>1. Flags'
        BY <1>1, <3>1, Zenon DEF Publish, Flags
      <4>2. Rest'
        BY <1>1, <3>1, Zenon DEF Publish, Goto, PCs, Holding, Rest
      <4>3. QED
        BY <4>1, <4>2, Halves
    <3>2. CASE PublishOffline(s)
      <4>1. Flags'
        BY <1>1, <3>2, Zenon DEF PublishOffline, Goto, PCs, Flags
      <4>2. Rest'
        BY <1>1, <3>2, Zenon DEF PublishOffline, Goto, PCs, Rest
      <4>3. QED
        BY <4>1, <4>2, Halves
    <3>3. QED
      BY <2>5, <3>1, <3>2
  <2>6. CASE AddFails(s)
    BY <1>1, <2>6 DEF AddFails, Drop, TypeOK, Goto, PCs, Holding
  <2>7. CASE Cleanup(s)
    BY <1>1, <2>7 DEF Cleanup, Drop, TypeOK, Goto, PCs, Holding
  <2>8. CASE Disconnect(s)
    <3>1. Flags'
      BY <1>1, <2>8, Zenon DEF Disconnect, Goto, PCs, ShouldBeOnline, Flags
    <3>2. Rest'
      BY <1>1, <2>8, DisconnectInv, Zenon DEF Disconnect, Goto, PCs, ShouldBeOnline, Rest
    <3>3. QED
      BY <3>1, <3>2, Halves
  <2>9. CASE Schedule(s)
    <3>1. gen + 1 \in Gens /\ gen' = gen + 1
      BY <1>1, <1>2, <2>9, LeaveInv DEF Schedule, TypeOK, Gens
    <3>2. timer' \in 0..gen'
      BY <2>9, <3>1 DEF Schedule, Gens
    <3>3. QED
      BY <1>1, <2>9, <3>1, <3>2 DEF Schedule, TypeOK, Goto, PCs
  <2>10. CASE Stale(s)
    BY <1>1, <2>10 DEF Stale, TypeOK
  <2>11. QED
    BY <1>3, <2>1, <2>2, <2>3, <2>4, <2>5, <2>6, <2>7, <2>8, <2>9, <2>10, Zenon DEF Step
<1>4. ASSUME NEW g \in Gens, TimerFires(g) \/ Reap(g) \/ Collect(g) \/ DeleteFunc(g)
      PROVE  TypeOK'
  <2>1. CASE TimerFires(g) \/ Reap(g)
    BY <1>1, <2>1 DEF TimerFires, Reap, TypeOK
  <2>2. CASE Collect(g)
    <3>1. Flags'
      BY <1>1, <2>2, Zenon DEF Collect, Flags
    <3>2. 0 \in 0..gen
      BY <1>1, <1>2 DEF Rest, Gens
    <3>3. Rest'
      BY <1>1, <2>2, <3>2 DEF Collect, Rest
    <3>4. QED
      BY <3>1, <3>3, Halves
  <2>3. CASE DeleteFunc(g)
    <3>1. Flags'
      BY <1>1, <2>3, Zenon DEF DeleteFunc, Flags
    <3>2. Rest'
      BY <1>1, <2>3 DEF DeleteFunc, Rest
    <3>3. QED
      BY <3>1, <3>2, Halves
  <2>4. QED
    BY <1>4, <2>1, <2>2, <2>3, Zenon
<1>5. CASE CleanupOffline \/ DeleteNode \/ PublishRemoval \/ PublishRefresh
  <2>1. CASE CleanupOffline
    BY <1>1, <2>1 DEF CleanupOffline, TypeOK
  <2>2. CASE DeleteNode
    BY <1>1, <2>2, ZenonT(30) DEF DeleteNode, TypeOK
  <2>3. CASE PublishRemoval
    BY <1>1, <2>3, ZenonT(30) DEF PublishRemoval, TypeOK
  <2>4. CASE PublishRefresh
    BY <1>1, <2>4, ZenonT(30), SMTT(30) DEF PublishRefresh, TypeOK
  <2>5. QED
    BY <1>5, <2>1, <2>2, <2>3, <2>4, Zenon
<1>6. CASE (\E exp \in BOOLEAN : SetNodeExpiry(exp)) \/ Lapse
  <2>1. Flags'
    BY <1>1, <1>6, ZenonT(30) DEF SetNodeExpiry, Lapse, ShouldBeOnline, Flags
  <2>2. Rest'
    BY <1>1, <1>6, MapSessionAssumption DEF SetNodeExpiry, Lapse, Rest
  <2>3. QED
    BY <2>1, <2>2, Halves
<1>7. CASE ExpireExpiredNodes \/ Reauth
  BY <1>1, <1>7, ZenonT(30), SMTT(30) DEF ExpireExpiredNodes, Reauth, ShouldBeOnline, TypeOK
<1>8. CASE BackfillLists \/ BackfillReads \/ BackfillPuts
  <2>1. CASE BackfillLists
    BY <1>1, <1>2, <2>1 DEF BackfillLists, TypeOK, Backfills
  <2>2. CASE BackfillReads
    BY <1>1, <1>2, <2>2 DEF BackfillReads, TypeOK, Backfills
  <2>3. CASE BackfillPuts
    BY <1>1, <1>2, <2>3 DEF BackfillPuts, TypeOK, Backfills
  <2>4. QED
    BY <1>8, <2>1, <2>2, <2>3
<1>9. CASE Restart
  <2>1. gen' \in {0, 1} /\ timer' = gen' /\ watchers' = {gen'} \ {0}
    BY <1>9 DEF Restart
  <2>2. 1 \in Gens
    BY <1>2 DEF Gens
  <2>3. gen' \in {0} \cup Gens /\ timer' \in 0..gen' /\ watchers' \in SUBSET Gens
    BY <2>1, <2>2
  <2>4. pc' \in [Sessions -> PCs] /\ stop' \in [Sessions -> BOOLEAN]
    BY <1>9 DEF Restart, PCs
  <2>5. Flags'
    BY <1>1, <1>9, Zenon DEF Restart, Flags
  <2>6. Rest'
    BY <1>1, <1>2, <1>9, <2>3, <2>4, MapSessionAssumption DEF Restart, Rest, Backfills
  <2>7. QED
    BY <2>5, <2>6, Halves
<1>10. QED
  BY <1>3, <1>4, <1>5, <1>6, <1>7, <1>8, <1>9, Zenon DEF Next, Collector, Server

\* Only Register adds a connection, and Cleanup and Restart remove it.
LEMMA NextConnection ==
  ASSUME IInv, Next
  PROVE  NoGhostConnection'
<1> USE DEF otherVars, nodeVars, gcVars, batcherVars, newsVars, sessionVars
<1>1. TypeOK /\ NoGhostConnection
  BY Zenon DEF IInv
<1>2. ASSUME NEW s \in Sessions, Begin(s) \/ Step(s) \/ Hangup(s) \/ Stale(s)
      PROVE  NoGhostConnection'
  <2>1. CASE Begin(s) \/ UpdateFails(s) \/ Connect(s) \/ CancelGC(s)
    BY <1>1, <2>1, Zenon DEF Begin, UpdateFails, Connect, CancelGC, Goto, TypeOK, NoGhostConnection
  <2>2. CASE Register(s)
    BY <1>1, <2>2, Zenon DEF Register, Goto, TypeOK, NoGhostConnection
  <2>3. CASE Generate(s) \/ Deliver(s) \/ Publish(s) \/ Hangup(s) \/ Stale(s)
    BY <1>1, <2>3, Zenon DEF Generate, Deliver, Publish, Hangup, Stale, Goto, TypeOK, NoGhostConnection
  <2>4. CASE AddFails(s) \/ Cleanup(s)
    BY <1>1, <2>4 DEF AddFails, Cleanup, Drop, Goto, TypeOK, NoGhostConnection
  <2>5. CASE GraceEnds(s) \/ Disconnect(s) \/ PublishOffline(s) \/ Schedule(s)
    BY <1>1, <2>5, Zenon DEF GraceEnds, Disconnect, PublishOffline, Schedule, Goto, TypeOK,
                      NoGhostConnection
  <2>6. QED
    BY <1>2, <2>1, <2>2, <2>3, <2>4, <2>5, Zenon DEF Step
<1>3. CASE PublishRemoval \/ Restart
  BY <1>3, Zenon DEF PublishRemoval, Restart, NoGhostConnection
<1>4. CASE UNCHANGED <<conns, pc>>
  BY <1>1, <1>4 DEF NoGhostConnection
<1>5. QED
  BY <1>2, <1>3, <1>4, Zenon DEF Next, Collector, Server, TimerFires, Reap, Collect, DeleteFunc,
     CleanupOffline, DeleteNode, PublishRefresh, SetNodeExpiry, Lapse, ExpireExpiredNodes,
     Reauth, BackfillLists, BackfillReads, BackfillPuts

-----------------------------------------------------------------------------
(* The invariant and what follows from it.                                  *)

\* A node that just registered, or was just loaded, satisfies the invariant.
LEMMA InitInv == Init => IInv
<1> SUFFICES ASSUME Init PROVE IInv
  OBVIOUS
<1>1. Cardinality(Sessions) \in Nat /\ Cardinality(DoneSessions) \in Nat
  BY SessionSets, Zenon DEF DoneSessions
<1>2. \A s \in Sessions : pc[s] = "new" /\ ~Acquired(s)
  BY DEF Init, Acquired
<1>3. Holders = {}
  BY <1>2 DEF Holders
<1>4. Cardinality(Holders) = 0
  BY <1>3, FS_EmptySet, Zenon
<1>5. PICK g \in {0, 1} : timer = g /\ gen = g /\ watchers = {g} \ {0}
  BY DEF Init
<1>6. gen \in {0} \cup Gens /\ timer \in 0..gen /\ watchers \in SUBSET Gens
  BY <1>1, <1>5 DEF Gens
<1>7. TypeOK
  <2>1. Flags
    BY Zenon DEF Init, Flags
  <2>2. Rest
    BY <1>1, <1>6, MapSessionAssumption DEF Init, Rest, PCs, Backfills
  <2>3. QED
    BY <2>1, <2>2, Halves
<1>8. ShapeInv /\ CollectInv /\ NoGhostConnection
  BY <1>2, <1>5, Zenon DEF Init, ShapeInv, CollectInv, NoGhostConnection
<1>9. CountInv
  BY <1>1, <1>4, <1>5 DEF Init, CountInv, SessionCount, OnlineIsLive
<1>10. QED
  BY <1>7, <1>8, <1>9 DEF IInv

\* The invariant is inductive: one case per action of MapSession.
LEMMA Invariance == Spec => []IInv
<1>1. IInv /\ [Next]_vars => IInv'
  <2>1. ASSUME IInv, Next PROVE IInv'
    <3>1. ShapeInv' /\ CountInv' /\ CollectInv'
      BY <2>1, PlainSteps, ConnectInv, CancelInv, DisconnectInv, LeaveInv, CollectorInv,
         NodeInv, RestartInv, Zenon
      DEF Next, Step, Collector, Server
    <3>2. QED
      BY <2>1, <3>1, NextType, NextConnection, Zenon DEF IInv
  <2>2. ASSUME IInv, UNCHANGED vars PROVE IInv'
    <3> USE <2>2 DEF vars, otherVars, nodeVars, gcVars, batcherVars, newsVars
    <3>1. TypeOK' /\ NoGhostConnection'
      BY DEF IInv, TypeOK, NoGhostConnection, sessionVars
    <3>2. ShapeInv' /\ CountInv'
      BY SameSessions, Zenon DEF IInv, CountInv, SessionCount, OnlineIsLive
    <3>3. CollectInv'
      BY SameSessions DEF IInv, CollectInv, sessionVars
    <3>4. QED
      BY <3>1, <3>2, <3>3, Zenon DEF IInv
  <2>3. QED
    BY <2>1, <2>2
<1>2. QED
  BY <1>1, InitInv, PTL DEF Spec

\* Every reachable state is well typed; in particular each session arms at
\* most one deletion, and ActiveSessions never exceeds the sessions there are.
THEOREM TypeCorrect == Spec => []TypeOK
<1>1. IInv => TypeOK
  BY DEF IInv
<1>2. QED
  BY <1>1, Invariance, PTL

\* ActiveSessions counts exactly the sessions between Connect and Disconnect,
\* and an online node has one, in every interleaving of any number of
\* reconnects, late cleanups, expiries, deletions and restarts.
THEOREM PresenceStaysExact == Spec => []PresenceExact
<1>1. IInv => PresenceExact
  BY DEF IInv, CountInv, PresenceExact
<1>2. QED
  BY <1>1, Invariance, PTL

\* An ephemeral node that connected and left has an armed and watched timer,
\* or its deletion is queued, under way or was refused by the database.
THEOREM EphemeralStaysDue == Spec => []EphemeralIsCollected
<1>1. ASSUME IInv PROVE EphemeralIsCollected
  <2>1. Quiet({"new", "done"}) => Pending = {}
    BY DEF Quiet, Pending, Holding
  <2>2. QED
    BY <1>1, <2>1 DEF IInv, CollectInv, EphemeralIsCollected
<1>2. QED
  BY <1>1, Invariance, PTL

\* No connection outlives its session in the batcher, however the failed
\* initial map, the stale send, the deletion and the cleanup interleave.
THEOREM ConnectionsEnd == Spec => []NoGhostConnection
<1>1. IInv => NoGhostConnection
  BY DEF IInv
<1>2. QED
  BY <1>1, Invariance, PTL
=============================================================================
